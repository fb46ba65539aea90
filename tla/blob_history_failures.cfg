\* One thread, one id, one failed step of the history update, no restart:
\* a failure whose errno is 0 is acknowledged with no entry appended.
CONSTANTS
    Threads = {t1}
    Ids = {k1}
    ZeroId = ZeroId
    None = None
    DataSizes = {1}
    DataBSize = 0
    HistoryBSize = 0
    ReadOffsets = {0}
    ReadSizes = {0}
    MaxWrites = 2
    MaxFailures = 1
    MaxRestarts = 0
    Crashes = FALSE
    PowerLosses = FALSE
SPECIFICATION Spec
SYMMETRY Symmetry
INVARIANT HistoryComplete
