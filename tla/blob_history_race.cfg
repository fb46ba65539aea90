\* Two threads updating the history of one id, no failures, no restarts.
CONSTANTS
    Threads = {t1, t2}
    Ids = {k1}
    ZeroId = ZeroId
    None = None
    DataSizes = {1}
    DataBSize = 0
    HistoryBSize = 0
    ReadOffsets = {0}
    ReadSizes = {0}
    MaxWrites = 3
    MaxFailures = 0
    MaxRestarts = 0
    Crashes = FALSE
    PowerLosses = FALSE
SPECIFICATION Spec
SYMMETRY Symmetry
INVARIANT HistoryComplete
