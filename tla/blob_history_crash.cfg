\* One thread, no I/O failure, one crash with a command in flight.
CONSTANTS
    Threads = {t1}
    Ids = {k1}
    ZeroId = ZeroId
    None = None
    DataSizes = {1}
    DataBSize = 0
    HistoryBSize = 0
    ReadOffsets = {0}
    ReadSizes = {0}
    MaxWrites = 2
    MaxFailures = 0
    MaxRestarts = 1
    Crashes = TRUE
    PowerLosses = FALSE
SPECIFICATION Spec
SYMMETRY Symmetry
INVARIANT HistoryComplete
