\* One thread, one id, no I/O failure, power losses: a start-up indexes
\* a record whose header reached the disk and whose payload did not.
CONSTANTS
    Threads = {t1}
    Ids = {k1}
    ZeroId = ZeroId
    None = None
    DataSizes = {1, 2}
    DataBSize = 0
    HistoryBSize = 0
    ReadOffsets = {0}
    ReadSizes = {0}
    MaxWrites = 3
    MaxFailures = 0
    MaxRestarts = 1
    Crashes = FALSE
    PowerLosses = TRUE
SPECIFICATION Spec
SYMMETRY Symmetry
INVARIANT IndexedPayloadWritten
