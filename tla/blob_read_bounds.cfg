\* One thread, two ids, aligned data log, no failure and no restart; READs
\* at offsets 0..2 of 0..2 cells (0: the whole record).
CONSTANTS
    Threads = {t1}
    Ids = {k1, k2}
    ZeroId = ZeroId
    None = None
    DataSizes = {1, 2}
    DataBSize = 2
    HistoryBSize = 0
    ReadOffsets = {0, 1, 2}
    ReadSizes = {0, 1, 2}
    MaxWrites = 2
    MaxFailures = 0
    MaxRestarts = 0
    Crashes = FALSE
    PowerLosses = FALSE
SPECIFICATION Spec
SYMMETRY Symmetry
INVARIANT ReadReturnsRequestedBytes
