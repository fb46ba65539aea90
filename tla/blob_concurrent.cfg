\* Two threads, two ids, aligned logs, one I/O failure, no restart.
CONSTANTS
    Threads = {t1, t2}
    Ids = {k1, k2}
    ZeroId = ZeroId
    None = None
    DataSizes = {1, 2}
    DataBSize = 2
    HistoryBSize = 3
    ReadOffsets = {0}
    ReadSizes = {0}
    MaxWrites = 3
    MaxFailures = 1
    MaxRestarts = 0
    Crashes = FALSE
    PowerLosses = FALSE
SPECIFICATION Spec
SYMMETRY Symmetry
INVARIANT TypeOK
INVARIANT DataIndexCurrent
INVARIANT TailAligned
