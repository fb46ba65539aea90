\* Two threads, two ids, crashes with commands in flight and clean restarts,
\* no I/O failure (so no torn record), unaligned logs.
CONSTANTS
    Threads = {t1, t2}
    Ids = {k1, k2}
    ZeroId = ZeroId
    None = None
    DataSizes = {1}
    DataBSize = 0
    HistoryBSize = 0
    ReadOffsets = {0}
    ReadSizes = {0}
    MaxWrites = 3
    MaxFailures = 0
    MaxRestarts = 2
    Crashes = TRUE
    PowerLosses = FALSE
SPECIFICATION Spec
SYMMETRY Symmetry
INVARIANT DataIndexCurrent
PROPERTY RebuildPreservesIndex
