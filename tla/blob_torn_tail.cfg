\* One thread, one failed append, two restarts: a record torn by a failed
\* pwrite sits below the tail the next start-up takes from lseek(SEEK_END).
CONSTANTS
    Threads = {t1}
    Ids = {k1, k2}
    ZeroId = ZeroId
    None = None
    DataSizes = {1}
    DataBSize = 0
    HistoryBSize = 0
    ReadOffsets = {0}
    ReadSizes = {0}
    MaxWrites = 3
    MaxFailures = 1
    MaxRestarts = 2
    Crashes = FALSE
    PowerLosses = FALSE
SPECIFICATION Spec
SYMMETRY Symmetry
INVARIANT DataIndexCurrent
