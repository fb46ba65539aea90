\* One thread, two ids, one failed append, two power losses:
\* appends after any start-up land past every indexed record; READs at
\* offset 0 and past the end of a record.
CONSTANTS
    Threads = {t1}
    Ids = {k1, k2}
    ZeroId = ZeroId
    None = None
    DataSizes = {1}
    DataBSize = 0
    HistoryBSize = 0
    ReadOffsets = {0, 2}
    ReadSizes = {0}
    MaxWrites = 2
    MaxFailures = 1
    MaxRestarts = 2
    Crashes = FALSE
    PowerLosses = TRUE
SPECIFICATION Spec
SYMMETRY Symmetry
PROPERTY IndexedRecordsStay
