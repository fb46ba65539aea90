\* Two threads, one id, no allocation failure: a READ races a WRITE or DEL.
CONSTANTS
    Threads = {t1, t2}
    Ids = {k1}
    Sizes = {1}
    ReadOffsets = {0}
    ReadSizes = {0}
    IoWidth = 2
    MaxObjs = 2
    MaxFailures = 0
    None = None
    Null = Null
    Garbage = Garbage
SPECIFICATION Spec
SYMMETRY Symmetry
INVARIANT ReadTouchesLiveMemory
