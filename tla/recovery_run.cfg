\* Merge and dc runs over two nodes, three keys in two
\* units on one worker, one key per batch, one failed RPC, cutoff at timestamp 2.
CONSTANTS
    Nodes = {1, 2}
    Keys = {1, 2, 3}
    Versions <- MCVersions
    Units = {"u1", "u2"}
    KeyRange <- MCKeyRange
    Workers = {"w1"}
    Owner <- MCOwner
    OptionSpace <- MCOptionSpace
    BatchSize = 1
    Cutoff = 2
    MaxFailures = 1
    None = None
SPECIFICATION Spec
CHECK_DEADLOCK FALSE
INVARIANT RecoveryIdempotent
PROPERTY RecoveryImplementsStore
