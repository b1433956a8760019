SPECIFICATION Spec
CONSTANTS
    Caller = {k1, k2}
    Conn = {o1, o2, o3}
    MaxIdle = 1
    MaxBatch = 2
    MaxCmds = 4
SYMMETRY PoolSymmetry
INVARIANTS
    TypeOK
    Exclusive
    OwnReplies
    DoHasNetClient
    SocketsBounded
\* The bound on commands stops the run.
CHECK_DEADLOCK FALSE
