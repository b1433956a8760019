SPECIFICATION Spec
CONSTANTS
    Conn = {c1, c2, c3}
    Addr = {a1, a2, a3}
    Topic = {t1}
    None = None
    Aliased = FALSE
    MaxCmds = 3
SYMMETRY ClientSymmetry
CHECK_DEADLOCK FALSE
INVARIANTS
    SubscribersReached
