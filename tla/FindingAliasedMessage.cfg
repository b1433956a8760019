SPECIFICATION Spec
CONSTANTS
    Conn = {c1, c2}
    Addr = {a1, a2}
    Topic = {t1}
    None = None
    Aliased = TRUE
    MaxCmds = 3
SYMMETRY ClientSymmetry
CHECK_DEADLOCK FALSE
INVARIANTS
    DeliveredAsPublished
