SPECIFICATION Spec
CONSTANTS
    Client = {c1, c2, c3}
    None = None
SYMMETRY ClientSymmetry
INVARIANTS
    SizeAccounting
\* The process may end, and the clients are used up.
CHECK_DEADLOCK FALSE
