SPECIFICATION Spec
CONSTANTS
    Client = {c1, c2}
    Key = {k1, k2}
    Member = {m1, m2, m3}
    None = None
    MaxArgs = 2
    MaxCmds = 4
SYMMETRY SetsSymmetry
INVARIANTS
    TypeOK
    MembersAccounted
    InterCorrect
\* The bound on commands stops the run, or the runtime has thrown.
CHECK_DEADLOCK FALSE
