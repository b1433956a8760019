SPECIFICATION Spec
CONSTANTS
    Client = {c1, c2}
    Key = {k1, k2}
    Member = {m1, m2}
    None = None
    MaxArgs = 2
    MaxCmds = 4
SYMMETRY SetsSymmetry
INVARIANTS
    FramesComplete
\* The bound on commands stops the run, or the runtime has thrown.
CHECK_DEADLOCK FALSE
