SPECIFICATION Spec
CONSTANTS
    Key <- MCKey
    Pattern <- MCPattern
    Amount = {1, 3}
    Absent = Absent
    Empty = Empty
    Bits = 3
    MaxHistory = 2
    MaxOps = 6
INVARIANTS
    TypeOK
    CountConserved
    HistoryWindow
    ResetsAreShown
    PatternKeys
\* The bound on commands stops the run.
CHECK_DEADLOCK FALSE
