SPECIFICATION Spec
CONSTANTS
    Symbols <- MCSymbols
    BufferSize = 10
    MaxLength = 20
    Protocols = {"redis", "line", "interface"}
    Items <- MCItems
    Values <- MCValues
    MaxKeys = 2
    MaxCalls = 2
INVARIANTS
    TypeOK
    ReadAsSent
    InStep
    Answered
PROPERTY
    CallsReturn
CHECK_DEADLOCK FALSE
