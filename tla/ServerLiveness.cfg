SPECIFICATION FairSpec
CONSTANTS
    Conn = {c1, c2}
    Addr = {a1}
    None = None
    MaxRequests = 1
    Protocols = {"spawning"}
PROPERTIES
    ShutdownTerminates
    HangupReaped
