SPECIFICATION Spec
CONSTANTS
    Conn = {c1, c2}
    Addr = {a1, a2}
    None = None
    MaxRequests = 2
    Protocols = {"spawning", "inline"}
SYMMETRY ConnSymmetry
INVARIANTS
    CloseIsIdempotent
