SPECIFICATION Spec
CONSTANTS
    c1 = c1
    c2 = c2
    c3 = c3
    k1 = k1
    Clients = {c1, c2, c3}
    Keys = {k1}
    NoToken = NoToken
    TtlMs = 3
    TimeoutMs = 2
    MaxAttempts = 2
SYMMETRY ClientSymmetry
INVARIANTS
    TypeOK
    LeaseProtectsHolder
PROPERTY ImplementsLeaseLock
