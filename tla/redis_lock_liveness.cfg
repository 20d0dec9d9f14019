SPECIFICATION FairSpec
CONSTANTS
    c1 = c1
    c2 = c2
    k1 = k1
    Clients = {c1, c2}
    Keys = {k1}
    NoToken = NoToken
    TtlMs = 2
    TimeoutMs = 3
    MaxAttempts = 2
PROPERTIES
    WaiterEnds
    LockComesBack
