SPECIFICATION Spec
CONSTANTS
    j1 = j1
    u1 = u1
    u2 = u2
    u3 = u3
    u4 = u4
    Jobs = {j1}
    Names <- EitherName
    Workers = {1}
    Nobody = Nobody
    MaxAttempts = 2
    MaxStalled = 1
    BatchSize = 2
    FirstUsers = {u1, u2}
    Newcomers = {u3, u4}
    Buyers = {u2}
    Ages <- TwoAges
    NoRun = NoRun
INVARIANTS
    TypeOK
    MissedNeedsRemoval
    OncePerRun
PROPERTIES
    EveryJobEnds
CHECK_DEADLOCK FALSE
