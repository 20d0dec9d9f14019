SPECIFICATION Spec
CONSTANTS
    Slots = {1, 2}
    Trackers = {t1}
    Unlimited = Unlimited
    Limit <- Limits
    Ttl <- Ttls
    PerSecond = 2
    MaxHits = 4
INVARIANTS
    TypeOK
    TwiceTheLimit
    RetryAfterSuffices
PROPERTIES
    RefusedOnlyAtLimit
    ShutOutEnds
