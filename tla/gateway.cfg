SPECIFICATION Spec
CONSTANTS
    r1 = r1
    r2 = r2
    r3 = r3
    e0 = e0
    e1 = e1
    o0 = o0
    o1 = o1
    o2 = o2
    Requests = {r1, r2, r3}
    Mails = {r1, r2, r3}
    MailWorkers = {1, 2}
    Nobody = Nobody
    MaxAttempts = 3
    MaxStalled = 1
    Workloads <- Together
    Old = Old
    OldKeys <- OldKeysHere
    Emails = {e0, e1}
    Orders = {o0, o1}
    OtherOrders = {o2}
    NoRow = NoRow
INVARIANTS
    TypeOK
    OneAccountPerEmail
    HonestStatus
    MailPromise
PROPERTIES
    EverythingEnds
CHECK_DEADLOCK FALSE
