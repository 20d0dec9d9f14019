SPECIFICATION Spec
CONSTANTS
    r1 = r1
    r2 = r2
    r3 = r3
    Requests = {r1, r2, r3}
    Workloads <- MixedWorkloads
    OldOrder = OldOrder
    OldProduct = OldProduct
    Gone = Gone
    NoEntry = NoEntry
INVARIANTS
    TypeOK
    StaleNeedsReason
PROPERTIES
    SerialUpdatesSurvive
    StaleGoes
CHECK_DEADLOCK FALSE
