SPECIFICATION Spec
CONSTANTS
    r1 = r1
    r2 = r2
    r3 = r3
    Requests = {r1, r2}
    Workloads <- ListWorkloads
    OldOrder = OldOrder
    OldProduct = OldProduct
    Gone = Gone
    NoEntry = NoEntry
PROPERTIES
    ListsInvalidated
CHECK_DEADLOCK FALSE
