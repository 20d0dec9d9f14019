SPECIFICATION Spec
CONSTANTS
    c1 = c1
    c2 = c2
    c3 = c3
    c4 = c4
    Callers = {c1, c2, c3, c4}
    Calls <- AllCalls
    FirstId = FirstId
    FirstQuantity = 3
    NoRow = NoRow
    MaxRetries = 2
SYMMETRY CallerSymmetry
INVARIANTS
    TypeOK
    DecreaseOnce
    ShortForGood
    OnlyDecreasesBesideOrdersAreLost
CHECK_DEADLOCK FALSE
