SPECIFICATION Spec
CONSTANTS
    c1 = c1
    c2 = c2
    c3 = c3
    c4 = c4
    Callers = {c1, c2, c3, c4}
    Calls <- Decreases
    FirstId = FirstId
    FirstQuantity = 4
    NoRow = NoRow
    MaxRetries = 3
SYMMETRY CallerSymmetry
INVARIANTS
    ConflictMeansContention
PROPERTY ImplementsLedger
CHECK_DEADLOCK FALSE
