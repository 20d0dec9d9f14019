SPECIFICATION Spec
CONSTANTS
    r1 = r1
    r2 = r2
    r3 = r3
    Requests = {r1, r2, r3}
    Products <- ThreeProducts
    NoOne = NoOne
    Carts <- OverlappingCarts
    InitialStock <- Shelf
    SlowHolders = FALSE
SYMMETRY RequestSymmetry
INVARIANTS
    StockConserved
    ExclusiveTransactions
PROPERTY ImplementsLedger
CHECK_DEADLOCK FALSE
