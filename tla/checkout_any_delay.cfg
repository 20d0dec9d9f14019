SPECIFICATION Spec
CONSTANTS
    r1 = r1
    r2 = r2
    r3 = r3
    Requests = {r1, r2, r3}
    Products <- TwoProducts
    NoOne = NoOne
    Carts <- MixedCarts
    InitialStock <- Shelf
    SlowHolders = TRUE
SYMMETRY RequestSymmetry
INVARIANTS
    TypeOK
    LossNeedsLateCommit
    StaleReadsLostTheirLease
    RefusedForGood
    NoLeaseCycle
    EndedHoldsNothing
CHECK_DEADLOCK FALSE
