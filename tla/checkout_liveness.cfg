SPECIFICATION FairSpec
CONSTANTS
    r1 = r1
    r2 = r2
    Requests = {r1, r2}
    Products <- TwoProducts
    NoOne = NoOne
    Carts <- SameCarts
    InitialStock <- Shelf
    SlowHolders = TRUE
PROPERTIES
    EveryRequestEnds
CHECK_DEADLOCK FALSE
