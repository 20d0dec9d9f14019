--------------------------- MODULE MCOrderCheckout ---------------------------
(* Instances of OrderCheckout for TLC. *)
EXTENDS OrderCheckout, TLC

RequestSymmetry == Permutations(Requests)

TwoProducts == 1..2
Shelf == 1 :> 2 @@ 2 :> 1

\* One item, two items, an item of quantity 0, and no item at all.
MixedCarts == {1 :> 1, 1 :> 2 @@ 2 :> 1, 1 :> 1 @@ 2 :> 0, << >>}

\* Product 3 exists and was never given an inventory row.
ThreeProducts == 1..3
OverlappingCarts ==
    {1 :> 1 @@ 2 :> 1, 2 :> 1, 1 :> 1 @@ 2 :> 0, 2 :> 1 @@ 3 :> 1}

\* Both orders want both products.
SameCarts == {1 :> 1 @@ 2 :> 1}

=============================================================================
