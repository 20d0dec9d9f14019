------------------------- MODULE MCInventoryService --------------------------
(* Instances of InventoryService for TLC. *)
EXTENDS InventoryService, TLC

CallerSymmetry == Permutations(Callers)

Ask(op, n) == [op |-> op, id |-> FirstId, n |-> n]

\* Only decreases, as in race-test.js.
Decreases == {Ask("decrease", 1), Ask("decrease", 2)}

AllCalls ==
    Decreases \cup {Ask("update", 1), Ask("remove", 0), Ask("create", 2), Ask("order", 2)}

=============================================================================
