---------------------------- MODULE MCStorefront -----------------------------
(* Instances of Storefront for TLC. *)
EXTENDS Storefront, TLC

CONSTANTS r1, r2, r3

Ask(op, kind, of, sets) == [op |-> op, key |-> Key1(kind, of), sets |-> sets]

Read(kind, of) == Ask("read", kind, of, {})

UpdateStatus == Ask("update", "order", OldOrder, {"status"})
UpdateNothing == Ask("update", "order", OldOrder, {})
Rename == Ask("update", "product", OldProduct, {"name"})
Reprice == Ask("update", "product", OldProduct, {"price"})
RemoveOrder == Ask("remove", "order", OldOrder, {})
RemoveProduct == Ask("remove", "product", OldProduct, {})
CreateOrder2 == Ask("create", "order", r2, {})
CreateProduct2 == Ask("create", "product", r2, {})

\* An update, a second write and a read.
MixedWorkloads ==
    {(r1 :> ask[1]) @@ (r2 :> ask[2]) @@ (r3 :> ask[3]) : ask \in
        {<<Rename, Reprice, Read("product", OldProduct)>>,
         <<Rename, RemoveProduct, Read("product", OldProduct)>>,
         <<Rename, Reprice, Read("product", "stats")>>,
         <<Rename, CreateProduct2, Read("product", "featured10")>>,
         <<Rename, CreateOrder2, Read("product", "featured")>>,
         <<Rename, RemoveProduct, Read("product", "list")>>,
         <<UpdateStatus, RemoveOrder, Read("order", OldOrder)>>,
         <<UpdateStatus, UpdateNothing, Read("order", OldOrder)>>,
         <<Rename, Reprice, RemoveProduct>>,
         <<UpdateStatus, Rename, Read("order", "list")>>,
         <<UpdateStatus, CreateOrder2, Read("order", "stats")>>}}

\* A page is read while an order is updated.
ListWorkloads == {(r1 :> UpdateStatus) @@ (r2 :> Read("order", "list"))}

=============================================================================
