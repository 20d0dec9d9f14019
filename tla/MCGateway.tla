------------------------------ MODULE MCGateway ------------------------------
(* Instances of Gateway for TLC. *)
EXTENDS Gateway

CONSTANTS r1, r2, r3, e0, e1, o0, o1, o2

Ask(op, table, id, key) ==
    [op |-> op, table |-> table, id |-> id, key |-> key, as |-> Old, valid |-> TRUE]

Invalid(ask) == [ask EXCEPT !.valid = FALSE]

OldKeysHere == [users |-> e0, payments |-> o0]

Register(e) == Ask("register", "users", Old, e)
CreateUser(e) == Ask("create", "users", Old, e)
UpdateUser(e) == Ask("update", "users", Old, e)
RemoveUser == Ask("remove", "users", Old, NoRow)
FindUser == Ask("find", "users", Old, NoRow)
Pay(o) == Ask("create", "payments", Old, o)
UpdatePayment(o) == Ask("update", "payments", Old, o)
RemovePayment == Ask("remove", "payments", Old, NoRow)
QueueMail1 == Ask("queueMail", "users", Old, NoRow)
SendMail1 == Ask("sendMail", "users", Old, NoRow)

PlaceOrderOfUser == Ask("placeOrder", "users", Old, NoRow)
DropOrder(o) == Ask("removeOrder", "payments", Old, o)

Together ==
    {(r1 :> ask[1]) @@ (r2 :> ask[2]) @@ (r3 :> ask[3]) : ask \in
        {<<Register(e1), Register(e1), CreateUser(e1)>>,
         <<Register(e0), UpdateUser(e1), Register(e1)>>,
         <<Register(e0), RemoveUser, UpdateUser(NoRow)>>,
         <<RemoveUser, UpdateUser(e1), Ask("login", "users", Old, e1)>>,
         <<RemoveUser, FindUser, Invalid(CreateUser(e1))>>,
         <<RemoveUser, PlaceOrderOfUser, UpdateUser(e1)>>,
         <<Pay(o1), Pay(o1), UpdatePayment(o1)>>,
         <<Pay(o2), RemovePayment, UpdatePayment(NoRow)>>,
         <<UpdatePayment(o1), Pay(o0), DropOrder(o1)>>,
         <<RemovePayment, Pay(o0), DropOrder(o0)>>,
         <<QueueMail1, SendMail1, Invalid(QueueMail1)>>}}

=============================================================================
