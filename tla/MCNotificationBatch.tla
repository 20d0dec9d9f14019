------------------------- MODULE MCNotificationBatch -------------------------
(* Instances of NotificationBatch for TLC. *)
EXTENDS NotificationBatch, TLC

CONSTANTS j1, u1, u2, u3, u4

EitherName == {j1 :> "send-batch", j1 :> "send-product"}

\* All at different times; the first two in one INSERT, as the seeds do. The
\* newcomers may register in either order.
TwoAges ==
    {(u1 :> 1) @@ (u2 :> 2) @@ (u3 :> 3) @@ (u4 :> 4),
     (u1 :> 1) @@ (u2 :> 1) @@ (u3 :> 3) @@ (u4 :> 4)}

=============================================================================
