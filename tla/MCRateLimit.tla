----------------------------- MODULE MCRateLimit -----------------------------
(* Instances of RateLimit for TLC. *)
EXTENDS RateLimit

Limits == [w \in Windows |-> IF w = "short" THEN 1 ELSE 2]

\* A second has two ticks; the windows are no whole number of seconds.
Ttls == [w \in Windows |-> IF w = "short" THEN 3 ELSE 5]

=============================================================================
