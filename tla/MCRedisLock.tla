----------------------------- MODULE MCRedisLock -----------------------------
(* Instances of RedisLock for TLC. *)
EXTENDS RedisLock, TLC

ClientSymmetry == Permutations(Clients)

=============================================================================
