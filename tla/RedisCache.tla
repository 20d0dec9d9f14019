------------------------------ MODULE RedisCache -----------------------------
(***************************************************************************)
(* RedisCacheService, the implementation of ICache: one Redis key per      *)
(* entry, stored with EX when the caller passes a TTL and for good when    *)
(* it does not.  Every command is atomic; the TTL is not counted down, an  *)
(* entry that has one may be gone at any moment.                           *)
(***************************************************************************)

CONSTANTS
    Keys,
    Values(_),   \* what may be stored under a key
    NoEntry

VARIABLE cache

\* ttl : was the entry stored with EX?
Entries(k) == [value : Values(k), ttl : BOOLEAN] \cup {NoEntry}

CacheTypeOK == DOMAIN cache = Keys /\ \A k \in Keys : cache[k] \in Entries(k)

CacheInit == cache = [k \in Keys |-> NoEntry]

\* get() finds something under key k.
Cached(k) == cache[k] # NoEntry

Set(k, v, ttl) == cache' = [cache EXCEPT ![k] = [value |-> v, ttl |-> ttl]]

Delete(k) == cache' = [cache EXCEPT ![k] = NoEntry]

\* The TTL of key k has run out.
Expire(k) ==
    /\ Cached(k) /\ cache[k].ttl
    /\ cache' = [cache EXCEPT ![k] = NoEntry]

=============================================================================
