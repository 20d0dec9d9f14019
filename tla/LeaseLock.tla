------------------------------ MODULE LeaseLock ------------------------------
(***************************************************************************)
(* What the ILock contract promises to its users, free of Redis, of time   *)
(* and of retries.  A key has at most one owner, and an owner is a token.  *)
(* A caller that was granted a key is one of its "believers" until it      *)
(* gives the key back or disappears: it acts as if it held the key.  The   *)
(* lock is a lease, so a believer may no longer be the owner; but a        *)
(* believer that gives up a key never takes it from the current owner.     *)
(***************************************************************************)

CONSTANTS
    Keys,      \* what can be locked
    Tokens,    \* what a successful acquire returns
    NoToken    \* owns the keys nobody owns; not one of Tokens

VARIABLES
    owner,     \* owner[k]: the token that owns k now, or NoToken
    believers  \* the pairs <<k, t>> whose caller thinks that t owns k

leaseVars == <<owner, believers>>

-----------------------------------------------------------------------------

LeaseInit ==
    /\ owner = [k \in Keys |-> NoToken]
    /\ believers = {}

\* acquire: only a key nobody owns is granted.
Grant(k, t) ==
    /\ owner[k] = NoToken
    /\ owner' = [owner EXCEPT ![k] = t]
    /\ believers' = believers \cup {<<k, t>>}

\* The grant happened and its answer never reached the caller.
GrantUnheard(k, t) ==
    /\ owner[k] = NoToken
    /\ owner' = [owner EXCEPT ![k] = t]
    /\ UNCHANGED believers

\* release: frees the key only when its token still owns it.
GiveBack(k, t) ==
    /\ <<k, t>> \in believers
    /\ believers' = believers \ {<<k, t>>}
    /\ owner' = [owner EXCEPT ![k] = IF @ = t THEN NoToken ELSE @]

\* Callers that crash, or whose release is lost, leave their keys owned.
Abandon(B) ==
    /\ B \subseteq believers
    /\ believers' = believers \ B
    /\ UNCHANGED owner

\* Leases that run out, one or several at the same instant.
Lapse(K) ==
    /\ K # {} /\ \A k \in K : owner[k] # NoToken
    /\ owner' = [k \in Keys |-> IF k \in K THEN NoToken ELSE owner[k]]
    /\ UNCHANGED believers

LeaseNext ==
    \/ \E k \in Keys, t \in Tokens : 
            Grant(k, t) \/ GrantUnheard(k, t) \/ GiveBack(k, t)
    \/ \E B \in SUBSET believers : Abandon(B)
    \/ \E K \in SUBSET Keys : Lapse(K)

LeaseSpec == LeaseInit /\ [][LeaseNext]_leaseVars

=============================================================================
