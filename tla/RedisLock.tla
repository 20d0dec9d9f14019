------------------------------ MODULE RedisLock ------------------------------
(***************************************************************************)
(* RedisLockService: a distributed lock made of one Redis key per locked   *)
(* name, taken with SET NX PX and given back by a script that compares the *)
(* token before it deletes.                                                *)
(*                                                                         *)
(* Each client makes one call of execute (one attempt) or executeWithWait  *)
(* (attempts until a deadline).  A caller that uses acquire / release or   *)
(* acquireWithWait / release directly, as OrderService.create does, goes   *)
(* through the same steps.                                                 *)
(*                                                                         *)
(* Time is relative: every Redis key carries what is left of its PX, every *)
(* client what it has waited so far, and Tick ages them all.  A client may *)
(* be delayed by any number of ticks at any point, which is what the event *)
(* loop, the network and the random back-off of the retry loop amount to.  *)
(***************************************************************************)
EXTENDS Integers

CONSTANTS
    Clients,      \* the calls, one per client
    Keys,         \* the names they lock
    NoToken,
    TtlMs,        \* ttlMs, in ticks
    TimeoutMs,    \* options.timeoutMs, in ticks
    MaxAttempts   \* bound: how often one waiting call may try

ASSUME RedisLockAssumption ==
    /\ TtlMs \in Nat \ {0}
    /\ TimeoutMs \in Nat \ {0}
    /\ MaxAttempts \in Nat \ {0}
    /\ NoToken \notin Clients \X (1..MaxAttempts)

VARIABLES
    store,      \* store[k]: the value and the remaining PX of "lock:k"
    pc,         \* where each call is
    key,        \* the name it locks
    waits,      \* TRUE for the ...WithWait calls
    waited,     \* Date.now() - startedAt, counted up to TimeoutMs
    attempt,    \* acquire() calls made so far
    leaseLeft   \* ghost: what is left of the lease this call was granted

vars == <<store, pc, key, waits, waited, attempt, leaseLeft>>

-----------------------------------------------------------------------------
(* Tokens and Redis values *)

Tokens == Clients \X (1..MaxAttempts)

\* randomUUID: every acquire() makes a token no other acquire() makes.
Token(c) == <<c, attempt[c]>>

Entry == [token : Tokens \cup {NoToken}, ttl : 0..TtlMs]

Free == [token |-> NoToken, ttl |-> 0]

\* Mutants: SET without PX; SET with EX, which counts seconds.
SetWithoutPX(k, t) == [store EXCEPT ![k] = [token |-> t, ttl |-> 0]]
SetWithEX(k, t) == [store EXCEPT ![k] = [token |-> t, ttl |-> 1000 * TtlMs]]

\* SET key token PX ttlMs NX, on a key that does not exist.
SetNX(k, t) == [store EXCEPT ![k] = [token |-> t, ttl |-> TtlMs]]

\* Mutant: DEL without the comparison.
ReleasedBlindly(k, t) == [store EXCEPT ![k] = Free]

\* RELEASE_LOCK_SCRIPT: compare, then delete.
Released(k, t) == IF store[k].token = t THEN [store EXCEPT ![k] = Free] ELSE store

Sooner(n) == IF n = 0 THEN 0 ELSE n - 1

\* One tick of Redis's own clock: a key with a TTL disappears with its last one.
Aged(e) == IF e.ttl = 1 THEN Free ELSE [e EXCEPT !.ttl = Sooner(@)]

Later(n) == IF n < TimeoutMs THEN n + 1 ELSE n

-----------------------------------------------------------------------------
(* Program counters *)

Waiting  == {"waiting", "setting"}     \* inside acquire / acquireWithWait
Inside   == {"section", "releasing"}   \* acts as the holder
Terminal == {"done", "refused", "timedOut", "failed", "crashed"}
States   == {"idle"} \cup Waiting \cup Inside \cup Terminal

TypeOK ==
    /\ store \in [Keys -> Entry]
    /\ pc \in [Clients -> States]
    /\ key \in [Clients -> Keys]
    /\ waits \in [Clients -> BOOLEAN]
    /\ waited \in [Clients -> 0..TimeoutMs]
    /\ attempt \in [Clients -> 0..MaxAttempts]
    /\ leaseLeft \in [Clients -> 0..TtlMs]

Init ==
    /\ store = [k \in Keys |-> Free]
    /\ pc = [c \in Clients |-> "idle"]
    /\ key \in [Clients -> Keys]
    /\ waits \in [Clients -> BOOLEAN]
    /\ waited = [c \in Clients |-> 0]
    /\ attempt = [c \in Clients |-> 0]
    /\ leaseLeft = [c \in Clients |-> 0]

Goto(c, state) == pc' = [pc EXCEPT ![c] = state]

\* execute tries at once; executeWithWait enters the retry loop.
Call(c) ==
    /\ pc[c] = "idle"
    /\ IF waits[c]
         THEN Goto(c, "waiting") /\ UNCHANGED attempt
         ELSE Goto(c, "setting") /\ attempt' = [attempt EXCEPT ![c] = 1]
    /\ UNCHANGED <<store, key, waits, waited, leaseLeft>>

\* while (Date.now() - startedAt < timeoutMs): one more acquire().
StartAttempt(c) ==
    /\ pc[c] = "waiting"
    /\ waited[c] < TimeoutMs
    /\ attempt[c] < MaxAttempts
    /\ attempt' = [attempt EXCEPT ![c] = @ + 1]
    /\ Goto(c, "setting")
    /\ UNCHANGED <<store, key, waits, waited, leaseLeft>>

\* Mutant: while (true).
NeverGiveUp(c) == FALSE

\* The loop ends, or remainingMs <= 0 breaks it: LockTimeoutException.
GiveUp(c) ==
    /\ pc[c] = "waiting"
    /\ waited[c] >= TimeoutMs
    /\ Goto(c, "timedOut")
    /\ UNCHANGED <<store, key, waits, waited, attempt, leaseLeft>>

\* Mutant: SET without NX.
SetWithoutNX(c) ==
    /\ pc[c] = "setting"
    /\ store' = SetNX(key[c], Token(c))
    /\ leaseLeft' = [leaseLeft EXCEPT ![c] = TtlMs]
    /\ Goto(c, "section")
    /\ UNCHANGED <<key, waits, waited, attempt>>

\* Redis runs the SET and answers OK.
SetOk(c) ==
    /\ pc[c] = "setting"
    /\ store[key[c]] = Free
    /\ store' = SetNX(key[c], Token(c))
    /\ leaseLeft' = [leaseLeft EXCEPT ![c] = TtlMs]
    /\ Goto(c, "section")
    /\ UNCHANGED <<key, waits, waited, attempt>>

\* Redis answers nil: sleep and retry, or LockAlreadyAcquiredException.
AfterNil(c) == IF waits[c] THEN "waiting" ELSE "refused"

SetBusy(c) ==
    /\ pc[c] = "setting"
    /\ store[key[c]] # Free
    /\ Goto(c, AfterNil(c))
    /\ UNCHANGED <<store, key, waits, waited, attempt, leaseLeft>>

\* The connection breaks after Redis ran the SET.  Either the call rejects,
\* or the client library sends the SET again and is refused by its own lock.
SetReplyLost(c) ==
    /\ pc[c] = "setting"
    /\ store[key[c]] = Free
    /\ store' = SetNX(key[c], Token(c))
    /\ Goto(c, "failed") \/ Goto(c, AfterNil(c))
    /\ UNCHANGED <<key, waits, waited, attempt, leaseLeft>>

\* The connection breaks before Redis ran the SET: the call rejects.
SetError(c) ==
    /\ pc[c] = "setting"
    /\ Goto(c, "failed")
    /\ UNCHANGED <<store, key, waits, waited, attempt, leaseLeft>>

\* The callback returns or throws: the finally block is entered.
FinishCallback(c) ==
    /\ pc[c] = "section"
    /\ Goto(c, "releasing")
    /\ UNCHANGED <<store, key, waits, waited, attempt, leaseLeft>>

Release(c) ==
    /\ pc[c] = "releasing"
    /\ store' = Released(key[c], Token(c))
    /\ Goto(c, "done")
    /\ UNCHANGED <<key, waits, waited, attempt, leaseLeft>>

\* The script never reaches Redis: the lock is left to its TTL.
ReleaseError(c) ==
    /\ pc[c] = "releasing"
    /\ Goto(c, "failed")
    /\ UNCHANGED <<store, key, waits, waited, attempt, leaseLeft>>

\* The process dies with the call in it.
Crash(c) ==
    /\ pc[c] \in Waiting \cup Inside
    /\ Goto(c, "crashed")
    /\ UNCHANGED <<store, key, waits, waited, attempt, leaseLeft>>

Tick ==
    /\ store' = [k \in Keys |-> Aged(store[k])]
    /\ leaseLeft' = [c \in Clients |-> Sooner(leaseLeft[c])]
    /\ waited' = [c \in Clients |->
                    IF pc[c] \in Waiting THEN Later(waited[c]) ELSE waited[c]]
    /\ UNCHANGED <<pc, key, waits, attempt>>

\* What the waiting side of a call does by itself.
WaiterStep(c) == StartAttempt(c) \/ GiveUp(c) \/ SetOk(c) \/ SetBusy(c)

Next ==
    \/ \E c \in Clients :
        \/ Call(c) \/ WaiterStep(c)
        \/ SetReplyLost(c) \/ SetError(c)
        \/ FinishCallback(c) \/ Release(c) \/ ReleaseError(c)
        \/ Crash(c)
    \/ Tick

Spec == Init /\ [][Next]_vars

\* Timers fire, time passes, Redis answers.  Nothing is assumed of the
\* holders: a callback may hang for ever.
Fairness == WF_vars(Tick) /\ \A c \in Clients : WF_vars(WaiterStep(c))

FairSpec == Spec /\ Fairness

-----------------------------------------------------------------------------
(* Properties *)

\* While a caller's lease has not run out, the Redis key still carries the
\* caller's token with exactly the time that is left: nobody else can have
\* taken or deleted the lock (SET NX, compare-and-delete, PX).
LeaseProtectsHolder ==
    \A c \in Clients :
        pc[c] \in Inside /\ leaseLeft[c] > 0
            => store[key[c]] = [token |-> Token(c), ttl |-> leaseLeft[c]]

\* The live locks and the calls that act as holders.
OwnerOf == [k \in Keys |-> store[k].token]
Believers == {<<key[c], Token(c)>> : c \in {d \in Clients : pc[d] \in Inside}}

Contract == INSTANCE LeaseLock WITH
    owner <- OwnerOf, believers <- Believers

\* The Redis lock implements the ILock contract: a key passes from one owner
\* to the next only through a release by its owner or through its TTL.
ImplementsLeaseLock == Contract!LeaseSpec

\* A call that waits for a lock stops waiting, with the lock or with an
\* error, even when the holder hangs: the deadline of acquireWithWait.
WaiterEnds ==
    \A c \in Clients : pc[c] \in Waiting ~> pc[c] \notin Waiting

\* No lock is held for ever, whatever happened to its holder or to the
\* answer of the SET that took it: the PX of every SET.
LockComesBack ==
    \A k \in Keys : store[k] # Free ~> store[k] = Free

=============================================================================
