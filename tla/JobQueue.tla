------------------------------- MODULE JobQueue ------------------------------
(***************************************************************************)
(* A BullMQ queue as its users see it.  A worker takes a waiting job and   *)
(* holds its lock until it reports that the job is completed or that the   *)
(* attempt has failed; a failed attempt is followed, after a back-off, by  *)
(* another one while there are attempts left.  A lock that is not renewed, *)
(* because its worker has died or is blocked, makes the job stalled: it    *)
(* waits again, but only MaxStalled times.  The report of a worker that    *)
(* has lost its lock is refused.                                           *)
(***************************************************************************)
EXTENDS Naturals

CONSTANTS
    Jobs,
    Workers,
    Nobody,
    MaxAttempts,   \* attempts
    MaxStalled     \* maxStalledCount, 1 by default

VARIABLES
    state,
    holder,        \* the worker that has the job's lock
    failures,      \* failed attempts
    stalls

queueVars == <<state, holder, failures, stalls>>

Ended == {"completed", "failed"}

QueueTypeOK ==
    /\ state \in [Jobs -> {"absent", "waiting", "active"} \cup Ended]
    /\ holder \in [Jobs -> Workers \cup {Nobody}]
    /\ \A j \in Jobs : holder[j] # Nobody <=> state[j] = "active"
    /\ failures \in [Jobs -> 0..MaxAttempts]
    /\ stalls \in [Jobs -> 0..(MaxStalled + 1)]

QueueInit ==
    /\ state = [j \in Jobs |-> "absent"]
    /\ holder = [j \in Jobs |-> Nobody]
    /\ failures = [j \in Jobs |-> 0]
    /\ stalls = [j \in Jobs |-> 0]

Add(j) ==
    /\ state[j] = "absent"
    /\ state' = [state EXCEPT ![j] = "waiting"]
    /\ UNCHANGED <<holder, failures, stalls>>

Take(w, j) ==
    /\ state[j] = "waiting"
    /\ state' = [state EXCEPT ![j] = "active"]
    /\ holder' = [holder EXCEPT ![j] = w]
    /\ UNCHANGED <<failures, stalls>>

LetGo(j, next) ==
    /\ state' = [state EXCEPT ![j] = next]
    /\ holder' = [holder EXCEPT ![j] = Nobody]

Complete(w, j) ==
    \/ holder[j] = w /\ LetGo(j, "completed") /\ UNCHANGED <<failures, stalls>>
    \/ holder[j] # w /\ UNCHANGED queueVars

FailAttempt(w, j) ==
    \/ /\ holder[j] = w
       /\ failures' = [failures EXCEPT ![j] = @ + 1]
       /\ LetGo(j, IF failures'[j] = MaxAttempts THEN "failed" ELSE "waiting")
       /\ UNCHANGED stalls
    \/ holder[j] # w /\ UNCHANGED queueVars

Stall(j) ==
    /\ state[j] = "active"
    /\ stalls' = [stalls EXCEPT ![j] = @ + 1]
    /\ LetGo(j, IF stalls'[j] > MaxStalled THEN "failed" ELSE "waiting")
    /\ UNCHANGED failures

=============================================================================
