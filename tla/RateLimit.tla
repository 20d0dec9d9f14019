------------------------------ MODULE RateLimit ------------------------------
(***************************************************************************)
(* AppThrottlerGuard on one route: every request increments a Redis        *)
(* counter of a short window and, if that lets it pass, one of a long      *)
(* window.  A script increments the counter and starts its TTL with the    *)
(* first hit; a counter above its limit refuses the request, a failure of  *)
(* Redis lets it pass.  Several requests of a client may be under way.     *)
(*                                                                         *)
(* Time is counted in ticks, of which a second has PerSecond.              *)
(***************************************************************************)
EXTENDS Naturals, FiniteSets

CONSTANTS
    Slots,       \* requests that may be under way at one time
    Trackers,    \* users or addresses
    Unlimited,   \* a request for a handler that has no preset
    Limit,       \* preset[w].limit
    Ttl,         \* preset[w].ttl, in ticks
    PerSecond,
    MaxHits      \* bound: no more hits per window are looked at

Windows == {"short", "long"}

\* RATE_LIMIT_PRESETS, in milliseconds.
Minute == 60 * 1000
Presets ==
    [AUTH              |-> [short |-> [ttl |-> Minute, limit |-> 5],
                            long  |-> [ttl |-> 60 * Minute, limit |-> 20]],
     ALTCHA            |-> [short |-> [ttl |-> Minute, limit |-> 10],
                            long  |-> [ttl |-> 60 * Minute, limit |-> 100]],
     ATTACHMENT_UPLOAD |-> [short |-> [ttl |-> Minute, limit |-> 10],
                            long  |-> [ttl |-> 24 * 60 * Minute, limit |-> 100]],
     PUBLIC_API        |-> [short |-> [ttl |-> Minute, limit |-> 60],
                            long  |-> [ttl |-> 60 * Minute, limit |-> 1000]]]

ASSUME RateLimitAssumption ==
    /\ Limit \in [Windows -> Nat \ {0}] /\ Ttl \in [Windows -> Nat \ {0}]
    /\ PerSecond \in Nat \ {0} /\ MaxHits \in Nat
    /\ Unlimited \notin Trackers

\* Each preset is one that the model is about, and in each the two limits
\* matter: neither window makes the other one superfluous.
ASSUME PresetsAreSound ==
    \A p \in DOMAIN Presets :
        LET short == Presets[p].short
            long == Presets[p].long
        IN  /\ short.limit > 0 /\ short.ttl > 0
            /\ short.limit < long.limit /\ short.ttl < long.ttl
            /\ long.limit * short.ttl < short.limit * long.ttl

VARIABLES
    store,      \* the Redis counters: hits, and what is left of the TTL
    pc,
    client,     \* who sent the request in a slot
    passed,     \* ghost: hits that let a request pass in the last TTL, and their age
    inWindow,   \* ghost: how many did since the counter was created
    slipped,    \* ghost: hits since then whose answer was lost
    told        \* ghost: what is left of the last Retry-After, from its window

vars == <<store, pc, client, passed, inWindow, slipped, told>>

Counters == Trackers \X Windows

\* Two hits of one number are of different counters, and of different age.
Hits == [hit : Nat, age : Nat]

TypeOK ==
    /\ store \in [Counters -> [hits : 0..MaxHits, left : Nat]]
    /\ \A c \in Counters : store[c].left <= Ttl[c[2]] /\ (store[c].hits = 0 => store[c].left = 0)
    /\ pc \in [Slots -> Windows \cup {"idle", "allowed", "refused"}]
    /\ client \in [Slots -> Trackers \cup {Unlimited}]
    /\ passed \in [Counters -> SUBSET Hits]
    /\ \A c \in Counters : \A p \in passed[c] : p.age < Ttl[c[2]]
    /\ inWindow \in [Counters -> Nat] /\ slipped \in [Counters -> Nat] /\ told \in [Counters -> Nat]

Init ==
    /\ store = [c \in Counters |-> [hits |-> 0, left |-> 0]]
    /\ pc = [s \in Slots |-> "idle"]
    /\ client = [s \in Slots |-> Unlimited]
    /\ passed = [c \in Counters |-> {}]
    /\ inWindow = [c \in Counters |-> 0]
    /\ slipped = inWindow /\ told = inWindow

-----------------------------------------------------------------------------

Counter(s) == <<client[s], pc[s]>>

Goto(s, label) == pc' = [pc EXCEPT ![s] = label]

\* A request arrives. Without a preset it passes.
Arrive(s, who) ==
    /\ pc[s] \in {"idle", "allowed", "refused"}
    /\ client' = [client EXCEPT ![s] = who]
    /\ Goto(s, IF who = Unlimited THEN "allowed" ELSE "short")
    /\ UNCHANGED <<store, passed, inWindow, slipped, told>>

\* Mutants: the TTL is set by a command of its own, which may fail; it is the
\* long one's.
IncrementedAlone(c) ==
    {[hits |-> store[c].hits + 1, left |-> IF store[c].hits = 0 THEN t ELSE store[c].left] :
        t \in {Ttl[c[2]], 0}}
IncrementedForLong(c) ==
    {[hits |-> store[c].hits + 1,
      left |-> IF store[c].hits = 0 THEN Ttl["long"] ELSE store[c].left]}

\* INCR, then PEXPIRE if the counter is new, as one script.
Incremented(c) ==
    {[hits |-> store[c].hits + 1,
      left |-> IF store[c].hits = 0 THEN Ttl[c[2]] ELSE store[c].left]}

\* Mutants: one request too few, one too many.
WithinBelow(c, hits) == hits < Limit[c[2]]
WithinNext(c, hits) == hits <= Limit[c[2]] + 1

\* totalHits <= limit
Within(c, hits) == hits <= Limit[c[2]]

\* Mutant: the seconds are rounded down.
SecondsDown(ticks) == ticks \div PerSecond

\* Math.ceil(timeToExpire / 1000)
Seconds(ticks) == (ticks + PerSecond - 1) \div PerSecond

Passes(s) == Goto(s, IF pc[s] = "short" THEN "long" ELSE "allowed")

\* increment() answers and the counter is within its limit.
Pass(s) ==
    /\ pc[s] \in Windows
    /\ LET c == Counter(s) IN
        /\ store[c].hits < MaxHits
        /\ \E new \in Incremented(c) :
              /\ Within(c, new.hits)
              /\ store' = [store EXCEPT ![c] = new]
              /\ passed' = [passed EXCEPT ![c] = @ \cup {[hit |-> new.hits, age |-> 0]}]
        /\ inWindow' = [inWindow EXCEPT ![c] = @ + 1]
    /\ Passes(s)
    /\ UNCHANGED <<client, slipped, told>>

\* 429, with Retry-After.
Refuse(s) ==
    /\ pc[s] \in Windows
    /\ LET c == Counter(s) IN
        /\ store[c].hits < MaxHits
        /\ \E new \in Incremented(c) :
              /\ ~Within(c, new.hits)
              /\ store' = [store EXCEPT ![c] = new]
              /\ told' = [told EXCEPT ![c] = Seconds(new.left) * PerSecond]
    /\ Goto(s, "refused")
    /\ UNCHANGED <<client, passed, inWindow, slipped>>

\* Redis fails before or after it ran the script: the request passes, and is
\* counted neither in passed nor in inWindow.
FailOpen(s) ==
    /\ pc[s] \in Windows
    /\ \/ UNCHANGED <<store, slipped>>
       \/ LET c == Counter(s) IN
            /\ store[c].hits < MaxHits
            /\ \E new \in Incremented(c) : store' = [store EXCEPT ![c] = new]
            /\ slipped' = [slipped EXCEPT ![c] = @ + 1]
    /\ Goto(s, "allowed")
    /\ UNCHANGED <<client, passed, inWindow, told>>

Aged(n) == IF n = 0 THEN 0 ELSE n - 1

Lapses(c) == store[c].left = 1

\* Time passes; Redis drops the counters whose TTL has run out.
Tick ==
    /\ store' = [c \in Counters |->
                   IF Lapses(c) THEN [hits |-> 0, left |-> 0]
                                ELSE [store[c] EXCEPT !.left = Aged(@)]]
    /\ passed' = [c \in Counters |->
                    {[p EXCEPT !.age = @ + 1] : p \in {q \in passed[c] : q.age + 1 < Ttl[c[2]]}}]
    /\ inWindow' = [c \in Counters |-> IF Lapses(c) THEN 0 ELSE inWindow[c]]
    /\ slipped' = [c \in Counters |-> IF Lapses(c) THEN 0 ELSE slipped[c]]
    /\ told' = [c \in Counters |-> IF Lapses(c) THEN 0 ELSE Aged(told[c])]
    /\ UNCHANGED <<pc, client>>

Next ==
    \/ \E s \in Slots, who \in Trackers \cup {Unlimited} : Arrive(s, who)
    \/ \E s \in Slots : Pass(s) \/ Refuse(s) \/ FailOpen(s)
    \/ Tick

\* Time passes.
Spec == Init /\ [][Next]_vars /\ WF_vars(Tick)

-----------------------------------------------------------------------------
(* Properties *)

\* Two windows may touch any period as long as one: while a check never lets
\* more than limit requests pass between creation and expiry of a counter, a
\* client that times them well gets twice as many through in a TTL, and no more.
\* That bounds the requests whose hit was counted and answered; those that are
\* let through because Redis failed (FailOpen) are in neither number, and
\* nothing bounds them.
TwiceTheLimit ==
    \A c \in Counters : inWindow[c] <= Limit[c[2]] /\ Cardinality(passed[c]) <= 2 * Limit[c[2]]

\* Who is refused has used the window up: limit requests of the same client
\* have passed in it, or slipped through a failure of Redis.
RefusedOnlyAtLimit ==
    [][\A s \in Slots : Refuse(s) =>
          LET c == Counter(s) IN inWindow[c] + slipped[c] >= Limit[c[2]]]_vars

\* Whoever waits as long as the last Retry-After says meets a new counter.
RetryAfterSuffices ==
    \A c \in Counters : store[c].hits > Limit[c[2]] + slipped[c] => told[c] >= store[c].left

\* No client is shut out: a counter above its limit expires, although the
\* refused requests go on incrementing it.
ShutOutEnds ==
    \A c \in Counters : (store[c].hits > Limit[c[2]]) ~> (store[c].hits = 0)

=============================================================================
