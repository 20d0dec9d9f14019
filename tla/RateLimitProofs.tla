--------------------------- MODULE RateLimitProofs ---------------------------
(* What the two windows of AppThrottlerGuard guarantee for all limits, TTLs, *)
(* clients and numbers of requests under way.                                *)
EXTENDS RateLimit, FiniteSetTheorems, TLAPS

-----------------------------------------------------------------------------
(* One counter *)

Ttl0(c) == Ttl[c[2]]
Limit0(c) == Limit[c[2]]

LEMMA CounterFields ==
  ASSUME NEW c \in Counters
  PROVE  /\ Ttl0(c) \in Nat \ {0} /\ Limit0(c) \in Nat \ {0} /\ c[2] \in Windows
BY RateLimitAssumption DEF Counters, Ttl0, Limit0

LEMMA StoreFields ==
  ASSUME TypeOK, NEW c \in Counters
  PROVE  /\ store[c].hits \in Nat /\ store[c].hits <= MaxHits /\ store[c].left \in Nat
         /\ store[c].left <= Ttl0(c)
         /\ inWindow[c] \in Nat /\ slipped[c] \in Nat /\ told[c] \in Nat
BY RateLimitAssumption DEF TypeOK, Ttl0

\* What the script makes of a counter.
LEMMA IncrementedFields ==
  ASSUME TypeOK, NEW c \in Counters, store[c].hits < MaxHits, NEW new \in Incremented(c)
  PROVE  /\ new \in [hits : 0..MaxHits, left : Nat]
         /\ new.hits = store[c].hits + 1 /\ new.hits \in 1..MaxHits
         /\ new.left = IF store[c].hits = 0 THEN Ttl0(c) ELSE store[c].left
         /\ new.left <= Ttl0(c)
<1>1. /\ new = [hits |-> store[c].hits + 1,
                left |-> IF store[c].hits = 0 THEN Ttl0(c) ELSE store[c].left]
      /\ MaxHits \in Nat
  BY RateLimitAssumption DEF Incremented, Ttl0
<1>2. /\ store[c].hits + 1 \in 1..MaxHits /\ Ttl0(c) \in Nat
      /\ store[c].left \in Nat /\ store[c].left <= Ttl0(c)
  BY <1>1, StoreFields, CounterFields
<1> QED
  BY <1>1, <1>2

LEMMA Division ==
  ASSUME NEW n \in Nat, NEW d \in Nat \ {0}
  PROVE  n \div d \in Nat /\ (n \div d) * d \in Nat /\ n - d < (n \div d) * d
<1>1. n \div d \in Nat
  OBVIOUS
<1>2. n < d * (n \div d) + d
  OBVIOUS
<1>3. d * (n \div d) = (n \div d) * d /\ (n \div d) * d \in Nat
  BY <1>1
<1> QED
  BY <1>1, <1>2, <1>3

\* Math.ceil promises no less than the time that is left.
LEMMA SecondsRoundUp ==
  ASSUME NEW ticks \in Nat
  PROVE  Seconds(ticks) * PerSecond \in Nat /\ Seconds(ticks) * PerSecond >= ticks
<1> DEFINE n == ticks + PerSecond - 1
<1>1. PerSecond \in Nat \ {0} /\ n \in Nat
  BY RateLimitAssumption
<1>2. (n \div PerSecond) * PerSecond \in Nat /\ n - PerSecond < (n \div PerSecond) * PerSecond
  BY <1>1, Division
<1>3. (n \div PerSecond) * PerSecond >= ticks
  BY <1>1, <1>2
<1> QED
  BY <1>2, <1>3 DEF Seconds

-----------------------------------------------------------------------------
(* Types *)

StoreOK ==
    /\ store \in [Counters -> [hits : 0..MaxHits, left : Nat]]
    /\ \A c \in Counters : /\ store[c].left <= Ttl[c[2]]
                           /\ store[c].hits = 0 => store[c].left = 0

\* Only a request that has a preset is counted.
SlotsOK ==
    /\ pc \in [Slots -> Windows \cup {"idle", "allowed", "refused"}]
    /\ client \in [Slots -> Trackers \cup {Unlimited}]
    /\ \A s \in Slots : pc[s] \in Windows => client[s] \in Trackers

GhostsOK ==
    /\ passed \in [Counters -> SUBSET Hits]
    /\ \A c \in Counters : \A p \in passed[c] : p.age < Ttl[c[2]]
    /\ inWindow \in [Counters -> Nat] /\ slipped \in [Counters -> Nat] /\ told \in [Counters -> Nat]

TypeInv == StoreOK /\ SlotsOK /\ GhostsOK

LEMMA TypeInvIsTypeOK == TypeInv => TypeOK
BY DEF TypeInv, StoreOK, SlotsOK, GhostsOK, TypeOK

LEMMA WindowsAreNoEnds ==
  /\ "idle" \notin Windows /\ "allowed" \notin Windows /\ "refused" \notin Windows
  /\ "short" \in Windows /\ "long" \in Windows
BY DEF Windows

LEMMA CounterTyped ==
  ASSUME TypeInv, NEW s \in Slots, pc[s] \in Windows
  PROVE  Counter(s) \in Counters
BY DEF TypeInv, SlotsOK, Counter, Counters

\* The types of the store after the script has run.
LEMMA StoreTyped ==
  ASSUME TypeInv, NEW c \in Counters, store[c].hits < MaxHits, NEW new \in Incremented(c),
         store' = [store EXCEPT ![c] = new]
  PROVE  StoreOK'
<1>1. new \in [hits : 0..MaxHits, left : Nat] /\ new.hits # 0 /\ new.left <= Ttl[c[2]]
  BY IncrementedFields, TypeInvIsTypeOK DEF Ttl0
<1> QED
  BY <1>1 DEF TypeInv, StoreOK

\* The slots after a step from one label to another.
LEMMA SlotsTyped ==
  ASSUME TypeInv, NEW s \in Slots, NEW label \in Windows \cup {"idle", "allowed", "refused"},
         Goto(s, label), client' = client, label \in Windows => client[s] \in Trackers
  PROVE  SlotsOK'
BY DEF TypeInv, SlotsOK, Goto

LEMMA TypeInit == Init => TypeInv
BY RateLimitAssumption, WindowsAreNoEnds DEF Init, TypeInv, StoreOK, SlotsOK, GhostsOK, Counters

LEMMA PassTyped ==
  ASSUME TypeInv, NEW s \in Slots, Pass(s)
  PROVE  TypeInv'
<1> DEFINE c == Counter(s)
<1>1. c \in Counters /\ client[s] \in Trackers /\ pc[s] \in Windows
  BY CounterTyped DEF Pass, TypeInv, SlotsOK
<1>2. PICK new \in Incremented(c) :
        /\ store[c].hits < MaxHits
        /\ store' = [store EXCEPT ![c] = new]
        /\ passed' = [passed EXCEPT ![c] = @ \cup {[hit |-> new.hits, age |-> 0]}]
        /\ inWindow' = [inWindow EXCEPT ![c] = @ + 1]
        /\ UNCHANGED <<client, slipped, told>>
  BY DEF Pass
<1>3. [hit |-> new.hits, age |-> 0] \in Hits /\ 0 < Ttl[c[2]]
  BY <1>1, <1>2, IncrementedFields, TypeInvIsTypeOK, CounterFields DEF Hits, Ttl0
<1>4. /\ passed' \in [Counters -> SUBSET Hits]
      /\ \A d \in Counters : \A p \in passed'[d] : p.age < Ttl[d[2]]
  BY <1>1, <1>2, <1>3 DEF TypeInv, GhostsOK
<1>5. GhostsOK'
  BY <1>1, <1>2, <1>4 DEF TypeInv, GhostsOK
<1>6. StoreOK'
  BY <1>1, <1>2, StoreTyped
<1>7. SlotsOK'
  BY <1>1, <1>2, SlotsTyped, WindowsAreNoEnds DEF Pass, Passes
<1> QED
  BY <1>5, <1>6, <1>7 DEF TypeInv

LEMMA RefuseTyped ==
  ASSUME TypeInv, NEW s \in Slots, Refuse(s)
  PROVE  TypeInv'
<1> DEFINE c == Counter(s)
<1>1. c \in Counters /\ pc[s] \in Windows
  BY CounterTyped DEF Refuse
<1>2. PICK new \in Incremented(c) :
        /\ store[c].hits < MaxHits
        /\ store' = [store EXCEPT ![c] = new]
        /\ told' = [told EXCEPT ![c] = Seconds(new.left) * PerSecond]
        /\ UNCHANGED <<client, passed, inWindow, slipped>>
  BY DEF Refuse
<1>3. new.left \in Nat
  BY <1>1, <1>2, IncrementedFields, TypeInvIsTypeOK
<1>4. GhostsOK'
  BY <1>1, <1>2, <1>3, SecondsRoundUp DEF TypeInv, GhostsOK
<1>5. StoreOK'
  BY <1>1, <1>2, StoreTyped
<1>6. SlotsOK'
  BY <1>1, <1>2, SlotsTyped, WindowsAreNoEnds DEF Refuse
<1> QED
  BY <1>4, <1>5, <1>6 DEF TypeInv

LEMMA FailOpenTyped ==
  ASSUME TypeInv, NEW s \in Slots, FailOpen(s)
  PROVE  TypeInv'
<1> DEFINE c == Counter(s)
<1>1. c \in Counters /\ UNCHANGED <<client, passed, inWindow, told>>
  BY CounterTyped DEF FailOpen
<1>2. StoreOK' /\ GhostsOK'
  <2>1. CASE UNCHANGED <<store, slipped>>
    BY <1>1, <2>1 DEF TypeInv, StoreOK, GhostsOK
  <2>2. ASSUME NEW new \in Incremented(c), store[c].hits < MaxHits,
               store' = [store EXCEPT ![c] = new], slipped' = [slipped EXCEPT ![c] = @ + 1]
        PROVE  StoreOK' /\ GhostsOK'
    <3>1. StoreOK'
      BY <1>1, <2>2, StoreTyped
    <3>2. GhostsOK'
      BY <1>1, <2>2 DEF TypeInv, GhostsOK
    <3> QED
      BY <3>1, <3>2
  <2> QED
    BY <2>1, <2>2 DEF FailOpen
<1>3. SlotsOK'
  BY <1>1, SlotsTyped, WindowsAreNoEnds DEF FailOpen
<1> QED
  BY <1>2, <1>3 DEF TypeInv

\* Time is kind to the types.
LEMMA TickTyped ==
  ASSUME TypeInv, Tick
  PROVE  TypeInv'
<1>1. SlotsOK'
  BY DEF Tick, TypeInv, SlotsOK
<1>2. StoreOK'
  <2>1. ASSUME NEW c \in Counters
        PROVE  /\ store'[c] \in [hits : 0..MaxHits, left : Nat]
               /\ store'[c].left <= Ttl[c[2]]
               /\ store'[c].hits = 0 => store'[c].left = 0
    <3>1. /\ store[c] \in [hits : 0..MaxHits, left : Nat] /\ store[c].left <= Ttl[c[2]]
          /\ Ttl[c[2]] \in Nat /\ (store[c].hits = 0 => store[c].left = 0) /\ MaxHits \in Nat
      BY CounterFields, RateLimitAssumption DEF TypeInv, StoreOK, Ttl0
    <3>2. Aged(store[c].left) \in Nat /\ Aged(store[c].left) <= store[c].left
      BY <3>1 DEF Aged
    <3>3. store'[c] = IF Lapses(c) THEN [hits |-> 0, left |-> 0]
                                   ELSE [store[c] EXCEPT !.left = Aged(@)]
      BY DEF Tick
    <3>4. CASE Lapses(c)
      BY <3>1, <3>3, <3>4
    <3>5. CASE ~Lapses(c)
      BY <3>1, <3>2, <3>3, <3>5
    <3> QED
      BY <3>4, <3>5
  <2>2. store' = [c \in Counters |-> store'[c]]
    BY DEF Tick
  <2> QED
    BY <2>1, <2>2 DEF StoreOK
<1>3. GhostsOK'
  <2>1. ASSUME NEW c \in Counters
        PROVE  /\ passed'[c] \subseteq Hits /\ \A p \in passed'[c] : p.age < Ttl[c[2]]
               /\ inWindow'[c] \in Nat /\ slipped'[c] \in Nat /\ told'[c] \in Nat
    <3>1. /\ passed[c] \subseteq Hits
          /\ inWindow[c] \in Nat /\ slipped[c] \in Nat /\ told[c] \in Nat
      BY DEF TypeInv, GhostsOK
    <3>2. passed'[c] = {[p EXCEPT !.age = @ + 1] : p \in {q \in passed[c] : q.age + 1 < Ttl[c[2]]}}
      BY DEF Tick
    <3>3. \A p \in passed[c] : [p EXCEPT !.age = @ + 1] = [hit |-> p.hit, age |-> p.age + 1]
      BY <3>1 DEF Hits
    <3>4. passed'[c] \subseteq Hits /\ \A p \in passed'[c] : p.age < Ttl[c[2]]
      BY <3>1, <3>2, <3>3 DEF Hits
    <3>5. inWindow'[c] \in Nat /\ slipped'[c] \in Nat /\ told'[c] \in Nat
      BY <3>1 DEF Tick, Aged
    <3> QED
      BY <3>4, <3>5
  <2>2. /\ passed' = [c \in Counters |-> passed'[c]] /\ inWindow' = [c \in Counters |-> inWindow'[c]]
        /\ slipped' = [c \in Counters |-> slipped'[c]] /\ told' = [c \in Counters |-> told'[c]]
    BY DEF Tick
  <2> QED
    BY <2>1, <2>2 DEF GhostsOK
<1> QED
  BY <1>1, <1>2, <1>3 DEF TypeInv

LEMMA TypeKept == TypeInv /\ [Next]_vars => TypeInv'
<1> SUFFICES ASSUME TypeInv, [Next]_vars
             PROVE  TypeInv'
  OBVIOUS
<1>1. CASE UNCHANGED vars
  BY <1>1 DEF vars, TypeInv, StoreOK, SlotsOK, GhostsOK
<1>2. ASSUME NEW s \in Slots, NEW who \in Trackers \cup {Unlimited}, Arrive(s, who)
      PROVE  TypeInv'
  <2>1. SlotsOK'
    BY <1>2, WindowsAreNoEnds DEF Arrive, Goto, TypeInv, SlotsOK
  <2> QED
    BY <1>2, <2>1 DEF Arrive, TypeInv, StoreOK, GhostsOK
<1> QED
  BY <1>1, <1>2, PassTyped, RefuseTyped, FailOpenTyped, TickTyped DEF Next

\* Types; a counter that is not there has no TTL left, and only hits of the
\* last TTL are remembered.
THEOREM TypeCorrect == Spec => []TypeOK
BY TypeInit, TypeKept, TypeInvIsTypeOK, PTL DEF Spec

-----------------------------------------------------------------------------
(* Refusals *)

\* How the ghosts of a counter go with it: every hit within the limit has let
\* a request pass or has slipped, and the last refusal knew how long.
Accounted(c) ==
    /\ inWindow[c] <= store[c].hits /\ inWindow[c] <= Limit0(c)
    /\ store[c].hits <= Limit0(c) => inWindow[c] + slipped[c] = store[c].hits
    /\ store[c].hits > Limit0(c) => inWindow[c] + slipped[c] >= Limit0(c)
    /\ store[c].hits > Limit0(c) + slipped[c] => told[c] >= store[c].left

RefusalInv == TypeInv /\ \A c \in Counters : Accounted(c)

LEMMA RefusalInit == Init => RefusalInv
<1> SUFFICES ASSUME Init
             PROVE  RefusalInv
  OBVIOUS
<1>1. TypeInv
  BY TypeInit
<1>2. ASSUME NEW c \in Counters
      PROVE  Accounted(c)
  <2>1. /\ store[c].hits = 0 /\ store[c].left = 0
        /\ inWindow[c] = 0 /\ slipped[c] = 0 /\ told[c] = 0
    BY DEF Init
  <2> QED
    BY <2>1, CounterFields DEF Accounted
<1> QED
  BY <1>1, <1>2 DEF RefusalInv

LEMMA SameAccounted ==
  ASSUME NEW c, Accounted(c), store'[c] = store[c], inWindow'[c] = inWindow[c],
         slipped'[c] = slipped[c], told'[c] = told[c]
  PROVE  Accounted(c)'
BY DEF Accounted, Limit0

LEMMA PassAccounted ==
  ASSUME RefusalInv, NEW s \in Slots, Pass(s), NEW d \in Counters
  PROVE  Accounted(d)'
<1> DEFINE c == Counter(s)
<1>1. /\ c \in Counters /\ store[c].hits < MaxHits /\ UNCHANGED <<slipped, told>>
      /\ inWindow' = [inWindow EXCEPT ![c] = @ + 1]
  BY CounterTyped DEF Pass, RefusalInv
<1>2. PICK new \in Incremented(c) : Within(c, new.hits) /\ store' = [store EXCEPT ![c] = new]
  BY DEF Pass
<1>3. CASE d # c
  BY <1>1, <1>2, <1>3, SameAccounted DEF RefusalInv, TypeInv, StoreOK, GhostsOK
<1>4. CASE d = c
  <2>1. store'[d] = new /\ inWindow'[d] = inWindow[d] + 1 /\ slipped'[d] = slipped[d] /\ told'[d] = told[d]
    BY <1>1, <1>2, <1>4 DEF RefusalInv, TypeInv, StoreOK, GhostsOK
  <2>2. new.hits = store[d].hits + 1 /\ new.hits <= Limit0(d)
    BY <1>1, <1>2, <1>4, IncrementedFields, TypeInvIsTypeOK DEF RefusalInv, Within, Limit0
  <2>3. /\ store[d].hits \in Nat /\ inWindow[d] \in Nat /\ slipped[d] \in Nat /\ Limit0(d) \in Nat
        /\ Accounted(d)
    BY StoreFields, CounterFields, TypeInvIsTypeOK DEF RefusalInv
  <2>4. inWindow[d] + slipped[d] = store[d].hits
    BY <2>2, <2>3 DEF Accounted
  <2> QED
    BY <2>1, <2>2, <2>3, <2>4 DEF Accounted, Limit0
<1> QED
  BY <1>3, <1>4

LEMMA RefuseAccounted ==
  ASSUME RefusalInv, NEW s \in Slots, Refuse(s), NEW d \in Counters
  PROVE  Accounted(d)'
<1> DEFINE c == Counter(s)
<1>1. c \in Counters /\ store[c].hits < MaxHits /\ UNCHANGED <<inWindow, slipped>>
  BY CounterTyped DEF Refuse, RefusalInv
<1>2. PICK new \in Incremented(c) :
        /\ ~Within(c, new.hits)
        /\ store' = [store EXCEPT ![c] = new]
        /\ told' = [told EXCEPT ![c] = Seconds(new.left) * PerSecond]
  BY DEF Refuse
<1>3. CASE d # c
  BY <1>1, <1>2, <1>3, SameAccounted DEF RefusalInv, TypeInv, StoreOK, GhostsOK
<1>4. CASE d = c
  <2>1. /\ store'[d] = new /\ told'[d] = Seconds(new.left) * PerSecond
        /\ inWindow'[d] = inWindow[d] /\ slipped'[d] = slipped[d]
    BY <1>1, <1>2, <1>4 DEF RefusalInv, TypeInv, StoreOK, GhostsOK
  <2>2. new.hits = store[d].hits + 1 /\ ~(new.hits <= Limit0(d)) /\ new.left \in Nat
    BY <1>1, <1>2, <1>4, IncrementedFields, TypeInvIsTypeOK DEF RefusalInv, Within, Limit0
  <2>3. /\ store[d].hits \in Nat /\ inWindow[d] \in Nat /\ slipped[d] \in Nat /\ Limit0(d) \in Nat
        /\ Accounted(d)
    BY StoreFields, CounterFields, TypeInvIsTypeOK DEF RefusalInv
  <2>4. told'[d] >= new.left
    BY <2>1, <2>2, SecondsRoundUp
  <2>5. inWindow[d] + slipped[d] >= Limit0(d) /\ inWindow[d] <= new.hits
    BY <2>2, <2>3 DEF Accounted
  <2> QED
    BY <2>1, <2>2, <2>3, <2>4, <2>5 DEF Accounted, Limit0
<1> QED
  BY <1>3, <1>4

LEMMA FailOpenAccounted ==
  ASSUME RefusalInv, NEW s \in Slots, FailOpen(s), NEW d \in Counters
  PROVE  Accounted(d)'
<1> DEFINE c == Counter(s)
<1>1. c \in Counters /\ UNCHANGED <<inWindow, told>>
  BY CounterTyped DEF FailOpen, RefusalInv
<1>2. CASE UNCHANGED <<store, slipped>>
  BY <1>1, <1>2, SameAccounted DEF RefusalInv
<1>3. ASSUME NEW new \in Incremented(c), store[c].hits < MaxHits,
             store' = [store EXCEPT ![c] = new], slipped' = [slipped EXCEPT ![c] = @ + 1]
      PROVE  Accounted(d)'
  <2>1. CASE d # c
    BY <1>1, <1>3, <2>1, SameAccounted DEF RefusalInv, TypeInv, StoreOK, GhostsOK
  <2>2. CASE d = c
    <3>1. /\ store'[d] = new /\ slipped'[d] = slipped[d] + 1
          /\ inWindow'[d] = inWindow[d] /\ told'[d] = told[d]
      BY <1>1, <1>3, <2>2 DEF RefusalInv, TypeInv, StoreOK, GhostsOK
    <3>2. /\ new.hits = store[d].hits + 1 /\ new.left \in Nat
          /\ new.left = IF store[d].hits = 0 THEN Ttl0(d) ELSE store[d].left
      BY <1>1, <1>3, <2>2, IncrementedFields, TypeInvIsTypeOK DEF RefusalInv
    <3>3. /\ store[d].hits \in Nat /\ inWindow[d] \in Nat /\ slipped[d] \in Nat /\ told[d] \in Nat
          /\ Limit0(d) \in Nat \ {0} /\ Accounted(d)
      BY StoreFields, CounterFields, TypeInvIsTypeOK DEF RefusalInv
    <3>4. /\ inWindow[d] <= new.hits /\ inWindow[d] <= Limit0(d)
          /\ new.hits <= Limit0(d) => inWindow[d] + (slipped[d] + 1) = new.hits
          /\ new.hits > Limit0(d) => inWindow[d] + (slipped[d] + 1) >= Limit0(d)
      BY <3>2, <3>3 DEF Accounted
    <3>5. new.hits > Limit0(d) + (slipped[d] + 1) => told[d] >= new.left
      BY <3>2, <3>3 DEF Accounted
    <3> QED
      BY <3>1, <3>4, <3>5 DEF Accounted, Limit0
  <2> QED
    BY <2>1, <2>2
<1> QED
  BY <1>2, <1>3 DEF FailOpen

LEMMA TickAccounted ==
  ASSUME RefusalInv, Tick, NEW d \in Counters
  PROVE  Accounted(d)'
<1>1. /\ store[d].hits \in Nat /\ store[d].left \in Nat /\ inWindow[d] \in Nat
      /\ slipped[d] \in Nat /\ told[d] \in Nat /\ Limit0(d) \in Nat \ {0} /\ Accounted(d)
  BY StoreFields, CounterFields, TypeInvIsTypeOK DEF RefusalInv
<1>2. CASE Lapses(d)
  <2>1. /\ store'[d].hits = 0 /\ inWindow'[d] = 0 /\ slipped'[d] = 0
    BY <1>2 DEF Tick
  <2> QED
    BY <1>1, <2>1 DEF Accounted, Limit0
<1>3. CASE ~Lapses(d)
  <2>1. /\ store'[d].hits = store[d].hits /\ store'[d].left = Aged(store[d].left)
        /\ inWindow'[d] = inWindow[d] /\ slipped'[d] = slipped[d] /\ told'[d] = Aged(told[d])
    BY <1>3 DEF Tick, RefusalInv, TypeInv, StoreOK
  <2>2. told[d] >= store[d].left => Aged(told[d]) >= Aged(store[d].left)
    BY <1>1 DEF Aged
  <2> QED
    BY <1>1, <2>1, <2>2 DEF Accounted, Limit0
<1> QED
  BY <1>2, <1>3

LEMMA RefusalKept == RefusalInv /\ [Next]_vars => RefusalInv'
<1> SUFFICES ASSUME RefusalInv, [Next]_vars
             PROVE  RefusalInv'
  OBVIOUS
<1>1. TypeInv'
  BY TypeKept DEF RefusalInv
<1>2. ASSUME NEW d \in Counters
      PROVE  Accounted(d)'
  <2>1. CASE UNCHANGED <<store, inWindow, slipped, told>>
    BY <2>1, SameAccounted DEF RefusalInv
  <2> QED
    BY <2>1, PassAccounted, RefuseAccounted, FailOpenAccounted, TickAccounted
       DEF Next, Arrive, vars
<1> QED
  BY <1>1, <1>2 DEF RefusalInv

\* Whoever waits as long as the last Retry-After says meets a new counter,
\* however requests, failures of Redis and time interleave.
THEOREM RetryAfterIsEnough == Spec => []RetryAfterSuffices
<1>1. RefusalInv => RetryAfterSuffices
  BY DEF RefusalInv, Accounted, RetryAfterSuffices, Limit0
<1> QED
  BY <1>1, RefusalInit, RefusalKept, PTL DEF Spec

\* Nobody is refused before the window is used up.
THEOREM RefusalsAreDue == Spec => RefusedOnlyAtLimit
<1>1. ASSUME RefusalInv, NEW s \in Slots, Refuse(s)
      PROVE  inWindow[Counter(s)] + slipped[Counter(s)] >= Limit[Counter(s)[2]]
  <2> DEFINE c == Counter(s)
  <2>1. c \in Counters /\ store[c].hits < MaxHits
    BY <1>1, CounterTyped DEF Refuse, RefusalInv
  <2>2. PICK new \in Incremented(c) : ~Within(c, new.hits)
    BY <1>1 DEF Refuse
  <2>3. ~(store[c].hits + 1 <= Limit0(c))
    BY <1>1, <2>1, <2>2, IncrementedFields, TypeInvIsTypeOK DEF RefusalInv, Within, Limit0
  <2>4. /\ store[c].hits \in Nat /\ inWindow[c] \in Nat /\ slipped[c] \in Nat /\ Limit0(c) \in Nat
        /\ Accounted(c)
    BY <1>1, <2>1, StoreFields, CounterFields, TypeInvIsTypeOK DEF RefusalInv
  <2>5. inWindow[c] + slipped[c] >= Limit0(c)
    BY <2>3, <2>4 DEF Accounted
  <2> QED
    BY <2>5 DEF Limit0
<1>2. RefusalInv /\ [Next]_vars =>
        [\A s \in Slots : Refuse(s) =>
            LET c == Counter(s) IN inWindow[c] + slipped[c] >= Limit[c[2]]]_vars
  BY <1>1
<1> QED
  BY <1>2, RefusalInit, RefusalKept, PTL DEF Spec, RefusedOnlyAtLimit


-----------------------------------------------------------------------------
(* Two windows *)

\* p is a hit of the counter that is there now, not of an earlier one.
Fresh(c, p) == store[c].hits > 0 /\ p.age + store[c].left <= Ttl0(c)

\* Of one counter there are no two hits of one number; what is remembered of
\* counters that have gone is of a single one.
Numbered(c) ==
    /\ store[c].hits > 0 => store[c].left > 0
    /\ \A p \in passed[c] :
          /\ p.hit \in 1..Limit0(c)
          /\ store[c].hits = 0 => p.age > 0
          /\ Fresh(c, p) => p.hit <= store[c].hits
    /\ \A p, q \in passed[c] : p.hit = q.hit /\ (Fresh(c, p) <=> Fresh(c, q)) => p = q

NumberInv == TypeInv /\ \A c \in Counters : Numbered(c)

LEMMA PassedFields ==
  ASSUME TypeInv, NEW c \in Counters, NEW p \in passed[c]
  PROVE  /\ p.hit \in Nat /\ p.age \in Nat /\ p.age < Ttl0(c)
         /\ p = [hit |-> p.hit, age |-> p.age]
BY DEF TypeInv, GhostsOK, Hits, Ttl0

LEMMA NumberInit == Init => NumberInv
<1> SUFFICES ASSUME Init
             PROVE  NumberInv
  OBVIOUS
<1>1. \A c \in Counters : store[c].hits = 0 /\ passed[c] = {}
  BY DEF Init
<1> QED
  BY <1>1, TypeInit DEF NumberInv, Numbered

LEMMA SameNumbered ==
  ASSUME NEW c, Numbered(c), store'[c] = store[c], passed'[c] = passed[c]
  PROVE  Numbered(c)'
BY DEF Numbered, Fresh, Limit0, Ttl0

\* A further hit leaves fresh what is fresh; a first one finds nothing fresh
\* and makes nothing fresh that is older than itself.
LEMMA HitKeepsFresh ==
  ASSUME NumberInv, NEW c \in Counters, store[c].hits < MaxHits, NEW new \in Incremented(c),
         store'[c] = new
  PROVE  /\ new.left > 0 /\ new.hits = store[c].hits + 1 /\ new.left <= Ttl0(c)
         /\ \A p \in passed[c] : Fresh(c, p)' <=> Fresh(c, p)
<1>1. /\ new.hits = store[c].hits + 1 /\ new.left \in Nat /\ new.left <= Ttl0(c)
      /\ new.left = IF store[c].hits = 0 THEN Ttl0(c) ELSE store[c].left
      /\ store[c].hits \in Nat /\ store[c].left \in Nat /\ Ttl0(c) \in Nat \ {0}
  BY IncrementedFields, StoreFields, CounterFields, TypeInvIsTypeOK DEF NumberInv
<1>2. store[c].hits > 0 => store[c].left > 0
  BY DEF NumberInv, Numbered
<1>3. ASSUME NEW p \in passed[c]
      PROVE  Fresh(c, p)' <=> Fresh(c, p)
  <2>1. p.age \in Nat /\ (store[c].hits = 0 => p.age > 0)
    BY PassedFields DEF NumberInv, Numbered
  <2>2. Fresh(c, p)' <=> new.hits > 0 /\ p.age + new.left <= Ttl0(c)
    BY DEF Fresh, Ttl0
  <2> QED
    BY <1>1, <2>1, <2>2 DEF Fresh
<1> QED
  BY <1>1, <1>2, <1>3

LEMMA PassNumbered ==
  ASSUME NumberInv, NEW s \in Slots, Pass(s), NEW d \in Counters
  PROVE  Numbered(d)'
<1> DEFINE c == Counter(s)
<1>1. c \in Counters /\ store[c].hits < MaxHits
  BY CounterTyped DEF Pass, NumberInv
<1>2. PICK new \in Incremented(c) :
        /\ Within(c, new.hits)
        /\ store' = [store EXCEPT ![c] = new]
        /\ passed' = [passed EXCEPT ![c] = @ \cup {[hit |-> new.hits, age |-> 0]}]
  BY DEF Pass
<1>3. CASE d # c
  BY <1>1, <1>2, <1>3, SameNumbered DEF NumberInv, TypeInv, StoreOK, GhostsOK
<1>4. CASE d = c
  <2> DEFINE mine == [hit |-> new.hits, age |-> 0]
  <2>1. store'[d] = new /\ passed'[d] = passed[d] \cup {mine}
    BY <1>1, <1>2, <1>4 DEF NumberInv, TypeInv, StoreOK, GhostsOK
  <2>2. /\ new.left > 0 /\ new.hits = store[d].hits + 1 /\ new.left <= Ttl0(d)
        /\ \A p \in passed[d] : Fresh(d, p)' <=> Fresh(d, p)
    BY <1>1, <1>2, <1>4, <2>1, HitKeepsFresh
  <2>3. /\ store[d].hits \in Nat /\ Limit0(d) \in Nat /\ new.hits <= Limit0(d) /\ Numbered(d)
        /\ Ttl0(d) \in Nat /\ new.left \in Nat
    BY <1>1, <1>2, <1>4, StoreFields, CounterFields, IncrementedFields, TypeInvIsTypeOK
       DEF NumberInv, Within, Limit0
  <2>4. mine.hit = new.hits /\ mine.age = 0
    OBVIOUS
  <2>5. Fresh(d, mine)'
    BY <2>1, <2>2, <2>3 DEF Fresh, Ttl0
  <2>6. ASSUME NEW p \in passed[d]
        PROVE  /\ p.hit \in 1..Limit0(d)
               /\ Fresh(d, p)' => p.hit < new.hits
    BY <2>2, <2>3, <2>6 DEF Numbered
  <2>7. ASSUME NEW p \in passed'[d]
        PROVE  p.hit \in 1..Limit0(d) /\ (Fresh(d, p)' => p.hit <= new.hits)
    <3>1. CASE p = mine
      BY <2>2, <2>3, <2>4, <3>1
    <3>2. CASE p \in passed[d]
      BY <2>2, <2>3, <2>6, <3>2
    <3> QED
      BY <2>1, <2>7, <3>1, <3>2
  <2>8. ASSUME NEW p \in passed'[d], NEW q \in passed'[d], p.hit = q.hit,
               Fresh(d, p)' <=> Fresh(d, q)'
        PROVE  p = q
    <3>1. ASSUME NEW o \in passed[d], Fresh(d, o)'
          PROVE  o.hit # mine.hit
      <4>1. o.hit \in Nat /\ o.hit < new.hits
        BY <2>6, <3>1
      <4> QED
        BY <2>2, <2>3, <2>4, <4>1
    <3>2. CASE p \in passed[d] /\ q \in passed[d]
      BY <2>2, <2>3, <2>8, <3>2 DEF Numbered
    <3>3. CASE p = mine \/ q = mine
      BY <2>1, <2>5, <2>8, <3>1, <3>3
    <3> QED
      BY <2>1, <2>8, <3>2, <3>3
  <2>9. new.hits > 0 /\ new.hits # 0
    BY <2>2, <2>3
  <2> QED
    BY <2>1, <2>2, <2>7, <2>8, <2>9 DEF Numbered, Limit0
<1> QED
  BY <1>3, <1>4

LEMMA CountNumbered ==
  ASSUME NumberInv, NEW c \in Counters, NEW d \in Counters, store[c].hits < MaxHits,
         NEW new \in Incremented(c), store' = [store EXCEPT ![c] = new], passed' = passed
  PROVE  Numbered(d)'
<1>1. CASE d # c
  BY <1>1, SameNumbered DEF NumberInv, TypeInv, StoreOK, GhostsOK
<1>2. CASE d = c
  <2>1. store'[d] = new
    BY <1>2 DEF NumberInv, TypeInv, StoreOK
  <2>2. /\ new.left > 0 /\ new.hits = store[d].hits + 1
        /\ \A p \in passed[d] : Fresh(d, p)' <=> Fresh(d, p)
    BY <1>2, <2>1, HitKeepsFresh
  <2>3. store[d].hits \in Nat /\ Numbered(d)
    BY StoreFields, TypeInvIsTypeOK DEF NumberInv
  <2>4. \A p \in passed[d] : p.hit \in Nat
    BY PassedFields DEF NumberInv
  <2>5. \A p \in passed[d] : Fresh(d, p)' => p.hit <= new.hits
    BY <2>2, <2>3, <2>4 DEF Numbered
  <2>6. new.hits > 0 /\ new.hits # 0
    BY <2>2, <2>3
  <2> QED
    BY <2>1, <2>2, <2>3, <2>5, <2>6 DEF Numbered, Limit0
<1> QED
  BY <1>1, <1>2

LEMMA TickNumbered ==
  ASSUME NumberInv, Tick, NEW d \in Counters
  PROVE  Numbered(d)'
<1>1. /\ store[d].hits \in Nat /\ store[d].left \in Nat /\ Ttl0(d) \in Nat \ {0} /\ Numbered(d)
      /\ store[d].hits = 0 => store[d].left = 0
  BY StoreFields, CounterFields, TypeInvIsTypeOK DEF NumberInv, TypeInv, StoreOK
<1>2. passed'[d] = {[p EXCEPT !.age = @ + 1] : p \in {q \in passed[d] : q.age + 1 < Ttl0(d)}}
  BY DEF Tick, Ttl0
<1>3. ASSUME NEW p \in passed'[d]
      PROVE  \E o \in passed[d] : p = [hit |-> o.hit, age |-> o.age + 1] /\ o.age + 1 < Ttl0(d)
  <2>1. PICK o \in passed[d] : p = [o EXCEPT !.age = @ + 1] /\ o.age + 1 < Ttl0(d)
    BY <1>2, <1>3
  <2>2. o = [hit |-> o.hit, age |-> o.age]
    BY PassedFields DEF NumberInv
  <2>3. [o EXCEPT !.age = @ + 1] = [hit |-> o.hit, age |-> o.age + 1]
    BY <2>2
  <2> QED
    BY <2>1, <2>3
<1>4. CASE Lapses(d)
  <2>1. store'[d].hits = 0 /\ store[d].hits > 0
    BY <1>1, <1>4 DEF Tick, Lapses
  <2>2. ASSUME NEW o \in passed[d], o.age + 1 < Ttl0(d)
        PROVE  Fresh(d, o) /\ o.age + 1 > 0
    BY <1>1, <1>4, <2>1, <2>2, PassedFields DEF Fresh, Lapses, NumberInv
  <2>3. \A p \in passed'[d] : p.hit \in 1..Limit0(d) /\ p.age > 0 /\ ~Fresh(d, p)'
    BY <1>1, <1>3, <2>1, <2>2 DEF Numbered, Fresh
  <2>4. ASSUME NEW p \in passed'[d], NEW q \in passed'[d], p.hit = q.hit
        PROVE  p = q
    <3>1. PICK o \in passed[d] : p = [hit |-> o.hit, age |-> o.age + 1] /\ o.age + 1 < Ttl0(d)
      BY <1>3, <2>4
    <3>2. PICK u \in passed[d] : q = [hit |-> u.hit, age |-> u.age + 1] /\ u.age + 1 < Ttl0(d)
      BY <1>3, <2>4
    <3>3. o.hit = u.hit /\ Fresh(d, o) /\ Fresh(d, u)
      BY <2>2, <2>4, <3>1, <3>2
    <3>4. o = u
      BY <1>1, <3>3 DEF Numbered
    <3> QED
      BY <3>1, <3>2, <3>4
  <2> QED
    BY <2>1, <2>3, <2>4 DEF Numbered, Limit0
<1>5. CASE ~Lapses(d)
  <2>1. /\ store'[d].hits = store[d].hits /\ store'[d].left = Aged(store[d].left)
        /\ store[d].hits > 0 => store[d].left > 1
    BY <1>1, <1>5 DEF Tick, Lapses, Numbered, NumberInv, TypeInv, StoreOK
  <2>2. ASSUME NEW o \in passed[d], NEW p, p = [hit |-> o.hit, age |-> o.age + 1]
        PROVE  p.hit = o.hit /\ p.age > 0 /\ (Fresh(d, p)' <=> Fresh(d, o))
    <3>1. p.hit = o.hit /\ p.age = o.age + 1 /\ o.age \in Nat
      BY <2>2, PassedFields DEF NumberInv
    <3>2. Fresh(d, p)' <=> store[d].hits > 0 /\ p.age + Aged(store[d].left) <= Ttl0(d)
      BY <2>1 DEF Fresh, Ttl0
    <3>3. store[d].hits > 0 => Aged(store[d].left) = store[d].left - 1
      BY <1>1, <2>1 DEF Aged
    <3> QED
      BY <1>1, <3>1, <3>2, <3>3 DEF Fresh
  <2>3. ASSUME NEW p \in passed'[d]
        PROVE  /\ p.hit \in 1..Limit0(d) /\ p.age > 0
               /\ Fresh(d, p)' => p.hit <= store[d].hits
    BY <1>1, <1>3, <2>2, <2>3 DEF Numbered
  <2>4. ASSUME NEW p \in passed'[d], NEW q \in passed'[d], p.hit = q.hit,
               Fresh(d, p)' <=> Fresh(d, q)'
        PROVE  p = q
    <3>1. PICK o \in passed[d] : p = [hit |-> o.hit, age |-> o.age + 1]
      BY <1>3, <2>4
    <3>2. PICK u \in passed[d] : q = [hit |-> u.hit, age |-> u.age + 1]
      BY <1>3, <2>4
    <3>3. o.hit = u.hit /\ (Fresh(d, o) <=> Fresh(d, u))
      BY <2>2, <2>4, <3>1, <3>2
    <3>4. o = u
      BY <1>1, <3>3 DEF Numbered
    <3> QED
      BY <3>1, <3>2, <3>4
  <2>5. store'[d].hits > 0 => store'[d].left > 0
    BY <1>1, <2>1 DEF Aged
  <2> QED
    BY <2>1, <2>3, <2>4, <2>5 DEF Numbered, Limit0
<1> QED
  BY <1>4, <1>5

LEMMA NumberKept == NumberInv /\ [Next]_vars => NumberInv'
<1> SUFFICES ASSUME NumberInv, [Next]_vars
             PROVE  NumberInv'
  OBVIOUS
<1>1. TypeInv'
  BY TypeKept DEF NumberInv
<1>2. ASSUME NEW d \in Counters
      PROVE  Numbered(d)'
  <2>1. CASE UNCHANGED <<store, passed>>
    BY <2>1, SameNumbered DEF NumberInv
  <2>2. ASSUME NEW s \in Slots, Refuse(s) \/ FailOpen(s), ~UNCHANGED store
        PROVE  Numbered(d)'
    <3>1. Counter(s) \in Counters
      BY <2>2, CounterTyped DEF Refuse, FailOpen, NumberInv
    <3> QED
      BY <2>2, <3>1, CountNumbered DEF Refuse, FailOpen
  <2>3. ASSUME NEW s \in Slots, Refuse(s) \/ FailOpen(s)
        PROVE  passed' = passed
    BY <2>3 DEF Refuse, FailOpen
  <2> QED
    BY <2>1, <2>2, <2>3, PassNumbered, TickNumbered DEF Next, Arrive, vars
<1> QED
  BY <1>1, <1>2 DEF NumberInv

\* A set whose elements have different numbers up to n has at most n elements.
LEMMA NumberedSet ==
  ASSUME NEW S, NEW n \in Nat, \A p \in S : p.hit \in 1..n,
         \A p, q \in S : p.hit = q.hit => p = q
  PROVE  IsFiniteSet(S) /\ Cardinality(S) \in Nat /\ Cardinality(S) <= n
<1> DEFINE f == [p \in S |-> p.hit]
<1>1. f \in Injection(S, 1..n)
  BY DEF Injection, IsInjective
<1>2. IsFiniteSet(1..n) /\ Cardinality(1..n) = n
  BY FS_Interval
<1>3. IsFiniteSet(S) /\ Cardinality(S) <= Cardinality(1..n)
  BY <1>1, <1>2, FS_Injection
<1>4. Cardinality(S) \in Nat
  BY <1>3, FS_CardinalityType
<1> QED
  BY <1>2, <1>3, <1>4

\* Whenever it looks, a client has got at most twice the limit through in a
\* TTL, and never more than the limit between a counter's creation and its end,
\* not counting what is let through while Redis fails.
THEOREM AtMostTwiceTheLimit == Spec => []TwiceTheLimit
<1>1. ASSUME NumberInv, RefusalInv, NEW c \in Counters
      PROVE  inWindow[c] <= Limit[c[2]] /\ Cardinality(passed[c]) <= 2 * Limit[c[2]]
  <2> DEFINE new == {p \in passed[c] : Fresh(c, p)}
             old == {p \in passed[c] : ~Fresh(c, p)}
  <2>1. Limit0(c) \in Nat /\ Numbered(c)
    BY <1>1, CounterFields DEF NumberInv
  <2>2. IsFiniteSet(new) /\ Cardinality(new) \in Nat /\ Cardinality(new) <= Limit0(c)
    BY <2>1, NumberedSet DEF Numbered
  <2>3. IsFiniteSet(old) /\ Cardinality(old) \in Nat /\ Cardinality(old) <= Limit0(c)
    BY <2>1, NumberedSet DEF Numbered
  <2>4. passed[c] = new \cup old /\ new \cap old = {}
    OBVIOUS
  <2>5. Cardinality(passed[c]) = Cardinality(new) + Cardinality(old) - 0
    <3>1. Cardinality(new \cup old)
            = Cardinality(new) + Cardinality(old) - Cardinality(new \cap old)
      BY <2>2, <2>3, FS_Union
    <3>2. Cardinality(new \cap old) = 0
      BY <2>4, FS_EmptySet
    <3> QED
      BY <2>4, <3>1, <3>2
  <2>6. Cardinality(passed[c]) <= 2 * Limit0(c)
    BY <2>1, <2>2, <2>3, <2>5
  <2> QED
    BY <1>1, <2>6 DEF RefusalInv, Accounted, Limit0
<1>2. NumberInv /\ RefusalInv => TwiceTheLimit
  BY <1>1 DEF TwiceTheLimit
<1> QED
  BY <1>2, NumberInit, NumberKept, RefusalInit, RefusalKept, PTL DEF Spec


=============================================================================
