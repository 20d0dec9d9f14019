------------------------ MODULE NotificationBatchProofs ------------------------
(* What NotificationBatch guarantees for all users, jobs, workers, batch      *)
(* sizes and orders of creation.                                              *)
EXTENDS NotificationBatch, FiniteSetTheorems, FunctionTheorems, SequenceTheorems, TLAPS

-----------------------------------------------------------------------------
(* Sequences without repetition *)

Els(seq) == {seq[n] : n \in DOMAIN seq}

Distinct(seq) == \A m, n \in DOMAIN seq : seq[m] = seq[n] => m = n

LEMMA HeadAndTail ==
  ASSUME NEW S, NEW seq \in Seq(S), seq # << >>
  PROVE  /\ Tail(seq) \in Seq(S) /\ Len(seq) \in Nat /\ Len(Tail(seq)) = Len(seq) - 1
         /\ Head(seq) \in Els(seq) /\ Els(seq) = {Head(seq)} \cup Els(Tail(seq))
         /\ Len(seq) # 1 => Tail(seq) # << >>
         /\ Distinct(seq) => Distinct(Tail(seq)) /\ Head(seq) \notin Els(Tail(seq))
<1> DEFINE tail == Tail(seq)
<1>1. /\ tail \in Seq(S) /\ Len(tail) = Len(seq) - 1 /\ Head(seq) = seq[1]
      /\ \A n \in 1 .. Len(tail) : tail[n] = seq[n + 1]
  BY HeadTailProperties
<1>2. Len(seq) \in Nat \ {0} /\ DOMAIN seq = 1 .. Len(seq) /\ DOMAIN tail = 1 .. Len(tail)
  BY <1>1, EmptySeq, LenProperties
<1>3. \A n \in DOMAIN tail : n \in Nat /\ n + 1 \in DOMAIN seq /\ tail[n] = seq[n + 1] /\ n + 1 # 1
  BY <1>1, <1>2
<1>4. \A n \in DOMAIN seq : n # 1 => n - 1 \in DOMAIN tail /\ seq[n] = tail[n - 1]
  BY <1>1, <1>2
<1>5. 1 \in DOMAIN seq
  BY <1>2
<1>6. Len(seq) # 1 => Len(tail) # 0
  BY <1>1, <1>2
<1>7. Len(seq) # 1 => tail # << >>
  BY <1>6
<1>8. Els(seq) = {seq[1]} \cup Els(tail)
  <2> HIDE DEF tail
  <2> QED
    BY <1>3, <1>4, <1>5 DEF Els
<1>9. ASSUME Distinct(seq)
      PROVE  Distinct(tail) /\ seq[1] \notin Els(tail)
  <2> HIDE DEF tail
  <2>1. ASSUME NEW m \in DOMAIN tail, NEW n \in DOMAIN tail, tail[m] = tail[n]
        PROVE  m = n
    <3>1. m + 1 = n + 1 /\ m \in Nat /\ n \in Nat
      BY <1>3, <1>9, <2>1 DEF Distinct
    <3> QED
      BY <3>1
  <2>2. \A n \in DOMAIN tail : tail[n] # seq[1]
    BY <1>3, <1>5, <1>9 DEF Distinct
  <2> QED
    BY <2>1, <2>2 DEF Distinct, Els
<1> QED
  BY <1>1, <1>2, <1>5, <1>7, <1>8, <1>9 DEF Els

LEMMA ElementsTyped ==
  ASSUME NEW S, NEW seq \in Seq(S)
  PROVE  Els(seq) \subseteq S
BY ElementOfSeq, LenProperties DEF Els

LEMMA EmptyPage == Els(<< >>) = {} /\ Distinct(<< >>)
BY DEF Els, Distinct

\* SetToSeqs(S) holds the orders of S, without repetition and complete.
LEMMA OrdersOfASet ==
  ASSUME NEW S, IsFiniteSet(S), NEW seq \in SetToSeqs(S)
  PROVE  /\ Cardinality(S) \in Nat /\ seq \in Seq(S) /\ Len(seq) = Cardinality(S)
         /\ DOMAIN seq = 1 .. Cardinality(S) /\ Distinct(seq) /\ Els(seq) = S
<1> DEFINE n == Cardinality(S)
<1>1. n \in Nat
  BY FS_CardinalityType
<1>2. seq \in [1..n -> S] /\ \A i, j \in 1..n : i # j => seq[i] # seq[j]
  BY DEF SetToSeqs
<1>3. seq \in Injection(1..n, S)
  BY <1>2 DEF Injection, IsInjective
<1>4. Cardinality(1..n) = n
  BY <1>1, FS_Interval
<1>5. seq \in Surjection(1..n, S)
  BY <1>3, <1>4, FS_Injection
<1>6. \A x \in S : \E i \in 1..n : seq[i] = x
  BY <1>5 DEF Surjection
<1>7. seq \in Seq(S) /\ Len(seq) = n
  BY <1>1, <1>2
<1> QED
  BY <1>1, <1>2, <1>6, <1>7 DEF Distinct, Els

-----------------------------------------------------------------------------
(* Pages *)

LEMMA SkipNext ==
  ASSUME NEW batch \in Nat \ {0}
  PROVE  /\ Skip(batch) \in Nat /\ Skip(batch + 1) = Skip(batch) + BatchSize
         /\ Skip(batch + 1) = batch * BatchSize
<1>1. BatchSize \in Nat /\ batch - 1 \in Nat
  BY NotificationAssumption
<1>2. \A k \in Nat : k * BatchSize \in Nat /\ (k + 1) * BatchSize = k * BatchSize + BatchSize
  BY <1>1
<1>3. (batch - 1) + 1 = batch /\ (batch + 1) - 1 = batch
  OBVIOUS
<1> QED
  BY <1>1, <1>2, <1>3 DEF Skip

\* Math.ceil leaves nobody out.
LEMMA EnoughBatches ==
  ASSUME NEW n \in Nat
  PROVE  /\ Batches(n) \in Nat /\ n <= Batches(n) * BatchSize
         /\ Batches(n) = 0 => n = 0
<1> DEFINE k == n + BatchSize - 1
<1>1. BatchSize \in Nat \ {0} /\ k \in Nat
  BY NotificationAssumption
<1>2. k \div BatchSize \in Nat /\ k < BatchSize * (k \div BatchSize) + BatchSize
  BY <1>1
<1>3. BatchSize * (k \div BatchSize) = (k \div BatchSize) * BatchSize
      /\ (k \div BatchSize) * BatchSize \in Nat
  BY <1>1, <1>2
<1>4. n <= (k \div BatchSize) * BatchSize
  BY <1>1, <1>2, <1>3
<1>5. ASSUME k \div BatchSize = 0 PROVE n = 0
  <2>1. 0 * BatchSize = 0
    BY <1>1
  <2>2. n <= 0 * BatchSize
    BY <1>4, <1>5
  <2> QED
    BY <2>1, <2>2
<1> QED
  BY <1>2, <1>4, <1>5 DEF Batches

\* The users created before u, in a set of people.
Older(people, u) == {v \in people : createdAt[v] < createdAt[u]}

Rank(u) == Cardinality(Older(users, u))

Untied(u) == \A v \in People \ {u} : createdAt[v] # createdAt[u]

\* A user whose place is defined stands where the number of older users says.
LEMMA PlaceIsRank ==
  ASSUME users \subseteq People, createdAt \in Ages, NEW listing \in Listings(users),
         NEW k \in DOMAIN listing, Untied(listing[k])
  PROVE  Rank(listing[k]) = k - 1 /\ k \in Nat
<1> DEFINE u == listing[k]
<1>1. IsFiniteSet(users) /\ createdAt \in [People -> Nat]
  BY NotificationAssumption, FS_Subset
<1>2. /\ listing \in SetToSeqs(users)
      /\ \A m, n \in DOMAIN listing : m < n => createdAt[listing[m]] <= createdAt[listing[n]]
  BY DEF Listings
<1>3. /\ listing \in Seq(users) /\ DOMAIN listing = 1 .. Cardinality(users)
      /\ Cardinality(users) \in Nat /\ Distinct(listing) /\ Els(listing) = users
  BY <1>1, <1>2, OrdersOfASet
<1>4. \A n \in DOMAIN listing : n \in Nat /\ listing[n] \in users /\ createdAt[listing[n]] \in Nat
  BY <1>1, <1>3 DEF Els
<1>5. ASSUME NEW n \in DOMAIN listing
      PROVE  createdAt[listing[n]] < createdAt[u] <=> n < k
  <2>1. n \in Nat /\ k \in Nat /\ createdAt[listing[n]] \in Nat /\ createdAt[u] \in Nat
    BY <1>4
  <2>2. n < k => createdAt[listing[n]] <= createdAt[u]
    BY <1>2
  <2>3. k < n => createdAt[u] <= createdAt[listing[n]]
    BY <1>2
  <2>4. n # k <=> createdAt[listing[n]] # createdAt[u]
    BY <1>3, <1>4 DEF Untied, Distinct
  <2>5. \A a, b \in Nat : /\ n < k => a <= b
                          /\ k < n => b <= a
                          /\ n # k <=> a # b
                          => (a < b <=> n < k)
    BY <2>1
  <2> HIDE DEF u
  <2> QED
    BY <2>1, <2>2, <2>3, <2>4, <2>5, Zenon
<1> DEFINE older == [n \in 1..(k - 1) |-> listing[n]]
<1>6. k \in Nat \ {0} /\ 1..(k - 1) \subseteq DOMAIN listing /\ \A n \in DOMAIN listing : n < k <=> n \in 1..(k - 1)
  BY <1>3
<1>7. older \in Bijection(1..(k - 1), Older(users, u))
  <2>1. \A n \in 1..(k - 1) : listing[n] \in Older(users, u)
    BY <1>4, <1>5, <1>6 DEF Older
  <2>2. \A m, n \in 1..(k - 1) : older[m] = older[n] => m = n
    BY <1>3, <1>6 DEF Distinct
  <2>3. ASSUME NEW v \in Older(users, u) PROVE \E n \in 1..(k - 1) : older[n] = v
    <3>1. v \in users /\ createdAt[v] < createdAt[u]
      BY DEF Older
    <3>2. PICK n \in DOMAIN listing : listing[n] = v
      BY <1>3, <3>1 DEF Els
    <3>3. n \in 1..(k - 1)
      BY <1>5, <1>6, <3>1, <3>2
    <3> QED
      BY <3>2, <3>3
  <2>4. older \in [1..(k - 1) -> Older(users, u)]
    BY <2>1
  <2> HIDE DEF older
  <2> QED
    BY <2>2, <2>3, <2>4, Fun_IsBij
<1>8. IsFiniteSet(1..(k - 1)) /\ Cardinality(1..(k - 1)) = k - 1
  <2>1. k - 1 \in Int /\ 1 \in Int /\ (IF 1 > k - 1 THEN 0 ELSE (k - 1) - 1 + 1) = k - 1
    BY <1>6
  <2> QED
    BY <2>1, FS_Interval, Zenon
<1>9. Cardinality(Older(users, u)) = k - 1
  BY <1>7, <1>8, FS_Bijection DEF ExistsBijection
<1> QED
  BY <1>6, <1>9 DEF Rank


-----------------------------------------------------------------------------
(* The inductive invariant *)

RowsOK ==
    /\ name \in Names /\ wordless \subseteq Jobs /\ createdAt \in Ages
    /\ users \subseteq People /\ expected \subseteq Newcomers \ users
    /\ overtaken \subseteq People
    /\ delivered \in [Jobs -> [People -> Nat]]
    /\ logs \in [Jobs -> [People -> Nat]]

\* Every start of a job was ended by a failure or a stall, or was the last one.
JobFits(s, failed, stalled, started) ==
    /\ s = "absent" => failed = 0 /\ stalled = 0
    /\ s \in {"waiting", "active", "completed"} => failed < MaxAttempts /\ stalled <= MaxStalled
    /\ failed + stalled <= MaxAttempts + MaxStalled
    /\ started = failed + stalled + IF s \in {"active", "completed"} THEN 1 ELSE 0

QueueInv ==
    /\ Queue!QueueTypeOK
    /\ runs \in [Jobs -> 0..(MaxAttempts + MaxStalled)]
    /\ \A j \in Jobs : JobFits(state[j], failures[j], stalls[j], runs[j])

IsBatch(this) == name[this.job] = "send-batch"

Notifying == {"deliver", "save"}

Paging == {"page"} \cup Notifying

RunFits(this) ==
    /\ this.batch >= 1 /\ (this.phase \in {"count", "buyers"} => this.batch = 1)
    /\ this.phase \in Notifying <=> this.page # << >>
    /\ IsBatch(this) =>
          /\ this.phase # "buyers" /\ Len(this.page) <= BatchSize
          /\ this.phase \in Paging => this.batch <= this.batches
          /\ Cardinality(this.counted) <= this.batches * BatchSize
    /\ ~IsBatch(this) =>
          /\ this.phase \notin {"count", "page"} /\ Len(this.page) <= Cardinality(Buyers)
          /\ this.batch = 1 /\ this.batches = 1

\* Those on the page who have yet to be notified.
Ahead(this) == IF this.phase = "deliver" THEN Els(this.page)
               ELSE IF this.phase = "save" THEN Els(Tail(this.page)) ELSE {}

\* The number of places the pages read so far take.
Reached(this) == IF this.phase \in Notifying THEN Skip(this.batch + 1) ELSE Skip(this.batch)

NoneTwice(this) ==
    /\ this.phase \in {"count", "buyers"} => this.told = {} /\ this.counted = {}
    /\ Distinct(this.page)
    /\ this.phase = "save" => Head(this.page) \in this.told
    /\ (this.told \cup this.counted \cup Els(this.page)) \cap expected = {}
    /\ \A u \in People : Settled(u) \/ ~IsBatch(this) => u \notin this.told \cap Ahead(this)
    /\ IsBatch(this) /\ this.phase \in Paging =>
          \A u \in users \cap (this.told \cup Els(this.page)) :
              Settled(u) => Rank(u) < Reached(this)

\* u was counted, is there and not notified, and so is everybody counted who
\* is older than u; and there is something to notify u of.
Due(this, u) ==
    /\ this.job \notin wordless
    /\ Settled(u) /\ u \in (this.counted \cap users) \ this.told
    /\ Older(this.counted, u) \subseteq users

NoneMissed(this) ==
    IsBatch(this) =>
        /\ \A u \in this.counted \cap users : Settled(u) => Older(users, u) \subseteq this.counted
        /\ \A u \in People : Due(this, u) =>
              /\ this.phase # "finish"
              /\ this.phase \in Paging => u \in Els(this.page) \/ Reached(this) <= Rank(u)

RunOK(this) == RunFits(this) /\ NoneTwice(this) /\ NoneMissed(this)

RunsInv ==
    /\ run \in [Workers -> Runs \cup {NoRun}]
    /\ \A w \in Workers : run[w] # NoRun => RunOK(run[w])

\* The runs of job j that have not notified u, and those that are about to
\* save a row for u.
Without(j, u) == {w \in Workers : run[w] # NoRun /\ run[w].job = j /\ u \notin run[w].told}

Saving(j, u) == {w \in Workers : In(w, "save") /\ run[w].job = j /\ User(w) = u}

Tally(j, u) ==
    /\ Settled(u) \/ name[j] = "send-product" =>
           delivered[j][u] + Cardinality(Without(j, u)) <= runs[j]
    /\ logs[j][u] + Cardinality(Saving(j, u)) <= delivered[j][u]

TallyInv == \A j \in Jobs, u \in People : Tally(j, u)

Inv == RowsOK /\ QueueInv /\ RunsInv /\ TallyInv


-----------------------------------------------------------------------------
(* The queue *)

LEMMA Limits ==
  BatchSize \in Nat \ {0} /\ MaxAttempts \in Nat \ {0} /\ MaxStalled \in Nat
BY NotificationAssumption

LEMMA Constants ==
  /\ IsFiniteSet(People) /\ IsFiniteSet(Workers) /\ Names \subseteq [Jobs -> {"send-batch", "send-product"}]
  /\ Buyers \subseteq People /\ IsFiniteSet(Buyers) /\ Ages \subseteq [People -> Nat]
  /\ Nobody \notin Workers /\ NoRun \notin Runs
<1>1. Buyers \subseteq People
  BY NotificationAssumption DEF People
<1> QED
  BY <1>1, NotificationAssumption, FS_Subset

\* The step makes the fields of job j the ones given, which fit each other.
Moved(j, s, h, f, t, r) ==
    /\ s \in {"absent", "waiting", "active", "completed", "failed"}
    /\ h \in Workers \cup {Nobody} /\ f \in 0..MaxAttempts
    /\ t \in 0..(MaxStalled + 1) /\ r \in Nat
    /\ state' = [state EXCEPT ![j] = s] /\ holder' = [holder EXCEPT ![j] = h]
    /\ failures' = [failures EXCEPT ![j] = f] /\ stalls' = [stalls EXCEPT ![j] = t]
    /\ runs' = [runs EXCEPT ![j] = r]
    /\ JobFits(s, f, t, r) /\ (h # Nobody <=> s = "active")

LEMMA QueueMoves ==
  ASSUME QueueInv, NEW j \in Jobs, NEW s, NEW h, NEW f, NEW t, NEW r,
         Moved(j, s, h, f, t, r)
  PROVE  QueueInv'
<1> USE DEF Moved
<1>1. r \in 0..(MaxAttempts + MaxStalled)
  BY Limits DEF JobFits
<1>2. Queue!QueueTypeOK'
  BY Limits DEF QueueInv, Queue!QueueTypeOK, Queue!Ended
<1>3. runs' \in [Jobs -> 0..(MaxAttempts + MaxStalled)]
  BY <1>1 DEF QueueInv
<1>4. ASSUME NEW i \in Jobs
      PROVE  JobFits(state'[i], failures'[i], stalls'[i], runs'[i])
  <2>1. CASE i = j
    BY <2>1 DEF QueueInv, Queue!QueueTypeOK
  <2>2. CASE i # j
    <3>1. /\ state'[i] = state[i] /\ failures'[i] = failures[i]
          /\ stalls'[i] = stalls[i] /\ runs'[i] = runs[i]
      BY <2>2 DEF QueueInv, Queue!QueueTypeOK
    <3> QED
      BY <3>1 DEF QueueInv
  <2> QED
    BY <2>1, <2>2
<1> QED
  BY <1>2, <1>3, <1>4 DEF QueueInv

LEMMA JobTyped ==
  ASSUME QueueInv, NEW j \in Jobs
  PROVE  /\ state[j] \in {"absent", "waiting", "active", "completed", "failed"}
         /\ holder[j] \in Workers \cup {Nobody}
         /\ failures[j] \in 0..MaxAttempts /\ stalls[j] \in 0..(MaxStalled + 1)
         /\ failures[j] \in Nat /\ stalls[j] \in Nat /\ runs[j] \in Nat
         /\ holder[j] # Nobody <=> state[j] = "active"
         /\ JobFits(state[j], failures[j], stalls[j], runs[j])
         /\ state = [state EXCEPT ![j] = state[j]]
         /\ holder = [holder EXCEPT ![j] = holder[j]]
         /\ failures = [failures EXCEPT ![j] = failures[j]]
         /\ stalls = [stalls EXCEPT ![j] = stalls[j]]
         /\ runs = [runs EXCEPT ![j] = runs[j]]
BY DEF QueueInv, Queue!QueueTypeOK, Queue!Ended

LEMMA QueueSame ==
  ASSUME QueueInv, UNCHANGED queueVars, UNCHANGED runs
  PROVE  QueueInv'
BY DEF QueueInv, queueVars, Queue!QueueTypeOK, JobFits

LEMMA QueueKept ==
  ASSUME QueueInv, RunsInv, [Next]_vars
  PROVE  QueueInv'
<1>1. ASSUME NEW j \in Jobs, Add(j)
      PROVE  QueueInv'
  <2>1. JobFits("waiting", failures[j], stalls[j], runs[j])
    BY <1>1, JobTyped, Limits DEF Add, Queue!Add, JobFits
  <2>2. holder[j] = Nobody
    BY <1>1, JobTyped DEF Add, Queue!Add
  <2>3. Moved(j, "waiting", Nobody, failures[j], stalls[j], runs[j])
    BY <1>1, <2>1, <2>2, JobTyped DEF Add, Queue!Add, Moved
  <2> QED
    BY <2>3, QueueMoves
<1>2. ASSUME NEW j \in Jobs, Stall(j)
      PROVE  QueueInv'
  <2> DEFINE s == IF stalls[j] + 1 > MaxStalled THEN "failed" ELSE "waiting"
  <2>1. /\ state[j] = "active" /\ state' = [state EXCEPT ![j] = s]
        /\ holder' = [holder EXCEPT ![j] = Nobody]
        /\ stalls' = [stalls EXCEPT ![j] = stalls[j] + 1]
        /\ failures' = failures /\ runs' = runs
    BY <1>2, JobTyped DEF Stall, Queue!Stall, Queue!LetGo, QueueInv, Queue!QueueTypeOK
  <2>2. JobFits(s, failures[j], stalls[j] + 1, runs[j]) /\ stalls[j] + 1 \in 0..(MaxStalled + 1)
    BY <2>1, JobTyped, Limits DEF JobFits
  <2>3. s \in {"waiting", "failed"}
    OBVIOUS
  <2> HIDE DEF s
  <2>4. Moved(j, s, Nobody, failures[j], stalls[j] + 1, runs[j])
    BY <2>1, <2>2, <2>3, JobTyped DEF Moved
  <2> QED
    BY <2>4, QueueMoves
<1>3. ASSUME NEW w \in Workers, NEW j \in Jobs, Process(w, j)
      PROVE  QueueInv'
  <2>1. /\ state[j] = "waiting" /\ state' = [state EXCEPT ![j] = "active"]
        /\ holder' = [holder EXCEPT ![j] = w] /\ failures' = failures /\ stalls' = stalls
        /\ runs' = [runs EXCEPT ![j] = runs[j] + 1]
    BY <1>3 DEF Process, Queue!Take
  <2>2. JobFits("active", failures[j], stalls[j], runs[j] + 1) /\ runs[j] + 1 \in Nat
    BY <2>1, JobTyped DEF JobFits
  <2>3. Moved(j, "active", w, failures[j], stalls[j], runs[j] + 1)
    BY <2>1, <2>2, JobTyped, Constants DEF Moved
  <2> QED
    BY <2>3, QueueMoves
<1>4. ASSUME NEW w \in Workers, Finish(w)
      PROVE  QueueInv'
  <2>1. PICK j \in Jobs : j = run[w].job
    BY <1>4 DEF Finish, In, RunsInv, Runs
  <2>2. CASE holder[j] # w
    BY <1>4, <2>1, <2>2, QueueSame DEF Finish, Queue!Complete, Queue!queueVars, Queue!LetGo, queueVars
  <2>3. CASE holder[j] = w
    <3>1. /\ state' = [state EXCEPT ![j] = "completed"] /\ holder' = [holder EXCEPT ![j] = Nobody]
          /\ failures' = failures /\ stalls' = stalls /\ runs' = runs
      BY <1>4, <2>1, <2>3 DEF Finish, Queue!Complete, Queue!LetGo
    <3>2. state[j] = "active"
      BY <2>3, JobTyped, Constants
    <3>3. JobFits("completed", failures[j], stalls[j], runs[j])
      BY <3>2, JobTyped DEF JobFits
    <3>4. Moved(j, "completed", Nobody, failures[j], stalls[j], runs[j])
      BY <3>1, <3>3, JobTyped DEF Moved
    <3> QED
      BY <3>4, QueueMoves
  <2> QED
    BY <2>2, <2>3
<1>5. ASSUME NEW w \in Workers, QueryFails(w)
      PROVE  QueueInv'
  <2>1. PICK j \in Jobs : j = run[w].job
    BY <1>5 DEF QueryFails, RunsInv, Runs
  <2>2. CASE holder[j] # w
    BY <1>5, <2>1, <2>2, QueueSame
    DEF QueryFails, Queue!FailAttempt, Queue!queueVars, Queue!LetGo, queueVars
  <2>3. CASE holder[j] = w
    <3> DEFINE s == IF failures[j] + 1 = MaxAttempts THEN "failed" ELSE "waiting"
    <3>1. /\ state' = [state EXCEPT ![j] = s] /\ holder' = [holder EXCEPT ![j] = Nobody]
          /\ failures' = [failures EXCEPT ![j] = failures[j] + 1]
          /\ stalls' = stalls /\ runs' = runs
      BY <1>5, <2>1, <2>3, JobTyped
      DEF QueryFails, Queue!FailAttempt, Queue!LetGo, QueueInv, Queue!QueueTypeOK
    <3>2. state[j] = "active"
      BY <2>3, JobTyped, Constants
    <3>3. JobFits(s, failures[j] + 1, stalls[j], runs[j]) /\ failures[j] + 1 \in 0..MaxAttempts
      BY <3>2, JobTyped, Limits DEF JobFits
    <3>4. s \in {"waiting", "failed"}
      OBVIOUS
    <3> HIDE DEF s
    <3>5. Moved(j, s, Nobody, failures[j] + 1, stalls[j], runs[j])
      BY <3>1, <3>3, <3>4, JobTyped DEF Moved
    <3> QED
      BY <3>5, QueueMoves
  <2> QED
    BY <2>2, <2>3
<1>6. ASSUME NEW w \in Workers,
             \/ Count(w) \/ ReadPage(w) \/ ReadBuyers(w)
             \/ Deliver(w) \/ PassOver(w) \/ SaveLog(w) \/ Crash(w)
      PROVE  QueueInv'
  BY <1>6, QueueSame DEF Count, ReadPage, ReadBuyers, Deliver, PassOver, SaveLog, Crash, Resume
<1>7. ASSUME NEW u \in People, Register(u) \/ Unregister(u)
      PROVE  QueueInv'
  BY <1>7, QueueSame DEF Register, Unregister
<1>8. CASE UNCHANGED vars
  BY <1>8, QueueSame DEF vars, queueVars
<1> QED
  BY <1>1, <1>2, <1>3, <1>4, <1>5, <1>6, <1>7, <1>8 DEF Next, Progress


-----------------------------------------------------------------------------
(* What a page holds *)

LEMMA PageIsPart ==
  ASSUME NEW S, NEW listing \in Seq(S), NEW batch \in Nat \ {0}
  PROVE  /\ Page(listing, batch) \in Seq(S) /\ Len(Page(listing, batch)) <= BatchSize
         /\ \A k \in DOMAIN Page(listing, batch) :
               /\ k \in Nat /\ 1 <= k /\ k <= BatchSize /\ Skip(batch) + k \in DOMAIN listing
               /\ Page(listing, batch)[k] = listing[Skip(batch) + k]
         /\ \A n \in DOMAIN listing :
               Skip(batch) <= n - 1 /\ n - 1 < Skip(batch) + BatchSize =>
                   n - Skip(batch) \in DOMAIN Page(listing, batch)
<1> DEFINE skip == Skip(batch)
           end == IF Len(listing) < skip + BatchSize THEN Len(listing) ELSE skip + BatchSize
           page == SubSeq(listing, skip + 1, end)
<1>0. Len(listing) \in Nat
  BY LenProperties
<1>1. skip \in Nat /\ BatchSize \in Nat \ {0}
  BY SkipNext, Limits
<1>2. DOMAIN listing = 1 .. Len(listing) /\ \A n \in DOMAIN listing : listing[n] \in S
  BY LenProperties, ElementOfSeq
<1>3. Page(listing, batch) = page
  BY DEF Page
<1> HIDE DEF skip
<1>4. /\ skip + 1 \in Int /\ end \in Int /\ end <= Len(listing) /\ end <= skip + BatchSize
      /\ end = Len(listing) \/ end = skip + BatchSize
  BY <1>0, <1>1
<1> HIDE DEF end
<1>5. \A n \in (skip + 1) .. end : listing[n] \in S
  <2>1. \A n \in (skip + 1) .. end : n \in 1 .. Len(listing)
    BY <1>0, <1>1, <1>4
  <2> QED
    BY <1>2, <2>1
<1>6. /\ page \in Seq(S) /\ Len(page) = IF skip + 1 <= end THEN end - (skip + 1) + 1 ELSE 0
      /\ \A k \in 1 .. (end - (skip + 1) + 1) : page[k] = listing[(skip + 1) + k - 1]
  BY <1>4, <1>5, SubSeqProperties
<1> HIDE DEF page
<1>7. DOMAIN page = 1 .. Len(page)
  BY <1>6, LenProperties
<1>8. ASSUME NEW k \in DOMAIN page
      PROVE  k \in Nat /\ 1 <= k /\ k <= BatchSize /\ skip + k \in DOMAIN listing /\ page[k] = listing[skip + k]
  <2>1. k \in 1 .. (end - (skip + 1) + 1) /\ (skip + 1) + k - 1 = skip + k
    BY <1>1, <1>4, <1>6, <1>7
  <2>2. page[k] = listing[skip + k]
    BY <1>6, <2>1
  <2>3. k \in Nat /\ 1 <= k /\ k <= BatchSize /\ skip + k \in 1 .. Len(listing)
    BY <1>0, <1>1, <1>4, <2>1
  <2> QED
    BY <1>2, <2>2, <2>3
<1>9. ASSUME NEW n \in DOMAIN listing, skip <= n - 1, n - 1 < skip + BatchSize
      PROVE  n - skip \in DOMAIN page
  <2>1. n \in 1 .. Len(listing)
    BY <1>2
  <2>2. n - skip \in 1 .. (end - (skip + 1) + 1) /\ skip + 1 <= end
    BY <1>0, <1>1, <1>4, <1>9, <2>1
  <2> QED
    BY <1>6, <1>7, <2>2
<1>10. Len(page) <= BatchSize
  BY <1>1, <1>4, <1>6
<1> QED
  BY <1>3, <1>6, <1>8, <1>9, <1>10 DEF skip

\* The users of a page are those whose rank falls into it.
LEMMA PageByRank ==
  ASSUME users \subseteq People, createdAt \in Ages, NEW listing \in Listings(users),
         NEW batch \in Nat \ {0}
  PROVE  /\ Page(listing, batch) \in Seq(People) /\ Len(Page(listing, batch)) <= BatchSize
         /\ Distinct(Page(listing, batch)) /\ Els(Page(listing, batch)) \subseteq users
         /\ \A u \in users : Untied(u) =>
               /\ Rank(u) \in Nat
               /\ u \in Els(Page(listing, batch)) <=>
                     Skip(batch) <= Rank(u) /\ Rank(u) < Skip(batch) + BatchSize
<1> DEFINE skip == Skip(batch)
           page == Page(listing, batch)
<1>1. skip \in Nat /\ BatchSize \in Nat \ {0}
  BY SkipNext, Limits
<1>2. IsFiniteSet(users)
  BY FS_Subset, Constants
<1>3. /\ listing \in Seq(users) /\ Cardinality(users) \in Nat
      /\ DOMAIN listing = 1 .. Cardinality(users) /\ Distinct(listing) /\ Els(listing) = users
  BY <1>2, OrdersOfASet DEF Listings
<1>4. listing \in Seq(People)
  BY <1>3, SeqMonotonic DEF Listings
<1>5. /\ page \in Seq(People) /\ Len(page) <= BatchSize
      /\ \A k \in DOMAIN page : /\ k \in Nat /\ 1 <= k /\ k <= BatchSize /\ skip + k \in DOMAIN listing
                                /\ page[k] = listing[skip + k]
      /\ \A n \in DOMAIN listing :
            skip <= n - 1 /\ n - 1 < skip + BatchSize => n - skip \in DOMAIN page
  BY <1>4, PageIsPart
<1> HIDE DEF skip, page
<1>6. Distinct(page)
  <2> SUFFICES ASSUME NEW m \in DOMAIN page, NEW n \in DOMAIN page, page[m] = page[n] PROVE m = n
    BY DEF Distinct
  <2>1. skip + m = skip + n
    BY <1>3, <1>5 DEF Distinct
  <2> QED
    BY <1>1, <1>5, <2>1
<1>7. Els(page) \subseteq users
  BY <1>3, <1>5 DEF Els
<1>8. ASSUME NEW u \in users, Untied(u)
      PROVE  /\ Rank(u) \in Nat
             /\ u \in Els(page) <=> skip <= Rank(u) /\ Rank(u) < skip + BatchSize
  <2>1. PICK n \in DOMAIN listing : listing[n] = u
    BY <1>3 DEF Els
  <2>2. Rank(u) = n - 1 /\ n \in Nat /\ n >= 1
    BY <1>3, <1>8, <2>1, PlaceIsRank
  <2>3. ASSUME u \in Els(page)
        PROVE  skip <= Rank(u) /\ Rank(u) < skip + BatchSize
    <3>1. PICK k \in DOMAIN page : page[k] = u
      BY <2>3 DEF Els
    <3>2. skip + k = n
      BY <1>3, <1>5, <2>1, <3>1 DEF Distinct
    <3> QED
      BY <1>1, <1>5, <2>2, <3>2
  <2>4. ASSUME skip <= Rank(u), Rank(u) < skip + BatchSize
        PROVE  u \in Els(page)
    <3>1. n - skip \in DOMAIN page
      BY <1>5, <2>2, <2>4
    <3>2. page[n - skip] = listing[skip + (n - skip)] /\ skip + (n - skip) = n
      BY <1>1, <1>5, <2>2, <3>1
    <3> QED
      BY <2>1, <3>1, <3>2 DEF Els
  <2> QED
    BY <2>2, <2>3, <2>4
<1> QED
  BY <1>5, <1>6, <1>7, <1>8 DEF skip, page


-----------------------------------------------------------------------------
(* Runs, one at a time *)

RowVars == <<name, wordless, createdAt, users, expected, overtaken>>

LEMMA RankTyped ==
  ASSUME RowsOK, NEW u
  PROVE  Rank(u) \in Nat /\ IsFiniteSet(users) /\ IsFiniteSet(Older(users, u))
<1>1. IsFiniteSet(users)
  BY FS_Subset, Constants DEF RowsOK
<1>2. Older(users, u) \in SUBSET users
  BY DEF Older
<1> QED
  BY <1>1, <1>2, FS_Subset, FS_CardinalityType DEF Rank

LEMMA RunSame ==
  ASSUME UNCHANGED RowVars
  PROVE  \A this : RunOK(this)' <=> RunOK(this)
BY DEF RowVars, RunOK, RunFits, NoneTwice, NoneMissed, IsBatch, Ahead, Reached, Due, Settled, Rank, Older

\* What a run may be in, once a page is read and everybody on it served.
PageDone(this) ==
    /\ this \in Runs /\ this.page = << >> /\ this.batch >= 1
    /\ (this.told \cup this.counted) \cap expected = {}
    /\ ~IsBatch(this) => this.batch = 1 /\ this.batches = 1
    /\ IsBatch(this) =>
          /\ this.batch <= this.batches
          /\ Cardinality(this.counted) <= this.batches * BatchSize
          /\ \A u \in users \cap this.told : Settled(u) => Rank(u) < Skip(this.batch + 1)
          /\ \A u \in this.counted \cap users : Settled(u) => Older(users, u) \subseteq this.counted
          /\ \A u \in People : Due(this, u) => Skip(this.batch + 1) <= Rank(u)

\* Whoever is due has a rank below the number of users counted.
LEMMA RankBelowCount ==
  ASSUME RowsOK, NEW this \in Runs, NEW u \in People, Due(this, u),
         Older(users, u) \subseteq this.counted
  PROVE  Rank(u) < Cardinality(this.counted) /\ Cardinality(this.counted) \in Nat
<1>1. this.counted \subseteq People /\ u \in this.counted
  BY DEF Runs, Due
<1>2. IsFiniteSet(this.counted)
  BY <1>1, Constants, FS_Subset
<1>3. u \notin Older(users, u)
  <2>1. createdAt[u] \in Nat
    BY Constants DEF RowsOK
  <2> QED
    BY <2>1 DEF Older
<1>4. Older(users, u) \subseteq this.counted \ {u}
  BY <1>3
<1>5. Cardinality(this.counted \ {u}) = Cardinality(this.counted) - 1 /\ IsFiniteSet(this.counted \ {u})
  BY <1>1, <1>2, FS_RemoveElement
<1>6. Rank(u) <= Cardinality(this.counted \ {u})
  BY <1>4, <1>5, FS_Subset DEF Rank
<1>7. Cardinality(this.counted) \in Nat /\ Rank(u) \in Nat
  BY <1>2, FS_CardinalityType, RankTyped
<1> QED
  BY <1>5, <1>6, <1>7

LEMMA AfterPage ==
  ASSUME RowsOK, NEW this, PageDone(this)
  PROVE  NextBatch(this) \in Runs /\ RunOK(NextBatch(this))
<1> DEFINE next == NextBatch(this)
<1>1. /\ this \in Runs /\ this.batch \in Nat \ {0} /\ this.batches \in Nat /\ this.job \in Jobs
      /\ this.told \subseteq People /\ this.counted \subseteq People /\ this.page = << >>
  BY DEF PageDone, Runs
<1>2. /\ next \in Runs /\ next.job = this.job /\ next.page = << >> /\ next.batches = this.batches
      /\ next.told = this.told /\ next.counted = this.counted
      /\ \/ next.phase = "page" /\ next.batch = this.batch + 1 /\ this.batch < this.batches
         \/ next.phase = "finish" /\ next.batch = this.batch /\ ~(this.batch < this.batches)
  <2>1. CASE this.batch < this.batches
    <3>1. next = [this EXCEPT !.phase = "page", !.batch = this.batch + 1]
      BY <2>1 DEF NextBatch
    <3>2. this.batch + 1 \in Nat /\ "page" \in Phases
      BY <1>1 DEF Phases
    <3> HIDE DEF next
    <3> QED
      BY <1>1, <2>1, <3>1, <3>2 DEF Runs
  <2>2. CASE ~(this.batch < this.batches)
    <3>1. next = [this EXCEPT !.phase = "finish"]
      BY <2>2 DEF NextBatch
    <3>2. "finish" \in Phases
      BY DEF Phases
    <3> HIDE DEF next
    <3> QED
      BY <1>1, <2>2, <3>1, <3>2 DEF Runs
  <2> QED
    BY <2>1, <2>2
<1> HIDE DEF next
<1>3. IsBatch(next) <=> IsBatch(this)
  BY <1>2 DEF IsBatch
<1>4. \A u : Due(next, u) <=> Due(this, u)
  BY <1>2 DEF Due
<1>5. next.phase = "page" => IsBatch(this)
  BY <1>1, <1>2 DEF PageDone
<1>6. next.batch >= 1 /\ (next.phase = "page" => next.batch <= next.batches)
  BY <1>1, <1>2
<1>7. Len(<< >>) = 0 /\ 0 <= BatchSize /\ 0 <= Cardinality(Buyers)
  BY Constants, Limits, FS_CardinalityType
<1>8. RunFits(next)
  BY <1>2, <1>3, <1>5, <1>6, <1>7 DEF RunFits, PageDone, Notifying, Paging
<1>9. next.phase = "page" => Reached(next) = Skip(this.batch + 1)
  BY <1>2 DEF Reached, Notifying
<1>10. Ahead(next) = {} /\ next.phase \notin {"count", "buyers", "save", "deliver"}
  BY <1>2 DEF Ahead
<1>11. NoneTwice(next)
  BY <1>2, <1>3, <1>5, <1>9, <1>10, EmptyPage DEF NoneTwice, PageDone, Paging, Notifying
<1>12. ASSUME IsBatch(this), next.phase = "finish", NEW u \in People, Due(this, u)
       PROVE  FALSE
  <2>1. this.batch = this.batches
    BY <1>1, <1>2, <1>12 DEF PageDone
  <2>2. Skip(this.batch + 1) = this.batches * BatchSize
    BY <1>1, <2>1, SkipNext
  <2>3. Older(users, u) \subseteq this.counted
    BY <1>12 DEF PageDone, Due
  <2>4. Rank(u) < Cardinality(this.counted) /\ Cardinality(this.counted) \in Nat
    BY <1>1, <1>12, <2>3, RankBelowCount
  <2>5. /\ Cardinality(this.counted) <= this.batches * BatchSize
        /\ this.batches * BatchSize <= Rank(u) /\ Rank(u) \in Nat
    BY <1>12, <2>2, RankTyped DEF PageDone
  <2>6. this.batches * BatchSize \in Nat
    BY <1>1, <2>2, SkipNext, Limits
  <2> QED
    BY <2>4, <2>5, <2>6
<1>13. NoneMissed(next)
  BY <1>2, <1>3, <1>4, <1>9, <1>10, <1>12 DEF NoneMissed, PageDone, Paging, Notifying
<1> QED
  BY <1>2, <1>8, <1>11, <1>13 DEF next, RunOK


-----------------------------------------------------------------------------
(* Every action keeps the runs in order *)

LEMMA RunTyped ==
  ASSUME RunsInv, NEW w \in Workers, run[w] # NoRun
  PROVE  /\ run[w] \in Runs /\ RunOK(run[w]) /\ run[w].job \in Jobs
         /\ run[w].batch \in Nat \ {0} /\ run[w].batches \in Nat /\ run[w].page \in Seq(People)
         /\ run[w].counted \subseteq People /\ run[w].told \subseteq People
BY DEF RunsInv, Runs, RunOK, RunFits

LEMMA SetRun ==
  ASSUME RunsInv, UNCHANGED RowVars, NEW w \in Workers, NEW new \in Runs \cup {NoRun},
         run' = [run EXCEPT ![w] = new], new # NoRun => RunOK(new)
  PROVE  RunsInv'
<1>1. run' \in [Workers -> Runs \cup {NoRun}]
  BY DEF RunsInv
<1>2. ASSUME NEW v \in Workers, run'[v] # NoRun
      PROVE  RunOK(run[v])'
  <2>1. PICK this : this = run'[v]
    OBVIOUS
  <2>2. RunOK(this)
    BY <1>2, <2>1 DEF RunsInv
  <2>3. RunOK(this)'
    BY <2>2, RunSame
  <2> QED
    BY <2>1, <2>3
<1> QED
  BY <1>1, <1>2 DEF RunsInv

LEMMA RunsLeftAlone ==
  ASSUME RunsInv, UNCHANGED RowVars, UNCHANGED run
  PROVE  RunsInv'
<1>1. ASSUME NEW v \in Workers, run'[v] # NoRun
      PROVE  RunOK(run[v])'
  <2>1. PICK this : this = run'[v]
    OBVIOUS
  <2>2. RunOK(this)'
    BY <1>1, <2>1, RunSame DEF RunsInv
  <2> QED
    BY <2>1, <2>2
<1> QED
  BY <1>1 DEF RunsInv

LEMMA ProcessKeepsRuns ==
  ASSUME RowsOK, RunsInv, NEW w \in Workers, NEW j \in Jobs, Process(w, j)
  PROVE  RunsInv'
<1> DEFINE phase == IF name[j] = "send-batch" THEN "count" ELSE "buyers"
           new == [job |-> j, phase |-> phase, batch |-> 1, batches |-> 1, page |-> << >>,
                   counted |-> {}, told |-> {}]
<1>1. run' = [run EXCEPT ![w] = new] /\ UNCHANGED RowVars
  BY DEF Process, RowVars, fixedVars, userVars
<1>2. new \in Runs
  BY DEF Runs, Phases
<1>3. Cardinality({}) = 0 /\ 0 <= 1 * BatchSize /\ Len(<< >>) = 0 /\ 0 <= BatchSize
      /\ 0 <= Cardinality(Buyers)
  BY FS_EmptySet, Limits, Constants, FS_CardinalityType
<1>4. /\ new.job = j /\ new.phase = phase /\ new.batch = 1 /\ new.batches = 1 /\ new.page = << >>
      /\ new.counted = {} /\ new.told = {}
  OBVIOUS
<1> HIDE DEF new
<1>5. IsBatch(new) <=> phase = "count"
  BY <1>4 DEF IsBatch
<1>6. phase \in {"count", "buyers"}
  OBVIOUS
<1> HIDE DEF phase
<1>7. RunFits(new)
  BY <1>3, <1>4, <1>5, <1>6 DEF RunFits, Notifying, Paging
<1>8. NoneTwice(new)
  BY <1>4, <1>5, <1>6, EmptyPage DEF NoneTwice, Notifying, Paging, Ahead
<1>9. NoneMissed(new)
  BY <1>4 DEF NoneMissed, Due
<1> QED
  BY <1>1, <1>2, <1>7, <1>8, <1>9, SetRun DEF RunOK

LEMMA CountKeepsRuns ==
  ASSUME RowsOK, RunsInv, NEW w \in Workers, Count(w)
  PROVE  RunsInv'
<1> DEFINE this == run[w]
           n == Batches(Cardinality(users))
           phase == IF n = 0 THEN "finish" ELSE "page"
           new == [this EXCEPT !.phase = phase, !.batches = n, !.counted = users]
<1>1. run' = [run EXCEPT ![w] = new] /\ UNCHANGED RowVars /\ this # NoRun /\ this.phase = "count"
  BY DEF Count, Resume, RowVars, fixedVars, userVars, In
<1>2. this \in Runs /\ RunOK(this)
  BY <1>1, RunTyped
<1>3. /\ this.batch = 1 /\ this.page = << >> /\ IsBatch(this)
      /\ this.told = {}
  BY <1>1, <1>2 DEF RunOK, RunFits, NoneTwice, Notifying
<1>4. /\ Cardinality(users) \in Nat /\ n \in Nat /\ Cardinality(users) <= n * BatchSize
      /\ n = 0 => Cardinality(users) = 0
  BY EnoughBatches, RankTyped, FS_CardinalityType
<1>5. n = 0 => users = {}
  BY <1>4, RankTyped, FS_EmptySet
<1>6. phase \in Phases /\ users \in SUBSET People
  BY DEF Phases, RowsOK
<1> HIDE DEF n, phase, this
<1>7. /\ new \in Runs /\ new.job = this.job /\ new.phase = phase /\ new.batch = 1 /\ new.batches = n
      /\ new.page = << >> /\ new.counted = users /\ new.told = {}
  BY <1>2, <1>3, <1>4, <1>6 DEF Runs
<1> HIDE DEF new
<1>8. IsBatch(new)
  BY <1>3, <1>7 DEF IsBatch
<1>9. phase \in {"finish", "page"} /\ (phase = "finish" <=> n = 0)
  BY DEF phase
<1>10. Len(<< >>) = 0 /\ 0 <= BatchSize /\ (n # 0 => 1 <= n)
  BY <1>4, Limits
<1>11. RunFits(new)
  BY <1>4, <1>7, <1>8, <1>9, <1>10 DEF RunFits, Notifying, Paging
<1>12. NoneTwice(new)
  BY <1>7, <1>9, EmptyPage DEF NoneTwice, Notifying, Paging, Ahead, RowsOK
<1>13. Skip(1) = 0
  BY Limits DEF Skip
<1>14. \A u : 0 <= Rank(u)
  BY RankTyped
<1>15. NoneMissed(new)
  BY <1>5, <1>7, <1>9, <1>13, <1>14 DEF NoneMissed, Due, Reached, Notifying, Paging, Older
<1> QED
  BY <1>1, <1>7, <1>11, <1>12, <1>15, SetRun DEF RunOK, this


\* What a run about to read a page knows of its place.
LEMMA ReadPageKeepsRuns ==
  ASSUME RowsOK, RunsInv, NEW w \in Workers, ReadPage(w)
  PROVE  RunsInv'
<1> DEFINE this == run[w]
<1>1. PICK listing \in Listings(users) :
         run' = [run EXCEPT ![w] = HandlePage(this, Page(listing, this.batch))]
  BY DEF ReadPage, Resume
<1>2. UNCHANGED RowVars /\ this # NoRun /\ this.phase = "page"
  BY DEF ReadPage, Resume, RowVars, fixedVars, userVars, In
<1>3. this \in Runs /\ RunOK(this) /\ this.batch \in Nat \ {0}
  BY <1>2, RunTyped
<1> HIDE DEF this
<1> DEFINE page == Page(listing, this.batch)
<1>4. IsBatch(this) /\ this.page = << >>
  BY <1>2, <1>3 DEF RunOK, RunFits, Notifying
<1>5. /\ page \in Seq(People) /\ Len(page) <= BatchSize /\ Distinct(page) /\ Els(page) \subseteq users
      /\ \A u \in users : Untied(u) =>
            /\ Rank(u) \in Nat
            /\ u \in Els(page) <=> Skip(this.batch) <= Rank(u) /\ Rank(u) < Skip(this.batch) + BatchSize
  BY <1>3, PageByRank DEF RowsOK
<1>6. Skip(this.batch) \in Nat /\ Skip(this.batch + 1) = Skip(this.batch) + BatchSize /\ BatchSize \in Nat \ {0}
  BY <1>3, SkipNext, Limits
<1> HIDE DEF page
<1>7. \A u : Settled(u) => Untied(u)
  BY DEF Settled, Untied
<1>8. /\ \A u \in users \cap this.told : Settled(u) => Rank(u) < Skip(this.batch)
      /\ (this.told \cup this.counted) \cap expected = {}
  BY <1>2, <1>3, <1>4 DEF RunOK, NoneTwice, Paging, Notifying, Reached
<1>9. \A u \in users \cap (this.told \cup Els(page)) : Settled(u) => Rank(u) < Skip(this.batch + 1)
  <2> SUFFICES ASSUME NEW u \in users \cap (this.told \cup Els(page)), Settled(u)
               PROVE  Rank(u) < Skip(this.batch + 1)
    OBVIOUS
  <2>1. Rank(u) \in Nat
    BY RankTyped
  <2>2. u \in Els(page) => Rank(u) < Skip(this.batch) + BatchSize
    BY <1>5, <1>7
  <2>3. u \in this.told => Rank(u) < Skip(this.batch)
    BY <1>8
  <2> QED
    BY <1>6, <2>1, <2>2, <2>3
<1>10. \A u \in People : Due(this, u) => u \in Els(page) \/ Skip(this.batch + 1) <= Rank(u)
  <2> SUFFICES ASSUME NEW u \in People, Due(this, u), u \notin Els(page)
               PROVE  Skip(this.batch + 1) <= Rank(u)
    OBVIOUS
  <2>1. Rank(u) \in Nat /\ u \in users /\ Untied(u)
    BY <1>7, RankTyped DEF Due
  <2>2. Skip(this.batch) <= Rank(u)
    BY <1>2, <1>3, <1>4, EmptyPage DEF RunOK, NoneMissed, Paging, Notifying, Reached
  <2> QED
    BY <1>5, <1>6, <2>1, <2>2
<1>11. CASE page = << >>
  <2>1. PageDone(this)
    BY <1>2, <1>3, <1>4, <1>8, <1>9, <1>10, <1>11, EmptyPage
    DEF PageDone, RunOK, RunFits, NoneMissed, Paging, Notifying
  <2>2. HandlePage(this, page) = NextBatch(this)
    BY <1>11 DEF HandlePage
  <2> QED
    BY <1>1, <1>2, <2>1, <2>2, AfterPage, SetRun DEF page
<1>12. CASE page # << >>
  <2> DEFINE new == [this EXCEPT !.phase = "deliver", !.page = page]
  <2>1. /\ new \in Runs /\ new.job = this.job /\ new.phase = "deliver" /\ new.batch = this.batch
        /\ new.batches = this.batches /\ new.page = page /\ new.counted = this.counted
        /\ new.told = this.told
    BY <1>3, <1>5 DEF Runs, Phases
  <2>2. HandlePage(this, page) = new
    BY <1>12 DEF HandlePage
  <2> HIDE DEF new
  <2>3. IsBatch(new)
    BY <1>4, <2>1 DEF IsBatch
  <2>4. RunFits(new)
    BY <1>2, <1>3, <1>4, <1>5, <1>12, <2>1, <2>3 DEF RunOK, RunFits, Notifying, Paging
  <2>5. \A u \in People : Settled(u) => u \notin new.told \cap Ahead(new)
    <3> SUFFICES ASSUME NEW u \in People, Settled(u), u \in this.told, u \in Els(page)
                 PROVE  FALSE
      BY <2>1 DEF Ahead
    <3>1. u \in users /\ Rank(u) < Skip(this.batch) /\ Skip(this.batch) <= Rank(u) /\ Rank(u) \in Nat
      BY <1>5, <1>7, <1>8
    <3> QED
      BY <1>6, <3>1
  <2>6. Els(page) \cap expected = {}
    BY <1>5 DEF RowsOK
  <2>7. Reached(new) = Skip(this.batch + 1)
    BY <2>1 DEF Reached, Notifying
  <2>8. NoneTwice(new)
    BY <1>5, <1>8, <1>9, <2>1, <2>3, <2>5, <2>6, <2>7 DEF NoneTwice
  <2>9. \A u : Due(new, u) <=> Due(this, u)
    BY <2>1 DEF Due
  <2>10. NoneMissed(new)
    BY <1>3, <1>4, <1>10, <2>1, <2>7, <2>9 DEF RunOK, NoneMissed
  <2> QED
    BY <1>1, <1>2, <2>1, <2>2, <2>4, <2>8, <2>10, SetRun DEF RunOK, page
<1> QED
  BY <1>11, <1>12

LEMMA ReadBuyersKeepsRuns ==
  ASSUME RowsOK, RunsInv, NEW w \in Workers, ReadBuyers(w)
  PROVE  RunsInv'
<1> DEFINE this == run[w]
<1>1. PICK page \in SetToSeqs(users \cap Buyers) : run' = [run EXCEPT ![w] = HandlePage(this, page)]
  BY DEF ReadBuyers, Resume
<1>2. UNCHANGED RowVars /\ this # NoRun /\ this.phase = "buyers"
  BY DEF ReadBuyers, Resume, RowVars, fixedVars, userVars, In
<1>3. this \in Runs /\ RunOK(this)
  BY <1>2, RunTyped
<1> HIDE DEF this
<1>4. /\ ~IsBatch(this) /\ this.page = << >> /\ this.batch = 1 /\ this.batches = 1
      /\ this.told = {} /\ this.counted = {}
  BY <1>2, <1>3 DEF RunOK, RunFits, NoneTwice, Notifying
<1>5. /\ IsFiniteSet(users \cap Buyers)
      /\ Cardinality(users \cap Buyers) <= Cardinality(Buyers)
  BY Constants, FS_Subset
<1>6. /\ page \in Seq(users \cap Buyers) /\ Len(page) = Cardinality(users \cap Buyers)
      /\ Distinct(page) /\ Els(page) = users \cap Buyers
  BY <1>5, OrdersOfASet
<1>7. page \in Seq(People)
  BY <1>6, Constants, SeqMonotonic
<1>8. CASE page = << >>
  <2>1. PageDone(this)
    BY <1>3, <1>4 DEF PageDone
  <2>2. HandlePage(this, page) = NextBatch(this)
    BY <1>8 DEF HandlePage
  <2> QED
    BY <1>1, <1>2, <2>1, <2>2, AfterPage, SetRun
<1>9. CASE page # << >>
  <2> DEFINE new == [this EXCEPT !.phase = "deliver", !.page = page]
  <2>1. /\ new \in Runs /\ new.job = this.job /\ new.phase = "deliver" /\ new.batch = 1
        /\ new.batches = 1 /\ new.page = page /\ new.counted = {} /\ new.told = {}
    BY <1>3, <1>4, <1>7 DEF Runs, Phases
  <2>2. HandlePage(this, page) = new
    BY <1>9 DEF HandlePage
  <2> HIDE DEF new
  <2>3. ~IsBatch(new)
    BY <1>4, <2>1 DEF IsBatch
  <2>4. RunFits(new)
    BY <1>5, <1>6, <1>9, <2>1, <2>3 DEF RunFits, Notifying
  <2>5. Els(page) \cap expected = {}
    BY <1>6 DEF RowsOK
  <2>6. NoneTwice(new)
    BY <1>6, <2>1, <2>3, <2>5 DEF NoneTwice
  <2>7. NoneMissed(new)
    BY <2>3 DEF NoneMissed
  <2> QED
    BY <1>1, <1>2, <2>1, <2>2, <2>4, <2>6, <2>7, SetRun DEF RunOK
<1> QED
  BY <1>8, <1>9

LEMMA DeliverKeepsRuns ==
  ASSUME RowsOK, RunsInv, NEW w \in Workers, Deliver(w)
  PROVE  RunsInv'
<1> DEFINE this == run[w]
           user == Head(this.page)
           new == [this EXCEPT !.phase = "save", !.told = this.told \cup {user}]
<1>1. run' = [run EXCEPT ![w] = new] /\ UNCHANGED RowVars /\ this # NoRun /\ this.phase = "deliver"
  BY DEF Deliver, Resume, RowVars, fixedVars, userVars, In, User
<1>2. this \in Runs /\ RunOK(this) /\ this.page \in Seq(People) /\ this.page # << >>
  BY <1>1, RunTyped DEF RunOK, RunFits, Notifying
<1> HIDE DEF this
<1>3. /\ user \in Els(this.page) /\ Els(this.page) = {user} \cup Els(Tail(this.page))
      /\ Distinct(this.page) /\ user \notin Els(Tail(this.page))
  BY <1>2, HeadAndTail DEF RunOK, NoneTwice
<1>4. user \in People
  BY <1>2, <1>3, ElementsTyped
<1> HIDE DEF user
<1>5. /\ new \in Runs /\ new.job = this.job /\ new.phase = "save" /\ new.batch = this.batch
      /\ new.batches = this.batches /\ new.page = this.page /\ new.counted = this.counted
      /\ new.told = this.told \cup {user}
  BY <1>2, <1>4 DEF Runs, Phases
<1> HIDE DEF new
<1>6. IsBatch(new) <=> IsBatch(this)
  BY <1>5 DEF IsBatch
<1>7. RunFits(new)
  BY <1>1, <1>2, <1>5, <1>6 DEF RunOK, RunFits, Notifying, Paging
<1>8. Ahead(this) = Els(this.page) /\ Ahead(new) = Els(Tail(this.page)) /\ Reached(new) = Reached(this)
  BY <1>1, <1>5 DEF Ahead, Reached, Notifying
<1>9. NoneTwice(new)
  <2>1. new.told \cup Els(new.page) = this.told \cup Els(this.page)
    BY <1>3, <1>5
  <2>2. Head(new.page) \in new.told
    BY <1>5 DEF user
  <2>3. \A u \in People : Settled(u) \/ ~IsBatch(new) => u \notin new.told \cap Ahead(new)
    BY <1>2, <1>3, <1>5, <1>6, <1>8 DEF RunOK, NoneTwice
  <2> QED
    BY <1>1, <1>2, <1>3, <1>5, <1>6, <1>8, <2>1, <2>2, <2>3 DEF RunOK, NoneTwice, Paging, Notifying
<1>10. \A u : Due(new, u) => Due(this, u)
  BY <1>5 DEF Due
<1>11. NoneMissed(new)
  BY <1>1, <1>2, <1>5, <1>6, <1>8, <1>10 DEF RunOK, NoneMissed, Paging, Notifying
<1> QED
  BY <1>1, <1>5, <1>7, <1>9, <1>11, SetRun DEF RunOK

\* SaveLog and PassOver.
LEMMA NextUserKeepsRuns ==
  ASSUME RowsOK, RunsInv, NEW w \in Workers, SaveLog(w) \/ PassOver(w)
  PROVE  RunsInv'
<1> DEFINE this == run[w]
           user == Head(this.page)
           rest == Tail(this.page)
<1>1. /\ run' = [run EXCEPT ![w] = NextUser(this)] /\ UNCHANGED RowVars /\ this # NoRun
      /\ this.phase \in Notifying /\ (this.phase = "save" \/ this.job \in wordless)
  BY DEF SaveLog, PassOver, Resume, RowVars, fixedVars, userVars, In, Notifying
<1>2. this \in Runs /\ RunOK(this) /\ this.page \in Seq(People) /\ this.page # << >> /\ this.batch \in Nat \ {0}
  BY <1>1, RunTyped DEF RunOK, RunFits, Notifying
<1> HIDE DEF this
<1>3. /\ Els(this.page) = {user} \cup Els(rest) /\ rest \in Seq(People) /\ Distinct(rest)
      /\ Len(rest) = Len(this.page) - 1 /\ Len(this.page) \in Nat /\ (Len(this.page) # 1 => rest # << >>)
  BY <1>2, HeadAndTail DEF RunOK, NoneTwice
<1>4. \A u : Due(this, u) => u # user
  BY <1>1, <1>2 DEF RunOK, NoneTwice, Due
<1>5. Reached(this) = Skip(this.batch + 1) /\ Els(rest) \subseteq Ahead(this)
  BY <1>1, <1>3 DEF Reached, Ahead, Notifying
<1> HIDE DEF user, rest
<1>6. CASE Len(this.page) = 1
  <2> DEFINE done == [this EXCEPT !.page = << >>]
  <2>0. << >> \in Seq(People)
    BY EmptySeq
  <2>1. /\ done \in Runs /\ done.job = this.job /\ done.batch = this.batch /\ done.batches = this.batches
        /\ done.page = << >> /\ done.counted = this.counted /\ done.told = this.told
    BY <1>2, <2>0 DEF Runs
  <2>2. NextUser(this) = NextBatch(done)
    BY <1>6 DEF NextUser
  <2>3. Els(rest) = {}
    <3>1. Len(rest) = 0
      BY <1>3, <1>6
    <3>2. rest = << >>
      BY <1>3, <3>1, EmptySeq
    <3> QED
      BY <3>2, EmptyPage
  <2> HIDE DEF done
  <2>4. IsBatch(done) <=> IsBatch(this)
    BY <2>1 DEF IsBatch
  <2>5. \A u : Due(done, u) <=> Due(this, u)
    BY <2>1 DEF Due
  <2>6. PageDone(done)
    <3>1. \A u \in users \cap this.told : IsBatch(this) /\ Settled(u) => Rank(u) < Skip(this.batch + 1)
      BY <1>1, <1>2, <1>5 DEF RunOK, NoneTwice, Paging, Notifying
    <3>2. \A u \in People : IsBatch(this) /\ Due(done, u) => Skip(this.batch + 1) <= Rank(u)
      BY <1>1, <1>2, <1>3, <1>4, <1>5, <2>3, <2>5 DEF RunOK, NoneMissed, Paging, Notifying
    <3>3. \A u \in this.counted \cap users : IsBatch(this) /\ Settled(u) => Older(users, u) \subseteq this.counted
      BY <1>2 DEF RunOK, NoneMissed
    <3>4. (this.told \cup this.counted) \cap expected = {}
      BY <1>2 DEF RunOK, NoneTwice
    <3>5. /\ this.batch >= 1 /\ (~IsBatch(this) => this.batch = 1 /\ this.batches = 1)
          /\ IsBatch(this) => /\ this.batch <= this.batches
                              /\ Cardinality(this.counted) <= this.batches * BatchSize
      BY <1>1, <1>2 DEF RunOK, RunFits, Paging, Notifying
    <3> QED
      BY <2>1, <2>4, <3>1, <3>2, <3>3, <3>4, <3>5 DEF PageDone
  <2> QED
    BY <1>1, <2>2, <2>6, AfterPage, SetRun
<1>7. CASE Len(this.page) # 1
  <2> DEFINE new == [this EXCEPT !.phase = "deliver", !.page = rest]
  <2>1. /\ new \in Runs /\ new.job = this.job /\ new.phase = "deliver" /\ new.batch = this.batch
        /\ new.batches = this.batches /\ new.page = rest /\ new.counted = this.counted
        /\ new.told = this.told
    BY <1>2, <1>3 DEF Runs, Phases
  <2>2. NextUser(this) = new
    BY <1>7 DEF NextUser, rest
  <2> HIDE DEF new
  <2>3. IsBatch(new) <=> IsBatch(this)
    BY <2>1 DEF IsBatch
  <2>4. \A n \in Nat : Len(this.page) <= n => Len(rest) <= n
    BY <1>3
  <2>5. BatchSize \in Nat /\ Cardinality(Buyers) \in Nat
    BY Limits, Constants, FS_CardinalityType
  <2>6. RunFits(new)
    BY <1>1, <1>2, <1>3, <1>7, <2>1, <2>3, <2>4, <2>5 DEF RunOK, RunFits, Notifying, Paging
  <2>7. Reached(new) = Reached(this) /\ Ahead(new) = Els(rest)
    BY <1>5, <2>1 DEF Reached, Ahead, Notifying
  <2>8. NoneTwice(new)
    BY <1>1, <1>2, <1>3, <1>5, <2>1, <2>3, <2>7 DEF RunOK, NoneTwice, Paging, Notifying
  <2>9. \A u : Due(new, u) <=> Due(this, u)
    BY <2>1 DEF Due
  <2>10. NoneMissed(new)
    BY <1>1, <1>2, <1>3, <1>4, <2>1, <2>3, <2>7, <2>9 DEF RunOK, NoneMissed, Paging, Notifying
  <2> QED
    BY <1>1, <2>1, <2>2, <2>6, <2>8, <2>10, SetRun DEF RunOK
<1> QED
  BY <1>6, <1>7


\* Whoever is there and is not overtaken by a newcomer keeps the rank.
LEMMA RegisterKeepsRuns ==
  ASSUME RowsOK, RunsInv, NEW v \in People, Register(v)
  PROVE  RunsInv'
<1>1. /\ v \in expected /\ v \notin users /\ users' = users \cup {v} /\ expected' = expected \ {v}
      /\ overtaken' = overtaken \cup {u \in users : createdAt[v] < createdAt[u]}
      /\ run' = run /\ name' = name /\ wordless' = wordless /\ createdAt' = createdAt
  BY DEF Register, fixedVars, RowsOK
<1>2. ASSUME NEW u \in users, Settled(u)'
      PROVE  Settled(u) /\ Older(users, u)' = Older(users, u) /\ Rank(u)' = Rank(u)
  <2>1. Settled(u) /\ ~(createdAt[v] < createdAt[u])
    BY <1>1, <1>2 DEF Settled
  <2>2. Older(users, u)' = Older(users, u)
    BY <1>1, <2>1 DEF Older
  <2> QED
    BY <2>1, <2>2 DEF Rank
<1>3. ASSUME NEW u \in People, Settled(u)'
      PROVE  Settled(u)
  BY <1>1, <1>3 DEF Settled
<1>4. ASSUME NEW this \in Runs, RunOK(this)
      PROVE  RunOK(this)'
  <2>1. /\ IsBatch(this)' <=> IsBatch(this)
        /\ Ahead(this)' = Ahead(this) /\ Reached(this)' = Reached(this)
    BY <1>1 DEF IsBatch, Ahead, Reached
  <2>2. v \notin this.told /\ v \notin this.counted /\ v \notin Els(this.page)
    BY <1>1, <1>4 DEF RunOK, NoneTwice
  <2>3. RunFits(this)'
    BY <1>4, <2>1 DEF RunOK, RunFits
  <2>4. NoneTwice(this)'
    <3>1. \A u \in People : Settled(u)' \/ ~IsBatch(this) => u \notin this.told \cap Ahead(this)
      BY <1>3, <1>4 DEF RunOK, NoneTwice
    <3>2. IsBatch(this) /\ this.phase \in Paging =>
             \A u \in users' \cap (this.told \cup Els(this.page)) : Settled(u)' => Rank(u)' < Reached(this)
      BY <1>1, <1>2, <1>4, <2>2 DEF RunOK, NoneTwice
    <3>3. (this.told \cup this.counted \cup Els(this.page)) \cap expected' = {}
      BY <1>1, <1>4 DEF RunOK, NoneTwice
    <3>4. NoneTwice(this)' <=>
             /\ this.phase \in {"count", "buyers"} => this.told = {} /\ this.counted = {}
             /\ Distinct(this.page)
             /\ this.phase = "save" => Head(this.page) \in this.told
             /\ (this.told \cup this.counted \cup Els(this.page)) \cap expected' = {}
             /\ \A u \in People : Settled(u)' \/ ~IsBatch(this)' => u \notin this.told \cap Ahead(this)'
             /\ IsBatch(this)' /\ this.phase \in Paging =>
                   \A u \in users' \cap (this.told \cup Els(this.page)) :
                       Settled(u)' => Rank(u)' < Reached(this)'
      BY DEF NoneTwice
    <3> QED
      BY <1>4, <2>1, <3>1, <3>2, <3>3, <3>4 DEF RunOK, NoneTwice
  <2>5. NoneMissed(this)'
    <3>1. ASSUME NEW u \in this.counted \cap users', Settled(u)'
          PROVE  u \in users /\ Settled(u) /\ Older(users, u)' = Older(users, u) /\ Rank(u)' = Rank(u)
      BY <1>1, <1>2, <2>2, <3>1
    <3>2. ASSUME NEW u \in People, Due(this, u)'
          PROVE  Due(this, u) /\ Rank(u)' = Rank(u)
      <4>1. /\ this.job \notin wordless /\ Settled(u)' /\ u \in (this.counted \cap users') \ this.told
            /\ \A x \in this.counted : createdAt[x] < createdAt[u] => x \in users'
        BY <1>1, <3>2 DEF Due, Older
      <4>2. Older(this.counted, u) \subseteq users
        BY <1>1, <2>2, <4>1 DEF Older
      <4>3. u \in this.counted \cap users'
        BY <4>1
      <4> QED
        BY <3>1, <4>1, <4>2, <4>3 DEF Due
    <3>3. NoneMissed(this)' <=>
             (IsBatch(this)' =>
                 /\ \A u \in this.counted \cap users' : Settled(u)' => Older(users, u)' \subseteq this.counted
                 /\ \A u \in People : Due(this, u)' =>
                       /\ this.phase # "finish"
                       /\ this.phase \in Paging => u \in Els(this.page) \/ Reached(this)' <= Rank(u)')
      BY DEF NoneMissed
    <3>4. \A u \in this.counted \cap users' : IsBatch(this) /\ Settled(u)' => Older(users, u)' \subseteq this.counted
      BY <1>4, <3>1 DEF RunOK, NoneMissed
    <3> QED
      BY <1>4, <2>1, <3>2, <3>3, <3>4 DEF RunOK, NoneMissed
  <2> QED
    BY <2>3, <2>4, <2>5 DEF RunOK
<1>5. ASSUME NEW w \in Workers, run'[w] # NoRun
      PROVE  RunOK(run[w])'
  <2>1. PICK this \in Runs : this = run'[w] /\ RunOK(this)
    BY <1>1, <1>5 DEF RunsInv
  <2>2. RunOK(this)'
    BY <1>4, <2>1
  <2> QED
    BY <2>1, <2>2
<1> QED
  BY <1>1, <1>5 DEF RunsInv

\* A removal moves those behind it, and leaves those before it.
LEMMA UnregisterKeepsRuns ==
  ASSUME RowsOK, RunsInv, NEW v \in People, Unregister(v)
  PROVE  RunsInv'
<1>1. /\ v \in users /\ users' = users \ {v} /\ UNCHANGED <<expected, overtaken, run, name, wordless, createdAt>>
  BY DEF Unregister, fixedVars
<1>2. \A u : Settled(u)' <=> Settled(u)
  BY <1>1 DEF Settled
<1>3. ASSUME NEW u
      PROVE  /\ Older(users, u)' \subseteq Older(users, u)
             /\ Rank(u) \in Nat /\ Rank(u)' \in Nat /\ Rank(u)' <= Rank(u)
             /\ v \notin Older(users, u) => Rank(u)' = Rank(u)
  <2>1. Older(users, u)' = Older(users, u) \ {v}
    BY <1>1 DEF Older
  <2>2. Rank(u)' = Cardinality(Older(users, u) \ {v})
    BY <2>1 DEF Rank
  <2>3. IsFiniteSet(Older(users, u)) /\ Rank(u) \in Nat
    BY RankTyped
  <2>4. Older(users, u) \ {v} \in SUBSET Older(users, u)
    OBVIOUS
  <2>5. IsFiniteSet(Older(users, u) \ {v}) /\ Rank(u)' <= Rank(u)
    BY <2>2, <2>3, <2>4, FS_Subset DEF Rank
  <2>6. Rank(u)' \in Nat
    BY <2>2, <2>5, FS_CardinalityType
  <2>7. v \notin Older(users, u) => Older(users, u) \ {v} = Older(users, u)
    OBVIOUS
  <2> QED
    BY <2>1, <2>2, <2>3, <2>5, <2>6, <2>7 DEF Rank
<1>4. ASSUME NEW this \in Runs, RunOK(this)
      PROVE  RunOK(this)'
  <2>1. /\ IsBatch(this)' <=> IsBatch(this)
        /\ Ahead(this)' = Ahead(this) /\ Reached(this)' = Reached(this)
    BY <1>1 DEF IsBatch, Ahead, Reached
  <2>2. RunFits(this)'
    BY <1>4, <2>1 DEF RunOK, RunFits
  <2>3. Reached(this) \in Nat
    <3>1. this.batch \in Nat \ {0} /\ this.batch + 1 \in Nat \ {0}
      BY <1>4 DEF Runs, RunOK, RunFits
    <3> QED
      BY <3>1, SkipNext DEF Reached
  <2>4. NoneTwice(this)'
    <3>1. ASSUME IsBatch(this), this.phase \in Paging,
                 NEW u \in users' \cap (this.told \cup Els(this.page)), Settled(u)
          PROVE  Rank(u)' < Reached(this)
      <4>1. Rank(u) < Reached(this)
        BY <1>1, <1>4, <3>1 DEF RunOK, NoneTwice
      <4> QED
        BY <1>3, <2>3, <4>1
    <3>2. NoneTwice(this)' <=>
             /\ this.phase \in {"count", "buyers"} => this.told = {} /\ this.counted = {}
             /\ Distinct(this.page)
             /\ this.phase = "save" => Head(this.page) \in this.told
             /\ (this.told \cup this.counted \cup Els(this.page)) \cap expected' = {}
             /\ \A u \in People : Settled(u)' \/ ~IsBatch(this)' => u \notin this.told \cap Ahead(this)'
             /\ IsBatch(this)' /\ this.phase \in Paging =>
                   \A u \in users' \cap (this.told \cup Els(this.page)) :
                       Settled(u)' => Rank(u)' < Reached(this)'
      BY DEF NoneTwice
    <3> QED
      BY <1>1, <1>2, <1>4, <2>1, <3>1, <3>2 DEF RunOK, NoneTwice
  <2>5. NoneMissed(this)'
    <3>1. ASSUME IsBatch(this), NEW u \in People, Due(this, u)'
          PROVE  Due(this, u) /\ Rank(u)' = Rank(u)
      <4>1. /\ this.job \notin wordless /\ Settled(u) /\ u \in (this.counted \cap users) \ this.told
            /\ \A x \in this.counted : createdAt[x] < createdAt[u] => x \in users /\ x # v
        BY <1>1, <1>2, <3>1 DEF Due, Older
      <4>2. Older(users, u) \subseteq this.counted
        BY <1>4, <3>1, <4>1 DEF RunOK, NoneMissed
      <4>3. v \notin Older(users, u)
        BY <4>1, <4>2 DEF Older
      <4> QED
        BY <1>3, <4>1, <4>3 DEF Due, Older
    <3>2. NoneMissed(this)' <=>
             (IsBatch(this)' =>
                 /\ \A u \in this.counted \cap users' : Settled(u)' => Older(users, u)' \subseteq this.counted
                 /\ \A u \in People : Due(this, u)' =>
                       /\ this.phase # "finish"
                       /\ this.phase \in Paging => u \in Els(this.page) \/ Reached(this)' <= Rank(u)')
      BY DEF NoneMissed
    <3>3. \A u \in this.counted \cap users' : IsBatch(this) /\ Settled(u)' => Older(users, u)' \subseteq this.counted
      BY <1>1, <1>2, <1>3, <1>4 DEF RunOK, NoneMissed
    <3> QED
      BY <1>4, <2>1, <3>1, <3>2, <3>3 DEF RunOK, NoneMissed
  <2> QED
    BY <2>2, <2>4, <2>5 DEF RunOK
<1>5. ASSUME NEW w \in Workers, run'[w] # NoRun
      PROVE  RunOK(run[w])'
  <2>1. PICK this \in Runs : this = run'[w] /\ RunOK(this)
    BY <1>1, <1>5 DEF RunsInv
  <2>2. RunOK(this)'
    BY <1>4, <2>1
  <2> QED
    BY <2>1, <2>2
<1> QED
  BY <1>1, <1>5 DEF RunsInv

LEMMA RunsKept ==
  ASSUME RowsOK, RunsInv, [Next]_vars
  PROVE  RunsInv'
<1>1. ASSUME NEW j \in Jobs, Add(j) \/ Stall(j)
      PROVE  RunsInv'
  BY <1>1, RunsLeftAlone DEF Add, Stall, RowVars, fixedVars, userVars
<1>2. ASSUME NEW w \in Workers, Finish(w) \/ QueryFails(w) \/ Crash(w)
      PROVE  RunsInv'
  <2>1. run' = [run EXCEPT ![w] = NoRun] /\ UNCHANGED RowVars
    BY <1>2 DEF Finish, QueryFails, Crash, RowVars, fixedVars, userVars
  <2> QED
    BY <2>1, SetRun
<1>3. CASE UNCHANGED vars
  BY <1>3, RunsLeftAlone DEF vars, RowVars, fixedVars, userVars
<1> QED
  BY <1>1, <1>2, <1>3, ProcessKeepsRuns, CountKeepsRuns, ReadPageKeepsRuns, ReadBuyersKeepsRuns,
     DeliverKeepsRuns, NextUserKeepsRuns, RegisterKeepsRuns, UnregisterKeepsRuns DEF Next, Progress


-----------------------------------------------------------------------------
(* Rows and tallies *)

LEMMA UserTyped ==
  ASSUME RunsInv, NEW w \in Workers, In(w, "deliver") \/ In(w, "save")
  PROVE  /\ User(w) \in People /\ run[w].job \in Jobs /\ run[w] \in Runs /\ RunOK(run[w])
         /\ run[w].page \in Seq(People) /\ run[w].page # << >>
<1>1. /\ run[w] \in Runs /\ RunOK(run[w]) /\ run[w].job \in Jobs /\ run[w].page \in Seq(People)
      /\ run[w].page # << >>
  BY RunTyped DEF In, RunOK, RunFits, Notifying
<1>2. User(w) \in People
  BY <1>1, HeadTailProperties DEF User
<1> QED
  BY <1>1, <1>2

LEMMA RowsKept ==
  ASSUME RowsOK, RunsInv, [Next]_vars
  PROVE  RowsOK'
<1>1. ASSUME NEW w \in Workers, Deliver(w)
      PROVE  RowsOK'
  <2>1. User(w) \in People /\ run[w].job \in Jobs
    BY <1>1, UserTyped DEF Deliver
  <2>2. delivered' \in [Jobs -> [People -> Nat]]
    BY <1>1, <2>1 DEF Deliver, RowsOK
  <2> QED
    BY <1>1, <2>2 DEF Deliver, Resume, RowsOK, fixedVars, userVars
<1>2. ASSUME NEW w \in Workers, SaveLog(w)
      PROVE  RowsOK'
  <2>1. User(w) \in People /\ run[w].job \in Jobs
    BY <1>2, UserTyped DEF SaveLog
  <2>2. logs' \in [Jobs -> [People -> Nat]]
    <3>1. [logs EXCEPT ![run[w].job][User(w)] = @ + 1] \in [Jobs -> [People -> Nat]]
      BY <2>1 DEF RowsOK
    <3>2. \/ logs' = [logs EXCEPT ![run[w].job][User(w)] = @ + 1]
          \/ logs' = logs
      BY <1>2 DEF SaveLog
    <3> QED
      BY <3>1, <3>2 DEF RowsOK
  <2> QED
    BY <1>2, <2>2 DEF SaveLog, Resume, RowsOK, fixedVars, userVars
<1>3. ASSUME NEW u \in People, Register(u) \/ Unregister(u)
      PROVE  RowsOK'
  BY <1>3 DEF Register, Unregister, RowsOK, fixedVars
<1>4. ASSUME UNCHANGED <<fixedVars, userVars, delivered, logs>>
      PROVE  RowsOK'
  BY <1>4 DEF RowsOK, fixedVars, userVars
<1>5. ASSUME NEW j \in Jobs, Add(j) \/ Stall(j)
      PROVE  RowsOK'
  BY <1>4, <1>5 DEF Add, Stall
<1>6. ASSUME NEW w \in Workers, NEW j \in Jobs, Process(w, j)
      PROVE  RowsOK'
  BY <1>4, <1>6 DEF Process
<1>7. ASSUME NEW w \in Workers,
             \/ Count(w) \/ ReadPage(w) \/ ReadBuyers(w) \/ PassOver(w)
             \/ Finish(w) \/ QueryFails(w) \/ Crash(w)
      PROVE  RowsOK'
  BY <1>4, <1>7 DEF Count, ReadPage, ReadBuyers, PassOver, Finish, QueryFails, Crash, Resume
<1>8. CASE UNCHANGED vars
  BY <1>4, <1>8 DEF vars
<1> QED
  BY <1>1, <1>2, <1>3, <1>5, <1>6, <1>7, <1>8 DEF Next, Progress

\* What a step may do to the sets that are counted.
LEMMA SetsOfWorkers ==
  ASSUME NEW S \in SUBSET Workers
  PROVE  /\ IsFiniteSet(S) /\ Cardinality(S) \in Nat
         /\ \A T \in SUBSET S : Cardinality(T) \in Nat /\ Cardinality(T) <= Cardinality(S)
         /\ \A w \in Workers : Cardinality(S \cup {w}) \in Nat /\ Cardinality(S \cup {w}) <= Cardinality(S) + 1
         /\ \A w \in S : Cardinality(S \ {w}) = Cardinality(S) - 1
<1>1. IsFiniteSet(S) /\ Cardinality(S) \in Nat
  BY Constants, FS_Subset, FS_CardinalityType
<1>2. ASSUME NEW T \in SUBSET S
      PROVE  Cardinality(T) \in Nat /\ Cardinality(T) <= Cardinality(S)
  BY <1>1, FS_Subset, FS_CardinalityType
<1>3. ASSUME NEW w \in Workers
      PROVE  Cardinality(S \cup {w}) \in Nat /\ Cardinality(S \cup {w}) <= Cardinality(S) + 1
  BY <1>1, FS_AddElement, FS_CardinalityType
<1>4. ASSUME NEW w \in S
      PROVE  Cardinality(S \ {w}) = Cardinality(S) - 1
  BY <1>1, FS_RemoveElement
<1> QED
  BY <1>1, <1>2, <1>3, <1>4

Counted(j, u) == Settled(u) \/ name[j] = "send-product"

\* A step that notifies nobody: fewer runs are in the sets, or a new one starts.
LEMMA TallyShrinks ==
  ASSUME RowsOK, QueueInv, NEW j \in Jobs, NEW u \in People, Tally(j, u),
         Counted(j, u)' => Counted(j, u),
         delivered'[j][u] = delivered[j][u], logs'[j][u] = logs[j][u], runs'[j] = runs[j],
         Without(j, u)' \subseteq Without(j, u), Saving(j, u)' \subseteq Saving(j, u)
  PROVE  Tally(j, u)'
<1>1. /\ Without(j, u) \in SUBSET Workers /\ Saving(j, u) \in SUBSET Workers
  BY DEF Without, Saving
<1>2. /\ Cardinality(Without(j, u)) \in Nat /\ Cardinality(Without(j, u)') \in Nat
      /\ Cardinality(Without(j, u)') <= Cardinality(Without(j, u))
      /\ Cardinality(Saving(j, u)) \in Nat /\ Cardinality(Saving(j, u)') \in Nat
      /\ Cardinality(Saving(j, u)') <= Cardinality(Saving(j, u))
  BY <1>1, SetsOfWorkers
<1>3. delivered[j][u] \in Nat /\ logs[j][u] \in Nat /\ runs[j] \in Nat
  BY JobTyped DEF RowsOK
<1>4. Counted(j, u) => delivered[j][u] + Cardinality(Without(j, u)) <= runs[j]
  BY DEF Tally, Counted
<1>5. logs[j][u] + Cardinality(Saving(j, u)) <= delivered[j][u]
  BY DEF Tally
<1>6. Counted(j, u)' => delivered[j][u] + Cardinality(Without(j, u)') <= runs[j]
  BY <1>2, <1>3, <1>4
<1>7. logs[j][u] + Cardinality(Saving(j, u)') <= delivered[j][u]
  BY <1>2, <1>3, <1>5
<1>8. Tally(j, u)' <=> /\ Counted(j, u)' => delivered'[j][u] + Cardinality(Without(j, u)') <= runs'[j]
                       /\ logs'[j][u] + Cardinality(Saving(j, u)') <= delivered'[j][u]
  BY DEF Tally, Counted
<1> QED
  BY <1>6, <1>7, <1>8

\* A worker whose run changes as given, and all others.
LEMMA RunOfOthers ==
  ASSUME RunsInv, NEW w \in Workers, NEW new, run' = [run EXCEPT ![w] = new]
  PROVE  run'[w] = new /\ \A v \in Workers \ {w} : run'[v] = run[v]
BY DEF RunsInv

\* Reading a page and going on to the next user change neither.
LEMMA WhatRunsKeep ==
  ASSUME NEW this \in Runs
  PROVE  /\ \A page : /\ HandlePage(this, page).job = this.job
                      /\ HandlePage(this, page).told = this.told
                      /\ HandlePage(this, page).phase # "save"
         /\ NextUser(this).job = this.job /\ NextUser(this).told = this.told
         /\ NextUser(this).phase # "save"
<1>1. ASSUME NEW that, that.job = this.job, that.told = this.told,
             DOMAIN that = DOMAIN this
      PROVE  /\ NextBatch(that).job = this.job /\ NextBatch(that).told = this.told
             /\ NextBatch(that).phase # "save"
  <2>1. {"job", "phase", "batch", "told"} \subseteq DOMAIN that
    BY <1>1 DEF Runs
  <2>2. CASE that.batch < that.batches
    <3>1. NextBatch(that) = [that EXCEPT !.phase = "page", !.batch = @ + 1]
      BY <2>2 DEF NextBatch
    <3> QED
      BY <1>1, <2>1, <3>1
  <2>3. CASE ~(that.batch < that.batches)
    <3>1. NextBatch(that) = [that EXCEPT !.phase = "finish"]
      BY <2>3 DEF NextBatch
    <3> QED
      BY <1>1, <2>1, <3>1
  <2> QED
    BY <2>2, <2>3
<1>2. NextBatch(this).job = this.job /\ NextBatch(this).told = this.told /\ NextBatch(this).phase # "save"
  BY <1>1
<1>3. ASSUME NEW page
      PROVE  /\ [this EXCEPT !.phase = "deliver", !.page = page].job = this.job
             /\ [this EXCEPT !.phase = "deliver", !.page = page].told = this.told
             /\ [this EXCEPT !.phase = "deliver", !.page = page].phase = "deliver"
  BY DEF Runs
<1>4. DEFINE done == [this EXCEPT !.page = << >>]
<1>5. done.job = this.job /\ done.told = this.told /\ DOMAIN done = DOMAIN this
  BY DEF Runs
<1> HIDE DEF done
<1>6. NextBatch(done).job = this.job /\ NextBatch(done).told = this.told /\ NextBatch(done).phase # "save"
  BY <1>1, <1>5
<1> QED
  BY <1>2, <1>3, <1>6 DEF HandlePage, NextUser, done

LEMMA TallyKept ==
  ASSUME RowsOK, QueueInv, RunsInv, TallyInv, [Next]_vars
  PROVE  TallyInv'
<1> SUFFICES ASSUME NEW j \in Jobs, NEW u \in People
             PROVE  Tally(j, u)'
  BY DEF TallyInv
<1>1. Tally(j, u)
  BY DEF TallyInv
<1>2. /\ Without(j, u) \in SUBSET Workers /\ Saving(j, u) \in SUBSET Workers
  BY DEF Without, Saving
<1>3. delivered[j][u] \in Nat /\ logs[j][u] \in Nat /\ runs[j] \in Nat
  BY JobTyped DEF RowsOK
<1>4. /\ Counted(j, u) => delivered[j][u] + Cardinality(Without(j, u)) <= runs[j]
      /\ logs[j][u] + Cardinality(Saving(j, u)) <= delivered[j][u]
  BY <1>1 DEF Tally, Counted
<1>5. Tally(j, u)' <=> /\ Counted(j, u)' => delivered'[j][u] + Cardinality(Without(j, u)') <= runs'[j]
                       /\ logs'[j][u] + Cardinality(Saving(j, u)') <= delivered'[j][u]
  BY DEF Tally, Counted
<1>6. /\ Cardinality(Without(j, u)) \in Nat /\ Cardinality(Saving(j, u)) \in Nat
  BY <1>2, SetsOfWorkers
<1>7. /\ Without(j, u)' = {v \in Workers : run'[v] # NoRun /\ run'[v].job = j /\ u \notin run'[v].told}
      /\ Saving(j, u)' = {v \in Workers : /\ run'[v] # NoRun /\ run'[v].phase = "save"
                                          /\ run'[v].job = j /\ Head(run'[v].page) = u}
      /\ Saving(j, u) = {v \in Workers : /\ run[v] # NoRun /\ run[v].phase = "save"
                                         /\ run[v].job = j /\ Head(run[v].page) = u}
  BY DEF Without, Saving, In, User
<1>8. ASSUME UNCHANGED RowVars PROVE Counted(j, u)' <=> Counted(j, u)
  BY <1>8 DEF Counted, Settled, RowVars
<1>9. ASSUME NEW i \in Jobs, Add(i) \/ Stall(i)
      PROVE  Tally(j, u)'
  <2>1. UNCHANGED <<RowVars, run, delivered, logs, runs>>
    BY <1>9 DEF Add, Stall, RowVars, fixedVars, userVars
  <2>2. Without(j, u)' = Without(j, u) /\ Saving(j, u)' = Saving(j, u)
    BY <1>7, <2>1 DEF Without
  <2> QED
    BY <1>1, <1>8, <2>1, <2>2, TallyShrinks
<1>10. ASSUME NEW v \in People, Register(v) \/ Unregister(v)
       PROVE  Tally(j, u)'
  <2>1. /\ UNCHANGED <<run, delivered, logs, runs, name, createdAt>> /\ overtaken \subseteq overtaken'
    BY <1>10 DEF Register, Unregister, fixedVars
  <2>2. Without(j, u)' = Without(j, u) /\ Saving(j, u)' = Saving(j, u)
    BY <1>7, <2>1 DEF Without
  <2>3. Counted(j, u)' => Counted(j, u)
    BY <2>1 DEF Counted, Settled
  <2> QED
    BY <1>1, <2>1, <2>2, <2>3, TallyShrinks
<1>11. ASSUME UNCHANGED vars PROVE Tally(j, u)'
  <2>1. UNCHANGED <<RowVars, run, delivered, logs, runs>>
    BY <1>11 DEF vars, RowVars, fixedVars, userVars
  <2>2. Without(j, u)' = Without(j, u) /\ Saving(j, u)' = Saving(j, u)
    BY <1>7, <2>1 DEF Without
  <2> QED
    BY <1>1, <1>8, <2>1, <2>2, TallyShrinks
<1>12. ASSUME NEW w \in Workers, Finish(w) \/ QueryFails(w) \/ Crash(w)
       PROVE  Tally(j, u)'
  <2>1. run' = [run EXCEPT ![w] = NoRun] /\ UNCHANGED <<RowVars, delivered, logs, runs>>
    BY <1>12 DEF Finish, QueryFails, Crash, RowVars, fixedVars, userVars
  <2>2. run'[w] = NoRun /\ \A v \in Workers \ {w} : run'[v] = run[v]
    BY <2>1, RunOfOthers
  <2>3. Without(j, u)' \subseteq Without(j, u) /\ Saving(j, u)' \subseteq Saving(j, u)
    BY <1>7, <2>2 DEF Without
  <2> QED
    BY <1>1, <1>8, <2>1, <2>3, TallyShrinks
<1>13. ASSUME NEW w \in Workers, NEW new, run[w] # NoRun, run' = [run EXCEPT ![w] = new],
              new.job = run[w].job, new.told = run[w].told, new.phase # "save",
              UNCHANGED <<RowVars, delivered, logs, runs>>
       PROVE  Tally(j, u)'
  <2>1. run'[w] = new /\ \A v \in Workers \ {w} : run'[v] = run[v]
    BY <1>13, RunOfOthers
  <2>2. Without(j, u)' \subseteq Without(j, u) /\ Saving(j, u)' \subseteq Saving(j, u)
    BY <1>7, <1>13, <2>1 DEF Without
  <2> QED
    BY <1>1, <1>8, <1>13, <2>2, TallyShrinks
<1>14. ASSUME NEW w \in Workers, Count(w) \/ ReadPage(w) \/ ReadBuyers(w) \/ PassOver(w)
       PROVE  Tally(j, u)'
  <2>1. run[w] # NoRun /\ run[w] \in Runs /\ UNCHANGED <<RowVars, delivered, logs, runs>>
    BY <1>14, RunTyped DEF Count, ReadPage, ReadBuyers, PassOver, Resume, RowVars, fixedVars, userVars, In
  <2>2. CASE Count(w)
    <3> DEFINE n == Batches(Cardinality(users))
               phase == IF n = 0 THEN "finish" ELSE "page"
               new == [run[w] EXCEPT !.phase = phase, !.batches = n, !.counted = users]
    <3>1. run' = [run EXCEPT ![w] = new]
      BY <2>2 DEF Count, Resume
    <3>2. phase # "save"
      OBVIOUS
    <3> HIDE DEF n, phase
    <3>3. new.job = run[w].job /\ new.told = run[w].told /\ new.phase = phase
      BY <2>1 DEF Runs
    <3> HIDE DEF new
    <3> QED
      BY <1>13, <2>1, <3>1, <3>2, <3>3
  <2>3. CASE ReadPage(w) \/ ReadBuyers(w)
    <3>1. PICK page : run' = [run EXCEPT ![w] = HandlePage(run[w], page)]
      BY <2>3 DEF ReadPage, ReadBuyers, Resume
    <3>2. /\ HandlePage(run[w], page).job = run[w].job /\ HandlePage(run[w], page).told = run[w].told
          /\ HandlePage(run[w], page).phase # "save"
      BY <2>1, WhatRunsKeep
    <3> QED
      BY <1>13, <2>1, <3>1, <3>2
  <2>4. CASE PassOver(w)
    <3>1. run' = [run EXCEPT ![w] = NextUser(run[w])]
      BY <2>4 DEF PassOver, Resume
    <3>2. /\ NextUser(run[w]).job = run[w].job /\ NextUser(run[w]).told = run[w].told
          /\ NextUser(run[w]).phase # "save"
      BY <2>1, WhatRunsKeep
    <3> QED
      BY <1>13, <2>1, <3>1, <3>2
  <2> QED
    BY <1>14, <2>2, <2>3, <2>4
<1>15. ASSUME NEW w \in Workers, NEW i \in Jobs, Process(w, i)
       PROVE  Tally(j, u)'
  <2> DEFINE phase == IF name[i] = "send-batch" THEN "count" ELSE "buyers"
             new == [job |-> i, phase |-> phase, batch |-> 1, batches |-> 1, page |-> << >>,
                     counted |-> {}, told |-> {}]
  <2>1. /\ run' = [run EXCEPT ![w] = new] /\ UNCHANGED <<RowVars, delivered, logs>>
        /\ runs' = [runs EXCEPT ![i] = runs[i] + 1]
    BY <1>15 DEF Process, RowVars, fixedVars, userVars
  <2>2. phase # "save" /\ new.phase = phase /\ new.job = i
    OBVIOUS
  <2> HIDE DEF new, phase
  <2>3. run'[w] = new /\ \A v \in Workers \ {w} : run'[v] = run[v]
    BY <2>1, RunOfOthers
  <2>4. Saving(j, u)' \subseteq Saving(j, u)
    BY <1>7, <2>2, <2>3
  <2>5. CASE i # j
    <3>1. Without(j, u)' \subseteq Without(j, u)
      BY <1>7, <2>2, <2>3, <2>5 DEF Without
    <3>2. runs'[j] = runs[j]
      BY <2>1, <2>5 DEF QueueInv
    <3> QED
      BY <1>1, <1>8, <2>1, <2>4, <3>1, <3>2, TallyShrinks
  <2>6. CASE i = j
    <3>1. Without(j, u)' \subseteq Without(j, u) \cup {w}
      BY <1>7, <2>2, <2>3, <2>6 DEF Without
    <3>2. runs'[j] = runs[j] + 1
      BY <2>1, <2>6 DEF QueueInv
    <3>3. Without(j, u) \cup {w} \in SUBSET Workers /\ Cardinality(Without(j, u) \cup {w}) \in Nat
          /\ Cardinality(Without(j, u) \cup {w}) <= Cardinality(Without(j, u)) + 1
      BY <1>2, SetsOfWorkers
    <3>4. /\ Cardinality(Without(j, u)') \in Nat
          /\ Cardinality(Without(j, u)') <= Cardinality(Without(j, u) \cup {w})
      BY <3>1, <3>3, SetsOfWorkers
    <3>5. Cardinality(Saving(j, u)') \in Nat /\ Cardinality(Saving(j, u)') <= Cardinality(Saving(j, u))
      BY <1>2, <2>4, SetsOfWorkers
    <3>6. Counted(j, u) => delivered[j][u] + Cardinality(Without(j, u)') <= runs[j] + 1
      BY <1>3, <1>4, <1>6, <3>3, <3>4
    <3>7. logs[j][u] + Cardinality(Saving(j, u)') <= delivered[j][u]
      BY <1>3, <1>4, <1>6, <3>5
    <3> QED
      BY <1>5, <1>8, <2>1, <3>2, <3>6, <3>7
  <2> QED
    BY <2>5, <2>6
<1>16. ASSUME NEW w \in Workers, Deliver(w)
       PROVE  Tally(j, u)'
  <2> DEFINE new == [run[w] EXCEPT !.phase = "save", !.told = run[w].told \cup {User(w)}]
  <2>1. /\ run' = [run EXCEPT ![w] = new] /\ UNCHANGED <<RowVars, logs, runs>>
        /\ delivered' = [delivered EXCEPT ![run[w].job][User(w)] = @ + 1]
        /\ run[w] # NoRun /\ run[w].phase = "deliver" /\ User(w) = Head(run[w].page)
    BY <1>16 DEF Deliver, Resume, In, User, RowVars, fixedVars, userVars
  <2>2. /\ User(w) \in People /\ run[w].job \in Jobs /\ run[w] \in Runs /\ RunOK(run[w])
        /\ run[w].page \in Seq(People) /\ run[w].page # << >>
    BY <1>16, UserTyped DEF Deliver
  <2>3. /\ new.job = run[w].job /\ new.told = run[w].told \cup {User(w)} /\ new.page = run[w].page
        /\ new.phase = "save"
    BY <2>2 DEF Runs
  <2> HIDE DEF new
  <2>4. run'[w] = new /\ \A v \in Workers \ {w} : run'[v] = run[v]
    BY <2>1, RunOfOthers
  <2>5. CASE ~(run[w].job = j /\ User(w) = u)
    <3>1. delivered'[j][u] = delivered[j][u]
      BY <2>1, <2>2, <2>5 DEF RowsOK
    <3>2. Without(j, u)' \subseteq Without(j, u)
      BY <1>7, <2>1, <2>3, <2>4 DEF Without
    <3>3. Saving(j, u)' \subseteq Saving(j, u)
      BY <1>7, <2>1, <2>3, <2>4, <2>5
    <3> QED
      BY <1>1, <1>8, <2>1, <3>1, <3>2, <3>3, TallyShrinks
  <2>6. CASE run[w].job = j /\ User(w) = u
    <3>1. delivered'[j][u] = delivered[j][u] + 1
      BY <2>1, <2>6 DEF RowsOK
    <3>2. Saving(j, u)' \subseteq Saving(j, u) \cup {w}
      BY <1>7, <2>4
    <3>3. u \in Els(run[w].page)
      BY <2>1, <2>2, <2>6, HeadAndTail
    <3>4. Counted(j, u) => Settled(u) \/ ~IsBatch(run[w])
      BY <2>6 DEF Counted, IsBatch
    <3>5. Counted(j, u) => u \notin run[w].told
      BY <2>1, <2>2, <3>3, <3>4 DEF RunOK, NoneTwice, Ahead
    <3>6. Counted(j, u) => w \in Without(j, u) /\ Without(j, u)' \subseteq Without(j, u) \ {w}
      BY <1>7, <2>1, <2>3, <2>4, <2>6, <3>5 DEF Without
    <3>7. w \in Without(j, u) => Cardinality(Without(j, u) \ {w}) = Cardinality(Without(j, u)) - 1
                                 /\ Without(j, u) \ {w} \in SUBSET Workers
      BY <1>2, SetsOfWorkers
    <3>8. Counted(j, u) => /\ Cardinality(Without(j, u)') \in Nat
                           /\ Cardinality(Without(j, u)') <= Cardinality(Without(j, u)) - 1
      BY <3>6, <3>7, SetsOfWorkers
    <3>9. /\ Saving(j, u) \cup {w} \in SUBSET Workers /\ Cardinality(Saving(j, u) \cup {w}) \in Nat
          /\ Cardinality(Saving(j, u) \cup {w}) <= Cardinality(Saving(j, u)) + 1
      BY <1>2, SetsOfWorkers
    <3>10. /\ Cardinality(Saving(j, u)') \in Nat
           /\ Cardinality(Saving(j, u)') <= Cardinality(Saving(j, u) \cup {w})
      BY <3>2, <3>9, SetsOfWorkers
    <3>11. Counted(j, u) => delivered[j][u] + 1 + Cardinality(Without(j, u)') <= runs[j]
      BY <1>3, <1>4, <1>6, <3>8
    <3>12. logs[j][u] + Cardinality(Saving(j, u)') <= delivered[j][u] + 1
      BY <1>3, <1>4, <1>6, <3>9, <3>10
    <3> QED
      BY <1>5, <1>8, <2>1, <3>1, <3>11, <3>12
  <2> QED
    BY <2>5, <2>6
<1>17. ASSUME NEW w \in Workers, SaveLog(w)
       PROVE  Tally(j, u)'
  <2> DEFINE new == NextUser(run[w])
  <2>1. /\ run' = [run EXCEPT ![w] = new] /\ UNCHANGED <<RowVars, delivered, runs>>
        /\ \/ logs' = [logs EXCEPT ![run[w].job][User(w)] = @ + 1]
           \/ logs' = logs
        /\ run[w] # NoRun /\ run[w].phase = "save" /\ User(w) = Head(run[w].page)
    BY <1>17 DEF SaveLog, Resume, In, User, RowVars, fixedVars, userVars
  <2>2. User(w) \in People /\ run[w].job \in Jobs /\ run[w] \in Runs
    BY <1>17, UserTyped DEF SaveLog
  <2>3. new.job = run[w].job /\ new.told = run[w].told /\ new.phase # "save"
    BY <2>2, WhatRunsKeep
  <2> HIDE DEF new
  <2>4. run'[w] = new /\ \A v \in Workers \ {w} : run'[v] = run[v]
    BY <2>1, RunOfOthers
  <2>5. Without(j, u)' \subseteq Without(j, u)
    BY <1>7, <2>1, <2>3, <2>4 DEF Without
  <2>6. Saving(j, u)' \subseteq Saving(j, u) \ {w}
    BY <1>7, <2>3, <2>4
  <2>7. CASE logs'[j][u] = logs[j][u]
    BY <1>1, <1>8, <2>1, <2>5, <2>6, <2>7, TallyShrinks
  <2>8. CASE logs'[j][u] # logs[j][u]
    <3>1. run[w].job = j /\ User(w) = u /\ logs'[j][u] = logs[j][u] + 1
      BY <2>1, <2>2, <2>8 DEF RowsOK
    <3>2. w \in Saving(j, u)
      BY <1>7, <2>1, <3>1
    <3>3. /\ Saving(j, u) \ {w} \in SUBSET Workers
          /\ Cardinality(Saving(j, u) \ {w}) = Cardinality(Saving(j, u)) - 1
      BY <1>2, <3>2, SetsOfWorkers
    <3>4. /\ Cardinality(Saving(j, u)') \in Nat
          /\ Cardinality(Saving(j, u)') <= Cardinality(Saving(j, u)) - 1
      BY <2>6, <3>3, SetsOfWorkers
    <3>5. Cardinality(Without(j, u)') \in Nat /\ Cardinality(Without(j, u)') <= Cardinality(Without(j, u))
      BY <1>2, <2>5, SetsOfWorkers
    <3>6. logs[j][u] + 1 + Cardinality(Saving(j, u)') <= delivered[j][u]
      BY <1>3, <1>4, <1>6, <3>4
    <3>7. Counted(j, u) => delivered[j][u] + Cardinality(Without(j, u)') <= runs[j]
      BY <1>3, <1>4, <1>6, <3>5
    <3> QED
      BY <1>5, <1>8, <2>1, <3>1, <3>6, <3>7
  <2> QED
    BY <2>7, <2>8
<1> QED
  BY <1>9, <1>10, <1>11, <1>12, <1>14, <1>15, <1>16, <1>17 DEF Next, Progress


-----------------------------------------------------------------------------
(* The theorems *)

LEMMA InitInv == Init => Inv
<1> SUFFICES ASSUME Init PROVE Inv
  OBVIOUS
<1> USE DEF Init
<1>1. RowsOK
  <2>1. FirstUsers \subseteq People /\ Newcomers \subseteq People /\ FirstUsers \cap Newcomers = {}
    BY NotificationAssumption DEF People
  <2> QED
    BY <2>1 DEF RowsOK
<1>2. QueueInv
  <2>1. Queue!QueueTypeOK
    BY Constants, Limits DEF Queue!QueueInit, Queue!QueueTypeOK, Queue!Ended
  <2>2. runs \in [Jobs -> 0..(MaxAttempts + MaxStalled)]
    BY Limits
  <2>3. \A j \in Jobs : JobFits(state[j], failures[j], stalls[j], runs[j])
    BY Limits DEF Queue!QueueInit, JobFits
  <2> QED
    BY <2>1, <2>2, <2>3 DEF QueueInv
<1>3. RunsInv
  BY DEF RunsInv
<1>4. TallyInv
  <2> SUFFICES ASSUME NEW j \in Jobs, NEW u \in People PROVE Tally(j, u)
    BY DEF TallyInv
  <2>1. \A w \in Workers : run[w] = NoRun
    OBVIOUS
  <2>2. Without(j, u) = {} /\ Saving(j, u) = {}
    BY <2>1 DEF Without, Saving, In
  <2>3. delivered[j][u] = 0 /\ logs[j][u] = 0 /\ runs[j] = 0
    OBVIOUS
  <2> QED
    BY <2>2, <2>3, FS_EmptySet DEF Tally
<1> QED
  BY <1>1, <1>2, <1>3, <1>4 DEF Inv

LEMMA NextInv == Inv /\ [Next]_vars => Inv'
BY QueueKept, RunsKept, RowsKept, TallyKept DEF Inv

LEMMA Invariance == Spec => []Inv
BY InitInv, NextInv, PTL DEF Spec

\* Every variable keeps its type; in particular a page has at most BatchSize
\* users (or the product's buyers), a job is started at most
\* MaxAttempts + MaxStalled times, and its lock is held exactly while it is active.
THEOREM TypeCorrect == Spec => []TypeOK
<1>1. Inv => TypeOK
  <2> SUFFICES ASSUME Inv PROVE TypeOK
    OBVIOUS
  <2>1. ASSUME NEW w \in Workers, run[w] # NoRun
        PROVE  /\ Len(run[w].page) <= IF name[run[w].job] = "send-batch" THEN BatchSize
                                                                      ELSE Cardinality(Buyers)
               /\ run[w].phase \in {"deliver", "save"} => run[w].page # << >>
    BY <2>1 DEF Inv, RunsInv, RunOK, RunFits, IsBatch, Notifying
  <2> QED
    BY <2>1 DEF Inv, TypeOK, RowsOK, QueueInv, RunsInv
<1> QED
  BY <1>1, Invariance, PTL

\* However many users, workers, jobs and removals: no run notifies a user twice
\* whose place in the order is settled, so a job notifies that user at most as
\* often as it was started, and the log never has more rows than that.
THEOREM NobodyIsToldTwiceByARun == Spec => []OncePerRun
<1>1. Inv => OncePerRun
  <2> SUFFICES ASSUME Inv, NEW j \in Jobs, NEW u \in People
               PROVE  /\ Settled(u) \/ name[j] = "send-product" => delivered[j][u] <= runs[j]
                      /\ logs[j][u] <= delivered[j][u]
    BY DEF OncePerRun
  <2>1. Without(j, u) \in SUBSET Workers /\ Saving(j, u) \in SUBSET Workers
    BY DEF Without, Saving
  <2>2. Cardinality(Without(j, u)) \in Nat /\ Cardinality(Saving(j, u)) \in Nat
    BY <2>1, SetsOfWorkers
  <2>3. delivered[j][u] \in Nat /\ logs[j][u] \in Nat /\ runs[j] \in Nat
    BY JobTyped DEF Inv, RowsOK
  <2>4. /\ Settled(u) \/ name[j] = "send-product" =>
               delivered[j][u] + Cardinality(Without(j, u)) <= runs[j]
        /\ logs[j][u] + Cardinality(Saving(j, u)) <= delivered[j][u]
    BY DEF Inv, TallyInv, Tally
  <2> QED
    BY <2>2, <2>3, <2>4
<1> QED
  BY <1>1, Invariance, PTL

\* A run of send-batch with a message misses a user whom it counted, who is
\* still there and whose place is settled only if somebody older was removed.
THEOREM OnlyRemovalsHideUsers == Spec => []MissedNeedsRemoval
<1>1. Inv => MissedNeedsRemoval
  <2> SUFFICES ASSUME Inv, NEW w \in Workers, In(w, "finish"), name[run[w].job] = "send-batch",
                      NEW u \in (run[w].counted \cap users) \ run[w].told,
                      run[w].job \notin wordless, Settled(u)
               PROVE  \E v \in run[w].counted \ users : createdAt[v] < createdAt[u]
    BY DEF MissedNeedsRemoval
  <2>1. /\ NoneMissed(run[w]) /\ IsBatch(run[w]) /\ run[w].phase = "finish"
    BY DEF Inv, RunsInv, RunOK, In, IsBatch
  <2>2. u \in People
    BY DEF Inv, RowsOK
  <2>3. ~Due(run[w], u)
    BY <2>1, <2>2 DEF NoneMissed
  <2>4. ~(Older(run[w].counted, u) \subseteq users)
    BY <2>3 DEF Due
  <2> QED
    BY <2>4 DEF Older
<1> QED
  BY <1>1, Invariance, PTL

=============================================================================
