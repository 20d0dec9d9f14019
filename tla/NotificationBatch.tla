-------------------------- MODULE NotificationBatch --------------------------
(***************************************************************************)
(* Notifications: jobs put into the BullMQ queue 'notifications' by        *)
(* NotificationController, processed by NotificationWorker, while users    *)
(* register and are removed.                                               *)
(*                                                                         *)
(* A send-batch job counts the users once and then reads them page by page *)
(* with OFFSET and LIMIT, ordered by createdAt; a send-product job reads   *)
(* the buyers of a product in one query.  Each user on a page is notified  *)
(* and then gets a row in the log; failures to save the row are counted    *)
(* and passed over, failures to count or to read end the attempt.  The     *)
(* body of a request is not validated: when it carries no message that is  *)
(* a string, message.replace throws for every user before anything is sent.*)
(***************************************************************************)
EXTENDS Naturals, FiniteSets, Sequences, SequencesExt

CONSTANTS
    Jobs,
    Names,          \* what the jobs may be
    Workers,
    Nobody,
    MaxAttempts,    \* attempts: 3
    MaxStalled,
    BatchSize,      \* BATCH_SIZE
    FirstUsers,
    Newcomers,      \* users who may register later
    Buyers,         \* users who have an order with the product
    Ages,           \* what createdAt may be
    NoRun

People == FirstUsers \cup Newcomers

Phases == {"count", "page", "buyers", "deliver", "save", "finish"}

Runs == [job : Jobs, phase : Phases, batch : Nat, batches : Nat, page : Seq(People),
         counted : SUBSET People,   \* ghost: the users when the run counted them
         told : SUBSET People]      \* ghost: whom this run has notified

ASSUME NotificationAssumption ==
    /\ IsFiniteSet(People) /\ IsFiniteSet(Workers)
    /\ Names \subseteq [Jobs -> {"send-batch", "send-product"}]
    /\ BatchSize \in Nat \ {0} /\ MaxAttempts \in Nat \ {0} /\ MaxStalled \in Nat
    /\ FirstUsers \cap Newcomers = {}
    /\ Buyers \subseteq FirstUsers
    /\ Ages \subseteq [People -> Nat]
    /\ Nobody \notin Workers /\ NoRun \notin Runs

VARIABLES
    state, holder, failures, stalls,   \* the queue
    name,
    wordless,   \* the jobs whose message is not a string
    createdAt,
    users,      \* the rows of the user table
    expected,   \* newcomers who have not registered yet
    overtaken,  \* ghost: users before whom somebody has registered later
    run,        \* what each worker is doing
    delivered,  \* how often each job has notified each user
    logs,       \* how many rows it has saved for each user
    runs        \* ghost: how often each job was started

Queue == INSTANCE JobQueue

queueVars == <<state, holder, failures, stalls>>
fixedVars == <<name, wordless, createdAt>>
userVars == <<users, expected, overtaken>>
vars == <<queueVars, fixedVars, userVars, run, delivered, logs, runs>>

TypeOK ==
    /\ Queue!QueueTypeOK
    /\ name \in Names /\ wordless \subseteq Jobs /\ createdAt \in Ages
    /\ users \subseteq People /\ expected \subseteq Newcomers \ users
    /\ overtaken \subseteq People
    /\ run \in [Workers -> Runs \cup {NoRun}]
    /\ \A w \in Workers : run[w] # NoRun =>
          /\ Len(run[w].page) <= IF name[run[w].job] = "send-batch" THEN BatchSize
                                                                    ELSE Cardinality(Buyers)
          /\ run[w].phase \in {"deliver", "save"} => run[w].page # << >>
    /\ delivered \in [Jobs -> [People -> Nat]]
    /\ logs \in [Jobs -> [People -> Nat]]
    /\ runs \in [Jobs -> 0..(MaxAttempts + MaxStalled)]

Init ==
    /\ Queue!QueueInit
    /\ name \in Names /\ wordless \in SUBSET Jobs /\ createdAt \in Ages
    /\ users = FirstUsers /\ expected = Newcomers /\ overtaken = {}
    /\ run = [w \in Workers |-> NoRun]
    /\ delivered = [j \in Jobs |-> [u \in People |-> 0]]
    /\ logs = delivered
    /\ runs = [j \in Jobs |-> 0]

-----------------------------------------------------------------------------
(* The queue and the worker *)

\* send, send/product: the request is answered as soon as the job is queued.
Add(j) ==
    /\ Queue!Add(j)
    /\ UNCHANGED <<fixedVars, userVars, run, delivered, logs, runs>>

\* process(job), and the switch over job.name.
Process(w, j) ==
    /\ run[w] = NoRun
    /\ Queue!Take(w, j)
    /\ run' = [run EXCEPT ![w] =
                 [job |-> j, phase |-> IF name[j] = "send-batch" THEN "count" ELSE "buyers",
                  batch |-> 1, batches |-> 1, page |-> << >>, counted |-> {}, told |-> {}]]
    /\ runs' = [runs EXCEPT ![j] = @ + 1]
    /\ UNCHANGED <<fixedVars, userVars, delivered, logs>>

In(w, phase) == run[w] # NoRun /\ run[w].phase = phase

\* process returns: the worker reports the job completed.
Finish(w) ==
    /\ In(w, "finish")
    /\ Queue!Complete(w, run[w].job)
    /\ run' = [run EXCEPT ![w] = NoRun]
    /\ UNCHANGED <<fixedVars, userVars, delivered, logs, runs>>

\* count(), find() or getMany() rejects, and process with it.
QueryFails(w) ==
    /\ run[w] # NoRun /\ run[w].phase \in {"count", "page", "buyers"}
    /\ Queue!FailAttempt(w, run[w].job)
    /\ run' = [run EXCEPT ![w] = NoRun]
    /\ UNCHANGED <<fixedVars, userVars, delivered, logs, runs>>

\* The worker's process dies; another one takes its place.
Crash(w) ==
    /\ run[w] # NoRun
    /\ run' = [run EXCEPT ![w] = NoRun]
    /\ UNCHANGED <<queueVars, fixedVars, userVars, delivered, logs, runs>>

\* The job is taken from its worker, which need not know.
Stall(j) ==
    /\ Queue!Stall(j)
    /\ UNCHANGED <<fixedVars, userVars, run, delivered, logs, runs>>

\* The same, when no worker works on the job for its lock any more.
Orphaned(j) == run[holder[j]] = NoRun \/ run[holder[j]].job # j

StallOrphan(j) == state[j] = "active" /\ Orphaned(j) /\ Stall(j)

-----------------------------------------------------------------------------
(* sendBatchNotifications and notifyUsersWhoBoughtProduct *)

Resume(w, new) ==
    /\ run' = [run EXCEPT ![w] = new]
    /\ UNCHANGED <<queueVars, fixedVars, userVars, runs>>

\* After a page, or with an empty one: the next page, or the end.
NextBatch(this) ==
    IF this.batch < this.batches THEN [this EXCEPT !.phase = "page", !.batch = @ + 1]
                                 ELSE [this EXCEPT !.phase = "finish"]

\* Mutant: the last, incomplete batch is forgotten.
BatchesDown(n) == n \div BatchSize

\* Math.ceil(totalUsers / BATCH_SIZE)
Batches(n) == (n + BatchSize - 1) \div BatchSize

Count(w) ==
    /\ In(w, "count")
    /\ LET n == Batches(Cardinality(users))
       IN  Resume(w, [run[w] EXCEPT !.phase = IF n = 0 THEN "finish" ELSE "page",
                                    !.batches = n, !.counted = users])
    /\ UNCHANGED <<delivered, logs>>

\* ORDER BY createdAt says nothing of users who were created at one time.
Listings(people) ==
    {seq \in SetToSeqs(people) :
        \A m, n \in DOMAIN seq : m < n => createdAt[seq[m]] <= createdAt[seq[n]]}

HandlePage(this, page) ==
    IF page = << >> THEN NextBatch(this)
                    ELSE [this EXCEPT !.phase = "deliver", !.page = page]

\* Mutant: the size of a batch is forgotten.
SkipByOne(batch) == batch - 1

\* (batch - 1) * BATCH_SIZE
Skip(batch) == (batch - 1) * BatchSize

\* Mutant: no LIMIT.
PageWithoutTake(listing, batch) == SubSeq(listing, Skip(batch) + 1, Len(listing))

\* find({ skip, take })
Page(listing, batch) ==
    SubSeq(listing, Skip(batch) + 1,
           IF Len(listing) < Skip(batch) + BatchSize THEN Len(listing)
                                                     ELSE Skip(batch) + BatchSize)

ReadPage(w) ==
    /\ In(w, "page")
    /\ \E listing \in Listings(users) :
          Resume(w, HandlePage(run[w], Page(listing, run[w].batch)))
    /\ UNCHANGED <<delivered, logs>>

\* SELECT DISTINCT, in any order; cut into batches in memory.
ReadBuyers(w) ==
    /\ In(w, "buyers")
    /\ \E listing \in SetToSeqs(users \cap Buyers) :
          Resume(w, HandlePage(run[w], listing))
    /\ UNCHANGED <<delivered, logs>>

User(w) == Head(run[w].page)

\* sendNotification: a stub that never throws.
Deliver(w) ==
    /\ In(w, "deliver") /\ run[w].job \notin wordless
    /\ delivered' = [delivered EXCEPT ![run[w].job][User(w)] = @ + 1]
    /\ Resume(w, [run[w] EXCEPT !.phase = "save", !.told = @ \cup {User(w)}])
    /\ UNCHANGED logs

NextUser(this) ==
    IF Len(this.page) = 1 THEN NextBatch([this EXCEPT !.page = << >>])
                          ELSE [this EXCEPT !.phase = "deliver", !.page = Tail(@)]

\* create() throws in message.replace, and the user counts as failed.
PassOver(w) ==
    /\ In(w, "deliver") /\ run[w].job \in wordless
    /\ Resume(w, NextUser(run[w]))
    /\ UNCHANGED <<delivered, logs>>

\* Mutant: the row is saved again and again until that works.
SaveRetries(w) ==
    /\ In(w, "save")
    /\ User(w) \in users
    /\ logs' = [logs EXCEPT ![run[w].job][User(w)] = @ + 1]
    /\ Resume(w, NextUser(run[w]))
    /\ UNCHANGED delivered

\* The row is saved, or the INSERT fails: because the user was removed (the
\* foreign key) or for any other reason.
SaveLog(w) ==
    /\ In(w, "save")
    /\ \/ /\ User(w) \in users
          /\ logs' = [logs EXCEPT ![run[w].job][User(w)] = @ + 1]
       \/ UNCHANGED logs
    /\ Resume(w, NextUser(run[w]))
    /\ UNCHANGED delivered

-----------------------------------------------------------------------------
(* Everybody else *)

\* createdAt is the time at which the transaction began; who registers at the
\* same time may be seen in another order.
Register(u) ==
    /\ u \in expected
    /\ users' = users \cup {u}
    /\ expected' = expected \ {u}
    /\ overtaken' = overtaken \cup {v \in users : createdAt[u] < createdAt[v]}
    /\ UNCHANGED <<queueVars, fixedVars, run, delivered, logs, runs>>

\* Foreign keys keep users who have orders or rows in the log.
Unregister(u) ==
    /\ u \in users \ Buyers
    /\ \A j \in Jobs : logs[j][u] = 0
    /\ users' = users \ {u}
    /\ UNCHANGED <<queueVars, fixedVars, expected, overtaken, run, delivered, logs, runs>>

-----------------------------------------------------------------------------

Progress(w) ==
    \/ Count(w) \/ ReadPage(w) \/ ReadBuyers(w) \/ Deliver(w) \/ PassOver(w) \/ SaveLog(w)
    \/ Finish(w)

Next ==
    \/ \E j \in Jobs : Add(j) \/ Stall(j)
    \/ \E w \in Workers, j \in Jobs : Process(w, j)
    \/ \E w \in Workers : Progress(w) \/ QueryFails(w) \/ Crash(w)
    \/ \E u \in People : Register(u) \/ Unregister(u)

\* Workers take jobs and go on; the stalled check of BullMQ finds orphans.
Fairness ==
    /\ \A w \in Workers : WF_vars(Progress(w)) /\ WF_vars(\E j \in Jobs : Process(w, j))
    /\ \A j \in Jobs : WF_vars(StallOrphan(j))

Spec == Init /\ [][Next]_vars /\ Fairness

-----------------------------------------------------------------------------
(* Properties *)

\* No two users were created at the time of u, and nobody was put before u
\* once u was there.
Settled(u) == u \notin overtaken /\ \A v \in People \ {u} : createdAt[v] # createdAt[u]

\* A run of send-batch that reaches its end has notified every user whom it
\* counted and who is still there, unless a user created before that one was
\* removed meanwhile, so that the pages moved, or the place of that one in the
\* order is undefined or has changed, or the message of the job is no string.
MissedNeedsRemoval ==
    \A w \in Workers : In(w, "finish") /\ name[run[w].job] = "send-batch" =>
        \A u \in (run[w].counted \cap users) \ run[w].told :
            \/ run[w].job \in wordless
            \/ ~Settled(u)
            \/ \E v \in run[w].counted \ users : createdAt[v] < createdAt[u]

\* However pages move, a run notifies nobody twice whose place in the order is
\* defined and who was not overtaken; so only retries and stalled jobs repeat a
\* notification, and the log never says 'sent' more often than that.
OncePerRun ==
    \A j \in Jobs, u \in People :
        /\ Settled(u) \/ name[j] = "send-product" => delivered[j][u] <= runs[j]
        /\ logs[j][u] <= delivered[j][u]

\* Every job that is queued ends, through crashes, stalls and failed queries.
EveryJobEnds == \A j \in Jobs : state[j] = "waiting" ~> state[j] \in Queue!Ended

=============================================================================
