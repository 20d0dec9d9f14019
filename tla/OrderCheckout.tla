---------------------------- MODULE OrderCheckout ----------------------------
(***************************************************************************)
(* OrderService.create: take a lease on every product of the cart, in      *)
(* sorted order; in one database transaction read the inventories, check   *)
(* and lower them, and save them with the order, its items and its         *)
(* payment; give the leases back in reverse order.                         *)
(*                                                                         *)
(* The leases are those of LeaseLock, which RedisLock implements: this     *)
(* module is built from its actions.  The database is PostgreSQL at READ   *)
(* COMMITTED: a transaction sees what others committed, the row it updated *)
(* stays locked until it ends, and nothing it wrote is seen before then.   *)
(* save() writes the quantity the entity has in memory; it does not look   *)
(* at the version column.                                                  *)
(***************************************************************************)
EXTENDS Naturals, FiniteSets

CONSTANTS
    Requests,      \* the calls of create; also the tokens of their leases
    Products,      \* product ids, as numbers in the order of Array.sort()
    NoOne,         \* owns the leases nobody owns
    Carts,         \* createOrderDto.items: the quantity asked of each product
    InitialStock,  \* quantity of the products that have an inventory row
    SlowHolders    \* whether a lease may run out under a live holder

ASSUME CheckoutAssumption ==
    /\ Products \subseteq Nat /\ IsFiniteSet(Products)
    /\ NoOne \notin Requests
    /\ \A c \in Carts : DOMAIN c \subseteq Products /\ c \in [DOMAIN c -> Nat]
    /\ DOMAIN InitialStock \subseteq Products
    /\ InitialStock \in [DOMAIN InitialStock -> Nat]
    /\ SlowHolders \in BOOLEAN

VARIABLES
    cart,       \* cart[r]: what request r orders
    pc,         \* how far create has come
    outcome,    \* what its caller is told
    owner,      \* the leases, as Redis sees them
    believers,  \* acquiredLocks of all requests, as <<product, request>>
    stock,      \* committed quantity of each inventory row
    mem,        \* quantity of the Inventory entities in a request's memory
    todo,       \* the entities save() has to look at, then those to update
    written,    \* the rows the open transaction of a request has updated
    sold,       \* quantity of each product in the committed order items
    late        \* ghost: an order was committed without all of its leases

Lease == INSTANCE LeaseLock WITH
    Keys <- Products, Tokens <- Requests, NoToken <- NoOne

leaseVars == <<owner, believers>>
txVars == <<mem, todo, written>>
dbVars == <<stock, sold, late>>
vars == <<cart, pc, outcome, leaseVars, txVars, dbVars>>

-----------------------------------------------------------------------------

Stocked == DOMAIN InitialStock

Acquiring     == {"locking", "sleeping"}
Saving        == {"comparing", "saving"}
InTransaction == {"reading"} \cup Saving
Ended         == {"done", "crashed"}
States        == {"idle", "releasing"} \cup Acquiring \cup InTransaction \cup Ended
Outcomes      == {"none", "created", "rejected", "failed"}

Wanted(r) == DOMAIN cart[r]

Held(r) == {p \in Wanted(r) : <<p, r>> \in believers}

\* Mutant: the product ids are not sorted.
AnyNext(r, p) == p \in Wanted(r) \ Held(r)

\* The loop over uniqueProductIds has come to p.
IsNext(r, p) ==
    /\ p \in Wanted(r) \ Held(r)
    /\ \A q \in Wanted(r) \ Held(r) : p <= q

\* The loop over acquiredLocks.reverse() has come to p.
IsLast(r, p) ==
    /\ p \in Held(r)
    /\ \A q \in Held(r) : q <= p

RowLocked(p) == \E s \in Requests : p \in written[s]

Goto(r, state) == pc' = [pc EXCEPT ![r] = state]

Tell(r, result) == outcome' = [outcome EXCEPT ![r] = result]

\* An exception on the way to the order: the finally block is next.
Throw(r, result) == Goto(r, "releasing") /\ Tell(r, result)

TypeOK ==
    /\ cart \in [Requests -> Carts]
    /\ pc \in [Requests -> States]
    /\ outcome \in [Requests -> Outcomes]
    /\ owner \in [Products -> Requests \cup {NoOne}]
    /\ believers \subseteq Products \X Requests
    /\ stock \in [Stocked -> Nat]
    /\ mem \in [Requests -> [Products -> Nat]]
    /\ todo \in [Requests -> SUBSET Products]
    /\ written \in [Requests -> SUBSET Products]
    /\ sold \in [Stocked -> Nat]
    /\ late \in BOOLEAN

Init ==
    /\ cart \in [Requests -> Carts]
    /\ pc = [r \in Requests |-> "idle"]
    /\ outcome = [r \in Requests |-> "none"]
    /\ Lease!LeaseInit
    /\ stock = InitialStock
    /\ mem = [r \in Requests |-> [p \in Products |-> 0]]
    /\ todo = [r \in Requests |-> {}]
    /\ written = [r \in Requests |-> {}]
    /\ sold = [p \in Stocked |-> 0]
    /\ late = FALSE

-----------------------------------------------------------------------------
(* Leases *)

\* An order without items is refused before anything is locked.
Start(r) ==
    /\ pc[r] = "idle"
    /\ IF Wanted(r) = {}
         THEN Goto(r, "done") /\ Tell(r, "rejected")
         ELSE Goto(r, "locking") /\ UNCHANGED outcome
    /\ UNCHANGED <<cart, leaseVars, txVars, dbVars>>

\* Mutant: the transaction starts with the first lease.
AcquireFirstOnly(r, p) ==
    /\ pc[r] = "locking" /\ IsNext(r, p)
    /\ Lease!Grant(p, r)
    /\ Goto(r, "reading")
    /\ UNCHANGED <<cart, outcome, txVars, dbVars>>

AcquireOk(r, p) ==
    /\ pc[r] = "locking" /\ IsNext(r, p)
    /\ Lease!Grant(p, r)
    /\ Goto(r, IF Wanted(r) = Held(r) \cup {p} THEN "reading" ELSE "locking")
    /\ UNCHANGED <<cart, outcome, txVars, dbVars>>

\* Mutant: the answer of the SET is not looked at.
AcquireAnyway(r, p) ==
    /\ pc[r] = "locking" /\ IsNext(r, p)
    /\ owner[p] # NoOne
    /\ believers' = believers \cup {<<p, r>>}
    /\ Goto(r, IF Wanted(r) = Held(r) \cup {p} THEN "reading" ELSE "locking")
    /\ UNCHANGED <<cart, outcome, owner, txVars, dbVars>>

AcquireNil(r, p) ==
    /\ pc[r] = "locking" /\ IsNext(r, p)
    /\ owner[p] # NoOne
    /\ Goto(r, "sleeping")
    /\ UNCHANGED <<cart, outcome, leaseVars, txVars, dbVars>>

\* The answer of the SET is lost: the acquire rejects, or the client library
\* repeats the SET and is refused by the lock it just took.
AcquireReplyLost(r, p) ==
    /\ pc[r] = "locking" /\ IsNext(r, p)
    /\ Lease!GrantUnheard(p, r)
    /\ Throw(r, "failed") \/ (Goto(r, "sleeping") /\ UNCHANGED outcome)
    /\ UNCHANGED <<cart, txVars, dbVars>>

AcquireError(r) ==
    /\ pc[r] = "locking"
    /\ Throw(r, "failed")
    /\ UNCHANGED <<cart, leaseVars, txVars, dbVars>>

Retry(r) ==
    /\ pc[r] = "sleeping"
    /\ Goto(r, "locking")
    /\ UNCHANGED <<cart, outcome, leaseVars, txVars, dbVars>>

\* The deadline of acquireWithWait: LockTimeoutException.
LockTimeout(r) ==
    /\ pc[r] = "sleeping"
    /\ Throw(r, "failed")
    /\ UNCHANGED <<cart, leaseVars, txVars, dbVars>>



\* A lease runs out; unless SlowHolders, only one that no live request holds.
LeaseRunsOut(p) ==
    /\ SlowHolders \/ <<p, owner[p]>> \notin believers
    /\ Lease!Lapse({p})
    /\ UNCHANGED <<cart, pc, outcome, txVars, dbVars>>

-----------------------------------------------------------------------------
(* The transaction *)

\* Mutant: the last unit cannot be sold.
AvailableBelow(r) ==
    \A p \in Wanted(r) : p \in Stocked /\ cart[r][p] < stock[p]

\* Every product has an inventory row, and the row has enough of it.
Available(r) ==
    \A p \in Wanted(r) : p \in Stocked /\ cart[r][p] <= stock[p]

\* Mutant: the quantity is not checked.
ReadUnchecked(r) ==
    /\ pc[r] = "reading"
    /\ Wanted(r) \subseteq Stocked
    /\ mem' = [mem EXCEPT ![r] =
                [p \in Products |-> IF p \in Wanted(r) THEN stock[p] - cart[r][p] ELSE 0]]
    /\ todo' = [todo EXCEPT ![r] = Wanted(r)]
    /\ Goto(r, "comparing")
    /\ UNCHANGED <<cart, outcome, leaseVars, written, dbVars>>

\* find, check every item and lower the entities in memory.
ReadAccept(r) ==
    /\ pc[r] = "reading"
    /\ Available(r)
    /\ mem' = [mem EXCEPT ![r] =
                [p \in Products |-> IF p \in Wanted(r) THEN stock[p] - cart[r][p] ELSE 0]]
    /\ todo' = [todo EXCEPT ![r] = Wanted(r)]
    /\ Goto(r, "comparing")
    /\ UNCHANGED <<cart, outcome, leaseVars, written, dbVars>>

\* Mutant: a rejected order is tried again.
RejectRetries(r) ==
    /\ pc[r] = "reading"
    /\ ~Available(r)
    /\ UNCHANGED vars

\* NotFoundException or BadRequestException: rolled back, not retried.
ReadReject(r) ==
    /\ pc[r] = "reading"
    /\ ~Available(r)
    /\ Throw(r, "rejected")
    /\ UNCHANGED <<cart, leaseVars, txVars, dbVars>>

\* save() first reads the rows again: only those that do not have the
\* quantity of their entity will be updated.
CompareRows(r) ==
    /\ pc[r] = "comparing"
    /\ todo' = [todo EXCEPT ![r] = {p \in @ : stock[p] # mem[r][p]}]
    /\ Goto(r, "saving")
    /\ UNCHANGED <<cart, outcome, leaseVars, mem, written, dbVars>>

\* The UPDATE of one row, which waits for the lock of the row.
SaveRow(r, p) ==
    /\ pc[r] = "saving" /\ p \in todo[r] /\ ~RowLocked(p)
    /\ todo' = [todo EXCEPT ![r] = @ \ {p}]
    /\ written' = [written EXCEPT ![r] = @ \cup {p}]
    /\ UNCHANGED <<cart, pc, outcome, leaseVars, mem, dbVars>>

\* What a request forgets when its transaction ends.
EndTransaction(r) ==
    /\ mem' = [mem EXCEPT ![r] = [p \in Products |-> 0]]
    /\ todo' = [todo EXCEPT ![r] = {}]
    /\ written' = [written EXCEPT ![r] = {}]

\* The order, its items and its payment are inserted; COMMIT.
Commit(r) ==
    /\ pc[r] = "saving" /\ todo[r] = {}
    /\ stock' = [p \in Stocked |-> IF p \in written[r] THEN mem[r][p] ELSE stock[p]]
    /\ sold' = [p \in Stocked |->
                    IF p \in Wanted(r) THEN sold[p] + cart[r][p] ELSE sold[p]]
    /\ late' = (late \/ \E p \in Wanted(r) : owner[p] # r)
    /\ EndTransaction(r)
    \* The last disjunct: the answer of the COMMIT is lost.
    /\ Throw(r, "created") \/ Throw(r, "failed")
    /\ UNCHANGED <<cart, leaseVars>>

\* Mutant: the inventories are saved outside the transaction.
AbortsTooLate(r) ==
    /\ pc[r] \in InTransaction
    /\ stock' = [p \in Stocked |-> IF p \in written[r] THEN mem[r][p] ELSE stock[p]]
    /\ EndTransaction(r)
    /\ Throw(r, "failed")
    /\ UNCHANGED <<cart, leaseVars, sold, late>>

\* A statement fails, or the connection does: rolled back and rethrown.
\* save() never raises the mismatch error that the retry loop waits for.
TxAborts(r) ==
    /\ pc[r] \in InTransaction
    /\ EndTransaction(r)
    /\ Throw(r, "failed")
    /\ UNCHANGED <<cart, leaseVars, dbVars>>

\* r cannot update any of the rows it has left before others end.
Blocked(r, others) ==
    /\ pc[r] = "saving" /\ todo[r] # {}
    /\ \A p \in todo[r] : \E s \in others \ {r} : p \in written[s]

\* PostgreSQL aborts one of a set of transactions that wait for each other.
DeadlockVictim(r) ==
    /\ \E D \in SUBSET Requests : r \in D /\ \A s \in D : Blocked(s, D)
    /\ TxAborts(r)

-----------------------------------------------------------------------------
(* The finally block *)

Release(r, p) ==
    /\ pc[r] = "releasing" /\ IsLast(r, p)
    /\ Lease!GiveBack(p, r)
    /\ UNCHANGED <<cart, pc, outcome, txVars, dbVars>>

\* Mutant: a release that throws ends the loop.
ReleaseThrows(r, p) ==
    /\ pc[r] = "releasing" /\ IsLast(r, p)
    /\ Goto(r, "done")
    /\ UNCHANGED <<cart, outcome, leaseVars, txVars, dbVars>>

\* release throws: logged, and the loop goes on.
ReleaseLost(r, p) ==
    /\ pc[r] = "releasing" /\ IsLast(r, p)
    /\ Lease!Abandon({<<p, r>>})
    /\ UNCHANGED <<cart, pc, outcome, txVars, dbVars>>

Finish(r) ==
    /\ pc[r] = "releasing" /\ Held(r) = {}
    /\ Goto(r, "done")
    /\ UNCHANGED <<cart, outcome, leaseVars, txVars, dbVars>>

\* The process dies: its transaction is rolled back, its leases stay.
Crash(r) ==
    /\ pc[r] \notin Ended \cup {"idle"}
    /\ Goto(r, "crashed")
    /\ EndTransaction(r)
    /\ Lease!Abandon({<<p, r>> : p \in Held(r)})
    /\ UNCHANGED <<cart, outcome, dbVars>>

-----------------------------------------------------------------------------

AcquireStep(r) == \E p \in Products : AcquireOk(r, p) \/ AcquireNil(r, p)
SaveStep(r) == \E p \in Products : SaveRow(r, p)
ReleaseStep(r) == \E p \in Products : Release(r, p)

\* What a request does by itself when nothing fails.
Progress(r) ==
    \/ AcquireStep(r) \/ Retry(r)
    \/ ReadAccept(r) \/ ReadReject(r) \/ CompareRows(r) \/ SaveStep(r) \/ Commit(r)
    \/ ReleaseStep(r) \/ Finish(r)

Failure(r) ==
    \/ \E p \in Products : AcquireReplyLost(r, p) \/ ReleaseLost(r, p)
    \/ AcquireError(r) \/ LockTimeout(r) \/ TxAborts(r) \/ DeadlockVictim(r) \/ Crash(r)

Next ==
    \/ \E r \in Requests : Start(r) \/ Progress(r) \/ Failure(r)
    \/ \E p \in Products : LeaseRunsOut(p)

Spec == Init /\ [][Next]_vars

\* Redis and PostgreSQL answer, the deadline of acquireWithWait passes,
\* PostgreSQL breaks deadlocks and Redis expires keys.
Fairness ==
    /\ \A r \in Requests :
        /\ WF_vars(Progress(r))
        /\ WF_vars(DeadlockVictim(r))
        /\ SF_vars(LockTimeout(r))
    /\ \A p \in Products : WF_vars(LeaseRunsOut(p))

FairSpec == Spec /\ Fairness

-----------------------------------------------------------------------------
(* Properties *)

\* What is left and what was sold add up to what there was: no decrement of
\* the inventory is lost or applied twice (create's leases around
\* createOrderInternal).  Holds when no lease runs out under a live holder.
StockConserved == \A p \in Stocked : stock[p] + sold[p] = InitialStock[p]

\* A decrement is lost only after some order was committed by a request that
\* no longer owned the leases of its products: while all commits are in
\* time, crashes, lost replies, timeouts and aborts cannot unbalance stock.
LossNeedsLateCommit == late \/ StockConserved

\* An order about to be saved has computed from the committed quantity of
\* every row whose lease its request still owns.  createOrderInternal waits
\* for a version mismatch to compute it again and save() never reports one:
\* the row of such an order changes only behind a lost lease, or when an
\* earlier order was committed after losing one.
StaleReadsLostTheirLease ==
    \A r \in Requests : pc[r] \in Saving =>
        \A p \in Wanted(r) :
            owner[p] = r => late \/ mem[r][p] + cart[r][p] = stock[p]

\* "Not enough stock" and "not found" are final: what was sold by then, and
\* ever after, really leaves too little.  Leases that run out can make the
\* shop sell too much, never refuse what it could sell.
RefusedForGood ==
    \A r \in Requests :
        outcome[r] = "rejected" /\ Wanted(r) # {}
            => \E p \in Wanted(r) :
                    p \in Stocked => cart[r][p] + sold[p] > InitialStock[p]

\* Locking in the order of the sorted product ids: there are no requests each
\* of which waits for a lease that another of them holds.
NoLeaseCycle ==
    \A D \in (SUBSET Requests) \ {{}} : \E r \in D :
        \/ pc[r] \notin Acquiring
        \/ \A p \in Wanted(r) : IsNext(r, p) =>
                ~ \E s \in D : owner[p] = s /\ p \in Held(s)

\* create never returns or throws while it still counts on a lease: the
\* finally block runs through acquiredLocks even when a release fails.
EndedHoldsNothing == \A r \in Requests : pc[r] \in Ended => Held(r) = {}

\* Two transactions at a time never have a product in common, so none ever
\* waits for a row of another (when no lease runs out under a live holder).
ExclusiveTransactions ==
    \A r, s \in Requests :
        r # s /\ pc[r] \in InTransaction /\ pc[s] \in InTransaction
            => Wanted(r) \cap Wanted(s) = {}

Ledger == INSTANCE StockLedger WITH Products <- Stocked, Sales <- Carts

\* Every step of the checkout is one whole sale of what was in stock, or
\* leaves stock and orders alone (when no lease runs out under a holder).
ImplementsLedger == Ledger!LedgerSpec

\* Every call of create returns, throws or dies with its process: waiting for
\* leases is bounded by timeoutMs, waiting for rows by deadlock detection.
EveryRequestEnds ==
    \A r \in Requests : pc[r] \in Acquiring \cup InTransaction ~> pc[r] \in Ended

=============================================================================
