------------------------- MODULE OrderCheckoutProofs -------------------------
(* What OrderCheckout guarantees for all requests, carts and stocks. *)
EXTENDS OrderCheckout, FiniteSetTheorems, WellFoundedInduction, TLAPS

-----------------------------------------------------------------------------
(* Types *)

LEMMA TypeInit == Init => TypeOK
<1> SUFFICES ASSUME Init PROVE TypeOK
  OBVIOUS
<1>1. pc \in [Requests -> States] /\ outcome \in [Requests -> Outcomes]
  BY DEF Init, States, Outcomes
<1>2. owner \in [Products -> Requests \cup {NoOne}] /\ believers \subseteq Products \X Requests
  BY DEF Init, Lease!LeaseInit
<1>3. stock \in [Stocked -> Nat] /\ sold \in [Stocked -> Nat]
  BY CheckoutAssumption DEF Init, Stocked
<1>4. mem \in [Requests -> [Products -> Nat]]
  BY DEF Init
<1> QED
  BY <1>1, <1>2, <1>3, <1>4 DEF Init, TypeOK

LEMMA TypeKept == TypeOK /\ [Next]_vars => TypeOK'
<1> SUFFICES ASSUME TypeOK, [Next]_vars
             PROVE  TypeOK'
  OBVIOUS
<1> USE DEF TypeOK, States, Outcomes, Acquiring, InTransaction, Saving, Ended,
            leaseVars, txVars, dbVars, Goto, Tell, Throw
<1>1. CASE UNCHANGED vars
  BY <1>1 DEF vars
<1>2. ASSUME NEW r \in Requests, Start(r)
      PROVE  TypeOK'
  BY <1>2 DEF Start
<1>3. ASSUME NEW r \in Requests, NEW p \in Products,
             AcquireOk(r, p) \/ AcquireNil(r, p) \/ AcquireReplyLost(r, p)
      PROVE  TypeOK'
  <2>1. owner' \in [Products -> Requests \cup {NoOne}]
    BY <1>3 DEF AcquireOk, AcquireNil, AcquireReplyLost, Lease!Grant, Lease!GrantUnheard
  <2>2. believers' \subseteq Products \X Requests
    BY <1>3 DEF AcquireOk, AcquireNil, AcquireReplyLost, Lease!Grant, Lease!GrantUnheard
  <2>3. pc' \in [Requests -> States] /\ outcome' \in [Requests -> Outcomes]
    BY <1>3 DEF AcquireOk, AcquireNil, AcquireReplyLost
  <2> QED
    BY <1>3, <2>1, <2>2, <2>3 DEF AcquireOk, AcquireNil, AcquireReplyLost
<1>4. ASSUME NEW r \in Requests, AcquireError(r) \/ Retry(r) \/ LockTimeout(r)
      PROVE  TypeOK'
  BY <1>4 DEF AcquireError, Retry, LockTimeout
<1>5. ASSUME NEW r \in Requests, ReadAccept(r)
      PROVE  TypeOK'
  <2>1. cart[r] \in [Wanted(r) -> Nat] /\ Wanted(r) \subseteq Products
    BY CheckoutAssumption DEF Wanted
  <2>2. \A p \in Wanted(r) : stock[p] - cart[r][p] \in Nat
    BY <1>5, <2>1 DEF ReadAccept, Available, Stocked
  <2>3. mem' \in [Requests -> [Products -> Nat]]
    BY <1>5, <2>2 DEF ReadAccept
  <2>4. todo' \in [Requests -> SUBSET Products]
    BY <1>5, <2>1 DEF ReadAccept
  <2> QED
    BY <1>5, <2>3, <2>4 DEF ReadAccept
<1>6. ASSUME NEW r \in Requests, ReadReject(r)
      PROVE  TypeOK'
  BY <1>6 DEF ReadReject
<1>7. ASSUME NEW r \in Requests, NEW p \in Products, SaveRow(r, p)
      PROVE  TypeOK'
  <2>1. todo' \in [Requests -> SUBSET Products] /\ written' \in [Requests -> SUBSET Products]
    BY <1>7 DEF SaveRow
  <2> QED
    BY <1>7, <2>1 DEF SaveRow
<1>8. ASSUME NEW r \in Requests, Commit(r)
      PROVE  TypeOK'
  <2>1. cart[r] \in [Wanted(r) -> Nat]
    BY CheckoutAssumption DEF Wanted
  <2>2. stock' \in [Stocked -> Nat]
    BY <1>8, CheckoutAssumption DEF Commit, Stocked
  <2>3. sold' \in [Stocked -> Nat]
    BY <1>8, <2>1 DEF Commit
  <2>4. late' \in BOOLEAN
    BY <1>8 DEF Commit
  <2> QED
    BY <1>8, <2>2, <2>3, <2>4 DEF Commit, EndTransaction
<1>9. ASSUME NEW r \in Requests, TxAborts(r) \/ DeadlockVictim(r)
      PROVE  TypeOK'
  <2>1. TxAborts(r)
    BY <1>9 DEF DeadlockVictim
  <2> QED
    BY <2>1 DEF TxAborts, EndTransaction
<1>10. ASSUME NEW r \in Requests, NEW p \in Products, Release(r, p) \/ ReleaseLost(r, p)
       PROVE  TypeOK'
  <2>1. CASE Release(r, p)
    BY <2>1 DEF Release, Lease!GiveBack
  <2>2. CASE ReleaseLost(r, p)
    BY <2>2 DEF ReleaseLost, Lease!Abandon
  <2> QED
    BY <1>10, <2>1, <2>2
<1>11. ASSUME NEW r \in Requests, Finish(r) \/ Crash(r)
       PROVE  TypeOK'
  <2>1. CASE Finish(r)
    BY <2>1 DEF Finish
  <2>2. CASE Crash(r)
    BY <2>2 DEF Crash, EndTransaction, Lease!Abandon
  <2> QED
    BY <1>11, <2>1, <2>2
<1>12. ASSUME NEW p \in Products, LeaseRunsOut(p)
       PROVE  TypeOK'
  BY <1>12 DEF LeaseRunsOut, Lease!Lapse
<1>13. ASSUME NEW r \in Requests, CompareRows(r)
       PROVE  TypeOK'
  <2>1. {p \in todo[r] : stock[p] # mem[r][p]} \subseteq Products
    OBVIOUS
  <2>2. todo' \in [Requests -> SUBSET Products]
    BY <1>13, <2>1 DEF CompareRows
  <2> QED
    BY <1>13, <2>2 DEF CompareRows
<1> QED
  BY <1>1, <1>2, <1>3, <1>4, <1>5, <1>6, <1>7, <1>8, <1>9, <1>10, <1>11, <1>12, <1>13
     DEF Next, Progress, Failure, AcquireStep, SaveStep, ReleaseStep

\* The variables always have the types that the columns, the Redis values and
\* the locals of OrderService.create have.
THEOREM TypeCorrect == Spec => []TypeOK
BY TypeInit, TypeKept, PTL DEF Spec

-----------------------------------------------------------------------------
(* The steps, as the transactions see them *)

\* Steps that no open transaction notices.
Quiet ==
    /\ UNCHANGED <<cart, txVars, dbVars>>
    /\ \A r \in Requests :
        /\ pc'[r] \in Saving <=> pc[r] \in Saving
        /\ pc'[r] = "saving" <=> pc[r] = "saving"
        /\ \A p \in Products :
            pc[r] \in Saving /\ owner'[p] = r => owner[p] = r

\* The transaction of r, if it is in one, is rolled back.
RolledBack(r) ==
    /\ EndTransaction(r)
    /\ UNCHANGED <<cart, dbVars, owner>>
    /\ \E state \in States \ InTransaction : Goto(r, state)

\* Only six kinds of steps concern the transactions and the database.
LEMMA TransactionSteps ==
  ASSUME TypeOK, [Next]_vars
  PROVE  \/ Quiet
         \/ \E r \in Requests :
                \/ ReadAccept(r) \/ CompareRows(r) \/ Commit(r) \/ RolledBack(r)
                \/ \E p \in Products : SaveRow(r, p)
<1> USE DEF leaseVars, txVars, dbVars, Goto, Tell, Throw
<1>1. CASE UNCHANGED vars
  BY <1>1 DEF vars, Quiet
<1>2. ASSUME NEW r \in Requests,
             \/ Start(r) \/ AcquireError(r) \/ Retry(r) \/ LockTimeout(r)
             \/ ReadReject(r) \/ Finish(r)
      PROVE  Quiet
  BY <1>2 DEF TypeOK, Quiet, Saving, Start, AcquireError, Retry, LockTimeout, ReadReject, Finish
<1>3. ASSUME NEW r \in Requests, NEW p \in Products, AcquireOk(r, p)
      PROVE  Quiet
  <2>1. pc[r] = "locking" /\ owner' = [owner EXCEPT ![p] = r]
    BY <1>3 DEF AcquireOk, Lease!Grant
  <2>2. pc'[r] \in {"reading", "locking"} /\ \A s \in Requests \ {r} : pc'[s] = pc[s]
    BY <1>3 DEF AcquireOk, TypeOK
  <2>3. UNCHANGED <<cart, txVars, dbVars>>
    BY <1>3 DEF AcquireOk
  <2> QED
    BY <2>1, <2>2, <2>3 DEF Quiet, Saving, TypeOK
<1>4. ASSUME NEW r \in Requests, NEW p \in Products,
             AcquireNil(r, p) \/ AcquireReplyLost(r, p)
      PROVE  Quiet
  <2>1. pc[r] = "locking" /\ (owner' = owner \/ owner' = [owner EXCEPT ![p] = r])
    BY <1>4 DEF AcquireNil, AcquireReplyLost, Lease!GrantUnheard
  <2>2. pc'[r] \in {"releasing", "sleeping"} /\ \A s \in Requests \ {r} : pc'[s] = pc[s]
    BY <1>4 DEF AcquireNil, AcquireReplyLost, TypeOK
  <2>3. UNCHANGED <<cart, txVars, dbVars>>
    BY <1>4 DEF AcquireNil, AcquireReplyLost
  <2> QED
    BY <2>1, <2>2, <2>3 DEF Quiet, Saving, TypeOK
<1>5. ASSUME NEW r \in Requests, NEW p \in Products, Release(r, p)
      PROVE  Quiet
  <2>1. \A q \in Products : owner'[q] = owner[q] \/ owner'[q] = NoOne
    BY <1>5 DEF Release, Lease!GiveBack, TypeOK
  <2> QED
    BY <1>5, <2>1, CheckoutAssumption DEF Release, Quiet
<1>6. ASSUME NEW r \in Requests, NEW p \in Products, ReleaseLost(r, p)
      PROVE  Quiet
  BY <1>6 DEF ReleaseLost, Lease!Abandon, Quiet
<1>7. ASSUME NEW p \in Products, LeaseRunsOut(p)
      PROVE  Quiet
  <2>1. \A q \in Products : owner'[q] = owner[q] \/ owner'[q] = NoOne
    BY <1>7 DEF LeaseRunsOut, Lease!Lapse, TypeOK
  <2> QED
    BY <1>7, <2>1, CheckoutAssumption DEF LeaseRunsOut, Quiet
<1>8. ASSUME NEW r \in Requests, TxAborts(r) \/ DeadlockVictim(r)
      PROVE  RolledBack(r)
  <2>1. TxAborts(r)
    BY <1>8 DEF DeadlockVictim
  <2>2. "releasing" \in States \ InTransaction
    BY DEF States, InTransaction, Saving
  <2> QED
    BY <2>1, <2>2 DEF TxAborts, RolledBack
<1>9. ASSUME NEW r \in Requests, Crash(r)
      PROVE  RolledBack(r)
  <2>1. "crashed" \in States \ InTransaction
    BY DEF States, Ended, InTransaction, Saving
  <2> QED
    BY <1>9, <2>1 DEF Crash, Lease!Abandon, RolledBack
<1> QED
  BY <1>1, <1>2, <1>3, <1>4, <1>5, <1>6, <1>7, <1>8, <1>9
     DEF Next, Progress, Failure, AcquireStep, SaveStep, ReleaseStep

-----------------------------------------------------------------------------
(* Open transactions *)

\* What a transaction still has to save, and what it has saved, is part of
\* its cart; every product of the cart has an inventory row.
TransactionShape ==
    \A r \in Requests :
        /\ todo[r] \subseteq Wanted(r) /\ written[r] \subseteq Wanted(r)
        /\ pc[r] \in Saving => Wanted(r) \subseteq Stocked
        /\ pc[r] # "saving" => written[r] = {}

LEMMA ShapeKept ==
  ASSUME TypeOK, TransactionShape, [Next]_vars
  PROVE  TransactionShape'
<1> USE DEF txVars, dbVars, leaseVars, Goto, Throw, Tell, Wanted, Saving
<1>1. CASE Quiet
  BY <1>1 DEF Quiet, TransactionShape
<1>2. ASSUME NEW r \in Requests, ReadAccept(r)
      PROVE  TransactionShape'
  BY <1>2 DEF ReadAccept, Available, TransactionShape, TypeOK
<1>3. ASSUME NEW r \in Requests, Commit(r)
      PROVE  TransactionShape'
  BY <1>3 DEF Commit, EndTransaction, TransactionShape, TypeOK
<1>4. ASSUME NEW r \in Requests, RolledBack(r)
      PROVE  TransactionShape'
  BY <1>4 DEF RolledBack, EndTransaction, InTransaction, TransactionShape, TypeOK
<1>5. ASSUME NEW r \in Requests, CompareRows(r)
      PROVE  TransactionShape'
  BY <1>5 DEF CompareRows, TransactionShape, TypeOK
<1>6. ASSUME NEW r \in Requests, NEW p \in Products, SaveRow(r, p)
      PROVE  TransactionShape'
  BY <1>6 DEF SaveRow, TransactionShape, TypeOK
<1> QED
  BY <1>1, <1>2, <1>3, <1>4, <1>5, <1>6, TransactionSteps

-----------------------------------------------------------------------------
(* No decrement is lost before a late commit *)

\* While no commit was late, stock and orders balance, and whoever owns the
\* lease of a row it is about to save computed from the committed quantity.
UpToDate(r, p) ==
    owner[p] = r =>
        /\ mem[r][p] + cart[r][p] = stock[p]
        /\ p \notin todo[r] \cup written[r] => mem[r][p] = stock[p]

Balance ==
    ~late => /\ StockConserved
             /\ \A r \in Requests, p \in Products :
                    pc[r] \in Saving /\ p \in Wanted(r) => UpToDate(r, p)

LEMMA BalanceKept ==
  ASSUME TypeOK, TypeOK', TransactionShape, Balance, [Next]_vars
  PROVE  Balance'
<1> USE DEF txVars, dbVars, leaseVars, Goto, Throw, Tell, Wanted, UpToDate, Saving
<1>1. CASE Quiet
  BY <1>1 DEF Quiet, Balance, StockConserved
<1>2. ASSUME NEW r \in Requests, ReadAccept(r)
      PROVE  Balance'
  <2> SUFFICES ASSUME ~late'
               PROVE  Balance'
    BY DEF Balance
  <2>1. StockConserved'
    BY <1>2 DEF ReadAccept, Balance, StockConserved
  <2>2. ASSUME NEW s \in Requests, NEW p \in Products,
               pc'[s] \in Saving, p \in Wanted(s)', owner'[p] = s
        PROVE  UpToDate(s, p)'
    <3>1. CASE s = r
      <4>1. cart[r][p] \in Nat /\ stock[p] \in Nat
        BY <1>2, <2>2, <3>1, CheckoutAssumption DEF ReadAccept, Available, TypeOK
      <4>2. mem'[r][p] = stock[p] - cart[r][p] /\ p \in todo'[r]
        BY <1>2, <2>2, <3>1 DEF ReadAccept, TypeOK
      <4> QED
        BY <1>2, <3>1, <4>1, <4>2 DEF ReadAccept
    <3>2. CASE s # r
      BY <1>2, <2>2, <3>2 DEF ReadAccept, Balance, TypeOK
    <3> QED
      BY <3>1, <3>2
  <2> QED
    BY <2>1, <2>2 DEF Balance
<1>3. ASSUME NEW r \in Requests, Commit(r)
      PROVE  Balance'
  <2> SUFFICES ASSUME ~late'
               PROVE  Balance'
    BY DEF Balance
  <2>1. ~late /\ \A p \in Wanted(r) : owner[p] = r
    BY <1>3 DEF Commit, TypeOK
  <2>2. ASSUME NEW p \in Wanted(r)
        PROVE  stock'[p] = mem[r][p] /\ mem[r][p] + cart[r][p] = stock[p]
    <3>1. p \in Products /\ p \in Stocked /\ todo[r] = {} /\ pc[r] = "saving"
      BY <1>3, CheckoutAssumption DEF Commit, TransactionShape, TypeOK
    <3>2. UpToDate(r, p)
      BY <2>1, <3>1 DEF Balance
    <3> QED
      BY <1>3, <2>1, <3>1, <3>2 DEF Commit
  <2>3. \A p \in Stocked : p \notin Wanted(r) => stock'[p] = stock[p] /\ sold'[p] = sold[p]
    BY <1>3 DEF Commit, TransactionShape
  <2>4. StockConserved'
    <3> SUFFICES ASSUME NEW p \in Stocked
                 PROVE  stock'[p] + sold'[p] = InitialStock[p]
      BY DEF StockConserved, Stocked
    <3>1. stock[p] + sold[p] = InitialStock[p] /\ stock[p] \in Nat /\ sold[p] \in Nat
      BY <2>1 DEF Balance, StockConserved, TypeOK
    <3>2. CASE p \in Wanted(r)
      <4>1. sold'[p] = sold[p] + cart[r][p]
        BY <1>3, <3>2 DEF Commit
      <4>2. cart[r][p] \in Nat /\ mem[r][p] \in Nat
        BY <3>2, CheckoutAssumption DEF TypeOK
      <4> QED
        BY <2>2, <3>1, <3>2, <4>1, <4>2
    <3>3. CASE p \notin Wanted(r)
      BY <2>3, <3>1, <3>3
    <3> QED
      BY <3>2, <3>3
  <2>5. ASSUME NEW s \in Requests, NEW p \in Products,
               pc'[s] \in Saving, p \in Wanted(s)', owner'[p] = s
        PROVE  UpToDate(s, p)'
    <3>1. s # r /\ pc[s] \in Saving /\ p \in Wanted(s) /\ owner[p] = s
      BY <1>3, <2>5 DEF Commit, TypeOK
    <3>2. p \in Stocked /\ p \notin Wanted(r)
      BY <2>1, <3>1 DEF TransactionShape
    <3>3. UpToDate(s, p)
      BY <2>1, <3>1 DEF Balance
    <3>4. UNCHANGED <<mem[s], todo[s], written[s], cart>>
      BY <1>3, <3>1 DEF Commit, EndTransaction, TypeOK
    <3> QED
      BY <2>3, <3>1, <3>2, <3>3, <3>4
  <2> QED
    BY <2>4, <2>5 DEF Balance
<1>4. ASSUME NEW r \in Requests, RolledBack(r)
      PROVE  Balance'
  BY <1>4 DEF RolledBack, EndTransaction, InTransaction, Balance, StockConserved, TypeOK
<1>5. ASSUME NEW r \in Requests, CompareRows(r)
      PROVE  Balance'
  <2> SUFFICES ASSUME ~late'
               PROVE  Balance'
    BY DEF Balance
  <2>1. StockConserved'
    BY <1>5 DEF CompareRows, Balance, StockConserved
  <2>2. ASSUME NEW s \in Requests, NEW q \in Products,
               pc'[s] \in Saving, q \in Wanted(s)', owner'[q] = s
        PROVE  UpToDate(s, q)'
    <3>1. UpToDate(s, q) /\ owner[q] = s
      BY <1>5, <2>2 DEF CompareRows, Balance, TypeOK
    <3>2. q \in todo[s] /\ q \notin todo'[s] => mem[s][q] = stock[q]
      BY <1>5 DEF CompareRows, TypeOK
    <3> QED
      BY <1>5, <3>1, <3>2 DEF CompareRows
  <2> QED
    BY <2>1, <2>2 DEF Balance
<1>6. ASSUME NEW r \in Requests, NEW p \in Products, SaveRow(r, p)
      PROVE  Balance'
  <2> SUFFICES ASSUME ~late'
               PROVE  Balance'
    BY DEF Balance
  <2>1. StockConserved'
    BY <1>6 DEF SaveRow, Balance, StockConserved
  <2>2. ASSUME NEW s \in Requests, NEW q \in Products,
               pc'[s] \in Saving, q \in Wanted(s)', owner'[q] = s
        PROVE  UpToDate(s, q)'
    <3>1. UpToDate(s, q) /\ owner[q] = s
      BY <1>6, <2>2 DEF SaveRow, Balance
    <3>2. CASE s = r /\ q = p
      BY <1>6, <3>1, <3>2 DEF SaveRow, TypeOK
    <3>3. CASE s # r \/ q # p
      BY <1>6, <3>1, <3>3 DEF SaveRow, TypeOK
    <3> QED
      BY <3>2, <3>3
  <2> QED
    BY <2>1, <2>2 DEF Balance
<1> QED
  BY <1>1, <1>2, <1>3, <1>4, <1>5, <1>6, TransactionSteps

-----------------------------------------------------------------------------
(* Leases protect transactions *)

\* A request is in its transaction only with all its products in acquiredLocks.
HoldsAll ==
    \A r \in Requests : pc[r] \in InTransaction => Wanted(r) \subseteq Held(r)

\* Unless leases run out under live holders, whoever counts on a lease owns it.
LeasesHold ==
    ~SlowHolders => \A p \in Products, r \in Requests :
                        <<p, r>> \in believers => owner[p] = r

LeaseInv == HoldsAll /\ LeasesHold

\* Steps that leave the leases alone and let nobody into a transaction.
NoLeaseStep ==
    /\ UNCHANGED <<cart, leaseVars>>
    /\ \A r \in Requests : pc'[r] \in InTransaction => pc[r] \in InTransaction

LEMMA LeaseInvKept ==
  ASSUME TypeOK, LeaseInv, [Next]_vars
  PROVE  LeaseInv'
<1> USE DEF leaseVars, txVars, dbVars, Goto, Throw, Tell, Wanted, Held, InTransaction, Saving
<1>1. ASSUME NoLeaseStep PROVE LeaseInv'
  BY <1>1 DEF NoLeaseStep, LeaseInv, HoldsAll, LeasesHold
<1>2. CASE UNCHANGED vars
  BY <1>1, <1>2 DEF vars, NoLeaseStep
<1>3. ASSUME NEW r \in Requests,
             \/ Start(r) \/ AcquireError(r) \/ Retry(r) \/ LockTimeout(r)
             \/ ReadAccept(r) \/ ReadReject(r) \/ CompareRows(r) \/ Finish(r)
      PROVE  LeaseInv'
  <2>1. NoLeaseStep
    BY <1>3 DEF NoLeaseStep, TypeOK, Start, AcquireError, Retry, LockTimeout,
                ReadAccept, ReadReject, CompareRows, Finish
  <2> QED
    BY <1>1, <2>1
<1>4. ASSUME NEW r \in Requests, Commit(r) \/ TxAborts(r) \/ DeadlockVictim(r)
      PROVE  LeaseInv'
  <2>1. Commit(r) \/ TxAborts(r)
    BY <1>4 DEF DeadlockVictim
  <2>2. NoLeaseStep
    BY <2>1 DEF NoLeaseStep, TypeOK, Commit, TxAborts
  <2> QED
    BY <1>1, <2>2
<1>5. ASSUME NEW r \in Requests, NEW p \in Products,
             AcquireNil(r, p) \/ SaveRow(r, p)
      PROVE  LeaseInv'
  <2>1. NoLeaseStep
    BY <1>5 DEF NoLeaseStep, TypeOK, AcquireNil, SaveRow
  <2> QED
    BY <1>1, <2>1
<1>6. ASSUME NEW r \in Requests, NEW p \in Products, AcquireOk(r, p)
      PROVE  LeaseInv'
  <2>1. /\ owner[p] = NoOne /\ owner' = [owner EXCEPT ![p] = r]
        /\ believers' = believers \cup {<<p, r>>} /\ cart' = cart
    BY <1>6 DEF AcquireOk, Lease!Grant
  <2>2. HoldsAll'
    <3>1. pc'[r] \in InTransaction => Wanted(r) = Held(r) \cup {p}
      BY <1>6 DEF AcquireOk, TypeOK
    <3>2. (Held(r) \cup {p}) \cap Wanted(r) \subseteq Held(r)'
      BY <2>1
    <3>3. \A s \in Requests \ {r} : pc'[s] = pc[s] /\ Held(s)' = Held(s)
      BY <1>6, <2>1 DEF AcquireOk, TypeOK
    <3> QED
      BY <2>1, <3>1, <3>2, <3>3 DEF LeaseInv, HoldsAll
  <2>3. LeasesHold'
    BY <2>1, CheckoutAssumption DEF LeaseInv, LeasesHold, TypeOK
  <2> QED
    BY <2>2, <2>3 DEF LeaseInv
<1>7. ASSUME NEW r \in Requests, NEW p \in Products, AcquireReplyLost(r, p)
      PROVE  LeaseInv'
  <2>1. /\ owner[p] = NoOne /\ owner' = [owner EXCEPT ![p] = r]
        /\ UNCHANGED <<believers, cart>>
    BY <1>7 DEF AcquireReplyLost, Lease!GrantUnheard
  <2>2. HoldsAll'
    BY <1>7, <2>1 DEF AcquireReplyLost, LeaseInv, HoldsAll, TypeOK
  <2>3. LeasesHold'
    BY <2>1, CheckoutAssumption DEF LeaseInv, LeasesHold, TypeOK
  <2> QED
    BY <2>2, <2>3 DEF LeaseInv
<1>8. ASSUME NEW r \in Requests, NEW p \in Products, Release(r, p)
      PROVE  LeaseInv'
  <2>1. /\ pc[r] = "releasing" /\ UNCHANGED <<pc, cart>> /\ <<p, r>> \in believers
        /\ believers' = believers \ {<<p, r>>}
        /\ owner' = [owner EXCEPT ![p] = IF owner[p] = r THEN NoOne ELSE owner[p]]
    BY <1>8 DEF Release, Lease!GiveBack
  <2>2. HoldsAll'
    BY <2>1 DEF LeaseInv, HoldsAll
  <2>3. LeasesHold'
    <3> SUFFICES ASSUME ~SlowHolders, NEW q \in Products, NEW s \in Requests,
                        <<q, s>> \in believers'
                 PROVE  owner'[q] = s
      BY DEF LeasesHold
    <3>1. owner[q] = s /\ owner[p] = r /\ <<q, s>> # <<p, r>>
      BY <2>1 DEF LeaseInv, LeasesHold
    <3> QED
      BY <2>1, <3>1 DEF TypeOK
  <2> QED
    BY <2>2, <2>3 DEF LeaseInv
<1>9. ASSUME NEW r \in Requests,
             Crash(r) \/ \E p \in Products : ReleaseLost(r, p)
      PROVE  LeaseInv'
  <2>1. /\ UNCHANGED <<cart, owner>> /\ believers' \subseteq believers
        /\ \A s \in Requests \ {r} : \A q \in Products :
                <<q, s>> \in believers => <<q, s>> \in believers'
    BY <1>9 DEF Crash, ReleaseLost, Lease!Abandon
  <2>2. pc'[r] \notin InTransaction /\ \A s \in Requests \ {r} : pc'[s] = pc[s]
    BY <1>9 DEF Crash, ReleaseLost, TypeOK
  <2>3. \A s \in Requests : Wanted(s) \subseteq Products
    BY CheckoutAssumption DEF TypeOK
  <2>4. HoldsAll'
    BY <2>1, <2>2, <2>3 DEF LeaseInv, HoldsAll
  <2>5. LeasesHold'
    BY <2>1 DEF LeaseInv, LeasesHold
  <2> QED
    BY <2>4, <2>5 DEF LeaseInv
<1>10. ASSUME NEW p \in Products, LeaseRunsOut(p)
       PROVE  LeaseInv'
  <2>1. /\ UNCHANGED <<pc, cart, believers>>
        /\ SlowHolders \/ <<p, owner[p]>> \notin believers
        /\ \A q \in Products : owner'[q] = IF q = p THEN NoOne ELSE owner[q]
    BY <1>10 DEF LeaseRunsOut, Lease!Lapse
  <2>2. HoldsAll'
    BY <2>1 DEF LeaseInv, HoldsAll
  <2>3. LeasesHold'
    BY <2>1 DEF LeaseInv, LeasesHold
  <2> QED
    BY <2>2, <2>3 DEF LeaseInv
<1> QED
  BY <1>2, <1>3, <1>4, <1>5, <1>6, <1>7, <1>8, <1>9, <1>10
     DEF Next, Progress, Failure, AcquireStep, SaveStep, ReleaseStep

\* With leases that outlive their holders, commits are never late.
LEMMA NeverLate ==
  ASSUME TypeOK, LeaseInv, ~SlowHolders, ~late, [Next]_vars
  PROVE  ~late'
<1> USE DEF txVars, dbVars
<1>1. CASE Quiet
  BY <1>1 DEF Quiet
<1>2. ASSUME NEW r \in Requests, Commit(r)
      PROVE  ~late'
  <2>1. pc[r] = "saving" /\ Wanted(r) \subseteq Held(r) /\ Wanted(r) \subseteq Products
    BY <1>2, CheckoutAssumption
       DEF Commit, LeaseInv, HoldsAll, InTransaction, Saving, TypeOK, Wanted
  <2>2. \A p \in Wanted(r) : owner[p] = r
    BY <2>1 DEF LeaseInv, LeasesHold, Held
  <2> QED
    BY <1>2, <2>2 DEF Commit
<1>3. ASSUME NEW r \in Requests, ReadAccept(r) \/ CompareRows(r) \/ RolledBack(r)
      PROVE  ~late'
  BY <1>3 DEF ReadAccept, CompareRows, RolledBack
<1>4. ASSUME NEW r \in Requests, NEW p \in Products, SaveRow(r, p)
      PROVE  ~late'
  BY <1>4 DEF SaveRow
<1> QED
  BY <1>1, <1>2, <1>3, <1>4, TransactionSteps

CheckoutInv ==
    TypeOK /\ TransactionShape /\ Balance /\ LeaseInv /\ (~SlowHolders => ~late)

LEMMA CheckoutInvariant == Spec => []CheckoutInv
<1>1. Init => CheckoutInv
  <2> SUFFICES ASSUME Init PROVE CheckoutInv
    OBVIOUS
  <2>1. TransactionShape
    BY DEF Init, TransactionShape, Saving
  <2>2. Balance
    BY CheckoutAssumption DEF Init, Balance, Saving, StockConserved, Stocked
  <2>3. LeaseInv
    BY DEF Init, Lease!LeaseInit, LeaseInv, HoldsAll, LeasesHold, InTransaction, Saving
  <2> QED
    BY <2>1, <2>2, <2>3, TypeInit DEF Init, CheckoutInv
<1>2. CheckoutInv /\ [Next]_vars => CheckoutInv'
  BY TypeKept, ShapeKept, BalanceKept, LeaseInvKept, NeverLate DEF CheckoutInv
<1> QED
  BY <1>1, <1>2, PTL DEF Spec

\* No order's decrement of the inventory is lost (createOrderInternal's
\* read-check-save) unless some order was committed without its leases.
THEOREM NoLossBeforeLateCommit == Spec => []LossNeedsLateCommit
<1>1. CheckoutInv => LossNeedsLateCommit
  BY DEF CheckoutInv, Balance, LossNeedsLateCommit, TypeOK
<1> QED
  BY <1>1, CheckoutInvariant, PTL

\* What createOrderInternal computed from a row is right for as long as it
\* owns the row's lease, up to the first late commit: the version mismatch
\* that its retry loop waits for, and that save() never reports, cannot
\* concern an order that still owns its leases.
THEOREM NoStaleReadUnderLease == Spec => []StaleReadsLostTheirLease
<1>1. CheckoutInv => StaleReadsLostTheirLease
  <2> SUFFICES ASSUME CheckoutInv, NEW r \in Requests, pc[r] \in Saving,
                      NEW p \in Wanted(r), owner[p] = r, ~late
               PROVE  mem[r][p] + cart[r][p] = stock[p]
    BY DEF CheckoutInv, TypeOK, StaleReadsLostTheirLease
  <2>1. p \in Products
    BY CheckoutAssumption DEF CheckoutInv, TypeOK, Wanted
  <2> QED
    BY <2>1 DEF CheckoutInv, Balance, UpToDate
<1> QED
  BY <1>1, CheckoutInvariant, PTL

\* If no lease runs out under a live holder, every unit of stock is either in
\* the inventory or in exactly one order, whatever crashes, aborts, times out
\* or is lost on the way.
THEOREM ConservedInTime == ASSUME ~SlowHolders PROVE Spec => []StockConserved
<1>1. CheckoutInv => StockConserved
  BY DEF CheckoutInv, Balance
<1> QED
  BY <1>1, CheckoutInvariant, PTL

\* If no lease runs out under a live holder, transactions that are open at the
\* same time have no product in common.
THEOREM ExclusiveInTime == ASSUME ~SlowHolders PROVE Spec => []ExclusiveTransactions
<1>1. CheckoutInv => ExclusiveTransactions
  <2> SUFFICES ASSUME CheckoutInv, NEW r \in Requests, NEW s \in Requests,
                      pc[r] \in InTransaction, pc[s] \in InTransaction,
                      NEW p \in Wanted(r) \cap Wanted(s)
               PROVE  r = s
    BY DEF ExclusiveTransactions
  <2>1. p \in Products /\ <<p, r>> \in believers /\ <<p, s>> \in believers
    BY CheckoutAssumption DEF CheckoutInv, LeaseInv, HoldsAll, Held, Wanted, TypeOK
  <2> QED
    BY <2>1 DEF CheckoutInv, LeaseInv, LeasesHold
<1> QED
  BY <1>1, CheckoutInvariant, PTL

-----------------------------------------------------------------------------
(* Refusals are final *)

\* Late commits only ever leave more stock than there should be: stock and
\* orders, and what a transaction is about to write with its own order, never
\* add up to less than there was.
NeverShort ==
    /\ \A p \in Stocked : stock[p] + sold[p] >= InitialStock[p]
    /\ \A r \in Requests, p \in Stocked :
        pc[r] \in Saving /\ p \in Wanted(r)
            => mem[r][p] + cart[r][p] + sold[p] >= InitialStock[p]

LEMMA NeverShortKept ==
  ASSUME TypeOK, TypeOK', TransactionShape, NeverShort, [Next]_vars
  PROVE  NeverShort' /\ \A p \in Stocked : sold'[p] >= sold[p]
<1> USE DEF txVars, dbVars, leaseVars, Goto, Throw, Tell, Wanted, Saving
<1> DEFINE Goal == NeverShort' /\ \A p \in Stocked : sold'[p] >= sold[p]
<1>0. \A p \in Stocked : sold[p] \in Nat /\ stock[p] \in Nat /\ InitialStock[p] \in Nat
  BY CheckoutAssumption DEF TypeOK, Stocked
<1>1. ASSUME sold' = sold, stock' = stock, cart' = cart,
             \A s \in Requests : pc'[s] \in Saving => pc[s] \in Saving /\ mem'[s] = mem[s]
      PROVE  Goal
  BY <1>0, <1>1 DEF NeverShort, Stocked
<1>2. CASE Quiet
  BY <1>1, <1>2 DEF Quiet
<1>3. ASSUME NEW r \in Requests, NEW p \in Products, SaveRow(r, p)
      PROVE  Goal
  BY <1>1, <1>3 DEF SaveRow
<1>4. ASSUME NEW r \in Requests, RolledBack(r)
      PROVE  Goal
  BY <1>1, <1>4 DEF RolledBack, EndTransaction, InTransaction, TypeOK
<1>5. ASSUME NEW r \in Requests, ReadAccept(r)
      PROVE  Goal
  <2>1. UNCHANGED <<cart, stock, sold>>
    BY <1>5 DEF ReadAccept
  <2>2. ASSUME NEW s \in Requests, NEW p \in Stocked, pc'[s] \in Saving, p \in Wanted(s)'
        PROVE  mem'[s][p] + cart[s][p] + sold[p] >= InitialStock[p]
    <3>1. CASE s # r
      <4>1. pc[s] \in Saving /\ p \in Wanted(s) /\ mem'[s] = mem[s]
        BY <1>5, <2>2, <3>1 DEF ReadAccept, TypeOK
      <4> QED
        BY <4>1 DEF NeverShort
    <3>2. CASE s = r
      <4>1. cart[r][p] \in Nat /\ mem'[r][p] = stock[p] - cart[r][p]
        BY <1>5, <2>2, <3>2, CheckoutAssumption DEF ReadAccept, TypeOK, Stocked
      <4> QED
        BY <1>0, <3>2, <4>1 DEF NeverShort
    <3> QED
      BY <3>1, <3>2
  <2> QED
    BY <1>0, <2>1, <2>2 DEF NeverShort, Stocked
<1>6. ASSUME NEW r \in Requests, Commit(r)
      PROVE  Goal
  <2>1. ASSUME NEW p \in Stocked PROVE sold'[p] >= sold[p]
    <3>1. CASE p \in Wanted(r)
      <4>1. cart[r][p] \in Nat /\ sold'[p] = sold[p] + cart[r][p]
        BY <1>6, <3>1, CheckoutAssumption DEF Commit, TypeOK
      <4> QED
        BY <1>0, <4>1
    <3>2. CASE p \notin Wanted(r)
      BY <1>0, <1>6, <3>2 DEF Commit
    <3> QED
      BY <3>1, <3>2
  <2>2. ASSUME NEW p \in Stocked PROVE stock'[p] + sold'[p] >= InitialStock[p]
    <3>1. CASE p \in written[r]
      <4>1. p \in Wanted(r) /\ pc[r] = "saving" /\ p \in Products
        BY <1>6, <3>1, CheckoutAssumption DEF TransactionShape, Commit, Stocked
      <4>2. stock'[p] = mem[r][p] /\ sold'[p] = sold[p] + cart[r][p]
        BY <1>6, <3>1, <4>1 DEF Commit
      <4>3. mem[r][p] \in Nat /\ cart[r][p] \in Nat
        BY <4>1, CheckoutAssumption DEF TypeOK
      <4>4. mem[r][p] + cart[r][p] + sold[p] >= InitialStock[p]
        BY <4>1 DEF NeverShort
      <4> QED
        BY <1>0, <4>2, <4>3, <4>4
    <3>2. CASE p \notin written[r]
      <4>1. stock'[p] = stock[p] /\ sold'[p] \in Nat
        BY <1>6, <3>2 DEF Commit, TypeOK
      <4> QED
        BY <1>0, <2>1, <4>1 DEF NeverShort
    <3> QED
      BY <3>1, <3>2
  <2>3. ASSUME NEW s \in Requests, NEW p \in Stocked, pc'[s] \in Saving, p \in Wanted(s)'
        PROVE  mem'[s][p] + cart'[s][p] + sold'[p] >= InitialStock[p]
    <3>1. s # r /\ pc[s] \in Saving /\ p \in Wanted(s) /\ mem'[s] = mem[s] /\ cart' = cart
      BY <1>6, <2>3 DEF Commit, EndTransaction, TypeOK
    <3>2. mem[s][p] \in Nat /\ cart[s][p] \in Nat /\ sold'[p] \in Nat
      BY <3>1, CheckoutAssumption DEF TypeOK, Stocked
    <3>3. mem[s][p] + cart[s][p] + sold[p] >= InitialStock[p]
      BY <3>1 DEF NeverShort
    <3> QED
      BY <1>0, <2>1, <3>1, <3>2, <3>3
  <2> QED
    BY <2>1, <2>2, <2>3 DEF NeverShort, Stocked
<1>7. ASSUME NEW r \in Requests, CompareRows(r)
      PROVE  Goal
  BY <1>1, <1>7 DEF CompareRows, TypeOK
<1> QED
  BY <1>2, <1>3, <1>4, <1>5, <1>6, <1>7, TransactionSteps

\* Only the check of the transaction, and an empty cart, reject an order.
LEMMA RejectSteps ==
  ASSUME TypeOK, [Next]_vars, NEW r \in Requests, outcome'[r] = "rejected"
  PROVE  outcome[r] = "rejected" \/ ReadReject(r) \/ Wanted(r) = {}
<1> USE DEF leaseVars, txVars, dbVars, Goto, Tell, Throw, TypeOK
<1>1. CASE UNCHANGED vars
  BY <1>1 DEF vars
<1>2. ASSUME NEW s \in Requests,
             \/ Start(s) \/ AcquireError(s) \/ Retry(s) \/ LockTimeout(s)
             \/ ReadReject(s) \/ ReadAccept(s) \/ CompareRows(s) \/ Finish(s) \/ Crash(s)
      PROVE  outcome[r] = "rejected" \/ ReadReject(r) \/ Wanted(r) = {}
  <2>1. CASE s = r
    BY <1>2, <2>1 DEF Start, AcquireError, Retry, LockTimeout, ReadReject,
                      ReadAccept, CompareRows, Finish, Crash
  <2>2. CASE s # r
    <3>1. outcome'[r] = outcome[r]
      BY <1>2, <2>2 DEF Start, AcquireError, Retry, LockTimeout, ReadReject,
                        ReadAccept, CompareRows, Finish, Crash
    <3> QED
      BY <3>1
  <2> QED
    BY <2>1, <2>2
<1>3. ASSUME NEW s \in Requests, Commit(s) \/ TxAborts(s) \/ DeadlockVictim(s)
      PROVE  outcome[r] = "rejected"
  <2>1. Commit(s) \/ TxAborts(s)
    BY <1>3 DEF DeadlockVictim
  <2> QED
    BY <2>1 DEF Commit, TxAborts
<1>4. ASSUME NEW s \in Requests, NEW p \in Products,
             AcquireOk(s, p) \/ AcquireNil(s, p) \/ AcquireReplyLost(s, p)
      PROVE  outcome[r] = "rejected"
  BY <1>4 DEF AcquireOk, AcquireNil, AcquireReplyLost
<1>5. ASSUME NEW s \in Requests, NEW p \in Products,
             SaveRow(s, p) \/ Release(s, p) \/ ReleaseLost(s, p)
      PROVE  outcome[r] = "rejected"
  BY <1>5 DEF SaveRow, Release, ReleaseLost
<1>6. ASSUME NEW p \in Products, LeaseRunsOut(p)
      PROVE  outcome[r] = "rejected"
  BY <1>6 DEF LeaseRunsOut
<1> QED
  BY <1>1, <1>2, <1>3, <1>4, <1>5, <1>6
     DEF Next, Progress, Failure, AcquireStep, SaveStep, ReleaseStep

LEMMA CartsKept == ASSUME [Next]_vars PROVE cart' = cart
<1>1. ASSUME NEW r \in Requests, Start(r) \/ Progress(r)
      PROVE  cart' = cart
  BY <1>1 DEF Start, Progress, AcquireStep, SaveStep, ReleaseStep, AcquireOk, AcquireNil,
              Retry, ReadAccept, ReadReject, CompareRows, SaveRow, Commit, Release, Finish
<1>2. ASSUME NEW r \in Requests, Failure(r)
      PROVE  cart' = cart
  BY <1>2 DEF Failure, AcquireReplyLost, ReleaseLost, AcquireError, LockTimeout,
              DeadlockVictim, TxAborts, Crash
<1> QED
  BY <1>1, <1>2 DEF Next, vars, LeaseRunsOut

\* A request refused for lack of stock, or of an inventory row, asks for more
\* than all committed orders will ever leave; this needs no assumption on how
\* long leases last.
THEOREM RefusalsFinal == Spec => []RefusedForGood
<1> DEFINE IInv == CheckoutInv /\ NeverShort /\ RefusedForGood
<1>1. Init => NeverShort /\ RefusedForGood
  <2> SUFFICES ASSUME Init PROVE NeverShort /\ RefusedForGood
    OBVIOUS
  <2>1. \A p \in Stocked : stock[p] = InitialStock[p] /\ sold[p] = 0 /\ InitialStock[p] \in Nat
    BY CheckoutAssumption DEF Init, Stocked
  <2> QED
    BY <2>1 DEF Init, NeverShort, Saving, RefusedForGood
<1>2. CheckoutInv /\ CheckoutInv' /\ NeverShort /\ RefusedForGood /\ [Next]_vars
        => NeverShort' /\ RefusedForGood'
  <2> SUFFICES ASSUME CheckoutInv, CheckoutInv', NeverShort, RefusedForGood, [Next]_vars
               PROVE  NeverShort' /\ RefusedForGood'
    OBVIOUS
  <2>1. TypeOK /\ TypeOK' /\ TransactionShape
    BY DEF CheckoutInv
  <2>2. NeverShort' /\ \A p \in Stocked : sold'[p] >= sold[p]
    BY <2>1, NeverShortKept
  <2>3. ASSUME NEW r \in Requests, outcome'[r] = "rejected", Wanted(r)' # {}
        PROVE  \E p \in Wanted(r) :
                    p \in Stocked => cart[r][p] + sold'[p] > InitialStock[p]
    <3>0. \A p \in Stocked : /\ sold[p] \in Nat /\ sold'[p] \in Nat
                           /\ stock[p] \in Nat /\ InitialStock[p] \in Nat
      BY <2>1, CheckoutAssumption DEF TypeOK, Stocked
    <3>1. \A p \in Wanted(r) : cart[r][p] \in Nat
      BY <2>1, CheckoutAssumption DEF TypeOK, Wanted
    <3>2. Wanted(r) # {}
      BY <2>3, CartsKept DEF Wanted
    <3>3. \E p \in Wanted(r) : p \in Stocked => cart[r][p] + sold[p] > InitialStock[p]
      <4>1. CASE outcome[r] = "rejected"
        BY <3>2, <4>1 DEF RefusedForGood
      <4>2. CASE ReadReject(r)
        <5>1. PICK p \in Wanted(r) : p \in Stocked => ~(cart[r][p] <= stock[p])
          BY <4>2 DEF ReadReject, Available
        <5>2. p \in Stocked => stock[p] + sold[p] >= InitialStock[p]
          BY DEF NeverShort
        <5>3. p \in Stocked => cart[r][p] + sold[p] > InitialStock[p]
          BY <3>0, <3>1, <5>1, <5>2
        <5> QED
          BY <5>3
      <4> QED
        BY <2>1, <2>3, <3>2, <4>1, <4>2, RejectSteps
    <3>4. PICK p \in Wanted(r) : p \in Stocked => cart[r][p] + sold[p] > InitialStock[p]
      BY <3>3
    <3>5. p \in Stocked => cart[r][p] + sold'[p] > InitialStock[p]
      BY <2>2, <3>0, <3>1, <3>4
    <3> QED
      BY <3>5
  <2>4. RefusedForGood'
    BY <2>3, CartsKept DEF RefusedForGood, Wanted
  <2> QED
    BY <2>2, <2>4
<1> QED
  BY <1>1, <1>2, CheckoutInvariant, PTL DEF Spec

-----------------------------------------------------------------------------
(* No call ends with a lease in its hands *)

LEMMA EndedKept ==
  ASSUME TypeOK, EndedHoldsNothing, [Next]_vars
  PROVE  EndedHoldsNothing'
<1> USE DEF TypeOK, leaseVars, txVars, dbVars, Goto, Throw, Tell, Held, Wanted, Ended
\* Nobody ends and nobody gains a lease.
<1>1. ASSUME cart' = cart, believers' \subseteq believers,
             \A s \in Requests : pc'[s] \in Ended => pc[s] \in Ended
      PROVE  EndedHoldsNothing'
  BY <1>1 DEF EndedHoldsNothing
<1>2. CASE UNCHANGED vars
  BY <1>1, <1>2 DEF vars
<1>3. ASSUME NEW r \in Requests,
             \/ AcquireError(r) \/ Retry(r) \/ LockTimeout(r) \/ ReadAccept(r) \/ CompareRows(r)
             \/ ReadReject(r) \/ Commit(r) \/ TxAborts(r) \/ DeadlockVictim(r)
      PROVE  EndedHoldsNothing'
  <2>1. \/ AcquireError(r) \/ Retry(r) \/ LockTimeout(r) \/ ReadAccept(r) \/ CompareRows(r)
        \/ ReadReject(r) \/ Commit(r) \/ TxAborts(r)
    BY <1>3 DEF DeadlockVictim
  <2>2. UNCHANGED <<cart, believers>>
    BY <2>1 DEF AcquireError, Retry, LockTimeout, ReadAccept, CompareRows,
                ReadReject, Commit, TxAborts
  <2>3. \A s \in Requests : pc'[s] \in Ended => pc[s] \in Ended
    BY <2>1 DEF AcquireError, Retry, LockTimeout, ReadAccept, CompareRows,
                ReadReject, Commit, TxAborts
  <2> QED
    BY <1>1, <2>2, <2>3
<1>4. ASSUME NEW r \in Requests, NEW p \in Products,
             AcquireNil(r, p) \/ AcquireReplyLost(r, p) \/ SaveRow(r, p)
      PROVE  EndedHoldsNothing'
  BY <1>1, <1>4 DEF AcquireNil, AcquireReplyLost, SaveRow, Lease!GrantUnheard
<1>5. ASSUME NEW r \in Requests, NEW p \in Products, Release(r, p) \/ ReleaseLost(r, p)
      PROVE  EndedHoldsNothing'
  BY <1>1, <1>5 DEF Release, ReleaseLost, Lease!GiveBack, Lease!Abandon
<1>6. ASSUME NEW p \in Products, LeaseRunsOut(p)
      PROVE  EndedHoldsNothing'
  BY <1>1, <1>6 DEF LeaseRunsOut, Lease!Lapse
<1>7. ASSUME NEW r \in Requests, NEW p \in Products, AcquireOk(r, p)
      PROVE  EndedHoldsNothing'
  <2>1. cart' = cart /\ believers' = believers \cup {<<p, r>>}
    BY <1>7 DEF AcquireOk, Lease!Grant
  <2>2. pc'[r] \notin Ended /\ \A s \in Requests \ {r} : pc'[s] = pc[s]
    BY <1>7 DEF AcquireOk
  <2> QED
    BY <2>1, <2>2 DEF EndedHoldsNothing
<1>8. ASSUME NEW r \in Requests, Start(r) \/ Finish(r) \/ Crash(r)
      PROVE  EndedHoldsNothing'
  <2>1. cart' = cart /\ believers' \subseteq believers
    BY <1>8 DEF Start, Finish, Crash, Lease!Abandon
  <2>2. \A s \in Requests \ {r} : pc'[s] = pc[s]
    BY <1>8 DEF Start, Finish, Crash
  <2>3. pc'[r] \in Ended => Held(r)' = {}
    <3>1. CASE Start(r)
      BY <3>1 DEF Start
    <3>2. CASE Finish(r)
      BY <3>2 DEF Finish
    <3>3. CASE Crash(r)
      BY <3>3 DEF Crash, Lease!Abandon
    <3> QED
      BY <1>8, <3>1, <3>2, <3>3
  <2> QED
    BY <2>1, <2>2, <2>3 DEF EndedHoldsNothing
<1> QED
  BY <1>2, <1>3, <1>4, <1>5, <1>6, <1>7, <1>8
     DEF Next, Progress, Failure, AcquireStep, SaveStep, ReleaseStep

\* When create has returned or thrown, every lease in acquiredLocks was given
\* back or its release was attempted: the finally block skips none of them.
THEOREM NothingHeldAtTheEnd == Spec => []EndedHoldsNothing
<1>1. Init => EndedHoldsNothing
  BY DEF Init, Lease!LeaseInit, EndedHoldsNothing, Held
<1> QED
  BY <1>1, EndedKept, TypeCorrect, PTL DEF Spec

-----------------------------------------------------------------------------
(* The checkout implements the stock ledger *)

\* If no lease runs out under a live holder, each step of the checkout sells
\* one whole cart out of what is in stock, or changes neither stock nor orders.
THEOREM CheckoutImplementsLedger == ASSUME ~SlowHolders PROVE Spec => ImplementsLedger
<1>1. Init => Ledger!LedgerInit
  BY DEF Init, Ledger!LedgerInit
<1>2. CheckoutInv /\ [Next]_vars => [Ledger!LedgerNext]_(Ledger!ledgerVars)
  <2> SUFFICES ASSUME CheckoutInv, [Next]_vars,
                      ~ UNCHANGED <<stock, sold>>
               PROVE  Ledger!LedgerNext
    BY DEF Ledger!ledgerVars
  <2>1. PICK r \in Requests : Commit(r)
    BY TransactionSteps DEF CheckoutInv, Quiet, ReadAccept, CompareRows, RolledBack, SaveRow, dbVars
  <2>2. pc[r] = "saving" /\ todo[r] = {} /\ ~late
    BY <2>1 DEF Commit, CheckoutInv
  <2>3. ASSUME NEW p \in Wanted(r)
        PROVE  /\ p \in Stocked /\ cart[r][p] \in Nat /\ stock[p] \in Nat
               /\ cart[r][p] <= stock[p]
               /\ stock'[p] = stock[p] - cart[r][p]
    <3>1. p \in Stocked /\ p \in Products /\ written[r] \subseteq Wanted(r)
      BY <2>2, CheckoutAssumption DEF CheckoutInv, TransactionShape, Saving, TypeOK, Wanted
    <3>2. owner[p] = r
      BY <2>2, <3>1 DEF CheckoutInv, LeaseInv, HoldsAll, LeasesHold, Held, InTransaction, Saving
    <3>3. cart[r][p] \in Nat /\ stock[p] \in Nat /\ mem[r][p] \in Nat
      BY <3>1, CheckoutAssumption DEF CheckoutInv, TypeOK, Wanted
    <3>4. UpToDate(r, p)
      BY <2>2, <3>1 DEF CheckoutInv, Balance, Saving
    <3>5. stock'[p] = mem[r][p] /\ mem[r][p] + cart[r][p] = stock[p]
      BY <2>1, <2>2, <3>1, <3>2, <3>4 DEF Commit, UpToDate
    <3> QED
      BY <3>1, <3>3, <3>5
  <2>4. ASSUME NEW p \in Stocked, p \notin Wanted(r)
        PROVE  stock'[p] = stock[p] /\ sold'[p] = sold[p]
    BY <2>1, <2>4 DEF Commit, CheckoutInv, TransactionShape
  <2>5. stock' = [p \in Stocked |-> stock[p] - Ledger!Taken(cart[r], p)]
    <3>1. stock' = [p \in Stocked |-> stock'[p]]
      BY <2>1 DEF Commit
    <3>2. \A p \in Stocked : stock[p] \in Nat
      BY DEF CheckoutInv, TypeOK
    <3> QED
      BY <2>3, <2>4, <3>1, <3>2 DEF Ledger!Taken, Wanted
  <2>6. sold' = [p \in Stocked |-> sold[p] + Ledger!Taken(cart[r], p)]
    <3>1. \A p \in Stocked : sold[p] \in Nat
      BY DEF CheckoutInv, TypeOK
    <3> QED
      BY <2>1, <3>1 DEF Commit, Ledger!Taken, Wanted
  <2>7. Ledger!Sell(cart[r])
    BY <2>3, <2>5, <2>6 DEF Ledger!Sell, Wanted
  <2> QED
    BY <2>7 DEF Ledger!LedgerNext, CheckoutInv, TypeOK
<1> QED
  BY <1>1, <1>2, CheckoutInvariant, PTL DEF Spec, ImplementsLedger, Ledger!LedgerSpec

-----------------------------------------------------------------------------
(* No leases are waited for in a circle *)

\* While a request takes its leases, those it has come before those it lacks.
InOrder(r) == \A p \in Held(r), q \in Wanted(r) \ Held(r) : p < q

OrderInv == \A r \in Requests : pc[r] \in {"idle"} \cup Acquiring => InOrder(r)

LEMMA OrderInit == Init => OrderInv
BY DEF Init, Lease!LeaseInit, OrderInv, InOrder, Held

LEMMA OrderKept == TypeOK /\ OrderInv /\ [Next]_vars => OrderInv'
<1> SUFFICES ASSUME TypeOK, OrderInv, [Next]_vars
             PROVE  OrderInv'
  OBVIOUS
<1> USE DEF TypeOK, Acquiring, leaseVars, Goto, Throw, Tell
<1>1. cart' = cart
  BY CartsKept
\* The leases of a request that keeps taking them, or begins to.
<1>2. ASSUME NEW s \in Requests, pc[s] \in {"idle"} \cup Acquiring, Held(s)' = Held(s)
      PROVE  InOrder(s)'
  BY <1>1, <1>2 DEF OrderInv, InOrder, Wanted
\* What a step of r does to the leases of another request: nothing.
<1>3. ASSUME NEW r \in Requests, \A s \in Requests \ {r} : pc'[s] = pc[s] /\ Held(s)' = Held(s),
             pc'[r] \in {"idle"} \cup Acquiring => InOrder(r)'
      PROVE  OrderInv'
  BY <1>2, <1>3 DEF OrderInv
<1>4. ASSUME believers' = believers,
             \A s \in Requests : pc'[s] \in {"idle"} \cup Acquiring => pc[s] \in {"idle"} \cup Acquiring
      PROVE  OrderInv'
  BY <1>1, <1>2, <1>4 DEF OrderInv, Held, Wanted
<1>5. CASE UNCHANGED vars
  BY <1>4, <1>5 DEF vars
<1>6. ASSUME NEW r \in Requests,
             \/ Start(r) \/ AcquireError(r) \/ Retry(r) \/ LockTimeout(r)
             \/ ReadAccept(r) \/ CompareRows(r)
             \/ ReadReject(r) \/ Commit(r) \/ TxAborts(r) \/ Finish(r)
      PROVE  OrderInv'
  <2>1. believers' = believers
    BY <1>6 DEF Start, AcquireError, Retry, LockTimeout,
                ReadAccept, CompareRows, ReadReject, Commit, TxAborts, Finish
  <2>2. \A s \in Requests : pc'[s] \in {"idle"} \cup Acquiring => pc[s] \in {"idle"} \cup Acquiring
    BY <1>6 DEF Start, AcquireError, Retry, LockTimeout,
                ReadAccept, CompareRows, ReadReject, Commit, TxAborts, Finish
  <2> QED
    BY <1>4, <2>1, <2>2
<1>7. ASSUME NEW r \in Requests, NEW p \in Products,
             AcquireNil(r, p) \/ AcquireReplyLost(r, p) \/ SaveRow(r, p)
      PROVE  OrderInv'
  BY <1>4, <1>7 DEF AcquireNil, AcquireReplyLost, SaveRow, Lease!GrantUnheard
<1>8. ASSUME NEW p \in Products, LeaseRunsOut(p)
      PROVE  OrderInv'
  BY <1>4, <1>8 DEF LeaseRunsOut, Lease!Lapse
<1>9. ASSUME NEW r \in Requests, NEW p \in Products, Release(r, p) \/ ReleaseLost(r, p)
      PROVE  OrderInv'
  <2>1. pc' = pc /\ pc[r] = "releasing" /\ believers' = believers \ {<<p, r>>}
    BY <1>9 DEF Release, ReleaseLost, Lease!GiveBack, Lease!Abandon
  <2>2. \A s \in Requests \ {r} : Held(s)' = Held(s)
    BY <1>1, <2>1 DEF Held, Wanted
  <2> QED
    BY <1>3, <2>1, <2>2
<1>10. ASSUME NEW r \in Requests, Crash(r)
       PROVE  OrderInv'
  <2>1. pc' = [pc EXCEPT ![r] = "crashed"] /\ believers' = believers \ {<<p, r>> : p \in Held(r)}
    BY <1>10 DEF Crash, Lease!Abandon
  <2>2. \A s \in Requests \ {r} : pc'[s] = pc[s] /\ Held(s)' = Held(s)
    BY <1>1, <2>1 DEF Held, Wanted
  <2> QED
    BY <1>3, <2>1, <2>2
<1>11. ASSUME NEW r \in Requests, NEW p \in Products, AcquireOk(r, p)
       PROVE  OrderInv'
  <2>1. /\ pc[r] = "locking" /\ IsNext(r, p) /\ believers' = believers \cup {<<p, r>>}
        /\ \A s \in Requests \ {r} : pc'[s] = pc[s]
    BY <1>11 DEF AcquireOk, Lease!Grant
  <2>2. \A s \in Requests \ {r} : Held(s)' = Held(s)
    BY <1>1, <2>1 DEF Held, Wanted
  <2>3. Held(r)' = Held(r) \cup {p} /\ Wanted(r)' = Wanted(r)
    BY <1>1, <2>1 DEF Held, Wanted, IsNext
  <2>4. InOrder(r)'
    <3>1. InOrder(r)
      BY <2>1 DEF OrderInv
    <3>2. Wanted(r) \subseteq Nat /\ p \in Nat
      BY CheckoutAssumption DEF Wanted
    <3>3. ASSUME NEW h \in Held(r) \cup {p}, NEW q \in Wanted(r) \ (Held(r) \cup {p})
          PROVE  h < q
      <4>1. h \in Held(r) => h < q
        BY <3>1, <3>3 DEF InOrder
      <4>2. p <= q /\ q # p /\ q \in Nat
        BY <2>1, <3>2, <3>3 DEF IsNext
      <4> QED
        BY <3>2, <4>1, <4>2
    <3> QED
      BY <2>3, <3>3 DEF InOrder
  <2> QED
    BY <1>3, <2>1, <2>2, <2>4
<1> QED
  BY <1>5, <1>6, <1>7, <1>8, <1>9, <1>10, <1>11
     DEF Next, Progress, Failure, AcquireStep, SaveStep, ReleaseStep, DeadlockVictim

\* Some element of a set of products comes after all the others: the one with
\* the fewest products behind it.
LEMMA LastProduct ==
  ASSUME NEW S \in SUBSET Products, S # {}
  PROVE  \E m \in S : \A q \in S : q <= m
<1> DEFINE Behind(p) == {q \in Products : p < q}
           Less == {n \in Nat \X Nat : n[1] < n[2]}
           Sizes == {Cardinality(Behind(p)) : p \in S}
<1>1. Products \subseteq Nat /\ IsFiniteSet(Products)
  BY CheckoutAssumption
<1>2. \A p \in Products : IsFiniteSet(Behind(p)) /\ Cardinality(Behind(p)) \in Nat
  BY <1>1, FS_Subset, FS_CardinalityType
<1>3. IsWellFoundedOn(Less, Nat)
  BY NatLessThanWellFounded DEF OpToRel
<1>4. Sizes \subseteq Nat /\ Sizes # {}
  BY <1>2
<1>5. PICK n \in Sizes : \A k \in Sizes : <<k, n>> \notin Less
  <2> HIDE DEF Sizes, Less
  <2> QED
    BY <1>3, <1>4, WFMin
<1>6. PICK m \in S : n = Cardinality(Behind(m))
  BY <1>5
<1>7. ASSUME NEW q \in S, m < q
      PROVE  FALSE
  <2>1. Behind(q) \subseteq Behind(m) /\ q \in Behind(m) /\ q \notin Behind(q)
    <3>1. q \in Nat /\ m \in Nat /\ q \in Products
      BY <1>1
    <3>2. ASSUME NEW p \in Products, q < p
          PROVE  m < p
      <4>1. p \in Nat
        BY <1>1
      <4> QED
        BY <1>7, <3>1, <3>2, <4>1
    <3>3. ~(q < q)
      BY <3>1
    <3> QED
      BY <1>7, <3>1, <3>2, <3>3
  <2>2. /\ Cardinality(Behind(q)) <= Cardinality(Behind(m))
        /\ Cardinality(Behind(q)) # Cardinality(Behind(m))
    <3>1. Behind(q) \in SUBSET Behind(m) /\ IsFiniteSet(Behind(m)) /\ Behind(q) # Behind(m)
      BY <1>2, <2>1
    <3> HIDE DEF Behind
    <3> QED
      BY <3>1, FS_Subset
  <2>3. Cardinality(Behind(q)) \in Sizes /\ Cardinality(Behind(q)) \in Nat /\ n \in Nat
    BY <1>2, <1>4, <1>5
  <2>4. <<Cardinality(Behind(q)), n>> \in Less
    BY <1>6, <2>2, <2>3
  <2> QED
    BY <1>5, <2>3, <2>4
<1> QED
  BY <1>1, <1>7

\* For any number of requests, with leases that may run out at any moment: no
\* requests wait for each other's leases in a circle.  The one whose next
\* product comes last waits for a request that is still to take a later one.
THEOREM NoCircularWait == Spec => []NoLeaseCycle
<1>1. ASSUME TypeOK, OrderInv
      PROVE  NoLeaseCycle
  <2> DEFINE Waits(r, p, D) ==
               /\ pc[r] \in Acquiring /\ p \in Wanted(r) /\ IsNext(r, p)
               /\ \E s \in D : owner[p] = s /\ p \in Held(s)
  <2> SUFFICES ASSUME NEW D \in (SUBSET Requests) \ {{}},
                      \A r \in D : \E p \in Wanted(r) : Waits(r, p, D)
               PROVE  FALSE
    BY DEF NoLeaseCycle
  <2> DEFINE Awaited == {p \in Products : \E r \in D : Waits(r, p, D)}
  <2>1. \A r \in D : Wanted(r) \subseteq Products
    <3>1. ASSUME NEW r \in D
          PROVE  cart[r] \in Carts
      BY <1>1 DEF TypeOK
    <3> QED
      BY <3>1, CheckoutAssumption DEF Wanted
  <2>2. Awaited # {} /\ Awaited \subseteq Products
    BY <2>1
  <2>3. PICK m \in Awaited : \A q \in Awaited : q <= m
    <3> HIDE DEF Awaited
    <3> QED
      BY <2>2, LastProduct
  <2>4. PICK s \in D : m \in Held(s)
    BY <2>3
  <2>5. PICK q \in Wanted(s) : Waits(s, q, D)
    BY <2>4
  <2>6. m < q
    BY <1>1, <2>4, <2>5 DEF OrderInv, InOrder, IsNext
  <2>7. q <= m /\ q \in Nat /\ m \in Nat
    BY <2>1, <2>3, <2>5, CheckoutAssumption
  <2> QED
    BY <2>6, <2>7
<1> QED
  BY <1>1, TypeCorrect, OrderInit, OrderKept, TypeInit, TypeKept, PTL DEF Spec

=============================================================================
