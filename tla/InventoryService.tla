-------------------------- MODULE InventoryService ---------------------------
(***************************************************************************)
(* InventoryService, as concurrent calls on the inventory of one product:  *)
(* decreaseStockOptimistic (read, then an UPDATE guarded by the version it *)
(* read and by the quantity, at most MaxRetries times), update (read, then *)
(* save), remove (read, then delete) and create.  Beside them runs what    *)
(* OrderService.create does to the row: read, subtract, save, under a      *)
(* lease that only other orders respect and that is taken to last.         *)
(*                                                                         *)
(* Every statement is one step, the COMMIT of a transaction with its last. *)
(* save() looks the row up by its id; it then inserts the row if it was    *)
(* gone, and otherwise updates the columns that differed, without          *)
(* comparing versions and without asking how many rows it hit.  The        *)
(* version it leaves behind when the entity was stale is either the next   *)
(* one or the entity's own.                                                *)
(***************************************************************************)
EXTENDS Integers, FiniteSets

CONSTANTS
    Callers,
    Calls,         \* what a caller may ask: [op, id, n]
    FirstId,       \* the id of the inventory that exists at the start
    FirstQuantity,
    NoRow,
    MaxRetries

\* randomUUID: the id of a row that caller c creates is called c.
Ids == {FirstId} \cup Callers

Ops == {"decrease", "update", "remove", "create", "order"}

\* An order names a product; its id is that of the row it finds.
Call == [op : Ops, id : Ids, n : Nat]

ASSUME InventoryAssumption ==
    /\ IsFiniteSet(Callers)
    /\ FirstId \notin Callers
    /\ Calls \subseteq Call
    /\ FirstQuantity \in Nat
    /\ MaxRetries \in Nat \ {0}
    /\ NoRow \notin [qty : Nat, version : Nat]

VARIABLES
    table,      \* the inventories, by id
    call,       \* what each caller asks
    pc,
    attempt,    \* of decreaseStockOptimistic
    seen,       \* the entity the call has read
    stored,     \* the row that save() compares it with
    result,     \* what the caller is told
    taken,      \* ghost: how often the UPDATE of this call took its quantity
    sold,       \* ghost: all that was ever taken
    beside,     \* ghost: what was taken while an order stood before its save
    others      \* ghost: writes of other callers since this call began

callVars == <<call, attempt, seen, stored>>
tally == <<taken, sold, beside>>
vars == <<table, pc, callVars, result, tally, others>>

-----------------------------------------------------------------------------

Rows == [qty : Nat, version : Nat]

\* save() is two statements: it looks the row up, then writes it.
Saving  == {"comparing", "saving"}
Running == {"reading", "writing", "rereading"} \cup Saving
Results == {"none", "ok", "notFound", "notEnough", "conflict", "failed"}

TypeOK ==
    /\ table \in [Ids -> Rows \cup {NoRow}]
    /\ call \in [Callers -> Call]
    /\ pc \in [Callers -> {"idle", "done"} \cup Running]
    /\ attempt \in [Callers -> 1..MaxRetries]
    /\ seen \in [Callers -> Rows \cup {NoRow}]
    /\ stored \in [Callers -> Rows \cup {NoRow}]
    /\ result \in [Callers -> Results]
    /\ taken \in [Callers -> Nat]
    /\ sold \in Nat /\ beside \in Nat
    /\ others \in [Callers -> Nat]

Init ==
    /\ table = [i \in Ids |-> IF i = FirstId
                                THEN [qty |-> FirstQuantity, version |-> 1] ELSE NoRow]
    /\ call \in [Callers -> Calls]
    /\ pc = [c \in Callers |-> "idle"]
    /\ attempt = [c \in Callers |-> 1]
    /\ seen = [c \in Callers |-> NoRow]
    /\ stored = [c \in Callers |-> NoRow]
    /\ result = [c \in Callers |-> "none"]
    /\ taken = [c \in Callers |-> 0]
    /\ sold = 0 /\ beside = 0
    /\ others = [c \in Callers |-> 0]

Id(c) == call[c].id

Row(c) == table[Id(c)]

Goto(c, state) == pc' = [pc EXCEPT ![c] = state]

\* The call returns or throws, and forgets what it read.
Answer(c, what) ==
    /\ Goto(c, "done")
    /\ result' = [result EXCEPT ![c] = what]
    /\ seen' = [seen EXCEPT ![c] = NoRow]
    /\ stored' = [stored EXCEPT ![c] = NoRow]
    /\ UNCHANGED <<call, attempt>>

\* Caller c changes row i; the calls under way live through it.
Write(c, i, row) ==
    /\ table' = [table EXCEPT ![i] = row]
    /\ others' = [d \in Callers |->
                    IF d # c /\ pc[d] \in Running THEN others[d] + 1 ELSE others[d]]

NoWrite == UNCHANGED <<table, others>>

\* Caller c has taken its quantity, once more.
Take(c) ==
    /\ taken' = [taken EXCEPT ![c] = @ + 1]
    /\ sold' = sold + call[c].n

Orders(d) == call[d].op = "order" /\ pc[d] \in Running

\* Mutant: every order gets the lock.
AlwaysGranted(c) == TRUE

\* An order has the lease of its product until it ends.
Granted(c) == call[c].op = "order" => ~\E d \in Callers : Orders(d)

Start(c) ==
    /\ pc[c] = "idle" /\ Granted(c)
    /\ Goto(c, IF call[c].op = "create" THEN "writing" ELSE "reading")
    /\ NoWrite
    /\ UNCHANGED <<callVars, result, tally>>

\* Mutant: the last unit cannot be taken.
NoMoreThan(c) == Row(c).qty <= call[c].n

TooLittle(c) == Row(c).qty < call[c].n

\* findOne / findOneBy, and the checks on what was found.
Find(c) ==
    /\ pc[c] = "reading" /\ call[c].op # "order"
    /\ \/ Row(c) = NoRow /\ Answer(c, "notFound")
       \/ /\ Row(c) # NoRow
          /\ call[c].op = "decrease" /\ TooLittle(c)
          /\ Answer(c, "notEnough")
       \/ /\ Row(c) # NoRow
          /\ call[c].op = "decrease" => ~TooLittle(c)
          /\ seen' = [seen EXCEPT ![c] = Row(c)]
          /\ Goto(c, IF call[c].op = "update" THEN "comparing" ELSE "writing")
          /\ UNCHANGED <<call, attempt, stored, result>>
    /\ NoWrite
    /\ UNCHANGED tally

\* createOrderInternal looks for the row by product, whichever it is.
FindForOrder(c) ==
    /\ pc[c] = "reading" /\ call[c].op = "order"
    /\ \/ (\A i \in Ids : table[i] = NoRow) /\ Answer(c, "notFound")
       \/ \E i \in Ids :
             /\ table[i] # NoRow /\ table[i].qty < call[c].n
             /\ Answer(c, "notEnough")
       \/ \E i \in Ids :
             /\ table[i] # NoRow /\ table[i].qty >= call[c].n
             /\ seen' = [seen EXCEPT ![c] = table[i]]
             /\ call' = [call EXCEPT ![c].id = i]
             /\ Goto(c, "comparing")
             /\ UNCHANGED <<attempt, stored, result>>
    /\ NoWrite
    /\ UNCHANGED tally

\* Mutants: an UPDATE that checks only the id, or not the quantity.
MatchesId(c) == Row(c) # NoRow
MatchesVersion(c) == Row(c) # NoRow /\ Row(c).version = seen[c].version

\* WHERE id = :id AND version = :version AND quantity >= :quantityToDecrease
Matches(c) ==
    /\ Row(c) # NoRow
    /\ Row(c).version = seen[c].version
    /\ Row(c).qty >= call[c].n

DecreaseHit(c) ==
    /\ pc[c] = "writing" /\ call[c].op = "decrease"
    /\ Matches(c)
    /\ Write(c, Id(c), [qty |-> Row(c).qty - call[c].n, version |-> Row(c).version + 1])
    /\ Take(c)
    /\ beside' = IF \E d \in Callers : Orders(d) /\ pc[d] \in Saving
                   THEN beside + call[c].n ELSE beside
    \* The second disjunct: the answer of the UPDATE is lost.
    /\ \/ Goto(c, "rereading") /\ UNCHANGED <<callVars, result>>
       \/ Answer(c, "failed")

\* Mutants: affected is not looked at; one attempt too few.
MissIgnored(c) ==
    /\ pc[c] = "writing" /\ call[c].op = "decrease"
    /\ ~Matches(c)
    /\ Goto(c, "rereading")
    /\ NoWrite
    /\ UNCHANGED <<callVars, result, tally>>
MissGivesUp(c) ==
    /\ pc[c] = "writing" /\ call[c].op = "decrease"
    /\ ~Matches(c)
    /\ \/ attempt[c] = MaxRetries - 1 /\ Answer(c, "conflict")
       \/ /\ attempt[c] < MaxRetries - 1
          /\ attempt' = [attempt EXCEPT ![c] = @ + 1]
          /\ seen' = [seen EXCEPT ![c] = NoRow]
          /\ Goto(c, "reading")
          /\ UNCHANGED <<call, stored, result>>
    /\ NoWrite
    /\ UNCHANGED tally

\* affected = 0: once more, or ConflictException.
DecreaseMiss(c) ==
    /\ pc[c] = "writing" /\ call[c].op = "decrease"
    /\ ~Matches(c)
    /\ \/ attempt[c] = MaxRetries /\ Answer(c, "conflict")
       \/ /\ attempt[c] < MaxRetries
          /\ attempt' = [attempt EXCEPT ![c] = @ + 1]
          /\ seen' = [seen EXCEPT ![c] = NoRow]
          /\ Goto(c, "reading")
          /\ UNCHANGED <<call, stored, result>>
    /\ NoWrite
    /\ UNCHANGED tally

\* The row is read again for the answer.
Reread(c) ==
    /\ pc[c] = "rereading"
    /\ Answer(c, IF Row(c) = NoRow THEN "notFound" ELSE "ok")
    /\ NoWrite
    /\ UNCHANGED tally

\* productId is unique: there is no other row.
ProductFree(i) == \A j \in Ids \ {i} : table[j] = NoRow

\* The entity as it is saved: what was read, with another quantity.
Entity(c) ==
    [seen[c] EXCEPT !.qty = IF call[c].op = "order" THEN @ - call[c].n ELSE call[c].n]

\* The SELECT of save().
Compare(c) ==
    /\ pc[c] = "comparing"
    /\ stored' = [stored EXCEPT ![c] = Row(c)]
    /\ Goto(c, "saving")
    /\ NoWrite
    /\ UNCHANGED <<call, attempt, seen, result, tally>>

\* The columns that the UPDATE of save() sets are those in which the entity
\* differed from the row that the SELECT returned.
SavedQuantity(c) == IF stored[c].qty = Entity(c).qty THEN Row(c).qty ELSE Entity(c).qty

SavedVersions(c) ==
    {Row(c).version + 1} \cup {v \in {seen[c].version} : v # stored[c].version}

\* The INSERT or the UPDATE of save(), if any, when it succeeds; the UPDATE
\* of a row that was removed meanwhile succeeds without effect.
Save(c) ==
    \/ /\ stored[c] = NoRow /\ Row(c) = NoRow /\ ProductFree(Id(c))
       /\ Write(c, Id(c), [Entity(c) EXCEPT !.version = 1])
    \/ stored[c] = Entity(c) /\ NoWrite
    \/ stored[c] \notin {NoRow, Entity(c)} /\ Row(c) = NoRow /\ NoWrite
    \/ /\ stored[c] \notin {NoRow, Entity(c)} /\ Row(c) # NoRow
       /\ \E v \in SavedVersions(c) :
             Write(c, Id(c), [qty |-> SavedQuantity(c), version |-> v])

\* The INSERT meets a row with its id or its product.
SaveClashes(c) ==
    stored[c] = NoRow /\ ~(Row(c) = NoRow /\ ProductFree(Id(c))) /\ NoWrite

SaveUpdate(c) ==
    /\ pc[c] = "saving" /\ call[c].op = "update"
    /\ \/ Save(c) /\ Answer(c, "ok")
       \/ SaveClashes(c) /\ Answer(c, "failed")
    /\ UNCHANGED tally

\* The inventory is saved and the transaction commits; its answer may be lost.
SaveOrder(c) ==
    /\ pc[c] = "saving" /\ call[c].op = "order"
    /\ \/ /\ Save(c)
          /\ Take(c)
          /\ Answer(c, "ok") \/ Answer(c, "failed")
       \/ SaveClashes(c) /\ Answer(c, "failed") /\ UNCHANGED <<taken, sold>>
    /\ UNCHANGED beside

DeleteRow(c) ==
    /\ pc[c] = "writing" /\ call[c].op = "remove"
    /\ IF Row(c) = NoRow THEN NoWrite ELSE Write(c, Id(c), NoRow)
    /\ Answer(c, "ok")
    /\ UNCHANGED tally

InsertRow(c) ==
    /\ pc[c] = "writing" /\ call[c].op = "create"
    /\ \/ ProductFree(c) /\ Write(c, c, [qty |-> call[c].n, version |-> 1]) /\ Answer(c, "ok")
       \/ ~ProductFree(c) /\ NoWrite /\ Answer(c, "failed")
    /\ UNCHANGED tally

\* A statement fails without effect.
DbError(c) ==
    /\ pc[c] \in Running
    /\ Answer(c, "failed")
    /\ NoWrite
    /\ UNCHANGED tally

Progress(c) ==
    \/ Find(c) \/ DecreaseHit(c) \/ DecreaseMiss(c) \/ Reread(c)
    \/ FindForOrder(c) \/ Compare(c) \/ SaveOrder(c) \/ SaveUpdate(c)
    \/ DeleteRow(c) \/ InsertRow(c)

Next == \E c \in Callers : Start(c) \/ Progress(c) \/ DbError(c)

Spec == Init /\ [][Next]_vars

-----------------------------------------------------------------------------
(* Properties *)

\* decreaseStockOptimistic takes its quantity exactly once when it succeeds,
\* at most once when it loses the row or the connection afterwards, and not
\* at all when it answers that there is a conflict or too little stock.
DecreaseOnce ==
    \A c \in Callers :
        /\ taken[c] <= 1
        /\ result[c] = "ok" /\ call[c].op \in {"decrease", "order"} => taken[c] = 1
        /\ result[c] \in {"conflict", "notEnough"} => taken[c] = 0

\* ConflictException is never spurious: each of the MaxRetries attempts lost
\* to a different write of some other caller.
ConflictMeansContention ==
    \A c \in Callers : result[c] = "conflict" => others[c] >= MaxRetries

\* Nobody but decreases and orders works on the inventory.
OnlyTaking == \A c \in Callers : call[c].op \in {"decrease", "order"}

\* "Not enough stock" is final while stock is only ordered and decreased, even
\* if an order has saved over a decrease: the quantity asked for exceeds what
\* was not taken by then, or ever after.
ShortForGood ==
    OnlyTaking => \A c \in Callers : result[c] = "notEnough" => call[c].n + sold > FirstQuantity

\* While stock is only ordered and decreased, nothing but a decrease that hit
\* between the read and the save of an order is ever undone, and no unit is
\* taken twice: the lease keeps orders apart, and a decrease subtracts from
\* what its UPDATE finds.
OnlyDecreasesBesideOrdersAreLost ==
    OnlyTaking => /\ table[FirstId].qty + sold >= FirstQuantity
                  /\ table[FirstId].qty + sold <= FirstQuantity + beside

Ledger == INSTANCE StockLedger WITH
    Products <- {FirstId},
    InitialStock <- [i \in {FirstId} |-> FirstQuantity],
    Sales <- {[i \in {FirstId} |-> k.n] : k \in Calls},
    stock <- [i \in {FirstId} |-> table[i].qty],
    sold <- [i \in {FirstId} |-> sold]

\* Concurrent decreases, without locks, keep the stock ledger: no decrease is
\* lost, none is applied twice, and stock is never oversold.
ImplementsLedger == Ledger!LedgerSpec

=============================================================================
