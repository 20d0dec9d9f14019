----------------------- MODULE InventoryServiceProofs ------------------------
(* What InventoryService guarantees for all callers, calls and retries.      *)
EXTENDS InventoryService, TLAPS

USE DEF tally, Take

Steps(c) ==
    \/ Start(c) \/ Find(c) \/ DecreaseHit(c) \/ DecreaseMiss(c) \/ Reread(c)
    \/ FindForOrder(c) \/ Compare(c) \/ SaveOrder(c) \/ SaveUpdate(c)
    \/ DeleteRow(c) \/ InsertRow(c) \/ DbError(c)

LEMMA NextIsAStep == Next => \E c \in Callers : Steps(c)
BY DEF Next, Progress, Steps

-----------------------------------------------------------------------------
(* Types *)

\* What a call that is about to write has read, and the checks it made on it.
EntityRead ==
    \A c \in Callers :
      pc[c] \in {"writing"} \cup Saving /\ call[c].op \in {"decrease", "update", "order"} =>
        /\ seen[c] \in Rows
        /\ call[c].op \in {"decrease", "order"} => seen[c].qty >= call[c].n

TypeInv == TypeOK /\ EntityRead

LEMMA CallFields == \A k \in Call : k.op \in Ops /\ k.id \in Ids /\ k.n \in Nat
BY DEF Call

LEMMA RowFields ==
  /\ \A row \in Rows : row.qty \in Nat /\ row.version \in Nat
  /\ NoRow \notin Rows
BY InventoryAssumption DEF Rows

LEMMA WriteTyped ==
  ASSUME TypeOK, NEW c \in Callers, NEW i \in Ids, NEW row \in Rows \cup {NoRow}, Write(c, i, row)
  PROVE  table' \in [Ids -> Rows \cup {NoRow}] /\ others' \in [Callers -> Nat]
BY DEF TypeOK, Write

LEMMA AnswerTyped ==
  ASSUME TypeInv, NEW c \in Callers, NEW what \in Results, Answer(c, what)
  PROVE  /\ call' = call /\ attempt' = attempt
         /\ pc' \in [Callers -> {"idle", "done"} \cup Running]
         /\ seen' \in [Callers -> Rows \cup {NoRow}] /\ result' \in [Callers -> Results]
         /\ stored' \in [Callers -> Rows \cup {NoRow}]
         /\ EntityRead'
BY DEF TypeInv, TypeOK, EntityRead, Answer, Goto, Running, Saving

\* The columns that an UPDATE of save() leaves in the row.
LEMMA SavedColumns ==
  ASSUME NEW c \in Callers, Row(c) \in Rows, Entity(c) \in Rows, seen[c] \in Rows
  PROVE  \A v \in SavedVersions(c) : [qty |-> SavedQuantity(c), version |-> v] \in Rows
<1>1. SavedVersions(c) \subseteq Nat
  BY RowFields DEF SavedVersions
<1>2. SavedQuantity(c) \in Nat
  BY RowFields DEF SavedQuantity
<1> QED
  BY <1>1, <1>2 DEF Rows

\* Nothing but what is saved decides the types of a save.
LEMMA SaveTyped ==
  ASSUME TypeInv, NEW c \in Callers, pc[c] = "saving", call[c].op \in {"update", "order"}, Save(c)
  PROVE  table' \in [Ids -> Rows \cup {NoRow}] /\ others' \in [Callers -> Nat]
<1>1. /\ seen[c] \in Rows /\ call[c] \in Call /\ Id(c) \in Ids
      /\ call[c].op = "order" => seen[c].qty >= call[c].n
  BY CallFields DEF TypeInv, TypeOK, EntityRead, Id, Saving
<1>2. Entity(c) \in Rows
  BY <1>1, CallFields DEF Entity, Rows
<1>3. CASE Write(c, Id(c), [Entity(c) EXCEPT !.version = 1])
  <2>1. [Entity(c) EXCEPT !.version = 1] \in Rows
    BY <1>2 DEF Rows
  <2> QED
    BY <1>1, <1>3, <2>1, WriteTyped DEF TypeInv
<1>4. CASE NoWrite
  BY <1>4 DEF NoWrite, TypeInv, TypeOK
<1>5. CASE /\ Row(c) # NoRow
           /\ \E v \in SavedVersions(c) :
                 Write(c, Id(c), [qty |-> SavedQuantity(c), version |-> v])
  <2>1. Row(c) \in Rows
    BY <1>1, <1>5 DEF Row, TypeInv, TypeOK
  <2>2. PICK v \in SavedVersions(c) : Write(c, Id(c), [qty |-> SavedQuantity(c), version |-> v])
    BY <1>5
  <2>3. [qty |-> SavedQuantity(c), version |-> v] \in Rows
    BY <1>1, <1>2, <2>1, SavedColumns
  <2> QED
    BY <1>1, <2>2, <2>3, WriteTyped DEF TypeInv
<1> QED
  BY <1>3, <1>4, <1>5 DEF Save

LEMMA TypeInit == Init => TypeInv
BY InventoryAssumption
   DEF Init, TypeInv, TypeOK, EntityRead, Rows, Results, Running, Saving, Ids

LEMMA TypeKept == TypeInv /\ [Next]_vars => TypeInv'
<1> SUFFICES ASSUME TypeInv, [Next]_vars
             PROVE  TypeInv'
  OBVIOUS
<1>1. CASE UNCHANGED vars
  BY <1>1 DEF vars, callVars, TypeInv, TypeOK, EntityRead
<1>2. ASSUME NEW c \in Callers, Start(c)
      PROVE  TypeInv'
  BY <1>2 DEF Start, NoWrite, callVars, Goto, TypeInv, TypeOK, EntityRead, Running, Saving
<1>3. ASSUME NEW c \in Callers, Find(c)
      PROVE  TypeInv'
  <2>1. UNCHANGED <<table, others, tally>> /\ pc[c] = "reading" /\ call[c] \in Call
    BY <1>3 DEF Find, NoWrite, TypeInv, TypeOK
  <2>2. ASSUME NEW what \in Results, Answer(c, what)
        PROVE  TypeInv'
    BY <2>1, <2>2, AnswerTyped DEF TypeInv, TypeOK
  <2>3. CASE /\ Row(c) # NoRow
             /\ call[c].op = "decrease" => ~TooLittle(c)
             /\ seen' = [seen EXCEPT ![c] = Row(c)]
             /\ Goto(c, IF call[c].op = "update" THEN "comparing" ELSE "writing")
             /\ UNCHANGED <<call, attempt, stored, result>>
    <3>1. Row(c) \in Rows /\ call[c].n \in Nat /\ Row(c).qty \in Nat
      BY <2>1, <2>3, CallFields, RowFields DEF Row, Id, TypeInv, TypeOK
    <3>2. TypeOK'
      BY <2>1, <2>3, <3>1 DEF Goto, TypeInv, TypeOK, Running, Saving
    <3>3. call[c].op = "decrease" => Row(c).qty >= call[c].n
      BY <2>3, <3>1 DEF TooLittle
    <3>4. call[c].op # "order"
      BY <1>3 DEF Find
    <3>5. EntityRead'
      BY <2>3, <3>1, <3>3, <3>4 DEF Goto, TypeInv, TypeOK, EntityRead, Saving
    <3> QED
      BY <3>2, <3>5 DEF TypeInv
  <2> QED
    BY <1>3, <2>2, <2>3 DEF Find, Results
<1>4. ASSUME NEW c \in Callers, FindForOrder(c)
      PROVE  TypeInv'
  <2>1. UNCHANGED <<table, others, tally>> /\ pc[c] = "reading" /\ call[c] \in Call
    BY <1>4 DEF FindForOrder, NoWrite, TypeInv, TypeOK
  <2>2. ASSUME NEW what \in Results, Answer(c, what)
        PROVE  TypeInv'
    BY <2>1, <2>2, AnswerTyped DEF TypeInv, TypeOK
  <2>3. ASSUME NEW i \in Ids,
               table[i] # NoRow /\ table[i].qty >= call[c].n,
               seen' = [seen EXCEPT ![c] = table[i]],
               call' = [call EXCEPT ![c].id = i],
               Goto(c, "comparing"),
               UNCHANGED <<attempt, stored, result>>
        PROVE  TypeInv'
    <3>1. table[i] \in Rows
      BY <2>3 DEF TypeInv, TypeOK
    <3>2. call'[c] \in Call /\ call'[c].op = call[c].op /\ call'[c].n = call[c].n
      BY <2>1, <2>3 DEF Call, TypeInv, TypeOK
    <3>3. TypeOK'
      BY <2>1, <2>3, <3>1, <3>2 DEF Goto, TypeInv, TypeOK, Running, Saving
    <3>4. EntityRead'
      BY <2>3, <3>1, <3>2 DEF Goto, TypeInv, TypeOK, EntityRead, Saving
    <3> QED
      BY <3>3, <3>4 DEF TypeInv
  <2> QED
    BY <1>4, <2>2, <2>3 DEF FindForOrder, Results
<1>5. ASSUME NEW c \in Callers, DecreaseHit(c)
      PROVE  TypeInv'
  <2>1. /\ Row(c) \in Rows /\ call[c].n \in Nat /\ Id(c) \in Ids
        /\ Row(c).qty >= call[c].n
    BY <1>5, CallFields DEF DecreaseHit, Matches, Row, Id, TypeInv, TypeOK
  <2>2. [qty |-> Row(c).qty - call[c].n, version |-> Row(c).version + 1] \in Rows
    BY <2>1, RowFields DEF Rows
  <2>3. table' \in [Ids -> Rows \cup {NoRow}] /\ others' \in [Callers -> Nat]
    BY <1>5, <2>1, <2>2, WriteTyped DEF DecreaseHit, TypeInv
  <2>4. taken' \in [Callers -> Nat] /\ sold' \in Nat /\ beside' \in Nat
    <3>1. taken' = [taken EXCEPT ![c] = @ + 1] /\ sold' = sold + call[c].n
          /\ (beside' = beside \/ beside' = beside + call[c].n)
      BY <1>5 DEF DecreaseHit
    <3> QED
      BY <2>1, <3>1 DEF TypeInv, TypeOK
  <2>5. CASE Goto(c, "rereading") /\ UNCHANGED <<callVars, result>>
    BY <2>3, <2>4, <2>5 DEF Goto, callVars, TypeInv, TypeOK, EntityRead, Running, Saving
  <2>6. CASE Answer(c, "failed")
    BY <2>3, <2>4, <2>6, AnswerTyped DEF TypeInv, TypeOK, Results
  <2> QED
    BY <1>5, <2>5, <2>6 DEF DecreaseHit
<1>6. ASSUME NEW c \in Callers, DecreaseMiss(c)
      PROVE  TypeInv'
  <2>1. CASE Answer(c, "conflict")
    BY <1>6, <2>1, AnswerTyped DEF DecreaseMiss, NoWrite, TypeInv, TypeOK, Results
  <2>2. CASE /\ attempt[c] < MaxRetries
             /\ attempt' = [attempt EXCEPT ![c] = @ + 1]
             /\ seen' = [seen EXCEPT ![c] = NoRow]
             /\ Goto(c, "reading")
             /\ UNCHANGED <<call, stored, result>>
    BY <1>6, <2>2, InventoryAssumption
       DEF DecreaseMiss, NoWrite, Goto, TypeInv, TypeOK, EntityRead, Running, Saving
  <2> QED
    BY <1>6, <2>1, <2>2 DEF DecreaseMiss
<1>7. ASSUME NEW c \in Callers, Reread(c) \/ DbError(c)
      PROVE  TypeInv'
  BY <1>7, AnswerTyped DEF Reread, DbError, NoWrite, TypeInv, TypeOK, Results
<1>8. ASSUME NEW c \in Callers, SaveUpdate(c)
      PROVE  TypeInv'
  <2>1. table' \in [Ids -> Rows \cup {NoRow}] /\ others' \in [Callers -> Nat]
    BY <1>8, SaveTyped DEF SaveUpdate, SaveClashes, NoWrite, TypeInv, TypeOK
  <2> QED
    BY <1>8, <2>1, AnswerTyped DEF SaveUpdate, TypeInv, TypeOK, Results
<1>9. ASSUME NEW c \in Callers, SaveOrder(c)
      PROVE  TypeInv'
  <2>1. table' \in [Ids -> Rows \cup {NoRow}] /\ others' \in [Callers -> Nat]
    BY <1>9, SaveTyped DEF SaveOrder, SaveClashes, NoWrite, TypeInv, TypeOK
  <2>2. taken' \in [Callers -> Nat] /\ sold' \in Nat /\ beside' = beside
    <3>1. call[c].n \in Nat
      BY CallFields DEF TypeInv, TypeOK
    <3> QED
      BY <1>9, <3>1 DEF SaveOrder, TypeInv, TypeOK
  <2> QED
    BY <1>9, <2>1, <2>2, AnswerTyped DEF SaveOrder, TypeInv, TypeOK, Results
<1>10. ASSUME NEW c \in Callers, DeleteRow(c)
       PROVE  TypeInv'
  <2>1. Id(c) \in Ids
    BY CallFields DEF Id, TypeInv, TypeOK
  <2>2. table' \in [Ids -> Rows \cup {NoRow}] /\ others' \in [Callers -> Nat]
    BY <1>10, <2>1, WriteTyped DEF DeleteRow, NoWrite, TypeInv, TypeOK
  <2> QED
    BY <1>10, <2>2, AnswerTyped DEF DeleteRow, TypeInv, TypeOK, Results
<1>11. ASSUME NEW c \in Callers, InsertRow(c)
       PROVE  TypeInv'
  <2>1. c \in Ids /\ [qty |-> call[c].n, version |-> 1] \in Rows
    BY CallFields DEF Ids, Rows, TypeInv, TypeOK
  <2>2. table' \in [Ids -> Rows \cup {NoRow}] /\ others' \in [Callers -> Nat]
    BY <1>11, <2>1, WriteTyped DEF InsertRow, NoWrite, TypeInv, TypeOK
  <2> QED
    BY <1>11, <2>2, AnswerTyped DEF InsertRow, TypeInv, TypeOK, Results
<1>12. ASSUME NEW c \in Callers, Compare(c)
       PROVE  TypeInv'
  <2>1. Row(c) \in Rows \cup {NoRow}
    BY CallFields DEF Row, Id, TypeInv, TypeOK
  <2> QED
    BY <1>12, <2>1 DEF Compare, NoWrite, Goto, TypeInv, TypeOK, EntityRead, Running, Saving
<1> QED
  BY <1>1, <1>2, <1>3, <1>4, <1>5, <1>6, <1>7, <1>8, <1>9, <1>10, <1>11, <1>12, NextIsAStep
     DEF Steps

LEMMA TypeInvariant == Spec => []TypeInv
BY TypeInit, TypeKept, PTL DEF Spec

\* Whatever races on an inventory, its quantity and its version stay natural
\* numbers: an UPDATE that meets a version set back still checks the quantity,
\* and an order saves what was left of a quantity that sufficed.
THEOREM TypeCorrect == Spec => []TypeOK
<1>1. TypeInv => TypeOK
  BY DEF TypeInv
<1> QED
  BY <1>1, TypeInvariant, PTL

-----------------------------------------------------------------------------
(* What a step of one call leaves of the others *)

Local(d) == <<pc[d], call[d], attempt[d], seen[d], stored[d], result[d], taken[d]>>

LEMMA OthersAsTheyWere ==
  ASSUME TypeInv, NEW c \in Callers, Steps(c), NEW d \in Callers, d # c
  PROVE  UNCHANGED Local(d)
<1> USE DEF TypeInv, TypeOK, Local, Goto, Answer, callVars
<1>1. CASE Start(c) \/ Find(c) \/ FindForOrder(c) \/ Compare(c)
  BY <1>1 DEF Start, Find, FindForOrder, Compare
<1>2. CASE DecreaseHit(c) \/ DecreaseMiss(c) \/ Reread(c) \/ DbError(c)
  BY <1>2 DEF DecreaseHit, DecreaseMiss, Reread, DbError
<1>3. CASE SaveOrder(c) \/ SaveUpdate(c) \/ DeleteRow(c) \/ InsertRow(c)
  BY <1>3 DEF SaveOrder, SaveUpdate, DeleteRow, InsertRow
<1> QED
  BY <1>1, <1>2, <1>3 DEF Steps

-----------------------------------------------------------------------------
(* A decrease is applied as often as its answer says *)

\* How often call c has taken its quantity, by where it is.
TakenSoFar(c) ==
    /\ taken[c] <= 1
    /\ pc[c] \in {"idle", "reading", "writing"} \cup Saving => taken[c] = 0
    /\ pc[c] = "rereading" => taken[c] = 1
    /\ result[c] # "none" => pc[c] = "done"
    /\ result[c] = "ok" /\ call[c].op \in {"decrease", "order"} => taken[c] = 1
    /\ result[c] \in {"conflict", "notEnough"} => taken[c] = 0

TakenInv == \A c \in Callers : TakenSoFar(c)

LEMMA TakenInit == Init => TakenInv
BY DEF Init, TakenInv, TakenSoFar, Saving

LEMMA TakenKept == TypeInv /\ TakenInv /\ [Next]_vars => TakenInv'
<1> SUFFICES ASSUME TypeInv, TakenInv, [Next]_vars
             PROVE  TakenInv'
  OBVIOUS
<1>1. CASE UNCHANGED vars
  BY <1>1 DEF vars, callVars, TakenInv, TakenSoFar
<1>2. ASSUME NEW c \in Callers, Steps(c)
      PROVE  TakenInv'
  <2>1. ASSUME NEW d \in Callers, d # c
        PROVE  TakenSoFar(d)'
    BY <1>2, <2>1, OthersAsTheyWere DEF TakenInv, TakenSoFar, Local
  <2>2. TakenSoFar(c)'
    <3> USE DEF TypeInv, TypeOK, Goto, Answer, callVars, TakenInv, TakenSoFar, Running, Saving
    <3>1. CASE Start(c) \/ Find(c) \/ Compare(c)
      BY <3>1 DEF Start, Find, Compare
    <3>2. CASE FindForOrder(c)
      BY <3>2 DEF FindForOrder
    <3>3. CASE DecreaseHit(c)
      BY <3>3 DEF DecreaseHit
    <3>4. CASE DecreaseMiss(c) \/ Reread(c) \/ DbError(c)
      BY <3>4 DEF DecreaseMiss, Reread, DbError
    <3>5. CASE SaveOrder(c)
      BY <3>5 DEF SaveOrder
    <3>6. CASE SaveUpdate(c) \/ DeleteRow(c) \/ InsertRow(c)
      BY <3>6 DEF SaveUpdate, DeleteRow, InsertRow
    <3> QED
      BY <1>2, <3>1, <3>2, <3>3, <3>4, <3>5, <3>6 DEF Steps
  <2> QED
    BY <2>1, <2>2 DEF TakenInv
<1> QED
  BY <1>1, <1>2, NextIsAStep

\* decreaseStockOptimistic takes its quantity exactly once when it succeeds,
\* at most once when it fails, and never when it says that it did not, beside
\* any number of updates, removals, creations and orders.
THEOREM DecreasesOnce == Spec => []DecreaseOnce
<1>1. TakenInv => DecreaseOnce
  BY DEF TakenInv, TakenSoFar, DecreaseOnce
<1> QED
  BY <1>1, TypeInit, TypeKept, TakenInit, TakenKept, PTL DEF Spec

-----------------------------------------------------------------------------
(* A conflict is never spurious *)

\* A decrease has lost each of its attempts so far to a write of its own, and
\* has already lost this one when the row is no longer what it read.
AttemptsLost(c) ==
    /\ call[c].op = "decrease" /\ pc[c] # "done" => others[c] >= attempt[c] - 1
    /\ call[c].op = "decrease" /\ pc[c] = "writing" /\ Row(c) # seen[c] => others[c] >= attempt[c]
    /\ pc[c] # "done" => result[c] = "none"
    /\ result[c] = "conflict" => others[c] >= MaxRetries

LostInv == \A c \in Callers : AttemptsLost(c)

\* What a step does to the row and the count of a call that is not its own.
LEMMA WritesAreCounted ==
  ASSUME TypeInv, NEW c \in Callers, Steps(c), NEW d \in Callers, d # c
  PROVE  /\ others'[d] >= others[d]
         /\ pc[d] = "writing" => table' = table \/ others'[d] = others[d] + 1
<1>1. others[d] \in Nat
  BY DEF TypeInv, TypeOK
<1>2. CASE NoWrite
  BY <1>1, <1>2 DEF NoWrite
<1>3. ASSUME NEW i, NEW row, Write(c, i, row)
      PROVE  /\ others'[d] >= others[d]
             /\ pc[d] = "writing" => others'[d] = others[d] + 1
  BY <1>1, <1>3 DEF Write, Running
<1>4. NoWrite \/ \E i, row : Write(c, i, row)
  BY DEF Steps, Start, Find, FindForOrder, DecreaseHit, DecreaseMiss, Reread, Compare,
         SaveOrder, SaveUpdate, Save, SaveClashes, DeleteRow, InsertRow, DbError
<1> QED
  BY <1>2, <1>3, <1>4

LEMMA OwnCountStays ==
  ASSUME TypeInv, NEW c \in Callers, Steps(c)
  PROVE  others'[c] = others[c]
<1>1. ASSUME NEW i, NEW row, Write(c, i, row)
      PROVE  others'[c] = others[c]
  BY <1>1 DEF Write, TypeInv, TypeOK
<1>2. NoWrite \/ \E i, row : Write(c, i, row)
  BY DEF Steps, Start, Find, FindForOrder, DecreaseHit, DecreaseMiss, Reread, Compare,
         SaveOrder, SaveUpdate, Save, SaveClashes, DeleteRow, InsertRow, DbError
<1> QED
  BY <1>1, <1>2 DEF NoWrite

LEMMA LostInit == Init => LostInv
BY InventoryAssumption DEF Init, LostInv, AttemptsLost

LEMMA LostKept == TypeInv /\ LostInv /\ [Next]_vars => LostInv'
<1> SUFFICES ASSUME TypeInv, LostInv, [Next]_vars
             PROVE  LostInv'
  OBVIOUS
<1>1. CASE UNCHANGED vars
  BY <1>1 DEF vars, callVars, LostInv, AttemptsLost, Row, Id
<1>2. ASSUME NEW c \in Callers, Steps(c)
      PROVE  LostInv'
  <2>1. ASSUME NEW d \in Callers, d # c
        PROVE  AttemptsLost(d)'
    <3>1. attempt[d] \in Nat /\ others[d] \in Nat /\ others'[d] \in Nat /\ MaxRetries \in Nat
      BY <1>2, TypeKept, InventoryAssumption DEF TypeInv, TypeOK
    <3>2. UNCHANGED Local(d)
      BY <1>2, <2>1, OthersAsTheyWere
    <3>3. pc[d] = "writing" /\ Row(d)' # Row(d) => others'[d] = others[d] + 1
      BY <1>2, <2>1, <3>2, WritesAreCounted DEF Row, Id, Local
    <3> QED
      BY <1>2, <2>1, <3>1, <3>2, <3>3, WritesAreCounted DEF LostInv, AttemptsLost, Local
  <2>2. AttemptsLost(c)'
    <3>1. /\ attempt[c] \in Nat /\ others[c] \in Nat /\ others'[c] = others[c]
          /\ MaxRetries \in Nat /\ attempt[c] <= MaxRetries
      BY <1>2, OwnCountStays, InventoryAssumption DEF TypeInv, TypeOK
    <3>2. AttemptsLost(c) /\ EntityRead
      BY DEF LostInv, TypeInv
    <3> USE <3>1, <3>2 DEF TypeInv, TypeOK, Goto, Answer, callVars, AttemptsLost, Running, Saving
    <3>3. CASE Start(c)
      BY <3>3 DEF Start
    <3>4. CASE Find(c)
      BY <3>4 DEF Find, NoWrite, Row, Id
    <3>5. CASE FindForOrder(c)
      <4>1. call[c] \in Call /\ call[c].op = "order"
        BY <3>5 DEF FindForOrder
      <4>2. call'[c].op = "order"
        BY <3>5, <4>1 DEF FindForOrder, Call
      <4>3. result'[c] # "conflict" /\ (pc'[c] # "done" => result'[c] = "none")
        BY <3>5 DEF FindForOrder
      <4> QED
        BY <4>2, <4>3
    <3>6. CASE DecreaseMiss(c)
      <4>1. Row(c) # seen[c]
        <5> SUFFICES ASSUME Row(c) = seen[c]
                     PROVE  Matches(c)
          BY <3>6 DEF DecreaseMiss
        <5>1. seen[c] \in Rows /\ seen[c].qty >= call[c].n
          BY <3>6 DEF DecreaseMiss, EntityRead
        <5> QED
          BY <5>1, RowFields DEF Matches
      <4>2. others[c] >= attempt[c]
        BY <3>6, <4>1 DEF DecreaseMiss
      <4> QED
        BY <3>6, <4>2 DEF DecreaseMiss
    <3>7. CASE DecreaseHit(c) \/ Reread(c) \/ Compare(c) \/ DbError(c)
      BY <3>7 DEF DecreaseHit, Reread, Compare, DbError, NoWrite
    <3>8. CASE SaveOrder(c) \/ SaveUpdate(c) \/ DeleteRow(c) \/ InsertRow(c)
      BY <3>8 DEF SaveOrder, SaveUpdate, DeleteRow, InsertRow
    <3> QED
      BY <1>2, <3>3, <3>4, <3>5, <3>6, <3>7, <3>8 DEF Steps
  <2> QED
    BY <2>1, <2>2 DEF LostInv
<1> QED
  BY <1>1, <1>2, NextIsAStep

\* ConflictException means contention: with any number of attempts, each was
\* lost to a different write of another caller, whatever that caller asked.
THEOREM ConflictsAreReal == Spec => []ConflictMeansContention
<1>1. LostInv => ConflictMeansContention
  BY DEF LostInv, AttemptsLost, ConflictMeansContention
<1> QED
  BY <1>1, TypeInit, TypeKept, LostInit, LostKept, PTL DEF Spec

-----------------------------------------------------------------------------
(* Decreases and orders together *)

Stock == table[FirstId].qty

\* While stock is only taken: there is the one row; what is left and what was
\* taken make up what there was, but for decreases beside orders; and so does
\* what an order is about to save.
OneRow ==
    /\ table[FirstId] \in Rows
    /\ \A i \in Ids \ {FirstId} : table[i] = NoRow

OneOrder == \A c, d \in Callers : Orders(c) /\ Orders(d) => c = d

Sums ==
    /\ Stock + sold >= FirstQuantity
    /\ Stock + sold <= FirstQuantity + beside

OrderSums(c) ==
    Orders(c) /\ pc[c] \in Saving =>
        /\ Id(c) = FirstId /\ seen[c].qty >= Stock /\ seen[c].qty + sold <= FirstQuantity + beside
        /\ pc[c] = "saving" => stored[c] \in Rows /\ stored[c].qty >= Stock

RefusalHolds(c) == result[c] = "notEnough" => call[c].n + sold > FirstQuantity

BalanceInv ==
    OnlyTaking => /\ OneRow /\ OneOrder /\ Sums
                  /\ \A c \in Callers : OrderSums(c) /\ RefusalHolds(c)

LEMMA BalanceInit == Init => BalanceInv
<1> SUFFICES ASSUME Init PROVE BalanceInv
  OBVIOUS
<1>1. table[FirstId] = [qty |-> FirstQuantity, version |-> 1] /\ FirstQuantity \in Nat
      /\ \A i \in Ids \ {FirstId} : table[i] = NoRow
  BY InventoryAssumption DEF Init, Ids
<1>2. OneRow /\ Sums
  BY <1>1 DEF Init, OneRow, Sums, Stock, Rows
<1>3. \A c \in Callers : ~Orders(c) /\ result[c] = "none"
  BY DEF Init, Orders, Running, Saving
<1> QED
  BY <1>2, <1>3 DEF BalanceInv, OneOrder, OrderSums, RefusalHolds

\* What a caller asks for stays, but for the row that an order finds.
LEMMA AskedStays ==
  ASSUME TypeInv, NEW c \in Callers, Steps(c)
  PROVE  \A d \in Callers : call'[d].op = call[d].op /\ call'[d].n = call[d].n
<1>1. CASE call' = call
  BY <1>1
<1>2. CASE \E i \in Ids : call' = [call EXCEPT ![c].id = i]
  BY <1>2 DEF TypeInv, TypeOK, Call
<1>3. call' = call \/ \E i \in Ids : call' = [call EXCEPT ![c].id = i]
  BY DEF Steps, Start, Find, FindForOrder, DecreaseHit, DecreaseMiss, Reread, Compare,
         SaveOrder, SaveUpdate, DeleteRow, InsertRow, DbError, Answer, callVars
<1> QED
  BY <1>1, <1>2, <1>3

\* A step that takes nothing.
LEMMA QuietKeepsBalance ==
  ASSUME TypeInv, OnlyTaking, BalanceInv, NEW c \in Callers, Steps(c),
         UNCHANGED <<table, sold, beside>>, OneOrder', OrderSums(c)', RefusalHolds(c)'
  PROVE  BalanceInv'
<1>1. OneRow' /\ Sums'
  BY DEF BalanceInv, OneRow, Sums, Stock
<1>2. ASSUME NEW d \in Callers, d # c
      PROVE  OrderSums(d)' /\ RefusalHolds(d)'
  <2>1. UNCHANGED Local(d)
    BY <1>2, OthersAsTheyWere
  <2> QED
    BY <2>1 DEF BalanceInv, OrderSums, RefusalHolds, Orders, Stock, Id, Local
<1> QED
  BY <1>1, <1>2 DEF BalanceInv

\* No order begins to run unless none does.
LEMMA OneOrderKept ==
  ASSUME TypeInv, OneOrder, NEW c \in Callers, Steps(c)
  PROVE  OneOrder'
<1>1. ASSUME NEW d \in Callers, d # c
      PROVE  Orders(d)' <=> Orders(d)
  BY <1>1, OthersAsTheyWere DEF Orders, Local
<1>2. Orders(c)' => Orders(c) \/ ~\E d \in Callers : Orders(d)
  <2>1. CASE Start(c)
    BY <2>1, AskedStays DEF Start, Granted, Orders
  <2>2. CASE ~Start(c)
    <3>1. pc[c] \in Running
      BY <2>2 DEF Steps, Find, FindForOrder, DecreaseHit, DecreaseMiss, Reread, Compare,
         SaveOrder, SaveUpdate, DeleteRow, InsertRow, DbError, Running, Saving
    <3> QED
      BY <3>1, AskedStays DEF Orders
  <2> QED
    BY <2>1, <2>2
<1> QED
  BY <1>1, <1>2 DEF OneOrder

LEMMA BalanceKept == TypeInv /\ BalanceInv /\ [Next]_vars => BalanceInv'
<1> SUFFICES ASSUME TypeInv, BalanceInv, [Next]_vars
             PROVE  BalanceInv'
  OBVIOUS
<1>1. CASE UNCHANGED vars
  BY <1>1 DEF vars, callVars, BalanceInv, OnlyTaking, OneRow, OneOrder, Sums, OrderSums,
              RefusalHolds, Orders, Stock, Id
<1>2. ASSUME NEW c \in Callers, Steps(c), OnlyTaking'
      PROVE  BalanceInv'
  <2>1. /\ OnlyTaking /\ call[c].op \in {"decrease", "order"}
        /\ call'[c].op = call[c].op /\ call'[c].n = call[c].n
    BY <1>2, AskedStays DEF OnlyTaking
  <2>2. OneRow /\ OneOrder /\ Sums /\ OrderSums(c) /\ RefusalHolds(c) /\ EntityRead
    BY <2>1 DEF BalanceInv, TypeInv
  <2>3. OneOrder'
    BY <1>2, <2>2, OneOrderKept
  <2>4. /\ Stock \in Nat /\ sold \in Nat /\ beside \in Nat /\ FirstQuantity \in Nat
        /\ call[c].n \in Nat /\ table[FirstId] # NoRow /\ FirstId \in Ids /\ Id(c) \in Ids
    BY <2>2, CallFields, RowFields, InventoryAssumption DEF Stock, OneRow, TypeInv, TypeOK, Ids, Id
  <2>5. Row(c) # NoRow => Id(c) = FirstId /\ Row(c) = table[FirstId]
    BY <2>2, <2>4 DEF OneRow, Row
  <2> USE DEF TypeInv, TypeOK, Goto, Answer, callVars, Running, Saving
  <2>6. CASE Start(c)
    <3>1. UNCHANGED <<table, sold, beside, result, call>> /\ pc'[c] \notin Saving
      BY <2>1, <2>6 DEF Start, NoWrite
    <3> QED
      BY <1>2, <2>1, <2>2, <2>3, <3>1, QuietKeepsBalance DEF OrderSums, RefusalHolds
  <2>7. CASE DecreaseMiss(c) \/ Reread(c) \/ DbError(c)
    <3>1. UNCHANGED <<table, sold, beside, call>> /\ pc'[c] \notin Saving
          /\ (result'[c] # "notEnough" \/ result' = result)
      BY <2>7 DEF DecreaseMiss, Reread, DbError, NoWrite
    <3> QED
      BY <1>2, <2>1, <2>2, <2>3, <3>1, QuietKeepsBalance DEF OrderSums, RefusalHolds
  <2>8. CASE Find(c)
    <3>1. UNCHANGED <<table, sold, beside, call>> /\ call[c].op = "decrease"
      BY <2>1, <2>8 DEF Find, NoWrite
    <3>2. OrderSums(c)'
      BY <2>1, <3>1 DEF OrderSums, Orders
    <3>3. RefusalHolds(c)'
      <4>1. CASE Row(c) # NoRow /\ TooLittle(c)
        <5>1. Stock < call[c].n
          BY <2>5, <4>1 DEF TooLittle, Stock
        <5>2. call[c].n + sold > FirstQuantity
          BY <2>2, <2>4, <5>1 DEF Sums
        <5> QED
          BY <2>1, <3>1, <5>2 DEF RefusalHolds
      <4>2. CASE ~(Row(c) # NoRow /\ TooLittle(c))
        <5>1. result'[c] # "notEnough" \/ result' = result
          BY <2>8, <3>1, <4>2 DEF Find
        <5> QED
          BY <2>1, <2>2, <3>1, <5>1 DEF RefusalHolds
      <4> QED
        BY <4>1, <4>2
    <3> QED
      BY <1>2, <2>1, <2>3, <3>1, <3>2, <3>3, QuietKeepsBalance
  <2>9. CASE FindForOrder(c)
    <3>1. UNCHANGED <<table, sold, beside>>
      BY <2>9 DEF FindForOrder, NoWrite
    <3>2. ASSUME NEW i \in Ids, table[i] # NoRow
          PROVE  i = FirstId /\ table[i].qty = Stock
      BY <2>2, <3>2 DEF OneRow, Stock
    <3>3. OrderSums(c)'
      <4>1. CASE pc'[c] \notin Saving
        BY <4>1 DEF OrderSums
      <4>2. CASE pc'[c] = "comparing"
        <5>1. PICK i \in Ids : /\ table[i] # NoRow
                               /\ seen' = [seen EXCEPT ![c] = table[i]]
                               /\ call' = [call EXCEPT ![c].id = i]
          BY <2>9, <4>2 DEF FindForOrder
        <5>2. seen'[c].qty = Stock /\ call'[c].id = FirstId
          BY <3>2, <5>1 DEF Call
        <5> QED
          BY <2>2, <2>4, <3>1, <4>2, <5>2 DEF OrderSums, Sums, Stock, Id
      <4> QED
        BY <2>9, <4>1, <4>2 DEF FindForOrder
    <3>4. RefusalHolds(c)'
      <4>1. CASE result'[c] = "notEnough" /\ result' # result
        <5>1. PICK i \in Ids : table[i] # NoRow /\ table[i].qty < call[c].n
          BY <2>9, <4>1 DEF FindForOrder
        <5>2. Stock < call[c].n
          BY <3>2, <5>1
        <5>3. call[c].n + sold > FirstQuantity
          BY <2>2, <2>4, <5>2 DEF Sums
        <5> QED
          BY <2>1, <3>1, <5>3 DEF RefusalHolds
      <4>2. CASE result'[c] # "notEnough" \/ result' = result
        BY <2>1, <2>2, <3>1, <4>2 DEF RefusalHolds
      <4> QED
        BY <4>1, <4>2
    <3> QED
      BY <1>2, <2>1, <2>3, <3>1, <3>3, <3>4, QuietKeepsBalance
  <2>10. CASE DecreaseHit(c)
    <3>1. /\ Row(c) # NoRow /\ Row(c).qty >= call[c].n /\ sold' = sold + call[c].n
          /\ table' = [table EXCEPT ![Id(c)] =
                          [qty |-> Row(c).qty - call[c].n, version |-> Row(c).version + 1]]
          /\ (\E d \in Callers : Orders(d) /\ pc[d] \in Saving) => beside' = beside + call[c].n
          /\ beside' = beside \/ beside' = beside + call[c].n
          /\ result'[c] # "notEnough" \/ result' = result
          /\ call[c].op = "decrease"
      BY <2>10 DEF DecreaseHit, Matches, Write
    <3>2. /\ table'[FirstId] = [qty |-> Stock - call[c].n, version |-> table[FirstId].version + 1]
          /\ \A i \in Ids \ {FirstId} : table'[i] = NoRow
      BY <2>2, <2>4, <2>5, <3>1 DEF OneRow, Stock
    <3>3. Stock' = Stock - call[c].n /\ Stock >= call[c].n
      BY <2>5, <3>1, <3>2 DEF Stock
    <3>4. OneRow'
      BY <2>2, <2>4, <3>2, <3>3, RowFields DEF OneRow, Rows
    <3>5. Sums'
      BY <2>2, <2>4, <3>1, <3>3 DEF Sums
    <3>6. ASSUME NEW d \in Callers
          PROVE  OrderSums(d)' /\ RefusalHolds(d)'
      <4>1. d # c => UNCHANGED Local(d)
        BY <1>2, OthersAsTheyWere
      <4>2. OrderSums(d) /\ RefusalHolds(d)
        BY <2>1 DEF BalanceInv
      <4>3. call'[d].op = call[d].op /\ call'[d].n = call[d].n /\ call[d].n \in Nat
        BY <1>2, AskedStays, CallFields
      <4>4. RefusalHolds(d)'
        <5>1. result'[d] = "notEnough" => call[d].n + sold > FirstQuantity
          BY <3>1, <4>1, <4>2 DEF RefusalHolds, Local
        <5> QED
          BY <2>4, <3>1, <4>3, <5>1 DEF RefusalHolds
      <4>5. CASE Orders(d)' /\ pc'[d] \in Saving
        <5>1. d # c
          BY <3>1, <4>3, <4>5 DEF Orders
        <5>2. /\ Orders(d) /\ pc[d] \in Saving /\ call[d].op = "order" /\ Id(d)' = Id(d)
              /\ pc'[d] = pc[d] /\ seen'[d] = seen[d] /\ stored'[d] = stored[d]
          BY <4>1, <4>5, <5>1 DEF Orders, Local, Id
        <5>3. beside' = beside + call[c].n
          BY <3>1, <5>2
        <5>4. seen[d].qty \in Nat
          BY <5>2, RowFields DEF EntityRead
        <5>5. Id(d) = FirstId /\ seen[d].qty >= Stock /\ seen[d].qty + sold <= FirstQuantity + beside
          BY <4>2, <5>2 DEF OrderSums
        <5>6. seen[d].qty >= Stock' /\ seen[d].qty + sold' <= FirstQuantity + beside'
          BY <2>4, <3>1, <3>3, <5>3, <5>4, <5>5
        <5>7. pc'[d] = "saving" => stored'[d] \in Rows /\ stored'[d].qty >= Stock'
          <6>1. pc[d] = "saving" =>
                  stored[d] \in Rows /\ stored[d].qty \in Nat /\ stored[d].qty >= Stock
            BY <4>2, <5>2, RowFields DEF OrderSums
          <6> QED
            BY <2>4, <3>3, <5>2, <6>1
        <5> QED
          BY <4>4, <5>2, <5>5, <5>6, <5>7 DEF OrderSums
      <4> QED
        BY <4>4, <4>5 DEF OrderSums
    <3> QED
      BY <2>3, <3>4, <3>5, <3>6 DEF BalanceInv
  <2>11. CASE SaveOrder(c)
    <3>1. Orders(c) /\ pc[c] = "saving"
      BY <2>11 DEF SaveOrder, Orders
    <3>2. /\ Id(c) = FirstId /\ seen[c].qty >= Stock /\ seen[c].qty + sold <= FirstQuantity + beside
          /\ seen[c] \in Rows /\ seen[c].qty \in Nat /\ seen[c].qty >= call[c].n
          /\ stored[c] \in Rows /\ stored[c].qty \in Nat /\ stored[c].qty >= Stock
      BY <2>2, <3>1, RowFields DEF OrderSums, EntityRead, Orders
    <3>3. Row(c) = table[FirstId] /\ Row(c) \in Rows /\ Row(c).qty = Stock /\ NoRow \notin Rows
      BY <2>2, <3>2, RowFields DEF Row, OneRow, Stock
    <3>4. /\ Save(c) /\ sold' = sold + call[c].n /\ beside' = beside
          /\ pc'[c] = "done" /\ result'[c] # "notEnough"
      BY <2>4, <2>11, <3>2, <3>3 DEF SaveOrder, SaveClashes
    <3>5. Entity(c).qty = seen[c].qty - call[c].n /\ Entity(c) \in Rows
      BY <2>4, <3>1, <3>2 DEF Entity, Orders, Rows
    <3>6. /\ table'[FirstId] \in Rows
          /\ \/ table'[FirstId].qty = Stock /\ stored[c].qty = seen[c].qty - call[c].n
             \/ table'[FirstId].qty = seen[c].qty - call[c].n
          /\ \A i \in Ids \ {FirstId} : table'[i] = table[i]
      <4>1. CASE stored[c] = Entity(c) /\ NoWrite
        BY <2>2, <3>3, <3>5, <4>1 DEF NoWrite, OneRow
      <4>2. CASE \E v \in SavedVersions(c) :
                    Write(c, Id(c), [qty |-> SavedQuantity(c), version |-> v])
        <5>1. PICK v \in SavedVersions(c) :
                      Write(c, Id(c), [qty |-> SavedQuantity(c), version |-> v])
          BY <4>2
        <5>2. [qty |-> SavedQuantity(c), version |-> v] \in Rows
          BY <3>2, <3>3, <3>5, SavedColumns
        <5>3. \/ SavedQuantity(c) = Stock /\ stored[c].qty = seen[c].qty - call[c].n
              \/ SavedQuantity(c) = seen[c].qty - call[c].n
          BY <3>3, <3>5 DEF SavedQuantity
        <5>4. table' = [table EXCEPT ![FirstId] = [qty |-> SavedQuantity(c), version |-> v]]
          BY <3>2, <5>1 DEF Write
        <5> QED
          BY <2>4, <5>2, <5>3, <5>4
      <4> QED
        BY <3>2, <3>3, <3>4, <4>1, <4>2 DEF Save
    <3>7. OneRow'
      BY <2>2, <3>6 DEF OneRow
    <3>8. Sums'
      <4>1. Stock' = table'[FirstId].qty
        BY DEF Stock
      <4>2. Stock + sold >= FirstQuantity
        BY <2>2 DEF Sums
      <4> QED
        BY <2>4, <3>2, <3>4, <3>6, <4>1, <4>2 DEF Sums
    <3>9. OrderSums(c)' /\ RefusalHolds(c)'
      BY <3>4 DEF OrderSums, RefusalHolds
    <3>10. ASSUME NEW d \in Callers, d # c
           PROVE  OrderSums(d)' /\ RefusalHolds(d)'
      <4>1. UNCHANGED Local(d)
        BY <1>2, <3>10, OthersAsTheyWere
      <4>2. ~Orders(d)
        BY <2>2, <3>1, <3>10 DEF OneOrder
      <4>3. RefusalHolds(d) /\ call[d].n \in Nat
        BY <2>1, CallFields DEF BalanceInv
      <4>4. RefusalHolds(d)'
        BY <2>4, <3>4, <4>1, <4>3 DEF RefusalHolds, Local
      <4> QED
        BY <4>1, <4>2, <4>4 DEF OrderSums, Orders, Local
    <3> QED
      BY <2>3, <3>7, <3>8, <3>9, <3>10 DEF BalanceInv
  <2>12. CASE SaveUpdate(c) \/ DeleteRow(c) \/ InsertRow(c)
    BY <2>1, <2>12 DEF SaveUpdate, DeleteRow, InsertRow
  <2>13. CASE Compare(c)
    <3>1. UNCHANGED <<table, sold, beside, call, seen, result>> /\ pc[c] = "comparing"
          /\ pc'[c] = "saving" /\ stored'[c] = Row(c)
      BY <2>13 DEF Compare, NoWrite
    <3>2. OrderSums(c)'
      <4>1. CASE Orders(c)'
        <5>1. Orders(c)
          BY <2>1, <3>1, <4>1 DEF Orders
        <5>2. /\ Id(c) = FirstId /\ seen[c].qty >= Stock
              /\ seen[c].qty + sold <= FirstQuantity + beside
          BY <2>2, <3>1, <5>1 DEF OrderSums
        <5>3. Row(c) \in Rows /\ Row(c).qty = Stock
          BY <2>2, <5>2 DEF Row, OneRow, Stock
        <5>4. Row(c).qty >= Stock
          BY <2>4, <5>3
        <5> QED
          BY <3>1, <5>2, <5>3, <5>4 DEF OrderSums, Stock, Id
      <4>2. CASE ~Orders(c)'
        BY <4>2 DEF OrderSums
      <4> QED
        BY <4>1, <4>2
    <3>3. RefusalHolds(c)'
      BY <2>2, <3>1 DEF RefusalHolds
    <3> QED
      BY <1>2, <2>1, <2>3, <3>1, <3>2, <3>3, QuietKeepsBalance
  <2> QED
    BY <1>2, <2>6, <2>7, <2>8, <2>9, <2>10, <2>11, <2>12, <2>13 DEF Steps
<1> QED
  BY <1>1, <1>2, NextIsAStep DEF BalanceInv

\* "Not enough stock" is final for all callers and quantities, while only
\* decreases and orders work on the inventory.
THEOREM RefusalsAreFinal == Spec => []ShortForGood
<1>1. BalanceInv => ShortForGood
  BY DEF BalanceInv, RefusalHolds, ShortForGood
<1> QED
  BY <1>1, TypeInit, TypeKept, BalanceInit, BalanceKept, PTL DEF Spec

\* For all callers and quantities: orders undo nothing but the decreases that
\* hit between their read and their save, and nothing is taken twice.
THEOREM LossIsBounded == Spec => []OnlyDecreasesBesideOrdersAreLost
<1>1. BalanceInv => OnlyDecreasesBesideOrdersAreLost
  BY DEF BalanceInv, Sums, Stock, OnlyDecreasesBesideOrdersAreLost
<1> QED
  BY <1>1, TypeInit, TypeKept, BalanceInit, BalanceKept, PTL DEF Spec

-----------------------------------------------------------------------------
(* Decreases alone implement the stock ledger *)

AskedInv == call \in [Callers -> Calls] /\ OneRow

\* If callers only decrease the inventory, every step of theirs sells what one
\* call asks for, out of what is in stock, or changes nothing: the version and
\* the quantity in the WHERE clause do what the leases do for orders.
THEOREM DecreasesImplementLedger ==
  ASSUME \A k \in Calls : k.op = "decrease"
  PROVE  Spec => ImplementsLedger
<1>1. Init => Ledger!LedgerInit /\ AskedInv
  <2> SUFFICES ASSUME Init PROVE Ledger!LedgerInit /\ AskedInv
    OBVIOUS
  <2>1. table[FirstId] = [qty |-> FirstQuantity, version |-> 1] /\ FirstQuantity \in Nat
        /\ \A i \in Ids \ {FirstId} : table[i] = NoRow
    BY InventoryAssumption DEF Init, Ids
  <2> QED
    BY <2>1 DEF Init, AskedInv, OneRow, Rows, Ledger!LedgerInit
<1>2. TypeInv /\ AskedInv /\ [Next]_vars => AskedInv' /\ [Ledger!LedgerNext]_(Ledger!ledgerVars)
  <2> SUFFICES ASSUME TypeInv, AskedInv, [Next]_vars
               PROVE  AskedInv' /\ [Ledger!LedgerNext]_(Ledger!ledgerVars)
    OBVIOUS
  <2>1. ASSUME UNCHANGED <<call, table, sold>>
        PROVE  AskedInv' /\ [Ledger!LedgerNext]_(Ledger!ledgerVars)
    BY <2>1 DEF AskedInv, OneRow, Ledger!ledgerVars
  <2>2. CASE UNCHANGED vars
    BY <2>1, <2>2 DEF vars, callVars
  <2>3. ASSUME NEW c \in Callers, Steps(c)
        PROVE  AskedInv' /\ [Ledger!LedgerNext]_(Ledger!ledgerVars)
    <3>1. /\ call[c] \in Calls /\ call[c].op = "decrease" /\ call[c].n \in Nat /\ Id(c) \in Ids
          /\ table[FirstId] \in Rows
      BY <2>3, CallFields, InventoryAssumption DEF AskedInv, OneRow, Id
    <3>2. CASE DecreaseHit(c)
      <4>1. PICK k \in Calls : k = call[c]
        BY <3>1
      <4> DEFINE n == k.n
                 left == [qty |-> Row(c).qty - n, version |-> Row(c).version + 1]
                 sale == [i \in {FirstId} |-> n]
      <4>2. Id(c) = FirstId /\ Row(c) = table[FirstId]
        BY <3>1, <3>2 DEF DecreaseHit, Matches, AskedInv, OneRow, Row
      <4>3. /\ Row(c).qty \in Nat /\ Row(c).version \in Nat /\ n <= Row(c).qty
            /\ table' = [table EXCEPT ![FirstId] = left] /\ sold' = sold + n /\ call' = call
        BY <3>1, <3>2, <4>1, <4>2, RowFields DEF DecreaseHit, Matches, Write, Answer, callVars
      <4>4. /\ table'[FirstId] = left /\ left.qty = table[FirstId].qty - n
            /\ \A i \in Ids \ {FirstId} : table'[i] = table[i]
        BY <4>2, <4>3 DEF TypeInv, TypeOK, Ids
      <4>5. left \in Rows
        <5>1. Row(c).qty - n \in Nat /\ Row(c).version + 1 \in Nat
          BY <3>1, <4>1, <4>3
        <5> QED
          BY <5>1 DEF Rows
      <4>6. sale \in {[i \in {FirstId} |-> a.n] : a \in Calls}
        OBVIOUS
      <4>7. Ledger!Sell(sale)
        <5>1. Ledger!Taken(sale, FirstId) = n /\ DOMAIN sale = {FirstId} /\ sale[FirstId] = n
          BY DEF Ledger!Taken
        <5>2. table'[FirstId].qty = table[FirstId].qty - n /\ n <= table[FirstId].qty
          BY <4>2, <4>3, <4>4
        <5> HIDE DEF sale, left
        <5> QED
          BY <4>3, <5>1, <5>2 DEF Ledger!Sell
      <4>8. AskedInv'
        BY <4>3, <4>4, <4>5 DEF AskedInv, OneRow
      <4>9. Ledger!LedgerNext
        BY <4>6, <4>7 DEF Ledger!LedgerNext
      <4> QED
        BY <4>8, <4>9
    <3>3. CASE ~DecreaseHit(c)
      <4>1. UNCHANGED <<call, table, sold>>
        BY <2>3, <3>1, <3>3 DEF Steps, Start, Find, FindForOrder, DecreaseMiss, Reread, Compare,
           SaveOrder, SaveUpdate, DeleteRow, InsertRow, DbError, Answer, NoWrite, callVars
      <4> QED
        BY <2>1, <4>1
    <3> QED
      BY <3>2, <3>3
  <2> QED
    BY <2>2, <2>3, NextIsAStep
<1> QED
  BY <1>1, <1>2, TypeInit, TypeKept, PTL DEF Spec, ImplementsLedger, Ledger!LedgerSpec

=============================================================================
