---------------------------- MODULE GatewayProofs -----------------------------
(* What Gateway guarantees for all requests, workloads, users, orders and    *)
(* payments, and EmailDelivery for all mails, workers and attempts.          *)
EXTENDS Gateway, FiniteSetTheorems, TLAPS

-----------------------------------------------------------------------------
(* The exception filter *)

Exceptions == {NotFoundException, UnauthorizedException, BadRequestList, UniqueViolation,
               ForeignKeyViolation, ConnectionLost, PlainError}

LEMMA FixedIsAnAnswer ==
  ASSUME NEW status \in Statuses, NEW errorType \in ErrorTypes
  PROVE  Fixed(status, errorType) \in Answers /\ Fixed(status, errorType).status = status
BY DEF Fixed, Answers, Messages

LEMMA HttpIsAnAnswer ==
  ASSUME NEW status \in Statuses, NEW text \in {"english", "arabic", "list"}
  PROVE  /\ Caught(Http(status, text)) \in Answers
         /\ Caught(Http(status, text)).status = status
<1>1. Caught(Http(status, text)) = HttpAnswer(Http(status, text))
  BY DEF Caught, Http
<1>2. HttpAnswer(Http(status, text)).status = status
  BY DEF HttpAnswer, Http
<1>3. HttpAnswer(Http(status, text)) \in Answers
  BY DEF HttpAnswer, Http, Answers, ErrorTypes, Messages
<1> QED
  BY <1>1, <1>2, <1>3

LEMMA FixedAnswers ==
  /\ Caught(UniqueViolation) \in Answers /\ Caught(UniqueViolation).status = 409
  /\ Caught(ForeignKeyViolation) \in Answers /\ Caught(ForeignKeyViolation).status = 400
  /\ Caught(ConnectionLost) \in Answers /\ Caught(ConnectionLost).status = 500
  /\ Caught(PlainError) \in Answers /\ Caught(PlainError).status = 500
<1>1. /\ Caught(UniqueViolation) = Fixed(409, "DATABASE_UNIQUE_CONFLICT")
      /\ Caught(ForeignKeyViolation) = Fixed(400, "DATABASE_FOREIGN_KEY_FAILED")
      /\ Caught(ConnectionLost) = Fixed(500, "DATABASE_ERROR")
      /\ Caught(PlainError) = Fixed(500, "CRITICAL_SYSTEM_CRASH")
  BY DEF Caught, DatabaseAnswer, QueryFailed, UniqueViolation, ForeignKeyViolation,
         ConnectionLost, PlainError
<1>2. {400, 409, 500} \subseteq Statuses
  BY DEF Statuses
<1>3. /\ "DATABASE_UNIQUE_CONFLICT" \in ErrorTypes /\ "DATABASE_FOREIGN_KEY_FAILED" \in ErrorTypes
      /\ "DATABASE_ERROR" \in ErrorTypes /\ "CRITICAL_SYSTEM_CRASH" \in ErrorTypes
  BY DEF ErrorTypes
<1> QED
  BY <1>1, <1>2, <1>3, FixedIsAnAnswer

\* Nothing that the services throw is answered as a success.
LEMMA CaughtIsAnAnswer ==
  ASSUME NEW exception \in Exceptions
  PROVE  /\ Caught(exception) \in Answers
         /\ Caught(exception).status \in {400, 401, 404, 409, 500}
<1>1. CASE exception \in {NotFoundException, UnauthorizedException, BadRequestList}
  BY <1>1, HttpIsAnAnswer
     DEF NotFoundException, UnauthorizedException, BadRequestList, Statuses
<1>2. CASE exception \in {UniqueViolation, ForeignKeyViolation, ConnectionLost, PlainError}
  BY <1>2, FixedAnswers
<1> QED
  BY <1>1, <1>2 DEF Exceptions

LEMMA OkIsAnAnswer == [status |-> 200] \in Answers /\ [status |-> 200].status = 200
BY DEF Answers

-----------------------------------------------------------------------------
(* Types *)

Steps(r) ==
    \/ Arrive(r) \/ Progress(r) \/ StepFails(r) \/ PlaceOrder(r) \/ RemoveOrder(r)

LEMMA NextIsAStep == Next => (\E r \in Requests : Steps(r)) \/ Mailing
BY DEF Next, Steps

\* Which calls get where, and what a request that creates a row has in hand.
PcFits ==
    \A r \in Requests :
        /\ pc[r] \in {"guard", "pipe"} => call[r].op \notin Public \cup Elsewhere
        /\ pc[r] = "findEmail" => call[r].op \in Public
        /\ pc[r] = "find" => call[r].op \in {"find", "update", "remove"}
        /\ pc[r] \in {"diff", "update"} => call[r].op = "update"
        /\ pc[r] = "delete" => call[r].op = "remove"
        /\ pc[r] = "insert" => call[r].op \in {"register", "create", "update"}
        /\ pc[r] = "insert" /\ call[r].op \in {"register", "create"} => entity[r] = NewRow(r)
        /\ pc[r] = "enqueue" => call[r].op = "queueMail"
        /\ pc[r] = "send" => call[r].op = "sendMail"

\* A job that has not ended has attempts and stalls left.
QueueFits ==
    \A m \in Mails :
        /\ state[m] = "absent" => failures[m] = 0 /\ stalls[m] = 0
        /\ state[m] \in {"waiting", "active", "completed"} =>
              failures[m] < MaxAttempts /\ stalls[m] <= MaxStalled
        /\ failures[m] + stalls[m] <= MaxAttempts + MaxStalled

MailInv == MailTypeOK /\ QueueFits
TypeInv == MailInv /\ TablesOK /\ RequestsOK /\ PcFits

LEMMA CallFields ==
  ASSUME RequestsOK, NEW r \in Requests
  PROVE  /\ call[r] \in Call /\ call[r].op \in Ops /\ Table(r) \in Tables
         /\ Id(r) \in Ids /\ r \in Ids /\ call[r].as \in Ids
         /\ call[r].key \in KeysOf(Table(r)) \cup {NoRow}
         /\ call[r].op \in Public \cup {"create"} => call[r].key \in KeysOf(Table(r))
         /\ call[r].op \in Public => Table(r) = "users"
<1>1. call \in Workloads /\ call \in [Requests -> Call]
  BY GatewayAssumption DEF RequestsOK
<1>2. /\ call[r].key \in KeysOf(call[r].table) \cup {NoRow}
      /\ call[r].op \in Public \cup {"create"} => call[r].key # NoRow
      /\ call[r].op \in Public => call[r].table = "users"
  BY <1>1, GatewayAssumption
<1> QED
  BY <1>1, <1>2 DEF Call, Ids, Table, Id

LEMMA RowFields ==
  ASSUME NEW t \in Tables
  PROVE  /\ NoRow \notin Rows(t) /\ Rows(t) \subseteq AnyRow /\ NoRow \in AnyRow
         /\ \A row \in Rows(t) : row.key \in KeysOf(t) /\ row.by \in Ids
         /\ \A key \in KeysOf(t), by \in Ids : [key |-> key, by |-> by] \in Rows(t)
BY GatewayAssumption DEF Tables, AnyRow, Rows

LEMMA RowTyped ==
  ASSUME TablesOK, RequestsOK, NEW r \in Requests
  PROVE  /\ Row(r) \in Rows(Table(r)) \cup {NoRow}
         /\ entity[r] \in Rows(Table(r)) \cup {NoRow}
BY CallFields DEF TablesOK, RequestsOK, Row, Table

LEMMA AnswerTyped ==
  ASSUME RequestsOK, PcFits, NEW r \in Requests, NEW what \in Answers, Answer(r, what),
         wrote' \subseteq Requests
  PROVE  RequestsOK' /\ PcFits'
BY DEF RequestsOK, PcFits, Answer, Goto, AnyRow, NewRow

LEMMA OkTyped ==
  ASSUME RequestsOK, PcFits, NEW r \in Requests, Ok(r), wrote' \subseteq Requests
  PROVE  RequestsOK' /\ PcFits'
BY OkIsAnAnswer, AnswerTyped DEF Ok

LEMMA ThrowTyped ==
  ASSUME RequestsOK, PcFits, NEW r \in Requests, NEW exception \in Exceptions, Throw(r, exception),
         wrote' \subseteq Requests
  PROVE  RequestsOK' /\ PcFits'
BY CaughtIsAnAnswer, AnswerTyped DEF Throw

LEMMA UnchangedTyped ==
  ASSUME MailInv, TablesOK, RequestsOK, Unchanged
  PROVE  MailInv' /\ TablesOK' /\ wrote' \subseteq Requests
BY DEF MailInv, MailTypeOK, QueueFits, TablesOK, RequestsOK, Unchanged, mailVars, tableVars,
       MailQueue!QueueTypeOK, MailQueue!Ended

LEMMA PutTyped ==
  ASSUME MailInv, TablesOK, RequestsOK, NEW r \in Requests, NEW t \in Tables, NEW i \in Ids,
         NEW row \in Rows(t) \cup {NoRow},
         t = "users" /\ row = NoRow => i \notin referenced,
         t = "payments" /\ row # NoRow => row.key \in orders,
         Put(r, t, i, row)
  PROVE  MailInv' /\ TablesOK' /\ wrote' \subseteq Requests
<1>1. MailInv'
  BY DEF MailInv, MailTypeOK, QueueFits, Put, mailVars, MailQueue!QueueTypeOK, MailQueue!Ended
<1>2. /\ rows' \in [Tables -> [Ids -> AnyRow]]
      /\ \A u \in Tables, j \in Ids : rows'[u][j] = IF u = t /\ j = i THEN row ELSE rows[u][j]
  BY RowFields DEF TablesOK, Put
<1>3. \A u \in Tables, j \in Ids : rows'[u][j] \in Rows(u) \cup {NoRow}
  BY <1>2 DEF TablesOK
<1>4. referenced' \subseteq {j \in Ids : rows'["users"][j] # NoRow}
  BY <1>2 DEF TablesOK, Put, Tables
<1>5. \A j \in Ids : rows'["payments"][j] # NoRow => rows'["payments"][j].key \in orders'
  BY <1>2 DEF TablesOK, Put, Tables
<1>6. freed' \in [Emails -> Nat]
  <2>1. t = "users" /\ rows[t][i] # NoRow => rows[t][i].key \in Emails
    BY RowFields DEF TablesOK, KeysOf
  <2> QED
    BY <2>1 DEF TablesOK, Put
<1>7. wrote' \subseteq Requests /\ orders' \subseteq Orders
  BY DEF Put, TablesOK, RequestsOK
<1> QED
  BY <1>1, <1>2, <1>3, <1>4, <1>5, <1>6, <1>7 DEF TablesOK

LEMMA TypeInit == Init => TypeInv
<1> SUFFICES ASSUME Init
             PROVE  TypeInv
  OBVIOUS
<1>1. MailInv
  BY EmailAssumption, GatewayAssumption
     DEF Init, MailInit, MailInv, MailTypeOK, QueueFits, MailQueue!QueueInit,
         MailQueue!QueueTypeOK, MailQueue!Ended
<1>2. /\ [key |-> OldKeys["users"], by |-> Old] \in Rows("users")
      /\ [key |-> OldKeys["payments"], by |-> Old] \in Rows("payments")
  BY GatewayAssumption, RowFields DEF Tables, KeysOf, Ids
<1>3. rows \in [Tables -> [Ids -> AnyRow]] /\ orders = Orders /\ referenced = {}
  BY <1>2 DEF Init, AnyRow, Tables
<1>4. \A t \in Tables, i \in Ids : rows[t][i] \in Rows(t) \cup {NoRow}
  BY <1>2 DEF Init, Tables
<1>5. \A i \in Ids : rows["payments"][i] # NoRow => rows["payments"][i].key \in orders
  BY GatewayAssumption DEF Init, Tables
<1>6. TablesOK
  BY <1>3, <1>4, <1>5 DEF Init, TablesOK
<1>7. RequestsOK /\ PcFits
  BY DEF Init, RequestsOK, PcFits, AnyRow, NoAnswer, Answers, Running
<1> QED
  BY <1>1, <1>6, <1>7 DEF TypeInv

LEMMA EnqueueTyped ==
  ASSUME MailInv, NEW m \in Mails, Enqueue(m)
  PROVE  MailInv'
BY EmailAssumption DEF MailInv, MailTypeOK, QueueFits, Enqueue, MailQueue!Add, MailQueue!QueueTypeOK,
                       MailQueue!Ended

LEMMA DirectTyped ==
  ASSUME MailInv, NEW m \in Mails, SentDirectly(m) \/ SendRejected(m)
  PROVE  MailInv'
<1>1. accepted' \in [Mails -> Nat]
  BY DEF MailInv, MailTypeOK, SentDirectly, SendRejected, Accept
<1>2. attempt' \in [Mails -> 1..MaxAttempts]
  BY EmailAssumption DEF MailInv, MailTypeOK, SentDirectly, SendRejected, LastAttempt
<1>3. UNCHANGED <<state, holder, failures, stalls, sending>>
  BY DEF SentDirectly, SendRejected
<1> QED
  BY <1>1, <1>2, <1>3 DEF MailInv, MailTypeOK, QueueFits, MailQueue!QueueTypeOK, MailQueue!Ended

LEMMA MailStepTyped ==
  ASSUME MailInv, MailStep
  PROVE  MailInv'
<1> USE EmailAssumption DEF MailInv, MailTypeOK, QueueFits, MailQueue!QueueTypeOK, MailQueue!Ended
<1>1. ASSUME NEW w \in MailWorkers, Send(w)
      PROVE  MailInv'
  BY <1>1 DEF Send, At, Accept
<1>2. ASSUME NEW w \in MailWorkers, Report(w)
      PROVE  MailInv'
  <2>1. sending[w].job \in Mails /\ sending' \in [MailWorkers ->
           [job : Mails, phase : {"sending", "sent", "threw"}] \cup {Nobody}]
        /\ UNCHANGED <<attempt, accepted>>
    BY <1>2 DEF Report, At
  <2>2. CASE MailQueue!Complete(w, sending[w].job)
    BY <2>1, <2>2 DEF MailQueue!Complete, MailQueue!LetGo, MailQueue!queueVars
  <2>3. CASE MailQueue!FailAttempt(w, sending[w].job)
    <3> DEFINE j == sending[w].job
    <3>1. CASE UNCHANGED MailQueue!queueVars
      BY <2>1, <3>1 DEF MailQueue!queueVars
    <3>2. CASE /\ holder[j] = w
               /\ failures' = [failures EXCEPT ![j] = @ + 1]
               /\ MailQueue!LetGo(j, IF failures'[j] = MaxAttempts THEN "failed" ELSE "waiting")
               /\ UNCHANGED stalls
      <4>1. /\ failures[j] \in Nat /\ failures[j] < MaxAttempts
            /\ stalls[j] \in Nat /\ stalls[j] <= MaxStalled
            /\ failures \in [Mails -> 0..MaxAttempts] /\ j \in Mails
            /\ failures'[j] = failures[j] + 1 /\ stalls' = stalls
        BY <2>1, <3>2
      <4>2. /\ failures' \in [Mails -> 0..MaxAttempts]
            /\ failures'[j] = MaxAttempts \/ failures'[j] < MaxAttempts
            /\ failures'[j] + stalls'[j] <= MaxAttempts + MaxStalled
        <5>1. failures[j] + 1 \in 0..MaxAttempts
          BY <4>1
        <5>2. failures' \in [Mails -> 0..MaxAttempts]
          BY <3>2, <4>1, <5>1
        <5>3. /\ failures'[j] = MaxAttempts \/ failures'[j] < MaxAttempts
              /\ failures'[j] + stalls'[j] <= MaxAttempts + MaxStalled
          BY <4>1
        <5> QED
          BY <5>2, <5>3
      <4>3. /\ state' = [state EXCEPT ![j] = IF failures'[j] = MaxAttempts THEN "failed" ELSE "waiting"]
            /\ holder' = [holder EXCEPT ![j] = Nobody]
        BY <3>2 DEF MailQueue!LetGo
      <4>4. MailTypeOK'
        BY <2>1, <3>2, <4>2, <4>3
      <4>5. QueueFits'
        BY <2>1, <3>2, <4>1, <4>2, <4>3
      <4> QED
        BY <4>4, <4>5
    <3> QED
      BY <2>3, <3>1, <3>2 DEF MailQueue!FailAttempt
  <2> QED
    BY <1>2, <2>2, <2>3 DEF Report
<1>3. ASSUME NEW w \in MailWorkers, WorkerDies(w)
      PROVE  MailInv'
  BY <1>3 DEF WorkerDies
<1>4. ASSUME NEW w \in MailWorkers, NEW m \in Mails, TakeMail(w, m)
      PROVE  MailInv'
  BY <1>4 DEF TakeMail, MailQueue!Take
<1>5. ASSUME NEW m \in Mails, StallMail(m)
      PROVE  MailInv'
  BY <1>5 DEF StallMail, MailQueue!Stall, MailQueue!LetGo
<1> QED
  BY <1>1, <1>2, <1>3, <1>4, <1>5 DEF MailStep


LEMMA ContinueTyped ==
  ASSUME RequestsOK, PcFits, NEW r \in Requests, NEW label, Continue(r, label),
         wrote' \subseteq Requests,
         \/ label = "findEmail" /\ call[r].op \in Public
         \/ label \in {"guard", "pipe"} /\ call[r].op \notin Public \cup Elsewhere
         \/ label = "delete" /\ call[r].op = "remove"
         \/ label = "insert" /\ call[r].op = "update" /\ entity[r] # NoRow
         \/ label = "send" /\ call[r].op = "sendMail"
  PROVE  RequestsOK' /\ PcFits'
BY DEF RequestsOK, PcFits, Continue, Goto, callVars, Running, Public, Elsewhere, NewRow

\* A request goes on with a row in hand that it is going to save.
LEMMA EntityTyped ==
  ASSUME RequestsOK, PcFits, NEW r \in Requests, NEW label, NEW row \in Rows(Table(r)),
         Goto(r, label), entity' = [entity EXCEPT ![r] = row], UNCHANGED <<call, dirty, answer>>,
         wrote' \subseteq Requests,
         \/ /\ label = "insert" /\ call[r].op \in {"register", "create"}
            /\ row = NewRow(r)
         \/ label = "diff" /\ call[r].op = "update"
  PROVE  RequestsOK' /\ PcFits'
<1>1. row \in AnyRow /\ row # NoRow /\ row \in Rows(call[r].table)
  BY CallFields, RowFields DEF Table
<1> QED
  BY <1>1 DEF RequestsOK, PcFits, Goto, Running, NewRow

LEMMA NewRowTyped ==
  ASSUME RequestsOK, NEW r \in Requests, call[r].op \in {"register", "create"}
  PROVE  NewRow(r) \in Rows(Table(r))
BY CallFields, RowFields DEF NewRow, Public

LEMMA InsertTyped ==
  ASSUME TypeInv, NEW r \in Requests, Insert(r)
  PROVE  TypeInv'
<1> DEFINE t == Table(r)
           i == NewId(r)
<1>1. /\ t \in Tables /\ i \in Ids /\ entity[r] \in Rows(t)
  BY CallFields, RowTyped DEF Insert, NewId, TypeInv, RequestsOK
<1>2. MailInv' /\ TablesOK' /\ wrote' \subseteq Requests
  <2>1. CASE Unchanged
    BY <2>1, UnchangedTyped DEF TypeInv
  <2>2. CASE ~OrderMissing(t, entity[r].key) /\ Put(r, t, i, entity[r])
    BY <1>1, <2>2, PutTyped, RowFields DEF TypeInv, OrderMissing
  <2> QED
    BY <2>1, <2>2 DEF Insert
<1>3. CASE Ok(r)
  BY <1>2, <1>3, OkTyped DEF TypeInv
<1>4. ASSUME NEW exception \in Exceptions, Throw(r, exception)
      PROVE  TypeInv'
  BY <1>2, <1>4, ThrowTyped DEF TypeInv
<1> QED
  BY <1>3, <1>4 DEF Insert, Done, Exceptions

LEMMA UpdatedTyped ==
  ASSUME TypeInv, NEW r \in Requests, pc[r] = "update", Row(r) # NoRow
  PROVE  Updated(r) \in Rows(Table(r))
<1>1. Table(r) \in Tables /\ Row(r) \in Rows(Table(r)) /\ entity[r] \in Rows(Table(r))
  BY CallFields, RowTyped DEF TypeInv, RequestsOK
<1> QED
  BY <1>1 DEF Updated, Rows

LEMMA UpdateTyped ==
  ASSUME TypeInv, NEW r \in Requests, Update(r)
  PROVE  TypeInv'
<1> DEFINE t == Table(r)
           i == Id(r)
<1>1. t \in Tables /\ i \in Ids /\ (Row(r) # NoRow => Updated(r) \in Rows(t))
  BY CallFields, UpdatedTyped DEF Update, TypeInv
<1>2. MailInv' /\ TablesOK' /\ wrote' \subseteq Requests
  <2>1. CASE Unchanged
    BY <2>1, UnchangedTyped DEF TypeInv
  <2>2. CASE /\ Row(r) # NoRow /\ ~OrderMissing(t, Updated(r).key)
             /\ Put(r, t, i, Updated(r))
    BY <1>1, <2>2, PutTyped, RowFields DEF TypeInv, OrderMissing
  <2> QED
    BY <2>1, <2>2 DEF Update
<1>3. CASE Ok(r)
  BY <1>2, <1>3, OkTyped DEF TypeInv
<1>4. ASSUME NEW exception \in Exceptions, Throw(r, exception)
      PROVE  TypeInv'
  BY <1>2, <1>4, ThrowTyped DEF TypeInv
<1> QED
  BY <1>3, <1>4 DEF Update, Done, Exceptions

LEMMA DeleteTyped ==
  ASSUME TypeInv, NEW r \in Requests, Delete(r)
  PROVE  TypeInv'
<1> DEFINE t == Table(r)
           i == Id(r)
<1>1. t \in Tables /\ i \in Ids
  BY CallFields DEF TypeInv
<1>2. MailInv' /\ TablesOK' /\ wrote' \subseteq Requests
  <2>1. CASE Unchanged
    BY <2>1, UnchangedTyped DEF TypeInv
  <2>2. CASE ~IsReferenced(t, i) /\ Put(r, t, i, NoRow)
    BY <1>1, <2>2, PutTyped DEF TypeInv, IsReferenced
  <2> QED
    BY <2>1, <2>2 DEF Delete
<1>3. CASE Ok(r)
  BY <1>2, <1>3, OkTyped DEF TypeInv
<1>4. ASSUME NEW exception \in Exceptions, Throw(r, exception)
      PROVE  TypeInv'
  BY <1>2, <1>4, ThrowTyped DEF TypeInv
<1> QED
  BY <1>3, <1>4 DEF Delete, Done, Exceptions

\* The steps of a request that change no table and no mail.
LEMMA ReadTyped ==
  ASSUME TypeInv, NEW r \in Requests,
         Arrive(r) \/ Guard(r) \/ Pipe(r) \/ FindEmail(r) \/ Find(r) \/ Diff(r) \/ StepFails(r)
  PROVE  TypeInv'
<1>1. MailInv' /\ TablesOK' /\ wrote' \subseteq Requests
  <2>1. Unchanged
    BY DEF Arrive, Guard, Pipe, FindEmail, Find, Diff, StepFails
  <2> QED
    BY <2>1, UnchangedTyped DEF TypeInv
<1>2. ASSUME NEW exception \in Exceptions, Throw(r, exception)
      PROVE  TypeInv'
  BY <1>1, <1>2, ThrowTyped DEF TypeInv
<1>3. CASE Ok(r)
  BY <1>1, <1>3, OkTyped DEF TypeInv
<1>4. /\ call[r].op \in Ops /\ (Row(r) # NoRow => Row(r) \in Rows(Table(r)))
      /\ Table(r) \in Tables
  BY CallFields, RowTyped DEF TypeInv
<1>5. CASE Arrive(r)
  BY <1>1, <1>4, <1>5, ContinueTyped DEF Arrive, TypeInv
<1>6. CASE Guard(r)
  BY <1>1, <1>2, <1>6, ContinueTyped DEF Guard, TypeInv, PcFits, Exceptions
<1>7. CASE Pipe(r)
  <2>1. CASE call[r].op = "create" /\ call[r].valid
    BY <1>1, <1>7, <2>1, EntityTyped, NewRowTyped DEF Pipe, Handler, TypeInv
  <2>2. CASE call[r].op # "create" /\ call[r].valid
    <3>1. call[r].op \in {"find", "update", "remove", "queueMail", "sendMail"} /\ pc[r] = "pipe"
      BY <1>4, <1>7, <2>2 DEF Pipe, TypeInv, PcFits, Ops
    <3>2. /\ pc' = [pc EXCEPT ![r] = IF call[r].op = "queueMail" THEN "enqueue"
                                     ELSE IF call[r].op = "sendMail" THEN "send" ELSE "find"]
          /\ UNCHANGED <<callVars, answer>>
      BY <1>7, <2>2, <3>1 DEF Pipe, Handler, Goto, callVars
    <3>3. RequestsOK' /\ PcFits'
      BY <1>1, <3>1, <3>2 DEF TypeInv, RequestsOK, PcFits, callVars, Running, NewRow
    <3> QED
      BY <1>1, <3>3 DEF TypeInv
  <2> QED
    BY <1>2, <1>7, <2>1, <2>2 DEF Pipe, Exceptions
<1>8. CASE FindEmail(r)
  <2>1. CASE /\ call[r].op = "register"
             /\ Goto(r, "insert")
             /\ entity' = [entity EXCEPT ![r] = NewRow(r)]
             /\ UNCHANGED <<call, dirty, answer>>
    BY <1>1, <2>1, EntityTyped, NewRowTyped DEF TypeInv
  <2> QED
    BY <1>2, <1>3, <1>8, <2>1 DEF FindEmail, Exceptions
<1>9. CASE Find(r)
  <2>1. CASE call[r].op = "update" /\ Row(r) # NoRow
    <3>1. Assigned(r) \in Rows(Table(r))
      BY <1>4, <2>1, CallFields, RowFields DEF Assigned, TypeInv
    <3> QED
      BY <1>1, <1>9, <2>1, <3>1, EntityTyped DEF Find, TypeInv
  <2>2. CASE call[r].op = "remove" /\ Continue(r, "delete")
    BY <1>1, <2>2, ContinueTyped DEF TypeInv
  <2> QED
    BY <1>2, <1>3, <1>9, <2>1, <2>2 DEF Find, Exceptions
<1>10. CASE Diff(r)
  <2>1. call[r].op = "update" /\ pc[r] = "diff" /\ entity[r] # NoRow
    BY <1>10 DEF Diff, TypeInv, RequestsOK, PcFits
  <2>2. CASE Continue(r, "insert")
    BY <1>1, <2>1, <2>2, ContinueTyped DEF TypeInv
  <2>3. CASE /\ dirty' = [dirty EXCEPT ![r] = {c \in {"key", "by"} : entity[r][c] # Row(r)[c]}]
             /\ Goto(r, "update")
             /\ UNCHANGED <<call, entity, answer>>
    <3>1. RequestsOK'
      BY <1>1, <2>1, <2>3 DEF TypeInv, RequestsOK, Goto, Running
    <3>2. PcFits'
      BY <2>1, <2>3 DEF TypeInv, RequestsOK, PcFits, Goto, NewRow
    <3> QED
      BY <1>1, <3>1, <3>2 DEF TypeInv
  <2> QED
    BY <1>10, <2>2, <2>3 DEF Diff
<1>11. CASE StepFails(r)
  BY <1>2, <1>11 DEF StepFails, Exceptions
<1> QED
  BY <1>5, <1>6, <1>7, <1>8, <1>9, <1>10, <1>11


\* The requests to OrderController.
LEMMA ElsewhereTyped ==
  ASSUME TypeInv, NEW r \in Requests, PlaceOrder(r) \/ RemoveOrder(r)
  PROVE  TypeInv'
<1>1. MailInv'
  BY DEF PlaceOrder, RemoveOrder, TypeInv, MailInv, MailTypeOK, QueueFits, mailVars,
         MailQueue!QueueTypeOK, MailQueue!Ended
<1>2. TablesOK'
  <2>1. CASE PlaceOrder(r)
    BY <2>1, CallFields DEF PlaceOrder, TypeInv, TablesOK
  <2>2. CASE RemoveOrder(r)
    BY <2>2 DEF RemoveOrder, TypeInv, TablesOK
  <2> QED
    BY <2>1, <2>2
<1>3. RequestsOK' /\ PcFits'
  BY OkTyped DEF PlaceOrder, RemoveOrder, TypeInv, RequestsOK
<1> QED
  BY <1>1, <1>2, <1>3 DEF TypeInv

LEMMA ToMailTyped ==
  ASSUME TypeInv, NEW r \in Requests, QueueMail(r) \/ SendMail(r)
  PROVE  TypeInv'
<1>1. MailInv'
  BY EnqueueTyped, DirectTyped, GatewayAssumption DEF QueueMail, SendMail, TypeInv
<1>2. TablesOK' /\ wrote' \subseteq Requests
  BY DEF QueueMail, SendMail, tableVars, TypeInv, TablesOK, RequestsOK
<1>3. CASE Ok(r)
  BY <1>1, <1>2, <1>3, OkTyped DEF TypeInv
<1>4. CASE Throw(r, PlainError)
  BY <1>1, <1>2, <1>4, ThrowTyped DEF TypeInv, Exceptions
<1>5. CASE pc[r] = "send" /\ Continue(r, "send")
  BY <1>1, <1>2, <1>5, ContinueTyped DEF TypeInv, PcFits
<1> QED
  BY <1>3, <1>4, <1>5 DEF QueueMail, SendMail

LEMMA TypeKept == TypeInv /\ [Next]_vars => TypeInv'
<1> SUFFICES ASSUME TypeInv, [Next]_vars
             PROVE  TypeInv'
  OBVIOUS
<1>1. CASE UNCHANGED vars
  BY <1>1 DEF vars, mailVars, tableVars, callVars, TypeInv, MailInv, MailTypeOK, QueueFits,
              MailQueue!QueueTypeOK, MailQueue!Ended, TablesOK, RequestsOK, PcFits, NewRow
<1>2. CASE Mailing
  <2>1. MailInv'
    BY <1>2, MailStepTyped DEF Mailing, TypeInv
  <2> QED
    BY <1>2, <2>1 DEF Mailing, tableVars, callVars, TypeInv, TablesOK, RequestsOK, PcFits, NewRow
<1>3. ASSUME NEW r \in Requests, Steps(r)
      PROVE  TypeInv'
  BY <1>3, ReadTyped, InsertTyped, UpdateTyped, DeleteTyped, ToMailTyped, ElsewhereTyped
     DEF Steps, Progress
<1> QED
  BY <1>1, <1>2, <1>3, NextIsAStep

\* Types, and the order of things: a row refers only to rows that exist, a
\* request saves only what it has read, a job that goes on has attempts left.
THEOREM TypeCorrect == Spec => []TypeOK
<1>1. TypeInv => TypeOK
  BY DEF TypeInv, MailInv, TypeOK
<1> QED
  BY <1>1, TypeInit, TypeKept, PTL DEF Spec

-----------------------------------------------------------------------------
(* Honest answers *)

\* How a step of a request ends, as its client and the tables see it.
Pending(r) == pc'[r] # "done" /\ UNCHANGED <<answer, wrote>>
Refused(r) == answer'[r].status \in {400, 401, 404, 409, 500} /\ UNCHANGED wrote
Served(r) == /\ answer'[r].status = 200 /\ UNCHANGED wrote
             /\ call[r].op \notin {"register", "create", "queueMail"}
Written(r) == answer'[r].status \in {200, 500} /\ wrote' = wrote \cup {r}

Ends(r) == pc'[r] = "done" /\ (Refused(r) \/ Served(r) \/ Written(r))

\* A request takes no step after its end and speaks for itself only.
OwnStep(r) ==
    /\ pc[r] # "done" /\ call' = call
    /\ \A d \in Requests \ {r} : pc'[d] = pc[d] /\ answer'[d] = answer[d]

LEMMA OkOutcome ==
  ASSUME RequestsOK, NEW r \in Requests, Ok(r)
  PROVE  /\ answer'[r].status = 200 /\ pc'[r] = "done" /\ call' = call
         /\ \A d \in Requests \ {r} : pc'[d] = pc[d] /\ answer'[d] = answer[d]
BY OkIsAnAnswer DEF Ok, Answer, Goto, RequestsOK

LEMMA ThrowOutcome ==
  ASSUME RequestsOK, NEW r \in Requests, NEW exception \in Exceptions, Throw(r, exception)
  PROVE  /\ answer'[r].status = Caught(exception).status /\ pc'[r] = "done" /\ call' = call
         /\ answer'[r].status \in {400, 401, 404, 409, 500}
         /\ \A d \in Requests \ {r} : pc'[d] = pc[d] /\ answer'[d] = answer[d]
BY CaughtIsAnAnswer DEF Throw, Answer, Goto, RequestsOK

LEMMA DoneOutcome ==
  ASSUME RequestsOK, NEW r \in Requests, Done(r)
  PROVE  /\ answer'[r].status \in {200, 500} /\ pc'[r] = "done" /\ call' = call
         /\ \A d \in Requests \ {r} : pc'[d] = pc[d] /\ answer'[d] = answer[d]
BY OkOutcome, ThrowOutcome, FixedAnswers DEF Done, Exceptions

LEMMA WriteOutcome ==
  ASSUME TypeInv, NEW r \in Requests, Insert(r) \/ Update(r) \/ Delete(r)
  PROVE  OwnStep(r) /\ Ends(r)
<1>1. pc[r] # "done" /\ (Update(r) \/ Delete(r) => call[r].op \in {"update", "remove"})
  BY DEF Insert, Update, Delete, TypeInv, PcFits
<1>2. ASSUME NEW exception \in Exceptions, Throw(r, exception), Unchanged
      PROVE  OwnStep(r) /\ Ends(r)
  BY <1>1, <1>2, ThrowOutcome DEF TypeInv, OwnStep, Ends, Refused, Unchanged
<1>3. ASSUME Done(r), wrote' = wrote \cup {r}
      PROVE  OwnStep(r) /\ Ends(r)
  BY <1>1, <1>3, DoneOutcome DEF TypeInv, OwnStep, Ends, Written
<1>4. ASSUME Ok(r), Unchanged, call[r].op \in {"update", "remove"}
      PROVE  OwnStep(r) /\ Ends(r)
  BY <1>1, <1>4, OkOutcome DEF TypeInv, OwnStep, Ends, Served, Unchanged
<1>5. CASE Insert(r)
  BY <1>2, <1>3, <1>5 DEF Insert, Put, Exceptions
<1>6. CASE Update(r)
  BY <1>1, <1>2, <1>3, <1>4, <1>6 DEF Update, Put, Exceptions
<1>7. CASE Delete(r)
  BY <1>1, <1>2, <1>3, <1>4, <1>7 DEF Delete, Put, Exceptions
<1> QED
  BY <1>5, <1>6, <1>7


LEMMA StepOutcome ==
  ASSUME TypeInv, NEW r \in Requests, Steps(r)
  PROVE  OwnStep(r) /\ (Pending(r) \/ Ends(r))
<1>1. CASE Insert(r) \/ Update(r) \/ Delete(r)
  BY <1>1, WriteOutcome
<1>2. ASSUME NEW exception \in Exceptions, Throw(r, exception), Unchanged, pc[r] # "done"
      PROVE  OwnStep(r) /\ Ends(r)
  BY <1>2, ThrowOutcome DEF TypeInv, OwnStep, Ends, Refused, Unchanged
<1>3. ASSUME Ok(r), wrote' = wrote, pc[r] # "done",
             call[r].op \notin {"register", "create", "queueMail"}
      PROVE  OwnStep(r) /\ Ends(r)
  BY <1>3, OkOutcome DEF TypeInv, OwnStep, Ends, Served
<1>4. ASSUME NEW label, Goto(r, label), label # "done", pc[r] # "done",
             UNCHANGED <<call, answer, wrote>>
      PROVE  OwnStep(r) /\ Pending(r)
  BY <1>4 DEF Goto, TypeInv, RequestsOK, OwnStep, Pending
<1>5. CASE Arrive(r)
  BY <1>4, <1>5 DEF Arrive, Continue, callVars, Unchanged
<1>6. CASE Guard(r)
  BY <1>2, <1>4, <1>6 DEF Guard, Continue, callVars, Exceptions, Unchanged
<1>7. CASE Pipe(r)
  <2>1. Handler(call[r].op) # "done"
    BY DEF Handler
  <2> QED
    BY <1>2, <1>4, <1>7, <2>1 DEF Pipe, Exceptions, Unchanged
<1>8. CASE FindEmail(r)
  BY <1>2, <1>3, <1>4, <1>8 DEF FindEmail, Exceptions, Unchanged
<1>9. CASE Find(r)
  BY <1>2, <1>3, <1>4, <1>9 DEF Find, Continue, callVars, Exceptions, Unchanged
<1>10. CASE Diff(r)
  BY <1>4, <1>10 DEF Diff, Continue, callVars, Unchanged
<1>11. CASE StepFails(r)
  BY <1>2, <1>11 DEF StepFails, Exceptions
<1>12. CASE PlaceOrder(r) \/ RemoveOrder(r)
  BY <1>3, <1>12 DEF PlaceOrder, RemoveOrder
<1>13. CASE QueueMail(r)
  <2>1. /\ answer'[r].status \in {200, 500} /\ pc'[r] = "done" /\ call' = call
        /\ \A d \in Requests \ {r} : pc'[d] = pc[d] /\ answer'[d] = answer[d]
    BY <1>13, OkOutcome, ThrowOutcome, FixedAnswers DEF QueueMail, TypeInv, Exceptions
  <2> QED
    BY <1>13, <2>1 DEF QueueMail, OwnStep, Written, Ends
<1>14. CASE SendMail(r)
  <2>1. call[r].op = "sendMail" /\ pc[r] # "done" /\ wrote' = wrote
    BY <1>14 DEF SendMail, TypeInv, PcFits
  <2>2. CASE Throw(r, PlainError)
    BY <2>1, <2>2, ThrowOutcome DEF TypeInv, Exceptions, OwnStep, Refused, Ends
  <2> QED
    BY <1>3, <1>4, <1>14, <2>1, <2>2 DEF SendMail, Continue, callVars, Ends
<1> QED
  BY <1>1, <1>5, <1>6, <1>7, <1>8, <1>9, <1>10, <1>11, <1>12, <1>13, <1>14
     DEF Steps, Progress

\* Until it ends, a request has been answered nothing and has written nothing.
Unanswered == \A r \in Requests : pc[r] # "done" => answer[r].status = 0 /\ r \notin wrote

HonestInv == TypeInv /\ Unanswered /\ HonestStatus

LEMMA HonestInit == Init => HonestInv
BY TypeInit DEF Init, HonestInv, Unanswered, HonestStatus, NoAnswer

LEMMA HonestKept == HonestInv /\ [Next]_vars => HonestInv'
<1> SUFFICES ASSUME HonestInv, [Next]_vars
             PROVE  HonestInv'
  OBVIOUS
<1>1. TypeInv /\ TypeInv'
  BY TypeKept DEF HonestInv
<1>2. CASE UNCHANGED <<call, pc, answer, wrote>>
  BY <1>1, <1>2 DEF HonestInv, Unanswered, HonestStatus
<1>3. ASSUME NEW r \in Requests, Steps(r)
      PROVE  HonestInv'
  <2>1. OwnStep(r) /\ (Pending(r) \/ Ends(r))
    BY <1>1, <1>3, StepOutcome
  <2>2. answer[r].status = 0 /\ r \notin wrote
    BY <2>1 DEF OwnStep, HonestInv, Unanswered
  <2>3. wrote' \ {r} = wrote \ {r} /\ (Pending(r) => wrote' = wrote /\ answer' = answer)
    BY <2>1 DEF Pending, Ends, Refused, Served, Written
  <2>4. Unanswered'
    <3>1. SUFFICES ASSUME NEW d \in Requests, pc'[d] # "done"
                   PROVE  answer'[d].status = 0 /\ d \notin wrote'
      BY DEF Unanswered
    <3> QED
      BY <2>1, <2>2, <2>3, <3>1 DEF OwnStep, HonestInv, Unanswered, Ends, Refused, Served, Written
  <2>5. HonestStatus'
    <3>1. SUFFICES ASSUME NEW d \in Requests
                   PROVE  /\ answer'[d].status \in 400..499 => d \notin wrote'
                          /\ answer'[d].status = 200 /\ call[d].op \in {"register", "create", "queueMail"}
                                => d \in wrote'
      BY <2>1 DEF HonestStatus, OwnStep
    <3>2. CASE d = r
      <4>1. 0 \notin 400..499 /\ 200 \notin 400..499 /\ 500 \notin 400..499
        OBVIOUS
      <4>2. CASE wrote' = wrote /\ answer'[r].status # 200
        BY <2>2, <3>2, <4>2
      <4>3. CASE Served(r) \/ Written(r)
        <5>1. CASE Served(r)
          BY <2>2, <3>2, <4>1, <5>1 DEF Served
        <5>2. CASE Written(r)
          BY <2>2, <3>2, <4>1, <5>2 DEF Written
        <5> QED
          BY <4>3, <5>1, <5>2
      <4> QED
        BY <2>1, <2>2, <4>2, <4>3 DEF Pending, Ends, Refused
    <3>3. CASE d # r
      BY <2>1, <2>3, <3>3 DEF OwnStep, HonestInv, HonestStatus
    <3> QED
      BY <3>2, <3>3
  <2> QED
    BY <1>1, <2>4, <2>5 DEF HonestInv
<1> QED
  BY <1>2, <1>3, NextIsAStep DEF vars, callVars, Mailing

\* Whatever fails, is refused or interleaves, a request that is answered 4xx
\* has changed nothing, and one that creates and is answered 200 has created.
THEOREM HonestAnswers == Spec => []HonestStatus
<1>1. HonestInv => HonestStatus
  BY DEF HonestInv
<1> QED
  BY <1>1, HonestInit, HonestKept, PTL DEF Spec



-----------------------------------------------------------------------------
(* Mails *)

\* The workers that are handing mail m to the SMTP server.
Trying(m) == {w \in MailWorkers : At(w, "sending") /\ sending[w].job = m}

\* How often the queue has given m to a worker.
Begun(m) == failures[m] + stalls[m] + IF state[m] \in {"active", "completed"} THEN 1 ELSE 0

\* The server has accepted m at most once for each worker that has come to an end with it.
Bounded(m) == accepted[m] + Cardinality(Trying(m)) <= Begun(m)

WorkersHonest ==
    /\ \A w \in MailWorkers : sending[w] # Nobody => state[sending[w].job] # "absent"
    /\ \A w \in MailWorkers : At(w, "sent") => accepted[sending[w].job] > 0
    /\ \A m \in Mails : state[m] = "completed" => accepted[m] > 0

LEMMA TryingCounted ==
  ASSUME NEW m \in Mails
  PROVE  IsFiniteSet(Trying(m)) /\ Cardinality(Trying(m)) \in Nat
BY EmailAssumption, FS_Subset, FS_CardinalityType DEF Trying

LEMMA FewerTrying ==
  ASSUME MailInv, NEW m \in Mails, Bounded(m), Trying(m)' \subseteq Trying(m),
         accepted'[m] = accepted[m], MailInv', Begun(m)' = Begun(m)
  PROVE  Bounded(m)'
<1>1. Cardinality(Trying(m)') <= Cardinality(Trying(m)) /\ Cardinality(Trying(m)') \in Nat
  BY TryingCounted, FS_Subset, FS_CardinalityType
<1>2. accepted[m] \in Nat /\ Begun(m) \in Nat
  BY DEF MailInv, MailTypeOK, Begun, MailQueue!QueueTypeOK
<1>3. Bounded(m)' <=> accepted'[m] + Cardinality(Trying(m)') <= Begun(m)'
  BY DEF Bounded
<1> QED
  BY <1>1, <1>2, <1>3, TryingCounted DEF Bounded


LEMMA BegunTyped ==
  ASSUME MailInv, NEW m \in Mails
  PROVE  Begun(m) \in Nat /\ accepted[m] \in Nat /\ failures[m] \in Nat /\ stalls[m] \in Nat
BY DEF MailInv, MailTypeOK, Begun, MailQueue!QueueTypeOK

\* A mail is accepted while one worker fewer is at it.
LEMMA BoundedBySend ==
  ASSUME MailInv, MailInv', NEW w \in MailWorkers, Send(w), NEW m \in Mails, Bounded(m)
  PROVE  Bounded(m)'
<1> DEFINE j == sending[w].job
<1>1. /\ j \in Mails /\ w \in Trying(j) /\ UNCHANGED <<state, failures, stalls>>
      /\ accepted' = [accepted EXCEPT ![j] = @ + 1] \/ accepted' = accepted
      /\ sending' = [sending EXCEPT ![w].phase = "sent"] \/ sending' = [sending EXCEPT ![w].phase = "threw"]
  BY DEF Send, Accept, At, Trying, MailInv, MailTypeOK
<1>2. Begun(m)' = Begun(m)
  BY <1>1 DEF Begun
<1>3. Trying(m)' \subseteq Trying(m) \ {w}
  BY <1>1 DEF Trying, At, MailInv, MailTypeOK
<1>4. CASE m # j
  <2>1. accepted'[m] = accepted[m]
    BY <1>1, <1>4 DEF MailInv, MailTypeOK
  <2> QED
    BY <1>2, <1>3, <2>1, FewerTrying
<1>5. CASE m = j
  <2>1. accepted'[m] <= accepted[m] + 1
    BY <1>1, BegunTyped DEF MailInv, MailTypeOK
  <2>2. Cardinality(Trying(m)') <= Cardinality(Trying(m)) - 1 /\ Cardinality(Trying(m)') \in Nat
    <3>1. /\ IsFiniteSet(Trying(m) \ {w})
          /\ Cardinality(Trying(m) \ {w}) = Cardinality(Trying(m)) - 1
      BY <1>1, <1>5, TryingCounted, FS_RemoveElement
    <3> QED
      BY <1>3, <3>1, FS_Subset, FS_CardinalityType
  <2>3. accepted'[m] \in Nat
    BY BegunTyped DEF MailInv, MailTypeOK
  <2>4. Bounded(m)' <=> accepted'[m] + Cardinality(Trying(m)') <= Begun(m)'
    BY DEF Bounded
  <2> QED
    BY <1>2, <2>1, <2>2, <2>3, <2>4, BegunTyped, TryingCounted DEF Bounded
<1> QED
  BY <1>4, <1>5

LEMMA BoundedByTake ==
  ASSUME MailInv, MailInv', NEW w \in MailWorkers, NEW j \in Mails, TakeMail(w, j),
         NEW m \in Mails, Bounded(m)
  PROVE  Bounded(m)'
<1>1. /\ state[j] = "waiting" /\ state' = [state EXCEPT ![j] = "active"]
      /\ sending[w] = Nobody /\ sending' = [sending EXCEPT ![w] = [job |-> j, phase |-> "sending"]]
      /\ UNCHANGED <<failures, stalls, accepted>>
  BY DEF TakeMail, MailQueue!Take
<1>2. CASE m # j
  <2>1. Begun(m)' = Begun(m)
    BY <1>1, <1>2 DEF Begun, MailInv, MailTypeOK, MailQueue!QueueTypeOK
  <2>2. Trying(m)' \subseteq Trying(m)
    BY <1>1, <1>2 DEF Trying, At, MailInv, MailTypeOK
  <2> QED
    BY <1>1, <2>1, <2>2, FewerTrying
<1>3. CASE m = j
  <2>1. Begun(m)' = Begun(m) + 1
    BY <1>1, <1>3, BegunTyped DEF Begun, MailInv, MailTypeOK, MailQueue!QueueTypeOK
  <2>2. Trying(m)' \subseteq Trying(m) \cup {w}
    BY <1>1 DEF Trying, At, MailInv, MailTypeOK
  <2>3. Cardinality(Trying(m)') <= Cardinality(Trying(m)) + 1 /\ Cardinality(Trying(m)') \in Nat
    <3>1. /\ IsFiniteSet(Trying(m) \cup {w})
          /\ Cardinality(Trying(m) \cup {w}) <= Cardinality(Trying(m)) + 1
          /\ Cardinality(Trying(m) \cup {w}) \in Nat
      <4>1. /\ IsFiniteSet(Trying(m) \cup {w})
            /\ Cardinality(Trying(m) \cup {w}) =
                  IF w \in Trying(m) THEN Cardinality(Trying(m)) ELSE Cardinality(Trying(m)) + 1
        BY TryingCounted, FS_AddElement
      <4> QED
        BY <4>1, TryingCounted
    <3> QED
      BY <2>2, <3>1, FS_Subset, FS_CardinalityType, TryingCounted
  <2>4. Bounded(m)' <=> accepted'[m] + Cardinality(Trying(m)') <= Begun(m)'
    BY DEF Bounded
  <2> QED
    BY <1>1, <2>1, <2>3, <2>4, BegunTyped, TryingCounted DEF Bounded
<1> QED
  BY <1>2, <1>3

\* A report, or the loss of a lock, changes what has been begun into what has
\* failed, stalled or been completed.
LEMMA BoundedByQueue ==
  ASSUME MailInv, MailInv', NEW m \in Mails, Bounded(m),
         \/ \E w \in MailWorkers : Report(w) \/ WorkerDies(w)
         \/ \E j \in Mails : StallMail(j)
  PROVE  Bounded(m)'
<1>1. UNCHANGED accepted /\ Trying(m)' \subseteq Trying(m)
  BY DEF Report, WorkerDies, StallMail, Trying, At, MailInv, MailTypeOK
<1>2. ASSUME NEW w \in MailWorkers, NEW j \in Mails,
             MailQueue!Complete(w, j) \/ MailQueue!FailAttempt(w, j)
      PROVE  Begun(m)' = Begun(m)
  <2>1. CASE UNCHANGED MailQueue!queueVars
    BY <2>1 DEF MailQueue!queueVars, Begun
  <2>2. CASE holder[j] = w
    <3>1. state[j] = "active"
      BY <2>2, EmailAssumption DEF MailInv, MailTypeOK, MailQueue!QueueTypeOK
    <3>2. CASE MailQueue!Complete(w, j)
      BY <2>2, <3>1, <3>2, BegunTyped
         DEF MailQueue!Complete, MailQueue!LetGo, Begun, MailInv, MailTypeOK, MailQueue!QueueTypeOK
    <3>3. CASE MailQueue!FailAttempt(w, j)
      <4>1. /\ state' = [state EXCEPT ![j] = IF failures'[j] = MaxAttempts THEN "failed" ELSE "waiting"]
            /\ failures' = [failures EXCEPT ![j] = failures[j] + 1] /\ stalls' = stalls
        BY <2>2, <3>3 DEF MailQueue!FailAttempt, MailQueue!LetGo
      <4>2. CASE m = j
        <5>1. state'[m] \in {"failed", "waiting"} /\ failures'[m] = failures[m] + 1
          BY <4>1, <4>2 DEF MailInv, MailTypeOK, MailQueue!QueueTypeOK
        <5> QED
          BY <3>1, <4>1, <4>2, <5>1, BegunTyped DEF Begun
      <4>3. CASE m # j
        BY <4>1, <4>3 DEF Begun, MailInv, MailTypeOK, MailQueue!QueueTypeOK
      <4> QED
        BY <4>2, <4>3
    <3> QED
      BY <1>2, <3>2, <3>3
  <2> QED
    BY <1>2, <2>1, <2>2 DEF MailQueue!Complete, MailQueue!FailAttempt
<1>3. ASSUME NEW w \in MailWorkers, Report(w)
      PROVE  Begun(m)' = Begun(m)
  <2>1. sending[w].job \in Mails
    BY <1>3 DEF Report, At, MailInv, MailTypeOK
  <2> QED
    BY <1>2, <1>3, <2>1 DEF Report
<1>4. ASSUME NEW w \in MailWorkers, WorkerDies(w)
      PROVE  Begun(m)' = Begun(m)
  BY <1>4 DEF WorkerDies, Begun
<1>5. ASSUME NEW j \in Mails, StallMail(j)
      PROVE  Begun(m)' = Begun(m)
  BY <1>5, BegunTyped
     DEF StallMail, MailQueue!Stall, MailQueue!LetGo, Begun, MailInv, MailTypeOK, MailQueue!QueueTypeOK
<1> QED
  BY <1>1, <1>3, <1>4, <1>5, FewerTrying


LEMMA MailStepHonest ==
  ASSUME MailInv, WorkersHonest, MailStep
  PROVE  /\ WorkersHonest' /\ attempt' = attempt
         /\ \A m \in Mails : state[m] = "absent" => state'[m] = "absent" /\ accepted'[m] = accepted[m]
<1> USE DEF MailInv, MailTypeOK, MailQueue!QueueTypeOK, MailQueue!Ended, At
<1>1. ASSUME NEW w \in MailWorkers, Send(w)
      PROVE  /\ WorkersHonest' /\ attempt' = attempt
             /\ \A m \in Mails : state[m] = "absent" => state'[m] = "absent" /\ accepted'[m] = accepted[m]
  <2> DEFINE j == sending[w].job
  <2>1. j \in Mails /\ state[j] # "absent" /\ UNCHANGED <<state, attempt>>
    BY <1>1 DEF Send, WorkersHonest
  <2>2. /\ \A m \in Mails \ {j} : accepted'[m] = accepted[m]
        /\ \A m \in Mails : accepted'[m] >= accepted[m]
        /\ At(w, "sent")' => accepted'[j] > 0
    BY <1>1, <2>1 DEF Send, Accept
  <2>3. /\ sending'[w].job = j
        /\ \A v \in MailWorkers \ {w} : sending'[v] = sending[v]
    BY <1>1 DEF Send
  <2>4. \A m \in Mails : accepted[m] \in Nat /\ accepted'[m] \in Nat
    BY <1>1, <2>1 DEF Send, Accept
  <2>5. WorkersHonest'
    BY <2>1, <2>2, <2>3, <2>4 DEF WorkersHonest
  <2> QED
    BY <2>1, <2>2, <2>5
<1>2. ASSUME NEW w \in MailWorkers, Report(w) \/ WorkerDies(w)
      PROVE  /\ WorkersHonest' /\ attempt' = attempt
             /\ \A m \in Mails : state[m] = "absent" => state'[m] = "absent" /\ accepted'[m] = accepted[m]
  <2> DEFINE j == sending[w].job
  <2>1. UNCHANGED <<accepted, attempt>> /\ sending' = [sending EXCEPT ![w] = Nobody]
    BY <1>2 DEF Report, WorkerDies
  <2>2. \/ state' = state
        \/ /\ j \in Mails /\ holder[j] = w /\ At(w, "sent")
           /\ state' = [state EXCEPT ![j] = "completed"]
        \/ /\ j \in Mails /\ holder[j] = w
           /\ \E next \in {"failed", "waiting"} : state' = [state EXCEPT ![j] = next]
    <3>1. CASE MailQueue!Complete(w, j) /\ At(w, "sent")
      BY <3>1 DEF MailQueue!Complete, MailQueue!LetGo, MailQueue!queueVars
    <3>2. CASE MailQueue!FailAttempt(w, j) /\ At(w, "threw")
      <4>1. (IF failures'[j] = MaxAttempts THEN "failed" ELSE "waiting") \in {"failed", "waiting"}
        OBVIOUS
      <4> QED
        BY <3>2, <4>1 DEF MailQueue!FailAttempt, MailQueue!LetGo, MailQueue!queueVars
    <3> QED
      BY <1>2, <3>1, <3>2 DEF Report, WorkerDies
  <2>3. \A m \in Mails : /\ state[m] = "absent" <=> state'[m] = "absent"
                         /\ state'[m] = "completed" => state[m] = "completed" \/ accepted[m] > 0
    <3>1. \A m \in Mails : holder[m] = w => state[m] = "active"
      BY EmailAssumption
    <3> QED
      BY <2>2, <3>1 DEF WorkersHonest
  <2>4. WorkersHonest'
    BY <2>1, <2>3 DEF WorkersHonest
  <2> QED
    BY <2>1, <2>3, <2>4
<1>3. ASSUME NEW w \in MailWorkers, NEW m \in Mails, TakeMail(w, m)
      PROVE  /\ WorkersHonest' /\ attempt' = attempt
             /\ \A n \in Mails : state[n] = "absent" => state'[n] = "absent" /\ accepted'[n] = accepted[n]
  BY <1>3 DEF TakeMail, MailQueue!Take, WorkersHonest
<1>4. ASSUME NEW m \in Mails, StallMail(m)
      PROVE  /\ WorkersHonest' /\ attempt' = attempt
             /\ \A n \in Mails : state[n] = "absent" => state'[n] = "absent" /\ accepted'[n] = accepted[n]
  BY <1>4 DEF StallMail, MailQueue!Stall, MailQueue!LetGo, WorkersHonest
<1> QED
  BY <1>1, <1>2, <1>3, <1>4 DEF MailStep

\* Only a request to queue a mail has a job.
OnlyQueued == \A r \in Requests : call[r].op # "queueMail" => state[r] = "absent"

QueueBounded == \A r \in Requests : call[r].op # "sendMail" => Bounded(r)

\* How often the server can have accepted a mail that is sent directly.
Direct(r) ==
    /\ pc[r] \in {"idle", "guard", "pipe"} => accepted[r] = 0
    /\ pc[r] = "send" => accepted[r] < attempt[r]
    /\ pc[r] = "done" => /\ accepted[r] <= attempt[r]
                         /\ answer[r].status = 200 => accepted[r] > 0
                         /\ answer[r].status = 500 => LastAttempt(r) \/ accepted[r] = 0

DirectHonest == \A r \in Requests : call[r].op = "sendMail" => Direct(r)

PromiseInv == HonestInv /\ WorkersHonest /\ OnlyQueued /\ QueueBounded /\ DirectHonest

LEMMA PromiseInit == Init => PromiseInv
<1> SUFFICES ASSUME Init
             PROVE  PromiseInv
  OBVIOUS
<1>1. HonestInv /\ MailInv
  BY HonestInit DEF HonestInv, TypeInv
<1>2. WorkersHonest /\ OnlyQueued
  BY GatewayAssumption
     DEF Init, MailInit, MailQueue!QueueInit, WorkersHonest, OnlyQueued, At
<1>3. QueueBounded
  <2>1. SUFFICES ASSUME NEW m \in Mails
                 PROVE  Bounded(m)
    BY GatewayAssumption DEF QueueBounded
  <2>2. Trying(m) = {}
    BY DEF Init, MailInit, Trying, At
  <2>3. accepted[m] = 0 /\ Cardinality(Trying(m)) = 0
    BY <2>2, FS_EmptySet DEF Init, MailInit
  <2> QED
    BY <1>1, <2>3, BegunTyped DEF Bounded
<1>4. DirectHonest
  BY GatewayAssumption DEF Init, MailInit, DirectHonest, Direct
<1> QED
  BY <1>1, <1>2, <1>3, <1>4 DEF PromiseInv

\* While the mails stay as they are, so does what is promised of the queued ones.
LEMMA PromiseFrame ==
  ASSUME PromiseInv, UNCHANGED <<mailVars, call>>
  PROVE  WorkersHonest' /\ OnlyQueued' /\ QueueBounded'
<1>1. UNCHANGED <<state, holder, failures, stalls, sending, attempt, accepted>>
  BY DEF mailVars
<1>2. \A m : Trying(m)' = Trying(m) /\ Begun(m)' = Begun(m)
  BY <1>1 DEF Trying, Begun, At
<1>3. \A m : Bounded(m)' <=> Bounded(m)
  BY <1>1, <1>2 DEF Bounded
<1> QED
  BY <1>1, <1>3 DEF PromiseInv, WorkersHonest, OnlyQueued, QueueBounded, At


LEMMA SendMailKept ==
  ASSUME PromiseInv, HonestInv', NEW r \in Requests, SendMail(r)
  PROVE  PromiseInv'
<1> USE GatewayAssumption
<1>1. /\ call[r].op = "sendMail" /\ pc[r] = "send" /\ call' = call
      /\ UNCHANGED <<state, holder, failures, stalls, sending>>
      /\ accepted' = [accepted EXCEPT ![r] = @ + 1] \/ (SendRejected(r) /\ accepted' = accepted)
      /\ accepted[r] < attempt[r] /\ accepted \in [Mails -> Nat] /\ attempt \in [Mails -> 1..MaxAttempts]
      /\ TypeInv
  BY OkOutcome, ThrowOutcome
     DEF SendMail, SentDirectly, SendRejected, Accept, Continue, callVars, Ok, Throw, Answer,
         PromiseInv, HonestInv, TypeInv, MailInv, MailTypeOK, PcFits, DirectHonest, Direct
<1>2. OwnStep(r)
  BY <1>1, StepOutcome DEF Steps, Progress
<1>3. \A m \in Requests \ {r} : accepted'[m] = accepted[m] /\ attempt'[m] = attempt[m]
  BY <1>1 DEF SendMail, SentDirectly, SendRejected
<1>4. accepted'[r] \in Nat /\ accepted'[r] >= accepted[r]
  BY <1>1
<1>5. WorkersHonest' /\ OnlyQueued'
  <2>1. \A m \in Mails : accepted[m] > 0 => accepted'[m] > 0
    BY <1>1, <1>3, <1>4
  <2> QED
    BY <1>1, <2>1 DEF PromiseInv, WorkersHonest, OnlyQueued, At, TypeInv, MailInv, MailTypeOK
<1>6. QueueBounded'
  <2>1. \A m : Trying(m)' = Trying(m) /\ Begun(m)' = Begun(m)
    BY <1>1 DEF Trying, Begun, At
  <2>2. \A m \in Requests \ {r} : Bounded(m)' <=> Bounded(m)
    BY <1>3, <2>1 DEF Bounded
  <2> QED
    BY <1>1, <2>2 DEF PromiseInv, QueueBounded
<1>7. Direct(r)'
  <2>1. CASE SentDirectly(r) /\ Ok(r)
    <3>1. accepted'[r] = accepted[r] + 1 /\ attempt' = attempt
      BY <1>1, <2>1 DEF SentDirectly, Accept
    <3>2. pc'[r] = "done" /\ answer'[r].status = 200
      BY <1>1, <2>1, OkOutcome DEF TypeInv
    <3> QED
      BY <1>1, <3>1, <3>2 DEF Direct
  <2>2. CASE ~LastAttempt(r) /\ SendRejected(r) /\ Continue(r, "send")
    <3>1. attempt'[r] = attempt[r] + 1 /\ accepted'[r] <= accepted[r] + 1
      BY <1>1, <2>2 DEF SendRejected
    <3>2. pc'[r] = "send"
      BY <1>1, <2>2 DEF Continue, Goto, TypeInv, RequestsOK
    <3> QED
      BY <1>1, <1>4, <3>1, <3>2 DEF Direct
  <2>3. CASE LastAttempt(r) /\ SendRejected(r) /\ Throw(r, PlainError)
    <3>1. LastAttempt(r)' /\ attempt' = attempt /\ accepted'[r] <= accepted[r] + 1
      BY <1>1, <2>3 DEF SendRejected, LastAttempt
    <3>2. pc'[r] = "done" /\ answer'[r].status # 200
      BY <1>1, <2>3, ThrowOutcome DEF TypeInv, Exceptions
    <3> QED
      BY <1>1, <1>4, <3>1, <3>2 DEF Direct
  <2> QED
    BY <2>1, <2>2, <2>3 DEF SendMail
<1>8. DirectHonest'
  <2>1. ASSUME NEW d \in Requests \ {r}, Direct(d)
        PROVE  Direct(d)'
    BY <1>2, <1>3, <2>1 DEF OwnStep, Direct, LastAttempt
  <2> QED
    BY <1>1, <1>7, <2>1 DEF PromiseInv, DirectHonest
<1> QED
  BY <1>5, <1>6, <1>8 DEF PromiseInv

LEMMA QueueMailKept ==
  ASSUME PromiseInv, HonestInv', NEW r \in Requests, QueueMail(r)
  PROVE  PromiseInv'
<1> USE GatewayAssumption
<1>1. /\ call[r].op = "queueMail" /\ TypeInv
      /\ state[r] = "absent" /\ state' = [state EXCEPT ![r] = "waiting"]
      /\ UNCHANGED <<holder, failures, stalls, sending, attempt, accepted>>
  BY DEF QueueMail, Enqueue, MailQueue!Add, PromiseInv, HonestInv, TypeInv, PcFits
<1>2. OwnStep(r)
  BY <1>1, StepOutcome DEF Steps, Progress
<1>3. \A m \in Mails : /\ state'[m] \in {state[m], "waiting"}
                       /\ m # r => state'[m] = state[m]
                       /\ state'[m] = "completed" => state[m] = "completed"
  BY <1>1 DEF TypeInv, MailInv, MailTypeOK, MailQueue!QueueTypeOK
<1>4. WorkersHonest' /\ OnlyQueued'
  BY <1>1, <1>2, <1>3
     DEF PromiseInv, WorkersHonest, OnlyQueued, OwnStep, At, TypeInv, MailInv, MailTypeOK
<1>5. \A m \in Mails : Trying(m)' = Trying(m) /\ Begun(m)' = Begun(m)
  BY <1>1, <1>3 DEF Trying, Begun, At, TypeInv, MailInv, MailTypeOK, MailQueue!QueueTypeOK
<1>6. QueueBounded'
  BY <1>1, <1>2, <1>5 DEF PromiseInv, QueueBounded, Bounded, OwnStep
<1>7. DirectHonest'
  BY <1>1, <1>2 DEF PromiseInv, DirectHonest, Direct, OwnStep, LastAttempt
<1> QED
  BY <1>4, <1>6, <1>7 DEF PromiseInv

\* A request to send a mail directly gets as far as sending it or is refused.
LEMMA BeforeSending ==
  ASSUME PromiseInv, HonestInv', NEW r \in Requests, Steps(r), UNCHANGED <<mailVars, call>>,
         call[r].op = "sendMail", ~SendMail(r)
  PROVE  Direct(r)'
<1>1. TypeInv /\ Direct(r)
  BY DEF PromiseInv, HonestInv, DirectHonest
<1>2. Arrive(r) \/ Guard(r) \/ Pipe(r) \/ StepFails(r)
  BY <1>1
     DEF Steps, Progress, FindEmail, Find, Diff, Insert, Update, Delete, QueueMail, PlaceOrder,
         RemoveOrder, TypeInv, PcFits, Public
<1>3. pc[r] \in {"idle", "guard", "pipe"} /\ accepted[r] = 0 /\ attempt[r] \in Nat \ {0}
  BY <1>1, <1>2, GatewayAssumption, EmailAssumption
     DEF Arrive, Guard, Pipe, StepFails, TypeInv, MailInv, MailTypeOK, PcFits, Public, Direct
<1>4. accepted'[r] = 0 /\ attempt'[r] \in Nat \ {0} /\ UNCHANGED <<accepted, attempt>>
  BY <1>3 DEF mailVars
<1>5. pc'[r] # "done" \/ answer'[r].status # 200
  <2>1. ASSUME NEW exception \in Exceptions, Throw(r, exception)
        PROVE  answer'[r].status # 200
    BY <1>1, <2>1, ThrowOutcome DEF TypeInv
  <2>2. ASSUME NEW label, Goto(r, label), label # "done"
        PROVE  pc'[r] # "done"
    BY <1>1, <2>2 DEF Goto, TypeInv, RequestsOK
  <2>3. Handler(call[r].op) # "done"
    BY DEF Handler
  <2> QED
    BY <1>2, <2>1, <2>2, <2>3 DEF Arrive, Guard, Pipe, StepFails, Continue, Exceptions
<1> QED
  BY <1>4, <1>5 DEF Direct

LEMMA PromiseKept == PromiseInv /\ [Next]_vars => PromiseInv'
<1> SUFFICES ASSUME PromiseInv, [Next]_vars
             PROVE  PromiseInv'
  OBVIOUS
<1>1. HonestInv' /\ TypeInv /\ TypeInv'
  BY HonestKept DEF PromiseInv, HonestInv
<1>2. CASE UNCHANGED vars
  <2>1. DirectHonest'
    BY <1>2 DEF vars, mailVars, callVars, PromiseInv, DirectHonest, Direct, LastAttempt
  <2> QED
    BY <1>1, <1>2, <2>1, PromiseFrame DEF vars, callVars, PromiseInv
<1>3. CASE Mailing
  <2>1. MailInv /\ MailInv' /\ MailStep /\ UNCHANGED <<call, pc, answer>>
    BY <1>1, <1>3 DEF Mailing, callVars, TypeInv
  <2>2. WorkersHonest' /\ OnlyQueued'
    BY <2>1, MailStepHonest, GatewayAssumption DEF PromiseInv, OnlyQueued
  <2>3. DirectHonest'
    BY <2>1, MailStepHonest, GatewayAssumption
       DEF PromiseInv, OnlyQueued, DirectHonest, Direct, LastAttempt
  <2>4. QueueBounded'
    <3>1. ASSUME NEW m \in Mails, Bounded(m)
          PROVE  Bounded(m)'
      BY <2>1, <3>1, BoundedBySend, BoundedByTake, BoundedByQueue DEF MailStep
    <3> QED
      BY <2>1, <3>1, GatewayAssumption DEF PromiseInv, QueueBounded
  <2> QED
    BY <1>1, <2>2, <2>3, <2>4 DEF PromiseInv
<1>4. ASSUME NEW r \in Requests, Steps(r)
      PROVE  PromiseInv'
  <2>1. CASE SendMail(r)
    BY <1>1, <2>1, SendMailKept
  <2>2. CASE QueueMail(r)
    BY <1>1, <2>2, QueueMailKept
  <2>3. CASE ~SendMail(r) /\ ~QueueMail(r)
    <3>1. OwnStep(r)
      BY <1>1, <1>4, StepOutcome
    <3>2. UNCHANGED <<mailVars, call>>
      BY <1>4, <2>3, <3>1
         DEF Steps, Progress, Arrive, Guard, Pipe, FindEmail, Find, Diff, Insert, Update, Delete,
             StepFails, PlaceOrder, RemoveOrder, Unchanged, Put, OwnStep
    <3>3. ASSUME NEW d \in Requests \ {r}, Direct(d)
          PROVE  Direct(d)'
      BY <3>1, <3>2, <3>3 DEF OwnStep, Direct, LastAttempt, mailVars
    <3>4. DirectHonest'
      BY <1>1, <1>4, <2>3, <3>2, <3>3, BeforeSending DEF PromiseInv, DirectHonest
    <3> QED
      BY <1>1, <3>2, <3>4, PromiseFrame DEF PromiseInv
  <2> QED
    BY <2>1, <2>2, <2>3
<1> QED
  BY <1>2, <1>3, <1>4, NextIsAStep

LEMMA PromiseImplies == PromiseInv => MailPromise
<1> SUFFICES ASSUME PromiseInv, NEW r \in Requests
             PROVE  /\ state[r] = "completed" => accepted[r] > 0
                    /\ call[r].op = "sendMail" /\ answer[r].status = 200 => accepted[r] > 0
                    /\ call[r].op = "sendMail" /\ answer[r].status = 500 =>
                          LastAttempt(r) \/ accepted[r] = 0
                    /\ accepted[r] <= MaxAttempts + IF call[r].op = "sendMail" THEN 0 ELSE MaxStalled
  BY DEF MailPromise
<1>1. TypeInv /\ Unanswered /\ r \in Mails
  BY GatewayAssumption DEF PromiseInv, HonestInv
<1>2. state[r] = "completed" => accepted[r] > 0
  BY <1>1 DEF PromiseInv, WorkersHonest
<1>3. /\ accepted[r] \in Nat /\ attempt[r] \in 1..MaxAttempts /\ MaxAttempts \in Nat
      /\ MaxStalled \in Nat
  BY <1>1, EmailAssumption DEF TypeInv, MailInv, MailTypeOK
<1>4. CASE call[r].op = "sendMail"
  <2>1. Direct(r) /\ pc[r] \in {"idle", "guard", "pipe", "send", "done"}
    BY <1>1, <1>4
       DEF PromiseInv, DirectHonest, TypeInv, RequestsOK, PcFits, Running, Public
  <2>2. answer[r].status \in {200, 500} => pc[r] = "done"
    BY <1>1 DEF Unanswered
  <2>3. accepted[r] <= attempt[r]
    BY <1>3, <2>1 DEF Direct
  <2> QED
    BY <1>2, <1>3, <1>4, <2>1, <2>2, <2>3 DEF Direct
<1>5. CASE call[r].op # "sendMail"
  <2>1. accepted[r] <= Begun(r)
    BY <1>1, <1>5, BegunTyped, TryingCounted DEF PromiseInv, QueueBounded, Bounded, TypeInv
  <2>2. Begun(r) <= MaxAttempts + MaxStalled
    BY <1>1, <1>3, BegunTyped DEF Begun, TypeInv, MailInv, QueueFits
  <2>3. Begun(r) \in Nat
    BY <1>1, BegunTyped DEF TypeInv
  <2>4. accepted[r] <= MaxAttempts + MaxStalled
    BY <1>3, <2>1, <2>2, <2>3
  <2> QED
    BY <1>2, <1>5, <2>4
<1> QED
  BY <1>4, <1>5

\* What is reported as sent was accepted, a direct mail that was accepted is
\* reported as failed only after the last attempt, and no mail is sent more
\* often than its attempts, and the queue's tolerance of stalled jobs, allow.
THEOREM MailsKeepTheirPromise == Spec => []MailPromise
BY PromiseInit, PromiseKept, PromiseImplies, PTL DEF Spec


-----------------------------------------------------------------------------
(* Accounts *)

Room(e) == IF Taken(e) THEN 0 ELSE 1
Allowed(e) == freed[e] + IF e = OldKeys.users THEN 0 ELSE 1

\* A free e-mail leaves room for one more account.
AccountsBounded == \A e \in Emails : Cardinality(Created(e)) + Room(e) <= Allowed(e)

AccountInv == HonestInv /\ AccountsBounded

LEMMA CreatedCounted ==
  ASSUME NEW e
  PROVE  IsFiniteSet(Created(e)) /\ Cardinality(Created(e)) \in Nat
BY EmailAssumption, GatewayAssumption, FS_Subset, FS_CardinalityType DEF Created

LEMMA AllowedTyped ==
  ASSUME TypeInv, NEW e \in Emails
  PROVE  Allowed(e) \in Nat /\ freed[e] \in Nat /\ Room(e) \in {0, 1}
BY DEF TypeInv, TablesOK, Allowed, Room

\* Only the step that writes can tell a request that it has created something.
LEMMA CreatedGrows ==
  ASSUME HonestInv, NEW r \in Requests, Steps(r), NEW e
  PROVE  /\ Created(e)' \subseteq Created(e) \cup {r} /\ Created(e) \subseteq Created(e)'
         /\ r \in Created(e)' => /\ call[r].op \in {"register", "create"} /\ r \in wrote'
                                 /\ call[r].key = e /\ Table(r) = "users"
         /\ r \notin wrote /\ r \notin Created(e)
<1>1. OwnStep(r) /\ (Pending(r) \/ Ends(r))
  BY StepOutcome DEF HonestInv
<1>2. answer[r].status = 0 /\ r \notin wrote /\ r \notin Created(e)
  BY <1>1 DEF OwnStep, HonestInv, Unanswered, Created
<1>3. \A d \in Requests \ {r} : d \in Created(e)' <=> d \in Created(e)
  BY <1>1 DEF OwnStep, Created, Table
<1>4. r \in Created(e)' => call[r].op \in {"register", "create"} /\ call[r].key = e /\ Table(r) = "users"
  BY <1>1 DEF OwnStep, Created, Table
<1>5. r \in Created(e)' => r \in wrote'
  <2>1. SUFFICES ASSUME r \in Created(e)'
                 PROVE  r \in wrote'
    OBVIOUS
  <2>2. answer'[r].status = 200
    BY <2>1 DEF Created
  <2> QED
    BY <1>1, <1>2, <1>4, <2>1, <2>2 DEF Pending, Ends, Refused, Served, Written
<1>6. Created(e) \subseteq Requests /\ Created(e)' \subseteq Requests
  BY DEF Created
<1> QED
  BY <1>2, <1>3, <1>4, <1>5, <1>6

LEMMA SameAccounts ==
  ASSUME AccountInv, rows'["users"] = rows["users"], freed' = freed,
         \A e \in Emails : Created(e)' = Created(e)
  PROVE  AccountsBounded'
<1>1. \A e \in Emails : Room(e)' = Room(e) /\ Allowed(e)' = Allowed(e)
  BY DEF Room, Allowed, Taken
<1>2. AccountsBounded' <=> \A e \in Emails : Cardinality(Created(e)') + Room(e)' <= Allowed(e)'
  BY DEF AccountsBounded
<1> QED
  BY <1>1, <1>2 DEF AccountInv, AccountsBounded

\* A new user takes an e-mail that no other user has.
LEMMA InsertAccounts ==
  ASSUME AccountInv, NEW r \in Requests, Steps(r), pc[r] = "insert", Table(r) = "users",
         NEW i \in Ids, rows["users"][i] = NoRow, ~KeyTaken("users", i, entity[r].key),
         Put(r, "users", i, entity[r])
  PROVE  AccountsBounded'
<1>0. /\ TypeInv /\ HonestInv /\ entity[r] # NoRow /\ entity[r].key \in Emails
      /\ call[r].op \in {"register", "create"} => call[r].key = entity[r].key
  BY RowTyped, RowFields
     DEF AccountInv, HonestInv, TypeInv, RequestsOK, PcFits, NewRow, KeysOf, Tables
<1> PICK k \in Emails : k = entity[r].key
  BY <1>0
<1>1. TypeInv /\ HonestInv /\ (call[r].op \in {"register", "create"} => call[r].key = k)
  BY <1>0
<1>2. freed' = freed /\ \A j \in Ids : rows'["users"][j] = IF j = i THEN entity[r] ELSE rows["users"][j]
  BY <1>1 DEF Put, TypeInv, TablesOK, Tables
<1>3. ~Taken(k) /\ Taken(k)'
  BY <1>0, <1>2 DEF Taken, KeyTaken
<1>4. \A e \in Emails \ {k} : Taken(e)' <=> Taken(e)
  BY <1>2 DEF Taken
<1>5. ASSUME NEW e \in Emails
      PROVE  Cardinality(Created(e)') + Room(e)' <= Allowed(e)'
  <2>1. /\ Cardinality(Created(e)) + Room(e) <= Allowed(e) /\ Allowed(e) \in Nat
        /\ Allowed(e)' = Allowed(e)
    BY <1>1, <1>2, AllowedTyped DEF AccountInv, AccountsBounded, Allowed
  <2>2. CASE e = k
    <3>1. Created(e)' \subseteq Created(e) \cup {r} /\ r \notin Created(e)
      BY <1>1, CreatedGrows
    <3>2. /\ IsFiniteSet(Created(e) \cup {r})
          /\ Cardinality(Created(e) \cup {r}) = Cardinality(Created(e)) + 1
      BY <3>1, CreatedCounted, FS_AddElement
    <3>3. Cardinality(Created(e)') <= Cardinality(Created(e)) + 1 /\ Cardinality(Created(e)') \in Nat
      BY <3>1, <3>2, CreatedCounted, FS_Subset, FS_CardinalityType
    <3>4. Room(e) = 1 /\ Room(e)' = 0
      BY <1>3, <2>2 DEF Room
    <3> QED
      BY <2>1, <3>3, <3>4, CreatedCounted
  <2>3. CASE e # k
    <3>1. r \notin Created(e)'
      BY <1>1, <2>3, CreatedGrows
    <3>2. Created(e)' = Created(e)
      BY <1>1, <3>1, CreatedGrows
    <3>3. Room(e)' = Room(e)
      BY <1>4, <2>3 DEF Room
    <3> QED
      BY <2>1, <3>2, <3>3
  <2> QED
    BY <2>2, <2>3
<1>6. AccountsBounded' <=> \A e \in Emails : Cardinality(Created(e)') + Room(e)' <= Allowed(e)'
  BY DEF AccountsBounded
<1> QED
  BY <1>5, <1>6

\* An e-mail that a user gives up comes free once.
LEMMA ReplaceAccounts ==
  ASSUME AccountInv, NEW r \in Requests, Steps(r), call[r].op \in {"update", "remove"},
         NEW i \in Ids, rows["users"][i] # NoRow, NEW row \in Rows("users") \cup {NoRow},
         Put(r, "users", i, row)
  PROVE  AccountsBounded'
<1> DEFINE old == rows["users"][i].key
<1>1. TypeInv /\ HonestInv /\ old \in Emails
  BY RowFields DEF AccountInv, HonestInv, TypeInv, TablesOK, KeysOf, Tables
<1>2. /\ freed \in [Emails -> Nat]
      /\ freed' = IF row = NoRow \/ row.key # old THEN [freed EXCEPT ![old] = @ + 1] ELSE freed
      /\ \A j \in Ids : rows'["users"][j] = IF j = i THEN row ELSE rows["users"][j]
  BY <1>1 DEF Put, TypeInv, TablesOK, Tables
<1>3. ASSUME NEW e \in Emails
      PROVE  Cardinality(Created(e)') + Room(e)' <= Allowed(e)'
  <2>1. Created(e)' = Created(e)
    BY <1>1, CreatedGrows
  <2>2. /\ Cardinality(Created(e)) + Room(e) <= Allowed(e) /\ Allowed(e) \in Nat
        /\ Cardinality(Created(e)) \in Nat /\ Room(e) \in {0, 1} /\ Room(e)' \in {0, 1}
    BY <1>1, AllowedTyped, CreatedCounted DEF AccountInv, AccountsBounded, Room
  <2>3. CASE e = old /\ (row = NoRow \/ row.key # old)
    <3>1. Allowed(e)' = Allowed(e) + 1
      BY <1>2, <2>3 DEF Allowed
    <3> QED
      BY <2>1, <2>2, <3>1
  <2>4. CASE ~(e = old /\ (row = NoRow \/ row.key # old))
    <3>1. freed'[e] = freed[e]
      BY <1>2, <2>4
    <3>2. Allowed(e)' = Allowed(e)
      BY <3>1 DEF Allowed
    <3>3. Taken(e) => Taken(e)'
      BY <1>2, <2>4 DEF Taken
    <3>4. Room(e)' <= Room(e)
      BY <3>3 DEF Room
    <3> QED
      BY <2>1, <2>2, <3>2, <3>4
  <2> QED
    BY <2>3, <2>4
<1>4. AccountsBounded' <=> \A e \in Emails : Cardinality(Created(e)') + Room(e)' <= Allowed(e)'
  BY DEF AccountsBounded
<1> QED
  BY <1>3, <1>4

LEMMA AccountKept == AccountInv /\ [Next]_vars => AccountInv'
<1> SUFFICES ASSUME AccountInv, [Next]_vars
             PROVE  AccountInv'
  OBVIOUS
<1>1. HonestInv /\ HonestInv' /\ TypeInv
  BY HonestKept DEF AccountInv, HonestInv
<1>2. CASE UNCHANGED <<rows, freed, call, answer>>
  BY <1>1, <1>2, SameAccounts DEF AccountInv, Created, Table
<1>3. ASSUME NEW r \in Requests, Steps(r)
      PROVE  AccountsBounded'
  <2>1. CASE UNCHANGED <<rows, freed, wrote>>
    <3>1. \A e \in Emails : Created(e)' = Created(e)
      BY <1>1, <1>3, <2>1, CreatedGrows
    <3> QED
      BY <2>1, <3>1, SameAccounts
  <2>2. CASE QueueMail(r)
    <3>1. call[r].op = "queueMail"
      BY <1>1, <2>2 DEF QueueMail, TypeInv, PcFits
    <3>2. \A e \in Emails : Created(e)' = Created(e)
      BY <1>1, <1>3, <3>1, CreatedGrows
    <3> QED
      BY <2>2, <3>2, SameAccounts DEF QueueMail, tableVars
  <2>3. ASSUME NEW i \in Ids, NEW row, Put(r, Table(r), i, row), Table(r) = "payments"
        PROVE  AccountsBounded'
    <3>1. rows'["users"] = rows["users"] /\ freed' = freed
      BY <1>1, <2>3 DEF Put, TypeInv, TablesOK, Tables
    <3>2. \A e \in Emails : Created(e)' = Created(e)
      BY <1>1, <1>3, <2>3, CreatedGrows
    <3> QED
      BY <3>1, <3>2, SameAccounts
  <2>4. Table(r) \in {"users", "payments"} /\ Id(r) \in Ids /\ NewId(r) \in Ids
    BY <1>1, CallFields DEF TypeInv, Tables, NewId
  <2>5. CASE Insert(r) /\ ~Unchanged
    BY <2>3, <2>4, <2>5, <1>3, InsertAccounts DEF Insert
  <2>6. CASE Update(r) /\ ~Unchanged
    <3>1. call[r].op = "update" /\ Row(r) # NoRow /\ Put(r, Table(r), Id(r), Updated(r))
          /\ Updated(r) \in Rows(Table(r))
      BY <1>1, <2>6, UpdatedTyped DEF Update, TypeInv, PcFits
    <3> QED
      BY <1>3, <2>3, <2>4, <3>1, ReplaceAccounts DEF Row
  <2>7. CASE Delete(r) /\ ~Unchanged
    <3>1. call[r].op = "remove" /\ Row(r) # NoRow /\ Put(r, Table(r), Id(r), NoRow)
      BY <1>1, <2>7 DEF Delete, TypeInv, PcFits
    <3> QED
      BY <1>3, <2>3, <2>4, <3>1, ReplaceAccounts DEF Row
  <2>8. CASE Unchanged
    BY <2>1, <2>8 DEF Unchanged, tableVars
  <2> QED
    BY <1>3, <2>1, <2>2, <2>5, <2>6, <2>7, <2>8
       DEF Steps, Progress, Arrive, Guard, Pipe, FindEmail, Find, Diff, StepFails, PlaceOrder,
           RemoveOrder, SendMail, tableVars
<1> QED
  BY <1>1, <1>2, <1>3, NextIsAStep DEF vars, callVars, tableVars, Mailing, AccountInv

LEMMA AccountInit == Init => AccountInv
<1> SUFFICES ASSUME Init
             PROVE  AccountInv
  OBVIOUS
<1>1. HonestInv /\ TypeInv
  BY HonestInit DEF HonestInv
<1>2. ASSUME NEW e \in Emails
      PROVE  Cardinality(Created(e)) + Room(e) <= Allowed(e)
  <2>1. Created(e) = {}
    BY DEF Init, Created, NoAnswer
  <2>2. e = OldKeys.users => Taken(e)
    <3>1. rows["users"][Old] = [key |-> OldKeys["users"], by |-> Old]
      BY DEF Init, Tables, Ids
    <3>2. rows["users"][Old] # NoRow
      BY <1>1, <3>1, GatewayAssumption, RowFields DEF Tables, KeysOf, Ids
    <3> QED
      BY <3>1, <3>2 DEF Taken, Ids
  <2>3. freed[e] = 0 /\ Cardinality(Created(e)) = 0
    BY <2>1, FS_EmptySet DEF Init
  <2> QED
    BY <1>1, <2>2, <2>3, AllowedTyped DEF Room, Allowed
<1> QED
  BY <1>1, <1>2 DEF AccountInv, AccountsBounded

\* However registrations, creations, updates and removals of users race, an
\* e-mail is given to one new user each time it is free.
THEOREM AccountsAreUnique == Spec => []OneAccountPerEmail
<1>1. AccountInv => OneAccountPerEmail
  <2>1. SUFFICES ASSUME AccountInv, NEW e \in Emails
                 PROVE  Cardinality(Created(e)) <= Allowed(e)
    BY DEF OneAccountPerEmail, Allowed
  <2> QED
    BY <2>1, AllowedTyped, CreatedCounted DEF AccountInv, HonestInv, AccountsBounded
<1> QED
  BY <1>1, AccountInit, AccountKept, PTL DEF Spec


=============================================================================
