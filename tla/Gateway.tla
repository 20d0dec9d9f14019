------------------------------- MODULE Gateway -------------------------------
(***************************************************************************)
(* Requests from the outside to the controllers of auth, users, payments   *)
(* and mail: JwtAuthGuard, ValidationPipe, the service with its database   *)
(* statements one by one, and the answer that the interceptor or the       *)
(* exception filter makes of what it returns or throws.                    *)
(*                                                                         *)
(* users and payments are tables with one unique column, key: the e-mail   *)
(* of a user, the order of a payment.  by is the request that last wrote   *)
(* the other columns.  The id of a row that request r creates is r.        *)
(***************************************************************************)
EXTENDS EmailDelivery, Responses

CONSTANTS
    Requests,
    Workloads,     \* what the requests may ask together
    Old,           \* the id of a user and of a payment that exist at the start
    OldKeys,       \* their keys
    Emails,
    Orders,        \* orders that exist at the start
    OtherOrders,   \* ids of no order
    NoRow

Tables == {"users", "payments"}
Ids == Requests \cup {Old}

KeysOf(t) == IF t = "users" THEN Emails ELSE Orders \cup OtherOrders

Rows(t) == [key : KeysOf(t), by : Ids]

Public == {"register", "login"}
Elsewhere == {"placeOrder", "removeOrder"}   \* requests to OrderController
Ops == Public \cup Elsewhere
           \cup {"create", "find", "update", "remove", "queueMail", "sendMail"}

\* key : the e-mail or order in the request; an update without one has NoRow.
\* as : whose token it carries. valid : does its body pass the DTO's checks?
Call == [op : Ops, table : Tables, id : Ids, key : Emails \cup Orders \cup OtherOrders \cup {NoRow},
         as : Ids, valid : BOOLEAN]

ASSUME GatewayAssumption ==
    /\ Mails = Requests
    /\ Workloads \subseteq [Requests -> Call]
    /\ \A w \in Workloads, r \in Requests :
          /\ w[r].key \in KeysOf(w[r].table) \cup {NoRow}
          /\ w[r].op \in Public \cup {"create"} => w[r].key # NoRow
          /\ w[r].op \in Public => w[r].table = "users"
    /\ \A t \in Tables : NoRow \notin Rows(t)
    /\ Old \notin Requests
    /\ OldKeys.users \in Emails /\ OldKeys.payments \in Orders

VARIABLES
    rows,       \* the two tables
    orders,     \* the orders that exist
    referenced, \* users who have orders or notification logs
    call,
    pc,
    entity,     \* the row a request has read, as it wants to save it
    dirty,      \* the columns save() will write
    answer,     \* status, errorType and message
    wrote,      \* ghost: requests that have changed a table or the queue
    freed       \* ghost: how often each e-mail came free

tableVars == <<rows, orders, referenced, freed>>
callVars == <<call, entity, dirty>>
vars == <<mailVars, tableVars, callVars, pc, answer, wrote>>

NoAnswer == [status |-> 0]
Statuses == {200, 400, 401, 404, 409, 500}
ErrorTypes == {"VALIDATION_ERROR", "DATABASE_UNIQUE_CONFLICT", "DATABASE_FOREIGN_KEY_FAILED",
               "DATABASE_ERROR", "CRITICAL_SYSTEM_CRASH", "the exception's"}
Messages == {"fixed", "the first", "a translation", "the exception's"}
Answers == [status : {0, 200}]
               \cup [status : Statuses, errorType : ErrorTypes, message : Messages]
AnyRow == Rows("users") \cup Rows("payments") \cup {NoRow}

-----------------------------------------------------------------------------

Running == {"guard", "pipe", "findEmail", "find", "diff", "insert", "update", "delete",
            "enqueue", "send"}

TablesOK ==
    /\ rows \in [Tables -> [Ids -> AnyRow]]
    /\ \A t \in Tables, i \in Ids : rows[t][i] \in Rows(t) \cup {NoRow}
    /\ referenced \subseteq {i \in Ids : rows["users"][i] # NoRow}
    /\ orders \subseteq Orders
    /\ \A i \in Ids : rows["payments"][i] # NoRow => rows["payments"][i].key \in orders
    /\ freed \in [Emails -> Nat]

RequestsOK ==
    /\ call \in Workloads
    /\ pc \in [Requests -> {"idle", "done"} \cup Running]
    /\ dirty \in [Requests -> SUBSET {"key", "by"}]
    /\ answer \in [Requests -> Answers]
    /\ entity \in [Requests -> AnyRow]
    /\ \A r \in Requests :
          /\ entity[r] \in Rows(call[r].table) \cup {NoRow}
          /\ pc[r] \in {"diff", "insert", "update"} => entity[r] # NoRow
    /\ wrote \subseteq Requests

\* No row refers to one that is gone, and nothing is saved that was not read.
TypeOK == MailTypeOK /\ TablesOK /\ RequestsOK

Init ==
    /\ MailInit
    /\ rows = [t \in Tables |-> [i \in Ids |->
                 IF i = Old THEN [key |-> OldKeys[t], by |-> Old] ELSE NoRow]]
    /\ orders = Orders
    /\ referenced = {}
    /\ call \in Workloads
    /\ pc = [r \in Requests |-> "idle"]
    /\ entity = [r \in Requests |-> NoRow]
    /\ dirty = [r \in Requests |-> {}]
    /\ answer = [r \in Requests |-> NoAnswer]
    /\ wrote = {}
    /\ freed = [e \in Emails |-> 0]

Table(r) == call[r].table
Id(r) == call[r].id
Row(r) == rows[Table(r)][Id(r)]

Goto(r, label) == pc' = [pc EXCEPT ![r] = label]

Answer(r, what) ==
    /\ Goto(r, "done")
    /\ answer' = [answer EXCEPT ![r] = what]
    /\ entity' = [entity EXCEPT ![r] = NoRow]
    /\ dirty' = [dirty EXCEPT ![r] = {}]
    /\ UNCHANGED call

Ok(r) == Answer(r, [status |-> 200])

Throw(r, exception) == Answer(r, Caught(exception))

Continue(r, label) == Goto(r, label) /\ UNCHANGED <<callVars, answer>>

Unchanged == UNCHANGED <<mailVars, tableVars, wrote>>

-----------------------------------------------------------------------------
(* Guard and pipe *)

Arrive(r) ==
    /\ pc[r] = "idle" /\ call[r].op \notin Elsewhere
    /\ Continue(r, IF call[r].op \in Public THEN "findEmail" ELSE "guard")
    /\ Unchanged

\* JwtStrategy.validate: is there still a user for the token?
Guard(r) ==
    /\ pc[r] = "guard"
    /\ \/ rows["users"][call[r].as] = NoRow /\ Throw(r, UnauthorizedException)
       \/ rows["users"][call[r].as] # NoRow /\ Continue(r, "pipe")
    /\ Unchanged

Handler(op) ==
    CASE op = "create"    -> "insert"
      [] op = "queueMail" -> "enqueue"
      [] op = "sendMail"  -> "send"
      [] OTHER            -> "find"

\* A new row; by itself create() does nothing.
NewRow(r) == [key |-> call[r].key, by |-> r]

Pipe(r) ==
    /\ pc[r] = "pipe"
    /\ \/ ~call[r].valid /\ Throw(r, BadRequestList)
       \/ /\ call[r].valid
          /\ Goto(r, Handler(call[r].op))
          /\ entity' = IF call[r].op = "create" THEN [entity EXCEPT ![r] = NewRow(r)] ELSE entity
          /\ UNCHANGED <<call, dirty, answer>>
    /\ Unchanged

-----------------------------------------------------------------------------
(* AuthService, UserService and PaymentService *)

Taken(e) == \E i \in Ids : rows["users"][i] # NoRow /\ rows["users"][i].key = e

\* login and register look for the e-mail. bcrypt may find either.
FindEmail(r) ==
    /\ pc[r] = "findEmail"
    /\ \/ call[r].op = "login" /\ Taken(call[r].key) /\ Ok(r)
       \/ call[r].op = "login" /\ Throw(r, UnauthorizedException)
       \/ call[r].op = "register" /\ Taken(call[r].key) /\ Throw(r, UnauthorizedException)
       \/ /\ call[r].op = "register" /\ ~Taken(call[r].key)
          /\ Goto(r, "insert")
          /\ entity' = [entity EXCEPT ![r] = NewRow(r)]
          /\ UNCHANGED <<call, dirty, answer>>
    /\ Unchanged

\* Object.assign(row, dto)
Assigned(r) == [key |-> IF call[r].key = NoRow THEN Row(r).key ELSE call[r].key, by |-> r]

Find(r) ==
    /\ pc[r] = "find"
    /\ \/ Row(r) = NoRow /\ Throw(r, NotFoundException)
       \/ Row(r) # NoRow /\ call[r].op = "find" /\ Ok(r)
       \/ Row(r) # NoRow /\ call[r].op = "remove" /\ Continue(r, "delete")
       \/ /\ Row(r) # NoRow /\ call[r].op = "update"
          /\ Goto(r, "diff")
          /\ entity' = [entity EXCEPT ![r] = Assigned(r)]
          /\ UNCHANGED <<call, dirty, answer>>
    /\ Unchanged

\* save() reads the row again: INSERT if it is gone, else what differs.
Diff(r) ==
    /\ pc[r] = "diff"
    /\ \/ Row(r) = NoRow /\ Continue(r, "insert")
       \/ /\ Row(r) # NoRow
          /\ dirty' = [dirty EXCEPT ![r] = {c \in {"key", "by"} : entity[r][c] # Row(r)[c]}]
          /\ Goto(r, "update")
          /\ UNCHANGED <<call, entity, answer>>
    /\ Unchanged

\* Mutant: the column is not unique.
KeyNeverTaken(t, i, key) == FALSE

\* Another row of the table has this key.
KeyTaken(t, i, key) == \E j \in Ids \ {i} : rows[t][j] # NoRow /\ rows[t][j].key = key

OrderMissing(t, key) == t = "payments" /\ key \notin orders

\* Row i of table t is replaced; an e-mail may come free.
Put(r, t, i, row) ==
    LET old == rows[t][i] IN
    /\ rows' = [rows EXCEPT ![t][i] = row]
    /\ wrote' = wrote \cup {r}
    /\ freed' = IF t = "users" /\ old # NoRow /\ (row = NoRow \/ row.key # old.key)
                  THEN [freed EXCEPT ![old.key] = @ + 1] ELSE freed
    /\ UNCHANGED <<mailVars, orders, referenced>>

\* The statement was run; its answer arrives, or is lost.
Done(r) == Ok(r) \/ Throw(r, ConnectionLost)

NewId(r) == IF call[r].op = "update" THEN Id(r) ELSE r

Insert(r) ==
    /\ pc[r] = "insert"
    /\ LET t == Table(r)
           i == NewId(r)
           clash == rows[t][i] # NoRow \/ KeyTaken(t, i, entity[r].key)
           missing == OrderMissing(t, entity[r].key)
       IN  \/ clash /\ Throw(r, UniqueViolation) /\ Unchanged
           \/ ~clash /\ missing /\ Throw(r, ForeignKeyViolation) /\ Unchanged
           \/ ~clash /\ ~missing /\ Put(r, t, i, entity[r]) /\ Done(r)

Updated(r) == [c \in {"key", "by"} |-> IF c \in dirty[r] THEN entity[r][c] ELSE Row(r)[c]]

Update(r) ==
    /\ pc[r] = "update"
    /\ LET clash == KeyTaken(Table(r), Id(r), Updated(r).key)
           missing == OrderMissing(Table(r), Updated(r).key)
       IN  \/ Row(r) = NoRow /\ Ok(r) /\ Unchanged
           \/ Row(r) # NoRow /\ clash /\ Throw(r, UniqueViolation) /\ Unchanged
           \/ Row(r) # NoRow /\ ~clash /\ missing /\ Throw(r, ForeignKeyViolation) /\ Unchanged
           \/ Row(r) # NoRow /\ ~clash /\ ~missing /\ Put(r, Table(r), Id(r), Updated(r)) /\ Done(r)

\* Mutant: what refers to a user has no foreign key.
NeverReferenced(t, i) == FALSE

IsReferenced(t, i) == t = "users" /\ i \in referenced

Delete(r) ==
    /\ pc[r] = "delete"
    /\ \/ Row(r) = NoRow /\ Ok(r) /\ Unchanged
       \/ /\ Row(r) # NoRow /\ IsReferenced(Table(r), Id(r))
          /\ Throw(r, ForeignKeyViolation) /\ Unchanged
       \/ /\ Row(r) # NoRow /\ ~IsReferenced(Table(r), Id(r))
          /\ Put(r, Table(r), Id(r), NoRow) /\ Done(r)

\* A statement, or the command that queues a mail, fails without effect.
StepFails(r) ==
    /\ pc[r] \in {"guard", "findEmail", "find", "diff", "insert", "update", "delete", "enqueue"}
    /\ Throw(r, IF pc[r] = "enqueue" THEN PlainError ELSE ConnectionLost)
    /\ Unchanged

\* What OrderService does to these tables: a user with an order, and an order
\* with a payment, cannot be deleted.
PlaceOrder(r) ==
    /\ pc[r] = "idle" /\ call[r].op = "placeOrder"
    /\ rows["users"][Id(r)] # NoRow
    /\ referenced' = referenced \cup {Id(r)}
    /\ Ok(r)
    /\ UNCHANGED <<mailVars, rows, orders, freed, wrote>>

RemoveOrder(r) ==
    /\ pc[r] = "idle" /\ call[r].op = "removeOrder"
    /\ call[r].key \in orders
    /\ ~\E i \in Ids : rows["payments"][i] # NoRow /\ rows["payments"][i].key = call[r].key
    /\ orders' = orders \ {call[r].key}
    /\ Ok(r)
    /\ UNCHANGED <<mailVars, rows, referenced, freed, wrote>>

-----------------------------------------------------------------------------
(* EmailController *)

QueueMail(r) ==
    /\ pc[r] = "enqueue"
    /\ Enqueue(r)
    /\ wrote' = wrote \cup {r}
    /\ Ok(r) \/ Throw(r, PlainError)
    /\ UNCHANGED tableVars

\* Mutant: the last failure is forgotten.
SendUnchecked(r) ==
    /\ pc[r] = "send"
    /\ \/ SentDirectly(r) /\ Ok(r)
       \/ SendRejected(r) /\ Continue(r, "send") /\ ~LastAttempt(r)
       \/ SendRejected(r) /\ Ok(r) /\ LastAttempt(r)
    /\ UNCHANGED <<tableVars, wrote>>

SendMail(r) ==
    /\ pc[r] = "send"
    /\ \/ SentDirectly(r) /\ Ok(r)
       \/ ~LastAttempt(r) /\ SendRejected(r) /\ Continue(r, "send")
       \/ LastAttempt(r) /\ SendRejected(r) /\ Throw(r, PlainError)
    /\ UNCHANGED <<tableVars, wrote>>

-----------------------------------------------------------------------------

Progress(r) ==
    \/ Guard(r) \/ Pipe(r) \/ FindEmail(r) \/ Find(r) \/ Diff(r)
    \/ Insert(r) \/ Update(r) \/ Delete(r) \/ QueueMail(r) \/ SendMail(r)

Mailing == MailStep /\ UNCHANGED <<tableVars, callVars, pc, answer, wrote>>

Next ==
    \/ \E r \in Requests : \/ Arrive(r) \/ Progress(r) \/ StepFails(r)
                        \/ PlaceOrder(r) \/ RemoveOrder(r)
    \/ Mailing

\* Handlers and workers go on; BullMQ finds the jobs of dead workers.
Others == UNCHANGED <<tableVars, callVars, pc, answer, wrote>>
Fairness ==
    /\ \A r \in Requests : WF_vars(Progress(r))
    /\ \A w \in MailWorkers :
          /\ WF_vars((Send(w) \/ Report(w)) /\ Others)
          /\ WF_vars(\E m \in Mails : TakeMail(w, m) /\ Others)
    /\ \A m \in Mails : WF_vars(state[m] = "active" /\ MailOrphaned(m) /\ StallMail(m) /\ Others)

Spec == Init /\ [][Next]_vars /\ Fairness

-----------------------------------------------------------------------------
(* Properties *)

Created(e) == {r \in Requests : /\ Table(r) = "users" /\ call[r].key = e
                                /\ call[r].op \in {"register", "create"}
                                /\ answer[r].status = 200}

\* However registrations and creations of users race, at most one of them is
\* told that it has got the e-mail each time the e-mail is free.
OneAccountPerEmail ==
    \A e \in Emails :
        Cardinality(Created(e)) <= freed[e] + IF e = OldKeys.users THEN 0 ELSE 1

\* A request that is told that it is at fault (4xx) has changed nothing, and
\* one that creates something and is told of success has done it. Only 500
\* leaves the client in doubt.
HonestStatus ==
    \A r \in Requests :
        /\ answer[r].status \in 400..499 => r \notin wrote
        /\ answer[r].status = 200 /\ call[r].op \in {"register", "create", "queueMail"} => r \in wrote

\* A queued mail that BullMQ reports as completed, and a direct one that is
\* reported as sent, was accepted by the SMTP server.  A direct one that the
\* server accepted is reported as failed only after its last attempt: before
\* that, one answer that arrives ends the loop with success.  No mail is sent
\* more often than its attempts and stalls allow.
MailPromise ==
    \A r \in Requests :
        /\ state[r] = "completed" => accepted[r] > 0
        /\ call[r].op = "sendMail" /\ answer[r].status = 200 => accepted[r] > 0
        /\ call[r].op = "sendMail" /\ answer[r].status = 500 =>
              LastAttempt(r) \/ accepted[r] = 0
        /\ accepted[r] <= MaxAttempts + IF call[r].op = "sendMail" THEN 0 ELSE MaxStalled

\* Every request is answered and every queued mail ends, completed or failed.
EverythingEnds ==
    \A r \in Requests :
        /\ pc[r] # "idle" ~> pc[r] = "done"
        /\ state[r] = "waiting" ~> state[r] \in MailQueue!Ended

=============================================================================
