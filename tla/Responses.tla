------------------------------ MODULE Responses ------------------------------
(***************************************************************************)
(* What a client is answered: TransformInterceptor on what a handler       *)
(* returns, and GlobalExceptionFilter on what it throws.                   *)
(***************************************************************************)
EXTENDS Naturals, TLC

\* An HttpException: its status, and what its message is - a text in English
\* or in Arabic, or the list that ValidationPipe makes.
Http(status, text) == [class |-> "HttpException", status |-> status, text |-> text]

\* A QueryFailedError of the PostgreSQL driver, with its SQLSTATE.
QueryFailed(code) == [class |-> "QueryFailedError", code |-> code]

EntityNotFound == [class |-> "EntityNotFoundError"]

\* Anything else.
PlainError == [class |-> "Error"]

NotFoundException == Http(404, "english")
UnauthorizedException == Http(401, "english")
BadRequestList == Http(400, "list")
UniqueViolation == QueryFailed("23505")
ForeignKeyViolation == QueryFailed("23503")
ConnectionLost == QueryFailed("57P01")

\* translateHttpError: a text that is not Arabic gives way to a fixed one for
\* these statuses, whatever it said.
Translated(exception) == exception.text = "english" /\ exception.status \in {400, 401, 403, 404}

HttpAnswer(exception) ==
    [status |-> exception.status,
     errorType |-> IF exception.text = "list" THEN "VALIDATION_ERROR" ELSE "the exception's",
     message |-> IF exception.text = "list" THEN "the first"
                 ELSE IF Translated(exception) THEN "a translation" ELSE "the exception's"]

Fixed(status, errorType) == [status |-> status, errorType |-> errorType, message |-> "fixed"]

\* Mutant: every failed query is taken for a conflict.
ConflictAnswer(exception) == Fixed(409, "DATABASE_UNIQUE_CONFLICT")

DatabaseAnswer(exception) ==
    CASE exception.code = "23505" -> Fixed(409, "DATABASE_UNIQUE_CONFLICT")
      [] exception.code = "23503" -> Fixed(400, "DATABASE_FOREIGN_KEY_FAILED")
      [] OTHER                    -> Fixed(500, "DATABASE_ERROR")

\* GlobalExceptionFilter.catch
Caught(exception) ==
    CASE exception.class = "HttpException"       -> HttpAnswer(exception)
      [] exception.class = "QueryFailedError"    -> DatabaseAnswer(exception)
      [] exception.class = "EntityNotFoundError" -> Fixed(404, "DATABASE_RECORD_NOT_FOUND")
      [] OTHER                                   -> Fixed(500, "CRITICAL_SYSTEM_CRASH")

-----------------------------------------------------------------------------

\* TransformInterceptor.intercept: a body that has data is kept, any other one
\* becomes the data. meta is the set of its fields' names.
Transformed(body) ==
    LET base == IF "data" \in DOMAIN body THEN body @@ [success |-> TRUE]
                                          ELSE [success |-> TRUE, data |-> body]
        meta == IF "meta" \in DOMAIN base THEN base.meta ELSE {}
    IN  [meta |-> meta \cup {"executionTimeMs"}] @@ base

\* The interceptor is registered twice, by main.ts and by AppModule.
Delivered(body) == Transformed(Transformed(body))

\* What handlers return: an entity, a page, what the queue's controllers say.
Bodies ==
    {[id |-> "x"], [data |-> "rows", total |-> 1], [data |-> "rows", meta |-> {"own"}],
     [success |-> TRUE, message |-> "queued"], [message |-> "sent"]}

\* Registering it twice changes nothing, and what a handler returns as data
\* is never wrapped in data again.
ASSUME TransformedOnce ==
    \A body \in Bodies :
        /\ Delivered(body) = Transformed(body)
        /\ Delivered(body).data = IF "data" \in DOMAIN body THEN body.data ELSE body

\* The filter invents no success, and every error the services throw on
\* purpose keeps its status.
ASSUME StatusKept ==
    /\ \A code \in {"23505", "23503", "57P01", "40P01"} : Caught(QueryFailed(code)).status >= 400
    /\ \A status \in {400, 401, 403, 404, 409, 429}, text \in {"english", "arabic", "list"} :
          Caught(Http(status, text)).status = status
    /\ Caught(EntityNotFound).status = 404 /\ Caught(PlainError).status = 500

=============================================================================
