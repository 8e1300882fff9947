------------------------------- MODULE Pipeline -------------------------------
(***************************************************************************)
(* A request's way through the application: middleware, dependencies,      *)
(* endpoint, commit, answer, background task, and the two pools it needs   *)
(* on the way.                                                             *)
(*                                                                         *)
(* FastAPI runs every dependency that is a plain `def` in a thread of a    *)
(* pool, and background tasks in the same pool.  SQLAlchemy takes a        *)
(* connection from its pool at the first statement of a session; get_db    *)
(* gives it back before the answer is sent.  A body or a parameter that    *)
(* does not validate is reported only when the dependencies are closed, so *)
(* get_db commits before a 422 as it does before a success.                *)
(***************************************************************************)
EXTENDS Naturals, Sequences, FiniteSets

CONSTANTS
  Request,     \* requests that can be under way at once
  Threads,     \* tokens of the thread pool (40)
  Connections, \* pool_size and max_overflow of the engine (15)
  Routes,      \* the kinds of endpoint that are called
  Faults       \* may a statement, a command or a commit fail?

ASSUME PoolAssumption == Threads \in Nat \ {0} /\ Connections \in Nat \ {0}
ASSUME FaultAssumption == Faults \in BOOLEAN

VARIABLES
  req,  \* what every request has still to do, and its answer
  conns \* requests whose session has a connection

vars == <<req, conns>>

-----------------------------------------------------------------------------
(* What the endpoints need, in the order FastAPI resolves it.                *)

AuthNeeds == <<"hop", "hop">>       \* get_user_repository, get_auth_service
NotificationNeeds == <<"hop">>      \* get_notification_service
GuardNeeds == <<"bearer", "hop", "guard">> \* HTTPBearer, get_user_repository, get_by_id
RepositoryNeeds == <<"hop", "hop">> \* get_project_repository, get_task_repository
ServiceNeeds == <<"hop">>           \* get_project_service or get_task_service

\* "mail" is register and forgot-password, "link" login, verify-email and
\* reset-password, "session" refresh and logout, "item" projects and tasks (a
\* list has one more hop, for its PageParams; /me stops at the guard).
Endpoint ==
  [mail |-> <<"json">> \o AuthNeeds \o NotificationNeeds \o <<"params", "query", "redis">>,
   link |-> <<"json">> \o AuthNeeds \o <<"params", "redis", "query">>,
   session |-> <<"json">> \o AuthNeeds \o <<"params", "redis">>,
   item |-> <<"json">> \o GuardNeeds \o RepositoryNeeds \o ServiceNeeds \o <<"params", "query">>,
   health |-> <<"params", "query", "redis">>]

Route == DOMAIN Endpoint

ASSUME RouteAssumption == Routes \subseteq Route

Plan(route) ==
  Endpoint[route] \o <<"commit", "answer">> \o (IF route = "mail" THEN <<"mail">> ELSE <<>>)

-----------------------------------------------------------------------------
(* Exceptions.                                                               *)

Parent ==
  [AppError |-> "Exception", RequestValidationError |-> "Exception",
   HTTPException |-> "Exception",
   NotFoundError |-> "AppError", ConflictError |-> "AppError",
   InvalidCredentialsError |-> "AppError", AccountLockedError |-> "AppError",
   EmailNotVerifiedError |-> "AppError", InvalidTokenError |-> "AppError",
   ForbiddenError |-> "AppError", UserNotFoundError |-> "NotFoundError",
   ProjectNotFoundError |-> "NotFoundError", TaskNotFoundError |-> "NotFoundError",
   EmailAlreadyRegisteredError |-> "ConflictError"]

Class == DOMAIN Parent \cup {"Exception"}

\* _EXCEPTION_STATUS_MAP, and FastAPI's own handlers.
Handler ==
  [NotFoundError |-> 404, ConflictError |-> 409, InvalidCredentialsError |-> 401,
   InvalidTokenError |-> 400, EmailNotVerifiedError |-> 403, ForbiddenError |-> 403,
   AccountLockedError |-> 423, RequestValidationError |-> 422, HTTPException |-> 403]

StatusOfExact(class) == IF class \in DOMAIN Handler THEN Handler[class] ELSE 0

\* The handler of the nearest class that has one; 500 if none has.
StatusOf(class) ==
  LET status[c \in Class] ==
        IF c \in DOMAIN Handler THEN Handler[c]
        ELSE IF c = "Exception" THEN 500 ELSE status[Parent[c]]
  IN status[class]

\* What the code raises on purpose, by route and by need.
Raises(route, need) ==
  CASE need = "bearer" -> {"HTTPException"}
    [] need = "guard" -> {"InvalidCredentialsError"}
    [] need \in {"json", "params"} /\ route # "health" -> {"RequestValidationError"}
    [] route = "mail" /\ need = "query" -> {"EmailAlreadyRegisteredError"}
    [] route = "link" /\ need = "redis" -> {"AccountLockedError", "InvalidTokenError"}
    [] route = "link" /\ need = "query" ->
         {"InvalidCredentialsError", "EmailNotVerifiedError", "InvalidTokenError"}
    [] route = "session" /\ need = "redis" -> {"InvalidTokenError"}
    [] route = "item" /\ need = "query" -> {"ProjectNotFoundError", "TaskNotFoundError"}
    [] OTHER -> {}

-----------------------------------------------------------------------------
Idle == [pc |-> "idle", route |-> "health", plan |-> <<>>, error |-> "none",
         status |-> 200, ran |-> FALSE, committed |-> FALSE]

At(r, label) == req[r].pc = label
Needs(r, need) == At(r, "run") /\ Head(req[r].plan) = need
NeedsDatabase(r) == Needs(r, "guard") \/ Needs(r, "query")

InThread == {r \in Request : req[r].pc \in {"thread", "smtp"}}
ThreadFree == Cardinality(InThread) < Threads
ConnectionFree == Cardinality(conns) < Connections

\* The endpoint runs once its parameters are valid.
Proceed(r) ==
  req' = [req EXCEPT ![r].pc = "run", ![r].plan = Tail(@), ![r].ran = @ \/ Needs(r, "params")]

\* How the request ends when an exception leaves what it is at.  Before get_db
\* is entered there is nothing to end; invalid parameters are raised when get_db
\* has been left as after a success; all others make it roll back.
Ending(need) ==
  CASE need \in {"json", "bearer"} -> <<"answer">>
    [] need = "params" -> <<"commit", "answer">>
    [] OTHER -> <<"rollback", "answer">>

Raise(r, class) ==
  req' = [req EXCEPT ![r].error = class, ![r].plan = Ending(Head(req[r].plan))]

Arrive(r, route) ==
  /\ At(r, "idle")
  /\ req' = [req EXCEPT ![r] = [Idle EXCEPT !.pc = "run", !.route = route, !.plan = Plan(route)]]
  /\ UNCHANGED conns

EnterThread(r) ==
  /\ Needs(r, "hop") \/ Needs(r, "mail")
  /\ ThreadFree
  /\ req' = [req EXCEPT ![r].pc = IF Needs(r, "hop") THEN "thread" ELSE "smtp"]
  /\ UNCHANGED conns

LeaveThread(r) == At(r, "thread") /\ Proceed(r) /\ UNCHANGED conns

\* The first statement takes a connection, which the session keeps.
Connect(r) ==
  /\ NeedsDatabase(r) /\ r \notin conns
  /\ ConnectionFree
  /\ conns' = conns \cup {r}
  /\ UNCHANGED req

\* A statement, a Redis command or a check is done; the code goes on or raises.
\* A bad token is refused before any statement.
Execute(r) ==
  /\ \/ NeedsDatabase(r) /\ r \in conns /\ Proceed(r)
     \/ (Needs(r, "json") \/ Needs(r, "bearer") \/ Needs(r, "params") \/ Needs(r, "redis"))
          /\ Proceed(r)
     \/ /\ At(r, "run") /\ (Needs(r, "query") => r \in conns)
        /\ \E class \in Raises(req[r].route, Head(req[r].plan)) : Raise(r, class)
  /\ UNCHANGED conns

\* A statement or a command fails, or the wait for a connection is over after
\* 30 seconds.  The health check catches it, for everyone else it is a 500.
Break(r) ==
  /\ Faults
  /\ NeedsDatabase(r) \/ Needs(r, "redis")
  /\ IF req[r].route = "health"
       THEN req' = [req EXCEPT ![r].status = 503, ![r].plan = Tail(@)]
       ELSE Raise(r, "Exception")
  /\ UNCHANGED conns

CommitKeepingConnection(r) ==
  /\ Needs(r, "commit")
  /\ req' = [req EXCEPT ![r].plan = Tail(@), ![r].committed = TRUE]
  /\ UNCHANGED conns

Commit(r) ==
  /\ Needs(r, "commit")
  /\ req' = [req EXCEPT ![r].plan = Tail(@), ![r].committed = TRUE]
  /\ conns' = conns \ {r}

CommitFailsQuietly(r) ==
  /\ Faults /\ Needs(r, "commit") /\ r \in conns
  /\ Proceed(r)
  /\ conns' = conns \ {r}

\* session.commit() raises: PostgreSQL refused, or the connection was lost
\* before its answer came, and nobody knows whether it had committed.  A
\* session without a connection has nothing to commit and cannot fail.
CommitFails(r) ==
  /\ Faults /\ Needs(r, "commit") /\ r \in conns
  /\ \E done \in BOOLEAN :
       req' = [req EXCEPT ![r].error = "Exception", ![r].plan = <<"rollback", "answer">>,
                          ![r].committed = done]
  /\ UNCHANGED conns

RollbackKeepingConnection(r) == Needs(r, "rollback") /\ Proceed(r) /\ UNCHANGED conns

\* get_db rolls back, closes the session and raises again.
Rollback(r) ==
  /\ Needs(r, "rollback")
  /\ Proceed(r)
  /\ conns' = conns \ {r}

\* What nobody handles passes through the middleware: a bare 500.
Answer(r) ==
  /\ Needs(r, "answer")
  /\ req' = [req EXCEPT ![r].pc = "answered", ![r].plan = Tail(@),
                        ![r].status = IF req[r].error = "none" THEN @ ELSE StatusOf(req[r].error)]
  /\ UNCHANGED conns

\* The answer is sent; then background tasks run.
Send(r) ==
  /\ At(r, "answered")
  /\ req' = [req EXCEPT ![r] = IF @.plan = <<>> THEN Idle ELSE [@ EXCEPT !.pc = "run"]]
  /\ UNCHANGED conns

\* The server answers or the connection breaks.  Neither need ever happen:
\* smtplib.SMTP is given no timeout.
SmtpEnd(r) ==
  /\ At(r, "smtp")
  /\ req' = [req EXCEPT ![r] = Idle]
  /\ UNCHANGED conns

-----------------------------------------------------------------------------
Init ==
  /\ req = [r \in Request |-> Idle]
  /\ conns = {}

Step(r) ==
  \/ EnterThread(r) \/ LeaveThread(r) \/ Connect(r) \/ Execute(r)
  \/ Commit(r) \/ Rollback(r) \/ Answer(r) \/ Send(r)

\* With nothing to run the event loop waits: only a stuck request is a deadlock.
Quiet == (\A r \in Request : At(r, "idle")) /\ UNCHANGED vars

Next ==
  \/ \E r \in Request :
       \/ \E route \in Routes : Arrive(r, route)
       \/ Step(r) \/ SmtpEnd(r) \/ Break(r) \/ CommitFails(r)
  \/ Quiet

Spec == Init /\ [][Next]_vars

\* Both pools serve those who wait in turn, and what a request has begun comes
\* to its end; but for a mail (SmtpEnd), whose server may be silent for ever.
\* Nothing relies on the timeout of the connection pool (Break).
Fairness == \A r \in Request : SF_vars(Step(r))

FairSpec == Spec /\ Fairness

-----------------------------------------------------------------------------
Needed == {"json", "bearer", "hop", "guard", "params", "query", "redis", "commit", "rollback",
           "answer", "mail"}

\* Every variable holds what a request or a pool can hold: no answer without a
\* status (_EXCEPTION_STATUS_MAP and FastAPI's handlers).
TypeOK ==
  /\ req \in [Request -> [pc : {"idle", "run", "thread", "answered", "smtp"}, route : Route,
                          plan : Seq(Needed), error : Class \cup {"none"}, status : 200..599,
                          ran : BOOLEAN, committed : BOOLEAN]]
  /\ conns \in SUBSET Request

Mailing == {r \in Request : At(r, "smtp")}

Waits(r) ==
  \/ (Needs(r, "hop") \/ Needs(r, "mail")) /\ ~ThreadFree
  \/ NeedsDatabase(r) /\ r \notin conns /\ ~ConnectionFree

\* Requests that hold a connection wait for threads, and others for their
\* connections; yet nothing but SMTP can bring all of them to a halt, and only
\* when mails have every thread.
StuckOnlyBySmtp ==
  (\A r \in Request : At(r, "idle") \/ At(r, "smtp") \/ Waits(r))
    /\ (\E r \in Request : Waits(r))
  => Cardinality(Mailing) = Threads

\* An answer tells what became of the endpoint's work (get_db, and main.py's
\* map): a success, or the health check's 503, if it was committed, a 4xx if it
\* was not, though the empty transaction of a 422 is committed too.  A 500 leaves
\* it open, and is given for nothing the code raises on purpose.
AnswerTellsOutcome ==
  \A r \in Request : At(r, "answered") =>
    /\ req[r].status \in {200, 503} => req[r].ran /\ req[r].committed
    /\ req[r].status \in 400..499 => ~(req[r].ran /\ req[r].committed)
    /\ req[r].status = 500 <=> req[r].error = "Exception"

Unanswered(r) == \E i \in DOMAIN req[r].plan : req[r].plan[i] = "answer"

\* Every request is answered, whatever fails, without the help of a timeout,
\* and though some mails never end, unless they keep all the threads for ever:
\* connections and threads come back from every outcome.
AnswersCome ==
  \A r \in Request :
    []<>(Cardinality(Mailing) < Threads) => (Unanswered(r) ~> At(r, "answered"))
=============================================================================
