---------------------------- MODULE PipelineProofs ----------------------------
(***************************************************************************)
(* What TLAPS proves of Pipeline, for every value of the constants.        *)
(***************************************************************************)
EXTENDS Pipeline, FiniteSetTheorems, SequenceTheorems, TLAPS

-----------------------------------------------------------------------------
(* Plans.                                                                    *)

\* What comes before the commit: before get_db is entered, and statements.
Work == {"json", "bearer", "hop", "guard", "params", "query", "redis"}
Early == {"json", "bearer"}
Database == {"guard", "query"}

MailLength(route) == IF route = "mail" THEN 1 ELSE 0

\* No statement before the last early need, and the parameters only at k.
Ordered(plan, n) == \A i, j \in 1..n : i < j /\ plan[i] \in Database => plan[j] \notin Early
ParamsAt(plan, n, k) == \A i \in 1..n : plan[i] = "params" <=> i = k

\* n needs, the k-th the parameters (0 if behind it), then the commit, the
\* answer and perhaps a mail.
Ahead(plan, route, n, k) ==
  /\ Len(plan) = n + 2 + MailLength(route)
  /\ \A i \in 1..n : plan[i] \in Work
  /\ k \in 0..n /\ ParamsAt(plan, n, k) /\ Ordered(plan, n)
  /\ plan[n + 1] = "commit" /\ plan[n + 2] = "answer"
  /\ route = "mail" => plan[n + 3] = "mail"

\* get_db has been entered.
Entered(plan) == \A i \in 1..Len(plan) : plan[i] \notin Early

LEMMA Joined ==
  ASSUME NEW S, NEW s \in Seq(S), NEW t \in Seq(S)
  PROVE  /\ s \o t \in Seq(S) /\ Len(s \o t) = Len(s) + Len(t)
         /\ Len(s) \in Nat /\ Len(t) \in Nat
         /\ \A i \in 1..Len(s) : (s \o t)[i] = s[i]
         /\ \A i \in 1..Len(t) : (s \o t)[Len(s) + i] = t[i]
<1>1. Len(s) \in Nat /\ Len(t) \in Nat
  OBVIOUS
<1>2. /\ s \o t \in Seq(S) /\ Len(s \o t) = Len(s) + Len(t)
      /\ \A i \in 1..Len(s) + Len(t) :
           (s \o t)[i] = IF i <= Len(s) THEN s[i] ELSE t[i - Len(s)]
  BY ConcatProperties
<1>3. ASSUME NEW i \in 1..Len(s) PROVE (s \o t)[i] = s[i]
  BY <1>1, <1>2
<1>4. ASSUME NEW i \in 1..Len(t) PROVE (s \o t)[Len(s) + i] = t[i]
  <2>1. Len(s) + i \in 1..Len(s) + Len(t) /\ ~(Len(s) + i <= Len(s))
        /\ (Len(s) + i) - Len(s) = i
    BY <1>1
  <2> QED BY <1>2, <2>1
<1> QED BY <1>1, <1>2, <1>3, <1>4

LEMMA OrderedConcat ==
  ASSUME NEW s \in Seq(Work), NEW t \in Seq(Work), Ordered(s, Len(s)), Ordered(t, Len(t)),
         s \in Seq(Work \ Database) \/ t \in Seq(Work \ Early)
  PROVE  s \o t \in Seq(Work) /\ Ordered(s \o t, Len(s \o t))
<1>1. /\ s \o t \in Seq(Work) /\ Len(s \o t) = Len(s) + Len(t)
      /\ Len(s) \in Nat /\ Len(t) \in Nat
      /\ \A i \in 1..Len(s) : (s \o t)[i] = s[i]
      /\ \A i \in 1..Len(t) : (s \o t)[Len(s) + i] = t[i]
  BY Joined
<1>2. PICK u : u = s \o t
  OBVIOUS
<1>3. ASSUME NEW i \in 1..Len(u), NEW j \in 1..Len(u), i < j, u[i] \in Database
      PROVE  u[j] \notin Early
  <2>1. CASE j <= Len(s)
    BY <1>1, <1>2, <1>3, <2>1 DEF Ordered
  <2>2. CASE i > Len(s)
    <3>1. /\ i - Len(s) \in 1..Len(t) /\ j - Len(s) \in 1..Len(t)
          /\ i - Len(s) < j - Len(s)
      BY <1>1, <1>2, <1>3, <2>2
    <3>2. u[i] = t[i - Len(s)] /\ u[j] = t[j - Len(s)]
      BY <1>1, <1>2, <3>1
    <3> QED BY <1>3, <3>1, <3>2 DEF Ordered
  <2>3. CASE i <= Len(s) /\ j > Len(s)
    <3>1. i \in 1..Len(s) /\ j - Len(s) \in 1..Len(t)
      BY <1>1, <1>2, <1>3, <2>3
    <3>2. u[i] = s[i] /\ u[j] = t[j - Len(s)]
      BY <1>1, <1>2, <3>1
    <3>3. s \notin Seq(Work \ Database)
      BY <1>3, <3>1, <3>2
    <3> QED BY <3>1, <3>2, <3>3
  <2> QED BY <1>1, <1>2, <1>3, <2>1, <2>2, <2>3
<1> QED BY <1>1, <1>2, <1>3 DEF Ordered

\* All endpoints end with the parameters and what the endpoint itself does.
LEMMA Closing ==
  ASSUME NEW s \in Seq(Work \ {"params"}), NEW t \in Seq(Work), Len(t) # 0,
         ParamsAt(t, Len(t), 1)
  PROVE  ParamsAt(s \o t, Len(s \o t), Len(s) + 1) /\ Len(s) + 1 \in 1..Len(s \o t)
<1>0. s \in Seq(Work)
  OBVIOUS
<1>1. /\ Len(s \o t) = Len(s) + Len(t) /\ Len(s) \in Nat /\ Len(t) \in Nat
      /\ \A i \in 1..Len(s) : (s \o t)[i] = s[i]
      /\ \A i \in 1..Len(t) : (s \o t)[Len(s) + i] = t[i]
  BY <1>0, Joined
<1>2. PICK u : u = s \o t
  OBVIOUS
<1>3. ASSUME NEW i \in 1..Len(u) PROVE u[i] = "params" <=> i = Len(s) + 1
  <2>1. CASE i <= Len(s)
    <3>1. u[i] = s[i] /\ s[i] \in Work \ {"params"}
      BY <1>1, <1>2, <2>1
    <3> QED BY <1>1, <2>1, <3>1
  <2>2. CASE i > Len(s)
    <3>1. i - Len(s) \in 1..Len(t) /\ Len(s) + (i - Len(s)) = i
      BY <1>1, <1>2, <2>2
    <3>2. u[i] = t[i - Len(s)]
      BY <1>1, <1>2, <3>1
    <3>3. t[i - Len(s)] = "params" <=> i - Len(s) = 1
      BY <3>1 DEF ParamsAt
    <3> QED BY <1>1, <3>1, <3>2, <3>3
  <2> QED BY <1>1, <1>2, <2>1, <2>2
<1> QED BY <1>1, <1>2, <1>3 DEF ParamsAt

\* Each endpoint, from the lists it is put together of.
LEMMA Endpoints ==
  ASSUME NEW route \in Route
  PROVE  LET e == Endpoint[route] IN
         /\ e \in Seq(Work) /\ Ordered(e, Len(e))
         /\ \E k \in 1..Len(e) : ParamsAt(e, Len(e), k)
<1>1. route \in {"mail", "link", "session", "item", "health"}
  BY DEF Route, Endpoint
<1> DEFINE Good(e) == /\ e \in Seq(Work) /\ Ordered(e, Len(e))
                      /\ \E k \in 1..Len(e) : ParamsAt(e, Len(e), k)
\* What is said of the parts.
<1> DEFINE Front(s) == s \in Seq(Work \ {"params"}) /\ Ordered(s, Len(s))
<1> DEFINE Back(t) == /\ t \in Seq(Work \ Early) /\ Ordered(t, Len(t)) /\ Len(t) # 0
                      /\ ParamsAt(t, Len(t), 1)
<1>2. ASSUME NEW s, NEW t, Front(s), Back(t) PROVE Good(s \o t)
  <2>1. s \in Seq(Work) /\ t \in Seq(Work)
    BY <1>2
  <2> QED BY <1>2, <2>1, OrderedConcat, Closing
<1>3. ASSUME NEW s, NEW t, Front(s), Front(t),
             s \in Seq(Work \ Database) \/ t \in Seq(Work \ Early)
      PROVE  Front(s \o t)
  <2>1. s \in Seq(Work) /\ t \in Seq(Work) /\ s \o t \in Seq(Work \ {"params"})
    BY <1>3
  <2> QED BY <1>3, <2>1, OrderedConcat
<1>4. \A t \in Seq({"hop"}) : Front(t) /\ t \in Seq(Work \ Early)
  BY DEF Ordered, Work, Early, Database
<1> DEFINE json == <<"json">> hop == <<"hop">> hops == <<"hop", "hop">>
           guard == <<"bearer", "hop", "guard">>
           mail == <<"params", "query", "redis">> link == <<"params", "redis", "query">>
           session == <<"params", "redis">> item == <<"params", "query">>
<1>5. Front(json) /\ json \in Seq(Work \ Database)
  BY DEF Ordered, Work, Early, Database
<1>6. Front(guard)
  BY DEF Ordered, Work, Early, Database
<1>7. Front(hop) /\ Front(hops) /\ hop \in Seq(Work \ Early) /\ hops \in Seq(Work \ Early)
  <2>1. hop \in Seq({"hop"}) /\ hops \in Seq({"hop"})
    OBVIOUS
  <2> HIDE DEF hop, hops
  <2> QED BY <1>4, <2>1
<1>8. Back(mail) /\ Back(link)
  BY DEF Ordered, ParamsAt, Work, Early, Database
<1>9. Back(session) /\ Back(item)
  BY DEF Ordered, ParamsAt, Work, Early, Database
<1>10. Good(mail)
  <2>1. mail \in Seq(Work) /\ Len(mail) = 3
    BY DEF Work
  <2> QED BY <1>8, <2>1
<1>11. /\ Endpoint["mail"] = json \o hops \o hop \o mail
       /\ Endpoint["link"] = json \o hops \o link
       /\ Endpoint["session"] = json \o hops \o session
       /\ Endpoint["item"] = json \o guard \o hops \o hop \o item
       /\ Endpoint["health"] = mail
  BY DEF Endpoint, AuthNeeds, NotificationNeeds, GuardNeeds, RepositoryNeeds, ServiceNeeds
<1> HIDE DEF Good, Front, Back, json, hop, hops, guard, mail, link, session, item
<1>12. Front(json \o hops) /\ Front(json \o hops \o hop)
  <2>1. Front(json \o hops)
    BY <1>3, <1>5, <1>7
  <2> QED BY <1>3, <1>7, <2>1
<1>13. Front(json \o guard \o hops \o hop)
  <2>1. Front(json \o guard)
    BY <1>3, <1>5, <1>6
  <2>2. Front(json \o guard \o hops)
    BY <1>3, <1>7, <2>1
  <2> QED BY <1>3, <1>7, <2>2
<1>14. /\ Good(json \o hops \o hop \o mail) /\ Good(json \o hops \o link)
       /\ Good(json \o hops \o session)
       /\ Good(json \o guard \o hops \o hop \o item)
  BY <1>2, <1>8, <1>9, <1>12, <1>13
<1>15. Good(Endpoint[route])
  BY <1>1, <1>10, <1>11, <1>14
<1> QED BY <1>15 DEF Good

LEMMA EndpointPlan ==
  ASSUME NEW route \in Route
  PROVE  /\ Plan(route) \in Seq(Needed)
         /\ \E n \in Nat, k \in Nat \ {0} : Ahead(Plan(route), route, n, k)
<1>1. Endpoint[route] \in Seq(Work) /\ Ordered(Endpoint[route], Len(Endpoint[route]))
  BY Endpoints
<1>2. PICK k \in 1..Len(Endpoint[route]) :
        ParamsAt(Endpoint[route], Len(Endpoint[route]), k)
  BY Endpoints
<1>3. PICK t \in Seq(Needed) :
        t = <<"commit", "answer">> /\ Len(t) = 2 /\ t[1] = "commit" /\ t[2] = "answer"
  <2> DEFINE t == <<"commit", "answer">>
  <2>1. t \in Seq(Needed)
    BY DEF Needed
  <2>2. Len(t) = 2 /\ t[1] = "commit" /\ t[2] = "answer"
    OBVIOUS
  <2> QED BY <2>1, <2>2
<1>4. PICK u \in Seq(Needed) :
        /\ u = IF route = "mail" THEN <<"mail">> ELSE <<>>
        /\ Len(u) = MailLength(route) /\ (route = "mail" => u[1] = "mail")
  <2>1. CASE route = "mail"
    <3> DEFINE u == <<"mail">>
    <3>1. u \in Seq(Needed)
      BY DEF Needed
    <3>2. Len(u) = 1 /\ u[1] = "mail"
      OBVIOUS
    <3> QED BY <2>1, <3>1, <3>2 DEF MailLength
  <2>2. CASE route # "mail"
    <3> DEFINE u == <<>>
    <3>1. u \in Seq(Needed) /\ Len(u) = 0
      OBVIOUS
    <3>2. u = IF route = "mail" THEN <<"mail">> ELSE <<>>
      BY <2>2
    <3>3. MailLength(route) = 0
      BY <2>2 DEF MailLength
    <3> HIDE DEF u
    <3> QED BY <2>2, <3>1, <3>2, <3>3
  <2> QED BY <2>1, <2>2
<1>5. PICK s \in Seq(Needed) : s = Endpoint[route] /\ s \in Seq(Work)
  <2>1. Endpoint[route] \in Seq(Needed)
    BY <1>1 DEF Work, Needed
  <2> QED BY <1>1, <2>1
<1>k. k \in 1..Len(s) /\ ParamsAt(s, Len(s), k) /\ Ordered(s, Len(s))
  BY <1>1, <1>2, <1>5
<1>6. Plan(route) = (s \o t) \o u
  BY <1>3, <1>4, <1>5 DEF Plan
<1>7. /\ s \o t \in Seq(Needed) /\ Len(s \o t) = Len(s) + 2 /\ Len(s) \in Nat
      /\ \A i \in 1..Len(s) : (s \o t)[i] = s[i]
      /\ \A i \in 1..2 : (s \o t)[Len(s) + i] = t[i]
  <2>1. /\ s \o t \in Seq(Needed) /\ Len(s \o t) = Len(s) + Len(t) /\ Len(s) \in Nat
        /\ \A i \in 1..Len(s) : (s \o t)[i] = s[i]
        /\ \A i \in 1..Len(t) : (s \o t)[Len(s) + i] = t[i]
    BY Joined
  <2> QED BY <2>1, <1>3
<1>v. PICK v : v = s \o t
  OBVIOUS
<1>8. v \in Seq(Needed) /\ Len(v) = Len(s) + 2 /\ v[Len(s) + 1] = "commit"
      /\ v[Len(s) + 2] = "answer" /\ \A i \in 1..Len(s) : v[i] = s[i]
  <2>1. 1 \in 1..2 /\ 2 \in 1..2
    OBVIOUS
  <2> QED BY <1>3, <1>7, <1>v, <2>1
<1>9. /\ v \o u \in Seq(Needed) /\ Len(v \o u) = Len(v) + Len(u)
      /\ \A i \in 1..Len(v) : (v \o u)[i] = v[i]
      /\ \A i \in 1..Len(u) : (v \o u)[Len(v) + i] = u[i]
  BY <1>4, <1>8, Joined
<1> DEFINE w == v \o u
<1>10. Plan(route) = w
  BY <1>6, <1>v
<1>11. /\ w \in Seq(Needed) /\ Len(w) = Len(s) + 2 + MailLength(route)
       /\ w[Len(s) + 1] = "commit" /\ w[Len(s) + 2] = "answer"
       /\ \A i \in 1..Len(s) : w[i] = s[i]
  BY <1>4, <1>7, <1>8, <1>9 DEF MailLength
<1>12. route = "mail" => w[Len(s) + 3] = "mail"
  <2>1. route = "mail" => 1 \in 1..Len(u)
    BY <1>4 DEF MailLength
  <2>2. Len(v) + 1 = Len(s) + 3
    BY <1>7, <1>8
  <2> QED BY <1>4, <1>9, <2>1, <2>2
<1> HIDE DEF w
<1>13. /\ \A i \in 1..Len(s) : w[i] \in Work
       /\ ParamsAt(w, Len(s), k) /\ Ordered(w, Len(s))
  <2>1. \A i \in 1..Len(s) : s[i] \in Work
    BY <1>5
  <2> QED BY <1>k, <1>11, <2>1 DEF ParamsAt, Ordered
<1>14. Ahead(w, route, Len(s), k) /\ Len(s) \in Nat /\ k \in Nat \ {0}
  BY <1>7, <1>k, <1>11, <1>12, <1>13 DEF Ahead
<1> QED BY <1>10, <1>11, <1>14

-----------------------------------------------------------------------------
(* Statuses.                                                                 *)

\* What the endpoints raise, and what stands for the exceptions of libraries.
Raised == {"InvalidCredentialsError", "RequestValidationError", "EmailAlreadyRegisteredError",
           "AccountLockedError", "InvalidTokenError", "EmailNotVerifiedError",
           "ProjectNotFoundError", "TaskNotFoundError", "HTTPException", "Exception"}

LEMMA RaisesOK ==
  ASSUME NEW route, NEW need
  PROVE  Raises(route, need) \subseteq Raised
  BY DEF Raises, Raised

LEMMA Classes ==
  /\ Class = DOMAIN Parent \cup {"Exception"}
  /\ DOMAIN Handler = {"NotFoundError", "ConflictError", "InvalidCredentialsError",
                       "InvalidTokenError", "EmailNotVerifiedError", "ForbiddenError",
                       "AccountLockedError", "RequestValidationError", "HTTPException"}
  /\ DOMAIN Parent =
       {"AppError", "RequestValidationError", "NotFoundError", "ConflictError",
        "InvalidCredentialsError", "AccountLockedError", "EmailNotVerifiedError",
        "InvalidTokenError", "ForbiddenError", "UserNotFoundError", "ProjectNotFoundError",
        "TaskNotFoundError", "EmailAlreadyRegisteredError", "HTTPException"}
  BY DEF Class, Handler, Parent

\* The recursion over Parent, as a function equation that this table solves.
Table ==
  [c \in Class |->
     IF c \in DOMAIN Handler THEN Handler[c]
     ELSE CASE c \in {"UserNotFoundError", "ProjectNotFoundError", "TaskNotFoundError"} -> 404
            [] c = "EmailAlreadyRegisteredError" -> 409
            [] OTHER -> 500]

IsStatus(f) ==
  f = [c \in Class |-> IF c \in DOMAIN Handler THEN Handler[c]
                       ELSE IF c = "Exception" THEN 500 ELSE f[Parent[c]]]

LEMMA TableSolves == IsStatus(Table)
<1> SUFFICES ASSUME NEW c \in Class
             PROVE  Table[c] = IF c \in DOMAIN Handler THEN Handler[c]
                               ELSE IF c = "Exception" THEN 500 ELSE Table[Parent[c]]
  BY DEF IsStatus, Table
<1>1. CASE c \in DOMAIN Handler
  BY <1>1 DEF Table
<1>2. CASE c \in {"UserNotFoundError", "ProjectNotFoundError", "TaskNotFoundError"}
  <2>1. Parent[c] = "NotFoundError" /\ Table[c] = 404
    BY <1>2, Classes DEF Parent, Table
  <2>2. Table["NotFoundError"] = 404
    BY Classes DEF Table, Handler
  <2> QED BY <1>2, <2>1, <2>2, Classes
<1>3. CASE c = "EmailAlreadyRegisteredError"
  <2>1. Parent[c] = "ConflictError" /\ Table[c] = 409
    BY <1>3, Classes DEF Parent, Table
  <2>2. Table["ConflictError"] = 409
    BY Classes DEF Table, Handler
  <2> QED BY <1>3, <2>1, <2>2, Classes
<1>4. CASE c = "AppError"
  <2>1. Parent[c] = "Exception" /\ Table[c] = 500 /\ Table["Exception"] = 500
    BY <1>4, Classes DEF Parent, Table
  <2> QED BY <1>4, <2>1, Classes
<1>5. CASE c = "Exception"
  BY <1>5, Classes DEF Table
<1> QED BY <1>1, <1>2, <1>3, <1>4, <1>5, Classes

\* Every solution has these values: three steps from a class to its handler.
LEMMA StatusTable ==
  /\ StatusOf("Exception") = 500
  /\ \A class \in Raised \ {"Exception"} : StatusOf(class) \in {400, 401, 403, 404, 409, 422, 423}
<1> DEFINE f == CHOOSE g : IsStatus(g)
<1>1. IsStatus(f)
  BY TableSolves
<1>2. \A class : StatusOf(class) = f[class]
  BY DEF StatusOf, IsStatus
<1> HIDE DEF f
<1>3. \A c \in Class : f[c] = IF c \in DOMAIN Handler THEN Handler[c]
                              ELSE IF c = "Exception" THEN 500 ELSE f[Parent[c]]
  BY <1>1 DEF IsStatus
<1>4. f["Exception"] = 500
  BY <1>3, Classes
<1>5. \A c \in {"InvalidCredentialsError", "RequestValidationError", "AccountLockedError",
                "InvalidTokenError", "EmailNotVerifiedError", "NotFoundError",
                "ConflictError", "HTTPException"} :
        f[c] \in {400, 401, 403, 404, 409, 422, 423}
  BY <1>3, Classes DEF Handler
<1>6. \A c \in {"ProjectNotFoundError", "TaskNotFoundError"} : f[c] = f["NotFoundError"]
  BY <1>3, Classes DEF Parent
<1>7. f["EmailAlreadyRegisteredError"] = f["ConflictError"]
  BY <1>3, Classes DEF Parent
<1> QED BY <1>2, <1>4, <1>5, <1>6, <1>7 DEF Raised

-----------------------------------------------------------------------------
(* The inductive invariant.                                                  *)

Journey == [pc : {"idle", "run", "thread", "answered", "smtp"}, route : Route,
            plan : Seq(Needed), error : Class \cup {"none"}, status : 200..599,
            ran : BOOLEAN, committed : BOOLEAN]

\* A request on its way to the commit, with or without its parameters ...
Doing(q) ==
  /\ q.pc \in {"run", "thread"} /\ q.error = "none" /\ ~q.committed /\ q.status \in {200, 503}
  /\ \E n, k \in Nat : Ahead(q.plan, q.route, n, k) /\ (k = 0 => q.ran) /\ (k # 0 => ~q.ran)
  /\ q.pc = "thread" => Head(q.plan) = "hop"

\* ... that has it behind it ...
Committed(q) ==
  /\ q.pc = "run" /\ q.error = "none" /\ q.ran /\ q.committed /\ q.status \in {200, 503}
  /\ Len(q.plan) = 1 + MailLength(q.route) /\ q.plan[1] = "answer"
  /\ q.route = "mail" => q.plan[2] = "mail"

\* ... or has met an exception: on invalid parameters get_db still commits,
\* before the endpoint has run.
RollsBack(q) == Len(q.plan) = 2 /\ q.plan[1] = "rollback" /\ q.plan[2] = "answer"
CommitsNothing(q) ==
  /\ Len(q.plan) = 2 /\ q.plan[1] = "commit" /\ q.plan[2] = "answer"
  /\ q.error # "Exception" /\ ~q.ran
Failing(q) ==
  /\ q.pc = "run" /\ q.error \in Raised
  /\ q.error # "Exception" => ~q.ran \/ ~q.committed
  /\ RollsBack(q) \/ CommitsNothing(q) \/ (Len(q.plan) = 1 /\ q.plan[1] = "answer")

Told(q) ==
  /\ q.status \in {200, 503} => q.ran /\ q.committed
  /\ q.status \in 400..499 => ~(q.ran /\ q.committed)
  /\ q.status = 500 <=> q.error = "Exception"

HasMail(q) == Len(q.plan) = 1 /\ q.plan[1] = "mail"
Answered(q) == q.pc = "answered" /\ Told(q) /\ (Len(q.plan) = 0 \/ HasMail(q))
SendsMail(q) == q.pc \in {"run", "smtp"} /\ HasMail(q)

OnItsWay(q) == Doing(q) \/ Committed(q) \/ Failing(q) \/ Answered(q) \/ SendsMail(q)

\* A connection is held only by a request that get_db has still to leave.
Holds(q) == Entered(q.plan) /\ (Doing(q) \/ (Failing(q) /\ Len(q.plan) = 2))

Own(r) ==
  /\ ~At(r, "idle") => OnItsWay(req[r])
  /\ r \in conns => Holds(req[r])

ThreadsKept == IsFiniteSet(InThread) /\ Cardinality(InThread) <= Threads

PipeInv == (\A r \in Request : Own(r)) /\ ThreadsKept

-----------------------------------------------------------------------------
(* One request's step.                                                       *)

LEMMA IdleOK == Idle \in Journey
  BY DEF Idle, Journey, Route, Endpoint

LEMMA Typed ==
  ASSUME TypeOK, NEW r \in Request
  PROVE  req[r] \in Journey
<1>1. req \in [Request -> Journey]
  BY ZenonT(60) DEF TypeOK, Journey
<1> QED BY <1>1

LEMMA Moves ==
  ASSUME TypeOK, NEW r \in Request, NEW q \in Journey, req' = [req EXCEPT ![r] = q]
  PROVE  /\ req' \in [Request -> Journey] /\ req'[r] = q
         /\ \A s \in Request \ {r} : req'[s] = req[s]
  BY DEF TypeOK, Journey

\* A step that takes no thread.
LEMMA OwnStep ==
  ASSUME TypeOK, PipeInv, NEW r \in Request, NEW q \in Journey, req' = [req EXCEPT ![r] = q],
         conns' \subseteq conns \cup {r}, Own(r)', q.pc \notin {"thread", "smtp"}
  PROVE  TypeOK' /\ PipeInv'
<1>1. /\ req' \in [Request -> Journey] /\ req'[r] = q
      /\ \A s \in Request \ {r} : req'[s] = req[s]
  BY Moves
<1>2. TypeOK'
  BY <1>1 DEF TypeOK, Journey
<1>3. ASSUME NEW s \in Request \ {r} PROVE Own(s)'
  BY <1>1 DEF PipeInv, Own, At
<1>4. ThreadsKept'
  <2>1. InThread' \subseteq InThread
    BY <1>1 DEF InThread
  <2>2. IsFiniteSet(InThread) /\ Cardinality(InThread) <= Threads
    BY DEF PipeInv, ThreadsKept
  <2>3. IsFiniteSet(InThread') /\ Cardinality(InThread') <= Cardinality(InThread)
    BY <2>1, <2>2, FS_Subset
  <2>4. Cardinality(InThread) \in Nat /\ Cardinality(InThread') \in Nat
    BY <2>2, <2>3, FS_CardinalityType
  <2> QED BY <2>2, <2>3, <2>4, PoolAssumption DEF ThreadsKept
<1> QED BY <1>2, <1>3, <1>4 DEF PipeInv

\* The same, in terms of what the request has become.
LEMMA OwnMove ==
  ASSUME TypeOK, PipeInv, NEW r \in Request, NEW q \in Journey, req' = [req EXCEPT ![r] = q],
         conns' \subseteq conns \cup {r}, q.pc \notin {"thread", "smtp"},
         q.pc # "idle" => OnItsWay(q), r \in conns' => Holds(q)
  PROVE  TypeOK' /\ PipeInv'
<1>1. req'[r] = q
  BY Moves
<1>2. Own(r)'
  BY <1>1 DEF Own, At
<1> QED BY <1>2, OwnStep

LEMMA Shorter ==
  ASSUME NEW s \in Seq(Needed), Len(s) # 0
  PROVE  /\ Tail(s) \in Seq(Needed) /\ Len(Tail(s)) = Len(s) - 1 /\ Len(s) \in Nat \ {0}
         /\ \A i \in 1..Len(s) - 1 : Tail(s)[i] = s[i + 1]
         /\ Head(s) = s[1]
<1>1. s # <<>> /\ Len(s) \in Nat \ {0}
  BY EmptySeq
<1> QED BY <1>1, HeadTailProperties

LEMMA EnteredTail ==
  ASSUME NEW s \in Seq(Needed), Len(s) # 0, Entered(s)
  PROVE  Entered(Tail(s))
  BY Shorter DEF Entered

\* The place of the parameters once one more need is met.
Nearer(k) == IF k = 0 THEN 0 ELSE k - 1

LEMMA AheadTail ==
  ASSUME NEW plan \in Seq(Needed), NEW route, NEW n \in Nat, NEW k \in Nat,
         Ahead(plan, route, n, k)
  PROVE  /\ Tail(plan) \in Seq(Needed) /\ Len(plan) # 0
         /\ n = 0 => /\ Head(plan) = "commit" /\ Tail(plan)[1] = "answer" /\ k = 0
                     /\ Len(Tail(plan)) = 1 + MailLength(route)
                     /\ route = "mail" => Tail(plan)[2] = "mail"
         /\ n # 0 => /\ Head(plan) \in Work /\ (Head(plan) = "params" <=> k = 1)
                     /\ n - 1 \in Nat /\ Nearer(k) \in Nat
                     /\ Ahead(Tail(plan), route, n - 1, Nearer(k))
                     /\ Head(plan) \in Database => Entered(plan)
<1>0. MailLength(route) \in {0, 1} /\ (route = "mail" <=> MailLength(route) = 1)
  BY DEF MailLength
<1>1. Len(plan) = n + 2 + MailLength(route) /\ Len(plan) # 0
  BY <1>0 DEF Ahead
<1>2. /\ Tail(plan) \in Seq(Needed) /\ Len(Tail(plan)) = Len(plan) - 1
      /\ \A i \in 1..Len(plan) - 1 : Tail(plan)[i] = plan[i + 1]
      /\ Head(plan) = plan[1]
  BY <1>1, Shorter
<1>3. CASE n = 0
  BY <1>0, <1>1, <1>2, <1>3 DEF Ahead
<1>4. CASE n # 0
  <2>0. n - 1 \in Nat /\ Nearer(k) \in Nat /\ 1 \in 1..n
    BY <1>4 DEF Nearer
  <2>1. Head(plan) \in Work /\ (Head(plan) = "params" <=> k = 1)
    BY <1>2, <2>0 DEF Ahead, ParamsAt
  <2>t. PICK t : t = Tail(plan)
    OBVIOUS
  <2>2. \A i \in 1..n - 1 : t[i] = plan[i + 1] /\ i + 1 \in 1..n
    BY <1>0, <1>1, <1>2, <1>4, <2>t
  <2>3. t[n] = "commit" /\ t[n + 1] = "answer" /\ (route = "mail" => t[n + 2] = "mail")
    BY <1>0, <1>1, <1>2, <1>4, <2>t DEF Ahead
  <2>4. (\A i \in 1..n - 1 : t[i] \in Work) /\ Ordered(t, n - 1)
    <3>1. \A i \in 1..n : plan[i] \in Work
      BY DEF Ahead
    <3>2. \A i, j \in 1..n : i < j /\ plan[i] \in Database => plan[j] \notin Early
      BY DEF Ahead, Ordered
    <3>3. ASSUME NEW i \in 1..n - 1, NEW j \in 1..n - 1, i < j, t[i] \in Database
          PROVE  t[j] \notin Early
      BY <2>2, <3>2, <3>3
    <3> QED BY <2>2, <3>1, <3>3 DEF Ordered
  <2>5. Nearer(k) \in 0..n - 1 /\ ParamsAt(t, n - 1, Nearer(k))
    <3>1. k \in 0..n /\ \A i \in 1..n : plan[i] = "params" <=> i = k
      BY DEF Ahead, ParamsAt
    <3>2. Nearer(k) \in 0..n - 1
      BY <1>4, <3>1 DEF Nearer
    <3>3. ASSUME NEW i \in 1..n - 1 PROVE i + 1 = k <=> i = Nearer(k)
      BY <3>1, <3>3 DEF Nearer
    <3> QED BY <2>2, <3>1, <3>2, <3>3 DEF ParamsAt
  <2>6. Ahead(t, route, n - 1, Nearer(k))
    BY <1>0, <1>1, <1>2, <1>4, <2>t, <2>3, <2>4, <2>5 DEF Ahead
  <2>7. ASSUME Head(plan) \in Database, NEW i \in 1..Len(plan) PROVE plan[i] \notin Early
    <3>1. CASE i = 1
      BY <1>2, <2>7, <3>1 DEF Database, Early
    <3>2. CASE i \in 2..n
      BY <1>2, <2>0, <2>7, <3>2 DEF Ahead, Ordered
    <3>3. CASE i > n
      BY <1>0, <1>1, <3>3 DEF Ahead, Early
    <3> QED BY <3>1, <3>2, <3>3
  <2> QED BY <1>1, <1>2, <1>4, <2>0, <2>1, <2>t, <2>6, <2>7 DEF Entered
<1> QED BY <1>3, <1>4

\* What the next need of a request says of where it is.
LEMMA Whereabouts ==
  ASSUME TypeOK, PipeInv, NEW r \in Request, NEW q \in Journey, q = req[r], NEW x, Needs(r, x)
  PROVE  /\ q.pc = "run" /\ OnItsWay(q) /\ Len(q.plan) # 0 /\ q.plan[1] = x
         /\ x \in Work => Doing(q)
         /\ x = "commit" => Doing(q) \/ (Failing(q) /\ CommitsNothing(q))
         /\ x = "rollback" => Failing(q) /\ RollsBack(q)
         /\ x = "answer" => Committed(q) \/ (Failing(q) /\ Len(q.plan) = 1)
         /\ x = "mail" => SendsMail(q)
<1>1. q.pc = "run" /\ Head(q.plan) = x /\ OnItsWay(q)
  BY DEF Needs, At, PipeInv, Own
<1>2. q.plan \in Seq(Needed)
  BY DEF Journey
<1>m. MailLength(q.route) \in {0, 1}
  BY DEF MailLength
<1>h. ASSUME Len(q.plan) # 0 PROVE q.plan[1] = x
  BY <1>1, <1>2, <1>h, Shorter
<1>3. CASE Doing(q)
  <2>1. PICK n \in Nat, k \in Nat : Ahead(q.plan, q.route, n, k)
    BY <1>3 DEF Doing
  <2>2. Len(q.plan) # 0 /\ (n = 0 => x = "commit") /\ (n # 0 => x \in Work)
    BY <1>1, <1>2, <2>1, AheadTail
  <2> QED BY <1>1, <1>3, <1>h, <2>2 DEF Work
<1>4. CASE Committed(q)
  <2>1. Len(q.plan) # 0 /\ q.plan[1] = "answer"
    BY <1>4, <1>m DEF Committed
  <2> QED BY <1>1, <1>4, <1>h, <2>1 DEF Work
<1>5. CASE Failing(q)
  <2>1. /\ Len(q.plan) # 0
        /\ \/ RollsBack(q) /\ q.plan[1] = "rollback"
           \/ CommitsNothing(q) /\ q.plan[1] = "commit"
           \/ Len(q.plan) = 1 /\ q.plan[1] = "answer"
    BY <1>5 DEF Failing, RollsBack, CommitsNothing
  <2> QED BY <1>1, <1>5, <1>h, <2>1 DEF Work
<1>6. CASE SendsMail(q)
  <2>1. Len(q.plan) # 0 /\ q.plan[1] = "mail"
    BY <1>6 DEF SendsMail, HasMail
  <2> QED BY <1>1, <1>6, <1>h, <2>1 DEF Work
<1> QED BY <1>1, <1>3, <1>4, <1>5, <1>6 DEF OnItsWay, Answered

\* A request that has gone on.
LEMMA GoneOn ==
  ASSUME NEW b \in Journey, NEW s \in Seq(Needed), NEW ran \in BOOLEAN
  PROVE  LET q == [b EXCEPT !.pc = "run", !.plan = s, !.ran = ran] IN
         /\ q \in Journey /\ q.plan = s /\ q.pc = "run" /\ q.ran = ran
         /\ q.error = b.error /\ q.committed = b.committed
         /\ q.status = b.status /\ q.route = b.route
<1> DEFINE on == [b EXCEPT !.pc = "run", !.plan = s]
           q == [on EXCEPT !.ran = ran]
<1>1. on \in Journey
  BY DEF Journey
<1>2. q \in Journey
  <2> HIDE DEF on
  <2> QED BY <1>1, ZenonT(60) DEF Journey
<1>3. /\ q.plan = s /\ q.pc = "run" /\ q.ran = ran
      /\ q.error = b.error /\ q.committed = b.committed
      /\ q.status = b.status /\ q.route = b.route
  BY DEF Journey
<1>4. q = [b EXCEPT !.pc = "run", !.plan = s, !.ran = ran]
  OBVIOUS
<1> HIDE DEF q
<1> QED BY <1>2, <1>3, <1>4

\* The request goes on to its next need.
LEMMA ProceedSelf ==
  ASSUME TypeOK, NEW r \in Request, NEW b \in Journey, b = req[r], Proceed(r), Len(b.plan) # 0
  PROVE  \E q \in Journey :
           /\ req' = [req EXCEPT ![r] = q] /\ q.plan = Tail(b.plan) /\ q.pc = "run"
           /\ q.error = b.error /\ q.committed = b.committed
           /\ q.status = b.status /\ q.route = b.route
           /\ Needs(r, "params") => q.ran
           /\ ~Needs(r, "params") => q.ran = b.ran
<1>1. PICK s \in Seq(Needed) : s = Tail(b.plan)
  <2>1. b.plan \in Seq(Needed)
    BY DEF Journey
  <2> QED BY <2>1, Shorter
<1>2. PICK ran \in BOOLEAN : ran = (b.ran \/ Needs(r, "params"))
  OBVIOUS
<1> DEFINE q == [b EXCEPT !.pc = "run", !.plan = s, !.ran = ran]
<1>3. q \in Journey
  BY GoneOn
<1>4. /\ q.plan = s /\ q.pc = "run" /\ q.ran = ran
      /\ q.error = b.error /\ q.committed = b.committed
      /\ q.status = b.status /\ q.route = b.route
  BY DEF Journey
<1>5. req' = [req EXCEPT ![r] = q]
  BY <1>1, <1>2 DEF Proceed, TypeOK
<1>6. (Needs(r, "params") => ran) /\ (~Needs(r, "params") => ran = b.ran)
  <2>1. b.ran \in BOOLEAN
    BY DEF Journey
  <2> QED BY <1>2, <2>1, Zenon
<1> HIDE DEF q
<1> QED BY <1>1, <1>3, <1>4, <1>5, <1>6, Zenon

\* AheadTail, of a request.
LEMMA AheadBy ==
  ASSUME NEW b \in Journey, NEW n \in Nat, NEW k \in Nat, Ahead(b.plan, b.route, n, k)
  PROVE  /\ b.plan \in Seq(Needed) /\ Len(b.plan) # 0
         /\ n = 0 => /\ Head(b.plan) = "commit" /\ Tail(b.plan)[1] = "answer" /\ k = 0
                     /\ Len(Tail(b.plan)) = 1 + MailLength(b.route)
                     /\ b.route = "mail" => Tail(b.plan)[2] = "mail"
         /\ n # 0 => /\ Head(b.plan) \in Work /\ (Head(b.plan) = "params" <=> k = 1)
                     /\ n - 1 \in Nat /\ Nearer(k) \in Nat
                     /\ Ahead(Tail(b.plan), b.route, n - 1, Nearer(k))
                     /\ Head(b.plan) \in Database => Entered(b.plan)
<1>1. b.plan \in Seq(Needed)
  BY DEF Journey
<1>2. b.plan \in Seq(Needed) /\ Len(b.plan) # 0
  BY <1>1, AheadTail
<1>3. n = 0 => /\ Head(b.plan) = "commit" /\ Tail(b.plan)[1] = "answer" /\ k = 0
               /\ Len(Tail(b.plan)) = 1 + MailLength(b.route)
               /\ b.route = "mail" => Tail(b.plan)[2] = "mail"
  BY <1>1, AheadTail
<1>4. n # 0 => Head(b.plan) \in Work /\ (Head(b.plan) = "params" <=> k = 1)
  BY <1>1, AheadTail
<1>5. n # 0 => n - 1 \in Nat /\ Nearer(k) \in Nat
  BY <1>1, AheadTail
<1>6. n # 0 => Ahead(Tail(b.plan), b.route, n - 1, Nearer(k))
  BY <1>1, AheadTail
<1>7. ASSUME n # 0, Head(b.plan) \in Database PROVE Entered(b.plan)
  BY <1>1, <1>7, AheadTail
<1> QED BY <1>2, <1>3, <1>4, <1>5, <1>6, <1>7

\* A need before the commit is met.
LEMMA DoingOn ==
  ASSUME NEW b \in Journey, NEW q \in Journey, Doing(b), Head(b.plan) \in Work,
         q.plan = Tail(b.plan), q.pc = "run", q.error = b.error, q.committed = b.committed,
         q.status \in {200, 503}, q.route = b.route,
         Head(b.plan) = "params" => q.ran, Head(b.plan) # "params" => q.ran = b.ran
  PROVE  Doing(q) /\ (Entered(b.plan) => Entered(q.plan)) /\ Len(b.plan) # 0
<1>1. PICK n \in Nat, k \in Nat :
        Ahead(b.plan, b.route, n, k) /\ (k = 0 => b.ran) /\ (k # 0 => ~b.ran)
  BY DEF Doing
<1>2. b.plan \in Seq(Needed)
  BY DEF Journey
<1>3. /\ n # 0 /\ Len(b.plan) # 0 /\ (Head(b.plan) = "params" <=> k = 1)
      /\ n - 1 \in Nat /\ Nearer(k) \in Nat /\ Ahead(Tail(b.plan), b.route, n - 1, Nearer(k))
  <2>1. "commit" \notin Work
    BY DEF Work
  <2>2. n # 0
    BY <1>1, <2>1, AheadBy
  <2> QED BY <1>1, <2>2, AheadBy
<1>4. (Nearer(k) = 0 => q.ran) /\ (Nearer(k) # 0 => ~q.ran)
  <2>1. (Nearer(k) = 0 => k = 0 \/ k = 1) /\ (Nearer(k) # 0 => k # 0 /\ k # 1)
    BY DEF Nearer
  <2>2. CASE k = 1
    BY <1>3, <2>1, <2>2, Zenon
  <2>3. CASE k # 1
    BY <1>1, <1>3, <2>1, <2>3, Zenon
  <2> QED BY <2>2, <2>3
<1>5. q.error = "none" /\ ~q.committed
  BY DEF Doing
<1>6. Doing(q)
  BY <1>3, <1>4, <1>5 DEF Doing
<1> QED BY <1>2, <1>3, <1>6, EnteredTail

\* Only one that has entered get_db has a connection.
LEMMA Holding ==
  ASSUME PipeInv, NEW r \in Request, r \in conns
  PROVE  Holds(req[r])
  BY DEF PipeInv, Own

LEMMA ArriveMoves ==
  ASSUME TypeOK, PipeInv, NEW r \in Request, NEW route \in Route, Arrive(r, route)
  PROVE  TypeOK' /\ PipeInv'
<1>1. PICK p \in Seq(Needed), n \in Nat, k \in Nat \ {0} :
        p = Plan(route) /\ Ahead(p, route, n, k)
  BY EndpointPlan
<1>2. PICK b \in Journey : /\ b = Idle /\ b.error = "none" /\ b.status = 200
                           /\ ~b.committed /\ ~b.ran
  BY IdleOK DEF Idle
<1> DEFINE q == [b EXCEPT !.pc = "run", !.route = route, !.plan = p]
<1>3. q \in Journey
  BY ZenonT(60) DEF Journey
<1>4. /\ q.pc = "run" /\ q.route = route /\ q.plan = p
      /\ q.error = "none" /\ q.status = 200
  BY <1>2 DEF Journey
<1>5. ~q.committed /\ ~q.ran
  <2>1. q.committed = b.committed /\ q.ran = b.ran
    BY DEF Journey
  <2> QED BY <1>2, <2>1
<1>6. At(r, "idle") /\ req' = [req EXCEPT ![r] = q] /\ UNCHANGED conns
  BY <1>1, <1>2 DEF Arrive
<1> HIDE DEF q
<1>7. Doing(q)
  BY <1>1, <1>4, <1>5 DEF Doing
<1>8. r \notin conns
  BY <1>6, Holding DEF At, Holds, Doing, Failing
<1> QED BY <1>3, <1>4, <1>6, <1>7, <1>8, OwnMove DEF OnItsWay

LEMMA EnterThreadMoves ==
  ASSUME TypeOK, PipeInv, NEW r \in Request, EnterThread(r)
  PROVE  TypeOK' /\ PipeInv'
<1>0. (Needs(r, "hop") \/ Needs(r, "mail")) /\ ThreadFree /\ UNCHANGED conns
  BY DEF EnterThread
<1>b. PICK b \in Journey : b = req[r]
  BY Typed
<1>1. PICK l \in {"thread", "smtp"} : l = IF Needs(r, "hop") THEN "thread" ELSE "smtp"
  OBVIOUS
<1>2. /\ b.pc = "run"
      /\ l = "thread" => Doing(b) /\ Head(b.plan) = "hop"
      /\ l = "smtp" => SendsMail(b) /\ Len(b.plan) = 1 /\ b.plan[1] = "mail"
  BY <1>0, <1>1, <1>b, Whereabouts DEF Work, Needs, SendsMail, HasMail
<1> DEFINE q == [b EXCEPT !.pc = l]
<1>3. q \in Journey
  BY ZenonT(60) DEF Journey
<1>4. /\ q.pc = l /\ q.plan = b.plan /\ q.route = b.route /\ q.error = b.error
      /\ q.status = b.status /\ q.committed = b.committed /\ q.ran = b.ran
  BY DEF Journey
<1>5. req' = [req EXCEPT ![r] = q]
  BY <1>1, <1>b DEF EnterThread, TypeOK
<1> HIDE DEF q
<1>6. /\ req' \in [Request -> Journey] /\ req'[r] = q
      /\ \A s \in Request \ {r} : req'[s] = req[s]
  BY <1>3, <1>5, Moves
<1>7. l = "thread" => Doing(q)
  BY <1>2, <1>4 DEF Doing
<1>8. l = "smtp" => SendsMail(q) /\ r \notin conns
  <2> SUFFICES ASSUME l = "smtp"
               PROVE  SendsMail(q) /\ r \notin conns
    OBVIOUS
  <2>1. ~(Failing(b) /\ Len(b.plan) = 2)
    BY <1>2
  <2>2. ~Doing(b)
    <3> SUFFICES ASSUME NEW n \in Nat, NEW k \in Nat, Ahead(b.plan, b.route, n, k) PROVE FALSE
      BY DEF Doing
    <3> QED BY <1>2 DEF Ahead, MailLength
  <2> QED BY <1>2, <1>4, <1>b, <2>1, <2>2, Holding DEF Holds, SendsMail, HasMail
<1>9. Own(r)'
  <2>1. OnItsWay(q)
    BY <1>7, <1>8 DEF OnItsWay
  <2>2. ASSUME r \in conns PROVE Holds(q)
    <3>1. l = "thread" /\ Entered(b.plan)
      BY <1>8, <1>b, <2>2, Holding DEF Holds
    <3> QED BY <1>4, <1>7, <3>1 DEF Holds
  <2> QED BY <1>0, <1>6, <2>1, <2>2 DEF Own
<1>10. \A s \in Request \ {r} : Own(s)'
  BY <1>0, <1>6 DEF PipeInv, Own, At
<1>11. TypeOK'
  BY <1>0, <1>6 DEF TypeOK, Journey
<1>12. ThreadsKept'
  <2>1. InThread' = InThread \cup {r} /\ r \notin InThread
    BY <1>2, <1>4, <1>6, <1>b DEF InThread
  <2>2. IsFiniteSet(InThread) /\ Cardinality(InThread) < Threads
    BY <1>0 DEF PipeInv, ThreadsKept, ThreadFree
  <2>3. IsFiniteSet(InThread') /\ Cardinality(InThread') = Cardinality(InThread) + 1
    BY <2>1, <2>2, FS_AddElement
  <2>4. Cardinality(InThread) \in Nat
    BY <2>2, FS_CardinalityType
  <2> QED BY <2>2, <2>3, <2>4, PoolAssumption DEF ThreadsKept
<1> QED BY <1>9, <1>10, <1>11, <1>12 DEF PipeInv

\* A need that is met before the commit, on the loop or in a thread.
LEMMA WorkProceeds ==
  ASSUME TypeOK, PipeInv, NEW r \in Request, NEW b \in Journey, b = req[r], Doing(b),
         Head(b.plan) \in Work, Len(b.plan) # 0, Proceed(r), UNCHANGED conns,
         b.pc = "run" \/ Head(b.plan) # "params"
  PROVE  TypeOK' /\ PipeInv'
<1>1. PICK q \in Journey :
           /\ req' = [req EXCEPT ![r] = q] /\ q.plan = Tail(b.plan) /\ q.pc = "run"
           /\ q.error = b.error /\ q.committed = b.committed
           /\ q.status = b.status /\ q.route = b.route
           /\ Needs(r, "params") => q.ran
           /\ ~Needs(r, "params") => q.ran = b.ran
  BY ProceedSelf
<1>2. Needs(r, "params") <=> Head(b.plan) = "params"
  BY DEF Needs, At
<1>3. (Head(b.plan) = "params" => q.ran) /\ (Head(b.plan) # "params" => q.ran = b.ran)
  BY <1>1, <1>2, Zenon
<1>4. q.status \in {200, 503}
  BY <1>1 DEF Doing
<1>5. Doing(q) /\ (Entered(b.plan) => Entered(q.plan))
  BY <1>1, <1>3, <1>4, DoingOn
<1>6. r \in conns => Holds(q)
  BY <1>5, Holding DEF Holds
<1> QED BY <1>1, <1>5, <1>6, OwnMove DEF OnItsWay

LEMMA LeaveThreadMoves ==
  ASSUME TypeOK, PipeInv, NEW r \in Request, LeaveThread(r)
  PROVE  TypeOK' /\ PipeInv'
<1>1. At(r, "thread") /\ Proceed(r) /\ UNCHANGED conns
  BY DEF LeaveThread
<1>2. PICK b \in Journey : b = req[r]
  BY Typed
<1>3. Doing(b) /\ Head(b.plan) = "hop" /\ Head(b.plan) \in Work /\ Head(b.plan) # "params"
  BY <1>1, <1>2
     DEF PipeInv, Own, At, OnItsWay, Doing, Committed, Failing, Answered, SendsMail, Work
<1>4. Len(b.plan) # 0
  BY <1>3 DEF Doing, Ahead, MailLength
<1> QED BY <1>1, <1>2, <1>3, <1>4, WorkProceeds

LEMMA ConnectMoves ==
  ASSUME TypeOK, PipeInv, NEW r \in Request, Connect(r)
  PROVE  TypeOK' /\ PipeInv'
<1>1. NeedsDatabase(r) /\ conns' = conns \cup {r} /\ UNCHANGED req
  BY DEF Connect
<1>b. PICK b \in Journey : b = req[r]
  BY Typed
<1>2. Doing(b) /\ Head(b.plan) \in Database
  BY <1>1, <1>b, Whereabouts DEF NeedsDatabase, Needs, Work, Database
<1>3. Entered(b.plan)
  <2>1. PICK n \in Nat, k \in Nat : Ahead(b.plan, b.route, n, k)
    BY <1>2 DEF Doing
  <2>2. Head(b.plan) # "commit"
    BY <1>2 DEF Database
  <2> QED BY <1>2, <2>1, <2>2, AheadBy
<1>4. \A s \in Request : Own(s)'
  BY <1>1, <1>2, <1>3, <1>b DEF PipeInv, Own, At, OnItsWay, Holds
<1>5. TypeOK' /\ InThread' = InThread
  BY <1>1 DEF TypeOK, InThread
<1> QED BY <1>4, <1>5 DEF PipeInv, ThreadsKept

\* It has raised, before or at the commit.
LEMMA Raising ==
  ASSUME TypeOK, PipeInv, NEW r \in Request, NEW q \in Journey, req' = [req EXCEPT ![r] = q],
         UNCHANGED conns, q.pc = "run", q.error \in Raised,
         q.error # "Exception" => ~q.ran \/ ~q.committed,
         \/ RollsBack(q) \/ CommitsNothing(q)
         \/ Len(q.plan) = 1 /\ q.plan[1] = "answer" /\ r \notin conns
  PROVE  TypeOK' /\ PipeInv'
<1>1. Failing(q)
  BY DEF Failing
<1>2. r \in conns => Holds(q)
  <2>1. RollsBack(q) \/ CommitsNothing(q) => Entered(q.plan) /\ Len(q.plan) = 2
    BY DEF RollsBack, CommitsNothing, Entered, Early
  <2> QED BY <1>1, <2>1 DEF Holds
<1> QED BY <1>1, <1>2, OwnMove DEF OnItsWay

\* How it ends.
LEMMA Endings ==
  ASSUME NEW need
  PROVE  /\ Ending(need) \in Seq(Needed)
         /\ need \in Early =>
              Len(Ending(need)) = 1 /\ Ending(need)[1] = "answer"
         /\ need = "params" =>
              Len(Ending(need)) = 2 /\ Ending(need)[1] = "commit" /\ Ending(need)[2] = "answer"
         /\ need \notin Early \cup {"params"} =>
              Len(Ending(need)) = 2 /\ Ending(need)[1] = "rollback" /\ Ending(need)[2] = "answer"
<1>1. CASE need \in Early
  <2> DEFINE p == <<"answer">>
  <2>1. p \in Seq(Needed) /\ Len(p) = 1 /\ p[1] = "answer"
    BY DEF Needed
  <2>2. Ending(need) = p
    BY <1>1 DEF Ending, Early
  <2> HIDE DEF p
  <2> QED BY <1>1, <2>1, <2>2 DEF Early
<1>2. CASE need = "params"
  <2> DEFINE p == <<"commit", "answer">>
  <2>1. p \in Seq(Needed) /\ Len(p) = 2 /\ p[1] = "commit" /\ p[2] = "answer"
    BY DEF Needed
  <2>2. Ending(need) = p
    BY <1>2 DEF Ending
  <2> HIDE DEF p
  <2> QED BY <1>2, <2>1, <2>2 DEF Early
<1>3. CASE need \notin Early \cup {"params"}
  <2> DEFINE p == <<"rollback", "answer">>
  <2>1. p \in Seq(Needed) /\ Len(p) = 2 /\ p[1] = "rollback" /\ p[2] = "answer"
    BY DEF Needed
  <2>2. Ending(need) = p
    BY <1>3 DEF Ending, Early
  <2> HIDE DEF p
  <2> QED BY <1>3, <2>1, <2>2
<1> QED BY <1>1, <1>2, <1>3

\* An exception before the commit.
LEMMA WorkRaises ==
  ASSUME TypeOK, PipeInv, NEW r \in Request, NEW x \in Work, Needs(r, x),
         NEW class \in Raised, class = "Exception" => x \notin Early \cup {"params"},
         Raise(r, class), UNCHANGED conns
  PROVE  TypeOK' /\ PipeInv'
<1>b. PICK b \in Journey : b = req[r]
  BY Typed
<1>1. b.pc = "run" /\ Doing(b) /\ Head(b.plan) = x
  BY <1>b, Whereabouts DEF Needs
<1>2. PICK plan \in Seq(Needed) : plan = Ending(x)
  BY Endings
<1> DEFINE q == [b EXCEPT !.error = class, !.plan = plan]
<1>3. q \in Journey
  <2>1. class \in Class
    BY Classes DEF Raised
  <2> QED BY <2>1, ZenonT(60) DEF Journey
<1>4. /\ q.pc = b.pc /\ q.plan = plan /\ q.error = class /\ q.ran = b.ran
      /\ q.committed = b.committed
  BY DEF Journey
<1>5. req' = [req EXCEPT ![r] = q]
  <2>1. plan = Ending(Head(req[r].plan))
    BY <1>b, <1>1, <1>2
  <2>2. req' = [req EXCEPT ![r].error = class, ![r].plan = plan]
    BY <2>1 DEF Raise
  <2>3. req \in [Request -> Journey]
    BY ZenonT(60) DEF TypeOK, Journey
  <2> QED BY <1>b, <2>2, <2>3
<1> HIDE DEF q
<1>6. ~q.committed
  BY <1>1, <1>4 DEF Doing
<1>7. PICK n \in Nat, k \in Nat :
        Ahead(b.plan, b.route, n, k) /\ (k = 0 => b.ran) /\ (k # 0 => ~b.ran)
  BY <1>1 DEF Doing
<1>8. CASE x \in Early
  <2>1. Head(b.plan) = b.plan[1] /\ 1 \in 1..Len(b.plan)
    BY <1>7, AheadBy, Shorter
  <2>2. r \notin conns
    BY <1>b, <1>1, <1>8, <2>1, Holding DEF Holds, Entered
  <2>3. Len(q.plan) = 1 /\ q.plan[1] = "answer"
    BY <1>2, <1>4, <1>8, Endings
  <2> QED BY <1>1, <1>3, <1>4, <1>5, <1>6, <2>2, <2>3, Raising
<1>9. CASE x = "params"
  <2>1. "commit" # "params" /\ k = 1
    BY <1>1, <1>7, <1>9, AheadBy
  <2>2. ~q.ran /\ q.error # "Exception"
    BY <1>4, <1>7, <1>9, <2>1
  <2>3. CommitsNothing(q)
    BY <1>2, <1>4, <1>9, <2>2, Endings DEF CommitsNothing
  <2> QED BY <1>1, <1>3, <1>4, <1>5, <1>6, <2>3, Raising
<1>10. CASE x \notin Early \cup {"params"}
  <2>1. RollsBack(q)
    BY <1>2, <1>4, <1>10, Endings DEF RollsBack
  <2> QED BY <1>1, <1>3, <1>4, <1>5, <1>6, <2>1, Raising
<1> QED BY <1>8, <1>9, <1>10

LEMMA ExecuteMoves ==
  ASSUME TypeOK, PipeInv, NEW r \in Request, Execute(r)
  PROVE  TypeOK' /\ PipeInv'
<1>1. UNCHANGED conns
  BY DEF Execute
<1>b. PICK b \in Journey : b = req[r]
  BY Typed
<1>2. CASE Proceed(r) /\ \E x \in Work : Needs(r, x)
  <2>1. PICK x \in Work : Needs(r, x)
    BY <1>2
  <2>2. /\ Head(b.plan) = x /\ Doing(b) /\ Len(b.plan) # 0 /\ b.pc = "run"
    BY <1>b, <2>1, Whereabouts DEF Needs
  <2> QED BY <1>1, <1>2, <1>b, <2>2, WorkProceeds
<1>3. ASSUME At(r, "run"), NEW class \in Raises(req[r].route, Head(req[r].plan)),
             Raise(r, class)
      PROVE  TypeOK' /\ PipeInv'
  <2>1. class \in Raised /\ class # "Exception" /\ Head(b.plan) \in Work
    BY <1>3, <1>b DEF Raises, Raised, Work
  <2>2. Needs(r, Head(b.plan))
    BY <1>3, <1>b DEF Needs
  <2> QED BY <1>1, <1>3, <2>1, <2>2, WorkRaises
<1>4. \/ Proceed(r) /\ \E x \in Work : Needs(r, x)
      \/ At(r, "run") /\ \E class \in Raises(req[r].route, Head(req[r].plan)) : Raise(r, class)
  BY DEF Execute, NeedsDatabase, Work
<1> QED BY <1>2, <1>3, <1>4

LEMMA BreakMoves ==
  ASSUME TypeOK, PipeInv, NEW r \in Request, Break(r)
  PROVE  TypeOK' /\ PipeInv'
<1>1. UNCHANGED conns
  BY DEF Break
<1>2. PICK x \in {"guard", "query", "redis"} : Needs(r, x)
  BY DEF Break, NeedsDatabase
<1>3. CASE Raise(r, "Exception")
  <2>1. x \in Work /\ x \notin Early \cup {"params"} /\ "Exception" \in Raised
    BY DEF Work, Early, Raised
  <2> QED BY <1>1, <1>2, <1>3, <2>1, WorkRaises
<1>4. CASE req' = [req EXCEPT ![r].status = 503, ![r].plan = Tail(@)]
  <2>a. PICK b \in Journey, status \in 200..599 : b = req[r] /\ status = 503
    BY Typed
  <2>1. /\ Doing(b) /\ Len(b.plan) # 0 /\ b.pc = "run"
        /\ Head(b.plan) \in Work /\ Head(b.plan) # "params"
    BY <1>2, <2>a, Whereabouts DEF Needs, Work
  <2>2. PICK s \in Seq(Needed) : s = Tail(b.plan)
    <3>1. b.plan \in Seq(Needed)
      BY DEF Journey
    <3> QED BY <2>1, <3>1, Shorter
  <2> DEFINE q == [b EXCEPT !.status = status, !.plan = s]
  <2>3. q \in Journey
    BY ZenonT(60) DEF Journey
  <2>4. /\ q.pc = b.pc /\ q.plan = s /\ q.status = status /\ q.route = b.route
        /\ q.error = b.error /\ q.committed = b.committed /\ q.ran = b.ran
    BY DEF Journey
  <2>5. req' = [req EXCEPT ![r] = q]
    BY <1>4, <2>2, <2>a DEF TypeOK
  <2> HIDE DEF q
  <2>6. q.status \in {200, 503}
    BY <2>4, <2>a
  <2>7. Doing(q) /\ (Entered(b.plan) => Entered(q.plan))
    BY <2>1, <2>2, <2>3, <2>4, <2>6, DoingOn
  <2>8. r \in conns => Holds(q)
    BY <2>7, <2>a, Holding DEF Holds
  <2> QED BY <1>1, <2>1, <2>3, <2>4, <2>5, <2>7, <2>8, OwnMove DEF OnItsWay
<1> QED BY <1>3, <1>4 DEF Break

LEMMA CommitMoves ==
  ASSUME TypeOK, PipeInv, NEW r \in Request, Commit(r)
  PROVE  TypeOK' /\ PipeInv'
<1>1. /\ Needs(r, "commit") /\ conns' = conns \ {r}
      /\ req' = [req EXCEPT ![r].plan = Tail(@), ![r].committed = TRUE]
  BY DEF Commit
<1>b. PICK b \in Journey : b = req[r]
  BY Typed
<1>2. /\ b.pc = "run" /\ Len(b.plan) # 0 /\ b.plan[1] = "commit"
      /\ Doing(b) \/ (Failing(b) /\ CommitsNothing(b))
  BY <1>1, <1>b, Whereabouts
<1>p. b.plan \in Seq(Needed)
  BY DEF Journey
<1>3. /\ Tail(b.plan) \in Seq(Needed) /\ Len(Tail(b.plan)) = Len(b.plan) - 1
      /\ \A i \in 1..Len(b.plan) - 1 : Tail(b.plan)[i] = b.plan[i + 1]
      /\ Head(b.plan) = "commit"
  BY <1>2, <1>p, Shorter
<1>s. PICK s \in Seq(Needed) : s = Tail(b.plan)
  BY <1>3
<1>c. PICK committed \in BOOLEAN : committed = TRUE
  OBVIOUS
<1> DEFINE q == [b EXCEPT !.plan = s, !.committed = committed]
<1>4. q \in Journey
  BY ZenonT(60) DEF Journey
<1>5. /\ q.pc = b.pc /\ q.plan = s /\ q.committed = committed /\ q.route = b.route
      /\ q.error = b.error /\ q.status = b.status /\ q.ran = b.ran
  BY DEF Journey
<1>6. req' = [req EXCEPT ![r] = q]
  BY <1>1, <1>b, <1>c, <1>s DEF TypeOK
<1> HIDE DEF q
<1>7. CASE Doing(b)
  <2>1. PICK n \in Nat, k \in Nat :
          Ahead(b.plan, b.route, n, k) /\ (k = 0 => b.ran) /\ (k # 0 => ~b.ran)
    BY <1>7 DEF Doing
  <2>2. /\ k = 0 /\ s[1] = "answer" /\ Len(s) = 1 + MailLength(b.route)
        /\ b.route = "mail" => s[2] = "mail"
    <3>1. "commit" \notin Work
      BY DEF Work
    <3>2. n = 0
      BY <1>3, <2>1, <3>1, AheadBy
    <3> QED BY <1>s, <2>1, <3>2, AheadBy
  <2>3. q.error = "none" /\ q.status \in {200, 503}
    BY <1>5, <1>7 DEF Doing
  <2>4. q.ran /\ q.committed
    BY <1>5, <1>c, <2>1, <2>2
  <2>5. Committed(q)
    BY <1>2, <1>5, <2>2, <2>3, <2>4 DEF Committed
  <2> QED BY <1>1, <1>2, <1>4, <1>5, <1>6, <2>5, OwnMove DEF OnItsWay
<1>8. CASE Failing(b) /\ CommitsNothing(b)
  <2>1. Len(q.plan) = 1 /\ q.plan[1] = "answer"
    BY <1>3, <1>5, <1>8, <1>s DEF CommitsNothing
  <2>2. ~q.ran /\ q.error \in Raised
    BY <1>5, <1>8 DEF CommitsNothing, Failing
  <2>3. Failing(q)
    BY <1>2, <1>5, <2>1, <2>2 DEF Failing
  <2> QED BY <1>1, <1>2, <1>4, <1>5, <1>6, <2>3, OwnMove DEF OnItsWay
<1> QED BY <1>2, <1>7, <1>8

LEMMA RollbackMoves ==
  ASSUME TypeOK, PipeInv, NEW r \in Request, Rollback(r)
  PROVE  TypeOK' /\ PipeInv'
<1>1. Needs(r, "rollback") /\ Proceed(r) /\ conns' = conns \ {r}
  BY DEF Rollback
<1>b. PICK b \in Journey : b = req[r]
  BY Typed
<1>2. Failing(b) /\ RollsBack(b) /\ Len(b.plan) # 0
  BY <1>1, <1>b, Whereabouts
<1>3. PICK q \in Journey :
           /\ req' = [req EXCEPT ![r] = q] /\ q.plan = Tail(b.plan) /\ q.pc = "run"
           /\ q.error = b.error /\ q.committed = b.committed
           /\ q.status = b.status /\ q.route = b.route
           /\ Needs(r, "params") => q.ran
           /\ ~Needs(r, "params") => q.ran = b.ran
  BY <1>1, <1>2, <1>b, ProceedSelf
<1>4. Len(q.plan) = 1 /\ q.plan[1] = "answer"
  <2>1. b.plan \in Seq(Needed)
    BY DEF Journey
  <2> QED BY <1>2, <1>3, <2>1, Shorter DEF RollsBack
<1>5. q.ran = b.ran
  BY <1>1, <1>3 DEF Needs
<1>6. Failing(q)
  BY <1>2, <1>3, <1>4, <1>5 DEF Failing
<1> QED BY <1>1, <1>3, <1>6, OwnMove DEF OnItsWay

LEMMA CommitFailsMoves ==
  ASSUME TypeOK, PipeInv, NEW r \in Request, CommitFails(r)
  PROVE  TypeOK' /\ PipeInv'
<1>1. Needs(r, "commit") /\ UNCHANGED conns
  BY DEF CommitFails
<1>b. PICK b \in Journey : b = req[r]
  BY Typed
<1>2. b.pc = "run" /\ "Exception" \in Raised
  BY <1>1, <1>b, Whereabouts DEF Raised
<1>3. PICK done \in BOOLEAN :
        req' = [req EXCEPT ![r].error = "Exception", ![r].plan = <<"rollback", "answer">>,
                           ![r].committed = done]
  BY DEF CommitFails
<1>4. PICK plan \in Seq(Needed) : /\ plan = <<"rollback", "answer">>
                                  /\ Len(plan) = 2 /\ plan[1] = "rollback" /\ plan[2] = "answer"
  <2> DEFINE p == <<"rollback", "answer">>
  <2>1. p \in Seq(Needed) /\ Len(p) = 2 /\ p[1] = "rollback" /\ p[2] = "answer"
    BY DEF Needed
  <2> QED BY <2>1
<1> DEFINE on == [b EXCEPT !.error = "Exception", !.plan = plan]
           q == [on EXCEPT !.committed = done]
<1>5. q \in Journey
  <2>1. on \in Journey
    <3>1. "Exception" \in Class
      BY Classes
    <3> QED BY <3>1, ZenonT(60) DEF Journey
  <2> HIDE DEF on
  <2> QED BY <2>1, ZenonT(60) DEF Journey
<1>6. q.pc = b.pc /\ q.plan = plan /\ q.error = "Exception"
  BY DEF Journey
<1>7. req' = [req EXCEPT ![r] = q]
  BY <1>3, <1>4, <1>b DEF TypeOK
<1> HIDE DEF q
<1>8. RollsBack(q)
  BY <1>4, <1>6 DEF RollsBack
<1> QED BY <1>1, <1>2, <1>5, <1>6, <1>7, <1>8, Raising

\* The status that goes with a request's error.
Outcome(q) == IF q.error = "none" THEN q.status ELSE StatusOf(q.error)

LEMMA OutcomeTells ==
  ASSUME NEW q \in Journey, Committed(q) \/ Failing(q)
  PROVE  /\ Outcome(q) \in 200..599
         /\ Outcome(q) \in {200, 503} => q.ran /\ q.committed
         /\ Outcome(q) \in 400..499 => ~q.ran \/ ~q.committed
         /\ Outcome(q) = 500 <=> q.error = "Exception"
<1>1. CASE Committed(q)
  <2>1. q.error = "none" /\ q.status \in {200, 503} /\ Outcome(q) = q.status
    BY <1>1 DEF Committed, Outcome
  <2>2. q.ran /\ q.committed
    BY <1>1, Zenon DEF Committed
  <2> QED BY <2>1, <2>2
<1>2. CASE Failing(q)
  <2>1. q.error \in Raised /\ Outcome(q) = StatusOf(q.error)
    BY <1>2 DEF Failing, Outcome, Raised
  <2>2. CASE q.error = "Exception"
    BY <2>1, <2>2, StatusTable
  <2>3. CASE q.error # "Exception"
    <3>1. Outcome(q) \in {400, 401, 403, 404, 409, 422, 423}
      BY <2>1, <2>3, StatusTable
    <3>2. ~q.ran \/ ~q.committed
      BY <1>2, <2>3, Zenon DEF Failing
    <3> QED BY <2>3, <3>1, <3>2
  <2> QED BY <2>2, <2>3
<1> QED BY <1>1, <1>2

LEMMA AnswerMoves ==
  ASSUME TypeOK, PipeInv, NEW r \in Request, Answer(r)
  PROVE  TypeOK' /\ PipeInv'
<1>1. Needs(r, "answer") /\ UNCHANGED conns
  BY DEF Answer
<1>2. PICK b \in Journey : b = req[r]
  BY Typed
<1>3. (Committed(b) \/ (Failing(b) /\ Len(b.plan) = 1)) /\ Len(b.plan) # 0
  BY <1>1, <1>2, Whereabouts
<1>o. /\ Outcome(b) \in 200..599
      /\ Outcome(b) \in {200, 503} => b.ran /\ b.committed
      /\ Outcome(b) \in 400..499 => ~b.ran \/ ~b.committed
      /\ Outcome(b) = 500 <=> b.error = "Exception"
  BY <1>3, OutcomeTells
<1>a. PICK status \in 200..599 : status = Outcome(b)
  BY <1>o
<1>4. /\ status \in {200, 503} => b.ran /\ b.committed
      /\ status \in 400..499 => ~b.ran \/ ~b.committed
      /\ status = 500 <=> b.error = "Exception"
  BY <1>o, <1>a
<1>p. b.plan \in Seq(Needed)
  BY DEF Journey
<1>b. PICK s \in Seq(Needed) : s = Tail(b.plan)
  BY <1>3, <1>p, Shorter
<1>5. Len(s) = 0 \/ (Len(s) = 1 /\ s[1] = "mail")
  <2>1. /\ Len(s) = Len(b.plan) - 1
        /\ \A i \in 1..Len(b.plan) - 1 : s[i] = b.plan[i + 1]
    BY <1>3, <1>b, <1>p, Shorter
  <2>2. CASE Committed(b) /\ b.route = "mail"
    <3>1. Len(b.plan) = 2 /\ b.plan[2] = "mail"
      BY <2>2 DEF Committed, MailLength
    <3>2. Len(s) = 1 /\ s[1] = "mail"
      BY <2>1, <3>1
    <3> QED BY <3>2
  <2>3. CASE Committed(b) /\ b.route # "mail"
    <3>1. Len(b.plan) = 1
      BY <2>3 DEF Committed, MailLength
    <3> QED BY <2>1, <3>1
  <2>4. CASE Len(b.plan) = 1
    BY <2>1, <2>4
  <2> QED BY <1>3, <2>2, <2>3, <2>4
<1> DEFINE q == [b EXCEPT !.pc = "answered", !.plan = s, !.status = status]
<1>6. req' = [req EXCEPT ![r] = q]
  <2>1. req' = [req EXCEPT ![r].pc = "answered", ![r].plan = Tail(@),
                           ![r].status = Outcome(req[r])]
    BY ZenonT(30) DEF Answer, Outcome
  <2>2. Outcome(req[r]) = status
    BY <1>2, <1>a
  <2> QED BY <1>2, <1>b, <2>1, <2>2 DEF TypeOK
<1>7. q \in Journey
  BY ZenonT(60) DEF Journey
<1>8. q.pc = "answered" /\ q.plan = s
  BY DEF Journey
<1>c. q.status = status /\ q.error = b.error
  BY DEF Journey
<1>d. q.ran = b.ran /\ q.committed = b.committed
  BY DEF Journey
<1> HIDE DEF q
<1>9. Told(q)
  <2>1. ASSUME q.status \in {200, 503} PROVE q.ran /\ q.committed
    <3>1. b.ran /\ b.committed
      BY <1>4, <1>c, <2>1
    <3> QED BY <1>d, <3>1, Zenon
  <2>2. ASSUME q.status \in 400..499 PROVE ~(q.ran /\ q.committed)
    <3>1. ~b.ran \/ ~b.committed
      BY <1>4, <1>c, <2>2
    <3> QED BY <1>d, <3>1, Zenon
  <2>3. q.status = 500 <=> q.error = "Exception"
    BY <1>4, <1>c
  <2> QED BY <2>1, <2>2, <2>3, Zenon DEF Told
<1>10. Answered(q)
  BY <1>5, <1>8, <1>9 DEF Answered, HasMail
<1>11. r \notin conns
  <2>1. CASE Committed(b)
    <3>1. ~Doing(b)
      BY <2>1, Zenon DEF Committed, Doing
    <3>2. ~Failing(b)
      BY <2>1 DEF Committed, Failing, Raised
    <3> QED BY <1>2, <3>1, <3>2, Holding DEF Holds
  <2>2. CASE Failing(b) /\ Len(b.plan) = 1
    <3>1. ~Doing(b)
      BY <2>2 DEF Failing, Doing, Raised
    <3>2. ~Holds(b)
      BY <2>2, <3>1 DEF Holds
    <3> QED BY <1>2, <3>2, Holding
  <2> QED BY <1>3, <2>1, <2>2
<1> QED BY <1>1, <1>6, <1>7, <1>8, <1>10, <1>11, OwnMove DEF OnItsWay

LEMMA SendMoves ==
  ASSUME TypeOK, PipeInv, NEW r \in Request, Send(r)
  PROVE  TypeOK' /\ PipeInv'
<1>1. At(r, "answered") /\ UNCHANGED conns
  BY DEF Send
<1>2. PICK b \in Journey : b = req[r]
  BY Typed
<1>3. Answered(b)
  BY <1>1, <1>2 DEF PipeInv, Own, At, OnItsWay, Doing, Committed, Failing, SendsMail
<1>4. r \notin conns
  BY <1>2, <1>3, Holding DEF Holds, Doing, Failing, Answered
<1>5. CASE b.plan = <<>>
  <2>1. req' = [req EXCEPT ![r] = Idle]
    BY <1>2, <1>5 DEF Send, TypeOK
  <2>2. Idle.pc = "idle"
    BY DEF Idle
  <2> QED BY <1>1, <1>4, <2>1, <2>2, IdleOK, OwnMove
<1>6. CASE b.plan # <<>>
  <2> DEFINE q == [b EXCEPT !.pc = "run"]
  <2>1. req' = [req EXCEPT ![r] = q]
    BY <1>2, <1>6 DEF Send, TypeOK
  <2>2. q \in Journey
    BY DEF Journey
  <2>3. q.pc = "run" /\ q.plan = b.plan
    BY DEF Journey
  <2> HIDE DEF q
  <2>4. HasMail(q)
    <3>1. b.plan \in Seq(Needed)
      BY DEF Journey
    <3>2. Len(b.plan) # 0
      BY <1>6, <3>1, EmptySeq
    <3> QED BY <1>3, <2>3, <3>2 DEF Answered, HasMail
  <2> QED BY <1>1, <1>4, <2>1, <2>2, <2>3, <2>4, OwnMove DEF OnItsWay, SendsMail
<1> QED BY <1>5, <1>6

LEMMA SmtpEndMoves ==
  ASSUME TypeOK, PipeInv, NEW r \in Request, SmtpEnd(r)
  PROVE  TypeOK' /\ PipeInv'
<1>1. At(r, "smtp") /\ UNCHANGED conns /\ req' = [req EXCEPT ![r] = Idle]
  BY DEF SmtpEnd
<1>2. r \notin conns
  BY <1>1, Holding DEF At, Holds, Doing, Failing
<1>3. Idle.pc = "idle"
  BY DEF Idle
<1> QED BY <1>1, <1>2, <1>3, IdleOK, OwnMove

LEMMA NextMoves ==
  ASSUME TypeOK, PipeInv, [Next]_vars
  PROVE  TypeOK' /\ PipeInv'
<1>1. CASE UNCHANGED vars
  <2>1. UNCHANGED <<req, conns>>
    BY <1>1 DEF vars
  <2>2. TypeOK' /\ (\A r \in Request : Own(r)')
    BY <2>1 DEF TypeOK, PipeInv, Own, At
  <2>3. ThreadsKept'
    <3>1. InThread' = InThread
      BY <2>1 DEF InThread
    <3> QED BY <3>1 DEF PipeInv, ThreadsKept
  <2> QED BY <2>2, <2>3 DEF PipeInv
<1>2. ASSUME NEW r \in Request, NEW route \in Routes, Arrive(r, route)
      PROVE  TypeOK' /\ PipeInv'
  <2>1. route \in Route
    BY RouteAssumption
  <2> QED BY <1>2, <2>1, ArriveMoves
<1>3. ASSUME NEW r \in Request, Step(r) \/ SmtpEnd(r) \/ Break(r) \/ CommitFails(r)
      PROVE  TypeOK' /\ PipeInv'
  BY <1>3, EnterThreadMoves, LeaveThreadMoves, ConnectMoves, ExecuteMoves, CommitMoves,
     RollbackMoves, AnswerMoves, SendMoves, SmtpEndMoves, BreakMoves, CommitFailsMoves DEF Step
<1> QED BY <1>1, <1>2, <1>3 DEF Next, Quiet

LEMMA StartsWell == Init => TypeOK /\ PipeInv
<1> SUFFICES ASSUME Init PROVE TypeOK /\ PipeInv
  OBVIOUS
<1>1. /\ \A r \in Request : req[r] = Idle /\ Idle.pc = "idle"
      /\ req \in [Request -> Journey] /\ conns = {}
  BY IdleOK DEF Init, Idle
<1>2. TypeOK
  BY <1>1 DEF TypeOK, Journey
<1>3. \A r \in Request : Own(r)
  BY <1>1 DEF Own, At
<1>4. InThread = {}
  BY <1>1 DEF InThread
<1>5. ThreadsKept
  BY <1>4, FS_EmptySet, PoolAssumption DEF ThreadsKept
<1> QED BY <1>2, <1>3, <1>5 DEF PipeInv

LEMMA PipeInvariant == Spec => [](TypeOK /\ PipeInv)
<1>1. (TypeOK /\ PipeInv) /\ [Next]_vars => (TypeOK /\ PipeInv)'
  BY NextMoves
<1> QED BY <1>1, StartsWell, PTL DEF Spec

-----------------------------------------------------------------------------
(* The theorems.                                                             *)

\* Requests and pools hold only what they can hold: no step leaves a plan that
\* no code runs, and no answer has a status that HTTP lacks.
THEOREM PipelineTypes == Spec => []TypeOK
BY PipeInvariant, PTL

\* A success is answered only for work that get_db has committed and a 4xx only
\* for work that it has not, though invalid parameters and some failures leave a
\* commit behind them; and every class that the code raises on purpose finds a
\* status other than 500 up the class hierarchy.
THEOREM AnswersTell == Spec => []AnswerTellsOutcome
<1>1. TypeOK /\ PipeInv => AnswerTellsOutcome
  <2> SUFFICES ASSUME PipeInv, NEW r \in Request, At(r, "answered")
               PROVE  /\ req[r].status \in {200, 503} => req[r].ran /\ req[r].committed
                      /\ req[r].status \in 400..499 => ~(req[r].ran /\ req[r].committed)
                      /\ req[r].status = 500 <=> req[r].error = "Exception"
    BY DEF AnswerTellsOutcome
  <2>1. Told(req[r])
    BY DEF PipeInv, Own, At, OnItsWay, Doing, Committed, Failing, SendsMail, Answered
  <2> QED BY <2>1, Zenon DEF Told
<1> QED BY <1>1, PipeInvariant, PTL

\* Whatever holds a connection and whatever waits for one, a halt of everybody
\* is a halt of the thread pool by mails alone: a connection is held only by a
\* request that is not sending one.
THEOREM HaltsOnlyBySmtp == Spec => []StuckOnlyBySmtp
<1>1. TypeOK /\ PipeInv => StuckOnlyBySmtp
  <2> SUFFICES ASSUME TypeOK, PipeInv,
                      \A r \in Request : At(r, "idle") \/ At(r, "smtp") \/ Waits(r),
                      NEW w \in Request, Waits(w)
               PROVE  Cardinality(Mailing) = Threads
    BY DEF StuckOnlyBySmtp
  <2>1. \A r \in Request : Waits(r) => At(r, "run")
    BY DEF Waits, Needs, NeedsDatabase
  <2>2. InThread = Mailing
    BY <2>1 DEF InThread, Mailing, At
  <2>3. ~ThreadFree
    <3>1. ASSUME NEW r \in Request, Waits(r), r \in conns PROVE ~ThreadFree
      BY <3>1 DEF Waits, Needs, NeedsDatabase
    <3>2. CASE (Needs(w, "hop") \/ Needs(w, "mail")) /\ ~ThreadFree
      BY <3>2
    <3>3. CASE ~ConnectionFree
      <4>1. conns # {}
        BY <3>3, FS_EmptySet, PoolAssumption DEF ConnectionFree
      <4>2. PICK c \in Request : c \in conns
        BY <4>1 DEF TypeOK
      <4>3. Doing(req[c]) \/ Failing(req[c])
        BY <4>2, Holding DEF Holds
      <4>4. ~At(c, "idle") /\ ~At(c, "smtp")
        BY <4>3 DEF Doing, Failing, At
      <4> QED BY <3>1, <4>2, <4>4
    <3> QED BY <3>2, <3>3 DEF Waits
  <2>4. Cardinality(InThread) <= Threads /\ Cardinality(InThread) \in Nat
    BY FS_CardinalityType DEF PipeInv, ThreadsKept
  <2> QED BY <2>2, <2>3, <2>4, PoolAssumption DEF ThreadFree
<1> QED BY <1>1, PipeInvariant, PTL
=============================================================================
