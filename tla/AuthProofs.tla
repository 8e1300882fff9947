------------------------------ MODULE AuthProofs ------------------------------
(***************************************************************************)
(* What TLAPS proves of AuthService, for every value of the constants.     *)
(***************************************************************************)
EXTENDS AuthProperties, FiniteSetTheorems, TLAPS

-----------------------------------------------------------------------------
(* Type correctness.  TypeOK is not inductive: that SADD gets a jti and      *)
(* RevokeMembers a user depends on what a request's locals hold at its       *)
(* label, which LocalsOK states.                                             *)

RegisterPc == {"register.lookup", "register.insert", "register.token", "register.commit",
               "register.mail"}
VerifyPc == {"verify.get", "verify.user", "verify.delete", "verify.commit"}
LoginPc == {"login.lock", "login.user", "login.clear",
            "fail.incr", "fail.expire", "fail.lock", "fail.reset"}
IssuePc == {"issue.set", "issue.index", "issue.respond"}
RefreshPc == {"refresh.get", "refresh.delete", "refresh.srem"}
LogoutPc == {"logout.delete", "logout.srem"}
ForgotPc == {"forgot.lookup", "forgot.set", "forgot.mail"}
ResetPc == {"reset.get", "reset.user", "reset.delete", "revoke.members", "revoke.keys",
            "revoke.index", "reset.commit"}
\* The endpoint has found its account, or drawn the id of a new one.
UserPc == RegisterPc \cup IssuePc \cup {"login.clear", "verify.user", "verify.delete",
            "verify.commit", "refresh.delete", "refresh.srem", "forgot.set", "forgot.mail",
            "reset.user", "reset.delete", "revoke.members", "revoke.keys", "revoke.index",
            "reset.commit"}

\* What the locals of a request hold, by where it is.
LocalsOK(q) ==
  /\ q.pc \in RegisterPc => q.email \in Address /\ q.fresh \in VerifyLink
  /\ q.pc \in LoginPc => q.email \in Address /\ q.fresh \in Jti /\ q.token = NoToken
  /\ q.pc \in IssuePc => q.fresh \in Jti /\ q.token \in Jti \cup {NoToken}
  /\ q.pc \in RefreshPc => q.token \in Jti /\ q.fresh \in Jti
  /\ q.pc \in VerifyPc => q.token \in VerifyLink
  /\ q.pc \in LogoutPc => q.token \in Jti
  /\ q.pc \in ForgotPc => q.fresh \in ResetLink
  /\ q.pc \in ResetPc => q.token \in ResetLink
  /\ q.pc \in UserPc => q.user \in UserId

RequestsOK == req \in [Request -> Request_] /\ \A r \in Request : LocalsOK(req[r])

LEMMA CountCapNat == CountCap \in Nat
  BY FS_CardinalityType, SizeAssumption DEF CountCap

LEMMA IdleOK == Idle \in Request_ /\ LocalsOK(Idle)
  BY CountCapNat DEF Idle, Request_, LocalsOK, Label, RegisterPc, VerifyPc, LoginPc, IssuePc,
                     RefreshPc, LogoutPc, ForgotPc, ResetPc, UserPc

LEMMA SetRequest ==
  ASSUME RequestsOK, NEW r \in Request, NEW q \in Request_, LocalsOK(q),
         req' = [req EXCEPT ![r] = q]
  PROVE  RequestsOK'
  BY DEF RequestsOK

LEMMA ReplyOK ==
  ASSUME RequestsOK, NEW r \in Request, Reply(r)
  PROVE  RequestsOK'
  BY IdleOK, SetRequest DEF Reply

LEMMA GotoOK ==
  ASSUME RequestsOK, NEW r \in Request, NEW l \in Label, Goto(r, l),
         LocalsOK([req[r] EXCEPT !.pc = l])
  PROVE  RequestsOK'
<1>1. [req[r] EXCEPT !.pc = l] \in Request_
  BY DEF RequestsOK, Request_
<1>2. req' = [req EXCEPT ![r] = [req[r] EXCEPT !.pc = l]]
  BY DEF Goto
<1> QED BY <1>1, <1>2, SetRequest

LEMMA FoundOK ==
  ASSUME RequestsOK, NEW r \in Request, NEW u \in UserId, NEW l \in Label, Found(r, u, l),
         LocalsOK([req[r] EXCEPT !.user = u, !.pc = l])
  PROVE  RequestsOK'
<1>1. [req[r] EXCEPT !.user = u, !.pc = l] \in Request_
  BY DEF RequestsOK, Request_
<1>2. req' = [req EXCEPT ![r] = [req[r] EXCEPT !.user = u, !.pc = l]]
  BY DEF Found, RequestsOK, Request_
<1> QED BY <1>1, <1>2, SetRequest

LEMMA CountedNat ==
  ASSUME NEW f \in [Address -> Nat], NEW e, NEW c \in BOOLEAN,
         NEW g, g = [f EXCEPT ![e] = IF c THEN @ + 1 ELSE @]
  PROVE  g \in [Address -> Nat]
<1>1. DOMAIN g = Address /\ g = [a \in Address |-> g[a]]
  OBVIOUS
<1>2. \A a \in Address : g[a] \in Nat
  <2> TAKE a \in Address
  <2>1. f[a] \in Nat /\ f[a] + 1 \in Nat
    OBVIOUS
  <2> QED BY <2>1
<1> QED BY <1>1, <1>2

LEMMA SetBoolean ==
  ASSUME NEW f \in [Address -> BOOLEAN], NEW e, NEW b \in BOOLEAN
  PROVE  [f EXCEPT ![e] = b] \in [Address -> BOOLEAN]
  OBVIOUS

LEMMA RegisterRequests ==
  ASSUME ServiceOK, RequestsOK, NEW r \in Request, RegisterStep(r)
  PROVE  RequestsOK'
<1>0. LocalsOK(req[r]) /\ req[r] \in Request_
  BY DEF RequestsOK
<1> USE DEF At, Label, LocalsOK, Request_, RegisterPc, VerifyPc, LoginPc, IssuePc,
            RefreshPc, LogoutPc, ForgotPc, ResetPc, UserPc
<1>1. CASE RegisterLookup(r)
  BY <1>0, <1>1, ReplyOK, GotoOK DEF RegisterLookup
<1>2. CASE RegisterInsert(r)
  BY <1>0, <1>2, ReplyOK, GotoOK DEF RegisterInsert
<1>3. CASE RegisterToken(r)
  BY <1>0, <1>3, GotoOK DEF RegisterToken
<1>4. CASE RegisterCommit(r)
  BY <1>0, <1>4, GotoOK DEF RegisterCommit
<1>5. CASE RegisterMail(r)
  BY <1>0, <1>5, ReplyOK DEF RegisterMail, MailFresh
<1> QED BY <1>1, <1>2, <1>3, <1>4, <1>5 DEF RegisterStep

LEMMA VerifyRequests ==
  ASSUME ServiceOK, RequestsOK, NEW r \in Request, VerifyStep(r)
  PROVE  RequestsOK'
<1>0. LocalsOK(req[r]) /\ req[r] \in Request_
  BY DEF RequestsOK
<1> USE DEF At, Label, LocalsOK, Request_, RegisterPc, VerifyPc, LoginPc, IssuePc,
            RefreshPc, LogoutPc, ForgotPc, ResetPc, UserPc
<1>1. CASE VerifyGet(r)
  <2>1. CASE key[req[r].token] = NoUser
    BY <1>1, <2>1, ReplyOK DEF VerifyGet
  <2>2. CASE key[req[r].token] # NoUser
    <3>1. key[req[r].token] \in UserId
      BY <1>0, <1>1, <2>2 DEF VerifyGet, ServiceOK, Token, Link
    <3>2. Found(r, key[req[r].token], "verify.user")
      BY <1>1, <2>2 DEF VerifyGet
    <3> HIDE DEF Label
    <3> QED BY <1>0, <1>1, <3>1, <3>2, FoundOK DEF VerifyGet, Label
  <2> QED BY <2>1, <2>2
<1>2. CASE VerifyUser(r)
  BY <1>0, <1>2, ReplyOK, GotoOK DEF VerifyUser
<1>3. CASE VerifyDelete(r)
  BY <1>0, <1>3, GotoOK DEF VerifyDelete
<1>4. CASE VerifyCommit(r)
  BY <1>0, <1>4, ReplyOK DEF VerifyCommit
<1> QED BY <1>1, <1>2, <1>3, <1>4 DEF VerifyStep

LEMMA LoginRequests ==
  ASSUME ServiceOK, RequestsOK, NEW r \in Request, LoginStep(r)
  PROVE  RequestsOK'
<1>0. LocalsOK(req[r]) /\ req[r] \in Request_
  BY DEF RequestsOK
<1> USE DEF At, Label, LocalsOK, Request_, RegisterPc, VerifyPc, LoginPc, IssuePc,
            RefreshPc, LogoutPc, ForgotPc, ResetPc, UserPc
<1>1. CASE LoginLock(r)
  BY <1>0, <1>1, ReplyOK, GotoOK DEF LoginLock
<1>2. CASE LoginUser(r)
  <2>1. CASE Goto(r, "fail.incr")
    BY <1>0, <1>2, <2>1, GotoOK DEF LoginUser
  <2>2. CASE Reply(r)
    BY <2>2, ReplyOK
  <2>3. ASSUME NEW u \in UserId, Found(r, u, "login.clear")
        PROVE  RequestsOK'
    BY <1>0, <1>2, <2>3, FoundOK DEF LoginUser
  <2> QED BY <1>2, <2>1, <2>2, <2>3 DEF LoginUser, GetByEmail
<1>3. CASE LoginClear(r)
  BY <1>0, <1>3, GotoOK DEF LoginClear
<1>4. CASE FailIncr(r)
  <2> DEFINE n == IF attempts[req[r].email] < CountCap THEN attempts[req[r].email] + 1
                                                       ELSE CountCap
             q == [req[r] EXCEPT !.count = n, !.pc = "fail.expire"]
  <2>1. req' = [req EXCEPT ![r] = q]
    BY <1>0, <1>4 DEF FailIncr, RequestsOK
  <2>2. n \in 0..CountCap
    <3>1. attempts[req[r].email] \in 0..CountCap
      BY <1>0, <1>4 DEF FailIncr, ServiceOK
    <3> QED BY <3>1, CountCapNat
  <2> HIDE DEF n
  <2>3. q \in Request_
    BY <1>0, <2>2
  <2>4. LocalsOK(q)
    BY <1>0, <1>4 DEF FailIncr
  <2> HIDE DEF q
  <2> QED BY <2>1, <2>3, <2>4, SetRequest
<1>5. CASE FailExpire(r)
  BY <1>0, <1>5, ReplyOK, GotoOK DEF FailExpire
<1>6. CASE FailLock(r)
  BY <1>0, <1>6, GotoOK DEF FailLock
<1>7. CASE FailReset(r)
  BY <1>0, <1>7, ReplyOK DEF FailReset
<1> QED BY <1>1, <1>2, <1>3, <1>4, <1>5, <1>6, <1>7 DEF LoginStep

LEMMA IssueRequests ==
  ASSUME ServiceOK, RequestsOK, NEW r \in Request, IssueStep(r)
  PROVE  RequestsOK'
<1>0. LocalsOK(req[r]) /\ req[r] \in Request_
  BY DEF RequestsOK
<1> USE DEF At, Label, LocalsOK, Request_, RegisterPc, VerifyPc, LoginPc, IssuePc,
            RefreshPc, LogoutPc, ForgotPc, ResetPc, UserPc
<1>1. CASE IssueSet(r)
  BY <1>0, <1>1, GotoOK DEF IssueSet
<1>2. CASE IssueIndex(r)
  BY <1>0, <1>2, GotoOK DEF IssueIndex
<1>3. CASE IssueRespond(r)
  BY <1>0, <1>3, ReplyOK DEF IssueRespond
<1> QED BY <1>1, <1>2, <1>3 DEF IssueStep

LEMMA RefreshRequests ==
  ASSUME ServiceOK, RequestsOK, NEW r \in Request, RefreshStep(r)
  PROVE  RequestsOK'
<1>0. LocalsOK(req[r]) /\ req[r] \in Request_
  BY DEF RequestsOK
<1> USE DEF At, Label, LocalsOK, Request_, RegisterPc, VerifyPc, LoginPc, IssuePc,
            RefreshPc, LogoutPc, ForgotPc, ResetPc, UserPc
<1>1. CASE RefreshGet(r)
  <2>1. CASE Reply(r)
    BY <2>1, ReplyOK
  <2>2. CASE ~Reply(r)
    <3>1. subject[req[r].token] \in UserId
      BY <1>0, <1>1, <2>2 DEF RefreshGet, ServiceOK, Token
    <3>2. Found(r, subject[req[r].token], "refresh.delete")
      BY <1>1, <2>2 DEF RefreshGet
    <3> QED BY <1>0, <1>1, <3>1, <3>2, FoundOK DEF RefreshGet
  <2> QED BY <2>1, <2>2
<1>2. CASE RefreshDelete(r)
  BY <1>0, <1>2, GotoOK DEF RefreshDelete
<1>3. CASE RefreshSrem(r)
  BY <1>0, <1>3, GotoOK DEF RefreshSrem
<1> QED BY <1>1, <1>2, <1>3 DEF RefreshStep

LEMMA LogoutRequests ==
  ASSUME ServiceOK, RequestsOK, NEW r \in Request, LogoutStep(r)
  PROVE  RequestsOK'
<1>0. LocalsOK(req[r]) /\ req[r] \in Request_
  BY DEF RequestsOK
<1> USE DEF At, Label, LocalsOK, Request_, RegisterPc, VerifyPc, LoginPc, IssuePc,
            RefreshPc, LogoutPc, ForgotPc, ResetPc, UserPc
<1>1. CASE LogoutDelete(r)
  <2> DEFINE q == [req[r] EXCEPT !.user = subject[req[r].token], !.pc = "logout.srem"]
  <2>1. CASE Reply(r)
    BY <2>1, ReplyOK
  <2>2. CASE req' = [req EXCEPT ![r] = q]
    <3>1. subject[req[r].token] \in UserId \cup {NoUser}
      BY <1>0, <1>1 DEF LogoutDelete, ServiceOK, Token
    <3>2. q \in Request_
      BY <1>0, <3>1
    <3>3. LocalsOK(q)
      BY <1>0, <1>1 DEF LogoutDelete
    <3> HIDE DEF q
    <3> QED BY <2>2, <3>2, <3>3, SetRequest
  <2>3. Reply(r) \/ req' = [req EXCEPT ![r] = q]
    BY <1>0, <1>1 DEF LogoutDelete, Found, RequestsOK
  <2> QED BY <2>1, <2>2, <2>3
<1>2. CASE LogoutSrem(r)
  BY <1>0, <1>2, ReplyOK DEF LogoutSrem
<1> QED BY <1>1, <1>2 DEF LogoutStep

LEMMA ForgotRequests ==
  ASSUME ServiceOK, RequestsOK, NEW r \in Request, ForgotStep(r)
  PROVE  RequestsOK'
<1>0. LocalsOK(req[r]) /\ req[r] \in Request_
  BY DEF RequestsOK
<1> USE DEF At, Label, LocalsOK, Request_, RegisterPc, VerifyPc, LoginPc, IssuePc,
            RefreshPc, LogoutPc, ForgotPc, ResetPc, UserPc
<1>1. CASE ForgotLookup(r)
  <2>1. CASE Reply(r)
    BY <2>1, ReplyOK
  <2>2. ASSUME NEW u \in UserId, Found(r, u, "forgot.set")
        PROVE  RequestsOK'
    BY <1>0, <1>1, <2>2, FoundOK DEF ForgotLookup
  <2> QED BY <1>1, <2>1, <2>2 DEF ForgotLookup, GetByEmail
<1>2. CASE ForgotSet(r)
  BY <1>0, <1>2, GotoOK DEF ForgotSet
<1>3. CASE ForgotMail(r)
  BY <1>0, <1>3, ReplyOK DEF ForgotMail, MailFresh
<1> QED BY <1>1, <1>2, <1>3 DEF ForgotStep

LEMMA ResetRequests ==
  ASSUME ServiceOK, RequestsOK, NEW r \in Request, ResetStep(r)
  PROVE  RequestsOK'
<1>0. LocalsOK(req[r]) /\ req[r] \in Request_
  BY DEF RequestsOK
<1> USE DEF At, Label, LocalsOK, Request_, RegisterPc, VerifyPc, LoginPc, IssuePc,
            RefreshPc, LogoutPc, ForgotPc, ResetPc, UserPc
<1>1. CASE ResetGet(r)
  <2>1. CASE key[req[r].token] = NoUser
    BY <1>1, <2>1, ReplyOK DEF ResetGet
  <2>2. CASE key[req[r].token] # NoUser
    <3>1. key[req[r].token] \in UserId
      BY <1>0, <1>1, <2>2 DEF ResetGet, ServiceOK, Token, Link
    <3>2. Found(r, key[req[r].token], "reset.user")
      BY <1>1, <2>2 DEF ResetGet
    <3> HIDE DEF Label
    <3> QED BY <1>0, <1>1, <3>1, <3>2, FoundOK DEF ResetGet, Label
  <2> QED BY <2>1, <2>2
<1>2. CASE ResetUser(r)
  BY <1>0, <1>2, ReplyOK, GotoOK DEF ResetUser
<1>3. CASE ResetDelete(r)
  BY <1>0, <1>3, GotoOK DEF ResetDelete
<1>4. CASE RevokeMembers(r)
  <2> DEFINE jtis == userTokens[req[r].user]
             l == IF jtis = {} THEN "revoke.index" ELSE "revoke.keys"
             q == [req[r] EXCEPT !.seen = jtis, !.pc = l]
  <2>1. req' = [req EXCEPT ![r] = q]
    BY <1>0, <1>4 DEF RevokeMembers, RequestsOK
  <2>2. jtis \in SUBSET Jti
    BY <1>0, <1>4 DEF RevokeMembers, ServiceOK
  <2>3. l \in {"revoke.index", "revoke.keys"}
    OBVIOUS
  <2> HIDE DEF jtis, l
  <2>4. q \in Request_
    BY <1>0, <2>2, <2>3
  <2>5. LocalsOK(q)
    BY <1>0, <1>4, <2>3 DEF RevokeMembers
  <2> HIDE DEF q
  <2> QED BY <2>1, <2>4, <2>5, SetRequest
<1>5. CASE RevokeKeys(r)
  BY <1>0, <1>5, GotoOK DEF RevokeKeys
<1>6. CASE RevokeIndex(r)
  BY <1>0, <1>6, GotoOK DEF RevokeIndex
<1>7. CASE ResetCommit(r)
  BY <1>0, <1>7, ReplyOK DEF ResetCommit
<1> QED BY <1>1, <1>2, <1>3, <1>4, <1>5, <1>6, <1>7 DEF ResetStep

\* An account changes its status.
LEMMA StatusStores ==
  ASSUME users \in [UserId -> Row_], NEW u \in UserId, NEW to \in Status,
         users' = [users EXCEPT ![u].status = to]
  PROVE  users' \in [UserId -> Row_]
<1>1. PICK w \in Row_ : w = users[u]
  OBVIOUS
<1>2. [w EXCEPT !.status = to] \in Row_
  BY DEF Row_
<1>3. users' = [users EXCEPT ![u] = [w EXCEPT !.status = to]]
  BY <1>1
<1> QED BY <1>2, <1>3

LEMMA RegisterStores ==
  ASSUME ServiceOK, RequestsOK, NEW r \in Request, RegisterStep(r), RequestsOK'
  PROVE  ServiceOK'
<1>0. LocalsOK(req[r]) /\ req[r] \in Request_
  BY DEF RequestsOK
<1>r. req' \in [Request -> Request_]
  BY DEF RequestsOK
<1> USE <1>r DEF At, ServiceOK, database, tokens, lockout, lineage, clients, audit,
                 StoresUnchanged, Token, Link
<1>1. CASE RegisterLookup(r)
  BY <1>0, <1>1 DEF RegisterLookup
<1>2. CASE RegisterInsert(r)
  <2>1. NewAccount(req[r].email, req[r].password) \in Row_
    BY <1>0, <1>2 DEF RegisterInsert, NewAccount, Row, Row_, Hash, Digest, Status, Request_,
                     LocalsOK, RegisterPc
  <2>2. users' \in [UserId -> Row_]
    BY <1>2, <2>1 DEF RegisterInsert
  <2> QED BY <1>2, <2>2 DEF RegisterInsert
<1>3. CASE RegisterToken(r)
  BY <1>0, <1>3 DEF RegisterToken, Request_
<1>4. CASE RegisterCommit(r)
  <2>1. req[r].user \in UserId
    BY <1>0, <1>4 DEF RegisterCommit, LocalsOK, UserPc, RegisterPc
  <2>2. users' \in [UserId -> Row_]
    BY <1>4, <2>1, StatusStores DEF RegisterCommit, Status
  <2> QED BY <1>4, <2>2 DEF RegisterCommit
<1>5. CASE RegisterMail(r)
  <2>1. req[r].fresh \in Token
    BY <1>0, <1>5 DEF RegisterMail, LocalsOK, RegisterPc
  <2>2. known' \in SUBSET Token
    BY <1>5, <2>1 DEF RegisterMail, MailFresh
  <2> QED BY <1>5, <2>2 DEF RegisterMail, MailFresh
<1> QED BY <1>1, <1>2, <1>3, <1>4, <1>5 DEF RegisterStep

LEMMA VerifyStores ==
  ASSUME ServiceOK, RequestsOK, NEW r \in Request, VerifyStep(r), RequestsOK'
  PROVE  ServiceOK'
<1>0. LocalsOK(req[r]) /\ req[r] \in Request_
  BY DEF RequestsOK
<1>r. req' \in [Request -> Request_]
  BY DEF RequestsOK
<1> USE <1>r DEF At, ServiceOK, database, tokens, lockout, lineage, clients, audit,
                 StoresUnchanged, Token, Link
<1>1. CASE VerifyGet(r)
  BY <1>0, <1>1 DEF VerifyGet
<1>2. CASE VerifyUser(r)
  BY <1>0, <1>2 DEF VerifyUser
<1>3. CASE VerifyDelete(r)
  BY <1>0, <1>3 DEF VerifyDelete
<1>4. CASE VerifyCommit(r)
  <2>1. req[r].token \in Link
    BY <1>0, <1>4 DEF VerifyCommit, LocalsOK, VerifyPc
  <2>2. users' \in [UserId -> Row_]
    <3> DEFINE u == req[r].user
    <3>1. CASE u \notin UserId
      BY <1>4, <3>1 DEF VerifyCommit
    <3>2. CASE u \in UserId
      <4>1. users[u] \in Row_ /\ req[r].password \in Password \cup {NoPassword}
        BY <1>0, <3>2 DEF Request_
      <4>2. [users[u] EXCEPT !.verified = TRUE] \in Row_
        BY <4>1 DEF Row_, Digest, Hash
      <4>3. users' = [users EXCEPT ![u] = [users[u] EXCEPT !.verified = TRUE]]
        BY <1>4, <3>2 DEF VerifyCommit
      <4> QED BY <3>2, <4>2, <4>3
    <3> QED BY <3>1, <3>2
  <2> QED BY <1>4, <2>1, <2>2 DEF VerifyCommit
<1> QED BY <1>1, <1>2, <1>3, <1>4 DEF VerifyStep

LEMMA LoginStores ==
  ASSUME ServiceOK, RequestsOK, NEW r \in Request, LoginStep(r), RequestsOK'
  PROVE  ServiceOK'
<1>0. LocalsOK(req[r]) /\ req[r] \in Request_
  BY DEF RequestsOK
<1>r. req' \in [Request -> Request_]
  BY DEF RequestsOK
<1> USE <1>r DEF At, ServiceOK, database, tokens, lockout, lineage, clients, audit,
                 StoresUnchanged, Token, Link
<1>1. CASE LoginLock(r)
  BY <1>0, <1>1 DEF LoginLock
<1>2. CASE LoginUser(r)
  <2>1. late' = [late EXCEPT ![req[r].email] = IF lock[req[r].email] = "held" THEN @ + 1
                                                                              ELSE @]
    BY <1>2 DEF LoginUser
  <2>2. late \in [Address -> Nat]
    OBVIOUS
  <2>3. (lock[req[r].email] = "held") \in BOOLEAN
    OBVIOUS
  <2>4. late' \in [Address -> Nat]
    BY <2>1, <2>2, <2>3, CountedNat
  <2> QED BY <1>2, <2>4 DEF LoginUser
<1>3. CASE LoginClear(r)
  <2>1. attempts' \in [Address -> 0..CountCap]
    <3>1. attempts \in [Address -> 0..CountCap] /\ 0 \in 0..CountCap
      BY CountCapNat
    <3>2. attempts' = [attempts EXCEPT ![req[r].email] = 0]
      BY <1>3 DEF LoginClear
    <3> HIDE DEF ServiceOK
    <3> QED BY <3>1, <3>2
  <2>2. window' \in [Address -> BOOLEAN] /\ lock' \in [Address -> {"none", "held", "lapsing"}]
    BY <1>3 DEF LoginClear
  <2>3. late' \in [Address -> Nat]
    BY <1>3 DEF LoginClear
  <2> QED BY <1>3, <2>1, <2>2, <2>3 DEF LoginClear
<1>4. CASE FailIncr(r)
  <2> DEFINE n == IF attempts[req[r].email] < CountCap THEN attempts[req[r].email] + 1
                                                       ELSE CountCap
  <2>1. attempts[req[r].email] \in 0..CountCap
    BY <1>0, <1>4 DEF FailIncr, LocalsOK, LoginPc
  <2>2. n \in 0..CountCap
    BY <2>1, CountCapNat
  <2>3. attempts' = [attempts EXCEPT ![req[r].email] = n]
    BY <1>4 DEF FailIncr
  <2> HIDE DEF n
  <2>4. attempts' \in [Address -> 0..CountCap]
    BY <2>2, <2>3
  <2> QED BY <1>4, <2>4 DEF FailIncr
<1>5. CASE FailExpire(r)
  <2>1. window' \in [Address -> BOOLEAN]
    <3>1. window' = [window EXCEPT ![req[r].email] = attempts[req[r].email] > 0]
      BY <1>5 DEF FailExpire
    <3>2. window \in [Address -> BOOLEAN]
      OBVIOUS
    <3>3. (attempts[req[r].email] > 0) \in BOOLEAN
      OBVIOUS
    <3> QED BY <3>1, <3>2, <3>3, SetBoolean
  <2> QED BY <1>5, <2>1 DEF FailExpire
<1>6. CASE FailLock(r)
  BY <1>0, <1>6 DEF FailLock
<1>7. CASE FailReset(r)
  <2>1. 0 \in 0..CountCap
    BY CountCapNat
  <2> QED BY <1>7, <2>1 DEF FailReset
<1> QED BY <1>1, <1>2, <1>3, <1>4, <1>5, <1>6, <1>7 DEF LoginStep

LEMMA IssueStores ==
  ASSUME ServiceOK, RequestsOK, NEW r \in Request, IssueStep(r), RequestsOK'
  PROVE  ServiceOK'
<1>0. LocalsOK(req[r]) /\ req[r] \in Request_
  BY DEF RequestsOK
<1>r. req' \in [Request -> Request_]
  BY DEF RequestsOK
<1> USE <1>r DEF At, ServiceOK, database, tokens, lockout, lineage, clients, audit,
                 StoresUnchanged, Token, Link
<1>1. CASE IssueSet(r)
  <2>1. key' \in [Token -> UserId \cup {NoUser}] /\ subject' \in [Token -> UserId \cup {NoUser}]
    BY <1>0, <1>1 DEF IssueSet, Request_
  <2>2. parent' \in [Jti -> Jti \cup {NoToken}]
    BY <1>0, <1>1 DEF IssueSet, LocalsOK, IssuePc
  <2>3. basis' \in [Jti -> Digest]
    BY <1>0, <1>1 DEF IssueSet, LocalsOK, IssuePc, Digest, Hash, Request_
  <2> QED BY <1>1, <2>1, <2>2, <2>3 DEF IssueSet
<1>2. CASE IssueIndex(r)
  BY <1>0, <1>2 DEF IssueIndex, NewJti, LocalsOK, IssuePc, UserPc
<1>3. CASE IssueRespond(r)
  BY <1>0, <1>3 DEF IssueRespond, NewJti, LocalsOK, IssuePc
<1> QED BY <1>1, <1>2, <1>3 DEF IssueStep

LEMMA RefreshStores ==
  ASSUME ServiceOK, RequestsOK, NEW r \in Request, RefreshStep(r), RequestsOK'
  PROVE  ServiceOK'
<1>0. LocalsOK(req[r]) /\ req[r] \in Request_
  BY DEF RequestsOK
<1>r. req' \in [Request -> Request_]
  BY DEF RequestsOK
<1> USE <1>r DEF At, ServiceOK, database, tokens, lockout, lineage, clients, audit,
                 StoresUnchanged, Token, Link
<1>1. CASE RefreshGet(r)
  BY <1>0, <1>1 DEF RefreshGet
<1>2. CASE RefreshDelete(r)
  BY <1>0, <1>2 DEF RefreshDelete
<1>3. CASE RefreshSrem(r)
  BY <1>0, <1>3 DEF RefreshSrem
<1> QED BY <1>1, <1>2, <1>3 DEF RefreshStep

LEMMA LogoutStores ==
  ASSUME ServiceOK, RequestsOK, NEW r \in Request, LogoutStep(r), RequestsOK'
  PROVE  ServiceOK'
<1>0. LocalsOK(req[r]) /\ req[r] \in Request_
  BY DEF RequestsOK
<1>r. req' \in [Request -> Request_]
  BY DEF RequestsOK
<1> USE <1>r DEF At, ServiceOK, database, tokens, lockout, lineage, clients, audit,
                 StoresUnchanged, Token, Link
<1>1. CASE LogoutDelete(r)
  BY <1>0, <1>1 DEF LogoutDelete
<1>2. CASE LogoutSrem(r)
  BY <1>0, <1>2 DEF LogoutSrem
<1> QED BY <1>1, <1>2 DEF LogoutStep

LEMMA ForgotStores ==
  ASSUME ServiceOK, RequestsOK, NEW r \in Request, ForgotStep(r), RequestsOK'
  PROVE  ServiceOK'
<1>0. LocalsOK(req[r]) /\ req[r] \in Request_
  BY DEF RequestsOK
<1>r. req' \in [Request -> Request_]
  BY DEF RequestsOK
<1> USE <1>r DEF At, ServiceOK, database, tokens, lockout, lineage, clients, audit,
                 StoresUnchanged, Token, Link
<1>1. CASE ForgotLookup(r)
  BY <1>0, <1>1 DEF ForgotLookup
<1>2. CASE ForgotSet(r)
  BY <1>0, <1>2 DEF ForgotSet, Request_
<1>3. CASE ForgotMail(r)
  <2>1. req[r].fresh \in Token
    BY <1>0, <1>3 DEF ForgotMail, LocalsOK, ForgotPc
  <2>2. known' \in SUBSET Token
    BY <1>3, <2>1 DEF ForgotMail, MailFresh
  <2> QED BY <1>3, <2>2 DEF ForgotMail, MailFresh
<1> QED BY <1>1, <1>2, <1>3 DEF ForgotStep

LEMMA ResetStores ==
  ASSUME ServiceOK, RequestsOK, NEW r \in Request, ResetStep(r), RequestsOK'
  PROVE  ServiceOK'
<1>0. LocalsOK(req[r]) /\ req[r] \in Request_
  BY DEF RequestsOK
<1>r. req' \in [Request -> Request_]
  BY DEF RequestsOK
<1> USE <1>r DEF At, ServiceOK, database, tokens, lockout, lineage, clients, audit,
                 StoresUnchanged, Token, Link
<1>1. CASE ResetGet(r)
  BY <1>0, <1>1 DEF ResetGet
<1>2. CASE ResetUser(r)
  BY <1>0, <1>2 DEF ResetUser
<1>3. CASE ResetDelete(r)
  BY <1>0, <1>3 DEF ResetDelete
<1>4. CASE RevokeMembers(r)
  BY <1>0, <1>4 DEF RevokeMembers
<1>5. CASE RevokeKeys(r)
  BY <1>0, <1>5 DEF RevokeKeys
<1>6. CASE RevokeIndex(r)
  BY <1>0, <1>6 DEF RevokeIndex
<1>7. CASE ResetCommit(r)
  <2>1. req[r].token \in Link
    BY <1>0, <1>7 DEF ResetCommit, LocalsOK, ResetPc
  <2>2. users' \in [UserId -> Row_]
    <3> DEFINE u == req[r].user
    <3>1. CASE u \notin UserId
      BY <1>7, <3>1 DEF ResetCommit
    <3>2. CASE u \in UserId
      <4>1. users[u] \in Row_ /\ req[r].password \in Password \cup {NoPassword}
        BY <1>0, <3>2 DEF Request_
      <4>2. [users[u] EXCEPT !.hash = Hash(req[r].password)] \in Row_
        BY <4>1 DEF Row_, Digest, Hash
      <4>3. users' = [users EXCEPT ![u] = [users[u] EXCEPT !.hash = Hash(req[r].password)]]
        BY <1>7, <3>2 DEF ResetCommit
      <4> QED BY <3>2, <4>2, <4>3
    <3> QED BY <3>1, <3>2
  <2> QED BY <1>7, <2>1, <2>2 DEF ResetCommit
<1> QED BY <1>1, <1>2, <1>3, <1>4, <1>5, <1>6, <1>7 DEF ResetStep

LEMMA OpenOK ==
  ASSUME ServiceOK, RequestsOK, NEW r \in Request, NEW event, NEW q \in Request_, LocalsOK(q),
         Open(r, event, q)
  PROVE  RequestsOK' /\ ServiceOK'
<1>1. RequestsOK'
  BY SetRequest DEF Open
<1>2. ServiceOK'
  BY <1>1 DEF Open, RequestsOK, StoresUnchanged, ServiceOK, database, tokens, lockout, lineage,
              clients, audit
<1> QED BY <1>1, <1>2

LEMMA CallOK ==
  ASSUME ServiceOK, RequestsOK, NEW r \in Request, Call(r)
  PROVE  RequestsOK' /\ ServiceOK'
<1>0. /\ Idle \in Request_
      /\ \A a \in Address : Lower[a] \in Address
      /\ 0 \in 0..CountCap
  BY IdleOK, LowerAssumption, CountCapNat
<1> USE DEF Idle, Label, LocalsOK, Request_, RegisterPc, VerifyPc, LoginPc, IssuePc, RefreshPc,
            LogoutPc, ForgotPc, ResetPc, UserPc, Token, Link
<1>1. ASSUME NEW a \in Address, NEW p \in Password, NEW u \in UserId, NEW t \in VerifyLink,
             RegisterCall(r, a, p, u, t)
      PROVE  RequestsOK' /\ ServiceOK'
  <2> DEFINE q == [Idle EXCEPT !.pc = "register.lookup", !.email = Lower[a],
                               !.password = p, !.user = u, !.fresh = t]
  <2>1. q \in Request_ /\ LocalsOK(q)
    BY <1>0
  <2>2. Open(r, "register", q)
    BY <1>1 DEF RegisterCall
  <2> HIDE DEF q
  <2> QED BY <2>1, <2>2, OpenOK
<1>2. ASSUME NEW a \in Address, NEW p \in Password, NEW t \in Jti, LoginCall(r, a, p, t)
      PROVE  RequestsOK' /\ ServiceOK'
  <2> DEFINE q == [Idle EXCEPT !.pc = "login.lock", !.email = Lower[a],
                               !.password = p, !.fresh = t]
  <2>1. q \in Request_ /\ LocalsOK(q)
    BY <1>0
  <2>2. Open(r, "login", q)
    BY <1>2 DEF LoginCall
  <2> HIDE DEF q
  <2> QED BY <2>1, <2>2, OpenOK
<1>3. ASSUME NEW t \in VerifyLink, VerifyCall(r, t)
      PROVE  RequestsOK' /\ ServiceOK'
  <2> DEFINE q == [Idle EXCEPT !.pc = "verify.get", !.token = t]
  <2>1. q \in Request_ /\ LocalsOK(q)
    BY <1>0
  <2>2. Open(r, "verify", q)
    BY <1>3 DEF VerifyCall
  <2> HIDE DEF q
  <2> QED BY <2>1, <2>2, OpenOK
<1>4. ASSUME NEW j \in Jti, LogoutCall(r, j)
      PROVE  RequestsOK' /\ ServiceOK'
  <2> DEFINE q == [Idle EXCEPT !.pc = "logout.delete", !.token = j]
  <2>1. q \in Request_ /\ LocalsOK(q)
    BY <1>0
  <2>2. Open(r, "logout", q)
    BY <1>4 DEF LogoutCall
  <2> HIDE DEF q
  <2> QED BY <2>1, <2>2, OpenOK
<1>5. ASSUME NEW j \in Jti, NEW t \in Jti, RefreshCall(r, j, t)
      PROVE  RequestsOK' /\ ServiceOK'
  <2> DEFINE q == [Idle EXCEPT !.pc = "refresh.get", !.token = j, !.fresh = t]
  <2>1. q \in Request_ /\ LocalsOK(q)
    BY <1>0
  <2>2. Open(r, "refresh", q)
    BY <1>5 DEF RefreshCall
  <2> HIDE DEF q
  <2> QED BY <2>1, <2>2, OpenOK
<1>6. ASSUME NEW a \in Address, NEW t \in ResetLink, ForgotCall(r, a, t)
      PROVE  RequestsOK' /\ ServiceOK'
  <2> DEFINE q == [Idle EXCEPT !.pc = "forgot.lookup", !.email = Lower[a], !.fresh = t]
  <2>1. q \in Request_ /\ LocalsOK(q)
    BY <1>0
  <2>2. Open(r, "forgot", q)
    BY <1>6 DEF ForgotCall
  <2> HIDE DEF q
  <2> QED BY <2>1, <2>2, OpenOK
<1>7. ASSUME NEW t \in ResetLink, NEW p \in Password, ResetCall(r, t, p)
      PROVE  RequestsOK' /\ ServiceOK'
  <2> DEFINE q == [Idle EXCEPT !.pc = "reset.get", !.token = t, !.password = p]
  <2>1. q \in Request_ /\ LocalsOK(q)
    BY <1>0
  <2>2. Open(r, "reset", q)
    BY <1>7 DEF ResetCall
  <2> HIDE DEF q
  <2> QED BY <2>1, <2>2, OpenOK
<1> HIDE DEF Idle, Label, LocalsOK, Request_
<1> QED BY <1>1, <1>2, <1>3, <1>4, <1>5, <1>6, <1>7 DEF Call

LEMMA FailOK ==
  ASSUME ServiceOK, RequestsOK, NEW r \in Request, Fail(r)
  PROVE  RequestsOK' /\ ServiceOK'
<1>1. RequestsOK'
  BY ReplyOK DEF Fail
<1>2. ASSUME NEW u \in UserId
      PROVE  users[u] \in Row_ /\ [users[u] EXCEPT !.status = "void"] \in Row_
  <2>1. users[u] \in Row_
    BY DEF ServiceOK
  <2> QED BY <2>1 DEF Row_, Status
<1>3. users' \in [UserId -> Row_]
  BY <1>2 DEF Fail
<1>4. ServiceOK'
  BY <1>1, <1>3 DEF Fail, RequestsOK, ServiceOK, tokens, lockout, lineage, clients, audit
<1> QED BY <1>1, <1>4

LEMMA EnvironmentOK ==
  ASSUME ServiceOK, RequestsOK, Environment
  PROVE  RequestsOK' /\ ServiceOK'
<1>1. RequestsOK'
  BY DEF RequestsOK, Environment, ExpireKey, ExpireJwt, LapseLock, ExpireLock, ExpireAttempts,
         Disable, SoftDelete, OperatorUpdate, Event
<1>2. req' \in [Request -> Request_]
  BY <1>1 DEF RequestsOK
<1> USE <1>2 DEF ServiceOK, Event, database, tokens, lockout
<1>3. ASSUME NEW t \in Token, ExpireKey(t)
      PROVE  ServiceOK'
  BY <1>3 DEF ExpireKey
<1>4. ASSUME NEW j \in Jti, ExpireJwt(j)
      PROVE  ServiceOK'
  BY <1>4 DEF ExpireJwt
<1>5. ASSUME NEW e \in Address, LapseLock(e)
      PROVE  ServiceOK'
  BY <1>5 DEF LapseLock
<1>6. ASSUME NEW e \in Address, ExpireLock(e)
      PROVE  ServiceOK'
  BY <1>6 DEF ExpireLock
<1>7. ASSUME NEW e \in Address, ExpireAttempts(e)
      PROVE  ServiceOK'
  <2>1. 0 \in 0..CountCap
    BY CountCapNat
  <2> QED BY <1>7, <2>1 DEF ExpireAttempts
<1>8. ASSUME NEW u \in UserId, NEW from, NEW to \in Status, NEW event,
             OperatorUpdate(u, from, to, event)
      PROVE  ServiceOK'
  <2>1. users' \in [UserId -> Row_]
    BY <1>8, StatusStores DEF OperatorUpdate
  <2> QED BY <1>8, <2>1 DEF OperatorUpdate
<1>9. ServiceOK'
  <2> HIDE <1>2 DEF ServiceOK
  <2> QED BY <1>3, <1>4, <1>5, <1>6, <1>7, <1>8 DEF Environment, Disable, SoftDelete, Status
<1> QED BY <1>1, <1>9

LEMMA StepOK ==
  ASSUME ServiceOK, RequestsOK, NEW r \in Request, Step(r)
  PROVE  RequestsOK' /\ ServiceOK'
<1>1. RequestsOK'
  BY RegisterRequests, VerifyRequests, LoginRequests, IssueRequests, RefreshRequests,
     LogoutRequests, ForgotRequests, ResetRequests DEF Step
<1>2. ServiceOK'
  BY <1>1, RegisterStores, VerifyStores, LoginStores, IssueStores, RefreshStores,
     LogoutStores, ForgotStores, ResetStores DEF Step
<1> QED BY <1>1, <1>2

LEMMA InitOK == Init => ServiceOK /\ RequestsOK
<1> SUFFICES ASSUME Init PROVE ServiceOK /\ RequestsOK
  OBVIOUS
<1>1. RequestsOK
  BY IdleOK DEF Init, RequestsOK
<1>2. users \in [UserId -> Row_]
  BY LowerAssumption DEF Init, Row, Unborn, Row_, Status, Hash, NoHash, Digest
<1>3. 0 \in 0..CountCap
  BY CountCapNat
<1>4. ServiceOK
  BY <1>1, <1>2, <1>3 DEF Init, ServiceOK, RequestsOK, NoHash, Hash, Digest
<1> QED BY <1>1, <1>4

LEMMA StutterOK ==
  ASSUME ServiceOK, RequestsOK, UNCHANGED service
  PROVE  RequestsOK' /\ ServiceOK'
  BY DEF service, ServiceOK, RequestsOK

LEMMA GuardedApart ==
  ASSUME Guarded
  PROVE  UNCHANGED service /\ UNCHANGED raced
  BY DEF Guarded, GuardCall, GuardUser, GuardedCommit, GuardedFail, Apart

\* For the service a step is one of a request, one of the environment, or nothing.
LEMMA NextIs ==
  ASSUME [Next]_vars
  PROVE  \/ \E r \in Request : Call(r) \/ Step(r) \/ Fail(r)
         \/ Environment
         \/ UNCHANGED service
  BY GuardedApart DEF Next, Quiet, vars

\* A request's step notes the races there are, and leaves guarded requests alone.
LEMMA RequestNotes ==
  ASSUME NEW r \in Request, Call(r) \/ Step(r) \/ Fail(r)
  PROVE  Noted /\ UNCHANGED <<gate, overtime>>
<1> USE DEF Goto, Reply, Found, StoresUnchanged, clients, MailFresh
<1>1. CASE Call(r)
  BY <1>1 DEF Call, RegisterCall, LoginCall, VerifyCall, LogoutCall, RefreshCall, ForgotCall,
              ResetCall, Open
<1>2. CASE RegisterStep(r)
  BY <1>2 DEF RegisterStep, RegisterLookup, RegisterInsert, RegisterToken, RegisterCommit,
              RegisterMail
<1>3. CASE VerifyStep(r)
  BY <1>3 DEF VerifyStep, VerifyGet, VerifyUser, VerifyDelete, VerifyCommit
<1>4. CASE LoginStep(r)
  BY <1>4 DEF LoginStep, LoginLock, LoginUser, LoginClear, FailIncr, FailExpire, FailLock,
              FailReset
<1>5. CASE IssueStep(r) \/ RefreshStep(r)
  BY <1>5 DEF IssueStep, IssueSet, IssueIndex, IssueRespond, RefreshStep, RefreshGet,
              RefreshDelete, RefreshSrem
<1>6. CASE LogoutStep(r) \/ ForgotStep(r)
  BY <1>6 DEF LogoutStep, LogoutDelete, LogoutSrem, ForgotStep, ForgotLookup, ForgotSet,
              ForgotMail
<1>7. CASE ResetStep(r)
  BY <1>7 DEF ResetStep, ResetGet, ResetUser, ResetDelete, RevokeMembers, RevokeKeys,
              RevokeIndex, ResetCommit
<1>8. CASE Fail(r)
  BY <1>8 DEF Fail
<1> QED BY <1>1, <1>2, <1>3, <1>4, <1>5, <1>6, <1>7, <1>8 DEF Step

LEMMA AsideKept ==
  ASSUME ServiceOK, AsideOK, [Next]_vars
  PROVE  AsideOK'
<1>1. CASE \E r \in Request : Call(r) \/ Step(r) \/ Fail(r)
  BY <1>1, RequestNotes DEF Noted, AsideOK
<1>2. CASE Environment
  BY <1>2 DEF Environment, ExpireKey, ExpireJwt, LapseLock, ExpireLock, ExpireAttempts, Disable,
              SoftDelete, OperatorUpdate, Event, AsideOK
<1>3. CASE UNCHANGED vars
  BY <1>3 DEF vars, AsideOK
<1>4. ASSUME NEW g \in Gate, NEW j \in Jti, GuardCall(g, j) PROVE AsideOK'
  <2>1. subject[j] \in UserId \cup {NoUser}
    BY DEF ServiceOK, Token
  <2> QED BY <1>4, <2>1 DEF GuardCall, Apart, AsideOK
<1>5. ASSUME NEW g \in Gate, LeaveGate(g), UNCHANGED raced, overtime' \in [UserId -> Nat]
      PROVE  AsideOK'
  BY <1>5 DEF LeaveGate, Away, AsideOK
<1>6. ASSUME NEW g \in Gate, GuardUser(g) PROVE AsideOK'
  BY <1>5, <1>6 DEF GuardUser, Apart, AsideOK
<1>7. ASSUME NEW g \in Gate, GuardedCommit(g) PROVE AsideOK'
  <2> DEFINE u == gate[g].user
             n == IF overtime[u] > Cardinality(Gate) THEN overtime[u] ELSE overtime[u] + 1
  <2>1. u \in UserId => n \in Nat
    BY DEF AsideOK
  <2>2. overtime' = overtime \/ overtime' = [overtime EXCEPT ![u] = n]
    BY <1>7 DEF GuardedCommit
  <2> HIDE DEF n
  <2>3. overtime' \in [UserId -> Nat]
    BY <2>1, <2>2 DEF AsideOK
  <2> QED BY <1>5, <1>7, <2>3 DEF GuardedCommit, Apart
<1>8. ASSUME NEW g \in Gate, GuardedFail(g) PROVE AsideOK'
  BY <1>5, <1>8 DEF GuardedFail, Apart, AsideOK
<1>9. CASE Guarded
  BY <1>4, <1>6, <1>7, <1>8, <1>9 DEF Guarded
<1> QED BY <1>1, <1>2, <1>3, <1>9 DEF Next, Quiet

\* Every variable of the service always holds a value of its type, whatever
\* requests, faults and expiries do: no handler stores under a key, or in a
\* local, what it has not looked up first.
THEOREM TypeCorrect == Spec => []TypeOK
<1>1. Init => ServiceOK /\ RequestsOK /\ AsideOK
  <2>1. Init => AsideOK
    <3>1. Init => raced = {} /\ gate = [g \in Gate |-> Away] /\ overtime = [u \in UserId |-> 0]
      BY DEF Init
    <3> QED BY <3>1 DEF AsideOK, Away
  <2> QED BY <2>1, InitOK
<1>2. ServiceOK /\ RequestsOK /\ AsideOK /\ [Next]_vars => (ServiceOK /\ RequestsOK /\ AsideOK)'
  BY CallOK, StepOK, FailOK, EnvironmentOK, StutterOK, NextIs, AsideKept
<1>3. ServiceOK /\ AsideOK => TypeOK
  BY DEF TypeOK
<1> QED BY <1>1, <1>2, <1>3, PTL DEF Spec

-----------------------------------------------------------------------------
(* Tokens.  A request draws its token when it arrives and mints it, in one   *)
(* SET, later: until then nobody else draws it, and so nobody mints it twice.*)

\* The labels before the SET of a request that mints a token ...
Unissued == {"register.lookup", "register.insert", "register.token", "login.lock",
             "login.user", "login.clear", "fail.incr", "fail.expire", "fail.lock",
             "fail.reset", "issue.set", "refresh.get", "refresh.delete", "refresh.srem",
             "forgot.lookup", "forgot.set"}
\* ... of the SET itself, and after it.
Minting == {"register.token", "issue.set", "forgot.set"}
Issued == {"register.commit", "register.mail", "issue.index", "issue.respond", "forgot.mail"}
\* The labels after the DEL of the presented link, and of the sessions seen.
Burned == {"verify.commit", "revoke.members", "revoke.keys", "revoke.index", "reset.commit"}
Revoked == {"revoke.index", "reset.commit"}

Minted(t) == subject[t] # NoUser
Dead(t) == subject[t] # NoUser /\ key[t] = NoUser

FreshInv ==
  \A r \in Request : req[r].pc \in Unissued =>
    /\ subject[req[r].fresh] = NoUser
    /\ \A s \in Request \ {r} : req[s].fresh # req[r].fresh

\* What a request holds on to, whatever the others do meanwhile.
HeldBy(q) ==
  /\ q.token # NoToken => Minted(q.token)
  /\ \A j \in q.seen : Minted(j)
  /\ q.pc \in Issued => Minted(q.fresh)
  /\ q.pc \in Burned => Dead(q.token)
  /\ q.pc \in Revoked => \A j \in q.seen : Dead(j)

HeldInv ==
  /\ \A t \in known : Minted(t)
  /\ \A u \in UserId : \A j \in userTokens[u] : Minted(j)
  /\ \A t \in spent : Dead(t)
  /\ \A r \in Request : HeldBy(req[r])

\* What a step of a request may do to the requests, ...
MovesOn(r) ==
  /\ \A s \in Request \ {r} : req'[s] = req[s]
  /\ req'[r].fresh \in {req[r].fresh, NoToken}
  /\ req'[r].pc \in Unissued => req[r].pc \in Unissued /\ req'[r].fresh = req[r].fresh

\* ... to the token keys when it mints none, ...
Keeps == subject' = subject /\ \A t \in Token : key'[t] \in {key[t], NoUser}

\* ... and when it mints its own.
Mints(r) ==
  /\ req[r].pc \in Minting /\ req'[r].pc \in Issued /\ req[r].user \in UserId
  /\ key' = [key EXCEPT ![req[r].fresh] = req[r].user]
  /\ subject' = [subject EXCEPT ![req[r].fresh] = req[r].user]

LEMMA ReplyMoves ==
  ASSUME RequestsOK, NEW r \in Request, Reply(r)
  PROVE  MovesOn(r)
<1>1. req'[r] = Idle /\ \A s \in Request \ {r} : req'[s] = req[s]
  BY DEF Reply, RequestsOK
<1> QED BY <1>1 DEF MovesOn, Idle, Unissued

LEMMA GotoMoves ==
  ASSUME RequestsOK, NEW r \in Request, NEW l, Goto(r, l),
         l \in Unissued => req[r].pc \in Unissued
  PROVE  MovesOn(r)
<1>1. req[r] \in Request_
  BY DEF RequestsOK
<1>2. req'[r] = [req[r] EXCEPT !.pc = l] /\ \A s \in Request \ {r} : req'[s] = req[s]
  BY DEF Goto, RequestsOK
<1>3. req'[r].pc = l /\ req'[r].fresh = req[r].fresh
  BY <1>1, <1>2 DEF Request_
<1> QED BY <1>2, <1>3 DEF MovesOn

LEMMA FoundMoves ==
  ASSUME RequestsOK, NEW r \in Request, NEW u, NEW l, Found(r, u, l),
         l \in Unissued => req[r].pc \in Unissued
  PROVE  MovesOn(r)
<1>1. req[r] \in Request_
  BY DEF RequestsOK
<1>2. req'[r] = [req[r] EXCEPT !.user = u, !.pc = l]
      /\ \A s \in Request \ {r} : req'[s] = req[s]
  BY <1>1 DEF Found, RequestsOK, Request_
<1>3. req'[r].pc = l /\ req'[r].fresh = req[r].fresh
  BY <1>1, <1>2 DEF Request_
<1> QED BY <1>2, <1>3 DEF MovesOn

LEMMA RegisterTokenMints ==
  ASSUME ServiceOK, RequestsOK, NEW r \in Request, RegisterToken(r)
  PROVE  MovesOn(r) /\ Mints(r)
<1>0. LocalsOK(req[r]) /\ req[r] \in Request_
  BY DEF RequestsOK
<1> USE DEF At, Unissued, Issued
<1>1. Goto(r, "register.commit") /\ At(r, "register.token")
  BY DEF RegisterToken
<1>2. MovesOn(r)
  BY <1>0, <1>1, GotoMoves
<1>3. req'[r].pc \in Issued
  BY <1>0, <1>1 DEF Goto, Request_, RequestsOK
<1>4. req[r].user \in UserId
  BY <1>0, <1>1 DEF LocalsOK, UserPc, RegisterPc
<1> QED BY <1>1, <1>2, <1>3, <1>4 DEF RegisterToken, Mints, Minting

LEMMA IssueSetMints ==
  ASSUME ServiceOK, RequestsOK, NEW r \in Request, IssueSet(r)
  PROVE  MovesOn(r) /\ Mints(r)
<1>0. LocalsOK(req[r]) /\ req[r] \in Request_
  BY DEF RequestsOK
<1> USE DEF At, Unissued, Issued
<1>1. Goto(r, "issue.index") /\ At(r, "issue.set")
  BY DEF IssueSet
<1>2. MovesOn(r)
  BY <1>0, <1>1, GotoMoves
<1>3. req'[r].pc \in Issued
  BY <1>0, <1>1 DEF Goto, Request_, RequestsOK
<1>4. req[r].user \in UserId
  BY <1>0, <1>1 DEF LocalsOK, UserPc, IssuePc
<1> QED BY <1>1, <1>2, <1>3, <1>4 DEF IssueSet, NewJti, Mints, Minting

LEMMA ForgotSetMints ==
  ASSUME ServiceOK, RequestsOK, NEW r \in Request, ForgotSet(r)
  PROVE  MovesOn(r) /\ Mints(r)
<1>0. LocalsOK(req[r]) /\ req[r] \in Request_
  BY DEF RequestsOK
<1> USE DEF At, Unissued, Issued
<1>1. Goto(r, "forgot.mail") /\ At(r, "forgot.set")
  BY DEF ForgotSet
<1>2. MovesOn(r)
  BY <1>0, <1>1, GotoMoves
<1>3. req'[r].pc \in Issued
  BY <1>0, <1>1 DEF Goto, Request_, RequestsOK
<1>4. req[r].user \in UserId
  BY <1>0, <1>1 DEF LocalsOK, UserPc, ForgotPc
<1> QED BY <1>1, <1>2, <1>3, <1>4 DEF ForgotSet, Mints, Minting

LEMMA RegisterShape ==
  ASSUME ServiceOK, RequestsOK, NEW r \in Request, RegisterStep(r)
  PROVE  MovesOn(r) /\ (Keeps \/ Mints(r))
<1>0. LocalsOK(req[r]) /\ req[r] \in Request_
  BY DEF RequestsOK
<1> USE DEF At, Unissued, Issued, tokens, lineage, StoresUnchanged
<1>1. CASE RegisterLookup(r)
  <2>1. MovesOn(r)
    BY <1>0, <1>1, ReplyMoves, GotoMoves DEF RegisterLookup
  <2>2. Keeps
    BY <1>1 DEF RegisterLookup, Keeps
  <2> QED BY <2>1, <2>2
<1>2. CASE RegisterInsert(r)
  <2>1. MovesOn(r)
    BY <1>0, <1>2, ReplyMoves, GotoMoves DEF RegisterInsert
  <2>2. Keeps
    BY <1>2 DEF RegisterInsert, Keeps
  <2> QED BY <2>1, <2>2
<1>3. CASE RegisterToken(r)
  BY <1>3, RegisterTokenMints
<1>4. CASE RegisterCommit(r)
  <2>1. MovesOn(r)
    BY <1>0, <1>4, GotoMoves DEF RegisterCommit
  <2>2. Keeps
    BY <1>4 DEF RegisterCommit, Keeps
  <2> QED BY <2>1, <2>2
<1>5. CASE RegisterMail(r)
  <2>1. MovesOn(r)
    BY <1>0, <1>5, ReplyMoves DEF RegisterMail, MailFresh
  <2>2. Keeps
    BY <1>5 DEF RegisterMail, MailFresh, Keeps
  <2> QED BY <2>1, <2>2
<1> QED BY <1>1, <1>2, <1>3, <1>4, <1>5 DEF RegisterStep

LEMMA VerifyShape ==
  ASSUME ServiceOK, RequestsOK, NEW r \in Request, VerifyStep(r)
  PROVE  MovesOn(r) /\ (Keeps \/ Mints(r))
<1>0. LocalsOK(req[r]) /\ req[r] \in Request_
  BY DEF RequestsOK
<1> USE DEF At, Unissued, Issued, tokens, lineage, StoresUnchanged
<1>1. CASE VerifyGet(r)
  <2>1. MovesOn(r)
    BY <1>0, <1>1, ReplyMoves, FoundMoves DEF VerifyGet
  <2>2. Keeps
    BY <1>1 DEF VerifyGet, Keeps
  <2> QED BY <2>1, <2>2
<1>2. CASE VerifyUser(r)
  <2>1. MovesOn(r)
    BY <1>0, <1>2, ReplyMoves, GotoMoves DEF VerifyUser
  <2>2. Keeps
    BY <1>2 DEF VerifyUser, Keeps
  <2> QED BY <2>1, <2>2
<1>3. CASE VerifyDelete(r)
  <2>1. MovesOn(r)
    BY <1>0, <1>3, GotoMoves DEF VerifyDelete
  <2>2. Keeps
    BY <1>0, <1>3 DEF VerifyDelete, Keeps, ServiceOK
  <2> QED BY <2>1, <2>2
<1>4. CASE VerifyCommit(r)
  <2>1. MovesOn(r)
    BY <1>0, <1>4, ReplyMoves DEF VerifyCommit
  <2>2. Keeps
    BY <1>4 DEF VerifyCommit, Keeps
  <2> QED BY <2>1, <2>2
<1> QED BY <1>1, <1>2, <1>3, <1>4 DEF VerifyStep

LEMMA LoginShape ==
  ASSUME ServiceOK, RequestsOK, NEW r \in Request, LoginStep(r)
  PROVE  MovesOn(r) /\ (Keeps \/ Mints(r))
<1>0. LocalsOK(req[r]) /\ req[r] \in Request_
  BY DEF RequestsOK
<1> USE DEF At, Unissued, Issued, tokens, lineage, StoresUnchanged
<1>1. CASE LoginLock(r)
  <2>1. MovesOn(r)
    BY <1>0, <1>1, ReplyMoves, GotoMoves DEF LoginLock
  <2>2. Keeps
    BY <1>1 DEF LoginLock, Keeps
  <2> QED BY <2>1, <2>2
<1>2. CASE LoginUser(r)
  <2>1. MovesOn(r)
    BY <1>0, <1>2, ReplyMoves, GotoMoves, FoundMoves DEF LoginUser
  <2> QED BY <1>2, <2>1 DEF LoginUser, Keeps
<1>3. CASE LoginClear(r)
  <2>1. MovesOn(r)
    BY <1>0, <1>3, GotoMoves DEF LoginClear
  <2>2. Keeps
    BY <1>3 DEF LoginClear, Keeps
  <2> QED BY <2>1, <2>2
<1>4. CASE FailIncr(r)
  <2>1. /\ \A s \in Request \ {r} : req'[s] = req[s]
        /\ req'[r].fresh = req[r].fresh
    BY <1>0, <1>4 DEF FailIncr, RequestsOK, Request_
  <2>2. Keeps
    BY <1>4 DEF FailIncr, Keeps
  <2> QED BY <1>4, <2>1, <2>2 DEF FailIncr, MovesOn
<1>5. CASE FailExpire(r)
  <2>1. MovesOn(r)
    BY <1>0, <1>5, ReplyMoves, GotoMoves DEF FailExpire
  <2>2. Keeps
    BY <1>5 DEF FailExpire, Keeps
  <2> QED BY <2>1, <2>2
<1>6. CASE FailLock(r)
  <2>1. MovesOn(r)
    BY <1>0, <1>6, GotoMoves DEF FailLock
  <2>2. Keeps
    BY <1>6 DEF FailLock, Keeps
  <2> QED BY <2>1, <2>2
<1>7. CASE FailReset(r)
  <2>1. MovesOn(r)
    BY <1>0, <1>7, ReplyMoves DEF FailReset
  <2>2. Keeps
    BY <1>7 DEF FailReset, Keeps
  <2> QED BY <2>1, <2>2
<1> QED BY <1>1, <1>2, <1>3, <1>4, <1>5, <1>6, <1>7 DEF LoginStep

LEMMA IssueShape ==
  ASSUME ServiceOK, RequestsOK, NEW r \in Request, IssueStep(r)
  PROVE  MovesOn(r) /\ (Keeps \/ Mints(r))
<1>0. LocalsOK(req[r]) /\ req[r] \in Request_
  BY DEF RequestsOK
<1> USE DEF At, Unissued, Issued, tokens, lineage, StoresUnchanged
<1>1. CASE IssueSet(r)
  BY <1>1, IssueSetMints
<1>2. CASE IssueIndex(r)
  <2>1. MovesOn(r)
    BY <1>0, <1>2, GotoMoves DEF IssueIndex
  <2>2. Keeps
    BY <1>2 DEF IssueIndex, Keeps
  <2> QED BY <2>1, <2>2
<1>3. CASE IssueRespond(r)
  <2>1. MovesOn(r)
    BY <1>0, <1>3, ReplyMoves DEF IssueRespond
  <2>2. Keeps
    BY <1>3 DEF IssueRespond, Keeps
  <2> QED BY <2>1, <2>2
<1> QED BY <1>1, <1>2, <1>3 DEF IssueStep

LEMMA RefreshShape ==
  ASSUME ServiceOK, RequestsOK, NEW r \in Request, RefreshStep(r)
  PROVE  MovesOn(r) /\ (Keeps \/ Mints(r))
<1>0. LocalsOK(req[r]) /\ req[r] \in Request_
  BY DEF RequestsOK
<1> USE DEF At, Unissued, Issued, tokens, lineage, StoresUnchanged
<1>1. CASE RefreshGet(r)
  <2>1. MovesOn(r)
    BY <1>0, <1>1, ReplyMoves, FoundMoves DEF RefreshGet
  <2>2. Keeps
    BY <1>1 DEF RefreshGet, Keeps
  <2> QED BY <2>1, <2>2
<1>2. CASE RefreshDelete(r)
  <2>1. MovesOn(r)
    BY <1>0, <1>2, GotoMoves DEF RefreshDelete
  <2>2. Keeps
    BY <1>0, <1>2 DEF RefreshDelete, Keeps, ServiceOK
  <2> QED BY <2>1, <2>2
<1>3. CASE RefreshSrem(r)
  <2>1. MovesOn(r)
    BY <1>0, <1>3, GotoMoves DEF RefreshSrem
  <2>2. Keeps
    BY <1>3 DEF RefreshSrem, Keeps
  <2> QED BY <2>1, <2>2
<1> QED BY <1>1, <1>2, <1>3 DEF RefreshStep

LEMMA LogoutShape ==
  ASSUME ServiceOK, RequestsOK, NEW r \in Request, LogoutStep(r)
  PROVE  MovesOn(r) /\ (Keeps \/ Mints(r))
<1>0. LocalsOK(req[r]) /\ req[r] \in Request_
  BY DEF RequestsOK
<1> USE DEF At, Unissued, Issued, tokens, lineage, StoresUnchanged
<1>1. CASE LogoutDelete(r)
  <2>1. MovesOn(r)
    BY <1>0, <1>1, ReplyMoves, FoundMoves DEF LogoutDelete
  <2>2. Keeps
    BY <1>0, <1>1 DEF LogoutDelete, Keeps, ServiceOK
  <2> QED BY <2>1, <2>2
<1>2. CASE LogoutSrem(r)
  <2>1. MovesOn(r)
    BY <1>0, <1>2, ReplyMoves DEF LogoutSrem
  <2>2. Keeps
    BY <1>2 DEF LogoutSrem, Keeps
  <2> QED BY <2>1, <2>2
<1> QED BY <1>1, <1>2 DEF LogoutStep

LEMMA ForgotShape ==
  ASSUME ServiceOK, RequestsOK, NEW r \in Request, ForgotStep(r)
  PROVE  MovesOn(r) /\ (Keeps \/ Mints(r))
<1>0. LocalsOK(req[r]) /\ req[r] \in Request_
  BY DEF RequestsOK
<1> USE DEF At, Unissued, Issued, tokens, lineage, StoresUnchanged
<1>1. CASE ForgotLookup(r)
  <2>1. MovesOn(r)
    BY <1>0, <1>1, ReplyMoves, FoundMoves DEF ForgotLookup
  <2> QED BY <1>1, <2>1 DEF ForgotLookup, Keeps
<1>2. CASE ForgotSet(r)
  BY <1>2, ForgotSetMints
<1>3. CASE ForgotMail(r)
  <2>1. MovesOn(r)
    BY <1>0, <1>3, ReplyMoves DEF ForgotMail, MailFresh
  <2>2. Keeps
    BY <1>3 DEF ForgotMail, MailFresh, Keeps
  <2> QED BY <2>1, <2>2
<1> QED BY <1>1, <1>2, <1>3 DEF ForgotStep

LEMMA ResetShape ==
  ASSUME ServiceOK, RequestsOK, NEW r \in Request, ResetStep(r)
  PROVE  MovesOn(r) /\ (Keeps \/ Mints(r))
<1>0. LocalsOK(req[r]) /\ req[r] \in Request_
  BY DEF RequestsOK
<1> USE DEF At, Unissued, Issued, tokens, lineage, StoresUnchanged
<1>1. CASE ResetGet(r)
  <2>1. MovesOn(r)
    BY <1>0, <1>1, ReplyMoves, FoundMoves DEF ResetGet
  <2>2. Keeps
    BY <1>1 DEF ResetGet, Keeps
  <2> QED BY <2>1, <2>2
<1>2. CASE ResetUser(r)
  <2>1. MovesOn(r)
    BY <1>0, <1>2, ReplyMoves, GotoMoves DEF ResetUser
  <2>2. Keeps
    BY <1>2 DEF ResetUser, Keeps
  <2> QED BY <2>1, <2>2
<1>3. CASE ResetDelete(r)
  <2>1. MovesOn(r)
    BY <1>0, <1>3, GotoMoves DEF ResetDelete
  <2>2. Keeps
    BY <1>0, <1>3 DEF ResetDelete, Keeps, ServiceOK
  <2> QED BY <2>1, <2>2
<1>4. CASE RevokeMembers(r)
  <2>1. /\ \A s \in Request \ {r} : req'[s] = req[s]
        /\ req'[r].fresh = req[r].fresh
        /\ req'[r].pc \in {"revoke.index", "revoke.keys"}
    BY <1>0, <1>4 DEF RevokeMembers, RequestsOK, Request_
  <2>2. Keeps
    BY <1>4 DEF RevokeMembers, Keeps
  <2> QED BY <2>1, <2>2 DEF MovesOn
<1>5. CASE RevokeKeys(r)
  <2>1. MovesOn(r)
    BY <1>0, <1>5, GotoMoves DEF RevokeKeys
  <2>2. Keeps
    BY <1>0, <1>5 DEF RevokeKeys, Keeps, ServiceOK
  <2> QED BY <2>1, <2>2
<1>6. CASE RevokeIndex(r)
  <2>1. MovesOn(r)
    BY <1>0, <1>6, GotoMoves DEF RevokeIndex
  <2>2. Keeps
    BY <1>6 DEF RevokeIndex, Keeps
  <2> QED BY <2>1, <2>2
<1>7. CASE ResetCommit(r)
  <2>1. MovesOn(r)
    BY <1>0, <1>7, ReplyMoves DEF ResetCommit
  <2>2. Keeps
    BY <1>7 DEF ResetCommit, Keeps
  <2> QED BY <2>1, <2>2
<1> QED BY <1>1, <1>2, <1>3, <1>4, <1>5, <1>6, <1>7 DEF ResetStep

LEMMA StepShape ==
  ASSUME ServiceOK, RequestsOK, NEW r \in Request, Step(r)
  PROVE  MovesOn(r) /\ (Keeps \/ Mints(r))
BY RegisterShape, VerifyShape, LoginShape, IssueShape, RefreshShape, LogoutShape, ForgotShape,
   ResetShape DEF Step

\* Minted tokens stay minted and dead ones stay dead.
Lasting == \A t \in Token : (Minted(t) => Minted(t)') /\ (Dead(t) => Dead(t)')

LEMMA FreshIsToken ==
  ASSUME RequestsOK, NEW r \in Request, req[r].pc \in Unissued
  PROVE  req[r].fresh \in Token
<1>1. LocalsOK(req[r])
  BY DEF RequestsOK
<1> QED BY <1>1 DEF LocalsOK, Unissued, RegisterPc, LoginPc, RefreshPc, IssuePc, ForgotPc,
                    Token, Link

LEMMA StepFresh ==
  ASSUME ServiceOK, RequestsOK, FreshInv, NEW r \in Request, MovesOn(r), Keeps \/ Mints(r)
  PROVE  FreshInv' /\ Lasting
<1>1. FreshInv'
  <2> SUFFICES ASSUME NEW s \in Request, req'[s].pc \in Unissued
               PROVE  /\ subject'[req'[s].fresh] = NoUser
                      /\ \A x \in Request \ {s} : req'[x].fresh # req'[s].fresh
    BY DEF FreshInv
  <2>1. req[s].pc \in Unissued /\ req'[s].fresh = req[s].fresh
    BY DEF MovesOn
  <2>2. /\ subject[req[s].fresh] = NoUser
        /\ \A x \in Request \ {s} : req[x].fresh # req[s].fresh
    BY <2>1 DEF FreshInv
  <2>3. req[s].fresh # NoToken
    BY <2>1, FreshIsToken, NullAssumption
  <2>4. \A x \in Request : req'[x].fresh \in {req[x].fresh, NoToken}
    BY DEF MovesOn
  <2>5. subject'[req[s].fresh] = NoUser
    <3>1. CASE Keeps
      BY <2>2, <3>1 DEF Keeps
    <3>2. CASE Mints(r)
      <4>1. r # s
        BY <3>2 DEF Mints, Issued, Unissued
      <4>2. req[r].fresh # req[s].fresh
        BY <2>2, <4>1
      <4> QED BY <2>2, <3>2, <4>2 DEF Mints, ServiceOK
    <3> QED BY <3>1, <3>2
  <2> QED BY <2>1, <2>2, <2>3, <2>4, <2>5
<1>2. Lasting
  <2>1. CASE Keeps
    BY <2>1, NullAssumption DEF Keeps, Lasting, Minted, Dead
  <2>2. CASE Mints(r)
    <3>1. subject[req[r].fresh] = NoUser
      BY <2>2 DEF Mints, FreshInv, Minting, Unissued
    <3> SUFFICES ASSUME NEW t \in Token, subject[t] # NoUser
                 PROVE  subject'[t] = subject[t] /\ key'[t] = key[t]
      BY DEF Lasting, Minted, Dead
    <3>2. t # req[r].fresh
      BY <3>1
    <3> QED BY <2>2, <3>2 DEF Mints, ServiceOK
  <2> QED BY <2>1, <2>2
<1> QED BY <1>1, <1>2

\* A request arrives with a token of its own and with one a client knows.
Arrives(r, q) ==
  /\ req' = [req EXCEPT ![r] = q]
  /\ StoresUnchanged
  /\ q.pc \in Unissued => FreshToken(q.fresh)
  /\ q.token = NoToken \/ q.token \in known
  /\ q.fresh = NoToken \/ FreshToken(q.fresh)
  /\ q.seen = {}
  /\ q.pc \notin Issued \cup Burned \cup Revoked

LEMMA CallArrives ==
  ASSUME NEW r \in Request, Call(r)
  PROVE  \E q : Arrives(r, q)
<1> USE DEF Idle, Open, Arrives, Unissued, Issued, Burned, Revoked
<1>1. ASSUME NEW a \in Address, NEW p \in Password, NEW u \in UserId, NEW t \in VerifyLink,
             RegisterCall(r, a, p, u, t)
      PROVE  \E q : Arrives(r, q)
  <2> DEFINE q == [Idle EXCEPT !.pc = "register.lookup", !.email = Lower[a],
                               !.password = p, !.user = u, !.fresh = t]
  <2>1. Arrives(r, q)
    BY <1>1 DEF RegisterCall
  <2> HIDE DEF q, Arrives
  <2> QED BY <2>1
<1>2. ASSUME NEW a \in Address, NEW p \in Password, NEW t \in Jti,
             LoginCall(r, a, p, t)
      PROVE  \E q : Arrives(r, q)
  <2> DEFINE q == [Idle EXCEPT !.pc = "login.lock", !.email = Lower[a],
                               !.password = p, !.fresh = t]
  <2>1. Arrives(r, q)
    BY <1>2 DEF LoginCall
  <2> HIDE DEF q, Arrives
  <2> QED BY <2>1
<1>3. ASSUME NEW t \in VerifyLink \cap known,
             VerifyCall(r, t)
      PROVE  \E q : Arrives(r, q)
  <2> DEFINE q == [Idle EXCEPT !.pc = "verify.get", !.token = t]
  <2>1. Arrives(r, q)
    BY <1>3 DEF VerifyCall
  <2> HIDE DEF q, Arrives
  <2> QED BY <2>1
<1>4. ASSUME NEW j \in Jti \cap known,
             LogoutCall(r, j)
      PROVE  \E q : Arrives(r, q)
  <2> DEFINE q == [Idle EXCEPT !.pc = "logout.delete", !.token = j]
  <2>1. Arrives(r, q)
    BY <1>4 DEF LogoutCall
  <2> HIDE DEF q, Arrives
  <2> QED BY <2>1
<1>5. ASSUME NEW j \in Jti \cap known, NEW t \in Jti,
             RefreshCall(r, j, t)
      PROVE  \E q : Arrives(r, q)
  <2> DEFINE q == [Idle EXCEPT !.pc = "refresh.get", !.token = j, !.fresh = t]
  <2>1. Arrives(r, q)
    BY <1>5 DEF RefreshCall
  <2> HIDE DEF q, Arrives
  <2> QED BY <2>1
<1>6. ASSUME NEW a \in Address, NEW t \in ResetLink,
             ForgotCall(r, a, t)
      PROVE  \E q : Arrives(r, q)
  <2> DEFINE q == [Idle EXCEPT !.pc = "forgot.lookup", !.email = Lower[a], !.fresh = t]
  <2>1. Arrives(r, q)
    BY <1>6 DEF ForgotCall
  <2> HIDE DEF q, Arrives
  <2> QED BY <2>1
<1>7. ASSUME NEW t \in ResetLink \cap known, NEW p \in Password,
             ResetCall(r, t, p)
      PROVE  \E q : Arrives(r, q)
  <2> DEFINE q == [Idle EXCEPT !.pc = "reset.get", !.token = t, !.password = p]
  <2>1. Arrives(r, q)
    BY <1>7 DEF ResetCall
  <2> HIDE DEF q, Arrives
  <2> QED BY <2>1
<1> HIDE DEF Arrives
<1> QED BY <1>1, <1>2, <1>3, <1>4, <1>5, <1>6, <1>7 DEF Call

LEMMA ArriveFresh ==
  ASSUME ServiceOK, RequestsOK, FreshInv, NEW r \in Request, NEW q, Arrives(r, q)
  PROVE  FreshInv' /\ Lasting
<1>1. subject' = subject /\ key' = key
  BY DEF Arrives, StoresUnchanged, tokens, lineage
<1>2. req'[r] = q /\ \A s \in Request \ {r} : req'[s] = req[s]
  BY DEF Arrives, RequestsOK
<1>3. FreshInv'
  <2> SUFFICES ASSUME NEW s \in Request, req'[s].pc \in Unissued
               PROVE  /\ subject[req'[s].fresh] = NoUser
                      /\ \A x \in Request \ {s} : req'[x].fresh # req'[s].fresh
    BY <1>1 DEF FreshInv
  <2>1. CASE s = r
    BY <1>2, <2>1 DEF Arrives, FreshToken
  <2>2. CASE s # r
    <3>1. /\ subject[req[s].fresh] = NoUser
          /\ \A x \in Request \ {s} : req[x].fresh # req[s].fresh
      BY <1>2, <2>2 DEF FreshInv
    <3>2. req[s].fresh \in Token
      BY <1>2, <2>2, FreshIsToken
    <3>3. q.fresh # req[s].fresh
      BY <3>2, NullAssumption DEF Arrives, FreshToken
    <3> QED BY <1>2, <2>2, <3>1, <3>3
  <2> QED BY <2>1, <2>2
<1>4. Lasting
  BY <1>1 DEF Lasting, Minted, Dead
<1> QED BY <1>3, <1>4

LEMMA NextFresh ==
  ASSUME ServiceOK, RequestsOK, FreshInv, [Next]_vars
  PROVE  FreshInv' /\ Lasting
<1>1. ASSUME NEW r \in Request, Call(r)
      PROVE  FreshInv' /\ Lasting
  BY <1>1, CallArrives, ArriveFresh
<1>2. ASSUME NEW r \in Request, Step(r)
      PROVE  FreshInv' /\ Lasting
  BY <1>2, StepShape, StepFresh
<1>3. ASSUME NEW r \in Request, Fail(r)
      PROVE  FreshInv' /\ Lasting
  <2>1. MovesOn(r)
    BY <1>3, ReplyMoves DEF Fail
  <2>2. Keeps
    BY <1>3 DEF Fail, Keeps, tokens, lineage
  <2> QED BY <2>1, <2>2, StepFresh
<1>4. CASE Environment
  <2>1. /\ subject' = subject /\ req' = req
        /\ \A t \in Token : key'[t] \in {key[t], NoUser}
    BY <1>4 DEF Environment, ExpireKey, ExpireJwt, LapseLock, ExpireLock, ExpireAttempts,
         Disable, SoftDelete, OperatorUpdate, Event, tokens, ServiceOK
  <2> QED BY <2>1 DEF FreshInv, Lasting, Minted, Dead
<1>5. CASE UNCHANGED service
  BY <1>5 DEF service, FreshInv, Lasting, Minted, Dead
<1> QED BY <1>1, <1>2, <1>3, <1>4, <1>5, NextIs

LEMMA InitFresh == Init => FreshInv
  BY DEF Init, FreshInv, Idle, Unissued

\* A token that has died (used, revoked, rotated, logged out, expired) never
\* works again, for any number of concurrent requests: a handler SETs only a
\* key it has drawn itself, and only once.
THEOREM DeadForGood ==
  Spec => [][\A t \in Token : subject[t] # NoUser /\ key[t] = NoUser => key'[t] = NoUser]_vars
<1> DEFINE Inv == ServiceOK /\ RequestsOK /\ FreshInv
<1>1. Init => Inv
  BY InitOK, InitFresh
<1>2. Inv /\ [Next]_vars => Inv'
  BY NextFresh, CallOK, StepOK, FailOK, EnvironmentOK, StutterOK, NextIs
<1>3. Inv /\ [Next]_vars =>
        [\A t \in Token : subject[t] # NoUser /\ key[t] = NoUser => key'[t] = NoUser]_vars
  BY NextFresh DEF Lasting, Dead
<1> HIDE DEF Inv
<1> QED BY <1>1, <1>2, <1>3, PTL DEF Spec

-----------------------------------------------------------------------------
(* The life of a token.  Every step of the service is a step of TokenLife.   *)

\* A step that mints no token ends the lives of those whose key it removes.
LEMMA KeepsLife ==
  ASSUME ServiceOK, Keeps
  PROVE  [Life!Next]_Life!vars
<1> DEFINE S == {t \in Token : LifeOfToken[t] = "working" /\ key'[t] # key[t]}
<1>1. \A t \in S : LifeOfToken[t] = "working"
  OBVIOUS
<1>2. LifeOfToken' = [t \in Token |-> IF t \in S THEN "dead" ELSE LifeOfToken[t]]
  <2>1. ASSUME NEW t \in Token
        PROVE  LifeOfToken'[t] = IF t \in S THEN "dead" ELSE LifeOfToken[t]
    <3>1. subject'[t] = subject[t] /\ key'[t] \in {key[t], NoUser}
      BY DEF Keeps
    <3> QED BY <3>1 DEF LifeOfToken
  <2> HIDE DEF S
  <2> QED BY <2>1 DEF LifeOfToken
<1>3. S \in SUBSET Token
  OBVIOUS
<1> HIDE DEF S
<1>4. Life!End(S)
  BY <1>1, <1>2 DEF Life!End, Keeps
<1> QED BY <1>3, <1>4 DEF Life!Next

\* A SET of a token drawn by its request is that token's birth.
LEMMA MintsLife ==
  ASSUME ServiceOK, RequestsOK, FreshInv, NEW r \in Request, Mints(r)
  PROVE  Life!Next
<1> DEFINE x == req[r].fresh
<1> DEFINE u == req[r].user
<1>1. req[r].pc \in Unissued
  BY DEF Mints, Minting, Unissued
<1>2. x \in Token /\ subject[x] = NoUser /\ u \in UserId
  BY <1>1, FreshIsToken DEF FreshInv, Mints
<1>3. key' = [key EXCEPT ![x] = u] /\ subject' = [subject EXCEPT ![x] = u]
  BY DEF Mints
<1> HIDE DEF x, u
<1>4. LifeOfToken[x] = "unborn"
  BY <1>2 DEF LifeOfToken
<1>5. LifeOfToken' = [LifeOfToken EXCEPT ![x] = "working"]
  <2>1. ASSUME NEW t \in Token
        PROVE  LifeOfToken'[t] = IF t = x THEN "working" ELSE LifeOfToken[t]
    <3>1. subject'[t] = (IF t = x THEN u ELSE subject[t])
          /\ key'[t] = (IF t = x THEN u ELSE key[t])
      BY <1>3 DEF ServiceOK
    <3> QED BY <1>2, <3>1, NullAssumption DEF LifeOfToken
  <2> QED BY <2>1 DEF LifeOfToken
<1>6. Life!Mint(x, u)
  BY <1>3, <1>4, <1>5 DEF Life!Mint
<1> QED BY <1>2, <1>6 DEF Life!Next

LEMMA NextLife ==
  ASSUME ServiceOK, RequestsOK, FreshInv, [Next]_vars
  PROVE  [Life!Next]_Life!vars
<1>1. ASSUME NEW r \in Request, Call(r)
      PROVE  Keeps
  <2>1. PICK q : Arrives(r, q)
    BY <1>1, CallArrives
  <2> QED BY <2>1 DEF Arrives, StoresUnchanged, tokens, lineage, Keeps
<1>2. ASSUME NEW r \in Request, Step(r)
      PROVE  [Life!Next]_Life!vars
  BY <1>2, StepShape, KeepsLife, MintsLife
<1>3. ASSUME NEW r \in Request, Fail(r)
      PROVE  Keeps
  BY <1>3 DEF Fail, Keeps, tokens, lineage
<1>4. CASE Environment
  <2>1. Keeps
    BY <1>4 DEF Environment, ExpireKey, ExpireJwt, LapseLock, ExpireLock, ExpireAttempts,
         Disable, SoftDelete, OperatorUpdate, Event, tokens, ServiceOK, Keeps
  <2> QED BY <2>1, KeepsLife
<1>5. CASE UNCHANGED service
  <2>1. Keeps
    BY <1>5 DEF service, Keeps
  <2> QED BY <2>1, KeepsLife
<1> QED BY <1>1, <1>2, <1>3, <1>4, <1>5, KeepsLife, NextIs

\* The auth service implements TokenLife: for any number of concurrent
\* requests, failed calls and expiries, each link and each refresh token is
\* minted once, for one account, and once dead stays so.
THEOREM TokensRefined == Spec => TokensLive
<1> DEFINE Inv == ServiceOK /\ RequestsOK /\ FreshInv
<1>1. Init => Inv
  BY InitOK, InitFresh
<1>2. Inv /\ [Next]_vars => Inv'
  BY NextFresh, CallOK, StepOK, FailOK, EnvironmentOK, StutterOK, NextIs
<1>3. Init => Life!Init
  BY DEF Init, Life!Init, LifeOfToken
<1>4. Inv /\ [Next]_vars => [Life!Next]_Life!vars
  BY NextLife
<1> HIDE DEF Inv
<1> QED BY <1>1, <1>2, <1>3, <1>4, PTL DEF Spec, TokensLive, Life!Spec

-----------------------------------------------------------------------------
(* What requests, clients and the index hold on to.                          *)

\* When a request may go on to a label: it has minted its token, or its DEL has
\* removed what the label says is dead.
MayReach(r, l) ==
  /\ l \in Issued => req[r].pc \in Issued \/ Mints(r)
  /\ l \in Burned => /\ req[r].token # NoToken
                     /\ req[r].pc \in Burned \/ key'[req[r].token] = NoUser
  /\ l \in Revoked => \/ req[r].pc \in Revoked /\ req'[r].seen = req[r].seen
                      \/ \A j \in req'[r].seen : key'[j] = NoUser

\* What a step of a request may do to its own locals: it ends, or goes on with
\* its tokens, and with the sessions it has seen or sees in the index.
HoldsOn(r) ==
  \/ req'[r] = Idle
  \/ /\ req'[r].token = req[r].token /\ req'[r].fresh = req[r].fresh
     /\ \/ req'[r].seen = req[r].seen
        \/ req[r].user \in UserId /\ req'[r].seen = userTokens[req[r].user]
     /\ MayReach(r, req'[r].pc)

\* What a step of a request may add to what others can get hold of.
HandsOut(r) ==
  /\ \A t \in known' : t \in known \/ (req[r].pc \in Issued /\ t = req[r].fresh)
  /\ \A u \in UserId : \A j \in userTokens'[u] :
       j \in userTokens[u] \/ (req[r].pc \in Issued /\ j = req[r].fresh)
  /\ \A t \in spent' : t \in spent \/ (req[r].pc \in Burned /\ t = req[r].token)

LEMMA ReplyHolds ==
  ASSUME RequestsOK, NEW r \in Request, Reply(r)
  PROVE  HoldsOn(r)
  BY DEF Reply, HoldsOn, RequestsOK

LEMMA GotoHolds ==
  ASSUME RequestsOK, NEW r \in Request, NEW l, Goto(r, l),
         l \in Issued => req[r].pc \in Issued \/ Mints(r),
         l \in Burned => /\ req[r].token # NoToken
                         /\ req[r].pc \in Burned \/ key'[req[r].token] = NoUser,
         l \in Revoked => req[r].pc \in Revoked \/ \A j \in req[r].seen : key'[j] = NoUser
  PROVE  HoldsOn(r)
<1>1. req[r] \in Request_
  BY DEF RequestsOK
<1>2. /\ req'[r].pc = l
      /\ req'[r].token = req[r].token /\ req'[r].seen = req[r].seen
      /\ req'[r].fresh = req[r].fresh
  BY <1>1 DEF Goto, RequestsOK, Request_
<1>3. MayReach(r, l)
  BY <1>2 DEF MayReach
<1> QED BY <1>2, <1>3 DEF HoldsOn

LEMMA FoundHolds ==
  ASSUME RequestsOK, NEW r \in Request, NEW u, NEW l, Found(r, u, l),
         l \notin Issued \cup Burned \cup Revoked
  PROVE  HoldsOn(r)
<1>1. req[r] \in Request_
  BY DEF RequestsOK
<1>2. /\ req'[r].pc = l
      /\ req'[r].token = req[r].token /\ req'[r].seen = req[r].seen
      /\ req'[r].fresh = req[r].fresh
  BY <1>1 DEF Found, RequestsOK, Request_
<1> QED BY <1>2 DEF HoldsOn, MayReach

LEMMA RegisterHolds ==
  ASSUME ServiceOK, RequestsOK, NEW r \in Request, RegisterStep(r)
  PROVE  HoldsOn(r) /\ HandsOut(r)
<1> USE DEF At, Issued, Minting, Burned, Revoked
<1>1. CASE RegisterLookup(r)
  <2>1. HandsOut(r)
    BY <1>1 DEF RegisterLookup, HandsOut, tokens, clients, audit, StoresUnchanged
  <2>2. HoldsOn(r)
    BY <1>1, ReplyHolds, GotoHolds DEF RegisterLookup
  <2> QED BY <2>1, <2>2
<1>2. CASE RegisterInsert(r)
  <2>1. HandsOut(r)
    BY <1>2 DEF RegisterInsert, HandsOut, tokens, clients, audit, StoresUnchanged
  <2>2. HoldsOn(r)
    BY <1>2, ReplyHolds, GotoHolds DEF RegisterInsert
  <2> QED BY <2>1, <2>2
<1>3. CASE RegisterToken(r)
  <2>1. HandsOut(r)
    BY <1>3 DEF RegisterToken, HandsOut, tokens, clients, audit, StoresUnchanged
  <2>2. HoldsOn(r)
    BY <1>3, RegisterTokenMints, GotoHolds DEF RegisterToken
  <2> QED BY <2>1, <2>2
<1>4. CASE RegisterCommit(r)
  <2>1. HandsOut(r)
    BY <1>4 DEF RegisterCommit, HandsOut, tokens, clients, audit, StoresUnchanged
  <2>2. HoldsOn(r)
    BY <1>4, GotoHolds DEF RegisterCommit
  <2> QED BY <2>1, <2>2
<1>5. CASE RegisterMail(r)
  <2>1. HandsOut(r)
    BY <1>5 DEF RegisterMail, MailFresh, HandsOut, tokens, clients, audit, StoresUnchanged
  <2>2. HoldsOn(r)
    BY <1>5, ReplyHolds DEF RegisterMail, MailFresh
  <2> QED BY <2>1, <2>2
<1> QED BY <1>1, <1>2, <1>3, <1>4, <1>5 DEF RegisterStep

LEMMA VerifyHolds ==
  ASSUME ServiceOK, RequestsOK, NEW r \in Request, VerifyStep(r)
  PROVE  HoldsOn(r) /\ HandsOut(r)
<1>0. LocalsOK(req[r]) /\ req[r] \in Request_
  BY DEF RequestsOK
<1>b. req[r].token # NoToken /\ req[r].token \in Token
  <2>1. req[r].pc \in VerifyPc
    BY DEF VerifyStep, VerifyPc, At,
       VerifyGet, VerifyUser, VerifyDelete, VerifyCommit
  <2> QED BY <1>0, <2>1, NullAssumption DEF LocalsOK, Token, Link
<1> USE DEF At, Issued, Minting, Burned, Revoked
<1>1. CASE VerifyGet(r)
  <2>1. HandsOut(r)
    BY <1>1 DEF VerifyGet, HandsOut, tokens, clients, audit, StoresUnchanged
  <2>2. HoldsOn(r)
    BY <1>1, <1>b, ReplyHolds, FoundHolds DEF VerifyGet
  <2> QED BY <2>1, <2>2
<1>2. CASE VerifyUser(r)
  <2>1. HandsOut(r)
    BY <1>2 DEF VerifyUser, HandsOut, tokens, clients, audit, StoresUnchanged
  <2>2. HoldsOn(r)
    BY <1>2, <1>b, ReplyHolds, GotoHolds DEF VerifyUser
  <2> QED BY <2>1, <2>2
<1>3. CASE VerifyDelete(r)
  <2>1. HandsOut(r)
    BY <1>3 DEF VerifyDelete, HandsOut, tokens, clients, audit, StoresUnchanged
  <2>2. key'[req[r].token] = NoUser
    BY <1>3, <1>b DEF VerifyDelete, ServiceOK
  <2> QED BY <1>3, <1>b, <2>1, <2>2, GotoHolds DEF VerifyDelete
<1>4. CASE VerifyCommit(r)
  <2>1. HandsOut(r)
    BY <1>4 DEF VerifyCommit, HandsOut, tokens, clients, audit, StoresUnchanged
  <2>2. HoldsOn(r)
    BY <1>4, <1>b, ReplyHolds DEF VerifyCommit
  <2> QED BY <2>1, <2>2
<1> QED BY <1>1, <1>2, <1>3, <1>4 DEF VerifyStep

LEMMA LoginHolds ==
  ASSUME ServiceOK, RequestsOK, NEW r \in Request, LoginStep(r)
  PROVE  HoldsOn(r) /\ HandsOut(r)
<1>0. LocalsOK(req[r]) /\ req[r] \in Request_
  BY DEF RequestsOK
<1> USE DEF At, Issued, Minting, Burned, Revoked
<1>1. CASE LoginLock(r)
  <2>1. HandsOut(r)
    BY <1>1 DEF LoginLock, HandsOut, tokens, clients, audit, StoresUnchanged
  <2>2. HoldsOn(r)
    BY <1>1, ReplyHolds, GotoHolds DEF LoginLock
  <2> QED BY <2>1, <2>2
<1>2. CASE LoginUser(r)
  <2>1. HandsOut(r)
    BY <1>2 DEF LoginUser, HandsOut, tokens, clients, audit, StoresUnchanged
  <2>2. HoldsOn(r)
    BY <1>2, ReplyHolds, GotoHolds, FoundHolds DEF LoginUser
  <2> QED BY <2>1, <2>2
<1>3. CASE LoginClear(r)
  <2>1. HandsOut(r)
    BY <1>3 DEF LoginClear, HandsOut, tokens, clients, audit, StoresUnchanged
  <2>2. HoldsOn(r)
    BY <1>3, GotoHolds DEF LoginClear
  <2> QED BY <2>1, <2>2
<1>4. CASE FailIncr(r)
  <2>1. HandsOut(r)
    BY <1>4 DEF FailIncr, HandsOut, tokens, clients, audit, StoresUnchanged
  <2>2. /\ req'[r].pc = "fail.expire" /\ req'[r].token = req[r].token
        /\ req'[r].seen = req[r].seen /\ req'[r].fresh = req[r].fresh
    BY <1>0, <1>4 DEF FailIncr, RequestsOK, Request_
  <2> QED BY <2>1, <2>2 DEF HoldsOn, MayReach
<1>5. CASE FailExpire(r)
  <2>1. HandsOut(r)
    BY <1>5 DEF FailExpire, HandsOut, tokens, clients, audit, StoresUnchanged
  <2>2. HoldsOn(r)
    BY <1>5, ReplyHolds, GotoHolds DEF FailExpire
  <2> QED BY <2>1, <2>2
<1>6. CASE FailLock(r)
  <2>1. HandsOut(r)
    BY <1>6 DEF FailLock, HandsOut, tokens, clients, audit, StoresUnchanged
  <2>2. HoldsOn(r)
    BY <1>6, GotoHolds DEF FailLock
  <2> QED BY <2>1, <2>2
<1>7. CASE FailReset(r)
  <2>1. HandsOut(r)
    BY <1>7 DEF FailReset, HandsOut, tokens, clients, audit, StoresUnchanged
  <2>2. HoldsOn(r)
    BY <1>7, ReplyHolds DEF FailReset
  <2> QED BY <2>1, <2>2
<1> QED BY <1>1, <1>2, <1>3, <1>4, <1>5, <1>6, <1>7 DEF LoginStep

LEMMA IssueHolds ==
  ASSUME ServiceOK, RequestsOK, NEW r \in Request, IssueStep(r)
  PROVE  HoldsOn(r) /\ HandsOut(r)
<1> USE DEF At, Issued, Minting, Burned, Revoked
<1>1. CASE IssueSet(r)
  <2>1. HandsOut(r)
    BY <1>1 DEF IssueSet, HandsOut, tokens, clients, audit, StoresUnchanged
  <2>2. HoldsOn(r)
    BY <1>1, IssueSetMints, GotoHolds DEF IssueSet
  <2> QED BY <2>1, <2>2
<1>2. CASE IssueIndex(r)
  <2>1. HandsOut(r)
    BY <1>2 DEF IssueIndex, NewJti, ServiceOK, HandsOut, tokens, clients, audit, StoresUnchanged
  <2>2. HoldsOn(r)
    BY <1>2, GotoHolds DEF IssueIndex
  <2> QED BY <2>1, <2>2
<1>3. CASE IssueRespond(r)
  <2>1. HandsOut(r)
    BY <1>3 DEF IssueRespond, NewJti, HandsOut, tokens, clients, audit, StoresUnchanged
  <2>2. HoldsOn(r)
    BY <1>3, ReplyHolds DEF IssueRespond
  <2> QED BY <2>1, <2>2
<1> QED BY <1>1, <1>2, <1>3 DEF IssueStep

LEMMA RefreshHolds ==
  ASSUME ServiceOK, RequestsOK, NEW r \in Request, RefreshStep(r)
  PROVE  HoldsOn(r) /\ HandsOut(r)
<1> USE DEF At, Issued, Minting, Burned, Revoked
<1>1. CASE RefreshGet(r)
  <2>1. HandsOut(r)
    BY <1>1 DEF RefreshGet, HandsOut, tokens, clients, audit, StoresUnchanged
  <2>2. HoldsOn(r)
    BY <1>1, ReplyHolds, FoundHolds DEF RefreshGet
  <2> QED BY <2>1, <2>2
<1>2. CASE RefreshDelete(r)
  <2>1. HandsOut(r)
    BY <1>2 DEF RefreshDelete, HandsOut, tokens, clients, audit, StoresUnchanged
  <2>2. HoldsOn(r)
    BY <1>2, GotoHolds DEF RefreshDelete
  <2> QED BY <2>1, <2>2
<1>3. CASE RefreshSrem(r)
  <2>1. HandsOut(r)
    BY <1>3 DEF RefreshSrem, ServiceOK, HandsOut, tokens, clients, audit, StoresUnchanged
  <2>2. HoldsOn(r)
    BY <1>3, GotoHolds DEF RefreshSrem
  <2> QED BY <2>1, <2>2
<1> QED BY <1>1, <1>2, <1>3 DEF RefreshStep

LEMMA LogoutHolds ==
  ASSUME ServiceOK, RequestsOK, NEW r \in Request, LogoutStep(r)
  PROVE  HoldsOn(r) /\ HandsOut(r)
<1> USE DEF At, Issued, Minting, Burned, Revoked
<1>1. CASE LogoutDelete(r)
  <2>1. HandsOut(r)
    BY <1>1 DEF LogoutDelete, HandsOut, tokens, clients, audit, StoresUnchanged
  <2>2. HoldsOn(r)
    BY <1>1, ReplyHolds, FoundHolds DEF LogoutDelete
  <2> QED BY <2>1, <2>2
<1>2. CASE LogoutSrem(r)
  <2>1. HandsOut(r)
    BY <1>2 DEF LogoutSrem, ServiceOK, HandsOut, tokens, clients, audit, StoresUnchanged
  <2>2. HoldsOn(r)
    BY <1>2, ReplyHolds DEF LogoutSrem
  <2> QED BY <2>1, <2>2
<1> QED BY <1>1, <1>2 DEF LogoutStep

LEMMA ForgotHolds ==
  ASSUME ServiceOK, RequestsOK, NEW r \in Request, ForgotStep(r)
  PROVE  HoldsOn(r) /\ HandsOut(r)
<1> USE DEF At, Issued, Minting, Burned, Revoked
<1>1. CASE ForgotLookup(r)
  <2>1. HandsOut(r)
    BY <1>1 DEF ForgotLookup, HandsOut, tokens, clients, audit, StoresUnchanged
  <2>2. HoldsOn(r)
    BY <1>1, ReplyHolds, FoundHolds DEF ForgotLookup
  <2> QED BY <2>1, <2>2
<1>2. CASE ForgotSet(r)
  <2>1. HandsOut(r)
    BY <1>2 DEF ForgotSet, HandsOut, tokens, clients, audit, StoresUnchanged
  <2>2. HoldsOn(r)
    BY <1>2, ForgotSetMints, GotoHolds DEF ForgotSet
  <2> QED BY <2>1, <2>2
<1>3. CASE ForgotMail(r)
  <2>1. HandsOut(r)
    BY <1>3 DEF ForgotMail, MailFresh, HandsOut, tokens, clients, audit, StoresUnchanged
  <2>2. HoldsOn(r)
    BY <1>3, ReplyHolds DEF ForgotMail, MailFresh
  <2> QED BY <2>1, <2>2
<1> QED BY <1>1, <1>2, <1>3 DEF ForgotStep

LEMMA ResetHolds ==
  ASSUME ServiceOK, RequestsOK, NEW r \in Request, ResetStep(r)
  PROVE  HoldsOn(r) /\ HandsOut(r)
<1>0. LocalsOK(req[r]) /\ req[r] \in Request_
  BY DEF RequestsOK
<1>b. req[r].token # NoToken /\ req[r].token \in Token
  <2>1. req[r].pc \in ResetPc
    BY DEF ResetStep, ResetPc, At,
       ResetGet, ResetUser, ResetDelete, RevokeMembers, RevokeKeys, RevokeIndex, ResetCommit
  <2> QED BY <1>0, <2>1, NullAssumption DEF LocalsOK, Token, Link
<1> USE DEF At, Issued, Minting, Burned, Revoked
<1>1. CASE ResetGet(r)
  <2>1. HandsOut(r)
    BY <1>1 DEF ResetGet, HandsOut, tokens, clients, audit, StoresUnchanged
  <2>2. HoldsOn(r)
    BY <1>1, <1>b, ReplyHolds, FoundHolds DEF ResetGet
  <2> QED BY <2>1, <2>2
<1>2. CASE ResetUser(r)
  <2>1. HandsOut(r)
    BY <1>2 DEF ResetUser, HandsOut, tokens, clients, audit, StoresUnchanged
  <2>2. HoldsOn(r)
    BY <1>2, <1>b, ReplyHolds, GotoHolds DEF ResetUser
  <2> QED BY <2>1, <2>2
<1>3. CASE ResetDelete(r)
  <2>1. HandsOut(r)
    BY <1>3 DEF ResetDelete, HandsOut, tokens, clients, audit, StoresUnchanged
  <2>2. key'[req[r].token] = NoUser
    BY <1>3, <1>b DEF ResetDelete, ServiceOK
  <2> QED BY <1>3, <1>b, <2>1, <2>2, GotoHolds DEF ResetDelete
<1>4. CASE RevokeMembers(r)
  <2>1. HandsOut(r)
    BY <1>4 DEF RevokeMembers, HandsOut, tokens, clients, audit, StoresUnchanged
  <2>2. /\ req'[r].pc = (IF userTokens[req[r].user] = {} THEN "revoke.index"
                                                         ELSE "revoke.keys")
        /\ req'[r].token = req[r].token /\ req'[r].fresh = req[r].fresh
        /\ req'[r].seen = userTokens[req[r].user] /\ req[r].pc = "revoke.members"
    BY <1>0, <1>4 DEF RevokeMembers, RequestsOK, Request_
  <2>3. req[r].user \in UserId
    BY <1>0, <2>2 DEF LocalsOK, UserPc
  <2> QED BY <1>b, <2>1, <2>2, <2>3 DEF HoldsOn, MayReach
<1>5. CASE RevokeKeys(r)
  <2>1. HandsOut(r)
    BY <1>5 DEF RevokeKeys, HandsOut, tokens, clients, audit, StoresUnchanged
  <2>2. \A j \in req[r].seen : key'[j] = NoUser
    BY <1>0, <1>5 DEF RevokeKeys, Request_, Token
  <2> QED BY <1>5, <1>b, <2>1, <2>2, GotoHolds DEF RevokeKeys
<1>6. CASE RevokeIndex(r)
  <2>1. HandsOut(r)
    BY <1>6 DEF RevokeIndex, ServiceOK, HandsOut, tokens, clients, audit, StoresUnchanged
  <2>2. HoldsOn(r)
    BY <1>6, <1>b, GotoHolds DEF RevokeIndex
  <2> QED BY <2>1, <2>2
<1>7. CASE ResetCommit(r)
  <2>1. HandsOut(r)
    BY <1>7 DEF ResetCommit, HandsOut, tokens, clients, audit, StoresUnchanged
  <2>2. HoldsOn(r)
    BY <1>7, <1>b, ReplyHolds DEF ResetCommit
  <2> QED BY <2>1, <2>2
<1> QED BY <1>1, <1>2, <1>3, <1>4, <1>5, <1>6, <1>7 DEF ResetStep

LEMMA StepHolds ==
  ASSUME ServiceOK, RequestsOK, NEW r \in Request, Step(r)
  PROVE  HoldsOn(r) /\ HandsOut(r)
BY RegisterHolds, VerifyHolds, LoginHolds, IssueHolds, RefreshHolds, LogoutHolds, ForgotHolds,
   ResetHolds DEF Step

\* What HeldBy says of a request that stays as it is lasts.
LEMMA HeldLasts ==
  ASSUME ServiceOK, RequestsOK, Lasting, NEW r \in Request, HeldBy(req[r]), req'[r] = req[r]
  PROVE  HeldBy(req[r])'
<1>1. LocalsOK(req[r]) /\ req[r] \in Request_
  BY DEF RequestsOK
<1>2. \A j \in req[r].seen : j \in Token
  BY <1>1 DEF Request_, Token
<1>3. req[r].token # NoToken => req[r].token \in Token
  BY <1>1 DEF Request_
<1>4. req[r].pc \in Issued => req[r].fresh \in Token
  BY <1>1 DEF LocalsOK, Issued, RegisterPc, IssuePc, ForgotPc, Token, Link
<1>5. req[r].pc \in Burned => req[r].token \in Token
  BY <1>1 DEF LocalsOK, Burned, VerifyPc, ResetPc, Token, Link
<1> QED BY <1>2, <1>3, <1>4, <1>5 DEF HeldBy, Lasting, Minted, Dead

LEMMA StepHeld ==
  ASSUME ServiceOK, RequestsOK, HeldInv, Lasting, NEW r \in Request,
         MovesOn(r), HoldsOn(r), HandsOut(r)
  PROVE  HeldInv'
<1>0. LocalsOK(req[r]) /\ req[r] \in Request_ /\ HeldBy(req[r])
  BY DEF RequestsOK, HeldInv
<1>1. req[r].pc \in Issued => req[r].fresh \in Token /\ Minted(req[r].fresh)
  BY <1>0 DEF HeldBy, LocalsOK, Issued, RegisterPc, IssuePc, ForgotPc, Token, Link
<1>2. req[r].pc \in Burned => req[r].token \in Token /\ Dead(req[r].token)
  BY <1>0 DEF HeldBy, LocalsOK, Burned, VerifyPc, ResetPc, Token, Link
<1>3. \A t \in known' : subject'[t] # NoUser
  BY <1>1 DEF HeldInv, HandsOut, Lasting, Minted, ServiceOK
<1>4. \A u \in UserId : \A j \in userTokens'[u] : subject'[j] # NoUser
  BY <1>1 DEF HeldInv, HandsOut, Lasting, Minted, ServiceOK, Token
<1>5. \A t \in spent' : subject'[t] # NoUser /\ key'[t] = NoUser
  BY <1>2 DEF HeldInv, HandsOut, Lasting, Dead, ServiceOK, Token
<1>6. ASSUME NEW s \in Request
      PROVE  HeldBy(req[s])'
  <2>1. CASE s # r
    BY <2>1, HeldLasts DEF MovesOn, HeldInv
  <2>2. CASE s = r /\ req'[r] = Idle
    BY <2>2 DEF HeldBy, Idle, Issued, Burned, Revoked
  <2>3. CASE s = r /\ req'[r] # Idle
    <3>1. /\ req'[r].token = req[r].token /\ req'[r].fresh = req[r].fresh
          /\ \/ req'[r].seen = req[r].seen
             \/ req[r].user \in UserId /\ req'[r].seen = userTokens[req[r].user]
          /\ MayReach(r, req'[r].pc)
      BY <2>3 DEF HoldsOn
    <3>2. \A j \in req'[r].seen : j \in Token /\ Minted(j)
      BY <1>0, <3>1 DEF HeldBy, HeldInv, Request_, ServiceOK, Token
    <3>3. \A j \in req'[r].seen : subject'[j] # NoUser
      BY <3>2 DEF Lasting, Minted
    <3>4. req[r].token # NoToken => req[r].token \in Token /\ subject'[req[r].token] # NoUser
      BY <1>0 DEF HeldBy, Lasting, Minted, Request_
    <3>5. req'[r].pc \in Issued => subject'[req[r].fresh] # NoUser
      <4>1. CASE req[r].pc \in Issued
        BY <1>1, <4>1 DEF Lasting, Minted
      <4>2. CASE Mints(r)
        <5>1. req[r].fresh \in Token
          BY <4>2, FreshIsToken DEF Mints, Minting, Unissued
        <5> QED BY <4>2, <5>1, NullAssumption DEF Mints, ServiceOK
      <4> QED BY <3>1, <4>1, <4>2 DEF MayReach
    <3>6. req'[r].pc \in Burned =>
            req[r].token # NoToken /\ key'[req[r].token] = NoUser
      <4>1. CASE req[r].pc \in Burned
        BY <1>2, <3>1, <4>1 DEF Lasting, Dead, MayReach
      <4> QED BY <3>1, <4>1 DEF MayReach
    <3>7. req'[r].pc \in Revoked => \A j \in req'[r].seen : key'[j] = NoUser
      <4>1. CASE req[r].pc \in Revoked /\ req'[r].seen = req[r].seen
        BY <1>0, <3>2, <4>1 DEF HeldBy, Lasting, Dead
      <4> QED BY <3>1, <4>1 DEF MayReach
    <3> QED BY <2>3, <3>1, <3>3, <3>4, <3>5, <3>6, <3>7 DEF HeldBy, Minted, Dead
  <2> QED BY <2>1, <2>2, <2>3
<1> QED BY <1>3, <1>4, <1>5, <1>6 DEF HeldInv, Minted, Dead

LEMMA ArriveHeld ==
  ASSUME ServiceOK, RequestsOK, HeldInv, Lasting, NEW r \in Request, NEW q, Arrives(r, q)
  PROVE  HeldInv'
<1>1. /\ subject' = subject /\ key' = key /\ known' = known /\ userTokens' = userTokens
      /\ spent' = spent
  BY DEF Arrives, StoresUnchanged, tokens, lineage, clients, audit
<1>2. req'[r] = q /\ \A s \in Request \ {r} : req'[s] = req[s]
  BY DEF Arrives, RequestsOK
<1>3. ASSUME NEW s \in Request
      PROVE  HeldBy(req[s])'
  <2>1. CASE s # r
    BY <1>2, <2>1, HeldLasts DEF HeldInv
  <2>2. CASE s = r
    BY <1>1, <1>2, <2>2 DEF Arrives, HeldInv, HeldBy, Minted, Dead
  <2> QED BY <2>1, <2>2
<1> QED BY <1>1, <1>3 DEF HeldInv, Minted, Dead

LEMMA StillHeld ==
  ASSUME ServiceOK, RequestsOK, HeldInv, Lasting,
         UNCHANGED <<req, subject, known, userTokens, spent>>
  PROVE  HeldInv'
<1>1. \A s \in Request : HeldBy(req[s])'
  BY HeldLasts DEF HeldInv
<1>2. spent \subseteq Token
  BY DEF ServiceOK, Token
<1> QED BY <1>1, <1>2 DEF HeldInv, Lasting, Minted, Dead

LEMMA NextHeld ==
  ASSUME ServiceOK, RequestsOK, FreshInv, HeldInv, [Next]_vars
  PROVE  HeldInv'
<1>0. Lasting
  BY NextFresh
<1>1. ASSUME NEW r \in Request, Call(r)
      PROVE  HeldInv'
  BY <1>0, <1>1, CallArrives, ArriveHeld
<1>2. ASSUME NEW r \in Request, Step(r)
      PROVE  HeldInv'
  BY <1>0, <1>2, StepShape, StepHolds, StepHeld
<1>3. ASSUME NEW r \in Request, Fail(r)
      PROVE  HeldInv'
  <2>1. MovesOn(r) /\ HoldsOn(r)
    BY <1>3, ReplyMoves, ReplyHolds DEF Fail
  <2>2. HandsOut(r)
    BY <1>3 DEF Fail, HandsOut, tokens, clients, audit
  <2> QED BY <1>0, <2>1, <2>2, StepHeld
<1>4. CASE Environment
  <2>1. UNCHANGED <<req, subject, known, userTokens, spent>>
    BY <1>4 DEF Environment, ExpireKey, ExpireJwt, LapseLock, ExpireLock, ExpireAttempts,
         Disable, SoftDelete, OperatorUpdate, Event, tokens
  <2> QED BY <1>0, <2>1, StillHeld
<1>5. CASE UNCHANGED service
  BY <1>0, <1>5, StillHeld DEF service
<1> QED BY <1>1, <1>2, <1>3, <1>4, <1>5, NextIs

LEMMA InitHeld == Init => HeldInv
  BY DEF Init, HeldInv, HeldBy, Idle, Issued, Burned, Revoked

\* The inductive invariant, and its proof.
TokenInv == ServiceOK /\ RequestsOK /\ FreshInv /\ HeldInv

LEMMA TokenInvariant == Spec => []TokenInv
<1>1. Init => TokenInv
  BY InitOK, InitFresh, InitHeld DEF TokenInv
<1>2. TokenInv /\ [Next]_vars => TokenInv'
  BY NextFresh, NextHeld, CallOK, StepOK, FailOK, EnvironmentOK, StutterOK, NextIs DEF TokenInv
<1> QED BY <1>1, <1>2, PTL DEF Spec

\* Once verify_email or reset_password has committed the effect of a link, its
\* Redis key is gone and stays gone, whatever else is in flight: each DELs the
\* key before get_db commits, and no handler SETs a key a second time.
THEOREM LinkUsedOnce == Spec => []UsedLinkDead
<1>1. TokenInv => UsedLinkDead
  BY DEF TokenInv, HeldInv, Dead, UsedLinkDead
<1> QED BY <1>1, TokenInvariant, PTL

\* While _revoke_all_refresh_tokens drops the index and get_db commits the new
\* password, every session SMEMBERS had named is dead, for any number of
\* concurrent logins, refreshes and resets.
THEOREM RevocationHolds == Spec => []RevokedStayDead
<1>1. TokenInv => RevokedStayDead
  BY DEF TokenInv, HeldInv, HeldBy, Dead, RevokedStayDead, Revoked
<1> QED BY <1>1, TokenInvariant, PTL
=============================================================================
