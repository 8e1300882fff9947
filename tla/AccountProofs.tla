---------------------------- MODULE AccountProofs ----------------------------
(***************************************************************************)
(* What TLAPS proves of the accounts of AuthService: who may have an       *)
(* address, when a link may be mailed, and what it takes to be verified.   *)
(***************************************************************************)
EXTENDS AuthProofs

-----------------------------------------------------------------------------
(* The inductive invariant.                                                  *)

\* A registration has drawn the id of its account, and has inserted the row.
Drawn == {"register.lookup", "register.insert"}
Inserted == {"register.token", "register.commit"}
Enrolling == Drawn \cup Inserted
\* Labels after verify_email has read whose link it has; those at which login
\* or refresh has found that its user may have a session.
Verifying == {"verify.user", "verify.delete", "verify.commit"}
Entitled == IssuePc \cup {"login.clear", "refresh.delete", "refresh.srem"}

\* Rows that have been committed; rows whose address nobody else may have.
Committed(u) == users[u].status \in {"active", "disabled", "deleted"}
Claims(u) == users[u].status \in {"pending", "active", "disabled"}

\* What the locals of a request say about accounts.
AccountBy(q) ==
  /\ q.token # NoToken => q.token \in known
  /\ q.pc \in Issued => subject[q.fresh] = q.user
  /\ q.pc \in Verifying => subject[q.token] = q.user
  /\ q.pc \in RegisterPc => Lower[q.email] = q.email
  /\ q.pc \in Drawn => users[q.user].status = "unborn"
  /\ q.pc \in Inserted => users[q.user].status = "pending"
  /\ q.user # NoUser /\ q.pc \notin Enrolling => Committed(q.user)
  /\ q.pc \in Entitled => users[q.user].verified

\* A registration shares its account with no other request.
OneOwner ==
  \A r \in Request : req[r].pc \in Enrolling =>
    \A s \in Request \ {r} : req[s].user # req[r].user

\* The tokens of an account that nobody has committed are in no hands.
TokensOfCommitted ==
  /\ \A t \in Token : key[t] \in {subject[t], NoUser}
  /\ \A t \in known : Committed(subject[t])

\* The unique index, extended to rows whose transaction is open.
OneClaim ==
  /\ \A u \in UserId : Claims(u) =>
       users[u].email \in Address /\ Lower[users[u].email] = users[u].email
  /\ \A u, v \in UserId :
       Claims(u) /\ Claims(v) /\ users[u].email = users[v].email => u = v

VerifiedByLink ==
  /\ \A u \in UserId : users[u].status = "unborn" => ~users[u].verified
  /\ VerifiedThroughMail

AccountsBy == \A r \in Request : AccountBy(req[r])

AccountInv ==
  /\ AccountsBy /\ OneOwner /\ PendingHasOwner /\ TokensOfCommitted
  /\ OneClaim /\ VerifiedByLink /\ OnlyVerifiedHoldSessions

-----------------------------------------------------------------------------
(* What a step may do to accounts.                                           *)

\* What is minted stays bound to its holder.
Bound == \A t \in Token : Minted(t) => subject'[t] = subject[t]

\* A row stays as it is, or at least committed and verified.
RowLasts(u) ==
  \/ users'[u] = users[u]
  \/ Committed(u) /\ Committed(u)' /\ (users[u].verified => users'[u].verified)

\* When a request may go on to a label, with the user it has ...
MayCarry(r, l) ==
  /\ l \in Issued => req[r].pc \in Issued \/ Mints(r)
  /\ l \in Verifying => req[r].pc \in Verifying
  /\ l \in RegisterPc => req[r].pc \in RegisterPc
  /\ l \in Drawn => req[r].pc \in Drawn
  /\ l \in Inserted <=> req[r].pc \in Inserted
  /\ l \in Entitled => req[r].pc \in Entitled
  /\ req[r].pc \in Enrolling => l \in Enrolling

\* ... or with one it has just found.
MayFind(r, u, l) ==
  /\ req[r].pc \notin Enrolling /\ l \notin RegisterPc \cup Issued
  /\ l \in Verifying => u # NoUser /\ u = key[req[r].token] /\ req[r].token \in Token
  /\ l \in Entitled => u \in UserId /\ users[u].verified
  /\ u # NoUser => Committed(u)

\* What a step of a request that changes no row does to links: it may send its
\* own, after its commit.
GivesOut(r) ==
  /\ spent \subseteq spent' /\ known \subseteq known'
  /\ \A t \in known' :
       t \in known \/ (t = req[r].fresh /\ req[r].pc \in Issued \ Inserted)

\* A step of a request that changes no row.
Advances(r) ==
  /\ users' = users /\ GivesOut(r)
  /\ \A s \in Request \ {r} : req'[s] = req[s]
  /\ \/ req'[r] = Idle /\ req[r].pc \notin Inserted
     \/ /\ req'[r].token = req[r].token /\ req'[r].fresh = req[r].fresh
        /\ req'[r].email = req[r].email
        /\ \/ req'[r].user = req[r].user /\ MayCarry(r, req'[r].pc)
           \/ MayFind(r, req'[r].user, req'[r].pc)

LEMMA ReplyAdvances ==
  ASSUME RequestsOK, NEW r \in Request, Reply(r), req[r].pc \notin Inserted,
         users' = users, GivesOut(r)
  PROVE  Advances(r)
  BY DEF Reply, Advances, RequestsOK

LEMMA GotoAdvances ==
  ASSUME RequestsOK, NEW r \in Request, NEW l, Goto(r, l), MayCarry(r, l),
         users' = users, GivesOut(r)
  PROVE  Advances(r)
<1>1. req[r] \in Request_
  BY DEF RequestsOK
<1>2. /\ req'[r].pc = l /\ req'[r].token = req[r].token /\ req'[r].fresh = req[r].fresh
      /\ req'[r].email = req[r].email /\ req'[r].user = req[r].user
      /\ \A s \in Request \ {r} : req'[s] = req[s]
  BY <1>1 DEF Goto, RequestsOK, Request_
<1> QED BY <1>2 DEF Advances

LEMMA FoundAdvances ==
  ASSUME RequestsOK, NEW r \in Request, NEW u, NEW l, Found(r, u, l), MayFind(r, u, l),
         users' = users, GivesOut(r)
  PROVE  Advances(r)
<1>1. req[r] \in Request_
  BY DEF RequestsOK
<1>2. /\ req'[r].pc = l /\ req'[r].token = req[r].token /\ req'[r].fresh = req[r].fresh
      /\ req'[r].email = req[r].email /\ req'[r].user = u
      /\ \A s \in Request \ {r} : req'[s] = req[s]
  BY <1>1 DEF Found, RequestsOK, Request_
<1> QED BY <1>2 DEF Advances

\* The steps that change a row.
Writes(r) ==
  \/ RegisterInsert(r) /\ Goto(r, "register.token")
  \/ RegisterCommit(r) \/ VerifyCommit(r) \/ ResetCommit(r)

LEMMA KeyHolder ==
  ASSUME ServiceOK, RequestsOK, AccountInv, NEW r \in Request, req[r].token \in Token
  PROVE  /\ Committed(subject[req[r].token])
         /\ key[req[r].token] # NoUser => Committed(key[req[r].token])
<1>1. req[r].token \in known
  BY NullAssumption DEF AccountInv, AccountsBy, AccountBy
<1> QED BY <1>1 DEF AccountInv, TokensOfCommitted

LEMMA RegisterAdvances ==
  ASSUME ServiceOK, RequestsOK, AccountInv, NEW r \in Request, RegisterStep(r)
  PROVE  Advances(r) \/ Writes(r)
<1>1. CASE RegisterLookup(r)
  <2>1. UNCHANGED <<users, known, spent>> /\ req[r].pc = "register.lookup"
    BY <1>1 DEF RegisterLookup, StoresUnchanged, database, clients, audit, At
  <2>2. req[r].pc \notin Inserted /\ MayCarry(r, "register.insert")
    BY <2>1 DEF MayCarry, Inserted, Drawn, Enrolling, Verifying, Entitled, Issued, RegisterPc,
                IssuePc
  <2> QED BY <1>1, <2>1, <2>2, ReplyAdvances, GotoAdvances DEF RegisterLookup, GivesOut
<1>2. CASE RegisterInsert(r)
  <2>1. UNCHANGED <<known, spent>> /\ req[r].pc = "register.insert"
    BY <1>2 DEF RegisterInsert, clients, At
  <2>2. CASE Reply(r) /\ UNCHANGED users
    BY <2>1, <2>2, ReplyAdvances DEF Inserted, GivesOut
  <2> QED BY <1>2, <2>2 DEF RegisterInsert, database, Writes
<1>3. CASE RegisterToken(r)
  <2>1. UNCHANGED <<users, known, spent>> /\ req[r].pc = "register.token"
    BY <1>3 DEF RegisterToken, database, clients, audit, At
  <2>2. MayCarry(r, "register.commit")
    BY <1>3, <2>1, RegisterTokenMints
       DEF MayCarry, Inserted, Drawn, Enrolling, Verifying, Entitled, Issued, RegisterPc, IssuePc
  <2> QED BY <1>3, <2>1, <2>2, GotoAdvances DEF RegisterToken, GivesOut
<1>4. CASE RegisterCommit(r)
  BY <1>4 DEF Writes
<1>5. CASE RegisterMail(r)
  <2>1. /\ UNCHANGED <<users, spent>> /\ GivesOut(r) /\ req[r].pc \notin Inserted /\ Reply(r)
    BY <1>5 DEF RegisterMail, MailFresh, database, audit, At, Inserted, GivesOut, Issued
  <2> QED BY <2>1, ReplyAdvances
<1> QED BY <1>1, <1>2, <1>3, <1>4, <1>5 DEF RegisterStep

LEMMA VerifyAdvances ==
  ASSUME ServiceOK, RequestsOK, AccountInv, NEW r \in Request, VerifyStep(r)
  PROVE  Advances(r) \/ Writes(r)
<1>0. LocalsOK(req[r])
  BY DEF RequestsOK
<1> USE DEF StoresUnchanged, database, clients, audit, At, Inserted, Drawn, Enrolling,
            Verifying, Entitled, Issued, RegisterPc, IssuePc, GivesOut
<1>1. CASE VerifyGet(r)
  <2>1. UNCHANGED <<users, known, spent>> /\ req[r].pc = "verify.get"
    BY <1>1 DEF VerifyGet
  <2>2. CASE key[req[r].token] = NoUser
    BY <1>1, <2>1, <2>2, ReplyAdvances DEF VerifyGet
  <2>3. CASE key[req[r].token] # NoUser
    <3>1. req[r].token \in Token
      BY <1>0, <2>1 DEF LocalsOK, VerifyPc, Token, Link
    <3>2. MayFind(r, key[req[r].token], "verify.user")
      BY <2>1, <2>3, <3>1, KeyHolder DEF MayFind
    <3> QED BY <1>1, <2>1, <2>3, <3>2, FoundAdvances DEF VerifyGet
  <2> QED BY <2>2, <2>3
<1>2. CASE VerifyUser(r)
  <2>1. UNCHANGED <<users, known, spent>> /\ req[r].pc = "verify.user"
    BY <1>2 DEF VerifyUser
  <2>2. MayCarry(r, "verify.delete")
    BY <2>1 DEF MayCarry
  <2> QED BY <1>2, <2>1, <2>2, ReplyAdvances, GotoAdvances DEF VerifyUser
<1>3. CASE VerifyDelete(r)
  <2>1. UNCHANGED <<users, known, spent>> /\ req[r].pc = "verify.delete"
    BY <1>3 DEF VerifyDelete
  <2>2. MayCarry(r, "verify.commit")
    BY <2>1 DEF MayCarry
  <2> QED BY <1>3, <2>1, <2>2, GotoAdvances DEF VerifyDelete
<1>4. CASE VerifyCommit(r)
  BY <1>4 DEF Writes
<1> QED BY <1>1, <1>2, <1>3, <1>4 DEF VerifyStep

LEMMA LoginAdvances ==
  ASSUME ServiceOK, RequestsOK, AccountInv, NEW r \in Request, LoginStep(r)
  PROVE  Advances(r)
<1>0. req[r] \in Request_
  BY DEF RequestsOK
<1> USE DEF StoresUnchanged, database, clients, audit, At, Inserted, Drawn, Enrolling,
            Verifying, Entitled, Issued, RegisterPc, IssuePc, GivesOut
<1>1. CASE LoginLock(r)
  <2>1. UNCHANGED <<users, known, spent>> /\ req[r].pc = "login.lock"
    BY <1>1 DEF LoginLock
  <2>2. MayCarry(r, "login.user")
    BY <2>1 DEF MayCarry
  <2> QED BY <1>1, <2>1, <2>2, ReplyAdvances, GotoAdvances DEF LoginLock
<1>2. CASE LoginUser(r)
  <2>1. UNCHANGED <<users, known, spent>> /\ req[r].pc = "login.user"
    BY <1>2 DEF LoginUser
  <2>2. MayCarry(r, "fail.incr")
    BY <2>1 DEF MayCarry
  <2>3. ASSUME NEW u \in GetByEmail(req[r].email), MayEnter(u), Found(r, u, "login.clear")
        PROVE  Advances(r)
    <3>1. MayFind(r, u, "login.clear")
      BY <2>1, <2>3 DEF MayFind, MayEnter, GetByEmail, Active, Committed
    <3> QED BY <2>1, <2>3, <3>1, FoundAdvances
  <2>4. CASE Goto(r, "fail.incr") \/ Reply(r)
    BY <2>1, <2>2, <2>4, ReplyAdvances, GotoAdvances
  <2> QED BY <1>2, <2>3, <2>4 DEF LoginUser
<1>3. CASE LoginClear(r)
  <2>1. UNCHANGED <<users, known, spent>> /\ req[r].pc = "login.clear"
    BY <1>3 DEF LoginClear
  <2>2. MayCarry(r, "issue.set")
    BY <2>1 DEF MayCarry
  <2> QED BY <1>3, <2>1, <2>2, GotoAdvances DEF LoginClear
<1>4. CASE FailIncr(r)
  <2>1. UNCHANGED <<users, known, spent>> /\ req[r].pc = "fail.incr"
    BY <1>4 DEF FailIncr
  <2>2. /\ req'[r].pc = "fail.expire" /\ req'[r].token = req[r].token
        /\ req'[r].fresh = req[r].fresh /\ req'[r].email = req[r].email
        /\ req'[r].user = req[r].user /\ \A s \in Request \ {r} : req'[s] = req[s]
    BY <1>0, <1>4 DEF FailIncr, RequestsOK, Request_
  <2>3. MayCarry(r, "fail.expire")
    BY <2>1 DEF MayCarry
  <2> QED BY <2>1, <2>2, <2>3 DEF Advances
<1>5. CASE FailExpire(r)
  <2>1. UNCHANGED <<users, known, spent>> /\ req[r].pc = "fail.expire"
    BY <1>5 DEF FailExpire
  <2>2. MayCarry(r, "fail.lock")
    BY <2>1 DEF MayCarry
  <2> QED BY <1>5, <2>1, <2>2, ReplyAdvances, GotoAdvances DEF FailExpire
<1>6. CASE FailLock(r)
  <2>1. UNCHANGED <<users, known, spent>> /\ req[r].pc = "fail.lock"
    BY <1>6 DEF FailLock
  <2>2. MayCarry(r, "fail.reset")
    BY <2>1 DEF MayCarry
  <2> QED BY <1>6, <2>1, <2>2, GotoAdvances DEF FailLock
<1>7. CASE FailReset(r)
  <2>1. UNCHANGED <<users, known, spent>> /\ req[r].pc = "fail.reset"
    BY <1>7 DEF FailReset
  <2> QED BY <1>7, <2>1, ReplyAdvances DEF FailReset
<1> QED BY <1>1, <1>2, <1>3, <1>4, <1>5, <1>6, <1>7 DEF LoginStep

LEMMA SessionAdvances ==
  ASSUME ServiceOK, RequestsOK, AccountInv, NEW r \in Request,
         IssueStep(r) \/ RefreshStep(r) \/ LogoutStep(r)
  PROVE  Advances(r)
<1>0. LocalsOK(req[r])
  BY DEF RequestsOK
<1> USE DEF StoresUnchanged, database, clients, audit, At, Inserted, Drawn, Enrolling,
            Verifying, Entitled, Issued, RegisterPc, IssuePc, GivesOut
<1>1. CASE IssueSet(r)
  <2>1. UNCHANGED <<users, known, spent>> /\ req[r].pc = "issue.set"
    BY <1>1 DEF IssueSet
  <2>2. MayCarry(r, "issue.index")
    BY <1>1, <2>1, IssueSetMints DEF MayCarry
  <2> QED BY <1>1, <2>1, <2>2, GotoAdvances DEF IssueSet
<1>2. CASE IssueIndex(r)
  <2>1. UNCHANGED <<users, known, spent>> /\ req[r].pc = "issue.index"
    BY <1>2 DEF IssueIndex
  <2>2. MayCarry(r, "issue.respond")
    BY <2>1 DEF MayCarry
  <2> QED BY <1>2, <2>1, <2>2, GotoAdvances DEF IssueIndex
<1>3. CASE IssueRespond(r)
  <2>1. /\ UNCHANGED <<users, spent>> /\ GivesOut(r) /\ Reply(r)
        /\ req[r].pc = "issue.respond"
    BY <1>3 DEF IssueRespond, NewJti
  <2> QED BY <2>1, ReplyAdvances
<1>4. CASE RefreshGet(r)
  <2>1. UNCHANGED <<users, known, spent>> /\ req[r].pc = "refresh.get"
    BY <1>4 DEF RefreshGet
  <2> DEFINE j == req[r].token
  <2>2. j \in Jti /\ j \in Token
    BY <1>0, <2>1 DEF LocalsOK, RefreshPc, Token
  <2>3. CASE subject[j] # NoUser /\ Found(r, subject[j], "refresh.delete")
    <3>1. MayFind(r, subject[j], "refresh.delete")
      BY <2>1, <2>2, <2>3, KeyHolder DEF MayFind, AccountInv, OnlyVerifiedHoldSessions, ServiceOK
    <3> QED BY <2>1, <2>3, <3>1, FoundAdvances
  <2>4. CASE Reply(r)
    BY <2>1, <2>4, ReplyAdvances
  <2> QED BY <1>4, <2>3, <2>4 DEF RefreshGet
<1>5. CASE RefreshDelete(r)
  <2>1. UNCHANGED <<users, known, spent>> /\ req[r].pc = "refresh.delete"
    BY <1>5 DEF RefreshDelete
  <2>2. MayCarry(r, "refresh.srem")
    BY <2>1 DEF MayCarry
  <2> QED BY <1>5, <2>1, <2>2, GotoAdvances DEF RefreshDelete
<1>6. CASE RefreshSrem(r)
  <2>1. UNCHANGED <<users, known, spent>> /\ req[r].pc = "refresh.srem"
    BY <1>6 DEF RefreshSrem
  <2>2. MayCarry(r, "issue.set")
    BY <2>1 DEF MayCarry
  <2> QED BY <1>6, <2>1, <2>2, GotoAdvances DEF RefreshSrem
<1>7. CASE LogoutDelete(r)
  <2>1. UNCHANGED <<users, known, spent>> /\ req[r].pc = "logout.delete"
    BY <1>7 DEF LogoutDelete
  <2>2. req[r].token \in Token
    BY <1>0, <2>1 DEF LocalsOK, LogoutPc, Token
  <2>3. MayFind(r, subject[req[r].token], "logout.srem")
    BY <2>1, <2>2, KeyHolder DEF MayFind
  <2> QED BY <1>7, <2>1, <2>3, ReplyAdvances, FoundAdvances DEF LogoutDelete
<1>8. CASE LogoutSrem(r)
  <2>1. UNCHANGED <<users, known, spent>> /\ req[r].pc = "logout.srem"
    BY <1>8 DEF LogoutSrem
  <2> QED BY <1>8, <2>1, ReplyAdvances DEF LogoutSrem
<1> QED BY <1>1, <1>2, <1>3, <1>4, <1>5, <1>6, <1>7, <1>8 DEF IssueStep, RefreshStep, LogoutStep

LEMMA ResetAdvances ==
  ASSUME ServiceOK, RequestsOK, AccountInv, NEW r \in Request, ForgotStep(r) \/ ResetStep(r)
  PROVE  Advances(r) \/ Writes(r)
<1>0. LocalsOK(req[r]) /\ req[r] \in Request_
  BY DEF RequestsOK
<1> USE DEF StoresUnchanged, database, clients, audit, At, Inserted, Drawn, Enrolling,
            Verifying, Entitled, Issued, RegisterPc, IssuePc, GivesOut
<1>1. CASE ForgotLookup(r)
  <2>1. UNCHANGED <<users, known, spent>> /\ req[r].pc = "forgot.lookup"
    BY <1>1 DEF ForgotLookup
  <2>2. ASSUME NEW u \in GetByEmail(req[r].email), Found(r, u, "forgot.set")
        PROVE  Advances(r)
    <3>1. MayFind(r, u, "forgot.set")
      BY <2>1, <2>2 DEF MayFind, GetByEmail, Active, Committed
    <3> QED BY <2>1, <2>2, <3>1, FoundAdvances
  <2> QED BY <1>1, <2>1, <2>2, ReplyAdvances DEF ForgotLookup
<1>2. CASE ForgotSet(r)
  <2>1. UNCHANGED <<users, known, spent>> /\ req[r].pc = "forgot.set"
    BY <1>2 DEF ForgotSet
  <2>2. MayCarry(r, "forgot.mail")
    BY <1>2, <2>1, ForgotSetMints DEF MayCarry
  <2> QED BY <1>2, <2>1, <2>2, GotoAdvances DEF ForgotSet
<1>3. CASE ForgotMail(r)
  <2>1. /\ UNCHANGED <<users, spent>> /\ GivesOut(r) /\ Reply(r)
        /\ req[r].pc = "forgot.mail"
    BY <1>3 DEF ForgotMail, MailFresh
  <2> QED BY <2>1, ReplyAdvances
<1>4. CASE ResetGet(r)
  <2>1. UNCHANGED <<users, known, spent>> /\ req[r].pc = "reset.get"
    BY <1>4 DEF ResetGet
  <2>2. CASE key[req[r].token] = NoUser
    BY <1>4, <2>1, <2>2, ReplyAdvances DEF ResetGet
  <2>3. CASE key[req[r].token] # NoUser
    <3>1. req[r].token \in Token
      BY <1>0, <2>1 DEF LocalsOK, ResetPc, Token, Link
    <3>2. MayFind(r, key[req[r].token], "reset.user")
      BY <2>1, <2>3, <3>1, KeyHolder DEF MayFind
    <3> QED BY <1>4, <2>1, <2>3, <3>2, FoundAdvances DEF ResetGet
  <2> QED BY <2>2, <2>3
<1>5. CASE ResetUser(r)
  <2>1. UNCHANGED <<users, known, spent>> /\ req[r].pc = "reset.user"
    BY <1>5 DEF ResetUser
  <2>2. MayCarry(r, "reset.delete")
    BY <2>1 DEF MayCarry
  <2> QED BY <1>5, <2>1, <2>2, ReplyAdvances, GotoAdvances DEF ResetUser
<1>6. CASE ResetDelete(r)
  <2>1. UNCHANGED <<users, known, spent>> /\ req[r].pc = "reset.delete"
    BY <1>6 DEF ResetDelete
  <2>2. MayCarry(r, "revoke.members")
    BY <2>1 DEF MayCarry
  <2> QED BY <1>6, <2>1, <2>2, GotoAdvances DEF ResetDelete
<1>7. CASE RevokeMembers(r)
  <2>1. UNCHANGED <<users, known, spent>> /\ req[r].pc = "revoke.members"
    BY <1>7 DEF RevokeMembers
  <2>2. /\ req'[r].pc \in {"revoke.index", "revoke.keys"} /\ req'[r].token = req[r].token
        /\ req'[r].fresh = req[r].fresh /\ req'[r].email = req[r].email
        /\ req'[r].user = req[r].user /\ \A s \in Request \ {r} : req'[s] = req[s]
    BY <1>0, <1>7 DEF RevokeMembers, RequestsOK, Request_
  <2>3. MayCarry(r, "revoke.index") /\ MayCarry(r, "revoke.keys")
    BY <2>1 DEF MayCarry
  <2> QED BY <2>1, <2>2, <2>3 DEF Advances
<1>8. CASE RevokeKeys(r)
  <2>1. UNCHANGED <<users, known, spent>> /\ req[r].pc = "revoke.keys"
    BY <1>8 DEF RevokeKeys
  <2>2. MayCarry(r, "revoke.index")
    BY <2>1 DEF MayCarry
  <2> QED BY <1>8, <2>1, <2>2, GotoAdvances DEF RevokeKeys
<1>9. CASE RevokeIndex(r)
  <2>1. UNCHANGED <<users, known, spent>> /\ req[r].pc = "revoke.index"
    BY <1>9 DEF RevokeIndex
  <2>2. MayCarry(r, "reset.commit")
    BY <2>1 DEF MayCarry
  <2> QED BY <1>9, <2>1, <2>2, GotoAdvances DEF RevokeIndex
<1>10. CASE ResetCommit(r)
  BY <1>10 DEF Writes
<1> QED BY <1>1, <1>2, <1>3, <1>4, <1>5, <1>6, <1>7, <1>8, <1>9, <1>10 DEF ForgotStep, ResetStep

LEMMA StepAdvances ==
  ASSUME ServiceOK, RequestsOK, AccountInv, NEW r \in Request, Step(r)
  PROVE  Advances(r) \/ Writes(r)
  BY RegisterAdvances, VerifyAdvances, LoginAdvances, SessionAdvances, ResetAdvances DEF Step

LEMMA AdvanceBinds ==
  ASSUME ServiceOK, RequestsOK, FreshInv, NEW r \in Request, Keeps \/ Mints(r)
  PROVE  Bound
<1>1. CASE Keeps
  BY <1>1 DEF Keeps, Bound
<1>2. CASE Mints(r)
  <2>1. subject[req[r].fresh] = NoUser
    BY <1>2 DEF Mints, FreshInv, Minting, Unissued
  <2> QED BY <1>2, <2>1 DEF Mints, Bound, Minted, ServiceOK
<1> QED BY <1>1, <1>2

\* What AccountBy says of a request that stays as it is lasts.
LEMMA AccountLasts ==
  ASSUME ServiceOK, RequestsOK, HeldInv, AccountsBy, Bound, known \subseteq known',
         NEW s \in Request, req'[s] = req[s],
         req[s].user \in UserId => RowLasts(req[s].user)
  PROVE  AccountBy(req[s])'
<1>0. LocalsOK(req[s]) /\ req[s] \in Request_ /\ HeldBy(req[s]) /\ AccountBy(req[s])
  BY DEF RequestsOK, HeldInv, AccountsBy
<1>1. req[s].pc \in Issued => subject'[req[s].fresh] = subject[req[s].fresh]
  BY <1>0 DEF LocalsOK, HeldBy, Issued, RegisterPc, IssuePc, ForgotPc, Token, Link, Bound
<1>2. req[s].pc \in Verifying => subject'[req[s].token] = subject[req[s].token]
  <2>1. req[s].pc \in Verifying => req[s].token \in Token
    BY <1>0 DEF LocalsOK, Verifying, VerifyPc, Token, Link
  <2> QED BY <1>0, <2>1, NullAssumption DEF HeldBy, Bound
<1>3. req[s].user # NoUser => req[s].user \in UserId
  BY <1>0 DEF Request_
<1>4. req[s].pc \in Enrolling \cup Entitled => req[s].user \in UserId
  BY <1>0 DEF LocalsOK, Enrolling, Drawn, Inserted, Entitled, UserPc, RegisterPc, IssuePc
<1>5. req[s].pc \in Drawn \cup Inserted => req[s].pc \in Enrolling
  BY DEF Enrolling
<1> QED BY <1>0, <1>1, <1>2, <1>3, <1>4, <1>5 DEF AccountBy, RowLasts, Committed

LEMMA AdvanceAccounts ==
  ASSUME TokenInv, AccountInv, NEW r \in Request, Advances(r), Keeps \/ Mints(r)
  PROVE  AccountInv'
<1>0. ServiceOK /\ RequestsOK /\ FreshInv /\ HeldInv /\ AccountsBy
  BY DEF TokenInv, AccountInv
<1>a. LocalsOK(req[r]) /\ req[r] \in Request_ /\ HeldBy(req[r]) /\ AccountBy(req[r])
  BY <1>0 DEF RequestsOK, HeldInv, AccountsBy
<1>b. Bound
  BY <1>0, AdvanceBinds
<1>c. /\ users' = users /\ known \subseteq known' /\ spent \subseteq spent'
      /\ \A s \in Request \ {r} : req'[s] = req[s]
  BY DEF Advances, GivesOut
<1>d. req[r].pc \in Enrolling \cup Entitled => req[r].user \in UserId
  BY <1>a DEF LocalsOK, Enrolling, Drawn, Inserted, Entitled, UserPc, RegisterPc, IssuePc
<1>e. Mints(r) => /\ req[r].fresh \in Token /\ subject'[req[r].fresh] = req[r].user
                  /\ key'[req[r].fresh] = req[r].user
  BY <1>0, FreshIsToken DEF Mints, Minting, Unissued, ServiceOK
<1>1. AccountBy(req[r])'
  <2>1. CASE req'[r] = Idle
    BY <2>1 DEF AccountBy, Idle, Issued, Verifying, RegisterPc, Drawn, Inserted, Enrolling,
                Entitled, IssuePc
  <2>2. CASE /\ req'[r].token = req[r].token /\ req'[r].fresh = req[r].fresh
             /\ req'[r].email = req[r].email /\ req'[r].user = req[r].user
             /\ MayCarry(r, req'[r].pc)
    <3>1. req'[r].pc \in Issued => subject'[req[r].fresh] = req[r].user
      <4>1. CASE req[r].pc \in Issued
        <5>1. req[r].fresh \in Token
          BY <1>a, <4>1 DEF LocalsOK, Issued, RegisterPc, IssuePc, ForgotPc, Token, Link
        <5> QED BY <1>a, <1>b, <4>1, <5>1 DEF HeldBy, AccountBy, Bound
      <4> QED BY <1>e, <2>2, <4>1 DEF MayCarry
    <3>2. req'[r].pc \in Verifying => subject'[req[r].token] = req[r].user
      <4> SUFFICES ASSUME req'[r].pc \in Verifying
                   PROVE  subject'[req[r].token] = req[r].user
        OBVIOUS
      <4>1. req[r].pc \in Verifying
        BY <2>2 DEF MayCarry
      <4>2. req[r].token \in Token
        BY <1>a, <4>1 DEF LocalsOK, Verifying, VerifyPc, Token, Link
      <4> QED BY <1>a, <1>b, <4>1, <4>2, NullAssumption DEF HeldBy, AccountBy, Bound
    <3>3. req[r].user # NoUser /\ req'[r].pc \notin Enrolling => Committed(req[r].user)
      BY <1>a, <2>2 DEF MayCarry, AccountBy
    <3> QED BY <1>a, <1>c, <2>2, <3>1, <3>2, <3>3 DEF AccountBy, MayCarry, Committed
  <2>3. CASE /\ req'[r].token = req[r].token /\ req'[r].fresh = req[r].fresh
             /\ req'[r].email = req[r].email /\ MayFind(r, req'[r].user, req'[r].pc)
    <3>1. req'[r].pc \in Verifying => subject'[req[r].token] = req'[r].user
      <4> SUFFICES ASSUME req'[r].pc \in Verifying
                   PROVE  subject'[req[r].token] = req'[r].user
        OBVIOUS
      <4>1. /\ req[r].token \in Token /\ req'[r].user = key[req[r].token]
            /\ req'[r].user # NoUser
        BY <2>3 DEF MayFind
      <4>2. subject[req[r].token] = req'[r].user
        BY <4>1 DEF AccountInv, TokensOfCommitted
      <4> QED BY <1>b, <4>1, <4>2 DEF Bound, Minted
    <3>2. req'[r].pc \notin RegisterPc \cup Issued \cup Drawn \cup Inserted
      BY <2>3 DEF MayFind, RegisterPc, Drawn, Inserted
    <3> QED BY <1>a, <1>c, <2>3, <3>1, <3>2 DEF AccountBy, MayFind, Committed
  <2> QED BY <2>1, <2>2, <2>3 DEF Advances
<1>2. AccountsBy'
  <2>1. ASSUME NEW s \in Request, s # r
        PROVE  AccountBy(req[s])'
    BY <1>0, <1>b, <1>c, <2>1, AccountLasts DEF RowLasts
  <2> QED BY <1>1, <2>1 DEF AccountsBy
<1>3. OneOwner'
  <2> SUFFICES ASSUME NEW s \in Request, req'[s].pc \in Enrolling, NEW x \in Request \ {s}
               PROVE  req'[x].user # req'[s].user
    BY DEF OneOwner
  <2>1. req[s].pc \in Enrolling /\ req'[s].user = req[s].user
    BY <1>c DEF Advances, MayCarry, MayFind, Idle, Enrolling, Drawn, Inserted, RegisterPc
  <2>2. req[x].user # req[s].user
    BY <2>1 DEF AccountInv, OneOwner
  <2>3. req[s].user \in UserId /\ ~Committed(req[s].user)
    BY <1>0, <2>1 DEF RequestsOK, LocalsOK, Enrolling, Drawn, Inserted, UserPc, RegisterPc,
                      AccountsBy, AccountBy, Committed
  <2>4. CASE x = r
    <3>1. CASE req'[r] = Idle
      BY <2>1, <2>3, <2>4, <3>1, NullAssumption DEF Idle
    <3>2. CASE req'[r].user = req[r].user
      BY <2>1, <2>2, <2>4, <3>2
    <3>3. CASE MayFind(r, req'[r].user, req'[r].pc)
      BY <2>1, <2>3, <2>4, <3>3, NullAssumption DEF MayFind
    <3> QED BY <3>1, <3>2, <3>3 DEF Advances
  <2>5. CASE x # r
    BY <1>c, <2>1, <2>2, <2>5
  <2> QED BY <2>4, <2>5
<1>4. PendingHasOwner'
  <2> SUFFICES ASSUME NEW u \in UserId, users[u].status = "pending"
               PROVE  \E s \in Request : req'[s].user = u /\ req'[s].pc \in Inserted
    BY <1>c DEF PendingHasOwner, Inserted
  <2>1. PICK s \in Request : req[s].user = u /\ req[s].pc \in Inserted
    BY DEF AccountInv, PendingHasOwner, Inserted
  <2>2. req'[s].user = u /\ req'[s].pc \in Inserted
    BY <1>c, <2>1 DEF Advances, MayCarry, MayFind, Enrolling
  <2> QED BY <2>2
<1>5. TokensOfCommitted'
  <2>1. \A t \in Token : key'[t] \in {subject'[t], NoUser}
    <3>1. CASE Keeps
      BY <3>1 DEF AccountInv, TokensOfCommitted, Keeps
    <3>2. CASE Mints(r)
      BY <1>0, <3>2 DEF AccountInv, TokensOfCommitted, Mints, ServiceOK
    <3> QED BY <3>1, <3>2
  <2>2. \A t \in known' : Committed(subject'[t])
    <3> SUFFICES ASSUME NEW t \in known'
                 PROVE  Committed(subject'[t])
      OBVIOUS
    <3>1. CASE t \in known
      BY <1>0, <1>b, <3>1 DEF HeldInv, Bound, ServiceOK, AccountInv, TokensOfCommitted
    <3>2. CASE t = req[r].fresh /\ req[r].pc \in Issued \ Inserted
      <4>1. req[r].fresh \in Token /\ req[r].user \in UserId
        BY <1>a, <3>2 DEF LocalsOK, Issued, RegisterPc, IssuePc, ForgotPc, UserPc, Token, Link
      <4>2. subject[t] = req[r].user /\ Minted(t)
        BY <1>a, <3>2 DEF AccountBy, HeldBy
      <4>3. req[r].pc \notin Enrolling
        BY <3>2 DEF Issued, Inserted, Enrolling, Drawn
      <4>4. Committed(req[r].user)
        BY <1>a, <4>1, <4>3, NullAssumption DEF AccountBy
      <4> QED BY <1>b, <3>2, <4>1, <4>2, <4>4 DEF Bound
    <3> QED BY <3>1, <3>2 DEF Advances, GivesOut
  <2> QED BY <1>c, <2>1, <2>2 DEF TokensOfCommitted, Committed
<1>6. OneClaim'
  BY <1>c DEF AccountInv, OneClaim, Claims
<1>7. VerifiedByLink'
  <2>1. \A t \in known : subject'[t] = subject[t]
    BY <1>0, <1>b DEF HeldInv, Bound, ServiceOK
  <2> QED BY <1>c, <2>1 DEF AccountInv, VerifiedByLink, VerifiedThroughMail
<1>8. OnlyVerifiedHoldSessions'
  <2>1. CASE Keeps
    BY <1>c, <2>1 DEF AccountInv, OnlyVerifiedHoldSessions, Keeps
  <2>2. CASE Mints(r)
    <3>1. req[r].fresh \in Jti => req[r].pc \in Entitled
      BY <1>a, <2>2, TokenAssumption
         DEF Mints, Minting, LocalsOK, RegisterPc, ForgotPc, Entitled, IssuePc
    <3> QED BY <1>0, <1>a, <1>c, <2>2, <3>1
            DEF AccountInv, OnlyVerifiedHoldSessions, Mints, AccountBy, ServiceOK, Token
  <2> QED BY <2>1, <2>2
<1> QED BY <1>2, <1>3, <1>4, <1>5, <1>6, <1>7, <1>8 DEF AccountInv

-----------------------------------------------------------------------------
(* The steps that change a row.                                              *)

\* What no such step touches.
LinksStay == UNCHANGED <<key, subject, known>>

LEMMA OthersAccounts ==
  ASSUME TokenInv, AccountInv, NEW r \in Request, LinksStay,
         \A s \in Request \ {r} : req'[s] = req[s],
         \A u \in UserId \ {req[r].user} : users'[u] = users[u],
         req[r].pc \in Enrolling \/ (req[r].user \in UserId => RowLasts(req[r].user))
  PROVE  \A s \in Request \ {r} : AccountBy(req[s])'
<1> SUFFICES ASSUME NEW s \in Request \ {r}
             PROVE  AccountBy(req[s])'
  OBVIOUS
<1>1. ServiceOK /\ RequestsOK /\ HeldInv /\ AccountsBy /\ OneOwner
  BY DEF TokenInv, AccountInv
<1>2. Bound /\ known \subseteq known'
  BY DEF LinksStay, Bound
<1>3. req[s].user \in UserId => RowLasts(req[s].user)
  <2>1. CASE req[s].user = req[r].user
    BY <2>1 DEF AccountInv, OneOwner
  <2>2. CASE req[s].user # req[r].user
    BY <2>2 DEF RowLasts
  <2> QED BY <2>1, <2>2
<1> QED BY <1>1, <1>2, <1>3, AccountLasts

\* Registrations end, or go on with their accounts: then nobody shares one.
LEMMA OwnersStay ==
  ASSUME RequestsOK, OneOwner, NEW r \in Request,
         \A s \in Request \ {r} : req'[s] = req[s],
         \/ req'[r] = Idle
         \/ /\ req'[r].user = req[r].user
            /\ req'[r].pc \in Enrolling => req[r].pc \in Enrolling
  PROVE  OneOwner'
<1> SUFFICES ASSUME NEW s \in Request, req'[s].pc \in Enrolling, NEW x \in Request \ {s}
             PROVE  req'[x].user # req'[s].user
  BY DEF OneOwner
<1>1. req[s].pc \in Enrolling /\ req'[s].user = req[s].user
  BY DEF Idle, Enrolling, Drawn, Inserted
<1>2. req[x].user # req[s].user
  BY <1>1 DEF OneOwner
<1>3. req[s].user # NoUser
  BY <1>1, NullAssumption DEF RequestsOK, LocalsOK, Enrolling, Drawn, Inserted, UserPc, RegisterPc
<1> QED BY <1>1, <1>2, <1>3 DEF Idle

\* Where a request that changes a row is, and that its account is there.
LEMMA WriterAt ==
  ASSUME TokenInv, AccountInv, NEW r \in Request, Writes(r)
  PROVE  /\ req[r] \in Request_ /\ LocalsOK(req[r]) /\ AccountBy(req[r])
         /\ req[r].user \in UserId /\ users[req[r].user] \in Row_
<1>1. RequestsOK /\ ServiceOK /\ AccountsBy
  BY DEF TokenInv, AccountInv
<1>2. req[r] \in Request_ /\ LocalsOK(req[r]) /\ AccountBy(req[r])
  BY <1>1 DEF RequestsOK, AccountsBy
<1>3. req[r].pc \in {"register.insert", "register.commit", "verify.commit", "reset.commit"}
  BY DEF Writes, RegisterInsert, RegisterCommit, VerifyCommit, ResetCommit, At
<1>4. req[r].user \in UserId
  BY <1>2, <1>3 DEF LocalsOK, UserPc, RegisterPc
<1> QED BY <1>1, <1>2, <1>4 DEF ServiceOK

LEMMA InsertAccounts ==
  ASSUME TokenInv, AccountInv, NEW r \in Request,
         RegisterInsert(r), Goto(r, "register.token")
  PROVE  AccountInv'
<1> DEFINE u == req[r].user
           e == req[r].email
<1>0. Writes(r)
  BY DEF Writes
<1>1. /\ req[r] \in Request_ /\ LocalsOK(req[r]) /\ AccountBy(req[r]) /\ u \in UserId
      /\ users[u] \in Row_ /\ ServiceOK /\ RequestsOK
  BY <1>0, WriterAt DEF TokenInv
<1>2. /\ req[r].pc = "register.insert" /\ LinksStay /\ spent' = spent
      /\ ~IndexBusy(e)
  BY DEF RegisterInsert, At, tokens, lineage, clients, LinksStay
<1>3. req'[r].pc = "register.token"
  BY <1>1 DEF Goto, RequestsOK, Request_
<1>4. users' = [users EXCEPT ![u] = NewAccount(e, req[r].password)] /\ ~IndexTaken(e)
  <2>1. ~Reply(r)
    BY <1>1, <1>3 DEF Reply, Idle, RequestsOK
  <2> QED BY <2>1 DEF RegisterInsert
<1>5. /\ req'[r] = [req[r] EXCEPT !.pc = "register.token"]
      /\ \A s \in Request \ {r} : req'[s] = req[s]
  BY <1>1 DEF Goto, RequestsOK
<1>6. /\ \A v \in UserId \ {u} : users'[v] = users[v]
      /\ users'[u].status = "pending" /\ users'[u].email = e /\ ~users'[u].verified
  BY <1>1, <1>4 DEF ServiceOK, NewAccount, Row
<1>7. users[u].status = "unborn" /\ ~users[u].verified /\ Lower[e] = e /\ e \in Address
  BY <1>1, <1>2 DEF AccountBy, Drawn, RegisterPc, AccountInv, VerifiedByLink, LocalsOK
<1>8. AccountsBy'
  <2>1. \A s \in Request \ {r} : AccountBy(req[s])'
    BY <1>2, <1>5, <1>6, OthersAccounts DEF Enrolling, Drawn
  <2>2. AccountBy(req[r])'
    BY <1>1, <1>2, <1>5, <1>6, <1>7 DEF AccountBy, LinksStay, Issued, Verifying, RegisterPc, Drawn,
       Inserted, Enrolling, Entitled, IssuePc, Request_
  <2> QED BY <2>1, <2>2 DEF AccountsBy
<1>9. OneOwner'
  <2>1. req'[r].user = u /\ req[r].pc \in Enrolling
    BY <1>1, <1>2, <1>5 DEF Request_, Enrolling, Drawn
  <2> QED BY <1>1, <1>5, <2>1, OwnersStay DEF AccountInv
<1>10. PendingHasOwner'
  <2> SUFFICES ASSUME NEW v \in UserId, users'[v].status = "pending"
               PROVE  \E s \in Request : req'[s].user = v /\ req'[s].pc \in Inserted
    BY DEF PendingHasOwner, Inserted
  <2>1. CASE v = u
    <3>1. req'[r].user = u
      BY <1>1, <1>5 DEF Request_
    <3> QED BY <1>3, <2>1, <3>1 DEF Inserted
  <2>2. CASE v # u
    <3>1. PICK s \in Request : req[s].user = v /\ req[s].pc \in Inserted
      BY <1>6, <2>2 DEF AccountInv, PendingHasOwner, Inserted
    <3>2. s # r
      BY <2>2, <3>1
    <3> QED BY <1>5, <3>1, <3>2
  <2> QED BY <2>1, <2>2
<1>11. TokensOfCommitted'
  <2>1. \A t \in known : Committed(subject[t])' /\ subject[t] \in UserId
    <3> TAKE t \in known
    <3>1. t \in Token /\ Committed(subject[t]) /\ subject[t] # NoUser
      BY <1>1 DEF ServiceOK, TokenInv, HeldInv, Minted, AccountInv, TokensOfCommitted
    <3>2. subject[t] \in UserId /\ subject[t] # u
      BY <1>1, <1>7, <3>1 DEF ServiceOK, Committed
    <3> QED BY <1>2, <1>6, <3>1, <3>2 DEF LinksStay, Committed
  <2> QED BY <1>2, <2>1 DEF LinksStay, TokensOfCommitted, AccountInv, Committed
<1>12. OneClaim'
  <2>1. \A v \in UserId : Claims(v) => users[v].email # e
    BY <1>2, <1>4 DEF IndexBusy, IndexTaken, GetByEmail, Active, Claims
  <2>2. \A v \in UserId \ {u} : Claims(v)' = Claims(v)
    BY <1>6 DEF Claims
  <2> QED BY <1>6, <1>7, <2>1, <2>2 DEF AccountInv, OneClaim, Claims
<1>13. VerifiedByLink'
  BY <1>2, <1>6 DEF LinksStay, AccountInv, VerifiedByLink, VerifiedThroughMail
<1>14. OnlyVerifiedHoldSessions'
  BY <1>1, <1>2, <1>6, <1>7 DEF LinksStay, AccountInv, OnlyVerifiedHoldSessions, ServiceOK, Token
<1> QED BY <1>8, <1>9, <1>10, <1>11, <1>12, <1>13, <1>14 DEF AccountInv

\* The row of a committed account is updated: it keeps its address, and stays
\* verified; its request ends.
LEMMA UpdateAccounts ==
  ASSUME TokenInv, AccountInv, NEW r \in Request, NEW u \in UserId, u = req[r].user,
         req[r].pc \notin Enrolling, Committed(u), Reply(r), LinksStay, spent \subseteq spent',
         \A v \in UserId \ {u} : users'[v] = users[v],
         users'[u].status = users[u].status, users'[u].email = users[u].email,
         users[u].verified => users'[u].verified,
         users'[u].verified /\ ~users[u].verified =>
           \E t \in VerifyLink \cap known' \cap spent' : subject'[t] = u
  PROVE  AccountInv'
<1>1. RequestsOK /\ ServiceOK
  BY DEF TokenInv
<1>2. req'[r] = Idle /\ \A s \in Request \ {r} : req'[s] = req[s]
  BY <1>1 DEF Reply, RequestsOK
<1>3. RowLasts(u)
  BY DEF RowLasts, Committed
<1>4. AccountsBy'
  <2>1. \A s \in Request \ {r} : AccountBy(req[s])'
    BY <1>2, <1>3, OthersAccounts
  <2>2. AccountBy(req[r])'
    BY <1>2 DEF AccountBy, Idle, Issued, Verifying, RegisterPc, Drawn, Inserted, Enrolling,
                Entitled, IssuePc
  <2> QED BY <2>1, <2>2 DEF AccountsBy
<1>5. OneOwner'
  BY <1>1, <1>2, OwnersStay DEF AccountInv
<1>6. PendingHasOwner'
  <2> SUFFICES ASSUME NEW v \in UserId, users'[v].status = "pending"
               PROVE  \E s \in Request : req'[s].user = v /\ req'[s].pc \in Inserted
    BY DEF PendingHasOwner, Inserted
  <2>1. v # u
    BY DEF Committed
  <2>2. PICK s \in Request : req[s].user = v /\ req[s].pc \in Inserted
    BY <2>1 DEF AccountInv, PendingHasOwner, Inserted
  <2>3. s # r
    BY <2>1, <2>2
  <2> QED BY <1>2, <2>2, <2>3
<1>7. \A v \in UserId : users'[v].status = users[v].status /\ users'[v].email = users[v].email
  OBVIOUS
<1>8. TokensOfCommitted'
  <2>1. \A t \in known : subject[t] \in UserId
    BY <1>1 DEF ServiceOK, TokenInv, HeldInv, Minted
  <2> QED BY <1>7, <2>1 DEF LinksStay, TokensOfCommitted, AccountInv, Committed
<1>9. OneClaim'
  BY <1>7 DEF AccountInv, OneClaim, Claims
<1>10. VerifiedByLink'
  <2>1. users[u].status # "unborn"
    BY DEF Committed
  <2> QED BY <1>7, <2>1 DEF LinksStay, AccountInv, VerifiedByLink, VerifiedThroughMail
<1>11. OnlyVerifiedHoldSessions'
  BY <1>1 DEF LinksStay, AccountInv, OnlyVerifiedHoldSessions, ServiceOK, Token
<1> QED BY <1>4, <1>5, <1>6, <1>8, <1>9, <1>10, <1>11 DEF AccountInv

LEMMA CommitAccounts ==
  ASSUME TokenInv, AccountInv, NEW r \in Request, RegisterCommit(r)
  PROVE  AccountInv'
<1> DEFINE u == req[r].user
<1>0. Writes(r)
  BY DEF Writes
<1>1. /\ req[r] \in Request_ /\ LocalsOK(req[r]) /\ AccountBy(req[r]) /\ u \in UserId
      /\ users[u] \in Row_ /\ ServiceOK /\ RequestsOK
  BY <1>0, WriterAt DEF TokenInv
<1>2. req[r].pc = "register.commit" /\ LinksStay /\ spent' = spent
  BY DEF RegisterCommit, At, tokens, lineage, clients, audit, LinksStay
<1>3. users' = [users EXCEPT ![u].status = "active"]
  BY DEF RegisterCommit
<1>5. /\ req'[r] = [req[r] EXCEPT !.pc = "register.mail"]
      /\ \A s \in Request \ {r} : req'[s] = req[s]
  BY <1>1 DEF RegisterCommit, Goto, RequestsOK
<1>6. /\ \A v \in UserId \ {u} : users'[v] = users[v]
      /\ users'[u].status = "active" /\ users'[u].email = users[u].email
      /\ users'[u].verified = users[u].verified
  BY <1>1, <1>3 DEF ServiceOK, Row_
<1>7. users[u].status = "pending"
  BY <1>1, <1>2 DEF AccountBy, Inserted
<1>8. AccountsBy'
  <2>1. \A s \in Request \ {r} : AccountBy(req[s])'
    BY <1>2, <1>5, <1>6, OthersAccounts DEF Enrolling, Inserted
  <2>2. AccountBy(req[r])'
    BY <1>1, <1>2, <1>5, <1>6, <1>7 DEF AccountBy, LinksStay, Issued, Verifying, RegisterPc, Drawn,
       Inserted, Enrolling, Entitled, IssuePc, Request_, Committed
  <2> QED BY <2>1, <2>2 DEF AccountsBy
<1>9. OneOwner'
  <2>1. req'[r].user = u /\ req[r].pc \in Enrolling
    BY <1>1, <1>2, <1>5 DEF Request_, Enrolling, Inserted
  <2> QED BY <1>1, <1>5, <2>1, OwnersStay DEF AccountInv
<1>10. PendingHasOwner'
  <2> SUFFICES ASSUME NEW v \in UserId, users'[v].status = "pending"
               PROVE  \E s \in Request : req'[s].user = v /\ req'[s].pc \in Inserted
    BY DEF PendingHasOwner, Inserted
  <2>1. v # u
    BY <1>6
  <2>2. PICK s \in Request : req[s].user = v /\ req[s].pc \in Inserted
    BY <1>6, <2>1 DEF AccountInv, PendingHasOwner, Inserted
  <2>3. s # r
    BY <2>1, <2>2
  <2> QED BY <1>5, <2>2, <2>3
<1>11. TokensOfCommitted'
  <2>1. \A t \in known : subject[t] \in UserId
    BY <1>1 DEF ServiceOK, TokenInv, HeldInv, Minted
  <2> QED BY <1>2, <1>6, <2>1 DEF LinksStay, TokensOfCommitted, AccountInv, Committed
<1>12. OneClaim'
  <2>1. \A v \in UserId : Claims(v)' = Claims(v) /\ users'[v].email = users[v].email
    BY <1>6, <1>7 DEF Claims
  <2> QED BY <2>1 DEF AccountInv, OneClaim
<1>13. VerifiedByLink'
  BY <1>2, <1>6 DEF LinksStay, AccountInv, VerifiedByLink, VerifiedThroughMail
<1>14. OnlyVerifiedHoldSessions'
  BY <1>1, <1>2, <1>6 DEF LinksStay, AccountInv, OnlyVerifiedHoldSessions, ServiceOK, Token
<1> QED BY <1>8, <1>9, <1>10, <1>11, <1>12, <1>13, <1>14 DEF AccountInv

LEMMA WriteAccounts ==
  ASSUME TokenInv, AccountInv, NEW r \in Request, Writes(r)
  PROVE  AccountInv'
<1> DEFINE u == req[r].user
<1>1. /\ req[r] \in Request_ /\ LocalsOK(req[r]) /\ AccountBy(req[r]) /\ u \in UserId
      /\ users[u] \in Row_ /\ ServiceOK
  BY WriterAt DEF TokenInv
<1>2. CASE VerifyCommit(r)
  <2>1. /\ req[r].pc = "verify.commit" /\ LinksStay /\ spent' = spent \cup {req[r].token}
        /\ users' = [users EXCEPT ![u].verified = TRUE] /\ Reply(r)
    BY <1>2 DEF VerifyCommit, At, tokens, lineage, clients, LinksStay
  <2>2. /\ req[r].token \in VerifyLink \cap known /\ subject[req[r].token] = u
        /\ Committed(u) /\ req[r].pc \notin Enrolling
    BY <1>1, <2>1, NullAssumption DEF AccountBy, LocalsOK, VerifyPc, Verifying, Enrolling, Drawn,
       Inserted, Token, Link
  <2>3. /\ \A v \in UserId \ {u} : users'[v] = users[v]
        /\ users'[u].status = users[u].status /\ users'[u].email = users[u].email
        /\ users'[u].verified
    BY <1>1, <2>1 DEF ServiceOK, Row_
  <2>4. \E t \in VerifyLink \cap known' \cap spent' : subject'[t] = u
    BY <2>1, <2>2 DEF LinksStay
  <2> HIDE DEF u
  <2> QED BY <1>1, <2>1, <2>2, <2>3, <2>4, UpdateAccounts DEF u
<1>3. CASE ResetCommit(r)
  <2>1. /\ req[r].pc = "reset.commit" /\ LinksStay /\ spent \subseteq spent'
        /\ users' = [users EXCEPT ![u].hash = Hash(req[r].password)] /\ Reply(r)
    BY <1>3 DEF ResetCommit, At, tokens, lineage, clients, LinksStay
  <2>2. Committed(u) /\ req[r].pc \notin Enrolling
    BY <1>1, <2>1, NullAssumption DEF AccountBy, Enrolling, Drawn, Inserted
  <2>3. /\ \A v \in UserId \ {u} : users'[v] = users[v]
        /\ users'[u].status = users[u].status /\ users'[u].email = users[u].email
        /\ users'[u].verified = users[u].verified
    BY <1>1, <2>1 DEF ServiceOK, Row_
  <2> HIDE DEF u
  <2> QED BY <1>1, <2>1, <2>2, <2>3, UpdateAccounts DEF u
<1> QED BY <1>2, <1>3, InsertAccounts, CommitAccounts DEF Writes

-----------------------------------------------------------------------------
(* The other steps.                                                          *)

LEMMA FailAccounts ==
  ASSUME TokenInv, AccountInv, NEW r \in Request, Fail(r)
  PROVE  AccountInv'
<1> DEFINE u == req[r].user
<1>1. ServiceOK /\ RequestsOK /\ AccountBy(req[r]) /\ LocalsOK(req[r]) /\ req[r] \in Request_
  BY DEF TokenInv, AccountInv, AccountsBy, RequestsOK
<1>2. LinksStay /\ spent' = spent
  BY DEF Fail, tokens, lineage, clients, audit, LinksStay
<1>3. req'[r] = Idle /\ \A s \in Request \ {r} : req'[s] = req[s]
  BY <1>1 DEF Fail, Reply, RequestsOK
<1>4. \A v \in UserId : users'[v] = IF v = u /\ users[v].status = "pending"
                                      THEN [users[v] EXCEPT !.status = "void"] ELSE users[v]
  BY DEF Fail
<1>5. \A v \in UserId : /\ users'[v].email = users[v].email
                         /\ users'[v].verified = users[v].verified
                         /\ users'[v].status = IF v = u /\ users[v].status = "pending"
                                                 THEN "void" ELSE users[v].status
  <2> SUFFICES ASSUME NEW v \in UserId
               PROVE  /\ users'[v].email = users[v].email
                      /\ users'[v].verified = users[v].verified
                      /\ users'[v].status = IF v = u /\ users[v].status = "pending"
                                              THEN "void" ELSE users[v].status
    OBVIOUS
  <2>1. PICK w \in Row_ : w = users[v]
    BY <1>1 DEF ServiceOK, Row_
  <2>2. CASE v = u /\ w.status = "pending"
    <3>1. users'[v] = [w EXCEPT !.status = "void"]
      BY <1>4, <2>1, <2>2
    <3>2. [w EXCEPT !.status = "void"].email = w.email
          /\ [w EXCEPT !.status = "void"].verified = w.verified
          /\ [w EXCEPT !.status = "void"].status = "void"
      BY DEF Row_
    <3> QED BY <2>1, <2>2, <3>1, <3>2
  <2>3. CASE ~(v = u /\ w.status = "pending")
    <3>1. users'[v] = w
      BY <1>4, <2>1, <2>3
    <3> QED BY <2>1, <2>3, <3>1
  <2> QED BY <2>2, <2>3
<1>6. AccountsBy'
  <2>1. req[r].pc \in Enrolling \/ (u \in UserId => RowLasts(u))
    BY <1>1, <1>4, NullAssumption DEF AccountBy, Committed, RowLasts
  <2>2. \A s \in Request \ {r} : AccountBy(req[s])'
    BY <1>2, <1>3, <1>4, <2>1, OthersAccounts
  <2>3. AccountBy(req[r])'
    BY <1>3 DEF AccountBy, Idle, Issued, Verifying, RegisterPc, Drawn, Inserted, Enrolling,
                Entitled, IssuePc
  <2> QED BY <2>2, <2>3 DEF AccountsBy
<1>7. OneOwner'
  BY <1>1, <1>3, OwnersStay DEF AccountInv
<1>8. PendingHasOwner'
  <2> SUFFICES ASSUME NEW v \in UserId, users'[v].status = "pending"
               PROVE  \E s \in Request : req'[s].user = v /\ req'[s].pc \in Inserted
    BY DEF PendingHasOwner, Inserted
  <2>1. v # u /\ users[v].status = "pending"
    BY <1>5
  <2>2. PICK s \in Request : req[s].user = v /\ req[s].pc \in Inserted
    BY <2>1 DEF AccountInv, PendingHasOwner, Inserted
  <2>3. s # r
    BY <2>1, <2>2
  <2> QED BY <1>3, <2>2, <2>3
<1>9. TokensOfCommitted'
  <2>1. \A t \in known : subject[t] \in UserId
    BY <1>1 DEF ServiceOK, TokenInv, HeldInv, Minted
  <2> QED BY <1>2, <1>5, <2>1 DEF LinksStay, TokensOfCommitted, AccountInv, Committed
<1>10. OneClaim'
  <2>1. \A v \in UserId : Claims(v)' => Claims(v)
    BY <1>5 DEF Claims
  <2> QED BY <1>5, <2>1 DEF AccountInv, OneClaim
<1>11. VerifiedByLink'
  BY <1>2, <1>5 DEF LinksStay, AccountInv, VerifiedByLink, VerifiedThroughMail
<1>12. OnlyVerifiedHoldSessions'
  BY <1>1, <1>2, <1>5 DEF LinksStay, AccountInv, OnlyVerifiedHoldSessions, ServiceOK, Token
<1> QED BY <1>6, <1>7, <1>8, <1>9, <1>10, <1>11, <1>12 DEF AccountInv

\* A step that no request takes and that leaves the links: only committed rows
\* change, and only their status.
LEMMA OutsideAccounts ==
  ASSUME TokenInv, AccountInv, UNCHANGED <<req, subject, known, spent>>,
         \A t \in Token : key'[t] \in {key[t], NoUser},
         \A u \in UserId :
           /\ users'[u].email = users[u].email /\ users'[u].verified = users[u].verified
           /\ \/ users'[u] = users[u]
              \/ /\ users[u].status \in {"active", "disabled"}
                 /\ users'[u].status \in {"disabled", "deleted"}
  PROVE  AccountInv'
<1>1. ServiceOK /\ RequestsOK /\ HeldInv /\ AccountsBy
  BY DEF TokenInv, AccountInv
<1>2. \A u \in UserId : RowLasts(u)
  BY DEF RowLasts, Committed
<1>3. AccountsBy'
  <2>1. Bound /\ known \subseteq known'
    BY DEF Bound
  <2> QED BY <1>1, <1>2, <2>1, AccountLasts DEF AccountsBy
<1>4. OneOwner'
  BY DEF AccountInv, OneOwner
<1>5. PendingHasOwner'
  BY DEF AccountInv, PendingHasOwner
<1>6. TokensOfCommitted'
  <2>1. \A t \in known : subject[t] \in UserId
    BY <1>1 DEF ServiceOK, HeldInv, Minted
  <2>2. \A u \in UserId : Committed(u) => Committed(u)'
    BY DEF Committed
  <2> QED BY <2>1, <2>2 DEF TokensOfCommitted, AccountInv, Committed
<1>7. OneClaim'
  <2>1. \A u \in UserId : Claims(u)' => Claims(u)
    BY DEF Claims
  <2> QED BY <2>1 DEF AccountInv, OneClaim
<1>8. VerifiedByLink'
  BY DEF AccountInv, VerifiedByLink, VerifiedThroughMail
<1>9. OnlyVerifiedHoldSessions'
  BY <1>1 DEF AccountInv, OnlyVerifiedHoldSessions, ServiceOK, Token
<1> QED BY <1>3, <1>4, <1>5, <1>6, <1>7, <1>8, <1>9 DEF AccountInv

LEMMA EnvironmentAccounts ==
  ASSUME TokenInv, AccountInv, Environment
  PROVE  AccountInv'
<1>0. ServiceOK
  BY DEF TokenInv
<1>1. UNCHANGED <<req, subject, known, spent>>
  BY DEF Environment, ExpireKey, ExpireJwt, LapseLock, ExpireLock, ExpireAttempts, Disable,
     SoftDelete, OperatorUpdate, Event
<1>2. ASSUME NEW u \in UserId, NEW from \in {{"active"}, {"active", "disabled"}},
             NEW to \in {"disabled", "deleted"}, NEW event, OperatorUpdate(u, from, to, event)
      PROVE  AccountInv'
  <2>1. users[u].status \in {"active", "disabled"}
    BY <1>2 DEF OperatorUpdate
  <2>2. users' = [users EXCEPT ![u].status = to] /\ key' = key
    BY <1>2 DEF OperatorUpdate, tokens
  <2>3. \A v \in UserId :
           /\ users'[v].email = users[v].email /\ users'[v].verified = users[v].verified
           /\ \/ users'[v] = users[v]
              \/ /\ users[v].status \in {"active", "disabled"}
                 /\ users'[v].status \in {"disabled", "deleted"}
    BY <1>0, <2>1, <2>2 DEF ServiceOK, Row_
  <2> QED BY <1>1, <2>2, <2>3, OutsideAccounts
<1>3. CASE \E u \in UserId : Disable(u) \/ SoftDelete(u)
  BY <1>2, <1>3 DEF Disable, SoftDelete
<1>4. CASE ~\E u \in UserId : Disable(u) \/ SoftDelete(u)
  <2>1. users' = users /\ \A t \in Token : key'[t] \in {key[t], NoUser}
    BY <1>0, <1>4 DEF Environment, ExpireKey, ExpireJwt, LapseLock, ExpireLock, ExpireAttempts,
       tokens, database, ServiceOK
  <2> QED BY <1>1, <2>1, OutsideAccounts
<1> QED BY <1>3, <1>4

\* A request arrives: with a token a client knows, and, if it is a registration,
\* with an id of its own and an address in lower case.
Comes(r, q) ==
  /\ req' = [req EXCEPT ![r] = q] /\ StoresUnchanged
  /\ q.token = NoToken \/ q.token \in known
  /\ q.pc \notin Issued \cup Verifying \cup Inserted \cup Entitled
  /\ \/ q.user = NoUser /\ q.pc \notin RegisterPc
     \/ /\ q.user \in UserId /\ FreshUser(q.user) /\ q.pc = "register.lookup"
        /\ Lower[q.email] = q.email

LEMMA CallComes ==
  ASSUME NEW r \in Request, Call(r)
  PROVE  At(r, "idle") /\ \E q : Comes(r, q)
<1> USE DEF Idle, Open, Comes, Issued, Verifying, Inserted, Entitled, IssuePc, RegisterPc
<1>1. ASSUME NEW a \in Address, NEW p \in Password, NEW u \in UserId, NEW t \in VerifyLink,
             RegisterCall(r, a, p, u, t)
      PROVE  At(r, "idle") /\ \E q : Comes(r, q)
  <2> DEFINE q == [Idle EXCEPT !.pc = "register.lookup", !.email = Lower[a],
                               !.password = p, !.user = u, !.fresh = t]
  <2>1. Comes(r, q) /\ At(r, "idle")
    BY <1>1, LowerAssumption DEF RegisterCall
  <2> HIDE DEF q, Comes
  <2> QED BY <2>1
<1>2. ASSUME NEW a \in Address, NEW p \in Password, NEW t \in Jti, LoginCall(r, a, p, t)
      PROVE  At(r, "idle") /\ \E q : Comes(r, q)
  <2> DEFINE q == [Idle EXCEPT !.pc = "login.lock", !.email = Lower[a],
                               !.password = p, !.fresh = t]
  <2>1. Comes(r, q) /\ At(r, "idle")
    BY <1>2 DEF LoginCall
  <2> HIDE DEF q, Comes
  <2> QED BY <2>1
<1>3. ASSUME NEW t \in VerifyLink \cap known, VerifyCall(r, t)
      PROVE  At(r, "idle") /\ \E q : Comes(r, q)
  <2> DEFINE q == [Idle EXCEPT !.pc = "verify.get", !.token = t]
  <2>1. Comes(r, q) /\ At(r, "idle")
    BY <1>3 DEF VerifyCall
  <2> HIDE DEF q, Comes
  <2> QED BY <2>1
<1>4. ASSUME NEW j \in Jti \cap known, LogoutCall(r, j)
      PROVE  At(r, "idle") /\ \E q : Comes(r, q)
  <2> DEFINE q == [Idle EXCEPT !.pc = "logout.delete", !.token = j]
  <2>1. Comes(r, q) /\ At(r, "idle")
    BY <1>4 DEF LogoutCall
  <2> HIDE DEF q, Comes
  <2> QED BY <2>1
<1>5. ASSUME NEW j \in Jti \cap known, NEW t \in Jti, RefreshCall(r, j, t)
      PROVE  At(r, "idle") /\ \E q : Comes(r, q)
  <2> DEFINE q == [Idle EXCEPT !.pc = "refresh.get", !.token = j, !.fresh = t]
  <2>1. Comes(r, q) /\ At(r, "idle")
    BY <1>5 DEF RefreshCall
  <2> HIDE DEF q, Comes
  <2> QED BY <2>1
<1>6. ASSUME NEW a \in Address, NEW t \in ResetLink, ForgotCall(r, a, t)
      PROVE  At(r, "idle") /\ \E q : Comes(r, q)
  <2> DEFINE q == [Idle EXCEPT !.pc = "forgot.lookup", !.email = Lower[a], !.fresh = t]
  <2>1. Comes(r, q) /\ At(r, "idle")
    BY <1>6 DEF ForgotCall
  <2> HIDE DEF q, Comes
  <2> QED BY <2>1
<1>7. ASSUME NEW t \in ResetLink \cap known, NEW p \in Password, ResetCall(r, t, p)
      PROVE  At(r, "idle") /\ \E q : Comes(r, q)
  <2> DEFINE q == [Idle EXCEPT !.pc = "reset.get", !.token = t, !.password = p]
  <2>1. Comes(r, q) /\ At(r, "idle")
    BY <1>7 DEF ResetCall
  <2> HIDE DEF q, Comes
  <2> QED BY <2>1
<1> HIDE DEF Comes, Open
<1> QED BY <1>1, <1>2, <1>3, <1>4, <1>5, <1>6, <1>7 DEF Call

LEMMA CallAccounts ==
  ASSUME TokenInv, AccountInv, NEW r \in Request, Call(r)
  PROVE  AccountInv'
<1>0. ServiceOK /\ RequestsOK /\ HeldInv /\ AccountsBy /\ LocalsOK(req[r])
  BY DEF TokenInv, AccountInv, RequestsOK
<1>1. PICK q : Comes(r, q)
  BY CallComes
<1>2. UNCHANGED <<users, key, subject, known, spent>>
  BY <1>1 DEF Comes, StoresUnchanged, database, tokens, lineage, clients, audit
<1>3. req'[r] = q /\ \A s \in Request \ {r} : req'[s] = req[s]
  BY <1>0, <1>1 DEF Comes, RequestsOK
<1>4. req[r].pc = "idle"
  BY CallComes DEF At
<1>5. AccountsBy'
  <2>1. Bound /\ known \subseteq known'
    BY <1>2 DEF Bound
  <2>2. ASSUME NEW s \in Request, s # r
        PROVE  AccountBy(req[s])'
    BY <1>0, <1>2, <1>3, <2>1, <2>2, AccountLasts DEF RowLasts
  <2>3. AccountBy(req[r])'
    BY <1>1, <1>2, <1>3 DEF AccountBy, Comes, FreshUser, Drawn, Enrolling, Inserted, RegisterPc,
                            Issued, Verifying
  <2> QED BY <2>2, <2>3 DEF AccountsBy
<1>6. OneOwner'
  <2> SUFFICES ASSUME NEW s \in Request, req'[s].pc \in Enrolling, NEW x \in Request \ {s}
               PROVE  req'[x].user # req'[s].user
    BY DEF OneOwner
  <2>1. CASE s = r
    BY <1>1, <1>3, <2>1 DEF Comes, FreshUser, Enrolling, Drawn, Inserted, RegisterPc
  <2>2. CASE s # r
    <3>1. req[s].pc \in Enrolling /\ req'[s].user = req[s].user
      BY <1>3, <2>2
    <3>2. req[s].user \in UserId
      BY <1>0, <3>1 DEF RequestsOK, LocalsOK, Enrolling, Drawn, Inserted, UserPc, RegisterPc
    <3>3. q.user # req[s].user
      BY <1>1, <3>2, NullAssumption DEF Comes, FreshUser
    <3>4. req[x].user # req[s].user
      BY <3>1 DEF AccountInv, OneOwner
    <3> QED BY <1>3, <3>1, <3>3, <3>4
  <2> QED BY <2>1, <2>2
<1>7. PendingHasOwner'
  <2> SUFFICES ASSUME NEW u \in UserId, users[u].status = "pending"
               PROVE  \E s \in Request : req'[s].user = u /\ req'[s].pc \in Inserted
    BY <1>2 DEF PendingHasOwner, Inserted
  <2>1. PICK s \in Request : req[s].user = u /\ req[s].pc \in Inserted
    BY DEF AccountInv, PendingHasOwner, Inserted
  <2>2. s # r
    BY <1>4, <2>1 DEF Inserted
  <2> QED BY <1>3, <2>1, <2>2
<1>8. TokensOfCommitted' /\ OneClaim' /\ VerifiedByLink' /\ OnlyVerifiedHoldSessions'
  BY <1>2 DEF AccountInv, TokensOfCommitted, OneClaim, VerifiedByLink, VerifiedThroughMail,
     OnlyVerifiedHoldSessions, Committed, Claims
<1> QED BY <1>5, <1>6, <1>7, <1>8 DEF AccountInv

LEMMA NextAccounts ==
  ASSUME TokenInv, AccountInv, [Next]_vars
  PROVE  AccountInv'
<1>1. ASSUME NEW r \in Request, Step(r)
      PROVE  AccountInv'
  <2>1. Advances(r) \/ Writes(r)
    BY <1>1, StepAdvances DEF TokenInv
  <2>2. Keeps \/ Mints(r)
    BY <1>1, StepShape DEF TokenInv
  <2> QED BY <2>1, <2>2, AdvanceAccounts, WriteAccounts
<1>2. CASE UNCHANGED service
  <2>1. UNCHANGED <<req, subject, known, spent, key, users>>
    BY <1>2 DEF service
  <2> QED BY <2>1, OutsideAccounts
<1> QED BY <1>1, <1>2, CallAccounts, FailAccounts, EnvironmentAccounts, NextIs

LEMMA InitAccounts == Init => AccountInv
<1> SUFFICES ASSUME Init PROVE AccountInv
  OBVIOUS
<1>1. /\ req = [r \in Request |-> Idle] /\ key = [t \in Token |-> NoUser]
      /\ subject = [t \in Token |-> NoUser] /\ known = {}
  BY DEF Init
<1>2. AccountsBy /\ OneOwner
  BY <1>1 DEF AccountsBy, AccountBy, OneOwner, Idle, Issued, Verifying, RegisterPc, Drawn,
              Inserted, Enrolling, Entitled, IssuePc
<1>3. TokensOfCommitted /\ OnlyVerifiedHoldSessions
  BY <1>1 DEF TokensOfCommitted, OnlyVerifiedHoldSessions, Token
<1>4. PICK home \in [Seeded -> {Lower[a] : a \in Address}], secret \in [Seeded -> Password] :
        /\ \A u, v \in Seeded : home[u] = home[v] => u = v
        /\ users = [u \in UserId |-> IF u \in Seeded
                                         THEN Row("active", home[u], Hash(secret[u]), TRUE)
                                         ELSE Unborn]
  BY DEF Init
<1>5. \A u \in UserId :
        /\ u \in Seeded => users[u].status = "active" /\ users[u].email = home[u]
        /\ u \notin Seeded => users[u].status = "unborn" /\ ~users[u].verified
  BY <1>4 DEF Row, Unborn
<1>6. PendingHasOwner /\ VerifiedByLink
  BY <1>5 DEF PendingHasOwner, VerifiedByLink, VerifiedThroughMail
<1>7. \A u \in Seeded : home[u] \in Address /\ Lower[home[u]] = home[u]
  BY LowerAssumption
<1>8. OneClaim
  <2>1. \A u \in UserId : Claims(u) => u \in Seeded /\ users[u].email = home[u]
    BY <1>5 DEF Claims
  <2>2. \A u, v \in UserId :
          Claims(u) /\ Claims(v) /\ users[u].email = users[v].email => u = v
    <3> SUFFICES ASSUME NEW u \in UserId, NEW v \in UserId, Claims(u), Claims(v),
                        users[u].email = users[v].email
                 PROVE  u = v
      OBVIOUS
    <3>1. u \in Seeded /\ v \in Seeded /\ home[u] = home[v]
      BY <2>1
    <3> QED BY <3>1, <1>4
  <2> QED BY <2>1, <2>2, <1>7 DEF OneClaim
<1> QED BY <1>2, <1>3, <1>6, <1>8 DEF AccountInv

LEMMA AccountInvariant == Spec => [](TokenInv /\ AccountInv)
<1>1. Init => TokenInv /\ AccountInv
  BY InitOK, InitFresh, InitHeld, InitAccounts DEF TokenInv
<1>2. TokenInv /\ AccountInv /\ [Next]_vars => (TokenInv /\ AccountInv)'
  <2>1. TokenInv /\ [Next]_vars => TokenInv'
    BY NextFresh, NextHeld, CallOK, StepOK, FailOK, EnvironmentOK, StutterOK, NextIs DEF TokenInv
  <2> QED BY <2>1, NextAccounts
<1> QED BY <1>1, <1>2, PTL DEF Spec

-----------------------------------------------------------------------------
(* The theorems.                                                             *)

\* Two accounts that are not soft-deleted never share an address, however
\* typed: register lowers it, and the unique index (which sees rows whose
\* transaction is open) decides between registrations that all found it free.
THEOREM AddressesUnique == Spec => []EmailUnique
<1>1. AccountInv => EmailUnique
  BY DEF AccountInv, OneClaim, Claims, Active, EmailUnique
<1> QED BY <1>1, AccountInvariant, PTL

\* An INSERT waits only for a registration that is under way: whatever fails,
\* no open transaction is left behind (get_db commits or rolls back).
THEOREM InsertsAwaited == Spec => []PendingHasOwner
<1>1. AccountInv => PendingHasOwner
  BY DEF AccountInv
<1> QED BY <1>1, AccountInvariant, PTL

\* A verification link is in a mailbox only if its account is committed: the
\* background task of register runs after get_db's commit.
THEOREM MailsCommitted == Spec => []MailAfterCommit
<1>1. AccountInv => MailAfterCommit
  BY DEF AccountInv, TokensOfCommitted, Committed, MailAfterCommit
<1> QED BY <1>1, AccountInvariant, PTL

\* Only the link that was mailed for an account verifies it: verify_email acts
\* on the account it reads under the link's key.
THEOREM MailsVerify == Spec => []VerifiedThroughMail
<1>1. AccountInv => VerifiedThroughMail
  BY DEF AccountInv, VerifiedByLink
<1> QED BY <1>1, AccountInvariant, PTL

\* No refresh token is minted for an unverified account: login checks, and what
\* refresh exchanges goes back to a login.
THEOREM SessionsVerified == Spec => []OnlyVerifiedHoldSessions
<1>1. AccountInv => OnlyVerifiedHoldSessions
  BY DEF AccountInv
<1> QED BY <1>1, AccountInvariant, PTL
=============================================================================
