------------------------------ MODULE LoginProofs ------------------------------
(***************************************************************************)
(* What TLAPS proves of the lockout, and of the sessions a reset of the    *)
(* password leaves.                                                        *)
(***************************************************************************)
EXTENDS AccountProofs

-----------------------------------------------------------------------------
(* The lockout.  Its counters belong to login: all the other steps leave     *)
(* them, and the labels of login, alone.                                     *)

Others(r) == \A s \in Request \ {r} : req'[s] = req[s]

\* A step of a request that has nothing to do with login.
Aside(r) ==
  /\ UNCHANGED <<lockout, late>> /\ Others(r)
  /\ req[r].pc \notin LoginPc /\ req'[r].pc \notin LoginPc

Entry == {"register.lookup", "verify.get", "login.lock", "logout.delete", "refresh.get",
          "forgot.lookup", "reset.get"}

LEMMA ReplyAside ==
  ASSUME RequestsOK, NEW r \in Request, Reply(r)
  PROVE  Others(r) /\ req'[r] = Idle /\ req'[r].pc \notin LoginPc
  BY DEF Reply, Others, RequestsOK, Idle, LoginPc

LEMMA GotoAside ==
  ASSUME RequestsOK, NEW r \in Request, NEW l, Goto(r, l)
  PROVE  /\ Others(r) /\ req'[r].pc = l
         /\ req'[r].email = req[r].email /\ req'[r].count = req[r].count
  BY DEF Goto, Others, RequestsOK, Request_

LEMMA FoundAside ==
  ASSUME RequestsOK, NEW r \in Request, NEW u, NEW l, Found(r, u, l)
  PROVE  /\ Others(r) /\ req'[r].pc = l
         /\ req'[r].email = req[r].email /\ req'[r].count = req[r].count
  BY DEF Found, Others, RequestsOK, Request_

LEMMA RegistrationAside ==
  ASSUME RequestsOK, NEW r \in Request, RegisterStep(r) \/ VerifyStep(r)
  PROVE  Aside(r)
<1> USE ReplyAside, GotoAside, FoundAside
    DEF Aside, At, LoginPc, StoresUnchanged, lockout, audit
<1>1. CASE RegisterLookup(r)
  BY <1>1 DEF RegisterLookup
<1>2. CASE RegisterInsert(r)
  BY <1>2 DEF RegisterInsert
<1>3. CASE RegisterToken(r)
  BY <1>3 DEF RegisterToken
<1>4. CASE RegisterCommit(r)
  BY <1>4 DEF RegisterCommit
<1>5. CASE RegisterMail(r)
  BY <1>5 DEF RegisterMail, MailFresh
<1>6. CASE VerifyGet(r)
  BY <1>6 DEF VerifyGet
<1>7. CASE VerifyUser(r)
  BY <1>7 DEF VerifyUser
<1>8. CASE VerifyDelete(r)
  BY <1>8 DEF VerifyDelete
<1>9. CASE VerifyCommit(r)
  BY <1>9 DEF VerifyCommit
<1> QED BY <1>1, <1>2, <1>3, <1>4, <1>5, <1>6, <1>7, <1>8, <1>9 DEF RegisterStep, VerifyStep

LEMMA SessionAside ==
  ASSUME RequestsOK, NEW r \in Request, IssueStep(r) \/ RefreshStep(r) \/ LogoutStep(r)
  PROVE  Aside(r)
<1> USE ReplyAside, GotoAside, FoundAside
    DEF Aside, At, LoginPc, StoresUnchanged, lockout, audit
<1>1. CASE IssueSet(r)
  BY <1>1 DEF IssueSet
<1>2. CASE IssueIndex(r)
  BY <1>2 DEF IssueIndex
<1>3. CASE IssueRespond(r)
  BY <1>3 DEF IssueRespond
<1>4. CASE RefreshGet(r)
  BY <1>4 DEF RefreshGet
<1>5. CASE RefreshDelete(r)
  BY <1>5 DEF RefreshDelete
<1>6. CASE RefreshSrem(r)
  BY <1>6 DEF RefreshSrem
<1>7. CASE LogoutDelete(r)
  BY <1>7 DEF LogoutDelete
<1>8. CASE LogoutSrem(r)
  BY <1>8 DEF LogoutSrem
<1> QED BY <1>1, <1>2, <1>3, <1>4, <1>5, <1>6, <1>7, <1>8
        DEF IssueStep, RefreshStep, LogoutStep

LEMMA ResetAside ==
  ASSUME RequestsOK, NEW r \in Request, ForgotStep(r) \/ ResetStep(r)
  PROVE  Aside(r)
<1> USE ReplyAside, GotoAside, FoundAside
    DEF Aside, At, LoginPc, StoresUnchanged, lockout, audit
<1>1. CASE ForgotLookup(r)
  BY <1>1 DEF ForgotLookup
<1>2. CASE ForgotSet(r)
  BY <1>2 DEF ForgotSet
<1>3. CASE ForgotMail(r)
  BY <1>3 DEF ForgotMail, MailFresh
<1>4. CASE ResetGet(r)
  BY <1>4 DEF ResetGet
<1>5. CASE ResetUser(r)
  BY <1>5 DEF ResetUser
<1>6. CASE ResetDelete(r)
  BY <1>6 DEF ResetDelete
<1>7. CASE RevokeMembers(r)
  <2> DEFINE l == IF userTokens[req[r].user] = {} THEN "revoke.index" ELSE "revoke.keys"
             q == [req[r] EXCEPT !.seen = userTokens[req[r].user], !.pc = l]
  <2>1. req' = [req EXCEPT ![r] = q] /\ UNCHANGED <<lockout, late>>
    BY <1>7 DEF RevokeMembers, RequestsOK
  <2>2. q.pc = l /\ l \in {"revoke.index", "revoke.keys"}
    BY DEF RequestsOK, Request_
  <2> HIDE DEF q, l
  <2>3. Others(r) /\ req'[r].pc = l
    BY <2>1, <2>2 DEF Others, RequestsOK
  <2> QED BY <1>7, <2>1, <2>2, <2>3 DEF RevokeMembers
<1>8. CASE RevokeKeys(r)
  BY <1>8 DEF RevokeKeys
<1>9. CASE RevokeIndex(r)
  BY <1>9 DEF RevokeIndex
<1>10. CASE ResetCommit(r)
  BY <1>10 DEF ResetCommit
<1> QED BY <1>1, <1>2, <1>3, <1>4, <1>5, <1>6, <1>7, <1>8, <1>9, <1>10
        DEF ForgotStep, ResetStep

\* A step is login's, or leaves login alone.
LEMMA StepAside ==
  ASSUME RequestsOK, NEW r \in Request, Step(r)
  PROVE  LoginStep(r) \/ Aside(r)
  BY RegistrationAside, SessionAside, ResetAside DEF Step

\* A request starts at the head of its handler.
LEMMA CallEnters ==
  ASSUME RequestsOK, NEW r \in Request, Call(r)
  PROVE  /\ StoresUnchanged /\ Others(r)
         /\ At(r, "idle") /\ req'[r].pc \in Entry
<1> USE DEF Idle, Open, Entry, Others, RequestsOK
<1>1. ASSUME NEW a \in Address, NEW p \in Password, NEW u \in UserId, NEW t \in VerifyLink,
             RegisterCall(r, a, p, u, t)
      PROVE  /\ StoresUnchanged /\ Others(r) /\ At(r, "idle") /\ req'[r].pc \in Entry
  BY <1>1 DEF RegisterCall
<1>2. ASSUME NEW a \in Address, NEW p \in Password, NEW t \in Jti, LoginCall(r, a, p, t)
      PROVE  /\ StoresUnchanged /\ Others(r) /\ At(r, "idle") /\ req'[r].pc \in Entry
  BY <1>2 DEF LoginCall
<1>3. ASSUME NEW t \in VerifyLink \cap known, VerifyCall(r, t)
      PROVE  /\ StoresUnchanged /\ Others(r) /\ At(r, "idle") /\ req'[r].pc \in Entry
  BY <1>3 DEF VerifyCall
<1>4. ASSUME NEW j \in Jti \cap known, LogoutCall(r, j)
      PROVE  /\ StoresUnchanged /\ Others(r) /\ At(r, "idle") /\ req'[r].pc \in Entry
  BY <1>4 DEF LogoutCall
<1>5. ASSUME NEW j \in Jti \cap known, NEW t \in Jti, RefreshCall(r, j, t)
      PROVE  /\ StoresUnchanged /\ Others(r) /\ At(r, "idle") /\ req'[r].pc \in Entry
  BY <1>5 DEF RefreshCall
<1>6. ASSUME NEW a \in Address, NEW t \in ResetLink, ForgotCall(r, a, t)
      PROVE  /\ StoresUnchanged /\ Others(r) /\ At(r, "idle") /\ req'[r].pc \in Entry
  BY <1>6 DEF ForgotCall
<1>7. ASSUME NEW t \in ResetLink \cap known, NEW p \in Password, ResetCall(r, t, p)
      PROVE  /\ StoresUnchanged /\ Others(r) /\ At(r, "idle") /\ req'[r].pc \in Entry
  BY <1>7 DEF ResetCall
<1> HIDE DEF Entry, Open, Others
<1> QED BY <1>1, <1>2, <1>3, <1>4, <1>5, <1>6, <1>7 DEF Call

-----------------------------------------------------------------------------
(* Counting requests.                                                        *)

LEMMA SubsetSize ==
  ASSUME NEW S \in SUBSET Request
  PROVE  IsFiniteSet(S) /\ Cardinality(S) \in Nat /\ Cardinality(S) <= Cardinality(Request)
  BY FS_Subset, FS_CardinalityType, SizeAssumption

LEMMA SizeGrows ==
  ASSUME NEW S \in SUBSET Request, NEW T \in SUBSET Request, S \subseteq T
  PROVE  Cardinality(S) <= Cardinality(T)
  BY SubsetSize, FS_Subset

LEMMA SizeJoins ==
  ASSUME NEW S \in SUBSET Request, NEW T \in SUBSET Request, NEW r \in T,
         S \subseteq T, r \notin S
  PROVE  Cardinality(S) + 1 <= Cardinality(T)
<1>1. IsFiniteSet(S) /\ Cardinality(S) \in Nat /\ Cardinality(T) \in Nat
  BY SubsetSize
<1>2. Cardinality(S \cup {r}) = Cardinality(S) + 1
  BY <1>1, FS_AddElement
<1>3. Cardinality(S \cup {r}) <= Cardinality(T)
  BY SizeGrows
<1> QED BY <1>1, <1>2, <1>3

-----------------------------------------------------------------------------
(* Checks made while the address is locked.                                  *)

\* Requests that have read the TTL of an address and not yet the account.
Checkers(e) == {r \in Request : At(r, "login.user") /\ req[r].email = e}

\* A check counts as late if the lock was set after the TTL was read: who set
\* it is not among those still to check.
LateBy ==
  \A e \in Address :
    IF lock[e] = "held" THEN late[e] + Cardinality(Checkers(e)) < Cardinality(Request)
                        ELSE late[e] = 0

LEMMA SameCheckers ==
  ASSUME NEW r \in Request, Others(r), ~At(r, "login.user"), ~At(r, "login.user")', NEW e
  PROVE  Checkers(e)' = Checkers(e)
  BY DEF Others, Checkers, At

LEMMA KeepsLate ==
  ASSUME LateBy, NEW r \in Request, Others(r), ~At(r, "login.user"), ~At(r, "login.user")',
         lock' = lock, late' = late
  PROVE  LateBy'
  BY SameCheckers DEF LateBy

LEMMA LoginLate ==
  ASSUME ServiceOK, RequestsOK, LateBy, NEW r \in Request, LoginStep(r)
  PROVE  LateBy'
<1>0. req[r] \in Request_ /\ LocalsOK(req[r])
  BY DEF RequestsOK
<1>a. req[r].email \in Address
  BY <1>0 DEF LoginStep, LoginLock, LoginUser, LoginClear, FailIncr, FailExpire, FailLock,
              FailReset, At, LocalsOK, LoginPc
<1>e. PICK e \in Address : e = req[r].email
  BY <1>a
<1>c. \A a \in Address : Cardinality(Checkers(a)) \in Nat
  BY SubsetSize DEF Checkers
<1>n. Cardinality(Request) \in Nat /\ \A a \in Address : late[a] \in Nat
  BY SizeAssumption, FS_CardinalityType DEF ServiceOK
<1>1. CASE LoginLock(r)
  <2>1. UNCHANGED <<lock, late>>
    BY <1>1 DEF LoginLock, StoresUnchanged, lockout, audit
  <2>2. CASE lock[e] = "held"
    BY <1>1, <1>e, <2>1, <2>2, ReplyAside, KeepsLate DEF LoginLock, At, LoginPc
  <2>3. CASE lock[e] # "held"
    <3>1. Others(r) /\ req'[r].email = e
      BY <1>1, <1>e, <2>3, GotoAside DEF LoginLock
    <3>2. \A a \in Address : a # e => Checkers(a)' = Checkers(a)
      BY <3>1, <1>e DEF Checkers, Others, At
    <3> QED BY <2>1, <2>3, <3>2 DEF LateBy
  <2> QED BY <2>2, <2>3
<1>2. CASE LoginUser(r)
  <2>1. /\ lock' = lock
        /\ late' = [late EXCEPT ![e] = IF lock[e] = "held" THEN @ + 1 ELSE @]
    BY <1>2, <1>e DEF LoginUser, lockout
  <2>2. Others(r) /\ req'[r].email \in {e, NoAddress} /\ req'[r].pc # "login.user"
    <3>1. CASE Goto(r, "fail.incr")
      BY <3>1, <1>e, GotoAside
    <3>2. CASE Reply(r)
      BY <3>2, ReplyAside DEF Idle, LoginPc
    <3>3. ASSUME NEW u \in UserId, Found(r, u, "login.clear")
          PROVE  Others(r) /\ req'[r].email \in {e, NoAddress} /\ req'[r].pc # "login.user"
      BY <3>3, <1>e, FoundAside
    <3> QED BY <1>2, <3>1, <3>2, <3>3 DEF LoginUser, GetByEmail
  <2>3. \A a \in Address : a # e => Checkers(a)' = Checkers(a)
    BY <1>e, <2>2, NullAssumption DEF Checkers, Others, At
  <2>4. Cardinality(Checkers(e)') + 1 <= Cardinality(Checkers(e))
    <3>1. Checkers(e)' \subseteq Checkers(e) /\ r \in Checkers(e) /\ r \notin Checkers(e)'
      BY <1>2, <1>e, <2>2 DEF Checkers, Others, At, LoginUser
    <3>2. Checkers(e)' \in SUBSET Request /\ Checkers(e) \in SUBSET Request
      BY DEF Checkers
    <3> QED BY <3>1, <3>2, SizeJoins
  <2>5. Cardinality(Checkers(e)') \in Nat
    <3>1. Checkers(e)' \in SUBSET Request
      BY DEF Checkers
    <3> QED BY <3>1, SubsetSize
  <2>6. \A a \in Address : a # e => late'[a] = late[a]
    BY <1>e, <2>1 DEF ServiceOK
  <2>7. late'[e] = IF lock[e] = "held" THEN late[e] + 1 ELSE late[e]
    BY <1>e, <2>1 DEF ServiceOK
  <2> SUFFICES ASSUME NEW a \in Address
               PROVE  IF lock[a] = "held"
                        THEN late'[a] + Cardinality(Checkers(a)') < Cardinality(Request)
                        ELSE late'[a] = 0
    BY <2>1 DEF LateBy
  <2>8. CASE a # e
    BY <2>3, <2>6, <2>8 DEF LateBy
  <2>9. CASE a = e
    <3>1. IF lock[e] = "held" THEN late[e] + Cardinality(Checkers(e)) < Cardinality(Request)
                              ELSE late[e] = 0
      BY <1>e DEF LateBy
    <3>2. late[e] \in Nat /\ Cardinality(Checkers(e)) \in Nat
      BY <1>e, <1>c, <1>n
    <3> QED BY <2>4, <2>5, <2>7, <2>9, <1>n, <3>1, <3>2
  <2> QED BY <2>8, <2>9
<1>3. CASE LoginClear(r)
  <2>1. Others(r) /\ ~At(r, "login.user") /\ ~At(r, "login.user")'
    BY <1>3, GotoAside DEF LoginClear, At
  <2>2. \A a \in Address : a # e => lock'[a] = lock[a] /\ late'[a] = late[a]
    BY <1>3, <1>e DEF LoginClear, ServiceOK
  <2>3. lock'[e] = "none" /\ late'[e] = 0
    BY <1>e, <1>3 DEF LoginClear, ServiceOK
  <2>4. \A a \in Address : Checkers(a)' = Checkers(a)
    BY <2>1, SameCheckers
  <2> QED BY <2>2, <2>3, <2>4 DEF LateBy
<1>4. CASE FailIncr(r)
  <2>1. Others(r) /\ req'[r].pc = "fail.expire"
    BY <1>4, <1>0 DEF FailIncr, Others, RequestsOK, Request_
  <2> QED BY <1>4, <2>1, KeepsLate DEF FailIncr, At, lockout, audit
<1>5. CASE FailExpire(r)
  <2>1. Others(r) /\ req'[r].pc # "login.user"
    BY <1>5, ReplyAside, GotoAside DEF FailExpire, LoginPc
  <2> QED BY <1>5, <2>1, KeepsLate DEF FailExpire, At, audit
<1>6. CASE FailLock(r)
  <2>1. Others(r) /\ ~At(r, "login.user") /\ ~At(r, "login.user")'
    BY <1>6, GotoAside DEF FailLock, At
  <2>2. late' = late /\ \A a \in Address : a # e => lock'[a] = lock[a]
    BY <1>6, <1>e DEF FailLock, ServiceOK, audit
  <2>3. \A a \in Address : Checkers(a)' = Checkers(a)
    BY <2>1, SameCheckers
  <2>4. Cardinality(Checkers(e)) + 1 <= Cardinality(Request)
    <3>1. Checkers(e) \in SUBSET Request /\ Request \in SUBSET Request /\ r \notin Checkers(e)
      BY <2>1 DEF Checkers
    <3> QED BY <3>1, SizeJoins
  <2>5. late[e] = 0 \/ late[e] + Cardinality(Checkers(e)) < Cardinality(Request)
    BY <1>e DEF LateBy
  <2>6. late[e] \in Nat /\ Cardinality(Checkers(e)) \in Nat
    BY <1>e, <1>c, <1>n
  <2>7. late[e] + Cardinality(Checkers(e)) < Cardinality(Request)
    <3> QED BY <2>4, <2>5, <2>6, <1>n
  <2>8. lock'[e] = "held"
    BY <1>e, <1>6 DEF FailLock, ServiceOK
  <2> QED BY <2>2, <2>3, <2>7, <2>8 DEF LateBy
<1>7. CASE FailReset(r)
  BY <1>7, ReplyAside, KeepsLate DEF FailReset, At, LoginPc, audit
<1> QED BY <1>1, <1>2, <1>3, <1>4, <1>5, <1>6, <1>7 DEF LoginStep

LEMMA NextLate ==
  ASSUME ServiceOK, RequestsOK, LateBy, [Next]_vars
  PROVE  LateBy'
<1>1. ASSUME NEW r \in Request, Call(r) PROVE LateBy'
  BY <1>1, CallEnters, KeepsLate DEF StoresUnchanged, lockout, audit, At, Entry
<1>2. ASSUME NEW r \in Request, Step(r) PROVE LateBy'
  BY <1>2, StepAside, LoginLate, KeepsLate DEF Aside, LoginPc, At, lockout
<1>3. ASSUME NEW r \in Request, Fail(r) PROVE LateBy'
  <2>1. Others(r) /\ req'[r].pc # "login.user" /\ UNCHANGED <<lock, late>>
    BY <1>3, ReplyAside DEF Fail, LoginPc, lockout, audit
  <2>2. \A e \in Address : /\ Checkers(e)' \in SUBSET Request /\ Checkers(e) \in SUBSET Request
                           /\ Checkers(e)' \subseteq Checkers(e)
    BY <2>1 DEF Checkers, Others, At
  <2>3. \A e \in Address : /\ Cardinality(Checkers(e)') <= Cardinality(Checkers(e))
                           /\ Cardinality(Checkers(e)') \in Nat
                           /\ Cardinality(Checkers(e)) \in Nat
    BY <2>2, SizeGrows, SubsetSize
  <2>4. Cardinality(Request) \in Nat /\ \A e \in Address : late[e] \in Nat
    BY SizeAssumption, FS_CardinalityType DEF ServiceOK
  <2> SUFFICES ASSUME NEW e \in Address
               PROVE  IF lock[e] = "held"
                        THEN late[e] + Cardinality(Checkers(e)') < Cardinality(Request)
                        ELSE late[e] = 0
    BY <2>1 DEF LateBy
  <2>5. IF lock[e] = "held" THEN late[e] + Cardinality(Checkers(e)) < Cardinality(Request)
                            ELSE late[e] = 0
    BY DEF LateBy
  <2> QED BY <2>3, <2>4, <2>5
<1>4. CASE Environment
  <2>1. req' = req
    BY <1>4 DEF Environment, ExpireKey, ExpireJwt, LapseLock, ExpireLock, ExpireAttempts,
                Disable, SoftDelete, OperatorUpdate, Event
  <2>2. \A e \in Address : Checkers(e)' = Checkers(e)
    BY <2>1 DEF Checkers, At
  <2>3. CASE UNCHANGED <<lock, late>>
    BY <2>2, <2>3 DEF LateBy
  <2>4. ASSUME NEW a \in Address, LapseLock(a) PROVE LateBy'
    BY <2>2, <2>4 DEF LateBy, LapseLock, ServiceOK
  <2>5. ASSUME NEW a \in Address, ExpireLock(a) PROVE LateBy'
    BY <2>2, <2>5 DEF LateBy, ExpireLock, ServiceOK
  <2> QED BY <1>4, <2>3, <2>4, <2>5
          DEF Environment, ExpireKey, ExpireJwt, ExpireAttempts, Disable, SoftDelete,
              OperatorUpdate, lockout
<1>5. CASE UNCHANGED service
  <2>1. UNCHANGED <<req, lock, late>>
    BY <1>5 DEF service
  <2> QED BY <2>1 DEF LateBy, Checkers, At
<1> QED BY <1>1, <1>2, <1>3, <1>4, <1>5, NextIs

LEMMA InitLate == Request # {} /\ Init => LateBy
<1> SUFFICES ASSUME Request # {}, Init PROVE LateBy
  OBVIOUS
<1>1. \A e \in Address : lock[e] = "none" /\ late[e] = 0
  BY DEF Init
<1> QED BY <1>1 DEF LateBy

-----------------------------------------------------------------------------
(* The attempts counter, where no worker dies between INCR and DEL.          *)

\* Requests that have counted to the limit and have not yet reset the counter.
Climbing(q, e) ==
  /\ q.pc \in {"fail.expire", "fail.lock", "fail.reset"}
  /\ q.email = e /\ q.count >= LoginMaxAttempts
Climbers(e) == {r \in Request : Climbing(req[r], e)}

\* Every failure beyond the limit is that of a request which will reset it.
Overshoot ==
  \A e \in Address : attempts[e] <= LoginMaxAttempts - 1 + Cardinality(Climbers(e))

CounterPc == {"fail.expire", "fail.lock", "fail.reset"}

LEMMA KeepsCounter ==
  ASSUME Overshoot, NEW r \in Request, Others(r),
         req[r].pc \notin CounterPc, req'[r].pc \notin CounterPc,
         attempts' = attempts
  PROVE  Overshoot'
<1>1. \A e \in Address : Climbers(e)' = Climbers(e)
  BY DEF Climbers, Climbing, Others, CounterPc
<1> QED BY <1>1 DEF Overshoot

\* A counter that is deleted.
LEMMA ClearsCounter ==
  ASSUME ServiceOK, Overshoot, NEW e \in Address,
         \A a \in Address : a # e => Climbers(a)' = Climbers(a),
         attempts' = [attempts EXCEPT ![e] = 0]
  PROVE  Overshoot'
<1>1. attempts'[e] = 0 /\ \A a \in Address : a # e => attempts'[a] = attempts[a]
  BY DEF ServiceOK
<1>2. Cardinality(Climbers(e)') \in Nat
  BY SubsetSize DEF Climbers
<1> SUFFICES ASSUME NEW a \in Address
             PROVE  attempts'[a] <= LoginMaxAttempts - 1 + Cardinality(Climbers(a)')
  BY DEF Overshoot
<1>3. CASE a = e
  BY <1>1, <1>2, <1>3, SizeAssumption
<1>4. CASE a # e
  BY <1>1, <1>4 DEF Overshoot
<1> QED BY <1>3, <1>4

LEMMA LoginCounter ==
  ASSUME ServiceOK, RequestsOK, Overshoot, NEW r \in Request, LoginStep(r)
  PROVE  Overshoot'
<1>0. req[r] \in Request_ /\ LocalsOK(req[r])
  BY DEF RequestsOK
<1>a. req[r].email \in Address
  BY <1>0 DEF LoginStep, LoginLock, LoginUser, LoginClear, FailIncr, FailExpire, FailLock,
              FailReset, At, LocalsOK, LoginPc
<1>e. PICK e \in Address : e = req[r].email
  BY <1>a
<1>n. Cardinality(Request) \in Nat /\ CountCap = LoginMaxAttempts + Cardinality(Request)
  BY SizeAssumption, FS_CardinalityType DEF CountCap
<1>c. \A a \in Address : /\ Climbers(a) \in SUBSET Request /\ Climbers(a)' \in SUBSET Request
                         /\ Cardinality(Climbers(a)) \in Nat
                         /\ Cardinality(Climbers(a)) <= Cardinality(Request)
                         /\ Cardinality(Climbers(a)') \in Nat
  BY SubsetSize DEF Climbers
<1>o. attempts[e] \in Nat /\ attempts[e] <= LoginMaxAttempts - 1 + Cardinality(Climbers(e))
  BY <1>n DEF ServiceOK, Overshoot
<1>1. CASE LoginLock(r)
  <2>1. Others(r) /\ req'[r].pc \notin CounterPc
    BY <1>1, ReplyAside, GotoAside DEF LoginLock, LoginPc, CounterPc
  <2> QED BY <1>1, <2>1, KeepsCounter
          DEF LoginLock, At, StoresUnchanged, lockout, CounterPc
<1>2. CASE LoginUser(r)
  <2>1. Others(r) /\ req'[r].pc \notin CounterPc
    <3>1. CASE Goto(r, "fail.incr")
      BY <3>1, GotoAside DEF CounterPc
    <3>2. CASE Reply(r)
      BY <3>2, ReplyAside DEF LoginPc, CounterPc
    <3>3. ASSUME NEW u \in UserId, Found(r, u, "login.clear")
          PROVE  Others(r) /\ req'[r].pc \notin CounterPc
      BY <3>3, FoundAside DEF CounterPc
    <3> QED BY <1>2, <3>1, <3>2, <3>3 DEF LoginUser, GetByEmail
  <2> QED BY <1>2, <2>1, KeepsCounter DEF LoginUser, At, lockout, CounterPc
<1>3. CASE LoginClear(r)
  <2>1. Others(r) /\ req'[r].pc = "issue.set"
    BY <1>3, GotoAside DEF LoginClear
  <2>2. \A a \in Address : Climbers(a)' = Climbers(a)
    BY <1>3, <2>1 DEF Climbers, Climbing, Others, LoginClear, At
  <2> QED BY <1>3, <1>e, <2>1, <2>2, ClearsCounter DEF LoginClear
<1>4. CASE FailIncr(r)
  <2>1. PICK n \in Nat : n = IF attempts[e] < CountCap THEN attempts[e] + 1 ELSE CountCap
    BY <1>n, <1>o, SizeAssumption
  <2>2. attempts' = [attempts EXCEPT ![e] = n]
    BY <1>4, <1>e, <2>1 DEF FailIncr
  <2>3. /\ Others(r) /\ req'[r].pc = "fail.expire" /\ req'[r].email = e /\ req'[r].count = n
    BY <1>0, <1>4, <1>e, <2>1 DEF FailIncr, Others, RequestsOK, Request_
  <2>4. \A a \in Address : a # e => Climbers(a)' = Climbers(a)
    BY <1>4, <1>e, <2>3 DEF Climbers, Climbing, Others
  <2>5. n <= attempts[e] + 1
    BY <1>n, <1>o, <1>c, <2>1, SizeAssumption
  <2>6. n <= LoginMaxAttempts - 1 + Cardinality(Climbers(e)')
    <3>1. CASE n < LoginMaxAttempts
      BY <1>c, <3>1, SizeAssumption
    <3>2. CASE n >= LoginMaxAttempts
      <4>1. r \in Climbers(e)'
        BY <2>3, <3>2 DEF Climbers, Climbing
      <4>2. r \notin Climbers(e) /\ Climbers(e) \subseteq Climbers(e)'
        BY <1>4, <2>3 DEF Climbers, Climbing, Others, FailIncr, At
      <4>3. Cardinality(Climbers(e)) + 1 <= Cardinality(Climbers(e)')
        BY <1>c, <4>1, <4>2, SizeJoins
      <4> QED BY <1>c, <1>o, <2>5, <4>3, SizeAssumption
    <3> QED BY <3>1, <3>2, SizeAssumption
  <2> SUFFICES ASSUME NEW a \in Address
               PROVE  attempts'[a] <= LoginMaxAttempts - 1 + Cardinality(Climbers(a)')
    BY DEF Overshoot
  <2>7. CASE a = e
    BY <2>2, <2>6, <2>7 DEF ServiceOK
  <2>8. CASE a # e
    <3>1. attempts'[a] = attempts[a]
      BY <2>2, <2>8 DEF ServiceOK
    <3> QED BY <2>4, <2>8, <3>1 DEF Overshoot
  <2> QED BY <2>7, <2>8
<1>5. CASE FailExpire(r)
  <2>1. /\ Others(r) /\ req'[r].pc # "fail.expire" /\ attempts' = attempts
        /\ \/ /\ ~Climbing(req[r], e) /\ req'[r].pc \notin CounterPc
           \/ /\ req'[r].pc = "fail.lock" /\ req'[r].email = e
              /\ req'[r].count = req[r].count
    BY <1>5, <1>e, ReplyAside, GotoAside
       DEF FailExpire, LimitReached, Climbing, LoginPc, CounterPc
  <2>2. \A a \in Address : Climbers(a)' = Climbers(a)
    BY <1>5, <1>e, <2>1 DEF Climbers, Climbing, Others, FailExpire, At, CounterPc
  <2> QED BY <2>1, <2>2 DEF Overshoot
<1>6. CASE FailLock(r)
  <2>1. /\ Others(r) /\ req'[r].pc = "fail.reset" /\ req'[r].email = e
        /\ req'[r].count = req[r].count /\ UNCHANGED <<attempts, window>>
    BY <1>6, <1>e, GotoAside DEF FailLock
  <2>2. \A a \in Address : Climbers(a)' = Climbers(a)
    BY <1>6, <1>e, <2>1 DEF Climbers, Climbing, Others, FailLock, At
  <2> QED BY <2>1, <2>2 DEF Overshoot
<1>7. CASE FailReset(r)
  <2>1. Others(r) /\ req'[r].pc \notin CounterPc
    BY <1>7, ReplyAside DEF FailReset, LoginPc, CounterPc
  <2>2. \A a \in Address : a # e => Climbers(a)' = Climbers(a)
    BY <1>7, <1>e, <2>1 DEF Climbers, Climbing, Others, CounterPc
  <2> QED BY <1>7, <1>e, <2>1, <2>2, ClearsCounter DEF FailReset
<1> QED BY <1>1, <1>2, <1>3, <1>4, <1>5, <1>6, <1>7 DEF LoginStep

LEMMA NextCounter ==
  ASSUME ~Faults, ServiceOK, RequestsOK, Overshoot, [Next]_vars
  PROVE  Overshoot'
<1>1. ASSUME NEW r \in Request, Call(r) PROVE Overshoot'
  BY <1>1, CallEnters, KeepsCounter DEF StoresUnchanged, lockout, At, Entry, CounterPc
<1>2. ASSUME NEW r \in Request, Step(r) PROVE Overshoot'
  BY <1>2, StepAside, LoginCounter, KeepsCounter DEF Aside, LoginPc, lockout, CounterPc
<1>3. ASSUME NEW r \in Request, Fail(r) PROVE Overshoot'
  BY <1>3 DEF Fail
<1>4. CASE Environment
  <2>1. req' = req
    BY <1>4 DEF Environment, ExpireKey, ExpireJwt, LapseLock, ExpireLock, ExpireAttempts,
                Disable, SoftDelete, OperatorUpdate, Event
  <2>2. \A e \in Address : Climbers(e)' = Climbers(e)
    BY <2>1 DEF Climbers
  <2>3. CASE UNCHANGED attempts
    BY <2>2, <2>3 DEF Overshoot
  <2>4. ASSUME NEW a \in Address, ExpireAttempts(a) PROVE Overshoot'
    BY <2>2, <2>4, ClearsCounter DEF ExpireAttempts
  <2> QED BY <1>4, <2>3, <2>4
          DEF Environment, ExpireKey, ExpireJwt, LapseLock, ExpireLock, Disable, SoftDelete,
              OperatorUpdate, lockout
<1>5. CASE UNCHANGED service
  BY <1>5 DEF service, Overshoot, Climbers
<1> QED BY <1>1, <1>2, <1>3, <1>4, <1>5, NextIs

LEMMA InitCounter == Init => Overshoot
<1> SUFFICES ASSUME Init PROVE Overshoot
  OBVIOUS
<1>1. \A e \in Address : attempts[e] = 0
  BY DEF Init
<1>2. \A e \in Address : Cardinality(Climbers(e)) \in Nat
  BY SubsetSize DEF Climbers
<1> QED BY <1>1, <1>2, SizeAssumption DEF Overshoot

\* Guesses checked while an address is locked are fewer than the requests, for
\* whoever set the lock is none of them; faults and expiries included.
THEOREM LateChecksFew ==
  ASSUME Request # {}
  PROVE  Spec => []LateChecksBounded
<1>1. Init => ServiceOK /\ RequestsOK /\ LateBy
  BY InitOK, InitLate
<1>2. ServiceOK /\ RequestsOK /\ LateBy /\ [Next]_vars => (ServiceOK /\ RequestsOK /\ LateBy)'
  BY NextLate, CallOK, StepOK, FailOK, EnvironmentOK, StutterOK, NextIs
<1>3. ServiceOK /\ LateBy => LateChecksBounded
  <2> SUFFICES ASSUME ServiceOK, LateBy, NEW e \in Address
               PROVE  late[e] < Cardinality(Request)
    BY DEF LateChecksBounded
  <2>1. Cardinality(Checkers(e)) \in Nat /\ late[e] \in Nat
    BY SubsetSize DEF Checkers, ServiceOK
  <2>2. Cardinality(Request) \in Nat \ {0}
    BY SizeAssumption, FS_CardinalityType, FS_EmptySet
  <2> QED BY <2>1, <2>2 DEF LateBy
<1> QED BY <1>1, <1>2, <1>3, PTL DEF Spec

LEMMA CounterInvariant ==
  ASSUME ~Faults
  PROVE  Spec => [](ServiceOK /\ Overshoot)
<1>1. Init => ServiceOK /\ RequestsOK /\ Overshoot
  BY InitOK, InitCounter
<1>2. ServiceOK /\ RequestsOK /\ Overshoot /\ [Next]_vars
        => (ServiceOK /\ RequestsOK /\ Overshoot)'
  BY NextCounter, CallOK, StepOK, FailOK, EnvironmentOK, StutterOK, NextIs
<1> QED BY <1>1, <1>2, PTL DEF Spec

\* Where no handler is cut short, the failures counted against an address
\* overshoot the limit by at most the requests in flight.
THEOREM CountersBounded ==
  ASSUME ~Faults
  PROVE  Spec => []CounterBounded
<1>1. ServiceOK /\ Overshoot => CounterBounded
  <2> SUFFICES ASSUME ServiceOK, Overshoot, NEW e \in Address
               PROVE  attempts[e] < LoginMaxAttempts + Cardinality(Request)
    BY DEF CounterBounded
  <2>1. /\ Cardinality(Climbers(e)) \in Nat /\ Cardinality(Request) \in Nat
        /\ Cardinality(Climbers(e)) <= Cardinality(Request)
    BY SubsetSize DEF Climbers
  <2>2. attempts[e] \in Nat
    BY <2>1, SizeAssumption DEF ServiceOK, CountCap
  <2> QED BY <2>1, <2>2, SizeAssumption DEF Overshoot
<1> QED BY <1>1, CounterInvariant, PTL

-----------------------------------------------------------------------------
(* Sessions, of any number of requests that overlap at every await.          *)

\* login has checked the password and not opened the session yet.
Admitted(q) == q.pc = "login.clear" \/ (q.pc = "issue.set" /\ q.token = NoToken)
\* The jti presented is being exchanged for another; its DEL has been done.
Rotating(q) ==
  q.pc \in {"refresh.delete", "refresh.srem"} \/ (q.pc = "issue.set" /\ q.token # NoToken)
Consumed(q) ==
  q.pc \in {"refresh.srem", "logout.srem"} \/ (q.pc = "issue.set" /\ q.token # NoToken)

\* What the locals of a request say of sessions.  But for the token it has
\* deleted, that holds only where no issuing and no revoking request met.
SessionBy(q) ==
  /\ Consumed(q) => key[q.token] = NoUser
  /\ q.user \notin raced =>
     /\ Admitted(q) => users[q.user].hash = Hash(q.password)
     /\ Rotating(q) => basis[q.token] = users[q.user].hash
     /\ q.pc \in {"issue.index", "issue.respond"} => basis[q.fresh] = users[q.user].hash
     /\ q.pc = "issue.respond" => key[q.fresh] = NoUser \/ q.fresh \in userTokens[q.user]
     /\ q.pc = "revoke.keys" => \A j \in Jti \cap known : key[j] = q.user => j \in q.seen
     /\ q.pc \in Revoked => \A j \in Jti \cap known : key[j] # q.user

SessionPc == IssuePc \cup {"login.clear", "refresh.delete", "refresh.srem", "logout.srem",
                           "revoke.keys", "revoke.index", "reset.commit"}

SessionsGood == OldSessionsEnd /\ SessionsIndexed

ParentsDead == \A i \in Jti : parent[i] # NoToken => Dead(parent[i])

\* The overlaps there are have been noted.
Marked == \A u \in UserId : Races(u) => u \in raced

SessionInv == (\A r \in Request : SessionBy(req[r])) /\ SessionsGood /\ ParentsDead

-----------------------------------------------------------------------------
(* What a step may do to sessions.                                           *)

Remembers == raced \subseteq raced'

\* Minted jtis are bound for good, and never come to work again.
Mild ==
  \A j \in Jti : Minted(j) =>
    key'[j] \in {key[j], NoUser} /\ subject'[j] = subject[j] /\ basis'[j] = basis[j]

HashKept(u) == Committed(u) => users'[u].hash = users[u].hash
IndexKept(u) == \A j \in userTokens[u] : j \in userTokens'[u] \/ key[j] = NoUser
NoneShown(u) == \A j \in Jti \cap known' : j \in known \/ key'[j] # u

\* Whoever is issuing is known to the database.
LEMMA IssuerCommitted ==
  ASSUME RequestsOK, AccountInv, NEW s \in Request, Issuing(req[s])
  PROVE  req[s].user \in UserId /\ Committed(req[s].user)
<1>1. LocalsOK(req[s]) /\ AccountBy(req[s])
  BY DEF RequestsOK, AccountInv, AccountsBy
<1>2. req[s].user \in UserId
  BY <1>1 DEF LocalsOK, Issuing, UserPc, IssuePc
<1>3. req[s].pc \notin Enrolling
  BY DEF Issuing, Enrolling, Drawn, Inserted
<1> QED BY <1>1, <1>2, <1>3, NullAssumption DEF AccountBy

\* A request that does not move keeps what it has said, unless another one
\* touches what it is about: then the two make a race.
LEMMA OtherSession ==
  ASSUME TokenInv, AccountInv, SessionInv, Mild, Remembers,
         NEW s \in Request, req'[s] = req[s],
         Issuing(req[s]) /\ req[s].user \notin raced =>
           HashKept(req[s].user) /\ IndexKept(req[s].user),
         Revoking(req[s]) /\ req[s].user \notin raced => NoneShown(req[s].user)
  PROVE  SessionBy(req[s])'
<1>0. /\ ServiceOK /\ RequestsOK /\ HeldInv /\ LocalsOK(req[s]) /\ HeldBy(req[s])
      /\ SessionBy(req[s])
  BY DEF TokenInv, HeldInv, RequestsOK, SessionInv
<1> PICK q : q = req[s]
  OBVIOUS
<1> SUFFICES SessionBy(q)'
  OBVIOUS
<1>1. Consumed(q) => q.token \in Jti /\ Minted(q.token)
  BY <1>0, NullAssumption
     DEF LocalsOK, Consumed, RefreshPc, LogoutPc, IssuePc, HeldBy, Token
<1>2. Consumed(q) => key'[q.token] = NoUser
  BY <1>0, <1>1 DEF SessionBy, Mild
<1> SUFFICES ASSUME q.user \notin raced
             PROVE  /\ Admitted(q) => users'[q.user].hash = Hash(q.password)
                    /\ Rotating(q) => basis'[q.token] = users'[q.user].hash
                    /\ q.pc \in {"issue.index", "issue.respond"}
                         => basis'[q.fresh] = users'[q.user].hash
                    /\ q.pc = "issue.respond"
                         => key'[q.fresh] = NoUser \/ q.fresh \in userTokens'[q.user]
                    /\ q.pc = "revoke.keys"
                         => \A j \in Jti \cap known' : key'[j] = q.user => j \in q.seen
                    /\ q.pc \in Revoked => \A j \in Jti \cap known' : key'[j] # q.user
  BY <1>2 DEF SessionBy, Admitted, Rotating, Consumed, Remembers
<1>3. ASSUME Issuing(q) PROVE users'[q.user].hash = users[q.user].hash /\ IndexKept(q.user)
  BY <1>0, <1>3, IssuerCommitted DEF HashKept
<1>4. Admitted(q) => users'[q.user].hash = Hash(q.password)
  BY <1>0, <1>3 DEF Admitted, Issuing, SessionBy
<1>5. Rotating(q) => basis'[q.token] = users'[q.user].hash
  <2> SUFFICES ASSUME Rotating(q) PROVE basis'[q.token] = users'[q.user].hash
    OBVIOUS
  <2>1. q.token \in Jti /\ Minted(q.token)
    BY <1>0, NullAssumption DEF LocalsOK, Rotating, RefreshPc, IssuePc, HeldBy, Token
  <2>2. Issuing(q)
    BY DEF Rotating, Issuing
  <2> QED BY <1>0, <1>3, <2>1, <2>2 DEF SessionBy, Mild
<1>6. ASSUME q.pc \in {"issue.index", "issue.respond"}
      PROVE  /\ basis'[q.fresh] = users'[q.user].hash
             /\ q.pc = "issue.respond" =>
                  key'[q.fresh] = NoUser \/ q.fresh \in userTokens'[q.user]
  <2>1. q.fresh \in Jti /\ Minted(q.fresh) /\ Issuing(q)
    BY <1>0, <1>6 DEF LocalsOK, IssuePc, HeldBy, Issued, Issuing
  <2>2. key'[q.fresh] \in {key[q.fresh], NoUser} /\ basis'[q.fresh] = basis[q.fresh]
    BY <2>1 DEF Mild
  <2> QED BY <1>0, <1>3, <1>6, <2>1, <2>2 DEF SessionBy, IndexKept
<1>7. ASSUME Revoking(q), NEW j \in Jti \cap known', key'[j] = q.user
      PROVE  j \in known /\ key[j] = q.user
  <2>1. q.user \in UserId
    BY <1>0, <1>7 DEF Revoking, LocalsOK, UserPc
  <2>2. j \in known
    BY <1>7 DEF NoneShown
  <2>3. Minted(j)
    BY <1>0, <2>2 DEF HeldInv
  <2> QED BY <1>7, <2>1, <2>2, <2>3, NullAssumption DEF Mild
<1>8. q.pc = "revoke.keys" => \A j \in Jti \cap known' : key'[j] = q.user => j \in q.seen
  BY <1>0, <1>7 DEF Revoking, SessionBy
<1>9. q.pc \in Revoked => \A j \in Jti \cap known' : key'[j] # q.user
  BY <1>0, <1>7 DEF Revoking, Revoked, SessionBy
<1> QED BY <1>4, <1>5, <1>6, <1>8, <1>9

LEMMA KeptSessions ==
  ASSUME TokenInv, AccountInv, SessionInv, Mild, Remembers,
         \A u \in UserId \ raced :
           /\ NoneShown(u)
           /\ (HashKept(u) /\ IndexKept(u)) \/ \A j \in Jti \cap known : key[j] # u
  PROVE  SessionsGood'
<1> SUFFICES ASSUME NEW j \in Jti \cap known', key'[j] \in UserId \ raced'
             PROVE  basis'[j] = users'[key'[j]].hash /\ j \in userTokens'[key'[j]]
  BY DEF SessionsGood, OldSessionsEnd, SessionsIndexed
<1> PICK u \in UserId \ raced : u = key'[j]
  BY DEF Remembers
<1>1. j \in known
  BY DEF NoneShown
<1>2. Minted(j) /\ Committed(subject[j]) /\ key[j] \in {subject[j], NoUser}
  BY <1>1 DEF TokenInv, HeldInv, AccountInv, TokensOfCommitted, Token
<1>3. key[j] = u /\ u # NoUser
  BY <1>2, NullAssumption DEF Mild
<1>4. HashKept(u) /\ IndexKept(u)
  BY <1>1, <1>3
<1>5. basis[j] = users[u].hash /\ j \in userTokens[u]
  BY <1>1, <1>3 DEF SessionInv, SessionsGood, OldSessionsEnd, SessionsIndexed
<1> QED BY <1>2, <1>3, <1>4, <1>5 DEF Mild, HashKept, IndexKept

LEMMA KeptParents ==
  ASSUME ServiceOK, SessionInv, Mild, parent' = parent
  PROVE  ParentsDead'
BY DEF SessionInv, ParentsDead, Dead, Mild, Minted, ServiceOK

\* A step that opens no session, and changes neither a password nor an index.
Steady ==
  /\ \A j \in Jti : key'[j] \in {key[j], NoUser} /\ subject'[j] = subject[j]
  /\ UNCHANGED <<parent, basis, userTokens>>
  /\ \A u \in UserId : HashKept(u)
  /\ Jti \cap known' \subseteq known

\* A step that touches nothing a session rests on, or only mints a new one.
LEMMA CalmSession ==
  ASSUME TokenInv, AccountInv, SessionInv, Remembers, Mild,
         \A u \in UserId : HashKept(u) /\ IndexKept(u) /\ NoneShown(u),
         NEW r \in Request, Others(r), SessionBy(req[r])', ParentsDead'
  PROVE  SessionInv'
<1>1. \A s \in Request : Issuing(req[s]) \/ Revoking(req[s]) => req[s].user \in UserId
  <2> SUFFICES ASSUME NEW s \in Request, Issuing(req[s]) \/ Revoking(req[s])
               PROVE  req[s].user \in UserId
    OBVIOUS
  <2>1. LocalsOK(req[s])
    BY DEF TokenInv, RequestsOK
  <2> QED BY <2>1 DEF Issuing, Revoking, LocalsOK, UserPc, IssuePc
<1>2. \A s \in Request : SessionBy(req[s])'
  BY <1>1, OtherSession DEF Others
<1> QED BY <1>2, KeptSessions DEF SessionInv

LEMMA SteadySession ==
  ASSUME TokenInv, AccountInv, SessionInv, Remembers, Steady,
         NEW r \in Request, Others(r), SessionBy(req[r])'
  PROVE  SessionInv'
<1>1. Mild /\ parent' = parent
  BY DEF Steady, Mild
<1>2. \A u \in UserId : HashKept(u) /\ IndexKept(u) /\ NoneShown(u)
  BY DEF Steady, IndexKept, NoneShown
<1>3. ParentsDead'
  BY <1>1, KeptParents DEF TokenInv
<1> QED BY <1>1, <1>2, <1>3, CalmSession

LEMMA PlainSession ==
  ASSUME TokenInv, AccountInv, SessionInv, Remembers, Steady,
         NEW r \in Request, Others(r), req'[r].pc \notin SessionPc
  PROVE  SessionInv'
<1>1. SessionBy(req[r])'
  BY DEF SessionBy, Admitted, Rotating, Consumed, SessionPc, IssuePc, Revoked
<1> QED BY <1>1, SteadySession

LEMMA GotoSelf ==
  ASSUME RequestsOK, NEW r \in Request, NEW l, Goto(r, l)
  PROVE  /\ req'[r].pc = l /\ req'[r].email = req[r].email /\ req'[r].user = req[r].user
         /\ req'[r].token = req[r].token /\ req'[r].fresh = req[r].fresh
         /\ req'[r].password = req[r].password /\ req'[r].seen = req[r].seen
  BY DEF Goto, RequestsOK, Request_

LEMMA FoundSelf ==
  ASSUME RequestsOK, NEW r \in Request, NEW u, NEW l, Found(r, u, l)
  PROVE  /\ req'[r].pc = l /\ req'[r].email = req[r].email /\ req'[r].user = u
         /\ req'[r].token = req[r].token /\ req'[r].fresh = req[r].fresh
         /\ req'[r].password = req[r].password /\ req'[r].seen = req[r].seen
  BY DEF Found, RequestsOK, Request_

LEMMA ReplyPlain ==
  ASSUME RequestsOK, NEW r \in Request, Reply(r)
  PROVE  req'[r].pc \notin SessionPc
  BY DEF Reply, RequestsOK, Idle, SessionPc, IssuePc

\* The row an INSERT writes has had no session.
LEMMA InsertSession ==
  ASSUME TokenInv, AccountInv, SessionInv, Remembers, NEW r \in Request, Others(r),
         RegisterInsert(r)
  PROVE  SessionInv'
<1>0. ServiceOK /\ RequestsOK /\ LocalsOK(req[r]) /\ AccountBy(req[r])
  BY DEF TokenInv, RequestsOK, AccountInv, AccountsBy
<1>1. CASE Reply(r)
  <2>1. Steady
    BY <1>1, <1>0 DEF RegisterInsert, Steady, HashKept, tokens, lineage, clients, database,
                      Reply, Goto,
                      RequestsOK, Idle
  <2> QED BY <1>0, <1>1, <2>1, ReplyPlain, PlainSession
<1>2. CASE Goto(r, "register.token")
  <2> DEFINE u == req[r].user
  <2>1. /\ UNCHANGED <<key, subject, userTokens, parent, basis, known>>
        /\ At(r, "register.insert")
    BY <1>2 DEF RegisterInsert, tokens, lineage, clients
  <2>2. req'[r].pc = "register.token"
    BY <1>0, <1>2, GotoSelf
  <2>3. \A v \in UserId : v # u => users'[v] = users[v]
    BY <1>0 DEF RegisterInsert, ServiceOK, database
  <2>4. ~Committed(u)
    BY <1>0, <2>1 DEF AccountBy, Drawn, At, Committed
  <2>5. Steady
    BY <2>1, <2>3, <2>4 DEF Steady, HashKept
  <2> QED BY <1>0, <2>2, <2>5, PlainSession DEF SessionPc, IssuePc
<1> QED BY <1>1, <1>2 DEF RegisterInsert

LEMMA RegistrationSession ==
  ASSUME TokenInv, AccountInv, SessionInv, Remembers, NEW r \in Request, Others(r),
         RegisterStep(r) \/ VerifyStep(r)
  PROVE  SessionInv'
<1>0. ServiceOK /\ RequestsOK /\ LocalsOK(req[r])
  BY DEF TokenInv, RequestsOK
<1>f. At(r, "register.token") \/ At(r, "register.mail") => req[r].fresh \in VerifyLink
  BY <1>0 DEF LocalsOK, RegisterPc, At
<1>t. At(r, "verify.delete") => req[r].token \in VerifyLink
  BY <1>0 DEF LocalsOK, VerifyPc, At
<1>1. CASE RegisterLookup(r)
  <2>1. Steady
    BY <1>1 DEF RegisterLookup, StoresUnchanged, Steady, HashKept, tokens, lineage, clients,
                database
  <2> QED BY <1>0, <1>1, <2>1, PlainSession, ReplyPlain, GotoSelf DEF RegisterLookup,
                                                                      SessionPc, IssuePc
<1>2. CASE RegisterInsert(r)
  BY <1>2, InsertSession
<1>3. CASE RegisterToken(r)
  <2>1. Steady
    BY <1>0, <1>3, <1>f, TokenAssumption
       DEF RegisterToken, Steady, HashKept, clients, database, ServiceOK, Token, Link
  <2> QED BY <1>0, <1>3, <2>1, PlainSession, GotoSelf DEF RegisterToken, SessionPc, IssuePc
<1>4. CASE RegisterCommit(r)
  <2>1. Steady
    BY <1>0, <1>4 DEF RegisterCommit, Steady, HashKept, tokens, lineage, clients, ServiceOK, Row_
  <2> QED BY <1>0, <1>4, <2>1, PlainSession, GotoSelf DEF RegisterCommit, SessionPc, IssuePc
<1>5. CASE RegisterMail(r)
  <2>1. Steady
    BY <1>5, <1>f, TokenAssumption
       DEF RegisterMail, MailFresh, Steady, HashKept, tokens, lineage, database
  <2> QED BY <1>0, <1>5, <2>1, PlainSession, ReplyPlain DEF RegisterMail, MailFresh
<1>6. CASE VerifyGet(r)
  <2>1. Steady
    BY <1>6 DEF VerifyGet, StoresUnchanged, Steady, HashKept, tokens, lineage, clients, database
  <2> QED BY <1>0, <1>6, <2>1, PlainSession, ReplyPlain, FoundSelf DEF VerifyGet, SessionPc,
                                                                       IssuePc
<1>7. CASE VerifyUser(r)
  <2>1. Steady
    BY <1>7 DEF VerifyUser, StoresUnchanged, Steady, HashKept, tokens, lineage, clients,
                database
  <2> QED BY <1>0, <1>7, <2>1, PlainSession, ReplyPlain, GotoSelf DEF VerifyUser, SessionPc,
                                                                      IssuePc
<1>8. CASE VerifyDelete(r)
  <2>1. Steady
    BY <1>0, <1>8 DEF VerifyDelete, Steady, HashKept, lineage, clients, database, ServiceOK, Token
  <2> QED BY <1>0, <1>8, <2>1, PlainSession, GotoSelf DEF VerifyDelete, SessionPc, IssuePc
<1>9. CASE VerifyCommit(r)
  <2>1. Steady
    BY <1>0, <1>9 DEF VerifyCommit, Steady, HashKept, tokens, lineage, clients, ServiceOK, Row_
  <2> QED BY <1>0, <1>9, <2>1, PlainSession, ReplyPlain DEF VerifyCommit
<1> QED BY <1>1, <1>2, <1>3, <1>4, <1>5, <1>6, <1>7, <1>8, <1>9 DEF RegisterStep, VerifyStep

LEMMA LoginSession ==
  ASSUME TokenInv, AccountInv, SessionInv, Remembers, NEW r \in Request, Others(r), LoginStep(r)
  PROVE  SessionInv'
<1>0. ServiceOK /\ RequestsOK /\ LocalsOK(req[r]) /\ SessionBy(req[r])
  BY DEF TokenInv, RequestsOK, SessionInv
<1>1. Steady /\ users' = users
  BY DEF LoginStep, LoginLock, LoginUser, LoginClear, FailIncr, FailExpire, FailLock, FailReset,
         StoresUnchanged, Steady, HashKept, tokens, lineage, clients, database
<1>2. CASE LoginLock(r)
  BY <1>0, <1>1, <1>2, PlainSession, ReplyPlain, GotoSelf DEF LoginLock, SessionPc, IssuePc
<1>3. CASE LoginUser(r)
  <2>1. CASE Goto(r, "fail.incr")
    BY <1>0, <1>1, <2>1, PlainSession, GotoSelf DEF SessionPc, IssuePc
  <2>2. CASE Reply(r)
    BY <1>0, <1>1, <2>2, PlainSession, ReplyPlain
  <2>3. ASSUME NEW u \in UserId, Verifies(req[r].password, users[u].hash),
               Found(r, u, "login.clear")
        PROVE  SessionInv'
    <3>1. SessionBy(req[r])'
      BY <1>0, <1>1, <2>3, FoundSelf
         DEF SessionBy, Admitted, Rotating, Consumed, Revoked, Verifies
    <3> QED BY <1>1, <3>1, SteadySession
  <2> QED BY <1>3, <2>1, <2>2, <2>3 DEF LoginUser, GetByEmail
<1>4. CASE LoginClear(r)
  <2>1. req[r].token = NoToken
    BY <1>0, <1>4 DEF LoginClear, LocalsOK, LoginPc, At
  <2>2. SessionBy(req[r])'
    BY <1>0, <1>1, <1>4, <2>1, GotoSelf
       DEF LoginClear, SessionBy, Admitted, Rotating, Consumed, Revoked, At, Remembers
  <2> QED BY <1>1, <2>2, SteadySession
<1>5. CASE FailIncr(r)
  BY <1>0, <1>1, <1>5, PlainSession DEF FailIncr, RequestsOK, Request_, SessionPc, IssuePc
<1>6. CASE FailExpire(r) \/ FailLock(r) \/ FailReset(r)
  BY <1>0, <1>1, <1>6, PlainSession, ReplyPlain, GotoSelf
     DEF FailExpire, FailLock, FailReset, SessionPc, IssuePc
<1> QED BY <1>2, <1>3, <1>4, <1>5, <1>6 DEF LoginStep

LEMMA IssueSession ==
  ASSUME TokenInv, AccountInv, SessionInv, Marked, Remembers,
         NEW r \in Request, Others(r), IssueStep(r)
  PROVE  SessionInv'
<1>0. /\ ServiceOK /\ RequestsOK /\ FreshInv /\ HeldInv /\ HeldBy(req[r]) /\ LocalsOK(req[r])
      /\ SessionBy(req[r]) /\ AccountBy(req[r])
  BY DEF TokenInv, HeldInv, RequestsOK, SessionInv, AccountInv, AccountsBy
<1>j. /\ req[r].fresh \in Jti /\ req[r].token \in Jti \cup {NoToken} /\ req[r].user \in UserId
  BY <1>0 DEF IssueStep, IssueSet, IssueIndex, IssueRespond, At, LocalsOK, IssuePc, UserPc
<1>p. PICK j \in Jti, u \in UserId : j = req[r].fresh /\ u = req[r].user
  BY <1>j
<1>1. CASE IssueSet(r)
  <2>1. /\ UNCHANGED <<users, userTokens, known>> /\ At(r, "issue.set")
        /\ key' = [key EXCEPT ![j] = u] /\ subject' = [subject EXCEPT ![j] = u]
        /\ parent' = [parent EXCEPT ![j] = req[r].token]
    BY <1>1, <1>p DEF IssueSet, NewJti, database, clients
  <2>2. basis' = [basis EXCEPT ![j] = IF req[r].token = NoToken THEN Hash(req[r].password)
                                                                ELSE basis[req[r].token]]
    BY <1>1, <1>p DEF IssueSet, NewJti
  <2>3. subject[j] = NoUser /\ j \notin known
    BY <1>0, <1>p, <2>1 DEF FreshInv, At, Unissued, HeldInv, Minted
  <2>4. /\ req'[r].pc = "issue.index" /\ req'[r].user = u /\ req'[r].fresh = j
    BY <1>0, <1>1, <1>p, GotoSelf DEF IssueSet
  <2>5. u \notin raced => basis'[j] = users[u].hash
    <3>1. basis'[j] = IF req[r].token = NoToken THEN Hash(req[r].password)
                                                ELSE basis[req[r].token]
      BY <1>0, <2>2 DEF ServiceOK
    <3> QED BY <1>0, <1>p, <2>1, <3>1 DEF SessionBy, Admitted, Rotating, At
  <2>6. SessionBy(req[r])'
    BY <2>1, <2>4, <2>5 DEF SessionBy, Admitted, Rotating, Consumed, Revoked, Remembers
  <2>7. Mild
    BY <1>0, <2>1, <2>2, <2>3 DEF Mild, Minted, ServiceOK, Token
  <2>8. \A v \in UserId : HashKept(v) /\ IndexKept(v) /\ NoneShown(v)
    BY <2>1 DEF HashKept, IndexKept, NoneShown
  <2>9. ParentsDead'
    <3> SUFFICES ASSUME NEW i \in Jti, parent'[i] # NoToken
                 PROVE  subject'[parent'[i]] # NoUser /\ key'[parent'[i]] = NoUser
      BY DEF ParentsDead, Dead
    <3>1. parent'[i] \in Jti /\ Dead(parent'[i])
      <4>1. CASE i = j
        BY <1>0, <1>j, <2>1, <4>1 DEF ServiceOK, SessionBy, Consumed, At, HeldBy, Minted, Dead
      <4>2. CASE i # j
        BY <1>0, <2>1, <4>2 DEF ServiceOK, SessionInv, ParentsDead
      <4> QED BY <4>1, <4>2
    <3> QED BY <2>7, <3>1 DEF Dead, Mild, Minted
  <2> QED BY <2>6, <2>7, <2>8, <2>9, CalmSession
<1>2. CASE IssueIndex(r)
  <2>1. /\ UNCHANGED <<users, key, subject, known, parent, basis>> /\ At(r, "issue.index")
        /\ userTokens' = [userTokens EXCEPT ![u] = @ \cup {j}]
    BY <1>2, <1>p DEF IssueIndex, NewJti, database, clients, lineage
  <2>2. /\ req'[r].pc = "issue.respond" /\ req'[r].user = u /\ req'[r].fresh = j
    BY <1>0, <1>2, <1>p, GotoSelf DEF IssueIndex
  <2>3. j \in userTokens'[u] /\ \A v \in UserId : userTokens[v] \subseteq userTokens'[v]
    BY <1>0, <2>1 DEF ServiceOK
  <2>4. SessionBy(req[r])'
    BY <1>0, <1>p, <2>1, <2>2, <2>3
       DEF SessionBy, Admitted, Rotating, Consumed, Revoked, At, Remembers
  <2>5. Mild /\ \A v \in UserId : HashKept(v) /\ IndexKept(v) /\ NoneShown(v)
    BY <2>1, <2>3 DEF Mild, HashKept, IndexKept, NoneShown
  <2> QED BY <1>0, <2>1, <2>4, <2>5, KeptParents, CalmSession
<1>3. CASE IssueRespond(r)
  <2>1. /\ UNCHANGED <<users, key, subject, userTokens, parent, basis>>
        /\ At(r, "issue.respond") /\ known' = known \cup {j}
    BY <1>3, <1>p DEF IssueRespond, NewJti, database, tokens, lineage
  <2>2. SessionBy(req[r])'
    BY <1>0, <1>3, ReplyPlain
       DEF IssueRespond, SessionBy, Admitted, Rotating, Consumed, Revoked, SessionPc, IssuePc
  <2>3. key[j] \in {u, NoUser}
    BY <1>0, <1>p, <2>1 DEF AccountBy, Issued, At, AccountInv, TokensOfCommitted, Token
  <2>4. Mild /\ \A v \in UserId : HashKept(v) /\ IndexKept(v)
    BY <2>1 DEF Mild, HashKept, IndexKept
  <2>5. \A v \in UserId \ {u} : NoneShown(v)
    BY <2>1, <2>3, NullAssumption DEF NoneShown
  <2>6. ASSUME NEW s \in Request \ {r} PROVE SessionBy(req[s])'
    <3>1. Revoking(req[s]) /\ req[s].user \notin raced => req[s].user \in UserId \ {u}
      <4> SUFFICES ASSUME Revoking(req[s]), req[s].user \notin raced
                   PROVE  req[s].user \in UserId \ {u}
        OBVIOUS
      <4>1. req[s].user \in UserId
        BY <1>0 DEF RequestsOK, LocalsOK, Revoking, UserPc
      <4>2. req[s].user = u => Races(u)
        BY <1>p, <2>1 DEF Races, Issuing, At
      <4> QED BY <4>1, <4>2 DEF Marked
    <3>2. Issuing(req[s]) => req[s].user \in UserId
      BY <1>0, IssuerCommitted
    <3> QED BY <2>4, <2>5, <3>1, <3>2, OtherSession DEF Others
  <2>7. SessionsGood'
    <3> SUFFICES ASSUME NEW i \in Jti \cap known', key[i] \in UserId \ raced'
                 PROVE  basis[i] = users[key[i]].hash /\ i \in userTokens[key[i]]
      BY <2>1 DEF SessionsGood, OldSessionsEnd, SessionsIndexed
    <3>1. key[i] \notin raced /\ key[i] # NoUser
      BY NullAssumption DEF Remembers
    <3>2. CASE i = j
      BY <1>0, <1>p, <2>1, <2>3, <3>1, <3>2 DEF SessionBy, At
    <3>3. CASE i # j
      BY <2>1, <3>1, <3>3 DEF SessionInv, SessionsGood, OldSessionsEnd, SessionsIndexed
    <3> QED BY <3>2, <3>3
  <2> QED BY <1>0, <2>1, <2>2, <2>4, <2>6, <2>7, KeptParents DEF SessionInv
<1> QED BY <1>1, <1>2, <1>3 DEF IssueStep

\* SREM takes only a dead jti out of the index.
LEMMA SremSession ==
  ASSUME TokenInv, AccountInv, SessionInv, Remembers, NEW r \in Request, Others(r),
         NEW t \in Jti, NEW u, key[t] = NoUser,
         userTokens' = [userTokens EXCEPT ![u] = @ \ {t}],
         UNCHANGED <<users, key, subject, known, parent, basis>>, SessionBy(req[r])'
  PROVE  SessionInv'
<1>1. \A v \in UserId : \A i \in userTokens[v] : i # t => i \in userTokens'[v]
  BY DEF TokenInv, ServiceOK
<1>2. Mild /\ \A v \in UserId : HashKept(v) /\ IndexKept(v) /\ NoneShown(v)
  BY <1>1 DEF Mild, HashKept, IndexKept, NoneShown
<1> QED BY <1>2, KeptParents, CalmSession DEF TokenInv

LEMMA RotateSession ==
  ASSUME TokenInv, AccountInv, SessionInv, Remembers, NEW r \in Request, Others(r),
         RefreshStep(r) \/ LogoutStep(r)
  PROVE  SessionInv'
<1>0. /\ ServiceOK /\ RequestsOK /\ LocalsOK(req[r]) /\ SessionBy(req[r]) /\ AccountBy(req[r])
  BY DEF TokenInv, HeldInv, RequestsOK, SessionInv, AccountInv, AccountsBy
<1>j. req[r].token \in Jti
  BY <1>0 DEF RefreshStep, RefreshGet, RefreshDelete, RefreshSrem, LogoutStep, LogoutDelete,
              LogoutSrem, At, LocalsOK, RefreshPc, LogoutPc
<1>k. req[r].token \in known /\ req[r].token # NoToken
  BY <1>0, <1>j, NullAssumption DEF AccountBy, Token
<1>t. PICK t \in Jti : t = req[r].token
  BY <1>j
<1>1. CASE RefreshGet(r)
  <2>1. Steady /\ UNCHANGED <<users, basis, parent>>
    BY <1>1 DEF RefreshGet, StoresUnchanged, Steady, HashKept, tokens, lineage, clients,
                database, lockout
  <2>2. CASE Reply(r)
    BY <1>0, <2>1, <2>2, PlainSession, ReplyPlain
  <2>3. CASE key[t] # NoUser /\ key[t] = subject[t] /\ Found(r, subject[t], "refresh.delete")
    <3>1. subject[t] \in UserId
      BY <1>0, <2>3 DEF ServiceOK, Token
    <3>2. subject[t] \notin raced => basis[t] = users[subject[t]].hash
      BY <1>k, <1>t, <2>3, <3>1 DEF SessionInv, SessionsGood, OldSessionsEnd
    <3>3. SessionBy(req[r])'
      BY <1>0, <1>t, <2>1, <2>3, <3>2, FoundSelf
         DEF SessionBy, Admitted, Rotating, Consumed, Revoked, Remembers
    <3> QED BY <1>0, <2>1, <3>3, SteadySession
  <2> QED BY <1>1, <1>t, <2>2, <2>3 DEF RefreshGet
<1>2. CASE RefreshDelete(r)
  <2>1. /\ UNCHANGED <<users, userTokens, subject, known, parent, basis>>
        /\ key' = [key EXCEPT ![t] = NoUser] /\ At(r, "refresh.delete")
    BY <1>2, <1>t DEF RefreshDelete, lineage, clients, database
  <2>2. Steady /\ key'[t] = NoUser
    BY <1>0, <2>1 DEF Steady, HashKept, ServiceOK, Token
  <2>3. SessionBy(req[r])'
    BY <1>0, <1>2, <1>t, <2>1, <2>2, GotoSelf
       DEF RefreshDelete, SessionBy, Admitted, Rotating, Consumed, Revoked, At, Remembers
  <2> QED BY <1>0, <2>2, <2>3, SteadySession
<1>3. CASE RefreshSrem(r)
  <2>1. /\ UNCHANGED <<users, key, subject, known, parent, basis>> /\ At(r, "refresh.srem")
        /\ userTokens' = [userTokens EXCEPT ![req[r].user] = @ \ {t}]
    BY <1>3, <1>t DEF RefreshSrem, lineage, clients, database
  <2>2. key[t] = NoUser
    BY <1>0, <1>t, <2>1 DEF SessionBy, Consumed, Revoked, At, Remembers
  <2>3. SessionBy(req[r])'
    BY <1>0, <1>3, <1>k, <1>t, <2>1, <2>2, GotoSelf
       DEF RefreshSrem, SessionBy, Admitted, Rotating, Consumed, Revoked, At, Remembers
  <2> QED BY <1>0, <2>1, <2>2, <2>3, SremSession
<1>4. CASE LogoutDelete(r)
  <2>1. /\ UNCHANGED <<users, userTokens, subject, known, parent, basis>>
        /\ \/ Reply(r) /\ UNCHANGED key
           \/ key' = [key EXCEPT ![t] = NoUser] /\ Found(r, subject[t], "logout.srem")
    BY <1>4, <1>t DEF LogoutDelete, lineage, clients, database
  <2>2. Steady
    BY <1>0, <2>1 DEF Steady, HashKept, ServiceOK, Token
  <2>3. CASE Reply(r)
    BY <1>0, <2>2, <2>3, PlainSession, ReplyPlain
  <2>4. CASE key' = [key EXCEPT ![t] = NoUser] /\ Found(r, subject[t], "logout.srem")
    <3>1. key'[t] = NoUser
      BY <1>0, <2>4 DEF ServiceOK, Token
    <3>2. SessionBy(req[r])'
      BY <1>0, <1>t, <2>4, <3>1, FoundSelf DEF SessionBy, Admitted, Rotating, Consumed,
                                               Revoked, Remembers
    <3> QED BY <1>0, <2>2, <3>2, SteadySession
  <2> QED BY <2>1, <2>3, <2>4
<1>5. CASE LogoutSrem(r)
  <2>1. /\ UNCHANGED <<users, key, subject, known, parent, basis>> /\ At(r, "logout.srem")
        /\ userTokens' = [userTokens EXCEPT ![req[r].user] = @ \ {t}]
    BY <1>5, <1>t DEF LogoutSrem, lineage, clients, database
  <2>2. key[t] = NoUser
    BY <1>0, <1>t, <2>1 DEF SessionBy, Consumed, Revoked, At, Remembers
  <2>3. SessionBy(req[r])'
    BY <1>0, <1>5, ReplyPlain
       DEF LogoutSrem, SessionBy, Admitted, Rotating, Consumed, Revoked, SessionPc, IssuePc
  <2> QED BY <1>0, <2>1, <2>2, <2>3, SremSession
<1> QED BY <1>1, <1>2, <1>3, <1>4, <1>5 DEF RefreshStep, LogoutStep

LEMMA ForgotSession ==
  ASSUME TokenInv, AccountInv, SessionInv, Remembers, NEW r \in Request, Others(r),
         ForgotStep(r)
  PROVE  SessionInv'
<1>0. ServiceOK /\ RequestsOK /\ LocalsOK(req[r])
  BY DEF TokenInv, RequestsOK
<1>f. req[r].fresh \in ResetLink
  BY <1>0 DEF ForgotStep, ForgotLookup, ForgotSet, ForgotMail, At, LocalsOK, ForgotPc
<1>1. CASE ForgotLookup(r)
  <2>1. Steady
    BY <1>1 DEF ForgotLookup, StoresUnchanged, Steady, HashKept, tokens, lineage, clients,
                database
  <2> QED BY <1>0, <1>1, <2>1, PlainSession, ReplyPlain, FoundSelf
          DEF ForgotLookup, SessionPc, IssuePc
<1>2. CASE ForgotSet(r)
  <2>1. Steady
    BY <1>0, <1>2, <1>f, TokenAssumption
       DEF ForgotSet, Steady, HashKept, clients, database, ServiceOK, Token, Link
  <2> QED BY <1>0, <1>2, <2>1, PlainSession, GotoSelf DEF ForgotSet, SessionPc, IssuePc
<1>3. CASE ForgotMail(r)
  <2>1. Steady
    BY <1>3, <1>f, TokenAssumption
       DEF ForgotMail, MailFresh, Steady, HashKept, tokens, lineage, database
  <2> QED BY <1>0, <1>3, <2>1, PlainSession, ReplyPlain DEF ForgotMail, MailFresh
<1> QED BY <1>1, <1>2, <1>3 DEF ForgotStep

LEMMA ResetSession ==
  ASSUME TokenInv, AccountInv, SessionInv, Marked, Remembers,
         NEW r \in Request, Others(r), ResetStep(r)
  PROVE  SessionInv'
<1>0. /\ ServiceOK /\ RequestsOK /\ LocalsOK(req[r]) /\ req[r] \in Request_ /\ SessionBy(req[r])
      /\ HeldBy(req[r])
  BY DEF TokenInv, HeldInv, RequestsOK, SessionInv
<1>u. ~At(r, "reset.get") => req[r].user \in UserId
  BY <1>0 DEF ResetStep, ResetGet, ResetUser, ResetDelete, RevokeMembers, RevokeKeys,
              RevokeIndex, ResetCommit, At, LocalsOK, UserPc
<1>1. CASE ResetGet(r)
  <2>1. Steady
    BY <1>1 DEF ResetGet, StoresUnchanged, Steady, HashKept, tokens, lineage, clients, database
  <2> QED BY <1>0, <1>1, <2>1, PlainSession, ReplyPlain, FoundSelf DEF ResetGet, SessionPc,
                                                                       IssuePc
<1>2. CASE ResetUser(r)
  <2>1. Steady
    BY <1>2 DEF ResetUser, StoresUnchanged, Steady, HashKept, tokens, lineage, clients, database
  <2> QED BY <1>0, <1>2, <2>1, PlainSession, ReplyPlain, GotoSelf DEF ResetUser, SessionPc,
                                                                      IssuePc
<1>3. CASE ResetDelete(r)
  <2>1. Steady
    BY <1>0, <1>3 DEF ResetDelete, Steady, HashKept, lineage, clients, database, ServiceOK, Token
  <2> QED BY <1>0, <1>3, <2>1, PlainSession, GotoSelf DEF ResetDelete, SessionPc, IssuePc
<1>4. CASE RevokeMembers(r)
  <2> DEFINE jtis == userTokens[req[r].user]
             l == IF jtis = {} THEN "revoke.index" ELSE "revoke.keys"
             q == [req[r] EXCEPT !.seen = jtis, !.pc = l]
  <2>1. req'[r] = q
    BY <1>0, <1>4 DEF RevokeMembers, RequestsOK
  <2>2. q.user = req[r].user /\ q.seen = jtis /\ q.pc = l
    BY <1>0 DEF Request_
  <2>3. l \in {"revoke.index", "revoke.keys"}
    OBVIOUS
  <2>4. Steady
    BY <1>4 DEF RevokeMembers, StoresUnchanged, Steady, HashKept, tokens, lineage, clients,
                database
  <2> HIDE DEF q, l
  <2>5. SessionBy(req[r])'
    <3>1. req'[r].user = req[r].user /\ req'[r].seen = userTokens[req[r].user] /\ req'[r].pc = l
      BY <2>1, <2>2
    <3>2. req[r].user \notin raced =>
            \A j \in Jti \cap known : key[j] = req[r].user => j \in userTokens[req[r].user]
      BY <1>4, <1>u DEF SessionInv, SessionsGood, SessionsIndexed, RevokeMembers, At
    <3>3. l = "revoke.index" => userTokens[req[r].user] = {}
      BY DEF l
    <3>4. UNCHANGED <<key, known>>
      BY <1>4 DEF RevokeMembers, StoresUnchanged, tokens, clients
    <3> QED BY <2>3, <3>1, <3>2, <3>3, <3>4
            DEF SessionBy, Admitted, Rotating, Consumed, Revoked, Remembers
  <2> QED BY <2>4, <2>5, SteadySession
<1>5. CASE RevokeKeys(r)
  <2>1. Steady /\ known' = known
    BY <1>0, <1>5 DEF RevokeKeys, Steady, HashKept, lineage, clients, database, Token
  <2>2. \A j \in Jti : key'[j] # req[r].user \/ (key[j] = req[r].user /\ j \notin req[r].seen)
    BY <1>5, <1>u, NullAssumption DEF RevokeKeys, At, Token
  <2>3. SessionBy(req[r])'
    BY <1>0, <1>5, <2>1, <2>2, GotoSelf
       DEF RevokeKeys, SessionBy, Admitted, Rotating, Consumed, Revoked, At, Remembers
  <2> QED BY <2>1, <2>3, SteadySession
<1>6. CASE RevokeIndex(r) \/ ResetCommit(r)
  <2>1. PICK u \in UserId : u = req[r].user
    BY <1>6, <1>u DEF RevokeIndex, ResetCommit, At
  <2>2. /\ UNCHANGED <<key, subject, known, parent, basis>> /\ req[r].pc \in Revoked
        /\ \/ users' = users /\ userTokens' = [userTokens EXCEPT ![u] = {}]
           \/ userTokens' = userTokens
                /\ users' = [users EXCEPT ![u].hash = Hash(req[r].password)]
    BY <1>6, <2>1 DEF RevokeIndex, ResetCommit, lineage, clients, database, tokens, At, Revoked
  <2>3. Mild /\ \A v \in UserId : NoneShown(v)
    BY <2>2 DEF Mild, NoneShown
  <2>4. \A v \in UserId \ {u} : HashKept(v) /\ IndexKept(v)
    BY <1>0, <2>2 DEF HashKept, IndexKept, ServiceOK
  <2>5. u \notin raced => \A j \in Jti \cap known : key[j] # u
    BY <1>0, <2>1, <2>2 DEF SessionBy
  <2>6. ASSUME NEW s \in Request \ {r} PROVE SessionBy(req[s])'
    <3>1. Issuing(req[s]) /\ req[s].user \notin raced => req[s].user \in UserId \ {u}
      <4>1. Issuing(req[s]) => req[s].user \in UserId
        BY <1>0, IssuerCommitted
      <4>2. Issuing(req[s]) /\ req[s].user = u => Races(u)
        BY <2>1, <2>2 DEF Races, Revoking, Revoked
      <4> QED BY <4>1, <4>2 DEF Marked
    <3>2. Revoking(req[s]) => req[s].user \in UserId
      BY <1>0 DEF RequestsOK, LocalsOK, Revoking, UserPc
    <3> QED BY <2>3, <2>4, <3>1, <3>2, OtherSession DEF Others
  <2>7. SessionBy(req[r])'
    <3>1. CASE RevokeIndex(r)
      BY <1>0, <2>1, <2>2, <2>5, <3>1, GotoSelf
         DEF RevokeIndex, SessionBy, Admitted, Rotating, Consumed, Revoked, Remembers
    <3>2. CASE ResetCommit(r)
      BY <1>0, <3>2, ReplyPlain
         DEF ResetCommit, SessionBy, Admitted, Rotating, Consumed, Revoked, SessionPc, IssuePc
    <3> QED BY <1>6, <3>1, <3>2
  <2>8. SessionsGood'
    BY <2>3, <2>4, <2>5, KeptSessions
  <2>9. ParentsDead'
    BY <1>0, <2>2, <2>3, KeptParents
  <2> QED BY <2>6, <2>7, <2>8, <2>9 DEF SessionInv
<1> QED BY <1>1, <1>2, <1>3, <1>4, <1>5, <1>6 DEF ResetStep

LEMMA EnvironmentSession ==
  ASSUME TokenInv, AccountInv, SessionInv, Remembers, Environment
  PROVE  SessionInv'
<1>0. ServiceOK /\ RequestsOK
  BY DEF TokenInv
<1>1. /\ req' = req /\ known' = known /\ subject' = subject /\ parent' = parent /\ basis' = basis
      /\ userTokens' = userTokens
  BY DEF Environment, ExpireKey, ExpireJwt, LapseLock, ExpireLock, ExpireAttempts, Disable,
         SoftDelete, OperatorUpdate, Event, tokens
<1>2. \A t \in Token : key'[t] \in {key[t], NoUser}
  BY <1>0 DEF Environment, ExpireKey, ExpireJwt, LapseLock, ExpireLock, ExpireAttempts, Disable,
              SoftDelete, OperatorUpdate, tokens, ServiceOK
<1>3. \A u \in UserId : users'[u].hash = users[u].hash
  <2>1. ASSUME NEW v \in UserId, Disable(v) \/ SoftDelete(v)
        PROVE  \A u \in UserId : users'[u].hash = users[u].hash
    <3>1. PICK to \in Status : users' = [users EXCEPT ![v].status = to]
      BY <2>1 DEF Disable, SoftDelete, OperatorUpdate, Status
    <3> QED BY <1>0, <3>1 DEF ServiceOK, Row_
  <2> QED BY <2>1 DEF Environment, ExpireKey, ExpireJwt, LapseLock, ExpireLock, ExpireAttempts,
                      database
<1>4. Mild
  BY <1>1, <1>2 DEF Mild, Token
<1>5. \A u \in UserId : HashKept(u) /\ IndexKept(u) /\ NoneShown(u)
  BY <1>1, <1>3 DEF HashKept, IndexKept, NoneShown
<1>6. \A s \in Request : Issuing(req[s]) \/ Revoking(req[s]) => req[s].user \in UserId
  BY <1>0 DEF RequestsOK, LocalsOK, Issuing, Revoking, UserPc, IssuePc
<1>7. \A s \in Request : SessionBy(req[s])'
  BY <1>1, <1>4, <1>5, <1>6, OtherSession
<1>8. SessionsGood' /\ ParentsDead'
  BY <1>0, <1>1, <1>4, <1>5, KeptSessions, KeptParents
<1> QED BY <1>7, <1>8 DEF SessionInv

LEMMA NextMarks ==
  ASSUME Marked, [Next]_vars
  PROVE  Remembers /\ Marked'
<1>1. CASE \E r \in Request : Call(r) \/ Step(r) \/ Fail(r)
  <2>1. Noted
    BY <1>1, RequestNotes
  <2> QED BY <2>1 DEF Noted, Remembers, Marked
<1>2. CASE UNCHANGED <<req, raced>>
  BY <1>2 DEF Remembers, Marked, Races
<1>3. CASE Environment
  BY <1>2, <1>3 DEF Environment, ExpireKey, ExpireJwt, LapseLock, ExpireLock, ExpireAttempts,
                    Disable, SoftDelete, OperatorUpdate, Event
<1>4. CASE UNCHANGED vars
  BY <1>2, <1>4 DEF vars, service
<1>5. CASE Guarded
  BY <1>2, <1>5, GuardedApart DEF service
<1> QED BY <1>1, <1>3, <1>4, <1>5 DEF Next, Quiet

LEMMA NextSession ==
  ASSUME TokenInv, AccountInv, SessionInv, Marked, [Next]_vars
  PROVE  SessionInv' /\ Marked'
<1>0. ServiceOK /\ RequestsOK
  BY DEF TokenInv
<1>1. Remembers /\ Marked'
  BY NextMarks
<1>2. ASSUME NEW r \in Request, Call(r) PROVE SessionInv'
  <2>1. StoresUnchanged /\ Others(r) /\ req'[r].pc \notin SessionPc
    BY <1>0, <1>2, CallEnters DEF Entry, SessionPc, IssuePc
  <2>2. Steady
    BY <2>1 DEF StoresUnchanged, Steady, HashKept, tokens, lineage, clients, database
  <2> QED BY <1>1, <2>1, <2>2, PlainSession
<1>3. ASSUME NEW r \in Request, Step(r) PROVE SessionInv'
  <2>1. Others(r)
    BY <1>0, <1>3, StepShape DEF MovesOn, Others
  <2> QED BY <1>1, <1>3, <2>1, RegistrationSession, LoginSession, IssueSession, RotateSession,
             ForgotSession, ResetSession DEF Step
<1>4. ASSUME NEW r \in Request, Fail(r) PROVE SessionInv'
  <2>1. Steady
    BY <1>0, <1>4 DEF Fail, Steady, HashKept, tokens, lineage, clients, ServiceOK, Row_
  <2> QED BY <1>0, <1>1, <1>4, <2>1, ReplyAside, ReplyPlain, PlainSession DEF Fail
<1>5. CASE Environment
  BY <1>1, <1>5, EnvironmentSession
<1>6. CASE UNCHANGED service
  <2>1. UNCHANGED <<users, key, userTokens, req, subject, known, parent, basis>>
    BY <1>6 DEF service
  <2>2. Mild /\ \A u \in UserId : HashKept(u) /\ IndexKept(u) /\ NoneShown(u)
    BY <2>1 DEF Mild, HashKept, IndexKept, NoneShown
  <2>3. \A s \in Request : SessionBy(req[s])'
    <3> TAKE s \in Request
    <3>1. SessionBy(req[s]) /\ (req[s].user \in raced => req[s].user \in raced')
      BY <1>1 DEF SessionInv, Remembers
    <3> QED BY <2>1, <3>1 DEF SessionBy, Admitted, Rotating, Consumed, Revoked
  <2> QED BY <1>0, <1>1, <2>1, <2>2, <2>3, KeptSessions, KeptParents DEF SessionInv
<1> QED BY <1>1, <1>2, <1>3, <1>4, <1>5, <1>6, NextIs

LEMMA InitSession == Init => SessionInv /\ Marked
<1> SUFFICES ASSUME Init PROVE SessionInv /\ Marked
  OBVIOUS
<1>1. /\ req = [r \in Request |-> Idle] /\ known = {} /\ parent = [j \in Jti |-> NoToken]
  BY DEF Init
<1>2. \A r \in Request : req[r].pc = "idle"
  BY <1>1 DEF Idle
<1>3. Marked
  BY <1>2 DEF Marked, Races, Issuing
<1>4. \A r \in Request : SessionBy(req[r])
  BY <1>2 DEF SessionBy, Admitted, Rotating, Consumed, Revoked
<1> QED BY <1>1, <1>3, <1>4 DEF SessionInv, SessionsGood, OldSessionsEnd, SessionsIndexed,
                                ParentsDead

LEMMA SessionInvariant == Spec => [](TokenInv /\ AccountInv /\ SessionInv)
<1>1. Init => SessionInv /\ Marked
  BY InitSession
<1>2. TokenInv /\ AccountInv /\ SessionInv /\ Marked /\ [Next]_vars => (SessionInv /\ Marked)'
  BY NextSession
<1> QED BY <1>1, <1>2, AccountInvariant, PTL DEF Spec

\* However many requests overlap and wherever they fail, an account's working
\* sessions all go back to its present password, unless a login or refresh of
\* it ran beside a reset's revocation: reset_password leaves no other way.
THEOREM SessionsEnd == Spec => []OldSessionsEnd
<1>1. SessionInv => OldSessionsEnd
  BY DEF SessionInv, SessionsGood
<1> QED BY <1>1, SessionInvariant, PTL

\* With the same exception the index a reset revokes from misses no session: an
\* SREM takes out only what is dead, and nobody clears the index but a reset
\* that has deleted what was in it.
THEOREM SessionsInIndex == Spec => []SessionsIndexed
<1>1. SessionInv => SessionsIndexed
  BY DEF SessionInv, SessionsGood
<1> QED BY <1>1, SessionInvariant, PTL

\* A refresh token that was exchanged is dead, however many refreshes presented
\* it: refresh_access_token DELs it before it SETs the next one.
THEOREM ExchangedDead == Spec => []ExchangedIsDead
<1>1. SessionInv => ExchangedIsDead
  BY DEF SessionInv, ParentsDead, Dead, ExchangedIsDead
<1> QED BY <1>1, SessionInvariant, PTL
=============================================================================
