----------------------------- MODULE AuthService -----------------------------
(***************************************************************************)
(* The auth service as one machine: its handlers, interleaved at every     *)
(* await; the faults an await can raise; what PostgreSQL, Redis and an     *)
(* operator do to the shared state meanwhile; and the requests to other    *)
(* endpoints, which the access-token guard lets in.                        *)
(***************************************************************************)
EXTENDS AuthRegistration, AuthLogin, AuthSessions, AccessGuard

RegisterStep(r) ==
  \/ RegisterLookup(r) \/ RegisterInsert(r) \/ RegisterToken(r)
  \/ RegisterCommit(r) \/ RegisterMail(r)
VerifyStep(r) ==
  VerifyGet(r) \/ VerifyUser(r) \/ VerifyDelete(r) \/ VerifyCommit(r)
LoginStep(r) ==
  \/ LoginLock(r) \/ LoginUser(r) \/ LoginClear(r)
  \/ FailIncr(r) \/ FailExpire(r) \/ FailLock(r) \/ FailReset(r)
IssueStep(r) == IssueSet(r) \/ IssueIndex(r) \/ IssueRespond(r)
RefreshStep(r) == RefreshGet(r) \/ RefreshDelete(r) \/ RefreshSrem(r)
LogoutStep(r) == LogoutDelete(r) \/ LogoutSrem(r)
ForgotStep(r) == ForgotLookup(r) \/ ForgotSet(r) \/ ForgotMail(r)
ResetStep(r) ==
  \/ ResetGet(r) \/ ResetUser(r) \/ ResetDelete(r) \/ RevokeMembers(r)
  \/ RevokeKeys(r) \/ RevokeIndex(r) \/ ResetCommit(r)

Step(r) ==
  \/ RegisterStep(r) \/ VerifyStep(r) \/ LoginStep(r) \/ IssueStep(r)
  \/ RefreshStep(r) \/ LogoutStep(r) \/ ForgotStep(r) \/ ResetStep(r)

\* Clients present only tokens they have been given.
Call(r) ==
  \/ \E a \in Address, p \in Password :
       \/ \E u \in UserId, t \in VerifyLink : RegisterCall(r, a, p, u, t)
       \/ \E t \in Jti : LoginCall(r, a, p, t)
  \/ \E t \in VerifyLink \cap known : VerifyCall(r, t)
  \/ \E j \in Jti \cap known : LogoutCall(r, j) \/ \E t \in Jti : RefreshCall(r, j, t)
  \/ \E a \in Address, t \in ResetLink : ForgotCall(r, a, t)
  \/ \E t \in ResetLink \cap known, p \in Password : ResetCall(r, t, p)

FailNoRollback(r) ==
  /\ Faults /\ ~At(r, "idle")
  /\ Reply(r)
  /\ UNCHANGED <<database, tokens, lockout, lineage, clients, audit>>

\* An await raises, or the worker dies: get_db rolls the transaction back
\* (or PostgreSQL does); what Redis has done stays done.
Fail(r) ==
  /\ Faults /\ ~At(r, "idle")
  /\ Reply(r)
  /\ users' = [u \in UserId |-> IF u = req[r].user /\ users[u].status = "pending"
                                  THEN [users[u] EXCEPT !.status = "void"] ELSE users[u]]
  /\ UNCHANGED <<tokens, lockout, lineage, clients, audit>>

-----------------------------------------------------------------------------
(* Outside events.                                                           *)

Event(name) ==
  /\ name \in Ops
  /\ UNCHANGED <<req, subject, known, parent, basis, spent, unhandled, raced, gate, overtime>>

\* The TTL of a link or of a refresh token's key runs out.
ExpireKey(t) ==
  /\ Event("key.expire")
  /\ key[t] # NoUser
  /\ key' = [key EXCEPT ![t] = NoUser]
  /\ UNCHANGED <<database, userTokens, lockout, lapsed, late>>

\* The exp claim passes: by the application's clock, not by Redis's.
ExpireJwt(j) ==
  /\ Event("jwt.expire")
  /\ subject[j] # NoUser
  /\ lapsed' = lapsed \cup {j}
  /\ UNCHANGED <<database, tokens, lockout, late>>

LapseLock(e) ==
  /\ Event("lock.expire")
  /\ lock[e] = "held"
  /\ lock' = [lock EXCEPT ![e] = "lapsing"]
  /\ late' = [late EXCEPT ![e] = 0]
  /\ UNCHANGED <<database, tokens, attempts, window, lapsed>>

ExpireLock(e) ==
  /\ Event("lock.expire")
  /\ lock[e] = "lapsing"
  /\ lock' = [lock EXCEPT ![e] = "none"]
  /\ UNCHANGED <<database, tokens, attempts, window, lapsed, late>>

\* Only a counter with a TTL can run out.
ExpireAttempts(e) ==
  /\ Event("attempts.expire")
  /\ window[e]
  /\ attempts' = [attempts EXCEPT ![e] = 0]
  /\ window' = [window EXCEPT ![e] = FALSE]
  /\ UNCHANGED <<database, tokens, lock, lapsed, late>>

\* No endpoint deactivates or deletes an account: an operator's UPDATE does.
OperatorUpdate(u, from, to, event) ==
  /\ Event(event)
  /\ users[u].status \in from
  /\ users' = [users EXCEPT ![u].status = to]
  /\ UNCHANGED <<tokens, lockout, lapsed, late>>

Disable(u) == OperatorUpdate(u, {"active"}, "disabled", "disable")
SoftDelete(u) == OperatorUpdate(u, {"active", "disabled"}, "deleted", "delete")

Environment ==
  \/ \E t \in Token : ExpireKey(t)
  \/ \E j \in Jti : ExpireJwt(j)
  \/ \E e \in Address : LapseLock(e) \/ ExpireLock(e) \/ ExpireAttempts(e)
  \/ \E u \in UserId : Disable(u) \/ SoftDelete(u)

-----------------------------------------------------------------------------
Init ==
  /\ \E home \in [Seeded -> {Lower[a] : a \in Address}], secret \in [Seeded -> Password] :
       /\ \A u, v \in Seeded : home[u] = home[v] => u = v
       /\ users = [u \in UserId |-> IF u \in Seeded
                                      THEN Row("active", home[u], Hash(secret[u]), TRUE)
                                      ELSE Unborn]
  /\ key = [t \in Token |-> NoUser]
  /\ userTokens = [u \in UserId |-> {}]
  /\ attempts = [e \in Address |-> 0]
  /\ window = [e \in Address |-> FALSE]
  /\ lock = [e \in Address |-> "none"]
  /\ req = [r \in Request |-> Idle]
  /\ subject = [t \in Token |-> NoUser]
  /\ known = {} /\ lapsed = {}
  /\ parent = [j \in Jti |-> NoToken]
  /\ basis = [j \in Jti |-> NoHash]
  /\ spent = {}
  /\ late = [e \in Address |-> 0]
  /\ unhandled = FALSE
  /\ raced = {}
  /\ gate = [g \in Gate |-> Away]
  /\ overtime = [u \in UserId |-> 0]

\* With nothing to run the event loop waits: only a stuck request is a deadlock.
Quiet == (\A r \in Request : At(r, "idle")) /\ UNCHANGED vars

Guarded ==
  \E g \in Gate :
    \/ \E j \in Jti \cap known : GuardCall(g, j)
    \/ GuardUser(g) \/ GuardedCommit(g) \/ GuardedFail(g)

Next ==
  \/ \E r \in Request : Call(r) \/ Step(r) \/ Fail(r)
  \/ Guarded \/ Environment \/ Quiet

Spec == Init /\ [][Next]_vars

\* The event loop runs every ready handler; every call it awaits returns or
\* raises.  Redis removes a key whose TTL has run out.
Fairness ==
  /\ \A r \in Request : WF_vars(Step(r))
  /\ \A e \in Address : WF_vars(LapseLock(e)) /\ WF_vars(ExpireLock(e))
                          /\ WF_vars(ExpireAttempts(e))

FairSpec == Spec /\ Fairness
=============================================================================
