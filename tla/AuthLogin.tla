------------------------------ MODULE AuthLogin ------------------------------
(***************************************************************************)
(* AuthService.login up to the token pair, and _register_failed_attempt.   *)
(***************************************************************************)
EXTENDS AuthState

LoginCall(r, a, p, t) ==
  /\ FreshToken(t)
  /\ Open(r, "login", [Idle EXCEPT !.pc = "login.lock", !.email = Lower[a],
                                   !.password = p, !.fresh = t])

LoginLockUnread(r) == Pass(r, "login.lock", "login.user")

\* TTL login_lock:e is rounded to seconds: a lock in its last half second
\* reads 0, which the code takes for no lock.  423 while it reads more.
LoginLock(r) ==
  /\ At(r, "login.lock")
  /\ IF lock[req[r].email] = "held" THEN Reply(r) ELSE Goto(r, "login.user")
  /\ StoresUnchanged

MayEnterAnyway(u) == TRUE
MayEnter(u) == users[u].verified

\* get_by_email, verify_password, is_active and is_email_verified: no await in
\* between.  401 comes after the failure is counted; 403 is not counted.
LoginUser(r) ==
  LET e == req[r].email
      found == {u \in GetByEmail(e) : /\ Verifies(req[r].password, users[u].hash)
                                      /\ users[u].status = "active"}
  IN
  /\ At(r, "login.user")
  /\ \/ found = {} /\ Goto(r, "fail.incr")
     \/ \E u \in found : IF MayEnter(u) THEN Found(r, u, "login.clear") ELSE Reply(r)
  /\ late' = [late EXCEPT ![e] = IF lock[e] = "held" THEN @ + 1 ELSE @]
  /\ UNCHANGED <<database, tokens, lockout, lineage, clients, spent, unhandled>>

\* One DEL of login_attempts:e and login_lock:e, whatever they hold by now.
LoginClear(r) ==
  LET e == req[r].email IN
  /\ At(r, "login.clear")
  /\ attempts' = [attempts EXCEPT ![e] = 0]
  /\ window' = [window EXCEPT ![e] = FALSE]
  /\ lock' = [lock EXCEPT ![e] = "none"]
  /\ late' = [late EXCEPT ![e] = 0]
  /\ Goto(r, "issue.set")
  /\ UNCHANGED <<database, tokens, lineage, clients, spent, unhandled>>

-----------------------------------------------------------------------------
FailIncr(r) ==
  LET n == IF attempts[req[r].email] < CountCap THEN attempts[req[r].email] + 1
                                                ELSE CountCap
  IN
  /\ At(r, "fail.incr")
  /\ attempts' = [attempts EXCEPT ![req[r].email] = n]
  /\ req' = [req EXCEPT ![r].count = n, ![r].pc = "fail.expire"] /\ Noted
  /\ UNCHANGED <<database, tokens, window, lock, lineage, clients, audit>>

LimitHit(count) == count = LoginMaxAttempts
LimitReached(count) == count >= LoginMaxAttempts

FailExpireSkipped(r) ==
  /\ At(r, "fail.expire")
  /\ IF LimitReached(req[r].count) THEN Goto(r, "fail.lock") ELSE Reply(r)
  /\ StoresUnchanged

\* EXPIRE does nothing to a key another request has deleted meanwhile.  Below
\* the limit the request ends here, with 401.
FailExpire(r) ==
  LET e == req[r].email IN
  /\ At(r, "fail.expire")
  /\ window' = [window EXCEPT ![e] = attempts[e] > 0]
  /\ IF LimitReached(req[r].count) THEN Goto(r, "fail.lock") ELSE Reply(r)
  /\ UNCHANGED <<database, tokens, attempts, lock, lineage, clients, audit>>

\* SET login_lock:e EX starts the lock or renews it.
FailLock(r) ==
  /\ At(r, "fail.lock")
  /\ lock' = [lock EXCEPT ![req[r].email] = "held"]
  /\ Goto(r, "fail.reset")
  /\ UNCHANGED <<database, tokens, attempts, window, lineage, clients, audit>>

FailReset(r) ==
  LET e == req[r].email IN
  /\ At(r, "fail.reset")
  /\ attempts' = [attempts EXCEPT ![e] = 0]
  /\ window' = [window EXCEPT ![e] = FALSE]
  /\ Reply(r)
  /\ UNCHANGED <<database, tokens, lock, lineage, clients, audit>>
=============================================================================
