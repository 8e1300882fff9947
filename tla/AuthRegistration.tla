--------------------------- MODULE AuthRegistration ---------------------------
(***************************************************************************)
(* AuthService.register and verify_email, with the commit that get_db      *)
(* issues after the endpoint returns and the mail that is sent after that. *)
(***************************************************************************)
EXTENDS AuthState

RegisterCall(r, a, p, u, t) ==
  /\ FreshUser(u) /\ FreshToken(t)
  /\ Open(r, "register", [Idle EXCEPT !.pc = "register.lookup", !.email = Lower[a],
                                      !.password = p, !.user = u, !.fresh = t])

\* 409 if get_by_email sees the address taken.
RegisterLookup(r) ==
  /\ At(r, "register.lookup")
  /\ IF GetByEmail(req[r].email) # {} THEN Reply(r) ELSE Goto(r, "register.insert")
  /\ StoresUnchanged

NewAccountVerified(e, p) == Row("pending", e, Hash(p), TRUE)

\* is_email_verified and is_active take the model's defaults.
NewAccount(e, p) == Row("pending", e, Hash(p), FALSE)

\* The INSERT of users.add.  IntegrityError is no AppError: nothing maps it.
RegisterInsert(r) ==
  LET e == req[r].email IN
  /\ At(r, "register.insert")
  /\ ~IndexBusy(e)
  /\ \/ /\ IndexTaken(e)
        /\ Reply(r)
        /\ unhandled' = TRUE
        /\ UNCHANGED database
     \/ /\ ~IndexTaken(e)
        /\ users' = [users EXCEPT ![req[r].user] = NewAccount(e, req[r].password)]
        /\ Goto(r, "register.token")
        /\ UNCHANGED unhandled
  /\ UNCHANGED <<tokens, lockout, lineage, clients, spent, late>>

RegisterTokenAndMail(r) ==
  /\ At(r, "register.token")
  /\ key' = [key EXCEPT ![req[r].fresh] = req[r].user]
  /\ subject' = [subject EXCEPT ![req[r].fresh] = req[r].user]
  /\ known' = known \cup {req[r].fresh}
  /\ Goto(r, "register.commit")
  /\ UNCHANGED <<database, userTokens, lockout, parent, basis, lapsed, gate, overtime, audit>>

RegisterToken(r) ==
  /\ At(r, "register.token")
  /\ key' = [key EXCEPT ![req[r].fresh] = req[r].user]
  /\ subject' = [subject EXCEPT ![req[r].fresh] = req[r].user]
  /\ Goto(r, "register.commit")
  /\ UNCHANGED <<database, userTokens, lockout, parent, basis, clients, audit>>

RegisterCommit(r) ==
  /\ At(r, "register.commit")
  /\ users' = [users EXCEPT ![req[r].user].status = "active"]
  /\ Goto(r, "register.mail")
  /\ UNCHANGED <<tokens, lockout, lineage, clients, audit>>

RegisterMail(r) == At(r, "register.mail") /\ MailFresh(r)

-----------------------------------------------------------------------------
VerifyCall(r, t) ==
  Open(r, "verify", [Idle EXCEPT !.pc = "verify.get", !.token = t])

\* GET email_verify:t, 400 if it is gone.
VerifyGet(r) ==
  /\ At(r, "verify.get")
  /\ LET u == key[req[r].token] IN
       IF u = NoUser THEN Reply(r) ELSE Found(r, u, "verify.user")
  /\ StoresUnchanged

\* get_by_id: 400 if the account is not there (never committed, or deleted).
VerifyUser(r) ==
  /\ At(r, "verify.user")
  /\ IF Active(req[r].user) THEN Goto(r, "verify.delete") ELSE Reply(r)
  /\ StoresUnchanged

VerifyDeleteForgotten(r) == Pass(r, "verify.delete", "verify.commit")

VerifyDelete(r) ==
  /\ At(r, "verify.delete")
  /\ key' = [key EXCEPT ![req[r].token] = NoUser]
  /\ Goto(r, "verify.commit")
  /\ UNCHANGED <<database, userTokens, lockout, lineage, clients, audit>>

\* The UPDATE is flushed by get_db's commit, by primary key: a row that was
\* soft-deleted in between is updated all the same.
VerifyCommit(r) ==
  /\ At(r, "verify.commit")
  /\ users' = [users EXCEPT ![req[r].user].verified = TRUE]
  /\ spent' = spent \cup {req[r].token}
  /\ Reply(r)
  /\ UNCHANGED <<tokens, lockout, lineage, clients, late, unhandled>>
=============================================================================
