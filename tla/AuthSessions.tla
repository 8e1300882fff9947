----------------------------- MODULE AuthSessions -----------------------------
(***************************************************************************)
(* _issue_token_pair (the tail of login and of refresh),                   *)
(* refresh_access_token, logout, request_password_reset and reset_password *)
(* with _revoke_all_refresh_tokens.                                        *)
(***************************************************************************)
EXTENDS AuthState

-----------------------------------------------------------------------------
(* _issue_token_pair.  The JWT is minted in the step that SETs its jti.      *)

NewJtiReused(r) == IF req[r].token # NoToken THEN req[r].token ELSE req[r].fresh
NewJti(r) == req[r].fresh

IssueSet(r) ==
  LET j == NewJti(r) IN
  /\ At(r, "issue.set")
  /\ key' = [key EXCEPT ![j] = req[r].user]
  /\ subject' = [subject EXCEPT ![j] = req[r].user]
  /\ parent' = [parent EXCEPT ![j] = req[r].token]
  /\ basis' = [basis EXCEPT ![j] = IF req[r].token = NoToken THEN Hash(req[r].password)
                                                            ELSE basis[req[r].token]]
  /\ Goto(r, "issue.index")
  /\ UNCHANGED <<database, userTokens, lockout, clients, audit>>

IssueIndexForgotten(r) == Pass(r, "issue.index", "issue.respond")

IssueIndex(r) ==
  /\ At(r, "issue.index")
  /\ userTokens' = [userTokens EXCEPT ![req[r].user] = @ \cup {NewJti(r)}]
  /\ Goto(r, "issue.respond")
  /\ UNCHANGED <<database, key, lockout, lineage, clients, audit>>

IssueRespond(r) ==
  /\ At(r, "issue.respond")
  /\ known' = known \cup {NewJti(r)}
  /\ Reply(r)
  /\ UNCHANGED <<database, tokens, lockout, lineage, lapsed, gate, overtime, audit>>

-----------------------------------------------------------------------------
RefreshCall(r, j, t) ==
  /\ FreshToken(t)
  /\ Open(r, "refresh", [Idle EXCEPT !.pc = "refresh.get", !.token = j, !.fresh = t])

\* 400 for an expired JWT, for a jti that is gone, or one stored for another user.
RefreshGet(r) ==
  LET j == req[r].token IN
  /\ At(r, "refresh.get")
  /\ IF j \in lapsed \/ key[j] = NoUser \/ key[j] # subject[j]
       THEN Reply(r) ELSE Found(r, subject[j], "refresh.delete")
  /\ StoresUnchanged

RefreshDeleteForgotten(r) == Pass(r, "refresh.delete", "refresh.srem")

\* DEL refresh_token:jti.  How many keys it removed is not looked at.
RefreshDelete(r) ==
  /\ At(r, "refresh.delete")
  /\ key' = [key EXCEPT ![req[r].token] = NoUser]
  /\ Goto(r, "refresh.srem")
  /\ UNCHANGED <<database, userTokens, lockout, lineage, clients, audit>>

RefreshSrem(r) ==
  /\ At(r, "refresh.srem")
  /\ userTokens' = [userTokens EXCEPT ![req[r].user] = @ \ {req[r].token}]
  /\ Goto(r, "issue.set")
  /\ UNCHANGED <<database, key, lockout, lineage, clients, audit>>

-----------------------------------------------------------------------------
LogoutCall(r, j) ==
  Open(r, "logout", [Idle EXCEPT !.pc = "logout.delete", !.token = j])

\* An expired JWT ends the request at once: nothing is deleted.
LogoutDelete(r) ==
  LET j == req[r].token IN
  /\ At(r, "logout.delete")
  /\ \/ j \in lapsed /\ Reply(r) /\ UNCHANGED key
     \/ /\ j \notin lapsed
        /\ key' = [key EXCEPT ![j] = NoUser]
        /\ Found(r, subject[j], "logout.srem")
  /\ UNCHANGED <<database, userTokens, lockout, lineage, clients, audit>>

LogoutSrem(r) ==
  /\ At(r, "logout.srem")
  /\ userTokens' = [userTokens EXCEPT ![req[r].user] = @ \ {req[r].token}]
  /\ Reply(r)
  /\ UNCHANGED <<database, key, lockout, lineage, clients, audit>>

-----------------------------------------------------------------------------
ForgotCall(r, a, t) ==
  /\ FreshToken(t)
  /\ Open(r, "forgot", [Idle EXCEPT !.pc = "forgot.lookup", !.email = Lower[a], !.fresh = t])

\* The answer is the same whether or not the address is registered.
ForgotLookup(r) ==
  LET found == GetByEmail(req[r].email) IN
  /\ At(r, "forgot.lookup")
  /\ \/ found = {} /\ Reply(r)
     \/ \E u \in found : Found(r, u, "forgot.set")
  /\ StoresUnchanged

ForgotSet(r) ==
  LET t == req[r].fresh IN
  /\ At(r, "forgot.set")
  /\ key' = [key EXCEPT ![t] = req[r].user]
  /\ subject' = [subject EXCEPT ![t] = req[r].user]
  /\ Goto(r, "forgot.mail")
  /\ UNCHANGED <<database, userTokens, lockout, parent, basis, clients, audit>>

ForgotMail(r) == At(r, "forgot.mail") /\ MailFresh(r)

-----------------------------------------------------------------------------
ResetCall(r, t, p) ==
  Open(r, "reset", [Idle EXCEPT !.pc = "reset.get", !.token = t, !.password = p])

ResetGet(r) ==
  /\ At(r, "reset.get")
  /\ LET u == key[req[r].token] IN
       IF u = NoUser THEN Reply(r) ELSE Found(r, u, "reset.user")
  /\ StoresUnchanged

\* The new hash is set on the loaded object; autoflush is off, so the row
\* itself changes at the commit.
ResetUser(r) ==
  /\ At(r, "reset.user")
  /\ IF Active(req[r].user) THEN Goto(r, "reset.delete") ELSE Reply(r)
  /\ StoresUnchanged

ResetDeleteForgotten(r) == Pass(r, "reset.delete", "revoke.members")

ResetDelete(r) ==
  /\ At(r, "reset.delete")
  /\ key' = [key EXCEPT ![req[r].token] = NoUser]
  /\ Goto(r, "revoke.members")
  /\ UNCHANGED <<database, userTokens, lockout, lineage, clients, audit>>

RevokeMembers(r) ==
  LET jtis == userTokens[req[r].user] IN
  /\ At(r, "revoke.members")
  /\ req' = [req EXCEPT ![r].seen = jtis,
                        ![r].pc = IF jtis = {} THEN "revoke.index" ELSE "revoke.keys"]
  /\ Noted
  /\ StoresUnchanged

RevokeOneKey(r) ==
  /\ At(r, "revoke.keys")
  /\ \E j \in req[r].seen : key' = [key EXCEPT ![j] = NoUser]
  /\ Goto(r, "revoke.index")
  /\ UNCHANGED <<database, userTokens, lockout, lineage, clients, audit>>

RevokeNoKey(r) == Pass(r, "revoke.keys", "revoke.index")

\* One DEL with every refresh_token key that SMEMBERS named.
RevokeKeys(r) ==
  /\ At(r, "revoke.keys")
  /\ key' = [t \in Token |-> IF t \in req[r].seen THEN NoUser ELSE key[t]]
  /\ Goto(r, "revoke.index")
  /\ UNCHANGED <<database, userTokens, lockout, lineage, clients, audit>>

RevokeIndex(r) ==
  /\ At(r, "revoke.index")
  /\ userTokens' = [userTokens EXCEPT ![req[r].user] = {}]
  /\ Goto(r, "reset.commit")
  /\ UNCHANGED <<database, key, lockout, lineage, clients, audit>>

ResetCommit(r) ==
  /\ At(r, "reset.commit")
  /\ users' = [users EXCEPT ![req[r].user].hash = Hash(req[r].password)]
  /\ spent' = spent \cup {req[r].token}
  /\ Reply(r)
  /\ UNCHANGED <<tokens, lockout, lineage, clients, late, unhandled>>
=============================================================================
