---------------------------- MODULE AuthProperties ----------------------------
(***************************************************************************)
(* What the auth service promises, kept apart from the machine.            *)
(***************************************************************************)
EXTENDS AuthService

Label == {"idle",
          "register.lookup", "register.insert", "register.token", "register.commit",
          "register.mail", "verify.get", "verify.user", "verify.delete", "verify.commit",
          "login.lock", "login.user", "login.clear",
          "fail.incr", "fail.expire", "fail.lock", "fail.reset",
          "issue.set", "issue.index", "issue.respond",
          "refresh.get", "refresh.delete", "refresh.srem", "logout.delete", "logout.srem",
          "forgot.lookup", "forgot.set", "forgot.mail", "reset.get", "reset.user",
          "reset.delete", "revoke.members", "revoke.keys", "revoke.index", "reset.commit"}

Digest == [argon2 : Password \cup {NoPassword}]
Row_ == [status : Status, email : Address \cup {NoAddress}, hash : Digest, verified : BOOLEAN]
Request_ == [pc : Label, email : Address \cup {NoAddress},
             password : Password \cup {NoPassword}, user : UserId \cup {NoUser},
             token : Token \cup {NoToken}, fresh : Token \cup {NoToken},
             count : 0..CountCap, seen : SUBSET Jti]

\* Redis keys, columns, locals, and what is remembered of them.
ServiceOK ==
  /\ users \in [UserId -> Row_]
  /\ key \in [Token -> UserId \cup {NoUser}]
  /\ userTokens \in [UserId -> SUBSET Jti]
  /\ attempts \in [Address -> 0..CountCap]
  /\ window \in [Address -> BOOLEAN]
  /\ lock \in [Address -> {"none", "held", "lapsing"}]
  /\ req \in [Request -> Request_]
  /\ subject \in [Token -> UserId \cup {NoUser}]
  /\ known \in SUBSET Token
  /\ lapsed \in SUBSET Jti
  /\ parent \in [Jti -> Jti \cup {NoToken}]
  /\ basis \in [Jti -> Digest]
  /\ spent \in SUBSET Link
  /\ late \in [Address -> Nat]
  /\ unhandled \in BOOLEAN

AsideOK ==
  /\ raced \in SUBSET UserId
  /\ gate \in [Gate -> [pc : {"away", "get_by_id", "admitted"}, user : UserId \cup {NoUser}]]
  /\ overtime \in [UserId -> Nat]

\* Every variable holds what its Redis key, its column or its local can hold.
TypeOK == ServiceOK /\ AsideOK

AllIdle == \A r \in Request : At(r, "idle")

-----------------------------------------------------------------------------
(* Accounts.                                                                 *)

\* No two accounts that are not soft-deleted share an address, however it is
\* capitalised: register's look-up, the unique index and lower() together.
EmailUnique ==
  \A u, v \in UserId :
    Active(u) /\ Active(v) /\ Lower[users[u].email] = Lower[users[v].email] => u = v

\* A verification link reaches a mailbox only when its account is committed:
\* no rolled-back registration ever mails a link (the router's BackgroundTasks).
MailAfterCommit ==
  \A t \in VerifyLink \cap known :
    users[subject[t]].status \in {"active", "disabled", "deleted"}

\* An account is verified only through a link minted by its own registration,
\* delivered to its mailbox, and used up.
VerifiedThroughMail ==
  \A u \in UserId \ Seeded :
    users[u].verified => \E t \in VerifyLink \cap known \cap spent : subject[t] = u

\* No refresh token is ever minted for an account that has not verified its
\* address: login's check holds across every later refresh.
OnlyVerifiedHoldSessions ==
  \A j \in Jti : subject[j] # NoUser => users[subject[j]].verified

\* Once a link's effect is committed its Redis key is gone: no later request
\* can use it (verify_email and reset_password DEL before get_db commits).
UsedLinkDead == \A t \in spent : key[t] = NoUser

\* A row an INSERT may have to wait for belongs to a request that is still to
\* commit it or to roll it back: no registration waits for a transaction
\* nobody will end.
PendingHasOwner ==
  \A u \in UserId : users[u].status = "pending" =>
    \E r \in Request : req[r].user = u /\ req[r].pc \in {"register.token", "register.commit"}

\* A handler ends in an answer main.py's exception map knows.
NoUnhandledException == ~unhandled

-----------------------------------------------------------------------------
(* Lockout.                                                                  *)

\* The failures counted against an address overshoot LOGIN_MAX_ATTEMPTS by at
\* most the requests in flight, whatever the order of INCR, EXPIRE, SET, DEL.
CounterBounded ==
  \A e \in Address : attempts[e] < LoginMaxAttempts + Cardinality(Request)

\* Guesses checked while the address is locked are those of the other
\* requests that had read the TTL before the lock was set.
LateChecksBounded == \A e \in Address : late[e] < Cardinality(Request)

\* A lock ends by its TTL and by nothing else, not even by the right password:
\* 15 minutes of lockout (_register_failed_attempt; login's DEL of both keys).
LockRunsItsCourse ==
  [][\A e \in Address : lock[e] = "held" => lock'[e] \in {"held", "lapsing"}]_vars

-----------------------------------------------------------------------------
(* Sessions.                                                                 *)

\* What Redis and the JWTs hold is, at every step of every handler, the life of
\* a token as its users know it: minted once, for one account, and dead for good.
LifeOfToken ==
  [t \in Token |-> IF subject[t] = NoUser THEN "unborn"
                   ELSE IF key[t] = subject[t] THEN "working" ELSE "dead"]

Life ==
  INSTANCE TokenLife WITH
    Holder <- UserId, Nobody <- NoUser, holder <- subject, life <- LifeOfToken

TokensLive == Life!Spec

\* While a reset drops the index and commits, every refresh token it found in
\* the index is dead, whatever other requests did since it looked.
RevokedStayDead ==
  \A r \in Request :
    req[r].pc \in {"revoke.index", "reset.commit"} =>
      \A j \in req[r].seen : key[j] = NoUser

\* Between requests, a client's working refresh token goes back to a login
\* with the password the account has now.
SessionsMatchPassword ==
  AllIdle => \A j \in Jti \cap known : key[j] # NoUser => basis[j] = users[key[j]].hash

\* A client's working refresh token goes back to a login with the password its
\* account has now, except where a login or refresh ran beside a reset's
\* revocation: resets that overlap each other, fail half way or follow logouts
\* leave none behind (reset_password, _revoke_all_refresh_tokens).
OldSessionsEnd ==
  \A j \in Jti \cap known :
    key[j] \in UserId \ raced => basis[j] = users[key[j]].hash

\* With the same exception, a client's working refresh token is in the index
\* from which a reset revokes: the SREMs, the SADD and the DEL of overlapping
\* requests take none out of it.
SessionsIndexed ==
  \A j \in Jti \cap known :
    key[j] \in UserId \ raced => j \in userTokens[key[j]]

\* A refresh token that has been exchanged for another no longer works: only
\* requests that had found it before can exchange it once more.
ExchangedIsDead ==
  \A i \in Jti : parent[i] # NoToken => key[parent[i]] = NoUser

\* Disabling or deleting an account ends its access, though its tokens go on
\* working and refresh goes on rotating them: after it, no more changes are
\* committed for the user than were let in before, at most one a request.
BanTakesHold == \A u \in UserId : overtime[u] <= Cardinality(Gate)

-----------------------------------------------------------------------------
(* Liveness, under FairSpec.                                                 *)

\* Failures are forgotten.
FailuresForgotten == \A e \in Address : attempts[e] > 0 ~> attempts[e] = 0
=============================================================================
