------------------------------ MODULE AuthState ------------------------------
(***************************************************************************)
(* The state the handlers of app/auth share, and the helpers they are      *)
(* built from.  A request is a small process: between two awaits of the    *)
(* handler nothing else runs, at an await any other request may.  So every *)
(* await (one Redis command, one statement, one commit) ends a step.       *)
(*                                                                         *)
(* PostgreSQL is `users`; Redis is `key`, `userTokens`, `attempts`,        *)
(* `window` and `lock`; the rest is what the processes and the clients     *)
(* hold, and history that only properties read.                            *)
(***************************************************************************)
EXTENDS Naturals, FiniteSets

CONSTANTS
  Request,          \* handler activations the event loop can interleave
  UserId,           \* uuid4 values a users row can draw
  Address,          \* email addresses as they may be typed
  Lower,            \* str.lower on Address
  Password,
  VerifyLink,       \* secrets.token_urlsafe draws of register
  ResetLink,        \* secrets.token_urlsafe draws of request_password_reset
  Jti,              \* uuid4 draws of create_refresh_token
  LoginMaxAttempts, \* LOGIN_MAX_ATTEMPTS
  Seeded,           \* users who registered and verified before the run
  Ops,              \* which endpoints and outside events a run has
  Faults,           \* may an await raise, a connection drop, a worker die?
  Gate,             \* guarded requests that can be under way at once
  NoUser, NoAddress, NoPassword, NoToken

\* The bound of the attempts counter: it saturates here.
CountCap == LoginMaxAttempts + Cardinality(Request)
Link == VerifyLink \cup ResetLink
Token == Link \cup Jti

Events == {"register", "verify", "login", "refresh", "logout", "forgot", "reset",
           "key.expire", "jwt.expire", "lock.expire", "attempts.expire",
           "disable", "delete"}

ASSUME SizeAssumption ==
  LoginMaxAttempts \in Nat \ {0} /\ IsFiniteSet(Request) /\ IsFiniteSet(Gate)
ASSUME TokenAssumption ==
  VerifyLink \cap ResetLink = {} /\ VerifyLink \cap Jti = {} /\ ResetLink \cap Jti = {}
ASSUME NullAssumption ==
  NoUser \notin UserId /\ NoAddress \notin Address /\ NoPassword \notin Password
    /\ NoToken \notin Token
ASSUME SeedAssumption == Seeded \subseteq UserId /\ Ops \subseteq Events /\ Faults \in BOOLEAN
\* str.lower() is idempotent.
ASSUME LowerAssumption ==
  Lower \in [Address -> Address] /\ \A a \in Address : Lower[Lower[a]] = Lower[a]

VARIABLES
  users,      \* the users table: status, email, hash, verified of every row
  key,        \* value of email_verify:t, pwd_reset:t or refresh_token:t
  userTokens, \* user_refresh_tokens:u, the set of jtis a reset will revoke
  attempts,   \* login_attempts:e, 0 when the key is absent
  window,     \* does login_attempts:e carry a TTL?
  lock,       \* login_lock:e: "none", "held", or "lapsing" in its last half second
  req,        \* one record per request: program counter and locals
  subject,    \* whom a token was minted for (the JWT's sub; the mail's addressee)
  known,      \* tokens that have reached a client
  lapsed,     \* refresh JWTs past their exp claim
  parent,     \* history: the refresh token a refresh token was exchanged for
  basis,      \* history: the password hash a session was opened with
  spent,      \* history: links whose effect has been committed
  late,       \* history: credential checks made while the address is locked
  unhandled,  \* history: an exception outside the AppError map left a handler
  raced,      \* history: accounts whose sessions had a race with a reset (Races)
  gate,       \* what a guarded request does, and for whom
  overtime    \* history: commits for a user whose account was no longer active

database == users
tokens   == <<key, userTokens>>
lockout  == <<attempts, window, lock>>
clients  == <<known, lapsed, gate, overtime>>
lineage  == <<subject, parent, basis>>
audit    == <<spent, late, unhandled>>
service  == <<users, key, userTokens, attempts, window, lock, req, subject, known,
              lapsed, parent, basis, spent, late, unhandled>>
vars     == <<service, raced, gate, overtime>>

StoresUnchanged == UNCHANGED <<database, tokens, lockout, lineage, clients, audit>>

-----------------------------------------------------------------------------
(* PostgreSQL.  A pending row is an INSERT whose transaction is open: READ   *)
(* COMMITTED queries miss it, the unique index does not.  A void row was     *)
(* rolled back; its uuid never comes up again.                               *)

Status == {"unborn", "pending", "void", "active", "disabled", "deleted"}

HashPlain(password) == password
Hash(password) == [argon2 |-> password]
NoHash == Hash(NoPassword)
Verifies(password, hash) == hash = Hash(password)

Row(status, email, hash, verified) ==
  [status |-> status, email |-> email, hash |-> hash, verified |-> verified]
Unborn == Row("unborn", NoAddress, NoHash, FALSE)

\* The rows of SoftDeleteRepository._active: committed, deleted_at IS NULL.
Active(u) == users[u].status \in {"active", "disabled"}

\* UserRepository.get_by_email: the unique index leaves at most one.
GetByEmail(e) == {u \in UserId : Active(u) /\ users[u].email = e}

\* ix_users_email_active makes an INSERT wait for an open one with its email ...
IndexBusy(e) == \E u \in UserId : users[u].status = "pending" /\ users[u].email = e
\* ... and then fail if a row that is not soft-deleted has it.
IndexTakenNever(e) == FALSE
IndexTaken(e) == GetByEmail(e) # {}

-----------------------------------------------------------------------------
(* Requests.                                                                 *)

Idle == [pc |-> "idle", email |-> NoAddress, password |-> NoPassword, user |-> NoUser,
         token |-> NoToken, fresh |-> NoToken, count |-> 0, seen |-> {}]

At(r, label) == req[r].pc = label

\* History: login has checked the password, or refresh has found the token, and
\* until the answer stores another; while reset_password has read the index
\* and is about to commit the new hash.
Issuing(q) ==
  q.pc \in {"login.clear", "refresh.delete", "refresh.srem",
            "issue.set", "issue.index", "issue.respond"}
Revoking(q) == q.pc \in {"revoke.keys", "revoke.index", "reset.commit"}
Races(u) ==
  \E r, s \in Request :
    Issuing(req[r]) /\ req[r].user = u /\ Revoking(req[s]) /\ req[s].user = u
Noted == raced' = raced \cup {u \in UserId : Races(u)'}

Goto(r, label) == req' = [req EXCEPT ![r].pc = label] /\ Noted
Reply(r) == req' = [req EXCEPT ![r] = Idle] /\ Noted
Found(r, u, label) == req' = [req EXCEPT ![r].user = u, ![r].pc = label] /\ Noted

\* An await with no effect: what a handler does that forgets its command.
Pass(r, from, to) == At(r, from) /\ Goto(r, to) /\ StoresUnchanged

\* A request arrives.  Its locals start at Idle's, but for those it sets.
Open(r, event, locals) ==
  /\ event \in Ops
  /\ At(r, "idle")
  /\ req' = [req EXCEPT ![r] = locals] /\ Noted
  /\ StoresUnchanged

\* uuid4 and token_urlsafe never repeat, nor coincide across requests.
FreshUser(u) == users[u].status = "unborn" /\ \A r \in Request : req[r].user # u
FreshToken(t) == subject[t] = NoUser /\ \A r \in Request : req[r].fresh # t

\* A background task sends the link; EmailSender catches and logs SMTP errors.
MailFresh(r) ==
  /\ known' \in {known, known \cup {req[r].fresh}}
  /\ Reply(r)
  /\ UNCHANGED <<database, tokens, lockout, lineage, lapsed, gate, overtime, audit>>
=============================================================================
