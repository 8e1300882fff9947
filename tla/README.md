# Task management API: a TLA+ model

The repository is a FastAPI backend: accounts with e-mail verification and login
lockout, refresh-token sessions, projects and tasks with soft deletion. It keeps its
state in PostgreSQL and in Redis and runs its handlers on one event loop, so that
any two requests interleave at every `await`. This directory holds a TLA+ model of
it, the TLC configurations that check the model on small instances, and theorems
that TLAPS checks for every instance.

## The system

| Component | Code | State | Operations |
|---|---|---|---|
| Registration and verification | `auth/service.py`, `auth/router.py`, `auth/models.py` | `users`; Redis `email_verify:t` | register, verify-email |
| Login and lockout | `auth/service.py` | Redis `login_attempts:e`, `login_lock:e` | login |
| Sessions and reset | `auth/service.py`, `core/security.py` | Redis `refresh_token:j`, `user_refresh_tokens:u`, `pwd_reset:t` | refresh, logout, forgot-password, reset-password |
| Access-token guard | `auth/deps.py` | none (a JWT) | `get_current_user` |
| Projects | `projects/*` | `projects` | create, list, get, patch, delete with cascade |
| Tasks | `tasks/*` | `tasks` | create, list, get, patch, delete |
| Soft deletion, unit of work | `common/base_repository.py`, `core/mixins.py`, `core/db.py` | `deleted_at`; one transaction per request | `_active`, `add`, `delete`, `get_db` |
| Exception map | `main.py`, `common/exceptions.py` | none | exception to status |
| Dependencies and pools | `*/deps.py`, `core/db.py`, `core/redis.py` | threads, connections | what a request needs before, during and after its endpoint |
| Mail | `notifications/*` | a thread while it lasts | a background task after the response |
| Request correlation, logging | `core/middleware.py`, `core/logging.py` | a ContextVar per task | a request's id in header, body and log lines |
| Health check | `core/health.py` | none | probes PostgreSQL and Redis |
| Pagination | `common/pagination.py` | none | offset, limit, total_pages |
| Migrations | `alembic/*` | the schema and its stamp | upgrade, downgrade |
| Configuration, lifespan | `core/config.py`, `main.py` | constants | start-up and shutdown |

How they interact. A router calls a service; the service calls a repository
(statements on the request's session) and Redis. The endpoint returns, FastAPI
serialises the response, the `get_db` dependency ends and commits, the response is
sent and background tasks run, in this order. An exception on the way rolls the
transaction back. Nothing rolls Redis back. Services share no memory: two requests
meet only in PostgreSQL (row locks, the unique index, READ COMMITTED) and in Redis
(single commands).

What is hard in it:

- **Check, then act.** Register looks an address up and then inserts; refresh reads
  a token and then deletes it; create reads a project and then inserts under it;
  login reads the lock, then a hash, then issues.
- **Two stores, one commit.** Redis changes before PostgreSQL commits, and a request
  can end in between.
- **Two commands for one change.** INCR and EXPIRE; SMEMBERS and DEL; SET and SADD.
- **Time.** Links, tokens, counters and locks run out at any moment.
- **Row locks.** The cascade locks tasks in an order SQL does not fix.
- **Two pools.** Dependencies and mails share threads, statements share connections,
  and a request can hold one while it waits for the other.
- **Migrators that overlap.** Each container starts one, on one database.

What makes each part correct: one account per address; nobody verified or logged in
without the mail; a used link or a dead token never works again; a reset ends the
sessions it found; failures are counted, bounded and forgotten; what is deleted
stays deleted and takes its tasks along; only the owner changes an item; a disabled
account loses its access; an answer tells what became of the transaction; the schema
is whole or absent; every request and migration ends. `PROJECT.json` lists the
hazards line by line.

## The modules

| Module | What it holds |
|---|---|
| `AuthState` | constants and their assumptions, the variables of `app/auth`, helpers |
| `AuthRegistration` | register, verify_email, commit and mail |
| `AuthLogin` | login and `_register_failed_attempt` |
| `AuthSessions` | `_issue_token_pair`, refresh, logout, forgot, reset, `_revoke_all_refresh_tokens` |
| `AccessGuard` | `get_current_user`: the requests to other endpoints |
| `AuthService` | composes the four; faults, expiry, an operator; `Spec`, `FairSpec` |
| `AuthProperties` | what the auth service promises |
| `TokenLife` | abstract: a token is unborn, working, dead |
| `MCAuth` | `AuthProperties` for TLC |
| `Workspace` | projects and tasks over PostgreSQL |
| `ItemTree` | abstract: a tree of items that go for good, projects with their tasks |
| `WorkspaceProperties`, `MCWorkspace` | its properties; for TLC |
| `Pipeline` | a request from middleware to mail, and the pools it needs |
| `Migrations` | alembic's one revision, run by migrators that overlap |
| `Listing`, `MCListing` | the list endpoints, read page by page against other requests |
| `AuthProofs` | theorems: types and tokens of the auth service |
| `AccountProofs` (extends `AuthProofs`) | addresses, mails, verification |
| `LoginProofs` (extends `AccountProofs`) | the lockout; what becomes of sessions |
| `GuardProofs` (extends `AccountProofs`) | the guard |
| `WorkspaceProofs`, `PipelineProofs`, `MigrationProofs`, `ListingProofs` | theorems about the modules they are named for |

### Auth

A request is a record in `req`: a program counter and the locals of the handler.
Each `await` is one step, named after the operation and the statement or command it
waits for: `login.lock` reads `login_lock:e`, `fail.incr` increments
`login_attempts:e`, and so on. What the code does between two awaits belongs to the
step before it, so hashing, comparing and raising are no steps of their own.

- `users` is the table. A row is `pending` while its INSERT is not committed, `void`
  after a rollback, then `active`, `disabled` (`is_active` false) or `deleted`.
  Queries see committed rows, the unique index sees pending ones too: an INSERT
  waits for a pending row with its address, and fails on an active one with an
  exception that `main.py` does not map (`unhandled`).
- `key[t]` is the value of the Redis key of the token `t`: a verification link, a
  reset link or the jti of a refresh token.
- A fresh uuid or `token_urlsafe` draw is chosen when the request arrives and never
  repeats; so a run whose pool is used up starts no more requests of that kind and
  never stops one in the middle.
- `window[e]` says whether the counter carries a TTL. A lock is `lapsing` in its
  last half second, where TTL rounds to 0 and `lock_ttl > 0` is false.
- `parent`, `basis`, `spent`, `late`, `unhandled` are history: no guard of the code
  reads them. `parent` and `basis` are set where a jti is stored.
- `raced` is history too: the accounts for which a login or a refresh that was about
  to store a token (`Issuing`) has run beside a reset that was revoking
  (`Revoking`). That overlap is the one in which a session slips through; the
  promises about sessions are stated for all other accounts.
- `Fail(r)`: any await may raise, or the worker die. The transaction is rolled back
  and Redis keeps what it has. `MailFresh` may lose the mail.
- No endpoint deactivates or deletes an account: `Disable` and `SoftDelete` are an
  operator's UPDATE.

### The guard

`AccessGuard` is the part of the service that lets requests into the other endpoints
(`gate`); its steps leave everything else alone (`Apart`). A guarded request
presents an access token (known by the jti of the refresh token issued with it),
reads the account's row (`GuardUser`), and commits something for that user later
(`GuardedCommit`). Between the two an operator may disable or delete the account;
`overtime` counts the commits that come too late, and `BanTakesHold` bounds them by
the requests that had been let in.

### Workspace

An item is a project (its parent is its owner) or a task (its parent is its
project). A request is one transaction, which takes the row lock of an item with its
UPDATE (`locker`) and gives it back at its end. A PATCH updates one row and commits
in one step: between the two it waits for nobody. The cascade, `UPDATE tasks SET
deleted_at .. WHERE project_id = p AND deleted_at IS NULL`, is a snapshot
(`CascadeScan`) and then a step for each row in any order (`CascadeRow`), which
waits for the row's lock and evaluates the WHERE again on what the row has become,
as READ COMMITTED does. `PatchCommit` writes the columns that differ from what was
loaded, as the unit of work does; a null in a required column is stopped by NOT NULL
and by the response schema (`Complete`), both with an exception that no handler
maps. `DeadlockVictim` is PostgreSQL's deadlock detector.

### Listing

A client reads a list page by page: each page is a count (`ListTotal`) and a SELECT
with OFFSET and LIMIT (`ListItems`), two statements with a snapshot each, until a
page comes short. Meanwhile items are created, committed in another order than their
`created_at` (`now()` is the time a transaction began), deleted, and patched into
and out of what the filters match: ownership, soft deletion and filters are one
predicate, `listed`, as they are one WHERE. Rows that tie in `created_at` come in
any order, a new one each time, so a page is any slice (`Slices`) that some sorted
order yields.

### Pipeline

A request carries the list of what it still has to do (`plan`): `json`, decoding the
body, before any dependency; a `hop` for each dependency that is a plain `def`,
which FastAPI runs in a thread; `bearer`, where HTTPBearer refuses; `guard` and
`query` for statements, for which its session takes a connection and keeps it;
`redis`; `params`, the validation of body and parameters, after all dependencies;
`commit` and `answer`, in this order, since `get_db` ends before the response is
sent; and for register and forgot-password `mail`, a background task in a thread of
the same pool. What status an exception gets is looked up by nearest class
(`StatusOf`), as Starlette does.

An exception replaces what is left of the plan, by where it is raised (`Ending`).
Before `get_db` is entered there is only the answer. A `RequestValidationError` is
raised by the pinned FastAPI after the dependencies have been closed as after a
success: `get_db` *commits*, a transaction in which the endpoint has done nothing,
and the 422 follows, or a 500 if that commit fails. Everything else makes `get_db`
roll back. A commit that raises (`CommitFails`) may have happened: PostgreSQL
refused, or its acknowledgement was lost. `ran` and `committed` keep what became of
the endpoint and of the transaction, so `AnswerTellsOutcome` says what a client may
conclude: a success means committed, a 4xx means not, a 500 leaves it open.

The code behind it: `get_user_repository`, `get_auth_service` and the like are plain
functions, so each goes through anyio's pool of 40 threads; `get_db`, `get_redis`
and `get_current_user` are coroutines; a connection is taken at the first statement,
from a pool of 15; `smtplib.SMTP` is called without a timeout. So a mail server that
stays silent can take all threads, after which every request that has a dependency
to resolve waits, and, with their connections held, so does the health check. That
is the only standstill: `StuckOnlyBySmtp`. Requests that hold a connection while
they wait for a thread, and others that wait for connections, never form a cycle,
because no thread is held while waiting.

The id of a request is not modelled: the middleware sets its ContextVar once, in the
task of the request, and nothing else writes it. Two answers lack it, though the
docstring of `core/middleware.py` says it is echoed on the response: an exception
without an entry in the map passes through the middleware, so that 500 has it
neither in a header nor in its body, and the body of a 422, which FastAPI's own
handler writes, has no `request_id`.

### Migrations

The catalog is a set of names: tables, indexes, enum types, alembic's own table and
the row that stamps the revision. A migrator makes sure that the table of versions
is there (`EnsureVersionTable`: it looks, then creates, so the second of two that
look at an empty database fails and rolls back), reads the stamp, then runs the
script statement by statement in one transaction; `made` and `dropped` are its
uncommitted changes. A CREATE waits for an open one of the same name, and DDL waits
for whoever has the objects it refers to, as PostgreSQL's catalog locks make it;
then it fails if the name is taken, missing or still referred to, and the whole
transaction rolls back. `alone` remembers whether another migrator overlapped: then
a failure is to be expected (the second of two upgrades finds its tables there).

### Abstractions

Two specifications say what the detailed ones are for. `TokenLife`: a token is
minted once, for one holder, works, and is dead for good; `AuthProperties!Life` maps
it from `key` and `subject`. `ItemTree`: items come under what is there, and a
project goes together with all its tasks in one step; `WorkspaceProperties!Tree`
maps it from `rows`. The cascade's row locks and its one commit are what makes
several statements look like that one step. Creating tasks breaks the second
refinement (`WorkspaceRaceCreate`), so its run has none: `Add` is there for the
seeded items and for what the tree means.

## The runs

| Run | Requests | What it shows |
|---|---|---|
| `AuthOnboarding` | 2, faults | types; an address belongs to one account; a row an INSERT waits for has a live transaction; a link is mailed after the commit only; nobody is verified or gets a token without it; a used link is dead |
| `AuthLockout` | 3, fair | the counter and the guesses overshoot the limit by less than the requests in flight; every counted failure is forgotten |
| `AuthRevocation` | 2 and a guarded one, faults | what a reset found stays revoked; used links stay used; except where a login or refresh ran beside a reset's revocation, a working session goes back to the present password and is in the index; an exchanged token is dead; the service implements `TokenLife`; a ban takes hold |
| `WorkspaceCascade` | 3, fair | creations and deletes: the cascade covers its snapshot; only two cascades of one project deadlock; every request ends |
| `WorkspaceEdits` | 2, faults | no null in a required column; no PATCH is lost to another; deletes implement `ItemTree`; only the owner changes an item |
| `ListingPages` | one client, any writers | a walk misses an item that was there all the time only if a newer one left, and shows one twice only if a newer one entered (items that tie excepted); an undisturbed walk takes `total_pages` pages |
| `Pipeline` | 2, fair, faults | only mails bring the pools to a halt; an answer tells what became of the transaction; every request is answered, unless mails keep all threads for ever |
| `Migrations` | 3 migrators, fair, faults | the committed schema is what the stamp says; an undisturbed migration works; every migration ends |

Four runs refute what the documents say:

| Run | Property | What happens |
|---|---|---|
| `AuthRaceRegister` | `NoUnhandledException` | both registrations pass the look-up; the second INSERT is an IntegrityError, a 500 |
| `AuthRaceLock` | `LockRunsItsCourse` | a login that read the TTL before the lock was set checks the right password and deletes the lock: 15 minutes end at once |
| `AuthRaceReset` | `SessionsMatchPassword` | a login that checked the old password issues its tokens after the reset has revoked |
| `WorkspaceRaceCreate` | `NoOrphanTask` | a task is inserted while the project's delete is between its cascade and its commit |

The passing runs and the refuting ones belong together. `AuthRaceReset` shows why
`OldSessionsEnd` and `SessionsIndexed` except the accounts in `raced`, and
`AuthRevocation` that nothing else breaks them: not two resets at once, a failure at
any await, an expiry, nor a logout or a refresh next to the login. `AuthRevocation`
also shows what is left of "single use" where a race takes the rest: two refreshes
that both find a token before either deletes it exchange it twice, but from the
first exchange on it is dead (`ExchangedIsDead`); two uses of one reset link can
overlap likewise, and the link is dead once a new password is committed
(`UsedLinkDead`).

Other weak points that the model has and no run is there for:

- A failure between INCR and EXPIRE leaves a counter that never runs out. That is
  why `AuthLockout` has no faults: with them `FailuresForgotten` is false.
- A lock in its last half second is not seen by login (TTL rounds to 0), which
  `LockRunsItsCourse` counts as its course.
- A failure between the DEL of a verification link and the commit leaves an account
  unverified with no way to a new link; one between the DEL of a reset link and the
  commit costs the link, and the sessions revoked by then.
- Two overlapping DELETEs of one item are both answered 204.
- `PATCH {"title": null}` passes the schema of the body. NOT NULL and the schema of
  the response stop it (`Complete`), but as a 500.

### Bounds, and why they are enough

- Two requests show any race between two handlers; a third is there where the
  property counts requests (`AuthLockout`) or where a cycle of waits could be longer
  than two (`WorkspaceCascade`).
- Two users, two links: an address can be registered, freed by deletion and taken
  again, or contended. `ADA` is `ada` typed in capitals.
- `LoginMaxAttempts` is 2: one failure that does not lock and one that does.
  `attempts` saturates at `CountCap` (the limit plus the number of requests), which
  `CounterBounded` shows is never reached.
- Two tasks in `WorkspaceCascade`: two rows are what a deadlock of two cascades
  takes. Two columns, one of them nullable, tell a mixed row from a whole one.
  `Bodies` are the PATCH bodies of a run.
- `ListingPages`: four items, pages of two, three values of `now()`: full, partial
  and empty last pages, newer and older neighbours, ties, and commits out of order.
  `MaxClock` bounds the clock; `shown` saturates at 2.
- `patches` is emptied when a request arrives with all others idle.
- `AuthRevocation`: one guarded request beside two others that overlap as they like;
  two jtis, which a reset can find both, or find one while the other is minted; one
  reset link, which both requests can use. `overtime` saturates one above its bound.
- `WorkspaceCascade` starts from nothing: its project and tasks are created on the
  way. `WorkspaceEdits` starts with a project and a task; its bodies supply one
  column, a new value or a null for the required one and a null for the other.
- `Pipeline`: one thread and one connection, two requests: one holds what the other
  wants. Every route and every exception the code raises is in it.
- `Migrations`: three migrators, so that a waiting one can find its turn taken.
- Symmetry is used in runs without liveness properties only (`TokensLive` and
  `DeletesWhole` are refinements without fairness, hence safety).

### Deadlock and fairness

Deadlock is checked in every run: `Quiet` lets the system rest when all requests are
idle, so TLC reports a request that is stuck. (`Migrations` needs none: an idle
migrator can always start.)

`AuthService!Fairness`: weak fairness for the steps of each request (the event loop
runs what is ready, and a call it awaits returns or raises) and for the expiry of
locks and counters (Redis). Nothing makes a client call, a link expire or an
operator act. `AuthLockout` has no faults, since a fault can leave a counter without
TTL; the lock's own expiry is in `AuthOnboarding` and `AuthRaceLock`.
`Workspace!Fairness`: strong fairness for the steps of a request, because PostgreSQL
grants a row lock in the order of a queue, so a waiting statement is not overtaken
for ever; weak fairness for the deadlock detector. `Pipeline!Fairness`: strong
fairness for the steps of a request, since both pools serve their queues in order.
It includes neither the end of an SMTP connection (`SmtpEnd`: without a timeout a
silent server is waited for as long as it is silent) nor the timeout of the
connection pool nor any other failure. `AnswersCome` therefore says that a request
is answered if again and again some thread is not mailing. `Migrations!Fairness`:
strong fairness for the statements of a migrator, for the locks; nobody has to start
one.

## The proofs

Every safety property that a passing run checks is also a theorem, for any sets of
requests, accounts, items, migrators and ids, any limits and pool sizes, with faults
or without, unless an assumption is named:

| Theorem | Property | |
|---|---|---|
| *`AuthProofs`* | | |
| `TypeCorrect` | `TypeOK` | every variable keeps its type |
| `DeadForGood` | | a minted token that has died never works again |
| `LinkUsedOnce` | `UsedLinkDead` | a link whose effect is committed is dead |
| `RevocationHolds` | `RevokedStayDead` | what a reset found in the index is dead |
| `TokensRefined` | `TokensLive` | the service implements `TokenLife` |
| *`AccountProofs`* | | |
| `AddressesUnique` | `EmailUnique` | one account per address |
| `InsertsAwaited` | `PendingHasOwner` | no open transaction is left behind |
| `MailsCommitted` | `MailAfterCommit` | no link is mailed for an account that is not committed |
| `MailsVerify` | `VerifiedThroughMail` | nobody is verified without the mail |
| `SessionsVerified` | `OnlyVerifiedHoldSessions` | nobody has a session without being verified |
| *`LoginProofs`* | | |
| `LateChecksFew` | `LateChecksBounded` | late guesses are fewer than requests, if there is any |
| `CountersBounded` | `CounterBounded` | the overshoot is less than the requests; no faults |
| `SessionsEnd` | `OldSessionsEnd` | except where `raced`, sessions go back to the present password |
| `SessionsInIndex` | `SessionsIndexed` | except where `raced`, the index has every session |
| `ExchangedDead` | `ExchangedIsDead` | an exchanged token is dead |
| *`GuardProofs`* | | |
| `BansTakeHold` | `BanTakesHold` | late commits are those of requests already inside |
| *`WorkspaceProofs`* | | |
| `WorkspaceTypes` | `TypeOK` | types; no null in a required column |
| `CascadeIsWhole` | `CascadeCoversScan` | a finished cascade has all of its snapshot |
| `OwnersOnly` | `OwnerOnly` | only the owner changes an item |
| `PatchesKept` | `NoLostPatch` | no PATCH writes back what it merely loaded |
| `CascadesOnly` | `OnlyCascadesDeadlock` | only cascades of one project deadlock |
| `DeletedWhole` | `DeletesWhole` | the service implements `ItemTree`, no task being created |
| *`PipelineProofs`* | | |
| `PipelineTypes` | `TypeOK` | types |
| `AnswersTell` | `AnswerTellsOutcome` | a success was committed, a 4xx was not, a 500 is nothing the code raises on purpose |
| `HaltsOnlyBySmtp` | `StuckOnlyBySmtp` | only mails bring the pools to a halt |
| *`MigrationProofs`* | | |
| `MigrationTypes` | `TypeOK` | types |
| `StampTells` | `SchemaMatchesStamp` | the schema is whole or absent, as its stamp says |
| `ScriptsFit` | `UndisturbedMigrationWorks` | a migration alone never fails by itself |
| *`ListingProofs`* | | |
| `ListingTypes` | `TypeOK` | types |
| `WalkMissesNone` | `NoneMissed` | an item is missed only if a newer one left |
| `WalkShowsOnce` | `NoneTwice` | an item is shown twice only if a newer one entered |
| `PagesAreTotal` | `TotalPagesRead` | `total_pages` is how many pages there are to read |

### Assumptions

The theorems rest on the assumptions named in the modules, which TLC evaluates on
every run: limits and pools are positive, `Request`, `Gate` and `Item` are finite,
kinds of tokens and of items are disjoint, null values are none of the others,
`Lower` is idempotent, seeded tasks belong to seeded projects. A few theorems assume
more, and each of these assumptions marks where the code stops keeping a promise:

- *No faults* (`~Faults`), for `CountersBounded`. A failure between INCR and the DEL
  that follows the lock leaves a counter above the limit with nobody to reset it,
  and it can happen again.
- *`Request # {}`*: nobody is fewer than no requests.
- *No POST of a task* (`"task.create" \notin Ops`), for the refinement of
  `ItemTree`: `WorkspaceRaceCreate` shows how a creation breaks it.

### The argument for auth

Six layers, each an invariant that the next one builds on.

1. *Types.* `TypeOK` is not inductive: a step uses locals that only its program
   counter guarantees. `RequestsOK` says for each label which locals are set (that a
   request at `reset.delete` has a user and a reset link, one at `issue.set` a user
   and a fresh jti), and the two together are inductive.
2. *Fresh tokens.* `FreshInv`: a token still to be issued has no subject and no key,
   and no two requests have drawn it. Every step either keeps `subject` and revives
   no key, or mints the one token its request drew. So (`Lasting`) what is minted
   stays minted, and what is minted and dead stays dead; this is `DeadForGood`. The
   same division of steps gives the refinement: a step that mints is
   `TokenLife!Mint`, any other is `End` of the tokens whose key it removes, or of
   none.
3. *Held tokens.* `HeldInv`: the tokens a client knows, the index holds, or a
   request presents or has read are minted, and the links a handler has deleted or
   whose effect is committed are dead. It follows step by step from `Lasting`, and
   gives `UsedLinkDead` and `RevokedStayDead`. (`RevokedStayDead` is not inductive
   alone: that no other request re-creates a key the reset has read takes the
   uniqueness of draws.)
4. *Accounts.* `AccountInv`. `EmailUnique` speaks of committed rows and is not
   inductive: two registrations can both be past the look-up. `OneClaim` extends it
   to pending rows, as the unique index does, and needs every address in the table
   to be lowered. That a commit makes just its own row active takes `OneOwner` (a
   registration shares its account with nobody), and that the row is the one the
   link was minted for takes `AccountBy`, what a request's locals say of accounts at
   each label: `subject[token]` is the user it has read, whom login and refresh have
   found verified. `TokensOfCommitted` says that tokens of an account nobody has
   committed are in no hands, so that the operator and other requests only meet
   committed ones. The steps fall into a few kinds (`Writes`, `Advances`,
   `GivesOut`), and `NextAccounts` goes through them.
5. *The lockout.* `CounterBounded` counts requests, so its invariant does:
   `Overshoot` bounds the counter of an address by the limit and the requests that
   have counted to it and are still to reset it (`Climbers`). An INCR above the
   limit adds its request to them, the reset takes the counter with it. `LateBy`
   does the same for guesses: those checked late and those still to be checked
   (`Checkers`) are together fewer than the requests, for whoever set the lock is
   neither.
6. *Sessions.* `SessionInv` is about all requests at once: `SessionsGood` extends
   `OldSessionsEnd` and `SessionsIndexed`, `ParentsDead` is `ExchangedIsDead`, and
   `SessionBy` says what the locals of each request know unless its user is in
   `raced`: that the hash a login checked is still that of the row, that the token a
   refresh deleted was of the present password, that every working token a reset has
   not deleted is still to be. These are the facts another request can spoil. A step
   that could do so is one of an `Issuing` request beside a `Revoking` one, and
   `Marked` (`Races(u) => u \in raced`) says that this account is then excepted.

The guard adds `Outstayed`: as long as an account is not ended nobody has committed
too late for it, and from then on the late commits and the requests still inside are
together at most all guarded ones. That nobody gets in later is `get_by_id` and
`is_active`, read in one step. Its other half is that an ended account stays ended,
for which every step of the auth service has to be looked at: `AccountInv` says
which rows they write.

### The workspace

`RowsInv` says of each label what its look-up has found and what may not have
changed since (`LocalsOK`), that a row lock is on the item of a DELETE about to
commit or on a task its cascade has been through (`Locks`), that a committed row has
a committed parent (`Rooted`), and that no two requests create the same item.
`CascadeCoversScan` is a conjunct of it, extended to the rows a cascade has already
been through. `OwnersOnly` needs parents to stay what the ownership check has read.
For `CascadesOnly`: a request that holds a lock and waits is a DELETE of a project.
If it waits for the project's row, it waits for a DELETE about to commit, which
waits for nobody; so in a circle each waits in its cascade, for a task that another
cascade has been through, and that task has one project. `PatchInv` strengthens
`NoLostPatch` to the time before everyone is idle: a column that some overlapping
PATCH supplied holds such a value, and a column that has changed since a request
under way loaded it is supplied.

The refinement maps each step to `Remove` of a project with its tasks, to `Remove`
of one task, to `Add`, or to a stutter. `WholeInv` is what makes the one commit
atomic to an observer: all active tasks of a project whose cascade has its snapshot
are in it, and no active task has a deleted project.

### The pipeline

`PipeInv` describes each request by where it is on its way: some needs of its route
in their order (`Ahead`), then commit, answer and mail (`Doing`); the answer of what
is committed (`Committed`); what an exception leaves (`Failing`: with a rollback, or
with the commit of a transaction in which nothing ran); and so on. That a 4xx is
given for nothing committed rests on the order of needs: `ParamsAt` says where
validation stands in each route, so the endpoint runs only behind it; and the
exceptions without rollback come before the first statement (`Ordered`). `Holds`:
only those whose transaction is open have a connection. So the plan of a request
that has a connection ends in a commit or rollback, no thread is held by one that
waits, and `HaltsOnlyBySmtp` follows by counting threads. `StatusOf` climbs the
class hierarchy recursively; `Table` computes it for each class that is raised.

### The migrations

The two scripts are sequences of statements. `MigInv`: a migrator has done the first
k statements, and what it has made is what these create and the catalog did not
have, or what it has dropped is what these drop; at most one has changes at a time;
the catalog is nothing, the table of versions alone, or everything. A lemma for each
script says where each statement finds and leaves what it refers to, so that one
that fails met the work of another migrator.

### The lists

`Before(x)`, the number of listed items newer than `x`, decides which page an item
is on. The lemmas `Placed` and `PageOf` say that any order PostgreSQL may choose
puts an item that ties with none at that place, and on the page that `offset` and
`limit` cut out there. The invariant: an item that was there all the time and has
not been shown has at least as many before it as pages have gone by, unless a newer
one left (`Ahead`); one that has been shown has fewer, unless a newer one came
(`Behind`); and pages that were turned were full (`Turned`). The lemma `Pages`
relates their number to the ceiling that `total_pages` computes.

### What is only model-checked

- Liveness: `FailuresForgotten`, `RequestsEnd`, `AnswersCome`, `MigrationsEnd`. The
  provers handle neither fairness nor ENABLED.
- The four properties that runs refute.
- What the counter and `ItemTree` do where the assumptions above fail: there the
  properties are false, and TLC says so.

The inductive invariants are proved and not listed in the runs, which check what the
system promises. No module declares a RECURSIVE operator.

### What the proofs changed in the models

- `Workspace`: a rollback voided the row of the request's item at any label. A
  request that was still looking its project up would have voided a row that another
  had inserted meanwhile. Now only the transaction that inserted it does
  (`insert.commit`).
- `Listing`: `Slices`, the pages that some order yields, is written without a tuple
  pattern, and `Migrations` names its operations without blanks, both for the
  provers.

## Not modelled

- GET of one item: it changes nothing. The width of a page's offset: `page` has no
  upper bound, and PostgreSQL rejects an offset beyond a bigint.
- Access tokens that are expired, malformed or of the wrong type: the guard refuses
  them before any await. That a valid one outlives a logout or a reset is by design
  of the code; `AccessGuard` revokes none.
- Configuration and lifespan: read or run once, outside any request.
- Columns of the migrations and alembic's offline mode, which prints SQL.
- Lengths and formats in the schemas, wording, headers, request ids, redaction and
  format of log lines: no state.
- What an SMTP server does with a mail. An `OSError` (a refused connection) is not
  the `SMTPException` that `send` catches, and escapes the background task after the
  response, where it changes nothing.
- That a verification link cannot be requested again, and that the index of tokens
  has no TTL: no code to relate a property to.

## The plan

1. *(done)* Auth: registration, login, sessions, composed; runs; `TypeOK` and the
   token theorems.
2. *(done)* Workspace: projects and tasks under row locks; runs.
3. *(done)* Abstract specifications: `TokenLife` (proved) and `ItemTree`
   (model-checked).
4. *(done)* `AccessGuard`, composed with auth. `Pipeline`, `Migrations`, `Listing`.
5. *(done)* Proofs of the safety properties: accounts, lockout, sessions, guard,
   workspace, pipeline, migrations, lists; both refinements.
6. *(next)* Theorems beyond the runs' properties: what `TokenLife` and `ItemTree`
   promise, and so what the services inherit from them; the bound on the counter
   when faults are counted; what remains of a lock's course when the logins under
   way at its start are counted.
