------------------------------ MODULE Workspace ------------------------------
(***************************************************************************)
(* Projects and tasks: the endpoints of app/projects and app/tasks over    *)
(* PostgreSQL at READ COMMITTED.  Both tables have the same shape (Entity, *)
(* SoftDeleteRepository): an item is a project, whose parent is its owner, *)
(* or a task, whose parent is its project.                                 *)
(*                                                                         *)
(* A request is one transaction (get_db): its statements are steps, its    *)
(* commit comes after the endpoint has returned.  `by` is the user that    *)
(* get_current_user has authenticated.                                     *)
(***************************************************************************)
EXTENDS Naturals

CONSTANTS
  Request, Owner, Project, Task,
  Field, NotNull,    \* columns PATCH can set, and those declared nullable=False
  Value, Null, Blank, \* what they hold; Blank is what a created item has in all
  Bodies,            \* the PATCH bodies a run has
  SeedParent,        \* items that exist at the start, with their parents
  Ops, Faults,
  NoRequest, NoItem, NoOwner

Item == Project \cup Task
Fields == [Field -> Value \cup {Null}]
Changes == UNION {[S -> Value \cup {Null}] : S \in SUBSET Field}
Endpoints == {"project.create", "task.create", "patch", "project.delete", "task.delete"}

ASSUME ItemAssumption ==
  /\ Project \cap Task = {} /\ Owner \cap Item = {}
  /\ NoItem \notin Item /\ NoOwner \notin Owner \cup Item /\ NoRequest \notin Request
ASSUME FieldAssumption == NotNull \subseteq Field /\ Blank \in Value /\ Null \notin Value
ASSUME SeedAssumption ==
  /\ DOMAIN SeedParent \subseteq Item
  /\ \A x \in DOMAIN SeedParent :
       SeedParent[x] \in (IF x \in Project THEN Owner ELSE Project \cap DOMAIN SeedParent)
ASSUME RunAssumption == Bodies \subseteq Changes /\ Ops \subseteq Endpoints /\ Faults \in BOOLEAN

VARIABLES
  rows,      \* status, parent and fields of every item
  locker,    \* the transaction whose uncommitted UPDATE sets an item's deleted_at
  req,       \* program counter and locals of every request
  patches    \* history: PATCHes answered 200 since a request last came alone

vars == <<rows, locker, req, patches>>

\* "pending" is an INSERT not yet committed, "void" one that was rolled back.
Status == {"unborn", "pending", "void", "live", "deleted"}

Row(status, parent) ==
  [status |-> status, parent |-> parent, fields |-> [f \in Field |-> Blank]]

Idle == [pc |-> "idle", by |-> NoOwner, item |-> NoItem, parent |-> NoOwner,
         changes |-> [f \in {} |-> Null], loaded |-> [f \in Field |-> Blank],
         scanned |-> {}, left |-> {}]

At(r, label) == req[r].pc = label
Goto(r, label) == req' = [req EXCEPT ![r].pc = label]
Reply(r) == req' = [req EXCEPT ![r] = Idle]

Call(r, event, locals) ==
  /\ event \in Ops
  /\ At(r, "idle")
  /\ req' = [req EXCEPT ![r] = locals]
  /\ patches' = IF \A q \in Request : At(q, "idle") THEN [x \in Item |-> {}] ELSE patches
  /\ UNCHANGED <<rows, locker>>

-----------------------------------------------------------------------------
(* Queries.  They see committed rows only: a lock hides nothing from them.   *)

Active(x) == rows[x].status = "live"

VisibleToAnyone(x, by) ==
  Active(x) /\ (x \in Task => Active(rows[x].parent))

\* get_by_id_for_owner of either repository: a task must join to an active
\* project of the owner.
Visible(x, by) ==
  /\ Active(x)
  /\ IF x \in Project THEN rows[x].parent = by
                      ELSE Active(rows[x].parent) /\ rows[rows[x].parent].parent = by

\* An UPDATE waits for the transaction that has the row.
Free(x) == locker[x] = NoRequest

-----------------------------------------------------------------------------
(* POST.                                                                     *)

FreshItem(x) == rows[x].status = "unborn" /\ \A r \in Request : req[r].item # x

CreateProjectCall(r, by, x) ==
  /\ FreshItem(x)
  /\ Call(r, "project.create",
          [Idle EXCEPT !.pc = "insert", !.by = by, !.item = x, !.parent = by])

CreateTaskCall(r, by, p, x) ==
  /\ FreshItem(x)
  /\ Call(r, "task.create",
          [Idle EXCEPT !.pc = "create.project", !.by = by, !.item = x, !.parent = p])

\* TaskService.create: 404 unless the project is the caller's and active.
CreateLookup(r) ==
  /\ At(r, "create.project")
  /\ IF Visible(req[r].parent, req[r].by) THEN Goto(r, "insert") ELSE Reply(r)
  /\ UNCHANGED <<rows, locker, patches>>

\* The foreign key asks only that the project's row exists; its KEY SHARE lock
\* does not conflict with the UPDATE of a soft delete.
Insert(r) ==
  /\ At(r, "insert")
  /\ rows' = [rows EXCEPT ![req[r].item] = Row("pending", req[r].parent)]
  /\ Goto(r, "insert.commit")
  /\ UNCHANGED <<locker, patches>>

InsertCommit(r) ==
  /\ At(r, "insert.commit")
  /\ rows' = [rows EXCEPT ![req[r].item].status = "live"]
  /\ Reply(r)
  /\ UNCHANGED <<locker, patches>>

-----------------------------------------------------------------------------
(* PATCH.                                                                    *)

PatchCall(r, by, x, changes) ==
  Call(r, "patch", [Idle EXCEPT !.pc = "patch.get", !.by = by, !.item = x,
                                !.changes = changes])

CompleteAnyway(changes) == TRUE

\* No null for a required column: both the schema of the response and the
\* columns' NOT NULL insist on it, that of the body does not.
Complete(changes) == \A f \in DOMAIN changes \cap NotNull : changes[f] # Null

\* The SELECT, the setattrs and the validation of the response against TaskRead
\* or ProjectRead: no await in between.  A null that the response does not allow
\* is an exception nobody maps, a 500 that rolls back.
PatchGet(r) ==
  LET x == req[r].item IN
  /\ At(r, "patch.get")
  /\ IF Visible(x, req[r].by) /\ Complete(req[r].changes)
       THEN req' = [req EXCEPT ![r].loaded = rows[x].fields, ![r].pc = "patch.commit"]
       ELSE Reply(r)
  /\ UNCHANGED <<rows, locker, patches>>

\* The unit of work writes the columns whose value differs from the loaded one.
Dirty(changes, loaded) == {f \in DOMAIN changes : changes[f] # loaded[f]}

PatchedWhole(row, changes, loaded) ==
  [row EXCEPT !.fields = [f \in Field |-> IF f \in DOMAIN changes THEN changes[f]
                                                               ELSE loaded[f]]]

Patched(row, changes, loaded) ==
  [row EXCEPT !.fields = [f \in Field |-> IF f \in Dirty(changes, loaded)
                                            THEN changes[f] ELSE @[f]]]

\* get_db's commit flushes UPDATE .. WHERE id = x, deleted meanwhile or not.  An
\* UPDATE that breaks NOT NULL is an IntegrityError, and nothing is written.
PatchCommit(r) ==
  LET x == req[r].item
      changes == req[r].changes
  IN
  /\ At(r, "patch.commit")
  /\ Dirty(changes, req[r].loaded) # {} => Free(x)
  /\ IF Complete(changes)
       THEN /\ rows' = [rows EXCEPT ![x] = Patched(@, changes, req[r].loaded)]
            /\ patches' = [patches EXCEPT ![x] = IF DOMAIN changes = {} THEN @
                                                                       ELSE @ \cup {changes}]
       ELSE UNCHANGED <<rows, patches>>
  /\ Reply(r)
  /\ UNCHANGED locker

-----------------------------------------------------------------------------
(* DELETE.                                                                   *)

DeleteCall(r, by, x) ==
  Call(r, IF x \in Project THEN "project.delete" ELSE "task.delete",
       [Idle EXCEPT !.pc = "delete.get", !.by = by, !.item = x])

DeleteGetNoCascade(r) ==
  /\ At(r, "delete.get")
  /\ IF Visible(req[r].item, req[r].by) THEN Goto(r, "delete.flush") ELSE Reply(r)
  /\ UNCHANGED <<rows, locker, patches>>

DeleteGet(r) ==
  LET x == req[r].item IN
  /\ At(r, "delete.get")
  /\ IF Visible(x, req[r].by)
       THEN Goto(r, IF x \in Project THEN "cascade.scan" ELSE "delete.flush")
       ELSE Reply(r)
  /\ UNCHANGED <<rows, locker, patches>>

\* soft_delete_by_project: the statement's snapshot has the committed tasks ...
CascadeScan(r) ==
  LET tasks == {t \in Task : Active(t) /\ rows[t].parent = req[r].item} IN
  /\ At(r, "cascade.scan")
  /\ req' = [req EXCEPT ![r].scanned = tasks, ![r].left = tasks,
                        ![r].pc = IF tasks = {} THEN "delete.flush" ELSE "cascade.rows"]
  /\ UNCHANGED <<rows, locker, patches>>

CascadeRowSkipLocked(r, t) ==
  /\ At(r, "cascade.rows") /\ t \in req[r].left
  /\ locker' = IF Free(t) THEN [locker EXCEPT ![t] = r] ELSE locker
  /\ req' = [req EXCEPT ![r].left = @ \ {t},
                        ![r].pc = IF req[r].left = {t} THEN "delete.flush" ELSE @]
  /\ UNCHANGED <<rows, patches>>

\* ... and the UPDATE takes them one by one, in no order SQL fixes.  It waits
\* for a locked row, then evaluates the WHERE again on what it has become.
CascadeRow(r, t) ==
  /\ At(r, "cascade.rows") /\ t \in req[r].left
  /\ Free(t)
  /\ locker' = IF Active(t) THEN [locker EXCEPT ![t] = r] ELSE locker
  /\ req' = [req EXCEPT ![r].left = @ \ {t},
                        ![r].pc = IF req[r].left = {t} THEN "delete.flush" ELSE @]
  /\ UNCHANGED <<rows, patches>>

DeleteFlushTouchingProject(r) ==
  LET x == req[r].item
      p == rows[x].parent
      row == IF x \in Task /\ locker[p] # r THEN p ELSE x
  IN
  /\ At(r, "delete.flush")
  /\ Free(row)
  /\ locker' = [locker EXCEPT ![row] = r]
  /\ Goto(r, IF row = x THEN "delete.commit" ELSE "delete.flush")
  /\ UNCHANGED <<rows, patches>>

\* mark_deleted and flush: UPDATE .. WHERE id = x, deleted meanwhile or not.
DeleteFlush(r) ==
  /\ At(r, "delete.flush")
  /\ Free(req[r].item)
  /\ locker' = [locker EXCEPT ![req[r].item] = r]
  /\ Goto(r, "delete.commit")
  /\ UNCHANGED <<rows, patches>>

DeleteCommitForgotten(r) ==
  /\ At(r, "delete.commit")
  /\ Reply(r)
  /\ UNCHANGED <<rows, locker, patches>>

\* One commit for all the rows the transaction has updated.
DeleteCommit(r) ==
  /\ At(r, "delete.commit")
  /\ rows' = [x \in Item |-> IF locker[x] = r THEN [rows[x] EXCEPT !.status = "deleted"]
                                              ELSE rows[x]]
  /\ locker' = [x \in Item |-> IF locker[x] = r THEN NoRequest ELSE locker[x]]
  /\ Reply(r)
  /\ UNCHANGED patches

-----------------------------------------------------------------------------
(* A transaction that does not commit.                                       *)

Rollback(r) ==
  /\ rows' = IF At(r, "insert.commit") THEN [rows EXCEPT ![req[r].item].status = "void"]
                                       ELSE rows
  /\ locker' = [x \in Item |-> IF locker[x] = r THEN NoRequest ELSE locker[x]]
  /\ Reply(r)

\* A statement raises, the client's connection drops or the worker dies.
Fail(r) ==
  /\ Faults /\ ~At(r, "idle")
  /\ Rollback(r)
  /\ UNCHANGED patches

\* The transactions whose locks keep r waiting; {} when it is not waiting.
WaitsFor(r) ==
  CASE At(r, "cascade.rows") /\ (\A t \in req[r].left : ~Free(t)) ->
         {locker[t] : t \in req[r].left}
    [] At(r, "delete.flush") \/ (At(r, "patch.commit")
                                  /\ Dirty(req[r].changes, req[r].loaded) # {}) ->
         {locker[req[r].item]} \ {NoRequest}
    [] OTHER -> {}

Stuck(S) == S # {} /\ \A q \in S : WaitsFor(q) # {} /\ WaitsFor(q) \subseteq S

\* PostgreSQL's deadlock detector aborts a transaction of a cycle, none of
\* those that merely wait for one.
Deadlocked(r) ==
  \E S \in SUBSET Request : r \in S /\ Stuck(S) /\ \A T \in SUBSET S : Stuck(T) => T = S

DeadlockVictim(r) ==
  /\ Deadlocked(r)
  /\ Rollback(r)
  /\ UNCHANGED patches

-----------------------------------------------------------------------------
Init ==
  /\ rows = [x \in Item |-> IF x \in DOMAIN SeedParent THEN Row("live", SeedParent[x])
                                                       ELSE Row("unborn", NoOwner)]
  /\ locker = [x \in Item |-> NoRequest]
  /\ req = [r \in Request |-> Idle]
  /\ patches = [x \in Item |-> {}]

Arrive(r) ==
  \E by \in Owner :
    \/ \E x \in Project : CreateProjectCall(r, by, x)
    \/ \E p \in Project, x \in Task : CreateTaskCall(r, by, p, x)
    \/ \E x \in Item : DeleteCall(r, by, x) \/ \E c \in Bodies : PatchCall(r, by, x, c)

Step(r) ==
  \/ CreateLookup(r) \/ Insert(r) \/ InsertCommit(r)
  \/ PatchGet(r) \/ PatchCommit(r)
  \/ DeleteGet(r) \/ CascadeScan(r) \/ (\E t \in Task : CascadeRow(r, t))
  \/ DeleteFlush(r) \/ DeleteCommit(r)

AllIdle == \A r \in Request : At(r, "idle")

\* With nothing to run the event loop waits: only a stuck request is a deadlock.
Quiet == AllIdle /\ UNCHANGED vars

Next == (\E r \in Request : Arrive(r) \/ Step(r) \/ Fail(r) \/ DeadlockVictim(r)) \/ Quiet

Spec == Init /\ [][Next]_vars

\* A statement that need not wait is executed; row locks are granted in the
\* order of a queue, so that nobody overtakes a waiting statement for ever; a
\* deadlock is detected.
Fairness == \A r \in Request : SF_vars(Step(r)) /\ WF_vars(DeadlockVictim(r))

FairSpec == Spec /\ Fairness
=============================================================================
