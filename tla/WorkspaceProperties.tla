-------------------------- MODULE WorkspaceProperties --------------------------
(***************************************************************************)
(* What the workspace promises, kept apart from the machine.               *)
(***************************************************************************)
EXTENDS Workspace

Label == {"idle", "create.project", "insert", "insert.commit", "patch.get", "patch.commit",
          "delete.get", "cascade.scan", "cascade.rows", "delete.flush", "delete.commit"}

\* A required column never holds a null, though the body of a PATCH may.
Columns == {g \in Fields : \A f \in NotNull : g[f] # Null}
Row_ == [status : Status, parent : Owner \cup Project \cup {NoOwner}, fields : Columns]
Request_ == [pc : Label, by : Owner \cup {NoOwner}, item : Item \cup {NoItem},
             parent : Owner \cup Project \cup {NoOwner}, changes : Changes, loaded : Columns,
             scanned : SUBSET Task, left : SUBSET Task]

\* Every variable holds what its column, its lock or its local can hold.
TypeOK ==
  /\ rows \in [Item -> Row_]
  /\ locker \in [Item -> Request \cup {NoRequest}]
  /\ req \in [Request -> Request_]
  /\ patches \in [Item -> SUBSET Changes]

\* No active task is left under a soft-deleted project: what the cascade of
\* ProjectService.delete is for.
NoOrphanTask ==
  \A t \in Task : Active(t) => rows[rows[t].parent].status # "deleted"

\* Once the cascade's UPDATE is done, every task its snapshot held is either
\* deleted already or will be by this very commit, whatever other transactions
\* did to it while the UPDATE was going through its rows.
CascadeCoversScan ==
  \A r \in Request : req[r].pc \in {"delete.flush", "delete.commit"} =>
    \A t \in req[r].scanned : locker[t] = r \/ rows[t].status = "deleted"

OwnerOf(x) == IF x \in Project THEN rows[x].parent ELSE rows[rows[x].parent].parent

\* An active item changes only in the last step of a request of its owner.
OwnerOnly ==
  [][\A x \in Item : Active(x) /\ rows'[x] # rows[x] =>
       \E r \in Request : req[r].by = OwnerOf(x) /\ ~At(r, "idle") /\ At(r, "idle")']_vars

\* Only two DELETEs of one project can deadlock: every other request that
\* holds a row lock waits for none.
OnlyCascadesDeadlock ==
  \A r \in Request : Deadlocked(r) =>
    \E q \in Request \ {r} : At(r, "cascade.rows") /\ At(q, "cascade.rows")
                               /\ req[q].item = req[r].item

\* No PATCH is lost: when all requests that overlapped have ended, a field that
\* some of them supplied holds what one of them supplied for it, whatever the
\* others had loaded and wrote to other fields.
NoLostPatch ==
  AllIdle => \A x \in Item : \A f \in UNION {DOMAIN c : c \in patches[x]} :
    \E c \in patches[x] : f \in DOMAIN c /\ rows[x].fields[f] = c[f]

\* Committed rows make a tree from which a project goes together with all its
\* tasks, in one step and for good: the cascade's row locks and the one commit
\* make many statements look atomic.  Creating tasks breaks it (see the run
\* WorkspaceRaceCreate), so its run has none.
Committed(x) == rows[x].status \in {"live", "deleted"}

Tree ==
  INSTANCE ItemTree WITH
    Nowhere <- NoOwner,
    state <- [x \in Item |-> CASE rows[x].status = "live" -> "there"
                               [] rows[x].status = "deleted" -> "gone"
                               [] OTHER -> "absent"],
    under <- [x \in Item |-> IF Committed(x) THEN rows[x].parent ELSE NoOwner]

DeletesWhole == Tree!Spec

\* Every request ends: waiting for row locks is never for ever.
RequestsEnd == \A r \in Request : ~At(r, "idle") ~> At(r, "idle")
=============================================================================
