------------------------------ MODULE Migrations ------------------------------
(***************************************************************************)
(* `alembic upgrade head` and `alembic downgrade -1` on the one revision   *)
(* there is, run by deployers that may overlap, fail or be killed: compose *)
(* starts an upgrade with every container, a release step with every       *)
(* release.  env.py runs the script in one transaction of PostgreSQL,      *)
(* whose DDL is transactional.                                             *)
(*                                                                         *)
(* The catalog is a set of names: tables, indexes, enum types, alembic's   *)
(* own table and, as if it were an object, the row that stamps the         *)
(* revision.                                                               *)
(***************************************************************************)
EXTENDS Naturals, Sequences

CONSTANTS
  Migrator, \* processes that run alembic against one database
  Faults    \* may a connection drop, or a migrator die?

ASSUME FaultAssumption == Faults \in BOOLEAN

VersionTable == "alembic_version"
Stamp == "e8221a570455"
Index == {"ix_users_email_active", "ix_projects_owner_active", "ix_tasks_project_status_active"}
Schema == Index \cup {"users", "projects", "tasks", "task_status", "task_priority"}
Object == Schema \cup {VersionTable, Stamp}

\* What an object is on, refers to by a foreign key, or has a column of.
References ==
  [x \in Object |->
     CASE x = "ix_users_email_active" -> {"users"}
       [] x = "projects" -> {"users"}
       [] x = "ix_projects_owner_active" -> {"projects"}
       [] x = "tasks" -> {"projects", "task_status", "task_priority"}
       [] x = "ix_tasks_project_status_active" -> {"tasks"}
       [] x = Stamp -> {VersionTable}
       [] OTHER -> {}]

VARIABLES
  catalog, \* the objects that are committed
  job,     \* of every migrator: statements still to run, and what it has changed
  botched  \* history: a migration failed that nobody had disturbed

vars == <<catalog, job, botched>>

Idle == [pc |-> "idle", script |-> <<>>, made |-> {}, dropped |-> {}, alone |-> TRUE]

At(m, label) == job[m].pc = label

-----------------------------------------------------------------------------
(* The revision, one statement at a time.                                    *)

Create(x) == [op |-> "create", object |-> x]
Drop(x) == [op |-> "drop", object |-> x]
DropExisting(x) == [op |-> "drop_existing", object |-> x]

\* create_table("tasks") creates the enum types of its columns first.
Upgrade ==
  <<Create("users"), Create("ix_users_email_active"),
    Create("projects"), Create("ix_projects_owner_active"),
    Create("task_status"), Create("task_priority"),
    Create("tasks"), Create("ix_tasks_project_status_active")>>

DowngradeKeepingTypes ==
  <<Drop("ix_tasks_project_status_active"), Drop("tasks"),
    Drop("ix_projects_owner_active"), Drop("projects"),
    Drop("ix_users_email_active"), Drop("users")>>

DowngradeMisspelt ==
  <<Drop("ix_tasks_project_status"), Drop("tasks"),
    Drop("ix_projects_owner_active"), Drop("projects"),
    Drop("ix_users_email_active"), Drop("users"),
    DropExisting("task_status"), DropExisting("task_priority")>>

Downgrade ==
  <<Drop("ix_tasks_project_status_active"), Drop("tasks"),
    Drop("ix_projects_owner_active"), Drop("projects"),
    Drop("ix_users_email_active"), Drop("users"),
    DropExisting("task_status"), DropExisting("task_priority")>>

\* Alembic creates its table before the script, if it is not there, and stamps
\* the revision after it.
UpgradeRun == <<Create(VersionTable)>> \o Upgrade \o <<Create(Stamp)>>
DowngradeRun == Downgrade \o <<Drop(Stamp)>>

-----------------------------------------------------------------------------
(* PostgreSQL.  A transaction sees what is committed and its own changes.    *)

Others(m) == Migrator \ {m}
Visible(m) == (catalog \ job[m].dropped) \cup job[m].made
BeingMade(m) == UNION {job[n].made : n \in Others(m)}
BeingDropped(m) == UNION {job[n].dropped : n \in Others(m)}

\* A CREATE waits for an open one of its name, and for who drops what it refers
\* to; a DROP waits for an open one of its name, and for who has referred to it.
Waits(m, stmt) ==
  LET x == stmt.object IN
  IF stmt.op = "create"
    THEN x \notin Visible(m) /\ (x \in BeingMade(m) \/ References[x] \cap BeingDropped(m) # {})
    ELSE x \in Visible(m) /\ (\/ x \in BeingDropped(m)
                              \/ \E y \in BeingMade(m) : x \in References[y])

\* A table goes with its indexes; nothing goes while a table refers to it.
Fails(m, stmt) ==
  LET x == stmt.object IN
  CASE stmt.op = "create" -> x \in Visible(m) \/ ~(References[x] \subseteq Visible(m))
    [] stmt.op = "drop" ->
         x \notin Visible(m) \/ \E y \in Visible(m) \ Index : x \in References[y]
    [] stmt.op = "drop_existing" -> \E y \in Visible(m) \ Index : x \in References[y]

Makes(m, stmt) == IF stmt.op = "create" THEN {stmt.object} ELSE {}
Drops(m, stmt) ==
  IF stmt.op = "create" THEN {}
  ELSE ({stmt.object} \cup {i \in Index : stmt.object \in References[i]}) \cap Visible(m)

ExecuteAutocommit(m, stmt) ==
  /\ catalog' = (catalog \ Drops(m, stmt)) \cup Makes(m, stmt)
  /\ job' = [job EXCEPT ![m].script = Tail(@)]

\* context.begin_transaction: changes wait for the commit.
Execute(m, stmt) ==
  /\ job' = [job EXCEPT ![m].script = Tail(@),
                        ![m].made = @ \cup Makes(m, stmt),
                        ![m].dropped = @ \cup Drops(m, stmt)]
  /\ UNCHANGED catalog

RollbackLeavingOpen(m) ==
  job' = [job EXCEPT ![m].pc = "idle", ![m].script = <<>>] /\ UNCHANGED catalog

\* The connection closes with its context manager, whatever the outcome.
Rollback(m) == job' = [job EXCEPT ![m] = Idle] /\ UNCHANGED catalog

-----------------------------------------------------------------------------
(* A migrator.                                                               *)

\* Others that overlap with it may be why a migration fails.
Start(m, task) ==
  /\ At(m, "idle")
  /\ LET others == {n \in Others(m) : ~At(n, "idle")} IN
       job' = [n \in Migrator |->
                 IF n = m THEN [Idle EXCEPT !.pc = task, !.alone = (others = {})]
                 ELSE IF n \in others THEN [job[n] EXCEPT !.alone = FALSE] ELSE job[n]]
  /\ UNCHANGED <<catalog, botched>>

\* get_current_heads: at the head there is nothing to upgrade, at the base
\* `downgrade -1` is an error of the command, which takes along what it did.
ReadVersion(m) ==
  LET stamped == Stamp \in catalog IN
  /\ \/ At(m, "upgrade") /\ stamped /\ Rollback(m)
     \/ At(m, "downgrade") /\ ~stamped /\ Rollback(m)
     \/ At(m, "upgrade") /\ ~stamped
          /\ job' = [job EXCEPT ![m].pc = "ensure"]
          /\ UNCHANGED catalog
     \/ At(m, "downgrade") /\ stamped
          /\ job' = [job EXCEPT ![m].pc = "run", ![m].script = DowngradeRun]
          /\ UNCHANGED catalog
  /\ UNCHANGED botched

\* _ensure_version_table looks whether the table is there, before it creates it:
\* of two first-time upgrades that look together the second one fails.
EnsureVersionTable(m) ==
  /\ At(m, "ensure")
  /\ job' = [job EXCEPT ![m].pc = "run",
                        ![m].script = IF VersionTable \in catalog THEN Tail(UpgradeRun)
                                                                  ELSE UpgradeRun]
  /\ UNCHANGED <<catalog, botched>>

\* A statement that raises ends the migration, and its transaction.
Statement(m) ==
  /\ At(m, "run") /\ job[m].script # <<>>
  /\ LET stmt == Head(job[m].script) IN
       /\ ~Waits(m, stmt)
       /\ \/ Fails(m, stmt) /\ Rollback(m) /\ botched' = (botched \/ job[m].alone)
          \/ ~Fails(m, stmt) /\ Execute(m, stmt) /\ UNCHANGED botched

Commit(m) ==
  /\ At(m, "run") /\ job[m].script = <<>>
  /\ catalog' = (catalog \ job[m].dropped) \cup job[m].made
  /\ job' = [job EXCEPT ![m] = Idle]
  /\ UNCHANGED botched

\* The connection drops, or the migrator is killed: PostgreSQL rolls back.
Die(m) == Faults /\ ~At(m, "idle") /\ Rollback(m) /\ UNCHANGED botched

-----------------------------------------------------------------------------
Init ==
  /\ catalog = {}
  /\ job = [m \in Migrator |-> Idle]
  /\ botched = FALSE

Step(m) == ReadVersion(m) \/ EnsureVersionTable(m) \/ Statement(m) \/ Commit(m)

Next ==
  \E m \in Migrator : Start(m, "upgrade") \/ Start(m, "downgrade") \/ Step(m) \/ Die(m)

Spec == Init /\ [][Next]_vars

\* A statement that need not wait is executed; locks are granted in the order
\* of a queue.
Fairness == \A m \in Migrator : SF_vars(Step(m))

FairSpec == Spec /\ Fairness

-----------------------------------------------------------------------------
(* What a deployer may rely on.                                              *)

Statements == {Create(x) : x \in Object} \cup {Drop(x) : x \in Object}
                \cup {DropExisting("task_status"), DropExisting("task_priority")}

\* Every variable holds what the catalog or a migrator can hold.
TypeOK ==
  /\ catalog \subseteq Object
  /\ job \in [Migrator -> [pc : {"idle", "upgrade", "downgrade", "ensure", "run"},
                           script : Seq(Statements), made : SUBSET Object,
                           dropped : SUBSET Object, alone : BOOLEAN]]
  /\ botched \in BOOLEAN

\* The schema that is committed is the whole one if the revision is stamped and
\* nothing of it otherwise, whatever overlaps, fails or dies (env.py's
\* begin_transaction).
SchemaMatchesStamp ==
  IF Stamp \in catalog THEN Schema \subseteq catalog ELSE Schema \cap catalog = {}

\* A migration that overlaps with no other does not fail: what one direction
\* leaves behind the other can start from, again and again (the types that
\* downgrade drops by hand).
UndisturbedMigrationWorks == ~botched

\* Every migration ends: migrators that wait for each other never do so in a
\* cycle, and a dead one keeps nobody waiting.
MigrationsEnd == \A m \in Migrator : ~At(m, "idle") ~> At(m, "idle")
=============================================================================
