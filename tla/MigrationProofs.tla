---------------------------- MODULE MigrationProofs ----------------------------
(***************************************************************************)
(* What TLAPS proves of Migrations, for any number of migrators.           *)
(***************************************************************************)
EXTENDS Migrations, SequenceTheorems, TLAPS

-----------------------------------------------------------------------------
(* The two scripts.                                                          *)

\* Where the scripts create an object, and where they drop it: the table of
\* versions outlives every downgrade.
CreateRank ==
  [x \in Object |->
     CASE x = VersionTable -> 1 [] x = "users" -> 2 [] x = "ix_users_email_active" -> 3
       [] x = "projects" -> 4 [] x = "ix_projects_owner_active" -> 5
       [] x = "task_status" -> 6 [] x = "task_priority" -> 7 [] x = "tasks" -> 8
       [] x = "ix_tasks_project_status_active" -> 9 [] OTHER -> 10]

DropRank ==
  [x \in Object |->
     CASE x = "ix_tasks_project_status_active" -> 1 [] x = "tasks" -> 2
       [] x = "ix_projects_owner_active" -> 3 [] x = "projects" -> 4
       [] x = "ix_users_email_active" -> 5 [] x = "users" -> 6
       [] x = "task_status" -> 7 [] x = "task_priority" -> 8 [] x = Stamp -> 9
       [] OTHER -> 10]

Created(k) == {x \in Object : CreateRank[x] <= k}
Gone(k) == {x \in Object : DropRank[x] <= k}

LEMMA Objects ==
  Object = {"users", "projects", "tasks", "task_status", "task_priority",
            "ix_users_email_active", "ix_projects_owner_active",
            "ix_tasks_project_status_active", "alembic_version", "e8221a570455"}
  BY DEF Object, Schema, Index, VersionTable, Stamp

\* What an object refers to is created before it and dropped after it.
LEMMA RanksRespectReferences ==
  ASSUME NEW x \in Object
  PROVE  /\ CreateRank[x] \in 1..10 /\ DropRank[x] \in 1..10
         /\ CreateRank[x] = 1 <=> x = VersionTable
         /\ DropRank[x] = 10 <=> x = VersionTable
         /\ \A y \in References[x] :
              y \in Object /\ CreateRank[y] < CreateRank[x] /\ DropRank[x] < DropRank[y]
<1>1. /\ CreateRank[x] \in 1..10 /\ DropRank[x] \in 1..10
      /\ CreateRank[x] = 1 <=> x = VersionTable
      /\ DropRank[x] = 10 <=> x = VersionTable
  BY Objects DEF CreateRank, DropRank, VersionTable, Stamp
<1>2. ASSUME NEW y \in References[x]
      PROVE  y \in Object /\ CreateRank[y] < CreateRank[x] /\ DropRank[x] < DropRank[y]
  BY <1>2, Objects DEF CreateRank, DropRank, References, VersionTable, Stamp
<1> QED BY <1>1, <1>2

LEMMA StatementsOf ==
  /\ \A x \in Object : Create(x) \in Statements /\ Drop(x) \in Statements
  /\ DropExisting("task_status") \in Statements /\ DropExisting("task_priority") \in Statements
  BY DEF Statements

\* The two runs are sequences of statements.
LEMMA UpgradeIs ==
  /\ UpgradeRun \in Seq(Statements) /\ Len(UpgradeRun) = 10
<1>1. UpgradeRun \in Seq(Statements)
  <2>1. <<Create(VersionTable)>> \in Seq(Statements)
    <3>1. Create(VersionTable) \in Statements
      BY StatementsOf, Objects DEF VersionTable
    <3> QED BY <3>1
  <2>2. <<Create(Stamp)>> \in Seq(Statements)
    <3>1. Create(Stamp) \in Statements
      BY StatementsOf, Objects DEF Stamp
    <3> QED BY <3>1
  <2>3. Upgrade \in Seq(Statements)
    <3>1. /\ Create("users") \in Statements /\ Create("ix_users_email_active") \in Statements
          /\ Create("projects") \in Statements
          /\ Create("ix_projects_owner_active") \in Statements
          /\ Create("task_status") \in Statements /\ Create("task_priority") \in Statements
          /\ Create("tasks") \in Statements
          /\ Create("ix_tasks_project_status_active") \in Statements
      BY StatementsOf, Objects
    <3> QED BY <3>1 DEF Upgrade
  <2> QED BY <2>1, <2>2, <2>3, ConcatProperties DEF UpgradeRun
<1>2. Len(UpgradeRun) = 10
  BY DEF UpgradeRun, Upgrade
<1> QED BY <1>1, <1>2

LEMMA DowngradeIs ==
  /\ DowngradeRun \in Seq(Statements) /\ Len(DowngradeRun) = 9
<1>1. DowngradeRun \in Seq(Statements)
  <2>1. <<Drop(Stamp)>> \in Seq(Statements)
    <3>1. Drop(Stamp) \in Statements
      BY StatementsOf, Objects DEF Stamp
    <3> QED BY <3>1
  <2>2. Downgrade \in Seq(Statements)
    <3>1. /\ Drop("users") \in Statements /\ Drop("ix_users_email_active") \in Statements
          /\ Drop("projects") \in Statements /\ Drop("ix_projects_owner_active") \in Statements
          /\ Drop("tasks") \in Statements
          /\ Drop("ix_tasks_project_status_active") \in Statements
      BY StatementsOf, Objects
    <3> QED BY <3>1, StatementsOf DEF Downgrade
  <2> QED BY <2>1, <2>2, ConcatProperties DEF DowngradeRun
<1>2. Len(DowngradeRun) = 9
  BY DEF DowngradeRun, Downgrade
<1> QED BY <1>1, <1>2

LEMMA Ranks ==
  /\ CreateRank["alembic_version"] = 1 /\ CreateRank["users"] = 2
  /\ CreateRank["ix_users_email_active"] = 3 /\ CreateRank["projects"] = 4
  /\ CreateRank["ix_projects_owner_active"] = 5 /\ CreateRank["task_status"] = 6
  /\ CreateRank["task_priority"] = 7 /\ CreateRank["tasks"] = 8
  /\ CreateRank["ix_tasks_project_status_active"] = 9 /\ CreateRank["e8221a570455"] = 10
  /\ DropRank["ix_tasks_project_status_active"] = 1 /\ DropRank["tasks"] = 2
  /\ DropRank["ix_projects_owner_active"] = 3 /\ DropRank["projects"] = 4
  /\ DropRank["ix_users_email_active"] = 5 /\ DropRank["users"] = 6
  /\ DropRank["task_status"] = 7 /\ DropRank["task_priority"] = 8
  /\ DropRank["e8221a570455"] = 9
  BY Objects DEF CreateRank, DropRank, VersionTable, Stamp

\* Each statement is about the object of its rank.
CreateAt(stmt, k) ==
  stmt.object \in Object /\ CreateRank[stmt.object] = k + 1 /\ stmt.op = "create"

DropAt(stmt, k) ==
  /\ stmt.object \in Object /\ DropRank[stmt.object] = k + 1
  /\ stmt.op = "drop" \/ (stmt.op = "drop_existing" /\ k # 0)

LEMMA UpgradeOrder ==
  ASSUME NEW k \in 0..9
  PROVE  /\ CreateAt(UpgradeRun[k + 1], k)
         /\ Created(k + 1) = Created(k) \cup {UpgradeRun[k + 1].object}
<1>1. CreateAt(UpgradeRun[k + 1], k)
  <2>0. CreateAt(UpgradeRun[1], 0)
    <3>1. UpgradeRun[1].object = "alembic_version" /\ UpgradeRun[1].op = "create"
      BY DEF UpgradeRun, Upgrade, Create, VersionTable, Stamp
    <3>2. CreateRank["alembic_version"] = 1 /\ "alembic_version" \in Object
      BY Ranks, Objects
    <3> QED BY <3>1, <3>2 DEF CreateAt
  <2>1. CreateAt(UpgradeRun[2], 1)
    <3>1. UpgradeRun[2].object = "users" /\ UpgradeRun[2].op = "create"
      BY DEF UpgradeRun, Upgrade, Create, VersionTable, Stamp
    <3>2. CreateRank["users"] = 2 /\ "users" \in Object
      BY Ranks, Objects
    <3> QED BY <3>1, <3>2 DEF CreateAt
  <2>2. CreateAt(UpgradeRun[3], 2)
    <3>1. UpgradeRun[3].object = "ix_users_email_active" /\ UpgradeRun[3].op = "create"
      BY DEF UpgradeRun, Upgrade, Create, VersionTable, Stamp
    <3>2. CreateRank["ix_users_email_active"] = 3 /\ "ix_users_email_active" \in Object
      BY Ranks, Objects
    <3> QED BY <3>1, <3>2 DEF CreateAt
  <2>3. CreateAt(UpgradeRun[4], 3)
    <3>1. UpgradeRun[4].object = "projects" /\ UpgradeRun[4].op = "create"
      BY DEF UpgradeRun, Upgrade, Create, VersionTable, Stamp
    <3>2. CreateRank["projects"] = 4 /\ "projects" \in Object
      BY Ranks, Objects
    <3> QED BY <3>1, <3>2 DEF CreateAt
  <2>4. CreateAt(UpgradeRun[5], 4)
    <3>1. UpgradeRun[5].object = "ix_projects_owner_active" /\ UpgradeRun[5].op = "create"
      BY DEF UpgradeRun, Upgrade, Create, VersionTable, Stamp
    <3>2. CreateRank["ix_projects_owner_active"] = 5 /\ "ix_projects_owner_active" \in Object
      BY Ranks, Objects
    <3> QED BY <3>1, <3>2 DEF CreateAt
  <2>5. CreateAt(UpgradeRun[6], 5)
    <3>1. UpgradeRun[6].object = "task_status" /\ UpgradeRun[6].op = "create"
      BY DEF UpgradeRun, Upgrade, Create, VersionTable, Stamp
    <3>2. CreateRank["task_status"] = 6 /\ "task_status" \in Object
      BY Ranks, Objects
    <3> QED BY <3>1, <3>2 DEF CreateAt
  <2>6. CreateAt(UpgradeRun[7], 6)
    <3>1. UpgradeRun[7].object = "task_priority" /\ UpgradeRun[7].op = "create"
      BY DEF UpgradeRun, Upgrade, Create, VersionTable, Stamp
    <3>2. CreateRank["task_priority"] = 7 /\ "task_priority" \in Object
      BY Ranks, Objects
    <3> QED BY <3>1, <3>2 DEF CreateAt
  <2>7. CreateAt(UpgradeRun[8], 7)
    <3>1. UpgradeRun[8].object = "tasks" /\ UpgradeRun[8].op = "create"
      BY DEF UpgradeRun, Upgrade, Create, VersionTable, Stamp
    <3>2. CreateRank["tasks"] = 8 /\ "tasks" \in Object
      BY Ranks, Objects
    <3> QED BY <3>1, <3>2 DEF CreateAt
  <2>8. CreateAt(UpgradeRun[9], 8)
    <3>1. UpgradeRun[9].object = "ix_tasks_project_status_active" /\ UpgradeRun[9].op = "create"
      BY DEF UpgradeRun, Upgrade, Create, VersionTable, Stamp
    <3>2. CreateRank["ix_tasks_project_status_active"] = 9 /\ "ix_tasks_project_status_active" \in Object
      BY Ranks, Objects
    <3> QED BY <3>1, <3>2 DEF CreateAt
  <2>9. CreateAt(UpgradeRun[10], 9)
    <3>1. UpgradeRun[10].object = "e8221a570455" /\ UpgradeRun[10].op = "create"
      BY DEF UpgradeRun, Upgrade, Create, VersionTable, Stamp
    <3>2. CreateRank["e8221a570455"] = 10 /\ "e8221a570455" \in Object
      BY Ranks, Objects
    <3> QED BY <3>1, <3>2 DEF CreateAt
  <2>a. k = 0 \/ k = 1 \/ k = 2 \/ k = 3 \/ k = 4 \/ k = 5 \/ k = 6 \/ k = 7 \/ k = 8 \/ k = 9
    OBVIOUS
  <2> QED BY <2>a, <2>0, <2>1, <2>2, <2>3, <2>4, <2>5, <2>6, <2>7, <2>8, <2>9
<1>2. \A x, y \in Object : CreateRank[x] = CreateRank[y] => x = y
  BY Objects DEF CreateRank, VersionTable
<1>3. PICK o \in Object : o = UpgradeRun[k + 1].object /\ CreateRank[o] = k + 1
  BY <1>1 DEF CreateAt
<1>4. ASSUME NEW x \in Object
      PROVE  CreateRank[x] <= k + 1 <=> (CreateRank[x] <= k \/ x = o)
  <2>1. PICK n \in 1..10 : n = CreateRank[x]
    BY RanksRespectReferences
  <2>2. n = k + 1 <=> x = o
    BY <1>2, <1>3, <2>1
  <2>3. n <= k + 1 <=> (n <= k \/ n = k + 1)
    OBVIOUS
  <2> QED BY <2>1, <2>2, <2>3
<1>5. Created(k + 1) = Created(k) \cup {o}
  BY <1>4 DEF Created
<1> QED BY <1>1, <1>3, <1>5

LEMMA DowngradeOrder ==
  ASSUME NEW k \in 0..8
  PROVE  /\ DropAt(DowngradeRun[k + 1], k)
         /\ Gone(k + 1) = Gone(k) \cup {DowngradeRun[k + 1].object}
<1>1. DropAt(DowngradeRun[k + 1], k)
  <2>0. DropAt(DowngradeRun[1], 0)
    <3>1. DowngradeRun[1].object = "ix_tasks_project_status_active" /\ DowngradeRun[1].op = "drop"
      BY DEF DowngradeRun, Downgrade, Drop, DropExisting, Stamp
    <3>2. DropRank["ix_tasks_project_status_active"] = 1 /\ "ix_tasks_project_status_active" \in Object
      BY Ranks, Objects
    <3> QED BY <3>1, <3>2 DEF DropAt
  <2>1. DropAt(DowngradeRun[2], 1)
    <3>1. DowngradeRun[2].object = "tasks" /\ DowngradeRun[2].op = "drop"
      BY DEF DowngradeRun, Downgrade, Drop, DropExisting, Stamp
    <3>2. DropRank["tasks"] = 2 /\ "tasks" \in Object
      BY Ranks, Objects
    <3> QED BY <3>1, <3>2 DEF DropAt
  <2>2. DropAt(DowngradeRun[3], 2)
    <3>1. DowngradeRun[3].object = "ix_projects_owner_active" /\ DowngradeRun[3].op = "drop"
      BY DEF DowngradeRun, Downgrade, Drop, DropExisting, Stamp
    <3>2. DropRank["ix_projects_owner_active"] = 3 /\ "ix_projects_owner_active" \in Object
      BY Ranks, Objects
    <3> QED BY <3>1, <3>2 DEF DropAt
  <2>3. DropAt(DowngradeRun[4], 3)
    <3>1. DowngradeRun[4].object = "projects" /\ DowngradeRun[4].op = "drop"
      BY DEF DowngradeRun, Downgrade, Drop, DropExisting, Stamp
    <3>2. DropRank["projects"] = 4 /\ "projects" \in Object
      BY Ranks, Objects
    <3> QED BY <3>1, <3>2 DEF DropAt
  <2>4. DropAt(DowngradeRun[5], 4)
    <3>1. DowngradeRun[5].object = "ix_users_email_active" /\ DowngradeRun[5].op = "drop"
      BY DEF DowngradeRun, Downgrade, Drop, DropExisting, Stamp
    <3>2. DropRank["ix_users_email_active"] = 5 /\ "ix_users_email_active" \in Object
      BY Ranks, Objects
    <3> QED BY <3>1, <3>2 DEF DropAt
  <2>5. DropAt(DowngradeRun[6], 5)
    <3>1. DowngradeRun[6].object = "users" /\ DowngradeRun[6].op = "drop"
      BY DEF DowngradeRun, Downgrade, Drop, DropExisting, Stamp
    <3>2. DropRank["users"] = 6 /\ "users" \in Object
      BY Ranks, Objects
    <3> QED BY <3>1, <3>2 DEF DropAt
  <2>6. DropAt(DowngradeRun[7], 6)
    <3>1. DowngradeRun[7].object = "task_status" /\ DowngradeRun[7].op = "drop_existing"
      BY DEF DowngradeRun, Downgrade, Drop, DropExisting, Stamp
    <3>2. DropRank["task_status"] = 7 /\ "task_status" \in Object
      BY Ranks, Objects
    <3> QED BY <3>1, <3>2 DEF DropAt
  <2>7. DropAt(DowngradeRun[8], 7)
    <3>1. DowngradeRun[8].object = "task_priority" /\ DowngradeRun[8].op = "drop_existing"
      BY DEF DowngradeRun, Downgrade, Drop, DropExisting, Stamp
    <3>2. DropRank["task_priority"] = 8 /\ "task_priority" \in Object
      BY Ranks, Objects
    <3> QED BY <3>1, <3>2 DEF DropAt
  <2>8. DropAt(DowngradeRun[9], 8)
    <3>1. DowngradeRun[9].object = "e8221a570455" /\ DowngradeRun[9].op = "drop"
      BY DEF DowngradeRun, Downgrade, Drop, DropExisting, Stamp
    <3>2. DropRank["e8221a570455"] = 9 /\ "e8221a570455" \in Object
      BY Ranks, Objects
    <3> QED BY <3>1, <3>2 DEF DropAt
  <2>a. k = 0 \/ k = 1 \/ k = 2 \/ k = 3 \/ k = 4 \/ k = 5 \/ k = 6 \/ k = 7 \/ k = 8
    OBVIOUS
  <2> QED BY <2>a, <2>0, <2>1, <2>2, <2>3, <2>4, <2>5, <2>6, <2>7, <2>8
<1>2. \A x, y \in Object : DropRank[x] = DropRank[y] => x = y
  BY Objects DEF DropRank, Stamp
<1>3. PICK o \in Object : o = DowngradeRun[k + 1].object /\ DropRank[o] = k + 1
  BY <1>1 DEF DropAt
<1>4. ASSUME NEW x \in Object
      PROVE  DropRank[x] <= k + 1 <=> (DropRank[x] <= k \/ x = o)
  <2>1. PICK n \in 1..10 : n = DropRank[x]
    BY RanksRespectReferences
  <2>2. n = k + 1 <=> x = o
    BY <1>2, <1>3, <2>1
  <2>3. n <= k + 1 <=> (n <= k \/ n = k + 1)
    OBVIOUS
  <2> QED BY <2>1, <2>2, <2>3
<1>5. Gone(k + 1) = Gone(k) \cup {o}
  BY <1>4 DEF Gone
<1> QED BY <1>1, <1>3, <1>5

\* What is left of a script after k statements.
Rest(s, k) == SubSeq(s, k + 1, Len(s))

LEMMA RestOf ==
  ASSUME NEW S, NEW s \in Seq(S), NEW k \in 0..Len(s)
  PROVE  /\ Rest(s, k) \in Seq(S) /\ Rest(s, 0) = s
         /\ Rest(s, k) = <<>> <=> k = Len(s)
         /\ k < Len(s) => Head(Rest(s, k)) = s[k + 1] /\ Tail(Rest(s, k)) = Rest(s, k + 1)
<1>1. Len(s) \in Nat
  OBVIOUS
<1>2. /\ Rest(s, k) \in Seq(S) /\ Len(Rest(s, k)) = Len(s) - k
      /\ \A i \in 1..Len(s) - k : Rest(s, k)[i] = s[k + i]
  BY <1>1 DEF Rest
<1>3. Rest(s, 0) = s
  BY <1>1 DEF Rest
<1>4. Rest(s, k) = <<>> <=> k = Len(s)
  BY <1>1, <1>2, EmptySeq
<1>5. ASSUME k < Len(s)
      PROVE  Head(Rest(s, k)) = s[k + 1] /\ Tail(Rest(s, k)) = Rest(s, k + 1)
  <2>1. Rest(s, k) # <<>>
    BY <1>1, <1>4, <1>5
  <2>2. /\ Head(Rest(s, k)) = Rest(s, k)[1] /\ Tail(Rest(s, k)) \in Seq(S)
        /\ Len(Tail(Rest(s, k))) = Len(Rest(s, k)) - 1
        /\ \A i \in 1..Len(Tail(Rest(s, k))) : Tail(Rest(s, k))[i] = Rest(s, k)[i + 1]
    BY <1>2, <2>1, HeadTailProperties
  <2>3. /\ Rest(s, k + 1) \in Seq(S) /\ Len(Rest(s, k + 1)) = Len(s) - (k + 1)
        /\ \A i \in 1..Len(s) - (k + 1) : Rest(s, k + 1)[i] = s[k + 1 + i]
    BY <1>1, <1>5 DEF Rest
  <2>4. \A i \in 1..Len(s) - (k + 1) : Tail(Rest(s, k))[i] = Rest(s, k + 1)[i]
    BY <1>1, <1>2, <2>2, <2>3
  <2>5. Tail(Rest(s, k)) = Rest(s, k + 1)
    BY <1>1, <1>2, <2>2, <2>3, <2>4, SeqEqual, SMTT(30)
  <2> QED BY <1>1, <1>2, <1>5, <2>2, <2>5
<1> QED BY <1>2, <1>3, <1>4, <1>5

-----------------------------------------------------------------------------
(* The inductive invariant.                                                  *)

Job == [pc : {"idle", "upgrade", "downgrade", "ensure", "run"}, script : Seq(Statements),
        made : SUBSET Object, dropped : SUBSET Object, alone : BOOLEAN]

\* k statements of a script are done, or the first of them was not needed, when
\* the table of versions was there.
Upgrading(q, c, k) ==
  /\ q.script = Rest(UpgradeRun, k) /\ q.dropped = {} /\ q.made = Created(k) \ c
  /\ k >= 2 \/ q.alone => c \subseteq {VersionTable}
  /\ k = 0 /\ q.alone => c = {}

Downgrading(q, c, k) ==
  /\ q.script = Rest(DowngradeRun, k) /\ q.made = {} /\ q.dropped = Gone(k)
  /\ k >= 1 \/ q.alone => c = Object

Fits(q, c) ==
  IF q.pc = "run"
    THEN (\E k \in 0..10 : Upgrading(q, c, k)) \/ (\E k \in 0..9 : Downgrading(q, c, k))
    ELSE /\ q.made = {} /\ q.dropped = {}
         /\ q.pc = "ensure" /\ q.alone => c \subseteq {VersionTable}

Busy(q) == q.made # {} \/ q.dropped # {}

Whole(c) == c \in {{}, {VersionTable}, Object}

\* The catalog is nothing, the table of versions or everything; only one
\* migrator at a time has changes that are not committed.
MigInv ==
  /\ Whole(catalog)
  /\ \A m \in Migrator : Fits(job[m], catalog)
  /\ \A m \in Migrator : \A n \in Others(m) : ~(Busy(job[m]) /\ Busy(job[n]))
  /\ \A m \in Migrator : \A n \in Others(m) :
       job[m].alone /\ ~At(m, "idle") => At(n, "idle")
  /\ ~botched

-----------------------------------------------------------------------------
(* The steps of a migrator.                                                  *)

LEMMA IdleJob == Idle \in Job /\ Fits(Idle, catalog) /\ ~Busy(Idle) /\ Idle.pc = "idle"
<1>1. Idle \in Job
  BY DEF Idle, Job
<1>2. Idle.pc = "idle" /\ Idle.made = {} /\ Idle.dropped = {}
  BY DEF Idle
<1> QED BY <1>1, <1>2 DEF Fits, Busy

\* A step that changes the migrator's own job only.
LEMMA JobStep ==
  ASSUME TypeOK, MigInv, NEW m \in Migrator, NEW q \in Job,
         job' = [job EXCEPT ![m] = q], UNCHANGED <<catalog, botched>>,
         Fits(q, catalog),
         Busy(q) => Busy(job[m]) \/ (\A n \in Others(m) : ~Busy(job[n])),
         q.pc = "idle" \/ (job[m].pc # "idle" /\ q.alone = job[m].alone)
  PROVE  TypeOK' /\ MigInv'
<1>1. /\ job' \in [Migrator -> Job] /\ job'[m] = q
      /\ \A n \in Others(m) : job'[n] = job[n] /\ n \in Migrator
  BY DEF TypeOK, Job, Others
<1>2. TypeOK'
  BY <1>1 DEF TypeOK, Job
<1>3. ASSUME NEW n \in Migrator PROVE Fits(job'[n], catalog')
  BY <1>1 DEF MigInv, Others
<1>4. ASSUME NEW a \in Migrator, NEW b \in Others(a)
      PROVE  ~(Busy(job'[a]) /\ Busy(job'[b]))
  BY <1>1, <1>4 DEF MigInv, Others
<1>5. ASSUME NEW a \in Migrator, NEW b \in Others(a), job'[a].alone, job'[a].pc # "idle"
      PROVE  job'[b].pc = "idle"
  BY <1>1, <1>5 DEF MigInv, Others, At
<1>6. Whole(catalog') /\ ~botched'
  BY DEF MigInv
<1> QED BY <1>2, <1>3, <1>4, <1>5, <1>6 DEF MigInv, At, Others

LEMMA RollbackStep ==
  ASSUME TypeOK, MigInv, NEW m \in Migrator, Rollback(m), UNCHANGED botched
  PROVE  TypeOK' /\ MigInv'
<1>1. job' = [job EXCEPT ![m] = Idle] /\ UNCHANGED <<catalog, botched>>
  BY DEF Rollback
<1> QED BY <1>1, IdleJob, JobStep

LEMMA StartMoves ==
  ASSUME TypeOK, MigInv, NEW m \in Migrator, NEW task \in {"upgrade", "downgrade"},
         Start(m, task)
  PROVE  TypeOK' /\ MigInv'
<1> DEFINE others == {n \in Others(m) : ~At(n, "idle")}
<1>1. PICK alone \in BOOLEAN : alone = (others = {})
  OBVIOUS
<1>a. PICK i \in Job : i = Idle /\ i.made = {} /\ i.dropped = {}
  <2>1. Idle.made = {} /\ Idle.dropped = {}
    BY DEF Idle
  <2> QED BY <2>1, IdleJob
<1> DEFINE q == [i EXCEPT !.pc = task, !.alone = alone]
<1>2. q \in Job /\ q.pc = task /\ q.made = {} /\ q.dropped = {} /\ q.alone = alone
  BY <1>a DEF Job
<1>3. /\ job' = [n \in Migrator |->
                   IF n = m THEN q
                   ELSE IF n \in others THEN [job[n] EXCEPT !.alone = FALSE] ELSE job[n]]
      /\ UNCHANGED <<catalog, botched>> /\ At(m, "idle")
  BY <1>1, <1>a DEF Start
<1> HIDE DEF q
<1>4. ASSUME NEW n \in Others(m)
      PROVE  /\ n \in Migrator /\ job'[n] \in Job /\ job'[n].pc = job[n].pc
             /\ job'[n].script = job[n].script
             /\ job'[n].made = job[n].made /\ job'[n].dropped = job[n].dropped
             /\ job'[n].alone => job[n].alone
             /\ job[n].pc # "idle" => ~job'[n].alone
  <2>1. n \in Migrator /\ n # m
    BY DEF Others
  <2>2. PICK b \in Job : b = job[n]
    BY <2>1 DEF TypeOK, Job
  <2>3. CASE n \in others
    <3> DEFINE c == [b EXCEPT !.alone = FALSE]
    <3>1. c \in Job /\ c.pc = b.pc /\ c.script = b.script /\ c.made = b.made
          /\ c.dropped = b.dropped
      BY DEF Job
    <3>2. ~c.alone
      BY DEF Job
    <3>3. job'[n] = c
      BY <1>3, <2>1, <2>2, <2>3
    <3> HIDE DEF c
    <3> QED BY <2>1, <2>2, <3>1, <3>2, <3>3
  <2>4. CASE n \notin others
    <3>1. job'[n] = b /\ b.pc = "idle"
      BY <1>3, <2>1, <2>2, <2>4 DEF At
    <3> QED BY <2>1, <2>2, <3>1
  <2> QED BY <2>3, <2>4
<1>5. job'[m] = q /\ (\A n \in Migrator : n = m \/ n \in Others(m))
  BY <1>3 DEF Others
<1> HIDE DEF others
<1>6. TypeOK'
  <2>1. \A n \in Migrator : job'[n] \in Job
    BY <1>2, <1>4, <1>5
  <2>2. job' \in [Migrator -> Job]
    BY <1>3, <2>1
  <2> QED BY <1>3, <2>2 DEF TypeOK, Job
<1>7. ASSUME NEW n \in Migrator PROVE Fits(job'[n], catalog')
  <2>1. CASE n = m
    BY <1>2, <1>5, <2>1 DEF Fits
  <2>2. CASE n \in Others(m)
    <3>1. PICK b \in Job, c \in Job : b = job[n] /\ c = job'[n]
      BY <1>4, <2>2 DEF TypeOK, Job
    <3>2. PICK cat : cat = catalog
      OBVIOUS
    <3>3. /\ c.pc = b.pc /\ c.script = b.script /\ c.made = b.made /\ c.dropped = b.dropped
          /\ c.alone => b.alone
      BY <1>4, <2>2, <3>1
    <3>4. Fits(b, cat)
      BY <3>1, <3>2 DEF MigInv
    <3>5. \A k : Upgrading(b, cat, k) => Upgrading(c, cat, k)
      BY <3>3 DEF Upgrading
    <3>6. \A k : Downgrading(b, cat, k) => Downgrading(c, cat, k)
      BY <3>3 DEF Downgrading
    <3>7. Fits(c, cat)
      BY <3>3, <3>4, <3>5, <3>6 DEF Fits
    <3> QED BY <1>3, <3>1, <3>2, <3>7
  <2> QED BY <1>5, <2>1, <2>2
<1>8. ASSUME NEW a \in Migrator, NEW b \in Others(a)
      PROVE  ~(Busy(job'[a]) /\ Busy(job'[b]))
  <2>1. ~Busy(job'[m]) /\ (\A n \in Others(m) : Busy(job'[n]) <=> Busy(job[n]))
    BY <1>2, <1>4, <1>5 DEF Busy
  <2> QED BY <1>5, <2>1 DEF MigInv, Others
<1>9. ASSUME NEW a \in Migrator, NEW b \in Others(a), job'[a].alone, job'[a].pc # "idle"
      PROVE  job'[b].pc = "idle"
  <2>1. CASE a = m
    <3>1. alone
      BY <1>2, <1>5, <1>9, <2>1, Zenon
    <3>2. others = {}
      BY <1>1, <3>1
    <3>3. b \in Others(m) /\ At(b, "idle")
      BY <1>9, <2>1, <3>2 DEF others
    <3> QED BY <1>4, <3>3 DEF At
  <2>2. CASE a \in Others(m)
    BY <1>4, <1>9, <2>2
  <2> QED BY <1>5, <2>1, <2>2
<1>10. Whole(catalog') /\ ~botched'
  BY <1>3 DEF MigInv
<1> QED BY <1>6, <1>7, <1>8, <1>9, <1>10 DEF MigInv, At, Others

LEMMA NothingYet == Created(0) = {} /\ Gone(0) = {}
  BY RanksRespectReferences DEF Created, Gone

LEMMA ReadVersionMoves ==
  ASSUME TypeOK, MigInv, NEW m \in Migrator, ReadVersion(m)
  PROVE  TypeOK' /\ MigInv'
<1>1. UNCHANGED botched
  BY DEF ReadVersion
<1>2. CASE Rollback(m)
  BY <1>1, <1>2, RollbackStep
<1>3. PICK b \in Job : b = job[m]
  BY DEF TypeOK, Job
<1>4. CASE /\ At(m, "upgrade") /\ Stamp \notin catalog
           /\ job' = [job EXCEPT ![m].pc = "ensure"] /\ UNCHANGED catalog
  <2>1. b.pc = "upgrade" /\ b.made = {} /\ b.dropped = {}
    BY <1>3, <1>4 DEF At, MigInv, Fits
  <2> DEFINE q == [b EXCEPT !.pc = "ensure"]
  <2>2. q \in Job /\ q.pc = "ensure" /\ q.made = {} /\ q.dropped = {} /\ q.alone = b.alone
    BY <2>1 DEF Job
  <2>3. job' = [job EXCEPT ![m] = q]
    BY <1>3, <1>4 DEF TypeOK
  <2> HIDE DEF q
  <2>4. catalog \subseteq {VersionTable}
    <3>1. Stamp \in Object
      BY Objects DEF Stamp
    <3> QED BY <1>4, <3>1 DEF MigInv, Whole
  <2>5. Fits(q, catalog) /\ ~Busy(q)
    BY <2>2, <2>4 DEF Fits, Busy
  <2> QED BY <1>1, <1>3, <1>4, <2>1, <2>2, <2>3, <2>5, JobStep
<1>5. CASE /\ At(m, "downgrade") /\ Stamp \in catalog
           /\ job' = [job EXCEPT ![m].pc = "run", ![m].script = DowngradeRun]
           /\ UNCHANGED catalog
  <2>1. b.pc = "downgrade" /\ b.made = {} /\ b.dropped = {}
    BY <1>3, <1>5 DEF At, MigInv, Fits
  <2>2. PICK s \in Seq(Statements) : s = DowngradeRun
    BY DowngradeIs
  <2> DEFINE q == [b EXCEPT !.pc = "run", !.script = s]
  <2>3. q \in Job /\ q.pc = "run" /\ q.script = s
    BY DEF Job
  <2>4. q.made = {} /\ q.dropped = {} /\ q.alone = b.alone
    BY <2>1 DEF Job
  <2>5. job' = [job EXCEPT ![m] = q]
    BY <1>3, <1>5, <2>2 DEF TypeOK
  <2> HIDE DEF q
  <2>6. catalog = Object
    BY <1>5 DEF MigInv, Whole, Stamp, VersionTable
  <2>7. q.script = Rest(DowngradeRun, 0)
    BY <2>2, <2>3, DowngradeIs, RestOf
  <2>8. Downgrading(q, catalog, 0)
    BY <2>4, <2>6, <2>7, NothingYet DEF Downgrading
  <2>9. Fits(q, catalog) /\ ~Busy(q)
    BY <2>3, <2>4, <2>8 DEF Fits, Busy
  <2> QED BY <1>1, <1>3, <1>5, <2>1, <2>3, <2>4, <2>5, <2>9, JobStep
<1> QED BY <1>2, <1>4, <1>5 DEF ReadVersion

\* Whether the table of versions is there decides with which statement the
\* script begins; alone, that is still so when the statement runs.
LEMMA EnsureMoves ==
  ASSUME TypeOK, MigInv, NEW m \in Migrator, EnsureVersionTable(m)
  PROVE  TypeOK' /\ MigInv'
<1>1. PICK b \in Job, cat \in SUBSET Object : b = job[m] /\ cat = catalog
  BY DEF TypeOK, Job
<1>2. /\ b.pc = "ensure" /\ b.made = {} /\ b.dropped = {}
      /\ b.alone => cat \subseteq {VersionTable}
  BY <1>1 DEF EnsureVersionTable, At, MigInv, Fits
<1>3. PICK k \in {0, 1} : k = 1 <=> VersionTable \in cat
  BY <1>1
<1>4. /\ UpgradeRun \in Seq(Statements) /\ k \in 0..Len(UpgradeRun)
      /\ 0 \in 0..Len(UpgradeRun) /\ 0 < Len(UpgradeRun)
  BY UpgradeIs
<1>5. Rest(UpgradeRun, 0) = UpgradeRun /\ Tail(UpgradeRun) = Rest(UpgradeRun, 1)
  BY <1>4, RestOf
<1>6. PICK s \in Seq(Statements) : s = Rest(UpgradeRun, k)
  BY <1>4, RestOf
<1> DEFINE q == [b EXCEPT !.pc = "run", !.script = s]
<1>7. q \in Job /\ q.pc = "run" /\ q.script = s
  BY DEF Job
<1>8. q.made = {} /\ q.dropped = {} /\ q.alone = b.alone
  BY <1>2 DEF Job
<1>9. job' = [job EXCEPT ![m] = q] /\ UNCHANGED <<catalog, botched>>
  <2>1. s = IF VersionTable \in cat THEN Tail(UpgradeRun) ELSE UpgradeRun
    BY <1>3, <1>5, <1>6
  <2> QED BY <1>1, <2>1 DEF EnsureVersionTable, TypeOK
<1> HIDE DEF q
<1>10. Created(k) \ cat = {}
  BY <1>3, NothingYet, RanksRespectReferences DEF Created
<1>11. Upgrading(q, cat, k)
  BY <1>2, <1>3, <1>6, <1>7, <1>8, <1>10 DEF Upgrading
<1>12. Fits(q, cat) /\ ~Busy(q)
  BY <1>7, <1>8, <1>11 DEF Fits, Busy
<1> QED BY <1>1, <1>2, <1>7, <1>8, <1>9, <1>12, JobStep

\* A statement of an upgrade: those that make something begin when nobody else
\* has changes, for who had them would have made, or dropped, the same.
LEMMA CreateMoves ==
  ASSUME TypeOK, MigInv, NEW m \in Migrator, NEW k \in 0..9, Upgrading(job[m], catalog, k),
         job[m].pc = "run",
         NEW stmt, stmt = UpgradeRun[k + 1], ~Waits(m, stmt)
  PROVE  /\ Fails(m, stmt) => ~job[m].alone
         /\ ~Fails(m, stmt) /\ Execute(m, stmt) /\ UNCHANGED botched => TypeOK' /\ MigInv'
<1>1. PICK x \in Object : x = stmt.object /\ CreateRank[x] = k + 1
  BY UpgradeOrder DEF CreateAt
<1>2. stmt.op = "create" /\ Created(k + 1) = Created(k) \cup {x}
  BY <1>1, UpgradeOrder DEF CreateAt
<1>3. PICK b \in Job, cat \in SUBSET Object : b = job[m] /\ cat = catalog
  BY DEF TypeOK, Job
<1>4. Upgrading(b, cat, k) /\ Whole(cat)
  BY <1>3 DEF MigInv
<1>5. Visible(m) = cat \cup Created(k)
  BY <1>3, <1>4 DEF Visible, Upgrading
<1>6. x \notin Created(k)
  BY <1>1 DEF Created
<1>7. ASSUME b.alone PROVE ~Fails(m, stmt)
  <2>1. cat \subseteq {VersionTable}
    BY <1>4, <1>7 DEF Upgrading
  <2>2. x \notin cat
    <3>1. k = 0 => cat = {}
      BY <1>4, <1>7 DEF Upgrading
    <3>2. k # 0 => x # VersionTable
      BY <1>1, RanksRespectReferences
    <3> QED BY <2>1, <3>1, <3>2
  <2>3. References[x] \subseteq Created(k)
    BY <1>1, RanksRespectReferences DEF Created
  <2> QED BY <1>1, <1>2, <1>5, <1>6, <2>2, <2>3 DEF Fails
<1>8. ASSUME ~Fails(m, stmt), Execute(m, stmt), UNCHANGED botched
      PROVE  TypeOK' /\ MigInv'
  <2>1. Makes(m, stmt) = {x} /\ Drops(m, stmt) = {}
    BY <1>1, <1>2 DEF Makes, Drops
  <2>2. x \notin cat
    BY <1>1, <1>2, <1>5, <1>8 DEF Fails
  <2>3. cat \subseteq {VersionTable}
    BY <1>1, <1>4, <2>2 DEF Whole
  <2>4. PICK s \in Seq(Statements) :
          s = Rest(UpgradeRun, k + 1) /\ s = Tail(Rest(UpgradeRun, k))
    <3>1. /\ k \in 0..Len(UpgradeRun) /\ k < Len(UpgradeRun) /\ k + 1 \in 0..Len(UpgradeRun)
          /\ UpgradeRun \in Seq(Statements)
      BY UpgradeIs
    <3>2. Rest(UpgradeRun, k + 1) \in Seq(Statements)
      BY <3>1, RestOf
    <3>3. Tail(Rest(UpgradeRun, k)) = Rest(UpgradeRun, k + 1)
      BY <3>1, RestOf
    <3> QED BY <3>2, <3>3
  <2>5. PICK made \in SUBSET Object : made = Created(k + 1) \ cat
    BY DEF Created
  <2> DEFINE q == [b EXCEPT !.script = s, !.made = made]
  <2>6. q \in Job
    BY DEF Job
  <2>7. q.pc = b.pc /\ q.script = s /\ q.made = made /\ q.dropped = b.dropped /\ q.alone = b.alone
    BY DEF Job
  <2>8. job' = [job EXCEPT ![m] = q] /\ UNCHANGED <<catalog, botched>>
    <3>1. Tail(b.script) = s
      BY <1>4, <2>4 DEF Upgrading
    <3>2. b.made \cup Makes(m, stmt) = made /\ b.dropped \cup Drops(m, stmt) = b.dropped
      BY <1>2, <1>4, <2>1, <2>2, <2>5 DEF Upgrading
    <3>3. q = [b EXCEPT !.script = Tail(@), !.made = @ \cup Makes(m, stmt),
                        !.dropped = @ \cup Drops(m, stmt)]
      BY <3>1, <3>2 DEF Job
    <3> HIDE DEF q
    <3> QED BY <1>3, <1>8, <3>3 DEF Execute, TypeOK
  <2> HIDE DEF q
  <2>9. Fits(q, cat)
    <3>1. k + 1 >= 2 \/ q.alone => cat \subseteq {VersionTable}
      BY <1>4, <2>3, <2>7 DEF Upgrading
    <3>2. k + 1 # 0
      OBVIOUS
    <3>3. Upgrading(q, cat, k + 1)
      BY <1>4, <2>4, <2>5, <2>7, <3>1, <3>2 DEF Upgrading
    <3> QED BY <1>3, <2>7, <3>3 DEF Fits
  <2>10. ASSUME Busy(q), ~Busy(b), NEW n \in Others(m), Busy(job[n]) PROVE FALSE
    <3>1. PICK c \in Job : c = job[n] /\ n \in Migrator
      BY DEF TypeOK, Job, Others
    <3>2. Fits(c, cat) /\ Busy(c)
      BY <1>3, <2>10, <3>1 DEF MigInv
    <3>3. c.made \subseteq BeingMade(m) /\ c.dropped \subseteq BeingDropped(m)
      BY <3>1 DEF BeingMade, BeingDropped
    <3>4. b.made = {} /\ b.dropped = {} /\ x \notin cat
      BY <2>2, <2>5, <2>7, <2>10, <1>2, <1>4 DEF Busy, Upgrading
    <3>5. x \notin c.made
      BY <1>1, <1>2, <1>5, <1>6, <3>3, <3>4 DEF Waits
    <3>6. k \in {0, 1} /\ (k = 0 => cat = {}) /\ cat \subseteq {VersionTable}
      <4>1. ASSUME k >= 2 PROVE FALSE
        <5>1. "users" \in Created(k) /\ "users" \notin cat
          BY <1>4, <4>1, Ranks, Objects DEF Created, Upgrading, VersionTable
        <5> QED BY <1>4, <3>4, <5>1 DEF Upgrading
      <4>2. VersionTable \in Object
        BY Objects DEF VersionTable
      <4>3. k = 0 => x = VersionTable
        BY <1>1, RanksRespectReferences
      <4>4. k = 0 => cat = {}
        BY <1>4, <3>4, <4>2, <4>3 DEF Whole
      <4> QED BY <2>3, <4>1, <4>4
    <3>7. ASSUME NEW j \in 0..10, Upgrading(c, cat, j) PROVE FALSE
      <4>1. c.made # {} /\ c.made = Created(j) \ cat
        BY <3>2, <3>7 DEF Upgrading, Busy
      <4>2. PICK y \in Object : CreateRank[y] <= j /\ y \notin cat
        BY <4>1 DEF Created
      <4>3. CreateRank[y] \in 1..10 /\ (CreateRank[y] = 1 => y = VersionTable)
        BY RanksRespectReferences
      <4>4. k = 1 => VersionTable \in cat
        <5>1. VersionTable \in Created(1)
          BY Ranks, Objects DEF Created, VersionTable
        <5> QED BY <1>4, <3>4, <5>1 DEF Upgrading
      <4>5. k + 1 <= j
        BY <3>6, <4>2, <4>3, <4>4
      <4>6. x \in Created(j)
        BY <1>1, <4>5 DEF Created
      <4> QED BY <3>4, <3>5, <4>1, <4>6
    <3>8. ASSUME NEW j \in 0..9, Downgrading(c, cat, j) PROVE FALSE
      <4>1. "users" \in Object /\ "users" # VersionTable
        BY Objects DEF VersionTable
      <4>2. j = 0
        BY <3>6, <3>8, <4>1 DEF Downgrading
      <4>3. c.made = {} /\ c.dropped = {}
        BY <3>8, <4>2, NothingYet DEF Downgrading
      <4> QED BY <3>2, <4>3 DEF Busy
    <3> QED BY <3>2, <3>7, <3>8 DEF Fits, Busy
  <2> QED BY <1>3, <2>6, <2>7, <2>8, <2>9, <2>10, JobStep
<1> QED BY <1>3, <1>7, <1>8

\* The same for a downgrade, of which the first statement decides.
LEMMA DropMoves ==
  ASSUME TypeOK, MigInv, NEW m \in Migrator, NEW k \in 0..8, Downgrading(job[m], catalog, k),
         job[m].pc = "run",
         NEW stmt, stmt = DowngradeRun[k + 1], ~Waits(m, stmt)
  PROVE  /\ Fails(m, stmt) => ~job[m].alone
         /\ ~Fails(m, stmt) /\ Execute(m, stmt) /\ UNCHANGED botched => TypeOK' /\ MigInv'
<1>1. PICK x \in Object : x = stmt.object /\ DropRank[x] = k + 1
  BY DowngradeOrder DEF DropAt
<1>2. /\ stmt.op = "drop" \/ (stmt.op = "drop_existing" /\ k # 0)
      /\ Gone(k + 1) = Gone(k) \cup {x}
  BY <1>1, DowngradeOrder DEF DropAt
<1>3. PICK b \in Job, cat \in SUBSET Object : b = job[m] /\ cat = catalog
  BY DEF TypeOK, Job
<1>4. Downgrading(b, cat, k) /\ Whole(cat)
  BY <1>3 DEF MigInv
<1>5. Visible(m) = cat \ Gone(k)
  BY <1>3, <1>4 DEF Visible, Downgrading
<1>6. x \notin Gone(k) /\ x # VersionTable
  BY <1>1, RanksRespectReferences DEF Gone
<1>7. \A y \in Object : x \in References[y] => y \in Gone(k)
  BY <1>1, RanksRespectReferences DEF Gone
<1>8. ASSUME b.alone PROVE ~Fails(m, stmt)
  <2>1. cat = Object
    BY <1>4, <1>8 DEF Downgrading
  <2>2. x \in Visible(m) /\ ~(\E y \in Visible(m) \ Index : x \in References[y])
    BY <1>5, <1>6, <1>7, <2>1
  <2>3. CASE stmt.op = "drop"
    BY <1>1, <2>2, <2>3 DEF Fails
  <2>4. CASE stmt.op = "drop_existing"
    BY <1>1, <2>2, <2>4 DEF Fails
  <2> QED BY <1>2, <2>3, <2>4
<1>9. ASSUME ~Fails(m, stmt), Execute(m, stmt), UNCHANGED botched
      PROVE  TypeOK' /\ MigInv'
  <2>1. cat = Object
    <3>1. CASE k = 0
      <4>1. x \in cat
        BY <1>1, <1>2, <1>5, <1>9, <3>1 DEF Fails
      <4> QED BY <1>4, <1>6, <4>1 DEF Whole
    <3>2. CASE k # 0
      BY <1>4, <3>2 DEF Downgrading
    <3> QED BY <3>1, <3>2
  <2>2. Makes(m, stmt) = {} /\ Drops(m, stmt) = {x}
    <3>1. stmt.op # "create"
      BY <1>2
    <3>2. \A i \in Index : i \in Object
      BY DEF Object, Schema
    <3> QED BY <1>1, <1>5, <1>6, <1>7, <2>1, <3>1, <3>2 DEF Makes, Drops
  <2>3. PICK s \in Seq(Statements) :
          s = Rest(DowngradeRun, k + 1) /\ s = Tail(Rest(DowngradeRun, k))
    <3>1. /\ k \in 0..Len(DowngradeRun) /\ k < Len(DowngradeRun)
          /\ k + 1 \in 0..Len(DowngradeRun) /\ DowngradeRun \in Seq(Statements)
      BY DowngradeIs
    <3> QED BY <3>1, RestOf
  <2>4. PICK dropped \in SUBSET Object : dropped = Gone(k + 1)
    BY DEF Gone
  <2> DEFINE q == [b EXCEPT !.script = s, !.dropped = dropped]
  <2>5. q \in Job
    BY DEF Job
  <2>6. /\ q.pc = b.pc /\ q.script = s /\ q.made = b.made /\ q.dropped = dropped
        /\ q.alone = b.alone
    BY DEF Job
  <2>7. job' = [job EXCEPT ![m] = q] /\ UNCHANGED <<catalog, botched>>
    <3>1. Tail(b.script) = s
      BY <1>4, <2>3 DEF Downgrading
    <3>2. b.made \cup Makes(m, stmt) = b.made /\ b.dropped \cup Drops(m, stmt) = dropped
      BY <1>2, <1>4, <2>2, <2>4 DEF Downgrading
    <3>3. q = [b EXCEPT !.script = Tail(@), !.made = @ \cup Makes(m, stmt),
                        !.dropped = @ \cup Drops(m, stmt)]
      BY <3>1, <3>2 DEF Job
    <3> HIDE DEF q
    <3> QED BY <1>3, <1>9, <3>3 DEF Execute, TypeOK
  <2> HIDE DEF q
  <2>8. Fits(q, cat)
    <3>1. Downgrading(q, cat, k + 1)
      BY <1>4, <2>1, <2>3, <2>4, <2>6 DEF Downgrading
    <3> QED BY <1>3, <2>6, <3>1 DEF Fits
  <2>9. ASSUME ~Busy(b), NEW n \in Others(m), Busy(job[n]) PROVE FALSE
    <3>1. PICK c \in Job : c = job[n] /\ n \in Migrator
      BY DEF TypeOK, Job, Others
    <3>2. Fits(c, cat) /\ Busy(c)
      BY <1>3, <2>9, <3>1 DEF MigInv
    <3>3. c.dropped \subseteq BeingDropped(m)
      BY <3>1 DEF BeingDropped
    <3>4. Gone(k) = {}
      BY <1>4, <2>9 DEF Busy, Downgrading
    <3>5. x \notin c.dropped
      BY <1>1, <1>2, <1>5, <2>1, <3>3, <3>4 DEF Waits
    <3>6. k = 0
      <4>1. ASSUME k # 0 PROVE FALSE
        <5>1. "ix_tasks_project_status_active" \in Gone(k)
          BY <4>1, Ranks, Objects DEF Gone
        <5> QED BY <3>4, <5>1
      <4> QED BY <4>1
    <3>7. ASSUME NEW j \in 0..10, Upgrading(c, cat, j) PROVE FALSE
      <4>1. c.made = {} /\ c.dropped = {}
        BY <2>1, <3>7 DEF Upgrading, Created
      <4> QED BY <3>2, <4>1 DEF Busy
    <3>8. ASSUME NEW j \in 0..9, Downgrading(c, cat, j) PROVE FALSE
      <4>1. c.dropped # {} /\ c.dropped = Gone(j)
        BY <3>2, <3>8 DEF Downgrading, Busy
      <4>2. PICK y \in Object : DropRank[y] <= j /\ DropRank[y] \in 1..10
        BY <4>1, RanksRespectReferences DEF Gone
      <4>3. x \in Gone(j)
        BY <1>1, <3>6, <4>2 DEF Gone
      <4> QED BY <3>5, <4>1, <4>3
    <3> QED BY <3>2, <3>7, <3>8 DEF Fits, Busy
  <2> QED BY <1>3, <2>5, <2>6, <2>7, <2>8, <2>9, JobStep
<1> QED BY <1>3, <1>8, <1>9

LEMMA StatementMoves ==
  ASSUME TypeOK, MigInv, NEW m \in Migrator, Statement(m)
  PROVE  TypeOK' /\ MigInv'
<1>1. PICK b \in Job : b = job[m] /\ b.pc = "run" /\ b.script # <<>>
  BY DEF Statement, At, TypeOK, Job
<1>2. PICK stmt : stmt = Head(b.script)
  OBVIOUS
<1>3. /\ ~Waits(m, stmt)
      /\ \/ Fails(m, stmt) /\ Rollback(m) /\ botched' = (botched \/ job[m].alone)
         \/ ~Fails(m, stmt) /\ Execute(m, stmt) /\ UNCHANGED botched
  BY <1>1, <1>2 DEF Statement
<1>4. Fits(b, catalog)
  BY <1>1 DEF MigInv
<1>5. ASSUME Fails(m, stmt) => ~job[m].alone,
             ~Fails(m, stmt) /\ Execute(m, stmt) /\ UNCHANGED botched => TypeOK' /\ MigInv'
      PROVE  TypeOK' /\ MigInv'
  <2>1. CASE Fails(m, stmt)
    <3>1. UNCHANGED botched
      BY <1>3, <1>5, <2>1 DEF MigInv, TypeOK
    <3> QED BY <1>3, <2>1, <3>1, RollbackStep
  <2>2. CASE ~Fails(m, stmt)
    BY <1>3, <1>5, <2>2
  <2> QED BY <2>1, <2>2
<1>6. ASSUME NEW k \in 0..10, Upgrading(b, catalog, k) PROVE TypeOK' /\ MigInv'
  <2>1. UpgradeRun \in Seq(Statements) /\ Len(UpgradeRun) = 10 /\ k \in 0..Len(UpgradeRun)
    BY UpgradeIs
  <2>a. /\ Rest(UpgradeRun, k) = <<>> <=> k = Len(UpgradeRun)
        /\ k < Len(UpgradeRun) => Head(Rest(UpgradeRun, k)) = UpgradeRun[k + 1]
    BY <2>1, RestOf
  <2>b. b.script = Rest(UpgradeRun, k)
    BY <1>6 DEF Upgrading
  <2>2. k \in 0..9
    BY <1>1, <2>1, <2>a, <2>b
  <2>3. stmt = UpgradeRun[k + 1]
    BY <1>2, <2>1, <2>2, <2>a, <2>b
  <2>4. /\ Fails(m, stmt) => ~job[m].alone
        /\ ~Fails(m, stmt) /\ Execute(m, stmt) /\ UNCHANGED botched => TypeOK' /\ MigInv'
    BY <1>1, <1>3, <1>6, <2>2, <2>3, CreateMoves
  <2> QED BY <1>5, <2>4
<1>7. ASSUME NEW k \in 0..9, Downgrading(b, catalog, k) PROVE TypeOK' /\ MigInv'
  <2>1. DowngradeRun \in Seq(Statements) /\ Len(DowngradeRun) = 9 /\ k \in 0..Len(DowngradeRun)
    BY DowngradeIs
  <2>a. /\ Rest(DowngradeRun, k) = <<>> <=> k = Len(DowngradeRun)
        /\ k < Len(DowngradeRun) => Head(Rest(DowngradeRun, k)) = DowngradeRun[k + 1]
    BY <2>1, RestOf
  <2>b. b.script = Rest(DowngradeRun, k)
    BY <1>7 DEF Downgrading
  <2>2. k \in 0..8
    BY <1>1, <2>1, <2>a, <2>b
  <2>3. stmt = DowngradeRun[k + 1]
    BY <1>2, <2>1, <2>2, <2>a, <2>b
  <2>4. /\ Fails(m, stmt) => ~job[m].alone
        /\ ~Fails(m, stmt) /\ Execute(m, stmt) /\ UNCHANGED botched => TypeOK' /\ MigInv'
    BY <1>1, <1>3, <1>7, <2>2, <2>3, DropMoves
  <2> QED BY <1>5, <2>4
<1> QED BY <1>1, <1>4, <1>6, <1>7 DEF Fits

LEMMA AllOfThem == Created(10) = Object /\ Gone(9) = Object \ {VersionTable}
  BY RanksRespectReferences DEF Created, Gone

\* Who has changed nothing yet does not mind what the catalog becomes, as long
\* as it has the table of versions.
LEMMA Bystander ==
  ASSUME NEW c \in Job, NEW cat, NEW new, Fits(c, cat), ~Busy(c), ~c.alone \/ c.pc = "idle",
         VersionTable \in new
  PROVE  Fits(c, new)
<1>1. c.made = {} /\ c.dropped = {}
  BY DEF Busy
<1>2. ASSUME c.pc = "run", NEW k \in 0..10, Upgrading(c, cat, k) PROVE Upgrading(c, new, k)
  <2>1. k < 2
    <3>1. ASSUME k >= 2 PROVE FALSE
      <4>1. "users" \in Created(k) /\ "users" \notin cat
        BY <1>2, <3>1, Ranks, Objects DEF Created, Upgrading, VersionTable
      <4> QED BY <1>1, <1>2, <4>1 DEF Upgrading
    <3> QED BY <3>1
  <2>2. Created(k) \subseteq {VersionTable}
    BY <2>1, RanksRespectReferences DEF Created
  <2> QED BY <1>1, <1>2, <2>1, <2>2 DEF Upgrading
<1>3. ASSUME c.pc = "run", NEW k \in 0..9, Downgrading(c, cat, k) PROVE Downgrading(c, new, k)
  <2>1. ~(k >= 1)
    <3>1. ASSUME k >= 1 PROVE FALSE
      <4>1. "ix_tasks_project_status_active" \in Gone(k)
        BY <3>1, Ranks, Objects DEF Gone
      <4> QED BY <1>1, <1>3, <4>1 DEF Downgrading
    <3> QED BY <3>1
  <2> QED BY <1>3, <2>1 DEF Downgrading
<1> QED BY <1>1, <1>2, <1>3 DEF Fits

LEMMA CommitMoves ==
  ASSUME TypeOK, MigInv, NEW m \in Migrator, Commit(m)
  PROVE  TypeOK' /\ MigInv'
<1>1. PICK b \in Job, cat \in SUBSET Object :
        b = job[m] /\ cat = catalog /\ b.pc = "run" /\ b.script = <<>>
  BY DEF Commit, At, TypeOK, Job
<1>2. /\ catalog' = (cat \ b.dropped) \cup b.made
      /\ job' = [job EXCEPT ![m] = Idle] /\ UNCHANGED botched
  BY <1>1 DEF Commit
<1>3. Fits(b, cat) /\ Whole(cat)
  BY <1>1 DEF MigInv
<1>4. /\ Busy(b) /\ Whole(catalog') /\ VersionTable \in catalog'
  <2>0. VersionTable \in Object /\ VersionTable # Stamp /\ Stamp \in Object
    BY Objects DEF VersionTable, Stamp
  <2>1. ASSUME NEW k \in 0..10, Upgrading(b, cat, k)
        PROVE  Busy(b) /\ Whole(catalog') /\ VersionTable \in catalog'
    <3>1. UpgradeRun \in Seq(Statements) /\ Len(UpgradeRun) = 10 /\ k \in 0..Len(UpgradeRun)
      BY UpgradeIs
    <3>2. Rest(UpgradeRun, k) = <<>> <=> k = Len(UpgradeRun)
      BY <3>1, RestOf
    <3>3. k = 10
      BY <1>1, <2>1, <3>1, <3>2 DEF Upgrading
    <3>4. cat \subseteq {VersionTable} /\ b.made = Object \ cat /\ b.dropped = {}
      BY <2>1, <3>3, AllOfThem DEF Upgrading
    <3>5. catalog' = Object /\ Stamp \in b.made
      BY <1>2, <2>0, <3>4
    <3> QED BY <2>0, <3>5 DEF Busy, Whole
  <2>2. ASSUME NEW k \in 0..9, Downgrading(b, cat, k)
        PROVE  Busy(b) /\ Whole(catalog') /\ VersionTable \in catalog'
    <3>1. /\ DowngradeRun \in Seq(Statements) /\ Len(DowngradeRun) = 9
          /\ k \in 0..Len(DowngradeRun)
      BY DowngradeIs
    <3>2. Rest(DowngradeRun, k) = <<>> <=> k = Len(DowngradeRun)
      BY <3>1, RestOf
    <3>3. k = 9
      BY <1>1, <2>2, <3>1, <3>2 DEF Downgrading
    <3>4. cat = Object /\ b.made = {} /\ b.dropped = Object \ {VersionTable}
      BY <2>2, <3>3, AllOfThem DEF Downgrading
    <3>5. catalog' = {VersionTable} /\ Stamp \in b.dropped
      BY <1>2, <2>0, <3>4
    <3> QED BY <3>5 DEF Busy, Whole
  <2> QED BY <1>1, <1>3, <2>1, <2>2 DEF Fits
<1>5. /\ job' \in [Migrator -> Job] /\ job'[m] = Idle
      /\ \A n \in Others(m) : job'[n] = job[n] /\ n \in Migrator
      /\ \A n \in Migrator : n = m \/ n \in Others(m)
  BY <1>2, IdleJob DEF TypeOK, Job, Others
<1>6. TypeOK'
  <2>1. catalog' \subseteq Object /\ botched' \in BOOLEAN
    BY <1>2, <1>4, Objects DEF Whole, VersionTable, TypeOK
  <2> QED BY <1>5, <2>1 DEF TypeOK, Job
<1>7. ASSUME NEW n \in Others(m) PROVE Fits(job'[n], catalog') /\ ~Busy(job'[n])
  <2>1. PICK c \in Job : c = job[n] /\ c = job'[n] /\ n \in Migrator /\ m \in Others(n)
    BY <1>5 DEF TypeOK, Job, Others
  <2>2. Fits(c, cat) /\ ~Busy(c)
    BY <1>1, <1>4, <2>1 DEF MigInv
  <2>3. ~c.alone \/ c.pc = "idle"
    BY <1>1, <2>1 DEF MigInv, At
  <2>4. PICK new : new = catalog'
    OBVIOUS
  <2>5. Fits(c, new)
    BY <1>4, <2>2, <2>3, <2>4, Bystander
  <2> QED BY <2>1, <2>2, <2>4, <2>5
<1>8. Fits(job'[m], catalog') /\ ~Busy(job'[m]) /\ job'[m].pc = "idle"
  <2>1. Idle.pc = "idle" /\ Idle.made = {} /\ Idle.dropped = {}
    BY DEF Idle
  <2> QED BY <1>5, <2>1 DEF Fits, Busy
<1>9. ASSUME NEW a \in Migrator, NEW o \in Others(a), job'[a].alone, job'[a].pc # "idle"
      PROVE  job'[o].pc = "idle"
  BY <1>5, <1>8, <1>9 DEF MigInv, At, Others
<1>10. \A n \in Migrator : Fits(job'[n], catalog') /\ ~Busy(job'[n])
  BY <1>5, <1>7, <1>8
<1> QED BY <1>2, <1>4, <1>6, <1>9, <1>10 DEF MigInv, At, Others

LEMMA NextMoves ==
  ASSUME TypeOK, MigInv, [Next]_vars
  PROVE  TypeOK' /\ MigInv'
<1>1. CASE UNCHANGED vars
  <2>1. UNCHANGED <<catalog, job, botched>>
    BY <1>1 DEF vars
  <2> QED BY <2>1 DEF TypeOK, MigInv, At, Others
<1>2. ASSUME NEW m \in Migrator,
             Start(m, "upgrade") \/ Start(m, "downgrade") \/ Step(m) \/ Die(m)
      PROVE  TypeOK' /\ MigInv'
  BY <1>2, StartMoves, ReadVersionMoves, EnsureMoves, StatementMoves, CommitMoves, RollbackStep
     DEF Step, Die
<1> QED BY <1>1, <1>2 DEF Next

LEMMA MigInvariant == Spec => [](TypeOK /\ MigInv)
<1>1. Init => TypeOK /\ MigInv
  <2> SUFFICES ASSUME Init PROVE TypeOK /\ MigInv
    OBVIOUS
  <2>1. \A m \in Migrator : job[m] = Idle
    BY DEF Init
  <2>2. job \in [Migrator -> Job] /\ catalog = {} /\ ~botched /\ botched \in BOOLEAN
    BY IdleJob DEF Init
  <2>3. TypeOK
    BY <2>2 DEF TypeOK, Job
  <2> QED BY <2>1, <2>2, <2>3, IdleJob DEF MigInv, At, Others, Whole
<1>2. (TypeOK /\ MigInv) /\ [Next]_vars => (TypeOK /\ MigInv)'
  BY NextMoves
<1> QED BY <1>1, <1>2, PTL DEF Spec

-----------------------------------------------------------------------------
(* The theorems.                                                             *)

\* Catalog and migrators hold only what they can hold.
THEOREM MigrationTypes == Spec => []TypeOK
BY MigInvariant, PTL

\* Any number of upgrades and downgrades, overlapping, failing or killed in any
\* statement, leave the whole schema or nothing of it, as the stamp says
\* (env.py's transaction).
THEOREM StampTells == Spec => []SchemaMatchesStamp
<1>1. TypeOK /\ MigInv => SchemaMatchesStamp
  <2> SUFFICES ASSUME MigInv PROVE SchemaMatchesStamp
    OBVIOUS
  <2>1. Schema \subseteq Object /\ Stamp \in Object /\ Stamp # VersionTable
        /\ VersionTable \notin Schema
    BY DEF Object, Schema, Index, Stamp, VersionTable
  <2> QED BY <2>1 DEF MigInv, Whole, SchemaMatchesStamp
<1> QED BY <1>1, MigInvariant, PTL

\* Neither script fails by itself: whatever came before, a migration that
\* overlaps with no other finds what its statements need, and nothing that is
\* in their way (upgrade() and downgrade() of the revision).
THEOREM ScriptsFit == Spec => []UndisturbedMigrationWorks
<1>1. TypeOK /\ MigInv => UndisturbedMigrationWorks
  BY DEF MigInv, UndisturbedMigrationWorks
<1> QED BY <1>1, MigInvariant, PTL
=============================================================================
