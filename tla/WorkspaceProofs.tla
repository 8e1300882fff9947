---------------------------- MODULE WorkspaceProofs ----------------------------
(***************************************************************************)
(* What TLAPS proves of Workspace, for every value of the constants.       *)
(***************************************************************************)
EXTENDS WorkspaceProperties, TLAPS

-----------------------------------------------------------------------------
(* The inductive invariant.                                                  *)

Creating == {"create.project", "insert", "insert.commit"}
\* A DELETE whose cascade has its snapshot.
Erasing == {"cascade.rows", "delete.flush", "delete.commit"}
\* get_by_id_for_owner has found the item.
Holding == Erasing \cup {"patch.commit", "cascade.scan"}

\* What the locals of a request say, of the rows and of its own locks.
LocalsOK(r) ==
  LET q == req[r] IN
  /\ q.pc # "idle" => q.by \in Owner /\ q.item \in Item
  /\ q.pc \in {"create.project", "insert"} => rows[q.item].status = "unborn"
  /\ q.pc = "create.project" => q.item \in Task /\ q.parent \in Project
  /\ q.pc \in {"insert", "insert.commit"} =>
       IF q.item \in Project THEN q.parent \in Owner
                             ELSE q.parent \in Project /\ Committed(q.parent)
  /\ q.pc = "insert.commit" => rows[q.item].status = "pending"
  /\ q.pc \in Holding => Committed(q.item) /\ OwnerOf(q.item) = q.by
  /\ q.pc = "patch.commit" => Complete(q.changes)
  /\ q.pc \in {"cascade.scan", "cascade.rows"} => q.item \in Project
  /\ q.item \notin Project => q.scanned = {}
  /\ q.left \subseteq q.scanned
  /\ q.scanned # {} => q.pc \in Erasing
  /\ q.pc = "cascade.rows" => q.left # {}
  /\ q.pc \in {"delete.flush", "delete.commit"} => q.left = {}
  /\ \A t \in q.scanned : Committed(t) /\ rows[t].parent = q.item
  /\ \A t \in q.scanned \ q.left : locker[t] = r \/ rows[t].status = "deleted"

\* A row lock is that of a DELETE on its own item, just before its commit, or on
\* a task that its cascade has been through.
Locks ==
  \A x \in Item, r \in Request : locker[x] = r =>
    /\ Committed(x)
    /\ \/ At(r, "delete.commit") /\ req[r].item = x
       \/ x \in req[r].scanned \ req[r].left

LastLock == \A r \in Request : At(r, "delete.commit") => locker[req[r].item] = r

\* A row that exists has an owner, or a project that has been committed.
Rooted ==
  \A x \in Item : rows[x].status # "unborn" =>
    IF x \in Project THEN rows[x].parent \in Owner
                     ELSE rows[x].parent \in Project /\ Committed(rows[x].parent)

OneCreator ==
  \A r, s \in Request :
    (req[r].pc \in Creating /\ req[s].pc \in Creating /\ req[r].item = req[s].item) => r = s

RowsInv ==
  (\A r \in Request : LocalsOK(r)) /\ Locks /\ LastLock /\ Rooted /\ OneCreator

-----------------------------------------------------------------------------
(* Types.                                                                    *)

Others(r) == \A s \in Request \ {r} : req'[s] = req[s]

LEMMA ChangesOK ==
  ASSUME NEW c \in Changes
  PROVE  DOMAIN c \subseteq Field /\ \A f \in DOMAIN c : c[f] \in Value \cup {Null}
  BY DEF Changes

LEMMA BlankColumns == [f \in Field |-> Blank] \in Columns
  BY FieldAssumption DEF Columns, Fields

LEMMA IdleOK == Idle \in Request_
<1>1. [f \in {} |-> Null] \in Changes
  BY DEF Changes
<1> QED BY <1>1, BlankColumns DEF Idle, Request_, Label

LEMMA ReplySelf ==
  ASSUME TypeOK, NEW r \in Request, Reply(r)
  PROVE  Others(r) /\ req'[r] = Idle /\ req' \in [Request -> Request_]
  BY IdleOK DEF Reply, TypeOK, Others

LEMMA GotoSelf ==
  ASSUME TypeOK, NEW r \in Request, NEW l \in Label, Goto(r, l)
  PROVE  /\ Others(r) /\ req' \in [Request -> Request_] /\ req'[r].pc = l
         /\ req'[r].by = req[r].by /\ req'[r].item = req[r].item
         /\ req'[r].parent = req[r].parent /\ req'[r].changes = req[r].changes
         /\ req'[r].scanned = req[r].scanned /\ req'[r].left = req[r].left
         /\ req'[r].loaded = req[r].loaded
<1>1. req[r] \in Request_ /\ req' = [req EXCEPT ![r] = [req[r] EXCEPT !.pc = l]]
  BY DEF TypeOK, Goto
<1>2. [req[r] EXCEPT !.pc = l] \in Request_
  BY <1>1 DEF Request_
<1>3. req' \in [Request -> Request_]
  BY <1>1, <1>2 DEF TypeOK
<1>4. req'[r] = [req[r] EXCEPT !.pc = l] /\ Others(r)
  BY <1>1 DEF TypeOK, Others
<1> QED BY <1>1, <1>3, <1>4 DEF Request_

LEMMA SetStatus ==
  ASSUME TypeOK, NEW x \in Item, NEW s \in Status, rows' = [rows EXCEPT ![x].status = s]
  PROVE  /\ rows' \in [Item -> Row_] /\ \A y \in Item \ {x} : rows'[y] = rows[y]
         /\ rows'[x].status = s /\ rows'[x].parent = rows[x].parent
         /\ rows'[x].fields = rows[x].fields
<1>1. rows[x] \in Row_ /\ rows' = [rows EXCEPT ![x] = [rows[x] EXCEPT !.status = s]]
  BY DEF TypeOK
<1>2. [rows[x] EXCEPT !.status = s] \in Row_
  BY <1>1 DEF Row_
<1>3. rows' \in [Item -> Row_] /\ rows'[x] = [rows[x] EXCEPT !.status = s]
      /\ \A y \in Item \ {x} : rows'[y] = rows[y]
  BY <1>1, <1>2 DEF TypeOK
<1> QED BY <1>1, <1>3 DEF Row_

\* What a PATCH leaves of a row, and what it puts in.
LEMMA PatchedRow ==
  ASSUME NEW row \in Row_, NEW c \in Changes, NEW l \in Columns, Complete(c)
  PROVE  LET new == Patched(row, c, l) IN
         /\ new \in Row_ /\ new.status = row.status /\ new.parent = row.parent
         /\ \A f \in Field : new.fields[f] = IF f \in Dirty(c, l) THEN c[f] ELSE row.fields[f]
<1> DEFINE g == [f \in Field |-> IF f \in Dirty(c, l) THEN c[f] ELSE row.fields[f]]
<1>1. Patched(row, c, l) = [row EXCEPT !.fields = g]
  BY DEF Patched, Row_
<1>2. row.fields \in Columns
  BY DEF Row_
<1>3. g \in Columns
  <2>1. \A f \in Field : g[f] \in Value \cup {Null}
    BY <1>2, ChangesOK DEF Columns, Fields, Dirty
  <2>2. \A f \in NotNull : g[f] # Null
    BY <1>2, FieldAssumption DEF Columns, Dirty, Complete
  <2> QED BY <2>1, <2>2 DEF Columns, Fields
<1>4. \A f \in Field : g[f] = IF f \in Dirty(c, l) THEN c[f] ELSE row.fields[f]
  OBVIOUS
<1> HIDE DEF g
<1>5. [row EXCEPT !.fields = g] \in Row_ /\ [row EXCEPT !.fields = g].fields = g
      /\ [row EXCEPT !.fields = g].status = row.status
      /\ [row EXCEPT !.fields = g].parent = row.parent
  BY <1>3 DEF Row_
<1> QED BY <1>1, <1>4, <1>5

-----------------------------------------------------------------------------
(* A request arrives.                                                        *)

\* Its locals when it does.
Comes(q) ==
  /\ q.pc \in {"insert", "create.project", "patch.get", "delete.get"}
  /\ q.by \in Owner /\ q.item \in Item /\ q.scanned = {} /\ q.left = {}
  /\ q.pc \in {"insert", "create.project"} => FreshItem(q.item)
  /\ q.pc = "insert" => q.item \in Project /\ q.parent \in Owner
  /\ q.pc = "create.project" =>
       q.item \in Task /\ q.parent \in Project /\ "task.create" \in Ops

LEMMA ArriveSelf ==
  ASSUME TypeOK, NEW r \in Request, Arrive(r)
  PROVE  /\ At(r, "idle") /\ rows' = rows /\ locker' = locker /\ Others(r)
         /\ patches' = IF AllIdle THEN [x \in Item |-> {}] ELSE patches
         /\ req' \in [Request -> Request_] /\ \E q : req'[r] = q /\ Comes(q)
<1> DEFINE Done == /\ At(r, "idle") /\ rows' = rows /\ locker' = locker /\ Others(r)
                   /\ patches' = IF AllIdle THEN [x \in Item |-> {}] ELSE patches
                   /\ req' \in [Request -> Request_] /\ \E q : req'[r] = q /\ Comes(q)
<1>0. ASSUME NEW q \in Request_, NEW e, Call(r, e, q), Comes(q)
      PROVE  Done
  <2>1. req' = [req EXCEPT ![r] = q]
    BY <1>0 DEF Call
  <2>2. req' \in [Request -> Request_] /\ req'[r] = q /\ Others(r)
    BY <2>1 DEF TypeOK, Others
  <2> QED BY <1>0, <2>2 DEF Call, AllIdle
<1>i. Idle \in Request_
  BY IdleOK
<1> PICK by \in Owner :
      \/ \E x \in Project : CreateProjectCall(r, by, x)
      \/ \E p \in Project, x \in Task : CreateTaskCall(r, by, p, x)
      \/ \E x \in Item : DeleteCall(r, by, x) \/ \E c \in Bodies : PatchCall(r, by, x, c)
  BY DEF Arrive
<1>1. ASSUME NEW x \in Project, CreateProjectCall(r, by, x) PROVE Done
  <2> DEFINE q == [Idle EXCEPT !.pc = "insert", !.by = by, !.item = x, !.parent = by]
  <2>1. q \in Request_ /\ Comes(q)
    BY <1>i, <1>1 DEF Request_, Label, Comes, CreateProjectCall, Idle, Item
  <2>2. Call(r, "project.create", q)
    BY <1>1 DEF CreateProjectCall
  <2> HIDE DEF q, Done
  <2> QED BY <1>0, <2>1, <2>2
<1>2. ASSUME NEW p \in Project, NEW x \in Task, CreateTaskCall(r, by, p, x) PROVE Done
  <2> DEFINE q == [Idle EXCEPT !.pc = "create.project", !.by = by, !.item = x, !.parent = p]
  <2>1. Call(r, "task.create", q)
    BY <1>2 DEF CreateTaskCall
  <2>2. q \in Request_ /\ Comes(q)
    BY <1>i, <1>2 DEF Request_, Label, Comes, CreateTaskCall, Call, Idle, Item
  <2> HIDE DEF q, Done
  <2> QED BY <1>0, <2>1, <2>2
<1>3. ASSUME NEW x \in Item, DeleteCall(r, by, x) PROVE Done
  <2> DEFINE q == [Idle EXCEPT !.pc = "delete.get", !.by = by, !.item = x]
  <2>1. q \in Request_ /\ Comes(q)
    BY <1>i, <1>3 DEF Request_, Label, Comes, Idle
  <2>2. PICK e : Call(r, e, q)
    BY <1>3 DEF DeleteCall
  <2> HIDE DEF q, Done
  <2> QED BY <1>0, <2>1, <2>2
<1>4. ASSUME NEW x \in Item, NEW c \in Bodies, PatchCall(r, by, x, c) PROVE Done
  <2> DEFINE q == [Idle EXCEPT !.pc = "patch.get", !.by = by, !.item = x, !.changes = c]
  <2>1. q \in Request_ /\ Comes(q)
    BY <1>i, <1>4, RunAssumption DEF Request_, Label, Comes, Idle
  <2>2. Call(r, "patch", q)
    BY <1>4 DEF PatchCall
  <2> HIDE DEF q, Done
  <2> QED BY <1>0, <2>1, <2>2
<1> HIDE DEF Done
<1>5. Done
  BY <1>1, <1>2, <1>3, <1>4
<1> QED BY <1>5 DEF Done

-----------------------------------------------------------------------------
(* Type correctness, with what each step sets.                               *)

LEMMA RowType ==
  ASSUME NEW s \in Status, NEW p \in Owner \cup Project \cup {NoOwner}
  PROVE  Row(s, p) \in Row_ /\ Row(s, p).status = s /\ Row(s, p).parent = p
  BY BlankColumns DEF Row, Row_

LEMMA InsertSelf ==
  ASSUME TypeOK, RowsInv, NEW r \in Request, Insert(r)
  PROVE  /\ TypeOK' /\ Others(r) /\ At(r, "insert") /\ locker' = locker /\ patches' = patches
         /\ req'[r].pc = "insert.commit"
         /\ req'[r].item = req[r].item /\ req'[r].parent = req[r].parent
         /\ req'[r].by = req[r].by
         /\ req'[r].scanned = req[r].scanned /\ req'[r].left = req[r].left
         /\ req[r].item \in Item
         /\ rows'[req[r].item].status = "pending"
         /\ rows'[req[r].item].parent = req[r].parent
         /\ \A y \in Item \ {req[r].item} : rows'[y] = rows[y]
<1>0. At(r, "insert") /\ LocalsOK(r) /\ req[r] \in Request_
  BY DEF Insert, RowsInv, TypeOK
<1>1. PICK x \in Item : x = req[r].item
  BY <1>0 DEF LocalsOK, At
<1>2. PICK p \in Owner \cup Project \cup {NoOwner} : p = req[r].parent
  BY <1>0 DEF Request_
<1>3. rows' = [rows EXCEPT ![x] = Row("pending", p)]
  BY <1>1, <1>2 DEF Insert
<1>4. Row("pending", p) \in Row_ /\ Row("pending", p).status = "pending"
      /\ Row("pending", p).parent = p
  BY RowType DEF Status
<1>5. /\ rows' \in [Item -> Row_] /\ rows'[x] = Row("pending", p)
      /\ \A y \in Item \ {x} : rows'[y] = rows[y]
  BY <1>3, <1>4 DEF TypeOK
<1>6. Goto(r, "insert.commit") /\ UNCHANGED <<locker, patches>>
  BY DEF Insert
<1>7. TypeOK'
  BY <1>5, <1>6, GotoSelf DEF TypeOK, Label
<1> QED BY <1>0, <1>1, <1>2, <1>4, <1>5, <1>6, <1>7, GotoSelf DEF Label

LEMMA InsertCommitSelf ==
  ASSUME TypeOK, RowsInv, NEW r \in Request, InsertCommit(r)
  PROVE  /\ TypeOK' /\ Others(r) /\ At(r, "insert.commit")
         /\ req'[r] = Idle /\ locker' = locker /\ patches' = patches
         /\ req[r].item \in Item
         /\ rows'[req[r].item].status = "live"
         /\ rows'[req[r].item].parent = rows[req[r].item].parent
         /\ rows'[req[r].item].fields = rows[req[r].item].fields
         /\ \A y \in Item \ {req[r].item} : rows'[y] = rows[y]
<1>0. At(r, "insert.commit") /\ LocalsOK(r)
  BY DEF InsertCommit, RowsInv
<1>1. PICK x \in Item : x = req[r].item
  BY <1>0 DEF LocalsOK, At
<1>2. rows' = [rows EXCEPT ![x].status = "live"] /\ Reply(r) /\ UNCHANGED <<locker, patches>>
  BY <1>1 DEF InsertCommit
<1>3. /\ rows' \in [Item -> Row_] /\ \A y \in Item \ {x} : rows'[y] = rows[y]
      /\ rows'[x].status = "live" /\ rows'[x].parent = rows[x].parent
      /\ rows'[x].fields = rows[x].fields
  BY <1>2, SetStatus DEF Status
<1>4. TypeOK'
  BY <1>2, <1>3, ReplySelf DEF TypeOK
<1> QED BY <1>0, <1>1, <1>2, <1>3, <1>4, ReplySelf

LEMMA PatchCommitSelf ==
  ASSUME TypeOK, RowsInv, NEW r \in Request, PatchCommit(r)
  PROVE  LET x == req[r].item
             c == req[r].changes
         IN
         /\ TypeOK' /\ Others(r) /\ At(r, "patch.commit")
         /\ req'[r] = Idle /\ locker' = locker
         /\ x \in Item /\ c \in Changes
         /\ rows'[x].status = rows[x].status /\ rows'[x].parent = rows[x].parent
         /\ \A f \in Field : rows'[x].fields[f] = IF f \in Dirty(c, req[r].loaded) THEN c[f]
                                                  ELSE rows[x].fields[f]
         /\ patches'[x] = IF DOMAIN c = {} THEN patches[x] ELSE patches[x] \cup {c}
         /\ \A y \in Item : y # x => rows'[y] = rows[y] /\ patches'[y] = patches[y]
<1>0. /\ At(r, "patch.commit") /\ LocalsOK(r) /\ req[r] \in Request_
      /\ Reply(r) /\ UNCHANGED locker
  BY DEF PatchCommit, RowsInv, TypeOK
<1>1. PICK x \in Item, c \in Changes, l \in Columns :
        x = req[r].item /\ c = req[r].changes /\ l = req[r].loaded
  BY <1>0 DEF LocalsOK, At, Request_
<1>3. Complete(c) /\ rows[x] \in Row_
  BY <1>0, <1>1 DEF LocalsOK, At, TypeOK
<1>2. /\ rows' = [rows EXCEPT ![x] = Patched(rows[x], c, l)]
      /\ patches' = [patches EXCEPT ![x] = IF DOMAIN c = {} THEN @ ELSE @ \cup {c}]
  BY <1>1, <1>3 DEF PatchCommit
<1>4. LET new == Patched(rows[x], c, l) IN
      /\ new \in Row_ /\ new.status = rows[x].status /\ new.parent = rows[x].parent
      /\ \A f \in Field : new.fields[f] = IF f \in Dirty(c, l) THEN c[f] ELSE rows[x].fields[f]
  BY <1>3, PatchedRow
<1>5. /\ rows' \in [Item -> Row_] /\ rows'[x] = Patched(rows[x], c, l)
      /\ \A y \in Item : y # x => rows'[y] = rows[y]
  BY <1>2, <1>4 DEF TypeOK
<1>6. /\ patches' \in [Item -> SUBSET Changes]
      /\ patches'[x] = IF DOMAIN c = {} THEN patches[x] ELSE patches[x] \cup {c}
      /\ \A y \in Item : y # x => patches'[y] = patches[y]
  BY <1>2 DEF TypeOK
<1>7. TypeOK'
  BY <1>0, <1>5, <1>6, ReplySelf DEF TypeOK
<1>8. Others(r) /\ req'[r] = Idle
  BY <1>0, ReplySelf
<1> QED BY <1>0, <1>1, <1>4, <1>5, <1>6, <1>7, <1>8

-----------------------------------------------------------------------------
(* What a step of r leaves to the others.                                    *)

\* Committed rows stay, under their parents; what is deleted stays deleted.
RowsLast ==
  \A x \in Item : Committed(x) =>
    /\ rows'[x].status \in {"live", "deleted"} /\ rows'[x].parent = rows[x].parent
    /\ rows[x].status = "deleted" => rows'[x].status = "deleted"

\* The rows that others are inserting are left alone.
Beside(r) ==
  \A s \in Request \ {r} : req[s].pc \in Creating =>
    rows'[req[s].item].status = rows[req[s].item].status

LocksKept(r) ==
  \A x \in Item, s \in Request \ {r} : locker'[x] = s <=> locker[x] = s

OwnLocks(r) ==
  /\ \A x \in Item : locker[x] = r =>
       /\ Committed(x)
       /\ \/ At(r, "delete.commit") /\ req[r].item = x
          \/ x \in req[r].scanned \ req[r].left
  /\ At(r, "delete.commit") => locker[req[r].item] = r

\* A row keeps its parent, or gets one that is committed.
ParentsKept ==
  \A x \in Item : rows'[x].status # "unborn" =>
    \/ rows[x].status # "unborn" /\ rows'[x].parent = rows[x].parent
    \/ x \in Project /\ rows'[x].parent \in Owner
    \/ x \in Task /\ rows'[x].parent \in Project /\ Committed(rows'[x].parent)

AloneCreating(r) ==
  req'[r].pc \in Creating =>
    \A s \in Request \ {r} : ~(req[s].pc \in Creating /\ req[s].item = req'[r].item)

LEMMA OwnerStays ==
  ASSUME TypeOK, RowsInv, RowsLast, NEW x \in Item, Committed(x)
  PROVE  Committed(x)' /\ OwnerOf(x)' = OwnerOf(x)
<1>1. Committed(x)' /\ rows'[x].parent = rows[x].parent
  BY DEF RowsLast, Committed
<1>2. x \notin Project => rows[x].parent \in Item /\ Committed(rows[x].parent)
  BY DEF RowsInv, Rooted, Committed, Item
<1>3. x \notin Project => rows'[rows[x].parent].parent = rows[rows[x].parent].parent
  BY <1>2 DEF RowsLast
<1> QED BY <1>1, <1>3 DEF OwnerOf

LEMMA Bystander ==
  ASSUME TypeOK, RowsInv, NEW r \in Request, Others(r), RowsLast, Beside(r), LocksKept(r),
         NEW s \in Request \ {r}
  PROVE  LocalsOK(s)'
<1>0. LocalsOK(s) /\ req[s] \in Request_
  BY DEF RowsInv, TypeOK
<1>1. req'[s] = req[s]
  BY DEF Others
<1> DEFINE q == req[s]
<1>2. q.pc \in Holding => (Committed(q.item) /\ OwnerOf(q.item) = q.by)'
  <2> SUFFICES ASSUME q.pc \in Holding PROVE (Committed(q.item) /\ OwnerOf(q.item) = q.by)'
    OBVIOUS
  <2>1. PICK x \in Item : x = q.item /\ Committed(x) /\ OwnerOf(x) = q.by
    BY <1>0 DEF LocalsOK, Holding, Erasing
  <2>2. Committed(x)' /\ OwnerOf(x)' = q.by
    BY <2>1, OwnerStays
  <2> QED BY <2>1, <2>2, <1>1 DEF Committed, OwnerOf
<1>3. q.pc \in {"insert", "insert.commit"} /\ q.item \notin Project =>
        q.parent \in Project /\ Committed(q.parent)'
  BY <1>0, <1>1 DEF LocalsOK, RowsLast, Committed, Item
<1>4. q.pc \in Creating => rows'[q.item].status = rows[q.item].status
  BY <1>0 DEF Beside, LocalsOK, Creating
<1>5. \A t \in q.scanned : Committed(t)' /\ rows'[t].parent = q.item
  BY <1>0 DEF LocalsOK, RowsLast, Committed, Request_, Item
<1>6. \A t \in q.scanned \ q.left : locker'[t] = s \/ rows'[t].status = "deleted"
  BY <1>0 DEF LocalsOK, RowsLast, LocksKept, Request_, Item, Committed
<1> QED BY <1>0, <1>1, <1>2, <1>3, <1>4, <1>5, <1>6 DEF LocalsOK, Creating, Committed, Complete

LEMMA Compose ==
  ASSUME TypeOK, RowsInv, NEW r \in Request, Others(r), RowsLast, Beside(r), LocksKept(r),
         LocalsOK(r)', OwnLocks(r)', ParentsKept, AloneCreating(r)
  PROVE  RowsInv'
<1>1. (\A s \in Request : LocalsOK(s))'
  BY Bystander
<1>2. Locks'
  <2> SUFFICES ASSUME NEW x \in Item, NEW s \in Request \ {r}, locker'[x] = s
               PROVE  /\ Committed(x)'
                      /\ \/ req'[s].pc = "delete.commit" /\ req'[s].item = x
                         \/ x \in req'[s].scanned \ req'[s].left
    BY DEF Locks, OwnLocks, At
  <2>1. locker[x] = s /\ req'[s] = req[s]
    BY DEF LocksKept, Others
  <2> QED BY <2>1 DEF RowsInv, Locks, At, RowsLast, Committed
<1>3. LastLock'
  <2> SUFFICES ASSUME NEW s \in Request \ {r}, req'[s].pc = "delete.commit"
               PROVE  locker'[req'[s].item] = s
    BY DEF LastLock, OwnLocks, At
  <2>1. req'[s] = req[s] /\ req[s].item \in Item /\ locker[req[s].item] = s
    BY DEF Others, RowsInv, LastLock, LocalsOK, At
  <2> QED BY <2>1 DEF LocksKept
<1>4. Rooted'
  <2> SUFFICES ASSUME NEW x \in Item, rows'[x].status # "unborn"
               PROVE  IF x \in Project THEN rows'[x].parent \in Owner
                                       ELSE rows'[x].parent \in Project
                                              /\ Committed(rows[x].parent)'
    BY DEF Rooted
  <2>1. PICK p : p = rows'[x].parent
    OBVIOUS
  <2>2. IF x \in Project THEN p \in Owner ELSE p \in Project /\ Committed(p)
    BY <2>1, ItemAssumption DEF ParentsKept, RowsInv, Rooted, Item
  <2> QED BY <2>1, <2>2 DEF RowsLast, Committed, Item
<1>5. OneCreator'
  <2>1. ASSUME NEW s \in Request, NEW u \in Request,
               req'[s].pc \in Creating, req'[u].pc \in Creating, req'[s].item = req'[u].item
        PROVE  s = u
    <3>1. CASE s # r /\ u # r
      BY <2>1, <3>1 DEF Others, RowsInv, OneCreator
    <3>2. CASE s = r \/ u = r
      BY <2>1, <3>2 DEF Others, AloneCreating
    <3> QED BY <3>1, <3>2
  <2> QED BY <2>1 DEF OneCreator, Creating
<1> QED BY <1>1, <1>2, <1>3, <1>4, <1>5 DEF RowsInv

-----------------------------------------------------------------------------
(* The steps of a POST and of a PATCH.                                       *)

\* A request that is over, or has not begun, has nothing to answer for.
LEMMA IdleLocals ==
  ASSUME NEW r, req'[r] = Idle
  PROVE  LocalsOK(r)'
  BY DEF LocalsOK, Idle, Holding, Erasing

\* A step that touches no row and no lock.
LEMMA RowsAlone ==
  ASSUME TypeOK, RowsInv, NEW r \in Request, Others(r), rows' = rows, locker' = locker,
         LocalsOK(r)',
         \A x \in Item : locker[x] # r, req'[r].pc # "delete.commit", AloneCreating(r)
  PROVE  RowsInv'
<1>1. RowsLast /\ Beside(r) /\ LocksKept(r) /\ OwnLocks(r)' /\ ParentsKept
  BY DEF RowsLast, Beside, LocksKept, OwnLocks, ParentsKept, At, Committed
<1> QED BY <1>1, Compose

\* Only a cascade or a DELETE about to commit holds row locks.
LEMMA Lockless ==
  ASSUME RowsInv, NEW r \in Request, req[r].pc \notin Erasing
  PROVE  \A x \in Item : locker[x] # r
  BY DEF RowsInv, Locks, LocalsOK, At, Erasing

LEMMA ArriveRows ==
  ASSUME TypeOK, RowsInv, NEW r \in Request, Arrive(r)
  PROVE  TypeOK' /\ RowsInv'
<1>1. PICK q : req'[r] = q /\ Comes(q)
  BY ArriveSelf
<1>2. /\ At(r, "idle") /\ rows' = rows /\ locker' = locker /\ Others(r)
      /\ req' \in [Request -> Request_]
      /\ patches' = IF AllIdle THEN [x \in Item |-> {}] ELSE patches
  BY ArriveSelf
<1>3. LocalsOK(r)'
  BY <1>1, <1>2, ItemAssumption DEF LocalsOK, Comes, FreshItem, Holding, Erasing, Item
<1>4. AloneCreating(r)
  BY <1>1 DEF AloneCreating, Comes, FreshItem, Creating
<1>5. \A x \in Item : locker[x] # r
  BY <1>2, Lockless DEF At, Erasing
<1>6. TypeOK'
  BY <1>2 DEF TypeOK
<1> QED BY <1>1, <1>2, <1>3, <1>4, <1>5, <1>6, RowsAlone DEF Comes

LEMMA EndRows ==
  ASSUME TypeOK, RowsInv, NEW r \in Request, Reply(r), UNCHANGED <<rows, locker, patches>>,
         req[r].pc \notin Erasing
  PROVE  TypeOK' /\ RowsInv'
<1>1. Others(r) /\ req'[r] = Idle /\ TypeOK'
  BY ReplySelf DEF TypeOK
<1>2. LocalsOK(r)'
  BY <1>1, IdleLocals
<1>3. AloneCreating(r) /\ req'[r].pc # "delete.commit"
  BY <1>1 DEF AloneCreating, Idle, Creating
<1> QED BY <1>1, <1>2, <1>3, Lockless, RowsAlone

LEMMA VisibleOwned ==
  ASSUME TypeOK, NEW x \in Item, NEW by, Visible(x, by)
  PROVE  Active(x) /\ Committed(x) /\ OwnerOf(x) = by
  BY DEF Visible, Active, Committed, OwnerOf

LEMMA CreateLookupRows ==
  ASSUME TypeOK, RowsInv, NEW r \in Request, CreateLookup(r)
  PROVE  TypeOK' /\ RowsInv'
<1>0. /\ At(r, "create.project") /\ UNCHANGED <<rows, locker, patches>> /\ LocalsOK(r)
      /\ req[r] \in Request_
  BY DEF CreateLookup, RowsInv, TypeOK
<1>1. CASE Reply(r)
  BY <1>0, <1>1, EndRows DEF At, Erasing
<1>2. CASE Visible(req[r].parent, req[r].by) /\ Goto(r, "insert")
  <2>1. PICK p, by : p = req[r].parent /\ by = req[r].by
    OBVIOUS
  <2>2. p \in Project /\ Committed(p)
    BY <1>0, <1>2, <2>1, VisibleOwned DEF LocalsOK, At, Item
  <2>3. /\ Others(r) /\ req' \in [Request -> Request_] /\ req'[r].pc = "insert"
        /\ req'[r].item = req[r].item /\ req'[r].parent = p /\ req'[r].by = by
        /\ req'[r].scanned = req[r].scanned /\ req'[r].left = req[r].left
    BY <1>2, <2>1, GotoSelf DEF Label
  <2>4. LocalsOK(r)'
    BY <1>0, <2>1, <2>2, <2>3, ItemAssumption DEF LocalsOK, At, Holding, Erasing, Committed
  <2>5. AloneCreating(r)
    BY <1>0, <2>3 DEF AloneCreating, RowsInv, OneCreator, At, Creating
  <2>6. TypeOK'
    BY <1>0, <2>3 DEF TypeOK
  <2> QED BY <1>0, <2>3, <2>4, <2>5, <2>6, Lockless, RowsAlone DEF At, Erasing
<1> QED BY <1>1, <1>2 DEF CreateLookup

LEMMA InsertRows ==
  ASSUME TypeOK, RowsInv, NEW r \in Request, Insert(r)
  PROVE  TypeOK' /\ RowsInv'
<1>0. LocalsOK(r)
  BY DEF RowsInv
<1>1. PICK x \in Item, p \in Owner \cup Project : x = req[r].item /\ p = req[r].parent
  BY <1>0, InsertSelf DEF LocalsOK, At
<1>2. /\ TypeOK' /\ Others(r) /\ At(r, "insert") /\ locker' = locker
      /\ req'[r].pc = "insert.commit" /\ req'[r].item = x /\ req'[r].parent = p
      /\ req'[r].by = req[r].by
      /\ req'[r].scanned = req[r].scanned /\ req'[r].left = req[r].left
      /\ rows'[x].status = "pending" /\ rows'[x].parent = p
      /\ \A y \in Item \ {x} : rows'[y] = rows[y]
  BY <1>1, InsertSelf
<1>3. /\ rows[x].status = "unborn"
      /\ IF x \in Project THEN p \in Owner ELSE p \in Project /\ Committed(p)
  BY <1>0, <1>1, <1>2 DEF LocalsOK, At
<1>4. RowsLast
  BY <1>2, <1>3 DEF RowsLast, Committed
<1>5. Beside(r)
  <2> SUFFICES ASSUME NEW s \in Request \ {r}, req[s].pc \in Creating
               PROVE  rows'[req[s].item].status = rows[req[s].item].status
    BY DEF Beside
  <2>1. req[s].item \in Item
    BY DEF RowsInv, LocalsOK, Creating
  <2>2. req[s].item # x
    BY <1>1, <1>2 DEF RowsInv, OneCreator, Creating, At
  <2> QED BY <1>2, <2>1, <2>2
<1>6. LocksKept(r)
  BY <1>2 DEF LocksKept
<1>7. LocalsOK(r)'
  <2>1. x \notin Project => Committed(p)'
    BY <1>2, <1>3, <1>4 DEF RowsLast, Committed, Item
  <2> QED BY <1>0, <1>1, <1>2, <1>3, <2>1
          DEF LocalsOK, At, Holding, Erasing, Committed
<1>8. \A y \in Item : locker[y] # r
  BY <1>2, Lockless DEF At, Erasing
<1>9. OwnLocks(r)'
  BY <1>2, <1>8 DEF OwnLocks, At
<1>10. ParentsKept
  <2> SUFFICES ASSUME NEW y \in Item, rows'[y].status # "unborn"
               PROVE  \/ rows[y].status # "unborn" /\ rows'[y].parent = rows[y].parent
                      \/ y \in Project /\ rows'[y].parent \in Owner
                      \/ y \in Task /\ rows'[y].parent \in Project
                           /\ Committed(rows'[y].parent)
    BY DEF ParentsKept
  <2>1. CASE y = x
    BY <2>1, <1>2, <1>3 DEF Item
  <2>2. CASE y # x
    BY <2>2, <1>2
  <2> QED BY <2>1, <2>2
<1>11. AloneCreating(r)
  BY <1>1, <1>2 DEF AloneCreating, RowsInv, OneCreator, At, Creating
<1> QED BY <1>2, <1>4, <1>5, <1>6, <1>7, <1>9, <1>10, <1>11, Compose

LEMMA InsertCommitRows ==
  ASSUME TypeOK, RowsInv, NEW r \in Request, InsertCommit(r)
  PROVE  TypeOK' /\ RowsInv'
<1>1. PICK x \in Item : x = req[r].item
  BY InsertCommitSelf
<1>2. /\ TypeOK' /\ Others(r) /\ At(r, "insert.commit") /\ req'[r] = Idle /\ locker' = locker
      /\ rows'[x].status = "live" /\ rows'[x].parent = rows[x].parent
      /\ \A y \in Item \ {x} : rows'[y] = rows[y]
  BY <1>1, InsertCommitSelf
<1>3. rows[x].status = "pending"
  BY <1>1, <1>2 DEF RowsInv, LocalsOK, At
<1>4. RowsLast /\ ParentsKept
  BY <1>2, <1>3 DEF RowsLast, ParentsKept, Committed
<1>5. Beside(r)
  <2> SUFFICES ASSUME NEW s \in Request \ {r}, req[s].pc \in Creating
               PROVE  rows'[req[s].item].status = rows[req[s].item].status
    BY DEF Beside
  <2>1. req[s].item \in Item
    BY DEF RowsInv, LocalsOK, Creating
  <2>2. req[s].item # x
    BY <1>1, <1>2 DEF RowsInv, OneCreator, Creating, At
  <2> QED BY <1>2, <2>1, <2>2
<1>6. LocalsOK(r)'
  BY <1>2, IdleLocals
<1>7. \A y \in Item : locker[y] # r
  BY <1>2, Lockless DEF At, Erasing
<1>8. LocksKept(r) /\ OwnLocks(r)' /\ AloneCreating(r)
  BY <1>2, <1>7 DEF LocksKept, OwnLocks, AloneCreating, At, Idle, Creating
<1> QED BY <1>2, <1>4, <1>5, <1>6, <1>8, Compose

LEMMA PatchGetSelf ==
  ASSUME TypeOK, RowsInv, NEW r \in Request, PatchGet(r), ~Reply(r)
  PROVE  /\ At(r, "patch.get") /\ UNCHANGED <<rows, locker, patches>>
         /\ Others(r) /\ req' \in [Request -> Request_] /\ req'[r].pc = "patch.commit"
         /\ req[r].item \in Item
         /\ Visible(req[r].item, req[r].by) /\ Complete(req[r].changes)
         /\ req'[r].by = req[r].by /\ req'[r].item = req[r].item
         /\ req'[r].parent = req[r].parent /\ req'[r].changes = req[r].changes
         /\ req'[r].scanned = req[r].scanned /\ req'[r].left = req[r].left
         /\ req'[r].loaded = rows[req[r].item].fields
<1>1. At(r, "patch.get") /\ UNCHANGED <<rows, locker, patches>> /\ req[r] \in Request_
  BY DEF PatchGet, TypeOK
<1>2. PICK x \in Item : x = req[r].item
  BY <1>1 DEF RowsInv, LocalsOK, At
<1>3. PICK g \in Columns : g = rows[x].fields
  BY DEF TypeOK, Row_
<1>4. /\ Visible(x, req[r].by) /\ Complete(req[r].changes)
      /\ req' = [req EXCEPT ![r] = [req[r] EXCEPT !.loaded = g, !.pc = "patch.commit"]]
  BY <1>2, <1>3 DEF PatchGet, TypeOK
<1> DEFINE q == [req[r] EXCEPT !.loaded = g, !.pc = "patch.commit"]
<1>5. /\ q \in Request_ /\ q.loaded = g /\ q.pc = "patch.commit" /\ q.by = req[r].by
      /\ q.item = req[r].item /\ q.parent = req[r].parent /\ q.changes = req[r].changes
      /\ q.scanned = req[r].scanned /\ q.left = req[r].left
  BY <1>1 DEF Request_, Label
<1>6. req' = [req EXCEPT ![r] = q]
  BY <1>4
<1> HIDE DEF q
<1>7. req' \in [Request -> Request_] /\ req'[r] = q /\ Others(r)
  BY <1>5, <1>6 DEF TypeOK, Others
<1> QED BY <1>1, <1>2, <1>3, <1>4, <1>5, <1>7

LEMMA PatchGetRows ==
  ASSUME TypeOK, RowsInv, NEW r \in Request, PatchGet(r)
  PROVE  TypeOK' /\ RowsInv'
<1>0. At(r, "patch.get") /\ UNCHANGED <<rows, locker, patches>> /\ LocalsOK(r)
  BY DEF PatchGet, RowsInv
<1>1. CASE Reply(r)
  BY <1>0, <1>1, EndRows DEF At, Erasing
<1>2. CASE ~Reply(r)
  <2>1. /\ Others(r) /\ req' \in [Request -> Request_] /\ req'[r].pc = "patch.commit"
        /\ Complete(req[r].changes)
        /\ req'[r].by = req[r].by /\ req'[r].item = req[r].item
        /\ req'[r].parent = req[r].parent /\ req'[r].changes = req[r].changes
        /\ req'[r].scanned = req[r].scanned /\ req'[r].left = req[r].left
    BY <1>2, PatchGetSelf
  <2>2. PICK x \in Item, by \in Owner : x = req[r].item /\ by = req[r].by /\ Visible(x, by)
    BY <1>0, <1>2, PatchGetSelf DEF LocalsOK, At
  <2>3. Committed(x) /\ OwnerOf(x) = by
    BY <2>2, VisibleOwned
  <2>4. (Committed(x) /\ OwnerOf(x) = by)'
    BY <2>3, <1>0 DEF Committed, OwnerOf
  <2>5. LocalsOK(r)'
    BY <1>0, <2>1, <2>2, <2>4, ItemAssumption
       DEF LocalsOK, At, Holding, Erasing, Committed, OwnerOf, Complete
  <2>6. AloneCreating(r) /\ TypeOK'
    BY <1>0, <2>1 DEF AloneCreating, Creating, TypeOK
  <2> QED BY <1>0, <2>1, <2>5, <2>6, Lockless, RowsAlone DEF At, Erasing
<1> QED BY <1>1, <1>2

LEMMA PatchCommitRows ==
  ASSUME TypeOK, RowsInv, NEW r \in Request, PatchCommit(r)
  PROVE  TypeOK' /\ RowsInv'
<1>1. PICK x \in Item : x = req[r].item
  BY PatchCommitSelf
<1>2. /\ TypeOK' /\ Others(r) /\ At(r, "patch.commit") /\ req'[r] = Idle /\ locker' = locker
      /\ rows'[x].status = rows[x].status /\ rows'[x].parent = rows[x].parent
      /\ \A y \in Item : y # x => rows'[y] = rows[y]
  BY <1>1, PatchCommitSelf
<1>3. \A y \in Item : rows'[y].status = rows[y].status /\ rows'[y].parent = rows[y].parent
  BY <1>2
<1>4. RowsLast /\ ParentsKept
  BY <1>3 DEF RowsLast, ParentsKept, Committed
<1>5. Beside(r)
  BY <1>3 DEF Beside, RowsInv, LocalsOK, Creating
<1>6. LocalsOK(r)'
  BY <1>2, IdleLocals
<1>7. \A y \in Item : locker[y] # r
  BY <1>2, Lockless DEF At, Erasing
<1>8. LocksKept(r) /\ OwnLocks(r)' /\ AloneCreating(r)
  BY <1>2, <1>7 DEF LocksKept, OwnLocks, AloneCreating, At, Idle, Creating
<1> QED BY <1>2, <1>4, <1>5, <1>6, <1>8, Compose

-----------------------------------------------------------------------------
(* The steps of a DELETE.                                                    *)

LEMMA DeleteGetSelf ==
  ASSUME TypeOK, RowsInv, NEW r \in Request, DeleteGet(r), ~Reply(r)
  PROVE  /\ At(r, "delete.get") /\ UNCHANGED <<rows, locker, patches>>
         /\ Others(r) /\ req' \in [Request -> Request_]
         /\ req'[r].pc = IF req[r].item \in Project THEN "cascade.scan" ELSE "delete.flush"
         /\ req[r].item \in Item /\ Visible(req[r].item, req[r].by)
         /\ req'[r].by = req[r].by /\ req'[r].item = req[r].item
         /\ req'[r].scanned = req[r].scanned /\ req'[r].left = req[r].left
<1>1. At(r, "delete.get") /\ UNCHANGED <<rows, locker, patches>>
  BY DEF DeleteGet
<1>2. PICK x \in Item, l \in Label :
        x = req[r].item /\ l = IF x \in Project THEN "cascade.scan" ELSE "delete.flush"
  BY <1>1 DEF RowsInv, LocalsOK, At, Label
<1>3. Visible(x, req[r].by) /\ Goto(r, l)
  BY <1>2 DEF DeleteGet
<1> QED BY <1>1, <1>2, <1>3, GotoSelf

LEMMA DeleteGetRows ==
  ASSUME TypeOK, RowsInv, NEW r \in Request, DeleteGet(r)
  PROVE  TypeOK' /\ RowsInv'
<1>0. At(r, "delete.get") /\ UNCHANGED <<rows, locker, patches>> /\ LocalsOK(r)
  BY DEF DeleteGet, RowsInv
<1>1. CASE Reply(r)
  BY <1>0, <1>1, EndRows DEF At, Erasing
<1>2. CASE ~Reply(r)
  <2>1. PICK x \in Item, by \in Owner : x = req[r].item /\ by = req[r].by /\ Visible(x, by)
    BY <1>0, <1>2, DeleteGetSelf DEF LocalsOK, At
  <2>2. /\ Others(r) /\ req' \in [Request -> Request_]
        /\ req'[r].pc = IF x \in Project THEN "cascade.scan" ELSE "delete.flush"
        /\ req'[r].by = by /\ req'[r].item = x
        /\ req'[r].scanned = req[r].scanned /\ req'[r].left = req[r].left
    BY <1>2, <2>1, DeleteGetSelf
  <2>3. (Committed(x) /\ OwnerOf(x) = by)'
    BY <2>1, <1>0, VisibleOwned DEF Committed, OwnerOf
  <2>4. LocalsOK(r)'
    BY <1>0, <2>1, <2>2, <2>3 DEF LocalsOK, At, Holding, Erasing, Committed, OwnerOf
  <2>5. AloneCreating(r) /\ TypeOK' /\ req'[r].pc # "delete.commit"
    BY <1>0, <2>2 DEF AloneCreating, Creating, TypeOK
  <2> QED BY <1>0, <2>2, <2>4, <2>5, Lockless, RowsAlone DEF At, Erasing
<1> QED BY <1>1, <1>2

LEMMA CascadeScanSelf ==
  ASSUME TypeOK, NEW r \in Request, CascadeScan(r)
  PROVE  LET tasks == {t \in Task : Active(t) /\ rows[t].parent = req[r].item} IN
         /\ At(r, "cascade.scan") /\ UNCHANGED <<rows, locker, patches>>
         /\ Others(r) /\ req' \in [Request -> Request_]
         /\ req'[r].pc = IF tasks = {} THEN "delete.flush" ELSE "cascade.rows"
         /\ req'[r].by = req[r].by /\ req'[r].item = req[r].item
         /\ req'[r].scanned = tasks /\ req'[r].left = tasks
<1>1. req[r] \in Request_
  BY DEF TypeOK
<1>2. PICK T \in SUBSET Task : T = {t \in Task : Active(t) /\ rows[t].parent = req[r].item}
  OBVIOUS
<1>3. PICK l \in Label : l = IF T = {} THEN "delete.flush" ELSE "cascade.rows"
  BY DEF Label
<1> DEFINE q == [req[r] EXCEPT !.scanned = T, !.left = T, !.pc = l]
<1>4. /\ req' = [req EXCEPT ![r] = q] /\ At(r, "cascade.scan")
      /\ UNCHANGED <<rows, locker, patches>>
  BY <1>2, <1>3 DEF CascadeScan, TypeOK
<1>5. /\ q \in Request_ /\ q.pc = l /\ q.scanned = T /\ q.left = T
      /\ q.by = req[r].by /\ q.item = req[r].item
  BY <1>1 DEF Request_
<1> HIDE DEF q
<1>6. req' \in [Request -> Request_] /\ req'[r] = q /\ Others(r)
  BY <1>4, <1>5 DEF TypeOK, Others
<1> QED BY <1>2, <1>3, <1>4, <1>5, <1>6

LEMMA CascadeScanRows ==
  ASSUME TypeOK, RowsInv, NEW r \in Request, CascadeScan(r)
  PROVE  TypeOK' /\ RowsInv'
<1>0. LocalsOK(r)
  BY DEF RowsInv
<1>1. PICK T \in SUBSET Task : T = {t \in Task : Active(t) /\ rows[t].parent = req[r].item}
  OBVIOUS
<1>2. /\ At(r, "cascade.scan") /\ UNCHANGED <<rows, locker, patches>>
      /\ Others(r) /\ req' \in [Request -> Request_]
      /\ req'[r].pc = IF T = {} THEN "delete.flush" ELSE "cascade.rows"
      /\ req'[r].by = req[r].by /\ req'[r].item = req[r].item
      /\ req'[r].scanned = T /\ req'[r].left = T
  BY <1>1, CascadeScanSelf
<1>3. PICK x \in Project, by \in Owner : x = req[r].item /\ by = req[r].by
  BY <1>0, <1>2 DEF LocalsOK, At
<1>4. (Committed(x) /\ OwnerOf(x) = by)'
  BY <1>0, <1>2, <1>3 DEF LocalsOK, At, Holding, Committed, OwnerOf
<1>5. \A t \in T : rows'[t].status = "live" /\ rows'[t].parent = x
  BY <1>1, <1>2, <1>3 DEF Active
<1>6. LocalsOK(r)'
  BY <1>0, <1>2, <1>3, <1>4, <1>5 DEF LocalsOK, At, Erasing, Committed
<1>7. AloneCreating(r) /\ TypeOK' /\ req'[r].pc # "delete.commit"
  BY <1>2 DEF AloneCreating, Creating, TypeOK
<1> QED BY <1>2, <1>6, <1>7, Lockless, RowsAlone DEF At, Erasing

LEMMA CascadeRowSelf ==
  ASSUME TypeOK, NEW r \in Request, NEW t \in Task, CascadeRow(r, t)
  PROVE  /\ At(r, "cascade.rows") /\ UNCHANGED <<rows, patches>>
         /\ t \in req[r].left /\ locker[t] = NoRequest
         /\ locker' \in [Item -> Request \cup {NoRequest}]
         /\ locker'[t] = IF Active(t) THEN r ELSE NoRequest
         /\ \A y \in Item \ {t} : locker'[y] = locker[y]
         /\ Others(r) /\ req' \in [Request -> Request_]
         /\ req'[r].pc = IF req[r].left = {t} THEN "delete.flush" ELSE "cascade.rows"
         /\ req'[r].by = req[r].by /\ req'[r].item = req[r].item
         /\ req'[r].scanned = req[r].scanned /\ req'[r].left = req[r].left \ {t}
<1>1. req[r] \in Request_ /\ t \in Item
  BY DEF TypeOK, Item
<1>2. PICK l \in Label : l = IF req[r].left = {t} THEN "delete.flush" ELSE "cascade.rows"
  BY DEF Label
<1> DEFINE q == [req[r] EXCEPT !.left = req[r].left \ {t}, !.pc = l]
<1>3. /\ req' = [req EXCEPT ![r] = q] /\ At(r, "cascade.rows") /\ t \in req[r].left
      /\ UNCHANGED <<rows, patches>> /\ locker[t] = NoRequest
      /\ locker' = IF Active(t) THEN [locker EXCEPT ![t] = r] ELSE locker
  BY <1>2 DEF CascadeRow, TypeOK, At, Free
<1>4. /\ q \in Request_ /\ q.pc = l /\ q.scanned = req[r].scanned
      /\ q.left = req[r].left \ {t} /\ q.by = req[r].by /\ q.item = req[r].item
  BY <1>1 DEF Request_
<1> HIDE DEF q
<1>5. req' \in [Request -> Request_] /\ req'[r] = q /\ Others(r)
  BY <1>3, <1>4 DEF TypeOK, Others
<1>6. /\ locker' \in [Item -> Request \cup {NoRequest}]
      /\ locker'[t] = IF Active(t) THEN r ELSE NoRequest
      /\ \A y \in Item \ {t} : locker'[y] = locker[y]
  BY <1>1, <1>3 DEF TypeOK
<1> QED BY <1>2, <1>3, <1>4, <1>5, <1>6

LEMMA CascadeRowRows ==
  ASSUME TypeOK, RowsInv, NEW r \in Request, NEW t \in Task, CascadeRow(r, t)
  PROVE  TypeOK' /\ RowsInv'
<1>0. /\ LocalsOK(r) /\ t \in Item /\ req[r] \in Request_
  BY DEF RowsInv, Item, TypeOK
<1>1. /\ At(r, "cascade.rows") /\ UNCHANGED <<rows, patches>>
      /\ t \in req[r].left /\ locker[t] = NoRequest
      /\ locker' \in [Item -> Request \cup {NoRequest}]
      /\ locker'[t] = IF Active(t) THEN r ELSE NoRequest
      /\ \A y \in Item \ {t} : locker'[y] = locker[y]
      /\ Others(r) /\ req' \in [Request -> Request_]
      /\ req'[r].pc = IF req[r].left = {t} THEN "delete.flush" ELSE "cascade.rows"
      /\ req'[r].by = req[r].by /\ req'[r].item = req[r].item
      /\ req'[r].scanned = req[r].scanned /\ req'[r].left = req[r].left \ {t}
  BY CascadeRowSelf
<1>2. TypeOK' /\ RowsLast /\ ParentsKept /\ Beside(r) /\ AloneCreating(r)
  BY <1>1 DEF TypeOK, RowsLast, ParentsKept, Beside, AloneCreating, Creating, Committed
<1>3. LocksKept(r)
  BY <1>1, ItemAssumption DEF LocksKept
<1>4. PICK x \in Project, by \in Owner : x = req[r].item /\ by = req[r].by
  BY <1>0, <1>1 DEF LocalsOK, At
<1>5. (Committed(x) /\ OwnerOf(x) = by)'
  BY <1>0, <1>1, <1>4 DEF LocalsOK, At, Holding, Erasing, Committed, OwnerOf
<1>6. \A u \in req[r].scanned \ req'[r].left :
        locker'[u] = r \/ rows'[u].status = "deleted"
  <2> SUFFICES ASSUME NEW u \in req[r].scanned \ req'[r].left
               PROVE  locker'[u] = r \/ rows[u].status = "deleted"
    BY <1>1
  <2>0. u \in Item /\ Committed(u)
    BY <1>0 DEF LocalsOK, Request_, Item
  <2>1. CASE u = t
    BY <2>0, <2>1, <1>1 DEF Committed, Active
  <2>2. CASE u # t
    BY <2>0, <2>2, <1>0, <1>1 DEF LocalsOK
  <2> QED BY <2>1, <2>2
<1>7. LocalsOK(r)'
  BY <1>0, <1>1, <1>4, <1>5, <1>6 DEF LocalsOK, At, Holding, Erasing, Committed
<1>8. OwnLocks(r)'
  <2>1. t \in req[r].scanned \ req'[r].left /\ Committed(t)
    BY <1>0, <1>1 DEF LocalsOK
  <2>2. \A y \in Item : locker[y] = r => Committed(y) /\ y \in req[r].scanned \ req[r].left
    BY <1>1 DEF RowsInv, Locks, At
  <2> QED BY <2>1, <2>2, <1>1 DEF OwnLocks, At, Committed
<1> QED BY <1>1, <1>2, <1>3, <1>7, <1>8, Compose

LEMMA DeleteFlushSelf ==
  ASSUME TypeOK, RowsInv, NEW r \in Request, DeleteFlush(r)
  PROVE  LET x == req[r].item IN
         /\ At(r, "delete.flush") /\ UNCHANGED <<rows, patches>>
         /\ x \in Item /\ locker[x] = NoRequest
         /\ locker' \in [Item -> Request \cup {NoRequest}]
         /\ locker'[x] = r /\ \A y \in Item : y # x => locker'[y] = locker[y]
         /\ Others(r) /\ req' \in [Request -> Request_] /\ req'[r].pc = "delete.commit"
         /\ req'[r].by = req[r].by /\ req'[r].item = x
         /\ req'[r].scanned = req[r].scanned /\ req'[r].left = req[r].left
<1>1. At(r, "delete.flush") /\ UNCHANGED <<rows, patches>> /\ Goto(r, "delete.commit")
  BY DEF DeleteFlush
<1>2. PICK x \in Item : x = req[r].item
  BY <1>1 DEF RowsInv, LocalsOK, At
<1>3. locker' = [locker EXCEPT ![x] = r] /\ locker[x] = NoRequest
  BY <1>2 DEF DeleteFlush, Free
<1>4. /\ locker' \in [Item -> Request \cup {NoRequest}] /\ locker'[x] = r
      /\ \A y \in Item : y # x => locker'[y] = locker[y]
  BY <1>3 DEF TypeOK
<1> QED BY <1>1, <1>2, <1>3, <1>4, GotoSelf DEF Label

LEMMA DeleteFlushRows ==
  ASSUME TypeOK, RowsInv, NEW r \in Request, DeleteFlush(r)
  PROVE  TypeOK' /\ RowsInv'
<1>0. LocalsOK(r) /\ req[r] \in Request_
  BY DEF RowsInv, TypeOK
<1>1. PICK x \in Item, by \in Owner : x = req[r].item /\ by = req[r].by
  BY <1>0, DeleteFlushSelf DEF LocalsOK, At
<1>2. /\ At(r, "delete.flush") /\ UNCHANGED <<rows, patches>> /\ locker[x] = NoRequest
      /\ locker' \in [Item -> Request \cup {NoRequest}]
      /\ locker'[x] = r /\ \A y \in Item : y # x => locker'[y] = locker[y]
      /\ Others(r) /\ req' \in [Request -> Request_] /\ req'[r].pc = "delete.commit"
      /\ req'[r].by = by /\ req'[r].item = x
      /\ req'[r].scanned = req[r].scanned /\ req'[r].left = req[r].left
  BY <1>1, DeleteFlushSelf
<1>3. TypeOK' /\ RowsLast /\ ParentsKept /\ Beside(r) /\ AloneCreating(r)
  BY <1>2 DEF TypeOK, RowsLast, ParentsKept, Beside, AloneCreating, Creating, Committed
<1>4. LocksKept(r)
  BY <1>2, ItemAssumption DEF LocksKept
<1>5. (Committed(x) /\ OwnerOf(x) = by)'
  BY <1>0, <1>1, <1>2 DEF LocalsOK, At, Holding, Erasing, Committed, OwnerOf
<1>6. \A t \in req[r].scanned \ req[r].left : locker'[t] = r \/ rows'[t].status = "deleted"
  BY <1>0, <1>2 DEF LocalsOK, Request_, Item
<1>7. LocalsOK(r)'
  BY <1>0, <1>1, <1>2, <1>5, <1>6 DEF LocalsOK, At, Holding, Erasing, Committed
<1>8. OwnLocks(r)'
  <2>1. \A y \in Item : locker[y] = r => Committed(y) /\ y \in req[r].scanned \ req[r].left
    BY <1>2 DEF RowsInv, Locks, At
  <2> QED BY <2>1, <1>2, <1>5 DEF OwnLocks, At, Committed
<1> QED BY <1>2, <1>3, <1>4, <1>7, <1>8, Compose

\* The end of a transaction gives its row locks back.
LEMMA Release ==
  ASSUME TypeOK, NEW r \in Request,
         locker' = [x \in Item |-> IF locker[x] = r THEN NoRequest ELSE locker[x]],
         req'[r] = Idle
  PROVE  /\ LocksKept(r) /\ OwnLocks(r)' /\ AloneCreating(r)
         /\ locker' \in [Item -> Request \cup {NoRequest}]
<1>1. \A x \in Item : locker'[x] # r
  BY ItemAssumption
<1>2. LocksKept(r) /\ locker' \in [Item -> Request \cup {NoRequest}]
  BY ItemAssumption DEF LocksKept, TypeOK
<1>3. OwnLocks(r)' /\ AloneCreating(r)
  BY <1>1 DEF OwnLocks, At, AloneCreating, Idle, Creating
<1> QED BY <1>2, <1>3

LEMMA DeleteCommitSelf ==
  ASSUME TypeOK, NEW r \in Request, DeleteCommit(r)
  PROVE  /\ At(r, "delete.commit") /\ UNCHANGED patches /\ Others(r) /\ req'[r] = Idle
         /\ TypeOK'
         /\ \A x \in Item : /\ rows'[x].parent = rows[x].parent
                            /\ rows'[x].fields = rows[x].fields
         /\ \A x \in Item : locker[x] = r => rows'[x].status = "deleted"
         /\ \A x \in Item : locker[x] # r => rows'[x] = rows[x]
<1>1. /\ At(r, "delete.commit") /\ UNCHANGED patches /\ Reply(r)
      /\ rows' = [x \in Item |-> IF locker[x] = r THEN [rows[x] EXCEPT !.status = "deleted"]
                                                  ELSE rows[x]]
      /\ locker' = [x \in Item |-> IF locker[x] = r THEN NoRequest ELSE locker[x]]
  BY DEF DeleteCommit
<1>2. Others(r) /\ req'[r] = Idle /\ req' \in [Request -> Request_]
  BY <1>1, ReplySelf
<1>3. \A x \in Item :
        /\ rows'[x].parent = rows[x].parent /\ rows'[x].fields = rows[x].fields
        /\ rows'[x] \in Row_
        /\ locker[x] = r => rows'[x].status = "deleted"
        /\ locker[x] # r => rows'[x] = rows[x]
  <2> SUFFICES ASSUME NEW x \in Item
               PROVE  /\ rows'[x].parent = rows[x].parent
                      /\ rows'[x].fields = rows[x].fields
                      /\ rows'[x] \in Row_
                      /\ locker[x] = r => rows'[x].status = "deleted"
                      /\ locker[x] # r => rows'[x] = rows[x]
    OBVIOUS
  <2> DEFINE d == [rows[x] EXCEPT !.status = "deleted"]
  <2>1. rows[x] \in Row_ /\ rows'[x] = IF locker[x] = r THEN d ELSE rows[x]
    BY <1>1 DEF TypeOK
  <2>2. /\ d \in Row_ /\ d.status = "deleted" /\ d.parent = rows[x].parent
        /\ d.fields = rows[x].fields
    BY <2>1 DEF Row_, Status
  <2> HIDE DEF d
  <2> QED BY <2>1, <2>2
<1>4. rows' \in [Item -> Row_]
  <2>1. PICK d : d = [x \in Item |-> [rows[x] EXCEPT !.status = "deleted"]]
    OBVIOUS
  <2>2. rows' = [x \in Item |-> IF locker[x] = r THEN d[x] ELSE rows[x]]
    BY <1>1, <2>1
  <2> QED BY <1>3, <2>2
<1>5. locker' \in [Item -> Request \cup {NoRequest}]
  BY <1>1, <1>2, Release
<1> QED BY <1>1, <1>2, <1>3, <1>4, <1>5 DEF TypeOK

LEMMA DeleteCommitRows ==
  ASSUME TypeOK, RowsInv, NEW r \in Request, DeleteCommit(r)
  PROVE  TypeOK' /\ RowsInv'
<1>1. /\ TypeOK' /\ Others(r) /\ req'[r] = Idle
      /\ \A x \in Item : rows'[x].parent = rows[x].parent
      /\ \A x \in Item : locker[x] = r => rows'[x].status = "deleted"
      /\ \A x \in Item : locker[x] # r => rows'[x] = rows[x]
      /\ locker' = [x \in Item |-> IF locker[x] = r THEN NoRequest ELSE locker[x]]
  BY DeleteCommitSelf DEF DeleteCommit
<1>2. LocksKept(r) /\ OwnLocks(r)' /\ AloneCreating(r) /\ LocalsOK(r)'
  BY <1>1, Release, IdleLocals
<1>3. \A x \in Item : locker[x] = r => Committed(x)
  BY DEF RowsInv, Locks
<1>4. RowsLast /\ ParentsKept
  BY <1>1, <1>3 DEF RowsLast, ParentsKept, Committed
<1>5. Beside(r)
  <2> SUFFICES ASSUME NEW s \in Request \ {r}, req[s].pc \in Creating
               PROVE  rows'[req[s].item].status = rows[req[s].item].status
    BY DEF Beside
  <2>1. req[s].item \in Item /\ locker[req[s].item] # r
    BY <1>3 DEF RowsInv, LocalsOK, Creating, Committed
  <2> QED BY <1>1, <1>3, <2>1 DEF Committed
<1> QED BY <1>1, <1>2, <1>4, <1>5, Compose

LEMMA RollbackSelf ==
  ASSUME TypeOK, RowsInv, NEW r \in Request, Rollback(r), UNCHANGED patches
  PROVE  /\ Others(r) /\ req'[r] = Idle /\ TypeOK'
         /\ \A x \in Item : /\ rows'[x].parent = rows[x].parent
                            /\ rows'[x].fields = rows[x].fields
         /\ \A x \in Item : ~(At(r, "insert.commit") /\ x = req[r].item) =>
                              rows'[x] = rows[x]
         /\ \A x \in Item : At(r, "insert.commit") /\ x = req[r].item =>
                              rows[x].status = "pending" /\ rows'[x].status = "void"
<1>1. /\ Reply(r)
      /\ locker' = [x \in Item |-> IF locker[x] = r THEN NoRequest ELSE locker[x]]
  BY DEF Rollback
<1>2. Others(r) /\ req'[r] = Idle /\ req' \in [Request -> Request_]
  BY <1>1, ReplySelf
<1>3. locker' \in [Item -> Request \cup {NoRequest}]
  BY <1>1, <1>2, Release
<1>4. CASE At(r, "insert.commit")
  <2>1. PICK x \in Item : x = req[r].item /\ rows[x].status = "pending"
    BY <1>4 DEF RowsInv, LocalsOK, At
  <2>2. rows' = [rows EXCEPT ![x].status = "void"]
    BY <2>1, <1>4 DEF Rollback
  <2>3. /\ rows' \in [Item -> Row_] /\ \A y \in Item \ {x} : rows'[y] = rows[y]
        /\ rows'[x].status = "void" /\ rows'[x].parent = rows[x].parent
        /\ rows'[x].fields = rows[x].fields
    BY <2>2, SetStatus DEF Status
  <2>4. TypeOK'
    BY <1>2, <1>3, <2>3 DEF TypeOK
  <2> QED BY <1>2, <1>4, <2>1, <2>3, <2>4
<1>5. CASE ~At(r, "insert.commit")
  <2>1. rows' = rows
    BY <1>5 DEF Rollback
  <2>2. TypeOK'
    BY <1>2, <1>3, <2>1 DEF TypeOK
  <2> QED BY <1>2, <1>5, <2>1, <2>2
<1> QED BY <1>4, <1>5

LEMMA RollbackRows ==
  ASSUME TypeOK, RowsInv, NEW r \in Request, Rollback(r), UNCHANGED patches
  PROVE  TypeOK' /\ RowsInv'
<1>1. /\ Others(r) /\ req'[r] = Idle /\ TypeOK'
      /\ \A x \in Item : rows'[x].parent = rows[x].parent
      /\ \A x \in Item : ~(At(r, "insert.commit") /\ x = req[r].item) => rows'[x] = rows[x]
      /\ \A x \in Item : At(r, "insert.commit") /\ x = req[r].item =>
                           rows[x].status = "pending" /\ rows'[x].status = "void"
      /\ locker' = [x \in Item |-> IF locker[x] = r THEN NoRequest ELSE locker[x]]
  BY RollbackSelf DEF Rollback
<1>2. LocksKept(r) /\ OwnLocks(r)' /\ AloneCreating(r) /\ LocalsOK(r)'
  BY <1>1, Release, IdleLocals
<1>3. RowsLast /\ ParentsKept
  BY <1>1 DEF RowsLast, ParentsKept, Committed
<1>4. Beside(r)
  <2> SUFFICES ASSUME NEW s \in Request \ {r}, req[s].pc \in Creating
               PROVE  rows'[req[s].item].status = rows[req[s].item].status
    BY DEF Beside
  <2>1. req[s].item \in Item
    BY DEF RowsInv, LocalsOK, Creating
  <2>2. ~(At(r, "insert.commit") /\ req[s].item = req[r].item)
    BY DEF RowsInv, OneCreator, Creating, At
  <2> QED BY <1>1, <2>1, <2>2
<1> QED BY <1>1, <1>2, <1>3, <1>4, Compose

-----------------------------------------------------------------------------
(* Every step.                                                               *)

LEMMA RequestStep ==
  ASSUME TypeOK, RowsInv, NEW r \in Request, Step(r) \/ Fail(r) \/ DeadlockVictim(r)
  PROVE  TypeOK' /\ RowsInv'
<1>1. CASE CreateLookup(r)
  BY <1>1, CreateLookupRows
<1>2. CASE Insert(r)
  BY <1>2, InsertRows
<1>3. CASE InsertCommit(r)
  BY <1>3, InsertCommitRows
<1>4. CASE PatchGet(r)
  BY <1>4, PatchGetRows
<1>5. CASE PatchCommit(r)
  BY <1>5, PatchCommitRows
<1>6. CASE DeleteGet(r)
  BY <1>6, DeleteGetRows
<1>7. CASE CascadeScan(r)
  BY <1>7, CascadeScanRows
<1>8. CASE \E t \in Task : CascadeRow(r, t)
  BY <1>8, CascadeRowRows
<1>9. CASE DeleteFlush(r)
  BY <1>9, DeleteFlushRows
<1>10. CASE DeleteCommit(r)
  BY <1>10, DeleteCommitRows
<1>11. CASE Fail(r) \/ DeadlockVictim(r)
  BY <1>11, RollbackRows DEF Fail, DeadlockVictim
<1> QED BY <1>1, <1>2, <1>3, <1>4, <1>5, <1>6, <1>7, <1>8, <1>9, <1>10, <1>11 DEF Step

LEMMA RowsStep ==
  ASSUME TypeOK, RowsInv, [Next]_vars
  PROVE  TypeOK' /\ RowsInv'
<1>1. CASE UNCHANGED vars
  BY <1>1 DEF vars, TypeOK, RowsInv, LocalsOK, Locks, LastLock, Rooted, OneCreator, At,
              Committed, OwnerOf, Complete
<1>2. ASSUME NEW r \in Request, Arrive(r) PROVE TypeOK' /\ RowsInv'
  BY <1>2, ArriveRows
<1>3. ASSUME NEW r \in Request, Step(r) \/ Fail(r) \/ DeadlockVictim(r)
      PROVE  TypeOK' /\ RowsInv'
  BY <1>3, RequestStep
<1> QED BY <1>1, <1>2, <1>3 DEF Next, Quiet

LEMMA RowsStart ==
  ASSUME Init
  PROVE  TypeOK /\ RowsInv
<1>1. \A x \in Item : rows[x] \in Row_
  <2> SUFFICES ASSUME NEW x \in Item PROVE rows[x] \in Row_
    OBVIOUS
  <2>1. CASE x \in DOMAIN SeedParent
    <3>1. PICK p \in Owner \cup Project : p = SeedParent[x]
      BY <2>1, SeedAssumption
    <3>2. rows[x] = Row("live", p)
      BY <2>1, <3>1 DEF Init
    <3> QED BY <3>2, RowType DEF Status
  <2>2. CASE x \notin DOMAIN SeedParent
    <3>1. rows[x] = Row("unborn", NoOwner)
      BY <2>2 DEF Init
    <3> QED BY <3>1, RowType DEF Status
  <2> QED BY <2>1, <2>2
<1>2. \A x \in Item : /\ x \in DOMAIN SeedParent => rows[x].status = "live"
                                                      /\ rows[x].parent = SeedParent[x]
                      /\ x \notin DOMAIN SeedParent => rows[x].status = "unborn"
  BY DEF Init, Row
<1>3. TypeOK
  <2>1. \E F : rows = [x \in Item |-> F[x]]
    <3>1. rows = [x \in Item |-> rows[x]]
      BY DEF Init
    <3> QED BY <3>1
  <2>2. rows \in [Item -> Row_]
    BY <1>1, <2>1
  <2> QED BY <2>2, IdleOK DEF Init, TypeOK
<1>4. \A r \in Request : req[r].pc = "idle" /\ req[r].item = NoItem
                           /\ req[r].scanned = {} /\ req[r].left = {}
  BY DEF Init, Idle
<1>5. \A r \in Request : LocalsOK(r)
  BY <1>4, ItemAssumption DEF LocalsOK, Holding, Erasing, Item
<1>6. Locks /\ LastLock /\ OneCreator
  BY <1>4, ItemAssumption DEF Init, Locks, LastLock, OneCreator, At, Creating
<1>7. Rooted
  BY <1>2, SeedAssumption, ItemAssumption DEF Rooted, Committed, Item
<1> QED BY <1>3, <1>5, <1>6, <1>7 DEF RowsInv

LEMMA RowsInvariant == Spec => [](TypeOK /\ RowsInv)
<1>1. Init => TypeOK /\ RowsInv
  BY RowsStart
<1>2. TypeOK /\ RowsInv /\ [Next]_vars => (TypeOK /\ RowsInv)'
  BY RowsStep
<1> QED BY <1>1, <1>2, PTL DEF Spec

\* Rows, locks, locals and the history of PATCHes hold what they can hold; no
\* required column ever gets a null: TaskRead and ProjectRead have refused it
\* before the commit.
THEOREM WorkspaceTypes == Spec => []TypeOK
BY RowsInvariant, PTL

\* The cascade of ProjectService.delete goes through its rows one by one and
\* meets rows that others have updated meanwhile: all those of its snapshot are
\* deleted or its own when it is done.
THEOREM CascadeIsWhole == Spec => []CascadeCoversScan
<1>1. RowsInv => CascadeCoversScan
  BY DEF RowsInv, LocalsOK, CascadeCoversScan
<1> QED BY <1>1, RowsInvariant, PTL

-----------------------------------------------------------------------------
(* Whose rows a step changes.                                                *)

\* What a transaction has locked belongs to the user it runs for.
LEMMA LockedIsOwn ==
  ASSUME TypeOK, RowsInv, NEW r \in Request, NEW x \in Item, locker[x] = r
  PROVE  OwnerOf(x) = req[r].by /\ ~At(r, "idle")
<1>1. LocalsOK(r) /\ req[r] \in Request_
  BY DEF RowsInv, TypeOK
<1>2. CASE At(r, "delete.commit") /\ req[r].item = x
  BY <1>1, <1>2 DEF LocalsOK, At, Holding, Erasing
<1>3. CASE x \in req[r].scanned \ req[r].left
  <2>1. PICK p : p = req[r].item
    OBVIOUS
  <2>2. x \in Task /\ rows[x].parent = p /\ req[r].pc \in Erasing /\ p \in Project
    BY <1>1, <1>3, <2>1 DEF LocalsOK, Request_
  <2>3. OwnerOf(p) = req[r].by
    BY <1>1, <2>1, <2>2 DEF LocalsOK, Holding
  <2> QED BY <2>2, <2>3, ItemAssumption DEF OwnerOf, At, Erasing
<1> QED BY <1>2, <1>3 DEF RowsInv, Locks

LEMMA OwnerStep ==
  ASSUME TypeOK, RowsInv, [Next]_vars,
         NEW x \in Item, Active(x), rows'[x] # rows[x]
  PROVE  \E r \in Request : req[r].by = OwnerOf(x) /\ ~At(r, "idle") /\ At(r, "idle")'
<1> DEFINE Done == \E r \in Request : req[r].by = OwnerOf(x) /\ ~At(r, "idle") /\ At(r, "idle")'
<1>0. Idle.pc = "idle"
  BY DEF Idle
<1>1. ASSUME NEW r \in Request, Insert(r) PROVE Done
  <2>1. rows[req[r].item].status = "unborn" /\ \A y \in Item \ {req[r].item} : rows'[y] = rows[y]
    BY <1>1, InsertSelf DEF RowsInv, LocalsOK, At
  <2> QED BY <2>1 DEF Active
<1>2. ASSUME NEW r \in Request, InsertCommit(r) PROVE Done
  <2>1. rows[req[r].item].status = "pending"
        /\ \A y \in Item \ {req[r].item} : rows'[y] = rows[y]
    BY <1>2, InsertCommitSelf DEF RowsInv, LocalsOK, At
  <2> QED BY <2>1 DEF Active
<1>3. ASSUME NEW r \in Request, PatchCommit(r) PROVE Done
  <2>1. x = req[r].item /\ At(r, "patch.commit") /\ req'[r] = Idle
    BY <1>3, PatchCommitSelf
  <2>2. OwnerOf(x) = req[r].by
    BY <2>1 DEF RowsInv, LocalsOK, At, Holding
  <2> QED BY <1>0, <2>1, <2>2 DEF At
<1>4. ASSUME NEW r \in Request, DeleteCommit(r) PROVE Done
  <2>1. locker[x] = r /\ req'[r] = Idle
    BY <1>4, DeleteCommitSelf
  <2>2. OwnerOf(x) = req[r].by /\ ~At(r, "idle")
    BY <2>1, LockedIsOwn
  <2> QED BY <1>0, <2>1, <2>2 DEF At
<1>5. ASSUME NEW r \in Request, Rollback(r), UNCHANGED patches PROVE Done
  BY <1>5, RollbackSelf DEF Active
<1>6. ASSUME NEW r \in Request, Arrive(r) PROVE Done
  BY <1>6, ArriveSelf
<1>7. ASSUME rows' = rows PROVE Done
  BY <1>7
<1> HIDE DEF Done
<1>8. ASSUME NEW r \in Request, Step(r) PROVE Done
  BY <1>1, <1>2, <1>3, <1>4, <1>7, <1>8
     DEF Step, CreateLookup, PatchGet, DeleteGet, CascadeScan, CascadeRow, DeleteFlush
<1>9. Done
  BY <1>5, <1>6, <1>7, <1>8 DEF Next, Quiet, vars, Fail, DeadlockVictim
<1> QED BY <1>9 DEF Done

\* get_by_id_for_owner is checked once, before awaits; nothing that happens in
\* between lets a request change the item of another user.
THEOREM OwnersOnly == Spec => OwnerOnly
<1>1. TypeOK /\ RowsInv /\ [Next]_vars =>
        [\A x \in Item : Active(x) /\ rows'[x] # rows[x] =>
           \E r \in Request : req[r].by = OwnerOf(x) /\ ~At(r, "idle") /\ At(r, "idle")']_vars
  BY OwnerStep
<1> QED BY <1>1, RowsInvariant, PTL DEF Spec, OwnerOnly

-----------------------------------------------------------------------------
(* No PATCH is lost.                                                         *)

Covered(x, f) == \E c \in patches[x] : f \in DOMAIN c
Supplied(x, f) == \E c \in patches[x] : f \in DOMAIN c /\ rows[x].fields[f] = c[f]

\* A field that an answered PATCH of the overlap set holds what one of them
\* supplied; a field that has changed since a PATCH loaded it is such a field.
PatchInv ==
  /\ \A x \in Item : patches[x] # {} => Committed(x)
  /\ \A x \in Item, f \in Field : Covered(x, f) => Supplied(x, f)
  /\ \A r \in Request : At(r, "patch.commit") =>
       \A f \in Field : \/ rows[req[r].item].fields[f] = req[r].loaded[f]
                        \/ Covered(req[r].item, f)

\* A step that answers no PATCH and loads none.
LEMMA PatchesAlone ==
  ASSUME TypeOK, RowsInv, PatchInv, NEW r \in Request, Others(r), patches' = patches,
         \A x \in Item : Committed(x) => /\ rows'[x].status \in {"live", "deleted"}
                                         /\ rows'[x].fields = rows[x].fields,
         req'[r].pc # "patch.commit"
  PROVE  PatchInv'
<1>1. (\A x \in Item : patches[x] # {} => Committed(x))'
  BY DEF PatchInv, Committed
<1>2. (\A x \in Item, f \in Field : Covered(x, f) => Supplied(x, f))'
  BY DEF PatchInv, Covered, Supplied
<1>3. ASSUME NEW s \in Request, req'[s].pc = "patch.commit", NEW f \in Field
      PROVE  \/ rows'[req'[s].item].fields[f] = req'[s].loaded[f]
             \/ Covered(req[s].item, f)'
  <2>1. s # r /\ req'[s] = req[s]
    BY <1>3 DEF Others
  <2>2. PICK x \in Item : x = req[s].item /\ Committed(x)
    BY <1>3, <2>1 DEF RowsInv, LocalsOK, Holding
  <2>3. rows[x].fields[f] = req[s].loaded[f] \/ Covered(x, f)
    BY <1>3, <2>1, <2>2 DEF PatchInv, At
  <2> QED BY <2>1, <2>2, <2>3 DEF Covered
<1> QED BY <1>1, <1>2, <1>3 DEF PatchInv, At

LEMMA PatchCommitPatches ==
  ASSUME TypeOK, RowsInv, PatchInv, NEW r \in Request, PatchCommit(r)
  PROVE  PatchInv'
<1>0. LocalsOK(r) /\ req[r] \in Request_
  BY DEF RowsInv, TypeOK
<1>1. PICK x \in Item, c \in Changes, l \in Columns :
        x = req[r].item /\ c = req[r].changes /\ l = req[r].loaded
  BY <1>0, PatchCommitSelf DEF Request_
<1>2. /\ Others(r) /\ At(r, "patch.commit") /\ req'[r] = Idle
      /\ rows'[x].status = rows[x].status
      /\ \A f \in Field : rows'[x].fields[f] = IF f \in Dirty(c, l) THEN c[f]
                                               ELSE rows[x].fields[f]
      /\ patches'[x] = IF DOMAIN c = {} THEN patches[x] ELSE patches[x] \cup {c}
      /\ \A y \in Item : y # x => rows'[y] = rows[y] /\ patches'[y] = patches[y]
  BY <1>1, PatchCommitSelf
<1>3. /\ Committed(x)
      /\ \A f \in Field : rows[x].fields[f] = l[f] \/ Covered(x, f)
  BY <1>0, <1>1, <1>2 DEF LocalsOK, Holding, PatchInv, At
<1>4. patches[x] \subseteq patches'[x] /\ (DOMAIN c # {} => c \in patches'[x])
  BY <1>2
<1>5. (\A y \in Item : patches[y] # {} => Committed(y))'
  BY <1>2, <1>3 DEF PatchInv, Committed
<1>6. ASSUME NEW f \in Field
      PROVE  /\ f \in DOMAIN c => Supplied(x, f)'
             /\ f \notin DOMAIN c =>
                  rows'[x].fields[f] = rows[x].fields[f] /\ (Covered(x, f)' <=> Covered(x, f))
  <2>1. CASE f \in Dirty(c, l)
    BY <2>1, <1>2, <1>4 DEF Dirty, Supplied
  <2>2. CASE f \in DOMAIN c /\ c[f] = l[f] /\ rows[x].fields[f] = l[f]
    BY <2>2, <1>2, <1>4 DEF Dirty, Supplied
  <2>3. CASE f \in DOMAIN c /\ c[f] = l[f] /\ Covered(x, f)
    <3>1. Supplied(x, f)
      BY <2>3 DEF PatchInv
    <3> QED BY <2>3, <3>1, <1>2, <1>4 DEF Dirty, Supplied
  <2>4. CASE f \notin DOMAIN c
    BY <2>4, <1>2 DEF Dirty, Covered
  <2> QED BY <2>1, <2>2, <2>3, <2>4, <1>3 DEF Dirty
<1>7. ASSUME NEW y \in Item, NEW f \in Field, Covered(y, f)'
      PROVE  Supplied(y, f)'
  <2>1. CASE y # x
    BY <2>1, <1>2, <1>7 DEF PatchInv, Covered, Supplied
  <2>2. CASE y = x /\ f \in DOMAIN c
    BY <2>2, <1>6
  <2>3. CASE y = x /\ f \notin DOMAIN c
    <3>1. Covered(x, f) /\ rows'[x].fields[f] = rows[x].fields[f]
      BY <2>3, <1>6, <1>7
    <3>2. Supplied(x, f)
      BY <3>1 DEF PatchInv
    <3> QED BY <2>3, <3>1, <3>2, <1>4 DEF Supplied
  <2> QED BY <2>1, <2>2, <2>3
<1>8. ASSUME NEW s \in Request, req'[s].pc = "patch.commit", NEW f \in Field
      PROVE  \/ rows'[req'[s].item].fields[f] = req'[s].loaded[f]
             \/ Covered(req[s].item, f)'
  <2>1. s # r /\ req'[s] = req[s]
    BY <1>2, <1>8 DEF Others, Idle
  <2>2. PICK y \in Item : y = req[s].item
    BY <1>8, <2>1 DEF RowsInv, LocalsOK
  <2>3. rows[y].fields[f] = req[s].loaded[f] \/ Covered(y, f)
    BY <1>8, <2>1, <2>2 DEF PatchInv, At
  <2>4. rows'[y].fields[f] = req[s].loaded[f] \/ Covered(y, f)'
    <3>1. CASE y # x
      BY <3>1, <2>3, <1>2 DEF Covered
    <3>2. CASE y = x /\ f \in DOMAIN c
      BY <3>2, <1>6 DEF Covered, Supplied
    <3>3. CASE y = x /\ f \notin DOMAIN c
      BY <3>3, <2>3, <1>6
    <3> QED BY <3>1, <3>2, <3>3
  <2> QED BY <2>1, <2>2, <2>4 DEF Covered
<1> QED BY <1>5, <1>7, <1>8 DEF PatchInv, At

LEMMA PatchStep ==
  ASSUME TypeOK, RowsInv, PatchInv, [Next]_vars
  PROVE  PatchInv'
<1>0. Idle.pc = "idle"
  BY DEF Idle
<1>1. CASE UNCHANGED vars
  BY <1>1 DEF vars, PatchInv, Committed, Covered, Supplied, At
<1>2. ASSUME NEW r \in Request, Arrive(r) PROVE PatchInv'
  <2>1. PICK q : req'[r] = q /\ Comes(q)
    BY <1>2, ArriveSelf
  <2>2. /\ rows' = rows /\ Others(r)
        /\ patches' = IF AllIdle THEN [x \in Item |-> {}] ELSE patches
    BY <1>2, ArriveSelf
  <2>3. CASE AllIdle
    <3>1. \A x \in Item : patches'[x] = {}
      BY <2>2, <2>3
    <3>2. \A s \in Request : req'[s].pc # "patch.commit"
      BY <2>1, <2>2, <2>3 DEF AllIdle, At, Others, Comes
    <3> QED BY <3>1, <3>2 DEF PatchInv, At, Covered
  <2>4. CASE ~AllIdle
    BY <2>1, <2>2, <2>4, PatchesAlone DEF Comes, Committed
  <2> QED BY <2>3, <2>4
<1>3. ASSUME NEW r \in Request, Insert(r) PROVE PatchInv'
  <2>1. rows[req[r].item].status = "unborn"
        /\ \A y \in Item \ {req[r].item} : rows'[y] = rows[y]
    BY <1>3, InsertSelf DEF RowsInv, LocalsOK, At
  <2> QED BY <1>3, <2>1, InsertSelf, PatchesAlone DEF Committed
<1>4. ASSUME NEW r \in Request, InsertCommit(r) PROVE PatchInv'
  <2>1. rows[req[r].item].status = "pending"
        /\ \A y \in Item \ {req[r].item} : rows'[y] = rows[y]
    BY <1>4, InsertCommitSelf DEF RowsInv, LocalsOK, At
  <2> QED BY <1>0, <1>4, <2>1, InsertCommitSelf, PatchesAlone DEF Committed
<1>5. ASSUME NEW r \in Request, PatchGet(r), ~Reply(r) PROVE PatchInv'
  <2>1. PICK x \in Item : x = req[r].item
    BY <1>5, PatchGetSelf
  <2>2. /\ UNCHANGED <<rows, patches>> /\ Others(r)
        /\ req'[r].item = x /\ req'[r].loaded = rows[x].fields
    BY <1>5, <2>1, PatchGetSelf
  <2>3. (\A y \in Item : patches[y] # {} => Committed(y))'
    BY <2>2 DEF PatchInv, Committed
  <2>4. (\A y \in Item, f \in Field : Covered(y, f) => Supplied(y, f))'
    BY <2>2 DEF PatchInv, Covered, Supplied
  <2>5. ASSUME NEW s \in Request, req'[s].pc = "patch.commit", NEW f \in Field
        PROVE  \/ rows'[req'[s].item].fields[f] = req'[s].loaded[f]
               \/ Covered(req[s].item, f)'
    <3>1. CASE s = r
      BY <3>1, <2>2
    <3>2. CASE s # r
      BY <3>2, <2>2, <2>5 DEF Others, PatchInv, At, Covered
    <3> QED BY <3>1, <3>2
  <2> QED BY <2>3, <2>4, <2>5 DEF PatchInv, At
<1>6. ASSUME NEW r \in Request, PatchCommit(r) PROVE PatchInv'
  BY <1>6, PatchCommitPatches
<1>7. ASSUME NEW r \in Request, Others(r), req'[r].pc # "patch.commit",
             UNCHANGED <<rows, patches>>
      PROVE  PatchInv'
  BY <1>7, PatchesAlone DEF Committed
<1>8. ASSUME NEW r \in Request, Reply(r), UNCHANGED <<rows, patches>> PROVE PatchInv'
  BY <1>0, <1>7, <1>8, ReplySelf
<1>9. ASSUME NEW r \in Request, CreateLookup(r) \/ DeleteGet(r) PROVE PatchInv'
  BY <1>7, <1>8, <1>9, GotoSelf DEF CreateLookup, DeleteGet, Label
<1>10. ASSUME NEW r \in Request, CascadeScan(r) PROVE PatchInv'
  BY <1>7, <1>10, CascadeScanSelf
<1>11. ASSUME NEW r \in Request, NEW t \in Task, CascadeRow(r, t) PROVE PatchInv'
  BY <1>7, <1>11, CascadeRowSelf
<1>12. ASSUME NEW r \in Request, DeleteFlush(r) PROVE PatchInv'
  BY <1>7, <1>12, DeleteFlushSelf
<1>13. ASSUME NEW r \in Request, DeleteCommit(r) PROVE PatchInv'
  <2>1. /\ UNCHANGED patches /\ Others(r) /\ req'[r].pc # "patch.commit"
        /\ \A x \in Item : rows'[x].fields = rows[x].fields
        /\ \A x \in Item : rows'[x].status = "deleted" \/ rows'[x] = rows[x]
    BY <1>0, <1>13, DeleteCommitSelf
  <2> QED BY <2>1, PatchesAlone DEF Committed
<1>14. ASSUME NEW r \in Request, Rollback(r), UNCHANGED patches PROVE PatchInv'
  <2>1. /\ Others(r) /\ req'[r].pc # "patch.commit"
        /\ \A x \in Item : rows'[x].fields = rows[x].fields
        /\ \A x \in Item : Committed(x) => rows'[x] = rows[x]
    BY <1>0, <1>14, RollbackSelf DEF Committed
  <2> QED BY <1>14, <2>1, PatchesAlone DEF Committed
<1>15. ASSUME NEW r \in Request, PatchGet(r), Reply(r) PROVE PatchInv'
  BY <1>8, <1>15 DEF PatchGet
<1>16. ASSUME NEW r \in Request, Step(r) PROVE PatchInv'
  BY <1>3, <1>4, <1>5, <1>6, <1>9, <1>10, <1>11, <1>12, <1>13, <1>15, <1>16 DEF Step
<1> QED BY <1>1, <1>2, <1>14, <1>16 DEF Next, Quiet, Fail, DeadlockVictim

\* PATCHes that overlap, on one item or on many, all have their effect: the unit
\* of work writes only the columns whose value differs from the loaded one, and
\* leaves the others to whoever set them.
THEOREM PatchesKept == Spec => []NoLostPatch
<1>1. Init => PatchInv
  BY DEF Init, PatchInv, Covered, At, Idle
<1>2. TypeOK /\ RowsInv /\ PatchInv /\ [Next]_vars => PatchInv'
  BY PatchStep
<1>3. TypeOK /\ PatchInv => NoLostPatch
  <2> SUFFICES ASSUME TypeOK, PatchInv, NEW x \in Item,
                      NEW f \in UNION {DOMAIN c : c \in patches[x]}
               PROVE  \E c \in patches[x] : f \in DOMAIN c /\ rows[x].fields[f] = c[f]
    BY DEF NoLostPatch
  <2>1. PICK c \in patches[x] : f \in DOMAIN c
    OBVIOUS
  <2>2. c \in Changes
    BY DEF TypeOK
  <2>3. f \in Field
    BY <2>1, <2>2, ChangesOK
  <2> QED BY <2>1, <2>3 DEF PatchInv, Covered, Supplied
<1> QED BY <1>1, <1>2, <1>3, RowsInvariant, PTL DEF Spec

-----------------------------------------------------------------------------
(* Deadlocks.                                                                *)

LEMMA WaitsForLock ==
  ASSUME TypeOK, RowsInv, NEW q \in Request, NEW w \in WaitsFor(q)
  PROVE  /\ w \in Request
         /\ \E x \in Item :
              /\ locker[x] = w
              /\ \/ At(q, "cascade.rows") /\ x \in req[q].left
                 \/ req[q].pc \in {"delete.flush", "patch.commit"} /\ x = req[q].item
<1>1. req[q] \in Request_ /\ LocalsOK(q)
  BY DEF TypeOK, RowsInv
<1>2. CASE At(q, "cascade.rows") /\ \A t \in req[q].left : ~Free(t)
  <2>1. WaitsFor(q) = {locker[t] : t \in req[q].left}
    BY <1>2 DEF WaitsFor, At
  <2>2. PICK t \in req[q].left : w = locker[t]
    BY <2>1
  <2>3. t \in Item /\ locker[t] # NoRequest
    BY <1>1, <1>2 DEF Request_, Item, Free
  <2> QED BY <1>2, <2>2, <2>3 DEF TypeOK
<1>3. CASE \/ At(q, "delete.flush")
           \/ At(q, "patch.commit") /\ Dirty(req[q].changes, req[q].loaded) # {}
  <2>1. WaitsFor(q) = {locker[req[q].item]} \ {NoRequest}
    BY <1>3 DEF WaitsFor, At
  <2>2. PICK x \in Item : x = req[q].item
    BY <1>1, <1>3 DEF LocalsOK, At
  <2>3. w = locker[x] /\ w # NoRequest
    BY <2>1, <2>2
  <2> QED BY <1>3, <2>2, <2>3 DEF TypeOK, At
<1>4. CASE ~(At(q, "cascade.rows") /\ \A t \in req[q].left : ~Free(t))
           /\ ~(\/ At(q, "delete.flush")
                \/ At(q, "patch.commit") /\ Dirty(req[q].changes, req[q].loaded) # {})
  <2>1. WaitsFor(q) = {}
    BY <1>4 DEF WaitsFor
  <2> QED BY <2>1
<1> QED BY <1>2, <1>3, <1>4

\* A request that holds a lock and waits is a cascade, and the lock is on a task
\* that it has been through.
LEMMA WaitingHolder ==
  ASSUME TypeOK, RowsInv, NEW w \in Request, WaitsFor(w) # {},
         NEW x \in Item, locker[x] = w
  PROVE  /\ x \in Task /\ x \in req[w].scanned \ req[w].left
         /\ req[w].pc \in {"cascade.rows", "delete.flush"}
         /\ req[w].item \in Project /\ rows[x].parent = req[w].item
<1>1. req[w] \in Request_ /\ LocalsOK(w)
  BY DEF TypeOK, RowsInv
<1>2. req[w].pc \in {"cascade.rows", "delete.flush", "patch.commit"}
  <2>1. PICK v : v \in WaitsFor(w)
    OBVIOUS
  <2> QED BY <2>1, WaitsForLock DEF At
<1>3. x \in req[w].scanned \ req[w].left
  BY <1>2 DEF RowsInv, Locks, At
<1> QED BY <1>1, <1>2, <1>3 DEF LocalsOK, Erasing, Request_

LEMMA NeverForItself ==
  ASSUME TypeOK, RowsInv, NEW q \in Request
  PROVE  q \notin WaitsFor(q)
<1> SUFFICES ASSUME q \in WaitsFor(q) PROVE FALSE
  OBVIOUS
<1>1. PICK x \in Item :
        /\ locker[x] = q
        /\ \/ At(q, "cascade.rows") /\ x \in req[q].left
           \/ req[q].pc \in {"delete.flush", "patch.commit"} /\ x = req[q].item
  BY WaitsForLock
<1>2. /\ x \in Task /\ x \in req[q].scanned \ req[q].left
      /\ req[q].pc \in {"cascade.rows", "delete.flush"} /\ req[q].item \in Project
  BY <1>1, WaitingHolder
<1> QED BY <1>1, <1>2, ItemAssumption

\* In a set that waits only for itself, whoever is waited for is at the rows of
\* its cascade: one that waits for its project waits for a DELETE about to commit.
LEMMA StuckHolder ==
  ASSUME TypeOK, RowsInv, NEW S \in SUBSET Request, Stuck(S),
         NEW w \in S, NEW x \in Item, locker[x] = w
  PROVE  At(w, "cascade.rows")
<1>1. w \in Request /\ WaitsFor(w) # {} /\ WaitsFor(w) \subseteq S
  BY DEF Stuck
<1>2. req[w].pc \in {"cascade.rows", "delete.flush"} /\ req[w].item \in Project
  BY <1>1, WaitingHolder
<1>3. ASSUME req[w].pc = "delete.flush" PROVE FALSE
  <2>1. PICK v : v \in WaitsFor(w)
    BY <1>1
  <2>2. v \in Request /\ WaitsFor(v) # {}
    BY <1>1, <2>1 DEF Stuck
  <2>3. PICK p \in Item : locker[p] = v /\ p = req[w].item
    BY <1>1, <1>3, <2>1, WaitsForLock DEF At
  <2>4. p \in Task
    BY <2>2, <2>3, WaitingHolder
  <2> QED BY <1>2, <2>3, <2>4, ItemAssumption
<1> QED BY <1>2, <1>3 DEF At

\* Only DELETEs of one project deadlock each other: the one transaction that the
\* code has with several row locks to take is the cascade.
THEOREM CascadesOnly == Spec => []OnlyCascadesDeadlock
<1>1. ASSUME TypeOK, RowsInv, NEW r \in Request, Deadlocked(r)
      PROVE  \E q \in Request \ {r} : At(r, "cascade.rows") /\ At(q, "cascade.rows")
                                        /\ req[q].item = req[r].item
  <2>1. PICK S \in SUBSET Request :
          r \in S /\ Stuck(S) /\ \A T \in SUBSET S : Stuck(T) => T = S
    BY <1>1 DEF Deadlocked
  <2>2. WaitsFor(r) # {} /\ WaitsFor(r) \subseteq S
    BY <2>1 DEF Stuck
  <2>3. PICK q \in S : r \in WaitsFor(q)
    <3> SUFFICES ASSUME \A q \in S : r \notin WaitsFor(q) PROVE FALSE
      OBVIOUS
    <3>1. r \notin WaitsFor(r)
      BY <1>1, NeverForItself
    <3>2. Stuck(S \ {r})
      BY <2>1, <2>2, <3>1 DEF Stuck
    <3> QED BY <2>1, <3>2
  <2>4. PICK x \in Item : locker[x] = r
    BY <1>1, <2>1, <2>3, WaitsForLock
  <2>5. At(r, "cascade.rows")
    BY <1>1, <2>1, <2>4, StuckHolder
  <2>6. PICK w \in S : w \in WaitsFor(r)
    BY <2>2
  <2>7. w # r
    BY <1>1, <2>6, NeverForItself
  <2>8. PICK t \in Item : locker[t] = w /\ t \in req[r].left
    BY <1>1, <2>5, <2>6, WaitsForLock DEF At
  <2>9. At(w, "cascade.rows")
    BY <1>1, <2>1, <2>8, StuckHolder
  <2>10. rows[t].parent = req[w].item
    BY <1>1, <2>1, <2>6, <2>8, WaitingHolder DEF Stuck
  <2>11. rows[t].parent = req[r].item
    BY <1>1, <2>8 DEF RowsInv, LocalsOK
  <2> QED BY <2>5, <2>6, <2>7, <2>9, <2>10, <2>11
<1>2. TypeOK /\ RowsInv => OnlyCascadesDeadlock
  BY <1>1 DEF OnlyCascadesDeadlock
<1> QED BY <1>2, RowsInvariant, PTL

-----------------------------------------------------------------------------
(* Deleting whole: the refinement of ItemTree.                               *)

\* What a run without POSTs of tasks adds to the invariant.
WholeInv ==
  /\ \A r \in Request : req[r].pc \in Creating => req[r].item \in Project
  /\ \A t \in Task : rows[t].status # "pending"
  /\ \A r \in Request : req[r].pc \in Erasing /\ req[r].item \in Project =>
       \A t \in Task : Active(t) /\ rows[t].parent = req[r].item => t \in req[r].scanned
  /\ \A t \in Task : Active(t) => rows[rows[t].parent].status = "live"

StateOf(x) == CASE rows[x].status = "live" -> "there"
                [] rows[x].status = "deleted" -> "gone"
                [] OTHER -> "absent"
UnderOf(x) == IF Committed(x) THEN rows[x].parent ELSE NoOwner

\* No active task appears, no project with tasks is removed.
LEMMA WholeAlone ==
  ASSUME TypeOK, RowsInv, WholeInv, NEW r \in Request, Others(r),
         \A x \in Item : /\ rows'[x].parent = rows[x].parent \/ ~Committed(x)
                         /\ x \in Task /\ rows'[x].status = "live" => rows[x].status = "live"
                         /\ x \in Task => rows'[x].status # "pending"
                         /\ x \in Project /\ rows[x].status = "live" => rows'[x].status = "live",
         req'[r].pc \in Creating => req'[r].item \in Project,
         req'[r].pc \in Erasing /\ req'[r].item \in Project =>
           \A t \in Task : Active(t) /\ rows[t].parent = req'[r].item => t \in req'[r].scanned
  PROVE  WholeInv'
<1>1. ASSUME NEW t \in Task, rows'[t].status = "live"
      PROVE  Active(t) /\ rows'[t].parent = rows[t].parent
  BY <1>1 DEF Item, Active, Committed
<1>2. ASSUME NEW s \in Request, req'[s].pc \in Erasing, req'[s].item \in Project,
             NEW t \in Task, rows'[t].status = "live", rows'[t].parent = req'[s].item
      PROVE  t \in req'[s].scanned
  <2>1. Active(t) /\ rows[t].parent = req'[s].item
    BY <1>1, <1>2
  <2>2. CASE s = r
    BY <2>1, <2>2, <1>2
  <2>3. CASE s # r
    BY <2>1, <2>3, <1>2 DEF Others, WholeInv
  <2> QED BY <2>2, <2>3
<1>3. ASSUME NEW t \in Task, rows'[t].status = "live"
      PROVE  rows'[rows'[t].parent].status = "live"
  <2>1. PICK p : p = rows[t].parent
    OBVIOUS
  <2>2. p \in Project /\ rows[p].status = "live" /\ rows'[t].parent = p
    BY <1>1, <1>3, <2>1, ItemAssumption DEF WholeInv, Active, RowsInv, Rooted, Item
  <2> QED BY <2>2 DEF Item
<1>4. \A s \in Request : req'[s].pc \in Creating => req'[s].item \in Project
  BY DEF Others, WholeInv
<1>5. \A t \in Task : rows'[t].status # "pending"
  BY DEF Item
<1> QED BY <1>2, <1>3, <1>4, <1>5 DEF WholeInv, Active, Creating, Erasing

LEMMA TreeStutter ==
  ASSUME \A x \in Item : StateOf(x)' = StateOf(x) /\ UnderOf(x)' = UnderOf(x)
  PROVE  UNCHANGED Tree!vars
BY DEF Tree!vars, StateOf, UnderOf, Tree!Item

\* A step that commits neither an INSERT nor a DELETE.
LEMMA WholeStill ==
  ASSUME TypeOK, RowsInv, WholeInv, NEW r \in Request, Others(r),
         \A x \in Item : rows'[x].parent = rows[x].parent /\ rows'[x].status = rows[x].status,
         req'[r].pc \in Creating => req'[r].item \in Project,
         req'[r].pc \in Erasing /\ req'[r].item \in Project =>
           \A t \in Task : Active(t) /\ rows[t].parent = req'[r].item => t \in req'[r].scanned
  PROVE  WholeInv' /\ UNCHANGED Tree!vars
<1>1. WholeInv'
  BY WholeAlone DEF WholeInv, Item
<1>2. \A x \in Item : StateOf(x)' = StateOf(x) /\ UnderOf(x)' = UnderOf(x)
  BY DEF StateOf, UnderOf, Committed
<1> QED BY <1>1, <1>2, TreeStutter

LEMMA WholeInsertCommit ==
  ASSUME TypeOK, RowsInv, WholeInv, NEW r \in Request, InsertCommit(r)
  PROVE  WholeInv' /\ Tree!Next
<1>0. Idle.pc = "idle"
  BY DEF Idle
<1>1. PICK x \in Project : x = req[r].item
  BY InsertCommitSelf DEF WholeInv, Creating, At
<1>2. /\ Others(r) /\ req'[r] = Idle /\ At(r, "insert.commit") /\ x \in Item
      /\ rows'[x].status = "live" /\ rows'[x].parent = rows[x].parent
      /\ \A y \in Item \ {x} : rows'[y] = rows[y]
  BY <1>1, InsertCommitSelf DEF Item
<1>3. rows[x].status = "pending"
  BY <1>1, <1>2 DEF RowsInv, LocalsOK, At
<1>4. rows[x].parent \in Owner
  BY <1>2, <1>3 DEF RowsInv, Rooted
<1>5. WholeInv'
  BY <1>0, <1>2, <1>3, ItemAssumption, WholeAlone DEF Creating, Erasing, WholeInv
<1>6. PICK p \in Owner : p = rows[x].parent
  BY <1>4
<1>7. /\ StateOf(x) = "absent" /\ StateOf(x)' = "there" /\ UnderOf(x)' = p
      /\ \A y \in Item \ {x} : StateOf(y)' = StateOf(y) /\ UnderOf(y)' = UnderOf(y)
  BY <1>2, <1>3, <1>6 DEF StateOf, UnderOf, Committed
<1>8. Tree!Add(x, p)
  BY <1>2, <1>6, <1>7 DEF Tree!Add, StateOf, UnderOf, Tree!Item, Item
<1> QED BY <1>2, <1>5, <1>8 DEF Tree!Next, Tree!Item, Item

LEMMA WholeDeleteCommit ==
  ASSUME TypeOK, RowsInv, WholeInv, NEW r \in Request, DeleteCommit(r)
  PROVE  WholeInv' /\ [Tree!Next]_Tree!vars
<1>0. Idle.pc = "idle" /\ LocalsOK(r) /\ req[r] \in Request_
  BY DEF Idle, RowsInv, TypeOK
<1>1. PICK x \in Item : x = req[r].item
  BY <1>0 DEF DeleteCommit, LocalsOK, At
<1>2. /\ Others(r) /\ req'[r] = Idle /\ At(r, "delete.commit")
      /\ \A y \in Item : rows'[y].parent = rows[y].parent
      /\ \A y \in Item : locker[y] = r => rows'[y].status = "deleted"
      /\ \A y \in Item : locker[y] # r => rows'[y] = rows[y]
  BY DeleteCommitSelf
<1>3. locker[x] = r /\ Committed(x)
  BY <1>1, <1>2 DEF RowsInv, LastLock, Locks
\* A lock is on the item itself, or on a task of it.
<1>4. \A y \in Item : locker[y] = r => /\ Committed(y)
                                       /\ y = x \/ (y \in Task /\ rows[y].parent = x)
  BY <1>0, <1>1, <1>2 DEF RowsInv, Locks, LocalsOK, Request_
<1>5. \A t \in Task : Active(t) /\ rows[t].parent = x => locker[t] = r /\ x \in Project
  <2> SUFFICES ASSUME NEW t \in Task, Active(t), rows[t].parent = x
               PROVE  locker[t] = r /\ x \in Project
    OBVIOUS
  <2>1. x \in Project
    BY ItemAssumption DEF Active, RowsInv, Rooted, Item
  <2>2. t \in req[r].scanned \ req[r].left
    BY <1>0, <1>1, <1>2, <2>1 DEF WholeInv, Erasing, At, LocalsOK
  <2> QED BY <1>0, <2>1, <2>2 DEF LocalsOK, Active
<1>6. ASSUME NEW t \in Task, rows'[t].status = "live"
      PROVE  /\ Active(t) /\ rows'[t].parent = rows[t].parent
             /\ rows'[rows'[t].parent].status = "live"
  <2>1. locker[t] # r /\ rows'[t] = rows[t] /\ Active(t)
    BY <1>2, <1>6 DEF Item, Active
  <2>2. PICK p : p = rows[t].parent
    OBVIOUS
  <2>3. p \in Project /\ rows[p].status = "live" /\ p # x
    BY <1>5, <2>1, <2>2, ItemAssumption DEF WholeInv, Active, RowsInv, Rooted, Item
  <2>4. locker[p] # r
    BY <1>4, <2>3, ItemAssumption DEF Item
  <2> QED BY <1>2, <2>1, <2>2, <2>3, <2>4 DEF Item
<1>7. WholeInv'
  <2>1. \A s \in Request : req'[s].pc \in Creating => req'[s].item \in Project
    BY <1>0, <1>2 DEF Others, WholeInv, Creating
  <2>2. \A t \in Task : rows'[t].status # "pending"
    BY <1>2 DEF WholeInv, Item
  <2>3. ASSUME NEW s \in Request, req'[s].pc \in Erasing, req'[s].item \in Project,
               NEW t \in Task, rows'[t].status = "live", rows'[t].parent = req'[s].item
        PROVE  t \in req'[s].scanned
    BY <2>3, <1>0, <1>2, <1>6 DEF Others, WholeInv, Erasing
  <2> QED BY <1>6, <2>1, <2>2, <2>3 DEF WholeInv, Active, Creating, Erasing
<1>8. \A y \in Item : UnderOf(y)' = UnderOf(y)
  BY <1>2, <1>4 DEF UnderOf, Committed
<1>9. CASE ~Active(x)
  <2>1. \A y \in Item : locker[y] = r => rows[y].status = "deleted"
    BY <1>3, <1>4, <1>9 DEF WholeInv, Active, Committed
  <2>2. \A y \in Item : StateOf(y)' = StateOf(y)
    BY <1>2, <2>1 DEF StateOf
  <2> QED BY <1>7, <1>8, <2>2, TreeStutter
<1>10. CASE Active(x)
  <2>1. \A y \in Item : StateOf(y)' =
          IF y = x \/ (StateOf(y) = "there" /\ y \in Task /\ UnderOf(y) = x)
            THEN "gone" ELSE StateOf(y)
    <3> SUFFICES ASSUME NEW y \in Item
                 PROVE  StateOf(y)' =
                          IF y = x \/ (StateOf(y) = "there" /\ y \in Task /\ UnderOf(y) = x)
                            THEN "gone" ELSE StateOf(y)
      OBVIOUS
    <3>1. CASE y = x
      BY <3>1, <1>2, <1>3 DEF StateOf
    <3>2. CASE y # x /\ locker[y] = r
      <4>1. Committed(y) /\ y \in Task /\ rows[y].parent = x /\ rows'[y].status = "deleted"
        BY <3>2, <1>2, <1>4
      <4> QED BY <3>2, <4>1 DEF StateOf, UnderOf, Committed
    <3>3. CASE y # x /\ locker[y] # r
      <4>1. rows'[y] = rows[y]
        BY <3>3, <1>2
      <4>2. ~(StateOf(y) = "there" /\ y \in Task /\ UnderOf(y) = x)
        BY <3>3, <1>5 DEF StateOf, UnderOf, Active, Committed
      <4> QED BY <3>3, <4>1, <4>2 DEF StateOf
    <3> QED BY <3>1, <3>2, <3>3
  <2>2. StateOf(x) = "there"
    BY <1>10 DEF StateOf, Active
  <2>3. Tree!Remove(x)
    BY <1>8, <2>1, <2>2 DEF Tree!Remove, Tree!There, StateOf, UnderOf, Tree!Item, Item
  <2> QED BY <1>7, <2>3 DEF Tree!Next, Tree!Item, Item
<1> QED BY <1>9, <1>10

LEMMA WholeStep ==
  ASSUME "task.create" \notin Ops, TypeOK, RowsInv, WholeInv, [Next]_vars
  PROVE  WholeInv' /\ [Tree!Next]_Tree!vars
<1> DEFINE Done == WholeInv' /\ [Tree!Next]_Tree!vars
<1>0. Idle.pc = "idle"
  BY DEF Idle
<1>1. ASSUME UNCHANGED vars PROVE Done
  <2>1. WholeInv'
    BY <1>1 DEF vars, WholeInv, Active
  <2>2. \A x \in Item : StateOf(x)' = StateOf(x) /\ UnderOf(x)' = UnderOf(x)
    BY <1>1 DEF vars, StateOf, UnderOf, Committed
  <2> QED BY <2>1, <2>2, TreeStutter
<1>2. ASSUME NEW r \in Request, Others(r), rows' = rows, req'[r].pc \notin Creating \cup Erasing
      PROVE  Done
  BY <1>2, WholeStill
<1>3. ASSUME NEW r \in Request, Reply(r), rows' = rows PROVE Done
  BY <1>0, <1>2, <1>3, ReplySelf DEF Creating, Erasing
<1>4. ASSUME NEW r \in Request, Arrive(r) PROVE Done
  <2>1. PICK q : req'[r] = q /\ Comes(q)
    BY <1>4, ArriveSelf
  <2>2. rows' = rows /\ Others(r)
    BY <1>4, ArriveSelf
  <2>3. CASE q.pc = "insert"
    BY <2>1, <2>2, <2>3, WholeStill DEF Comes, Erasing
  <2>4. CASE q.pc \in {"patch.get", "delete.get"}
    BY <1>2, <2>1, <2>2, <2>4 DEF Creating, Erasing
  <2> QED BY <2>1, <2>3, <2>4 DEF Comes
<1>5. ASSUME NEW r \in Request, CreateLookup(r) PROVE Done
  BY <1>5, ItemAssumption DEF CreateLookup, WholeInv, RowsInv, LocalsOK, At, Creating
<1>6. ASSUME NEW r \in Request, Insert(r) PROVE Done
  <2>1. PICK x \in Project : x = req[r].item
    BY <1>6, InsertSelf DEF WholeInv, Creating, At
  <2>2. /\ Others(r) /\ req'[r].pc = "insert.commit" /\ req'[r].item = x /\ x \in Item
        /\ rows'[x].status = "pending" /\ \A y \in Item \ {x} : rows'[y] = rows[y]
        /\ rows[x].status = "unborn"
    BY <1>6, <2>1, InsertSelf DEF RowsInv, LocalsOK, At, Item
  <2>3. WholeInv'
    BY <2>2, ItemAssumption, WholeAlone DEF Erasing, WholeInv, Committed
  <2>4. \A y \in Item : StateOf(y)' = StateOf(y) /\ UnderOf(y)' = UnderOf(y)
    BY <2>2 DEF StateOf, UnderOf, Committed
  <2> QED BY <2>3, <2>4, TreeStutter
<1>7. ASSUME NEW r \in Request, InsertCommit(r) PROVE Done
  BY <1>7, WholeInsertCommit
<1>8. ASSUME NEW r \in Request, PatchGet(r) PROVE Done
  BY <1>2, <1>3, <1>8, PatchGetSelf DEF PatchGet, Creating, Erasing
<1>9. ASSUME NEW r \in Request, PatchCommit(r) PROVE Done
  <2>1. /\ Others(r) /\ req'[r].pc \notin Creating \cup Erasing
        /\ \A x \in Item : rows'[x].parent = rows[x].parent /\ rows'[x].status = rows[x].status
    BY <1>0, <1>9, PatchCommitSelf DEF Creating, Erasing
  <2> QED BY <2>1, WholeStill
<1>10. ASSUME NEW r \in Request, DeleteGet(r), ~Reply(r) PROVE Done
  <2>1. /\ Others(r) /\ rows' = rows /\ req'[r].item = req[r].item
        /\ req'[r].pc = IF req[r].item \in Project THEN "cascade.scan" ELSE "delete.flush"
    BY <1>10, DeleteGetSelf
  <2> QED BY <2>1, WholeStill DEF Creating, Erasing
<1>11. ASSUME NEW r \in Request, CascadeScan(r) PROVE Done
  <2>1. /\ Others(r) /\ rows' = rows /\ req'[r].item = req[r].item
        /\ req'[r].pc \in {"delete.flush", "cascade.rows"}
        /\ req'[r].scanned = {t \in Task : Active(t) /\ rows[t].parent = req[r].item}
    BY <1>11, CascadeScanSelf
  <2> QED BY <2>1, WholeStill DEF Creating
<1>12. ASSUME NEW r \in Request, Others(r), rows' = rows, req[r].pc \in Erasing,
              req'[r].pc \in Erasing, req'[r].item = req[r].item,
              req'[r].scanned = req[r].scanned
       PROVE  Done
  <2>1. req'[r].pc \notin Creating
    BY <1>12 DEF Creating, Erasing
  <2> QED BY <1>12, <2>1, WholeStill DEF WholeInv
<1>13. ASSUME NEW r \in Request, NEW t \in Task, CascadeRow(r, t) PROVE Done
  BY <1>12, <1>13, CascadeRowSelf DEF Erasing, At
<1>14. ASSUME NEW r \in Request, DeleteFlush(r) PROVE Done
  BY <1>12, <1>14, DeleteFlushSelf DEF Erasing, At
<1>15. ASSUME NEW r \in Request, DeleteCommit(r) PROVE Done
  BY <1>15, WholeDeleteCommit
<1>16. ASSUME NEW r \in Request, Rollback(r), UNCHANGED patches PROVE Done
  <2>1. /\ Others(r) /\ req'[r].pc \notin Creating \cup Erasing
        /\ \A x \in Item : rows'[x].parent = rows[x].parent
        /\ \A x \in Item : rows'[x] = rows[x]
                             \/ (rows[x].status = "pending" /\ rows'[x].status = "void")
    BY <1>0, <1>16, RollbackSelf DEF Creating, Erasing
  <2>2. WholeInv'
    BY <2>1, WholeAlone DEF WholeInv, Creating, Erasing, Item
  <2>3. \A x \in Item : StateOf(x)' = StateOf(x) /\ UnderOf(x)' = UnderOf(x)
    BY <2>1 DEF StateOf, UnderOf, Committed
  <2> QED BY <2>2, <2>3, TreeStutter
<1>17. ASSUME NEW r \in Request, DeleteGet(r), Reply(r) PROVE Done
  BY <1>3, <1>17 DEF DeleteGet
<1> HIDE DEF Done
<1>18. ASSUME NEW r \in Request, Step(r) PROVE Done
  BY <1>5, <1>6, <1>7, <1>8, <1>9, <1>10, <1>11, <1>13, <1>14, <1>15, <1>17, <1>18 DEF Step
<1>19. Done
  BY <1>1, <1>4, <1>16, <1>18 DEF Next, Quiet, Fail, DeadlockVictim
<1> QED BY <1>19 DEF Done

\* As long as no task is being created, a project goes together with all its
\* tasks in one step, however the many statements of the cascade and of the other
\* requests interleave, fail or deadlock.  Creating tasks breaks it.
THEOREM DeletedWhole ==
  ASSUME "task.create" \notin Ops
  PROVE  Spec => DeletesWhole
<1>1. ASSUME Init PROVE WholeInv /\ Tree!Init
  <2>1. \A x \in Item : /\ x \in DOMAIN SeedParent => rows[x].status = "live"
                                                        /\ rows[x].parent = SeedParent[x]
                        /\ x \notin DOMAIN SeedParent => rows[x].status = "unborn"
    BY <1>1 DEF Init, Row
  <2>2. WholeInv
    <3>1. \A r \in Request : req[r].pc = "idle"
      BY <1>1 DEF Init, Idle
    <3>2. \A t \in Task : Active(t) => rows[rows[t].parent].status = "live"
      BY <2>1, SeedAssumption, ItemAssumption DEF Active, Item
    <3> QED BY <2>1, <3>1, <3>2 DEF WholeInv, Creating, Erasing, Item
  <2>3. \A x \in Item : /\ StateOf(x) \in {"absent", "there"}
                        /\ UnderOf(x) \in Owner \cup Project \cup {NoOwner}
                        /\ UnderOf(x) = NoOwner <=> StateOf(x) = "absent"
    BY <2>1, SeedAssumption, ItemAssumption DEF StateOf, UnderOf, Committed, Item
  <2>4. Tree!Init
    BY <2>3 DEF Tree!Init, StateOf, UnderOf, Tree!Item, Item
  <2> QED BY <2>2, <2>4
<1>2. TypeOK /\ RowsInv /\ WholeInv /\ [Next]_vars => WholeInv' /\ [Tree!Next]_Tree!vars
  BY WholeStep
<1> QED BY <1>1, <1>2, RowsInvariant, PTL DEF Spec, DeletesWhole, Tree!Spec
=============================================================================
