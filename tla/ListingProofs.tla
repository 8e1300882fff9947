----------------------------- MODULE ListingProofs -----------------------------
(***************************************************************************)
(* What TLAPS proves of Listing, for any items, page size and clock.       *)
(***************************************************************************)
EXTENDS Listing, FiniteSetTheorems, TLAPS

-----------------------------------------------------------------------------
(* Pages.                                                                    *)

\* How many come before x in the list decides which page x is on.
Above(x) == {y \in Listed : created[y] > created[x]}
Before(x) == Cardinality(Above(x))

LEMMA Division ==
  ASSUME NEW a \in Nat, NEW b \in Nat \ {0}, NEW q \in Nat, q * b <= a, a < (q + 1) * b
  PROVE  a \div b = q
  OBVIOUS

LEMMA Offsets ==
  ASSUME NEW page \in Nat \ {0}
  PROVE  /\ Offset(page) \in Nat /\ Offset(page) + Limit = Offset(page + 1)
         /\ Offset(1) = 0 /\ Limit \in Nat \ {0}
<1>1. Limit \in Nat \ {0}
  BY SizeAssumption DEF Limit
<1>2. Offset(page) \in Nat
  BY SizeAssumption DEF Offset
<1>3. (page - 1) * PageSize + PageSize = page * PageSize
  BY SizeAssumption
<1> QED BY <1>1, <1>2, <1>3, SizeAssumption DEF Offset, Limit

LEMMA Counts ==
  ASSUME NEW x
  PROVE  /\ IsFiniteSet(Listed) /\ Cardinality(Listed) \in Nat
         /\ IsFiniteSet(Above(x)) /\ Before(x) \in Nat
<1>1. Listed \in SUBSET Item
  BY DEF Listed
<1>2. IsFiniteSet(Listed)
  BY <1>1, ItemAssumption, FS_Subset
<1>3. Above(x) \in SUBSET Listed
  BY DEF Above
<1>4. IsFiniteSet(Above(x))
  BY <1>2, <1>3, FS_Subset
<1> QED BY <1>2, <1>4, FS_CardinalityType DEF Before

LEMMA FrontSize ==
  ASSUME NEW n \in Nat, NEW S \in Fronts(n)
  PROVE  /\ S \subseteq Listed /\ IsFiniteSet(S) /\ Cardinality(S) \in Nat
         /\ Cardinality(S) <= n /\ Cardinality(S) <= Cardinality(Listed)
         /\ Cardinality(S) = n \/ S = Listed
         /\ Cardinality(S) = n \/ Cardinality(Listed) < n
<1>1. S \in SUBSET Listed /\ Cardinality(S) = Least(n, Cardinality(Listed))
  BY DEF Fronts
<1>2. IsFiniteSet(Listed) /\ Cardinality(Listed) \in Nat
  BY Counts
<1>3. /\ IsFiniteSet(S) /\ Cardinality(S) <= Cardinality(Listed)
      /\ Cardinality(Listed) = Cardinality(S) => Listed = S
  BY <1>1, <1>2, FS_Subset
<1>4. Cardinality(S) \in Nat
  BY <1>3, FS_CardinalityType
<1> QED BY <1>1, <1>2, <1>3, <1>4 DEF Least

\* A row whose created_at is its own has its place among the first n by the
\* number of those before it, however ties come.
LEMMA Placed ==
  ASSUME NEW x \in Listed, Untied(x), NEW n \in Nat, NEW S \in Fronts(n),
         created \in [Item -> Nat]
  PROVE  x \in S <=> Before(x) < n
<1>1. /\ S \in SUBSET Listed /\ IsFiniteSet(S) /\ Cardinality(S) \in Nat
      /\ Cardinality(S) <= n /\ (Cardinality(S) = n \/ S = Listed)
  BY FrontSize
<1>2. IsFront(S, Listed) /\ x \in Item
  BY DEF Fronts, Listed
<1>3. Before(x) \in Nat /\ IsFiniteSet(Above(x))
  BY Counts
<1>4. ASSUME x \in S PROVE Before(x) < n
  <2>1. Above(x) \in SUBSET (S \ {x})
    <3>1. ASSUME NEW y \in Listed, created[y] > created[x], y \notin S PROVE FALSE
      <4>1. created[x] >= created[y]
        BY <1>2, <1>4, <3>1 DEF IsFront
      <4>2. created[x] \in Nat /\ created[y] \in Nat
        BY <1>2 DEF Listed
      <4> QED BY <3>1, <4>1, <4>2
    <3>2. ~(created[x] > created[x])
      BY <1>2
    <3> QED BY <3>1, <3>2 DEF Above
  <2>2. IsFiniteSet(S \ {x}) /\ Cardinality(S \ {x}) = Cardinality(S) - 1
    BY <1>1, <1>4, FS_RemoveElement
  <2>3. Cardinality(Above(x)) <= Cardinality(S \ {x})
    BY <2>1, <2>2, FS_Subset
  <2> QED BY <1>1, <1>3, <2>2, <2>3 DEF Before
<1>5. ASSUME x \notin S PROVE Before(x) >= n
  <2>1. Cardinality(S) = n
    BY <1>1, <1>5
  <2>2. S \in SUBSET Above(x)
    <3>1. ASSUME NEW y \in S PROVE created[y] > created[x]
      <4>1. created[y] >= created[x] /\ y \in Item /\ y # x /\ status[y] # "unborn"
        BY <1>1, <1>2, <1>5 DEF IsFront, Listed
      <4>2. created[y] # created[x]
        BY <4>1 DEF Untied
      <4>3. created[x] \in Nat /\ created[y] \in Nat
        BY <1>2, <4>1
      <4> QED BY <4>1, <4>2, <4>3
    <3> QED BY <1>1, <3>1 DEF Above
  <2>3. Cardinality(S) <= Cardinality(Above(x))
    BY <1>3, <2>2, FS_Subset
  <2> QED BY <2>1, <2>3 DEF Before
<1> QED BY <1>3, <1>4, <1>5

\* A page has as many rows as the list has beyond its offset, up to its size.
LEMMA PageOf ==
  ASSUME NEW page \in Nat \ {0}, NEW items \in Slices(Offset(page), Limit),
         created \in [Item -> Nat]
  PROVE  /\ items \subseteq Listed /\ IsFiniteSet(items) /\ Cardinality(items) \in Nat
         /\ Cardinality(items) <= PageSize
         /\ Cardinality(items) = PageSize => Offset(page + 1) <= Cardinality(Listed)
         /\ Cardinality(items) < PageSize => Cardinality(Listed) < Offset(page + 1)
         /\ Cardinality(items) < PageSize /\ Offset(page) <= Cardinality(Listed) =>
              Cardinality(Listed) = Offset(page) + Cardinality(items)
         /\ \A x \in Listed : Untied(x) =>
              (x \in items <=> Offset(page) <= Before(x) /\ Before(x) < Offset(page + 1))
         /\ \A x \in Listed : Untied(x) /\ x \notin items /\ Offset(page) <= Before(x) =>
              Cardinality(items) = PageSize
<1>0. /\ Offset(page) \in Nat /\ Offset(page) + Limit = Offset(page + 1)
      /\ Offset(page + 1) \in Nat /\ PageSize \in Nat \ {0} /\ Limit = PageSize
  BY Offsets, SizeAssumption DEF Limit
<1>1. PICK short \in Fronts(Offset(page)), long \in Fronts(Offset(page) + Limit) :
        short \subseteq long /\ items = long \ short
  BY DEF Slices
<1>2. PICK o \in Nat, e \in Nat : o = Offset(page) /\ e = Offset(page + 1) /\ e = o + PageSize
  BY <1>0
<1>3. /\ short \subseteq Listed /\ IsFiniteSet(short) /\ Cardinality(short) \in Nat
      /\ Cardinality(short) <= o /\ Cardinality(short) <= Cardinality(Listed)
      /\ Cardinality(short) = o \/ short = Listed
      /\ Cardinality(short) = o \/ Cardinality(Listed) < o
  BY <1>2, FrontSize
<1>4. /\ long \subseteq Listed /\ IsFiniteSet(long) /\ Cardinality(long) \in Nat
      /\ Cardinality(long) <= e /\ Cardinality(long) <= Cardinality(Listed)
      /\ Cardinality(long) = e \/ long = Listed
      /\ Cardinality(long) = e \/ Cardinality(Listed) < e
  BY <1>0, <1>2, FrontSize
<1>5. IsFiniteSet(items) /\ Cardinality(items) = Cardinality(long) - Cardinality(short)
  <2>1. long \cap short = short
    BY <1>1
  <2> QED BY <1>1, <1>4, <2>1, FS_Difference
<1>6. Cardinality(Listed) \in Nat
  BY Counts
<1>7. /\ Cardinality(items) \in Nat
      /\ Cardinality(items) <= PageSize
      /\ Cardinality(items) = PageSize => e <= Cardinality(Listed)
      /\ Cardinality(items) < PageSize => Cardinality(Listed) < e
      /\ Cardinality(items) < PageSize /\ o <= Cardinality(Listed) =>
           Cardinality(Listed) = o + Cardinality(items)
  <2>1. Cardinality(items) \in Nat
    BY <1>5, FS_CardinalityType
  <2>2. long = Listed => Cardinality(long) = Cardinality(Listed)
    OBVIOUS
  <2>3. short = Listed => Cardinality(short) = Cardinality(Listed)
    OBVIOUS
  <2>4. PICK cs \in Nat, cl \in Nat, ci \in Nat, n \in Nat :
          /\ cs = Cardinality(short) /\ cl = Cardinality(long) /\ ci = Cardinality(items)
          /\ n = Cardinality(Listed)
    BY <1>3, <1>4, <1>6, <2>1
  <2>5. /\ cs <= o /\ cs <= n /\ (cs = o \/ cs = n) /\ (cs = o \/ n < o)
        /\ cl <= e /\ cl <= n /\ (cl = e \/ cl = n) /\ (cl = e \/ n < e)
        /\ ci = cl - cs /\ e = o + PageSize
    BY <1>2, <1>3, <1>4, <1>5, <2>2, <2>3, <2>4
  <2>6. /\ ci <= PageSize /\ (ci = PageSize => e <= n) /\ (ci < PageSize => n < e)
        /\ ci < PageSize /\ o <= n => n = o + ci
    BY <1>0, <2>5
  <2> QED BY <2>1, <2>4, <2>6
<1>8. ASSUME NEW x \in Listed, Untied(x)
      PROVE  /\ x \in items <=> o <= Before(x) /\ Before(x) < e
             /\ x \notin items /\ o <= Before(x) => Cardinality(items) = PageSize
  <2>1. (x \in short <=> Before(x) < o) /\ (x \in long <=> Before(x) < e)
    BY <1>0, <1>2, <1>8, Placed
  <2>2. Before(x) \in Nat /\ Before(x) < Cardinality(Listed)
    <3>1. Above(x) \in SUBSET (Listed \ {x})
      <4>1. created[x] \in Nat
        BY DEF Listed
      <4> QED BY <4>1 DEF Above
    <3>2. IsFiniteSet(Listed \ {x}) /\ Cardinality(Listed \ {x}) = Cardinality(Listed) - 1
      BY Counts, FS_RemoveElement
    <3>3. Cardinality(Above(x)) <= Cardinality(Listed \ {x})
      BY <3>1, <3>2, FS_Subset
    <3> QED BY <1>6, <3>2, <3>3, Counts DEF Before
  <2>3. x \in items <=> o <= Before(x) /\ Before(x) < e
    BY <1>1, <2>1, <2>2
  <2>4. x \notin items /\ o <= Before(x) => Cardinality(items) = PageSize
    BY <1>0, <1>2, <1>6, <1>7, <2>2, <2>3
  <2> QED BY <2>3, <2>4
<1>9. items \subseteq Listed
  BY <1>1, <1>4
<1> QED BY <1>2, <1>5, <1>7, <1>8, <1>9

LEMMA Pages ==
  ASSUME NEW page \in Nat \ {0}, NEW n \in Nat, n < PageSize
  PROVE  TotalPages(Offset(page) + n) = IF n = 0 THEN page - 1 ELSE page
<1>1. PageSize \in Nat \ {0}
  BY SizeAssumption
<1>2. PICK o \in Nat : o = (page - 1) * PageSize /\ o + PageSize = page * PageSize
                       /\ o + PageSize + PageSize = (page + 1) * PageSize
  <2>1. (page - 1) * PageSize \in Nat
    BY <1>1
  <2>2. (page - 1) * PageSize + PageSize = page * PageSize
        /\ page * PageSize + PageSize = (page + 1) * PageSize
    BY <1>1
  <2> QED BY <2>1, <2>2
<1>3. PICK a \in Nat : a = o + n + PageSize - 1
  BY <1>1
<1>4. TotalPages(Offset(page) + n) = a \div PageSize
  BY <1>2, <1>3 DEF TotalPages, Offset
<1>5. CASE n = 0
  <2>1. PICK q \in Nat : q = page - 1 /\ q + 1 = page
    OBVIOUS
  <2>2. q * PageSize <= a /\ a < (q + 1) * PageSize
    BY <1>1, <1>2, <1>3, <1>5, <2>1
  <2>3. a \div PageSize = q
    BY <1>1, <2>2, Division
  <2> QED BY <1>4, <1>5, <2>1, <2>3
<1>6. CASE n # 0
  <2>1. page * PageSize <= a /\ a < (page + 1) * PageSize
    BY <1>1, <1>2, <1>3, <1>6
  <2>2. a \div PageSize = page
    BY <1>1, <2>1, Division
  <2> QED BY <1>4, <1>6, <2>2
<1> QED BY <1>5, <1>6

-----------------------------------------------------------------------------
(* The inductive invariant.                                                  *)

Turning == walk.pc \in {"count", "items"}

\* Only rows that exist have a history.
Known ==
  /\ \A x \in steady \cup entered \cup left : status[x] # "unborn"
  /\ \A x \in Item : walk.shown[x] # 0 => status[x] # "unborn"

\* An item that has not been shown is still ahead, unless one from before it
\* has left the list ...
Ahead(x) ==
  x \in steady /\ Untied(x) /\ walk.shown[x] = 0 /\ ~Newer(left, x) =>
    walk.pc # "done" /\ (Turning => Offset(walk.page) <= Before(x))

\* ... and one that has been shown is behind, unless one has come in before it.
Behind(x) ==
  Untied(x) /\ ~Newer(entered, x) =>
    /\ walk.shown[x] <= 1
    /\ Turning /\ walk.shown[x] # 0 => Before(x) < Offset(walk.page)

\* Pages that were turned were full; in a list that does not change, the walk
\* is never past its end.
Turned ==
  /\ Turning => walk.full = walk.page - 1
  /\ entered = {} /\ left = {} =>
       /\ Turning => Offset(walk.page) <= Cardinality(Listed)
       /\ walk.pc \in {"items", "done"} => walk.total = Cardinality(Listed)
       /\ walk.pc = "done" => walk.full = TotalPages(walk.total)

WalkInv ==
  /\ Known
  /\ walk.pc = "idle" => walk = Resting
  /\ walk.pc # "idle" => steady \subseteq Listed
  /\ \A x \in Item : Ahead(x) /\ Behind(x)
  /\ Turned

-----------------------------------------------------------------------------
(* The steps of the client.                                                  *)

Walk == [pc : {"idle", "count", "items", "done"}, page : Nat \ {0}, total : Nat,
         full : Nat, shown : [Item -> 0..2]]

LEMMA RestingOK ==
  /\ Resting \in Walk /\ Resting.pc = "idle" /\ Resting.page = 1 /\ Resting.full = 0
  /\ Resting.total = 0 /\ \A x \in Item : Resting.shown[x] = 0
<1>1. [x \in Item |-> 0] \in [Item -> 0..2] /\ 1 \in Nat \ {0} /\ 0 \in Nat
  OBVIOUS
<1>2. Resting.shown = [x \in Item |-> 0] /\ Resting.pc = "idle" /\ Resting.page = 1
      /\ Resting.full = 0 /\ Resting.total = 0
  BY DEF Resting, FirstPage
<1>3. Resting \in Walk
  BY <1>1 DEF Resting, Walk, FirstPage
<1> QED BY <1>2, <1>3

LEMMA StartMoves ==
  ASSUME TypeOK, WalkInv, Start
  PROVE  TypeOK' /\ WalkInv'
<1>1. /\ walk.pc = "idle" /\ walk' = [walk EXCEPT !.pc = "count"]
      /\ entered' = {} /\ left' = {} /\ steady' = Listed /\ UNCHANGED <<status, created, clock>>
  BY DEF Start, rows
<1>2. PICK w \in Walk :
        /\ w = walk /\ w.page = 1 /\ w.full = 0 /\ w.total = 0
        /\ \A x \in Item : w.shown[x] = 0
  BY <1>1, RestingOK DEF WalkInv
<1> DEFINE v == [w EXCEPT !.pc = "count"]
<1>3. v \in Walk /\ v.pc = "count" /\ v.page = 1 /\ v.full = 0
  BY <1>2 DEF Walk
<1>4. \A x \in Item : v.shown[x] = 0
  BY <1>2 DEF Walk
<1>5. walk' = v
  BY <1>1, <1>2
<1> HIDE DEF v
<1>6. Listed' = Listed /\ Listed \subseteq Item
  BY <1>1 DEF Listed
<1>7. TypeOK'
  BY <1>1, <1>3, <1>5, <1>6 DEF TypeOK, Walk
<1>8. Offset(walk'.page) = 0
  BY <1>3, <1>5, Offsets
<1>9. Known'
  BY <1>1, <1>4, <1>5 DEF Known, Listed
<1>10. ASSUME NEW x \in Item PROVE Ahead(x)' /\ Behind(x)'
  <2>1. Before(x)' = Before(x) /\ Before(x) \in Nat
    BY <1>1, <1>6, Counts DEF Before, Above
  <2> QED BY <1>3, <1>4, <1>5, <1>8, <2>1 DEF Ahead, Behind
<1>11. Turned'
  BY <1>3, <1>5, <1>6, <1>8, Counts DEF Turned, Turning
<1> QED BY <1>1, <1>3, <1>5, <1>6, <1>7, <1>9, <1>10, <1>11 DEF WalkInv

LEMMA CloseMoves ==
  ASSUME TypeOK, WalkInv, Close
  PROVE  TypeOK' /\ WalkInv'
<1>1. /\ walk' = Resting /\ entered' = {} /\ left' = {} /\ steady' = {}
      /\ UNCHANGED <<status, created, clock>>
  BY DEF Close, rows
<1>2. TypeOK'
  BY <1>1, RestingOK DEF TypeOK, Walk
<1>3. Known'
  BY <1>1, RestingOK DEF Known
<1>4. \A x \in Item : Ahead(x)' /\ Behind(x)'
  BY <1>1, RestingOK DEF Ahead, Behind, Turning
<1>5. Turned'
  BY <1>1, RestingOK DEF Turned, Turning
<1> QED BY <1>1, <1>2, <1>3, <1>4, <1>5, RestingOK DEF WalkInv

LEMMA ListTotalMoves ==
  ASSUME TypeOK, WalkInv, ListTotal
  PROVE  TypeOK' /\ WalkInv'
<1>1. /\ walk.pc = "count" /\ walk' = [walk EXCEPT !.total = Cardinality(Listed), !.pc = "items"]
      /\ UNCHANGED <<status, created, clock, entered, left, steady>>
  BY DEF ListTotal, rows, moved
<1>2. PICK w \in Walk, n \in Nat : w = walk /\ n = Cardinality(Listed)
  BY Counts DEF TypeOK, Walk
<1> DEFINE v == [w EXCEPT !.total = n, !.pc = "items"]
<1>3. v \in Walk /\ v.pc = "items" /\ v.total = n
  BY DEF Walk
<1>4. v.page = w.page /\ v.full = w.full /\ v.shown = w.shown
  BY DEF Walk
<1>5. walk' = v
  BY <1>1, <1>2
<1> HIDE DEF v
<1>6. Listed' = Listed
  BY <1>1 DEF Listed
<1>7. TypeOK'
  BY <1>1, <1>3, <1>5 DEF TypeOK, Walk
<1>8. Known'
  BY <1>1, <1>2, <1>4, <1>5 DEF Known, WalkInv
<1>9. ASSUME NEW x \in Item PROVE Ahead(x)' /\ Behind(x)'
  <2>1. Before(x)' = Before(x) /\ (Untied(x)' <=> Untied(x))
        /\ (Newer(left, x)' <=> Newer(left, x)) /\ (Newer(entered, x)' <=> Newer(entered, x))
    BY <1>1, <1>6 DEF Before, Above, Untied, Newer
  <2>2. walk'.page = walk.page /\ walk'.shown = walk.shown /\ walk'.pc = "items"
    BY <1>2, <1>3, <1>4, <1>5
  <2>3. Ahead(x) /\ Behind(x)
    BY DEF WalkInv
  <2> QED BY <1>1, <2>1, <2>2, <2>3 DEF Ahead, Behind, Turning
<1>10. Turned'
  BY <1>1, <1>2, <1>3, <1>4, <1>5, <1>6 DEF Turned, Turning, WalkInv
<1> QED BY <1>1, <1>3, <1>5, <1>6, <1>7, <1>8, <1>9, <1>10 DEF WalkInv

LEMMA ListItemsMoves ==
  ASSUME TypeOK, WalkInv, ListItems
  PROVE  TypeOK' /\ WalkInv'
<1>1. walk.pc = "items" /\ UNCHANGED <<status, created, clock, entered, left, steady>>
  BY DEF ListItems, rows, moved
<1>2. PICK w \in Walk : w = walk /\ w.pc = "items" /\ w.page \in Nat \ {0}
  BY <1>1 DEF TypeOK, Walk
<1>3. PICK items \in Slices(Offset(walk.page), Limit) :
        walk' = [walk EXCEPT
          !.shown = [x \in Item |-> IF x \in items THEN Least(@[x] + 1, 2) ELSE @[x]],
          !.full = IF items = {} THEN @ ELSE @ + 1,
          !.page = IF Cardinality(items) < PageSize THEN @ ELSE @ + 1,
          !.pc = IF Cardinality(items) < PageSize THEN "done" ELSE "count"]
  BY DEF ListItems
<1>4. PICK page \in Nat \ {0} : page = w.page
  BY <1>2
<1>5. /\ items \subseteq Listed /\ IsFiniteSet(items) /\ Cardinality(items) \in Nat
      /\ Cardinality(items) <= PageSize
      /\ Cardinality(items) = PageSize => Offset(page + 1) <= Cardinality(Listed)
      /\ Cardinality(items) < PageSize /\ Offset(page) <= Cardinality(Listed) =>
           Cardinality(Listed) = Offset(page) + Cardinality(items)
      /\ \A x \in Listed : Untied(x) =>
           (x \in items <=> Offset(page) <= Before(x) /\ Before(x) < Offset(page + 1))
      /\ \A x \in Listed : Untied(x) /\ x \notin items /\ Offset(page) <= Before(x) =>
           Cardinality(items) = PageSize
  BY <1>2, <1>4, PageOf DEF TypeOK
<1>6. PICK shown \in [Item -> 0..2] :
        \A x \in Item : shown[x] = IF x \in items THEN Least(w.shown[x] + 1, 2) ELSE w.shown[x]
  <2> DEFINE shown == [x \in Item |-> IF x \in items THEN Least(w.shown[x] + 1, 2)
                                      ELSE w.shown[x]]
  <2>1. \A x \in Item : w.shown[x] \in 0..2
    BY DEF Walk
  <2>2. \A x \in Item : shown[x] \in 0..2
    BY <2>1 DEF Least
  <2>3. shown \in [Item -> 0..2]
    BY <2>2
  <2> QED BY <2>3
<1>7. shown = [x \in Item |-> IF x \in items THEN Least(w.shown[x] + 1, 2) ELSE w.shown[x]]
  BY <1>6
<1>8. PICK full \in Nat : full = IF items = {} THEN w.full ELSE w.full + 1
  BY DEF Walk
<1>9. PICK next \in Nat \ {0} : next = IF Cardinality(items) < PageSize THEN page ELSE page + 1
  OBVIOUS
<1>10. PICK pc \in {"done", "count"} :
         pc = IF Cardinality(items) < PageSize THEN "done" ELSE "count"
  OBVIOUS
<1> DEFINE v == [w EXCEPT !.shown = shown, !.full = full, !.page = next, !.pc = pc]
<1>11. v \in Walk
  BY DEF Walk
<1>12. v.shown = shown /\ v.full = full /\ v.page = next /\ v.pc = pc /\ v.total = w.total
  BY DEF Walk
<1>13. walk' = v
  BY <1>2, <1>3, <1>4, <1>7, <1>8, <1>9, <1>10
<1> HIDE DEF v
<1>14. Listed' = Listed /\ Listed \subseteq Item
  BY <1>1 DEF Listed
<1>15. TypeOK'
  BY <1>1, <1>11, <1>13 DEF TypeOK, Walk
<1>16. /\ Offset(page) \in Nat /\ Offset(page + 1) \in Nat /\ Offset(page) <= Offset(page + 1)
       /\ PageSize \in Nat \ {0} /\ Cardinality(Listed) \in Nat
  <2>1. /\ Offset(page) \in Nat /\ Offset(page) + Limit = Offset(page + 1)
        /\ Limit = PageSize /\ PageSize \in Nat \ {0}
    BY Offsets, SizeAssumption DEF Limit
  <2>2. Cardinality(Listed) \in Nat
    BY Counts
  <2> QED BY <2>1, <2>2
<1>17. Known'
  BY <1>1, <1>2, <1>5, <1>6, <1>12, <1>13 DEF Known, WalkInv, Listed
<1>18. ASSUME NEW x \in Item PROVE Ahead(x)' /\ Behind(x)'
  <2>1. /\ Before(x)' = Before(x) /\ Before(x) \in Nat /\ (Untied(x)' <=> Untied(x))
        /\ (Newer(left, x)' <=> Newer(left, x)) /\ (Newer(entered, x)' <=> Newer(entered, x))
    BY <1>1, <1>14, Counts DEF Before, Above, Untied, Newer
  <2>2. walk'.shown[x] = shown[x] /\ walk'.page = next /\ walk'.pc = pc
    BY <1>12, <1>13
  <2>3. w.shown[x] \in 0..2
    BY DEF Walk
  <2>4. Ahead(x)'
    <3> SUFFICES ASSUME x \in steady, Untied(x), shown[x] = 0, ~Newer(left, x)
                 PROVE  pc # "done" /\ Offset(next) <= Before(x)
      BY <1>1, <2>1, <2>2 DEF Ahead, Turning
    <3>1. x \in Listed
      BY <1>1 DEF WalkInv
    <3>2. x \notin items /\ w.shown[x] = 0
      BY <1>6, <2>3 DEF Least
    <3>3. Offset(page) <= Before(x)
      BY <1>1, <1>2, <1>4, <3>2 DEF WalkInv, Ahead, Turning
    <3>4. Cardinality(items) = PageSize
      BY <1>5, <3>1, <3>2, <3>3
    <3>5. Offset(page + 1) <= Before(x)
      BY <1>5, <1>16, <2>1, <3>1, <3>2, <3>3
    <3> QED BY <1>9, <1>10, <1>16, <3>4, <3>5
  <2>5. Behind(x)'
    <3> SUFFICES ASSUME Untied(x), ~Newer(entered, x)
                 PROVE  /\ shown[x] <= 1
                        /\ pc = "count" /\ shown[x] # 0 => Before(x) < Offset(next)
      BY <1>1, <2>1, <2>2 DEF Behind, Turning
    <3>1. w.shown[x] <= 1 /\ (w.shown[x] # 0 => Before(x) < Offset(page))
      BY <1>1, <1>2, <1>4 DEF WalkInv, Behind, Turning
    <3>2. pc = "count" => next = page + 1
      BY <1>9, <1>10
    <3>3. CASE x \in items
      <4>1. Offset(page) <= Before(x) /\ Before(x) < Offset(page + 1)
        BY <1>5, <3>3
      <4>2. w.shown[x] = 0
        BY <1>16, <2>1, <3>1, <4>1
      <4>3. shown[x] = 1
        BY <1>6, <3>3, <4>2 DEF Least
      <4> QED BY <3>2, <4>1, <4>3
    <3>4. CASE x \notin items
      <4>1. shown[x] = w.shown[x]
        BY <1>6, <3>4
      <4> QED BY <1>16, <2>1, <3>1, <3>2, <4>1
    <3> QED BY <3>3, <3>4
  <2> QED BY <2>4, <2>5
<1>19. Turned'
  <2>1. /\ w.full = page - 1
        /\ entered = {} /\ left = {} =>
             Offset(page) <= Cardinality(Listed) /\ w.total = Cardinality(Listed)
    BY <1>1, <1>2, <1>4 DEF WalkInv, Turned, Turning
  <2>2. Cardinality({}) = 0 /\ (Cardinality(items) = 0 => items = {})
    BY <1>5, FS_EmptySet
  <2>3. CASE Cardinality(items) < PageSize
    <3>1. pc = "done" /\ next = page
      BY <1>9, <1>10, <2>3
    <3>2. ASSUME entered = {}, left = {} PROVE full = TotalPages(w.total)
      <4>1. w.total = Offset(page) + Cardinality(items)
        BY <1>5, <2>1, <2>3, <3>2
      <4>2. TotalPages(w.total) = IF Cardinality(items) = 0 THEN page - 1 ELSE page
        BY <1>5, <2>3, <4>1, Pages
      <4>3. full = IF Cardinality(items) = 0 THEN page - 1 ELSE page
        <5>1. full = IF Cardinality(items) = 0 THEN w.full ELSE w.full + 1
          BY <1>8, <2>2
        <5> QED BY <2>1, <5>1
      <4> QED BY <4>2, <4>3
    <3> QED BY <1>1, <1>12, <1>13, <1>14, <2>1, <3>1, <3>2 DEF Turned, Turning
  <2>4. CASE Cardinality(items) = PageSize
    <3>1. pc = "count" /\ next = page + 1
      BY <1>9, <1>10, <1>16, <2>4
    <3>2. full = next - 1
      BY <1>8, <1>16, <2>1, <2>2, <2>4, <3>1
    <3> QED BY <1>1, <1>5, <1>12, <1>13, <1>14, <2>4, <3>1, <3>2 DEF Turned, Turning
  <2> QED BY <1>5, <1>16, <2>3, <2>4
<1> QED BY <1>1, <1>10, <1>12, <1>13, <1>14, <1>15, <1>17, <1>18, <1>19 DEF WalkInv

-----------------------------------------------------------------------------
(* The steps of the others.                                                  *)

LEMMA Fewer ==
  ASSUME NEW S \in SUBSET Item, NEW T \in SUBSET S
  PROVE  Cardinality(T) <= Cardinality(S) /\ Cardinality(S) \in Nat /\ Cardinality(T) \in Nat
<1>1. IsFiniteSet(S)
  BY ItemAssumption, FS_Subset
<1>2. IsFiniteSet(T) /\ Cardinality(T) <= Cardinality(S)
  BY <1>1, FS_Subset
<1> QED BY <1>1, <1>2, FS_CardinalityType

LEMMA TickMoves ==
  ASSUME TypeOK, WalkInv, Tick
  PROVE  TypeOK' /\ WalkInv'
<1>1. clock' = clock + 1 /\ UNCHANGED <<status, created, walk, entered, left, steady>>
  BY DEF Tick, moved
<1>2. TypeOK'
  BY <1>1 DEF TypeOK
<1>3. Listed' = Listed
  BY <1>1 DEF Listed
<1>4. ASSUME NEW x \in Item PROVE Ahead(x)' /\ Behind(x)'
  <2>1. Ahead(x) /\ Behind(x)
    BY DEF WalkInv
  <2> QED BY <1>1, <1>3, <2>1 DEF Ahead, Behind, Turning, Before, Above, Untied, Newer
<1> QED BY <1>1, <1>2, <1>3, <1>4 DEF WalkInv, Known, Turned, Turning

LEMMA CreateMoves ==
  ASSUME TypeOK, WalkInv, NEW x \in Item, Create(x)
  PROVE  TypeOK' /\ WalkInv'
<1>1. /\ status[x] = "unborn" /\ status' = [status EXCEPT ![x] = "pending"]
      /\ created' = [created EXCEPT ![x] = clock]
      /\ UNCHANGED <<clock, walk, entered, left, steady>>
  BY DEF Create, moved
<1>2. TypeOK'
  BY <1>1 DEF TypeOK, Status
<1>3. /\ status'[x] = "pending"
      /\ \A y \in Item \ {x} : status'[y] = status[y] /\ created'[y] = created[y]
  BY <1>1 DEF TypeOK
<1>4. Listed' = Listed /\ x \notin Listed
  BY <1>1, <1>3 DEF Listed
<1>5. x \notin steady \cup entered \cup left /\ walk.shown[x] = 0
  BY <1>1 DEF WalkInv, Known
<1>6. Known'
  BY <1>1, <1>3, <1>5 DEF Known, WalkInv, TypeOK
<1>7. ASSUME NEW y \in Item PROVE Ahead(y)' /\ Behind(y)'
  <2>1. CASE y = x
    BY <1>1, <1>5, <2>1 DEF Ahead, Behind
  <2>2. CASE y # x
    <3>1. Untied(y)' => Untied(y)
      BY <1>1, <1>3, <2>2 DEF Untied
    <3>2. (Newer(left, y)' <=> Newer(left, y)) /\ (Newer(entered, y)' <=> Newer(entered, y))
      BY <1>1, <1>3, <1>5, <2>2 DEF Newer, TypeOK
    <3>3. Above(y)' = Above(y)
      BY <1>3, <1>4, <2>2 DEF Above, Listed
    <3>4. Ahead(y) /\ Behind(y)
      BY DEF WalkInv
    <3> QED BY <1>1, <3>1, <3>2, <3>3, <3>4 DEF Ahead, Behind, Turning, Before
  <2> QED BY <2>1, <2>2
<1> QED BY <1>1, <1>2, <1>4, <1>6, <1>7 DEF WalkInv, Turned, Turning

\* A row that enters or leaves the list.
LEMMA MoveMoves ==
  ASSUME TypeOK, WalkInv, NEW x \in Item,
         NEW from \in SUBSET {"pending", "listed", "hidden"},
         NEW to \in {"listed", "hidden", "gone"}, Move(x, from, to)
  PROVE  TypeOK' /\ WalkInv'
<1>1. /\ status[x] \in {"pending", "listed", "hidden"} /\ status' = [status EXCEPT ![x] = to]
      /\ UNCHANGED <<created, clock, walk>>
      /\ IF walk.pc = "idle" THEN UNCHANGED <<entered, left, steady>>
         ELSE /\ entered' = IF to = "listed" THEN entered \cup {x} ELSE entered
              /\ left' = IF status[x] = "listed" THEN left \cup {x} ELSE left
              /\ steady' = steady \ {x}
  BY DEF Move, moved
<1>2. TypeOK'
  BY <1>1 DEF TypeOK, Status
<1>3. status'[x] = to /\ \A y \in Item \ {x} : status'[y] = status[y]
  BY <1>1 DEF TypeOK
<1>4. \A y \in Item : status'[y] # "unborn" <=> status[y] # "unborn"
  BY <1>1, <1>3
<1>5. Known'
  BY <1>1, <1>4 DEF Known, WalkInv, TypeOK
<1>6. \A y : Untied(y)' <=> Untied(y)
  BY <1>1, <1>4 DEF Untied
<1>7. /\ Listed \subseteq Item /\ Listed' \subseteq Item
      /\ \A y \in Item \ {x} : y \in Listed' <=> y \in Listed
      /\ x \in Listed' <=> to = "listed"
      /\ x \in Listed <=> status[x] = "listed"
  BY <1>3 DEF Listed
<1>8. ASSUME NEW y \in Item PROVE Ahead(y)' /\ Behind(y)'
  <2>1. CASE walk.pc = "idle"
    BY <1>1, <2>1, RestingOK DEF WalkInv, Ahead, Behind, Turning
  <2>2. CASE walk.pc # "idle"
    <3>1. Ahead(y) /\ Behind(y)
      BY DEF WalkInv
    <3>2. (Newer(left, y) => Newer(left, y)') /\ (Newer(entered, y) => Newer(entered, y)')
      BY <1>1, <2>2 DEF Newer
    <3>3. PICK A \in SUBSET Item, B \in SUBSET Item : A = Above(y) /\ B = Above(y)'
      BY <1>7 DEF Above
    <3>4. Ahead(y)'
      <4>1. CASE Newer(left, y)'
        BY <4>1 DEF Ahead
      <4>2. CASE ~Newer(left, y)'
        <5>1. A \in SUBSET B
          BY <1>1, <1>7, <2>2, <3>3, <4>2 DEF Above, Newer
        <5>2. Before(y) <= Before(y)' /\ Before(y) \in Nat /\ Before(y)' \in Nat
          BY <3>3, <5>1, Fewer DEF Before
        <5>3. Turning => Offset(walk.page) \in Nat
          BY Offsets DEF TypeOK
        <5> QED BY <1>1, <1>6, <2>2, <3>1, <3>2, <4>2, <5>2, <5>3 DEF Ahead, Turning
      <4> QED BY <4>1, <4>2
    <3>5. Behind(y)'
      <4>1. CASE Newer(entered, y)'
        BY <4>1 DEF Behind
      <4>2. CASE ~Newer(entered, y)'
        <5>1. B \in SUBSET A
          BY <1>1, <1>7, <2>2, <3>3, <4>2 DEF Above, Newer
        <5>2. Before(y)' <= Before(y) /\ Before(y) \in Nat /\ Before(y)' \in Nat
          BY <3>3, <5>1, Fewer DEF Before
        <5>3. Turning => Offset(walk.page) \in Nat
          BY Offsets DEF TypeOK
        <5> QED BY <1>1, <1>6, <3>1, <3>2, <4>2, <5>2, <5>3 DEF Behind, Turning
      <4> QED BY <4>1, <4>2
    <3> QED BY <3>4, <3>5
  <2> QED BY <2>1, <2>2
<1>9. Turned'
  <2>1. CASE walk.pc = "idle"
    BY <1>1, <2>1 DEF Turned, Turning
  <2>2. CASE walk.pc # "idle"
    <3>1. entered' = {} /\ left' = {} => entered = {} /\ left = {} /\ Listed' = Listed
      BY <1>1, <1>7, <2>2
    <3> QED BY <1>1, <3>1 DEF WalkInv, Turned, Turning
  <2> QED BY <2>1, <2>2
<1>10. walk.pc # "idle" => steady' \subseteq Listed'
  BY <1>1, <1>7 DEF WalkInv, TypeOK
<1> QED BY <1>1, <1>2, <1>5, <1>8, <1>9, <1>10 DEF WalkInv

LEMMA NextMoves ==
  ASSUME TypeOK, WalkInv, [Next]_vars
  PROVE  TypeOK' /\ WalkInv'
<1>1. CASE UNCHANGED vars
  <2>1. UNCHANGED <<status, created, clock, walk, entered, left, steady>>
    BY <1>1 DEF vars
  <2>2. Listed' = Listed
    BY <2>1 DEF Listed
  <2>3. ASSUME NEW x \in Item PROVE Ahead(x)' /\ Behind(x)'
    <3>1. Ahead(x) /\ Behind(x)
      BY DEF WalkInv
    <3> QED BY <2>1, <2>2, <3>1 DEF Ahead, Behind, Turning, Before, Above, Untied, Newer
  <2> QED BY <2>1, <2>2, <2>3 DEF TypeOK, WalkInv, Known, Turned, Turning
<1>2. ASSUME NEW x \in Item, Create(x) \/ Enter(x) \/ Leave(x) \/ Remove(x)
      PROVE  TypeOK' /\ WalkInv'
  BY <1>2, CreateMoves, MoveMoves DEF Enter, Leave, Remove
<1> QED BY <1>1, <1>2, StartMoves, ListTotalMoves, ListItemsMoves, CloseMoves, TickMoves
        DEF Next, Writers

LEMMA WalkInvariant == Spec => [](TypeOK /\ WalkInv)
<1>1. Init => TypeOK /\ WalkInv
  <2> SUFFICES ASSUME Init PROVE TypeOK /\ WalkInv
    OBVIOUS
  <2>1. TypeOK
    BY RestingOK DEF Init, TypeOK, Walk, Status
  <2>2. Known
    BY RestingOK DEF Init, Known
  <2>3. \A x \in Item : Ahead(x) /\ Behind(x)
    BY RestingOK DEF Init, Ahead, Behind, Turning
  <2>4. Turned
    BY RestingOK DEF Init, Turned, Turning
  <2> QED BY <2>1, <2>2, <2>3, <2>4, RestingOK DEF Init, WalkInv
<1>2. (TypeOK /\ WalkInv) /\ [Next]_vars => (TypeOK /\ WalkInv)'
  BY NextMoves
<1> QED BY <1>1, <1>2, PTL DEF Spec

-----------------------------------------------------------------------------
(* The theorems.                                                             *)

\* Rows, clock and client hold only what they can hold, and the client asks for
\* no page before the first.
THEOREM ListingTypes == Spec => []TypeOK
BY WalkInvariant, PTL

\* However many items, whatever the page size and whatever commits between two
\* pages: only a row that leaves from before an item's place can hide it from
\* the client (list_for_owner's OFFSET).
THEOREM WalkMissesNone == Spec => []NoneMissed
<1>1. TypeOK /\ WalkInv => NoneMissed
  BY DEF WalkInv, Ahead, NoneMissed, TypeOK
<1> QED BY <1>1, WalkInvariant, PTL

\* Only a row that comes in before its place can show an item twice.
THEOREM WalkShowsOnce == Spec => []NoneTwice
<1>1. TypeOK /\ WalkInv => NoneTwice
  <2> SUFFICES ASSUME TypeOK, WalkInv, NEW x \in Item, Untied(x), walk.shown[x] > 1,
                      ~Newer(entered, x)
               PROVE  FALSE
    BY DEF NoneTwice
  <2>1. walk.shown[x] \in 0..2 /\ walk.shown[x] <= 1
    BY DEF WalkInv, Behind, TypeOK
  <2> QED BY <2>1
<1> QED BY <1>1, WalkInvariant, PTL

\* The total_pages that Page computes is the number of pages there are to read,
\* for every total and every page size: no page too few when the last is full.
THEOREM PagesAreTotal == Spec => []TotalPagesRead
<1>1. TypeOK /\ WalkInv => TotalPagesRead
  BY DEF WalkInv, Turned, TotalPagesRead
<1> QED BY <1>1, WalkInvariant, PTL
=============================================================================
