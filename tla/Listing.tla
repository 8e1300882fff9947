------------------------------- MODULE Listing -------------------------------
(***************************************************************************)
(* The list endpoints: a client reads a list page by page, each page being *)
(* a count and a SELECT with OFFSET and LIMIT, while other requests create *)
(* items and make them enter or leave the list.  An item is a project of   *)
(* the owner, or a task of his that the filters may match.                 *)
(*                                                                         *)
(* At READ COMMITTED each statement sees what is committed when it starts. *)
(***************************************************************************)
EXTENDS Naturals, FiniteSets

CONSTANTS
  Item,
  PageSize,  \* the page_size a client asks for
  MaxClock   \* the bound of now()

ASSUME ItemAssumption == IsFiniteSet(Item)
\* Field(ge=1) of PageParams.
ASSUME SizeAssumption == PageSize \in Nat \ {0} /\ MaxClock \in Nat

VARIABLES
  status,   \* of every item's row
  created,  \* its created_at
  clock,    \* now()
  walk,     \* the client: program counter, page, last total and what it has read
  entered,  \* history: items that entered the list since the walk began
  left,     \* history: items that left it since then
  steady    \* history: items that have been in it all the time since then

rows == <<status, created, clock>>
moved == <<entered, left, steady>>
vars == <<status, created, clock, walk, entered, left, steady>>

\* "hidden" rows are committed and not in the list; "gone" ones never will be.
Status == {"unborn", "pending", "listed", "hidden", "gone"}

Least(m, n) == IF m < n THEN m ELSE n

-----------------------------------------------------------------------------
(* PageParams and Page.                                                      *)

FirstPageZero == 0
FirstPage == 1

OffsetByPage(page) == page * PageSize
Offset(page) == (page - 1) * PageSize
Limit == PageSize

TotalPagesFloor(total) == total \div PageSize
TotalPages(total) == (total + PageSize - 1) \div PageSize

-----------------------------------------------------------------------------
(* list_for_owner.                                                           *)

\* Active, the owner's, in an active project, and matched by the filters.
Listed == {x \in Item : status[x] = "listed"}

IsFrontUnordered(S, V) == S \subseteq V
\* ORDER BY created_at DESC: ties come in any order, a different one each time.
IsFront(S, V) == S \subseteq V /\ \A x \in S, y \in V \ S : created[x] >= created[y]

Fronts(n) ==
  {S \in SUBSET Listed : Cardinality(S) = Least(n, Cardinality(Listed)) /\ IsFront(S, Listed)}

Slices(offset, limit) ==
  LET both == {pair \in Fronts(offset) \X Fronts(offset + limit) : pair[1] \subseteq pair[2]}
  IN {pair[2] \ pair[1] : pair \in both}

-----------------------------------------------------------------------------
(* The client.  It turns pages until one comes short of PageSize.            *)

Resting == [pc |-> "idle", page |-> FirstPage, total |-> 0, full |-> 0,
            shown |-> [x \in Item |-> 0]]

Start ==
  /\ walk.pc = "idle"
  /\ walk' = [walk EXCEPT !.pc = "count"]
  /\ entered' = {} /\ left' = {} /\ steady' = Listed
  /\ UNCHANGED rows

ListTotal ==
  /\ walk.pc = "count"
  /\ walk' = [walk EXCEPT !.total = Cardinality(Listed), !.pc = "items"]
  /\ UNCHANGED <<rows, moved>>

\* `shown` counts up to 2; `full` is the number of pages that held anything.
ListItems ==
  /\ walk.pc = "items"
  /\ \E items \in Slices(Offset(walk.page), Limit) :
       walk' = [walk EXCEPT
         !.shown = [x \in Item |-> IF x \in items THEN Least(@[x] + 1, 2) ELSE @[x]],
         !.full = IF items = {} THEN @ ELSE @ + 1,
         !.page = IF Cardinality(items) < PageSize THEN @ ELSE @ + 1,
         !.pc = IF Cardinality(items) < PageSize THEN "done" ELSE "count"]
  /\ UNCHANGED <<rows, moved>>

\* The client has what it wanted, and may begin again.
Close ==
  /\ walk.pc = "done"
  /\ walk' = Resting
  /\ entered' = {} /\ left' = {} /\ steady' = {}
  /\ UNCHANGED rows

-----------------------------------------------------------------------------
(* The other requests.                                                       *)

Tick ==
  /\ clock < MaxClock
  /\ clock' = clock + 1
  /\ UNCHANGED <<status, created, walk, moved>>

\* created_at is now(), the time the transaction began: commits may come in
\* another order.
Create(x) ==
  /\ status[x] = "unborn"
  /\ status' = [status EXCEPT ![x] = "pending"]
  /\ created' = [created EXCEPT ![x] = clock]
  /\ UNCHANGED <<clock, walk, moved>>

Move(x, from, to) ==
  /\ status[x] \in from
  /\ status' = [status EXCEPT ![x] = to]
  /\ IF walk.pc = "idle" THEN UNCHANGED moved
     ELSE /\ entered' = IF to = "listed" THEN entered \cup {x} ELSE entered
          /\ left' = IF status[x] = "listed" THEN left \cup {x} ELSE left
          /\ steady' = steady \ {x}
  /\ UNCHANGED <<created, clock, walk>>

\* The commit of a created item; a PATCH after which the filters match it.
Enter(x) == Move(x, {"pending", "hidden"}, "listed")
\* A PATCH after which the filters do not match it any more.
Leave(x) == Move(x, {"pending", "listed"}, "hidden")
\* A soft delete, of the item or of its project; the rollback of a creation.
Remove(x) == Move(x, {"pending", "listed", "hidden"}, "gone")

-----------------------------------------------------------------------------
Init ==
  /\ status = [x \in Item |-> "unborn"]
  /\ created = [x \in Item |-> 0]
  /\ clock = 1
  /\ walk = Resting
  /\ entered = {} /\ left = {} /\ steady = {}

Writers == Tick \/ \E x \in Item : Create(x) \/ Enter(x) \/ Leave(x) \/ Remove(x)

Next == Start \/ ListTotal \/ ListItems \/ Close \/ Writers

Spec == Init /\ [][Next]_vars

-----------------------------------------------------------------------------
(* What a client may rely on.                                                *)

\* Every variable holds what its column or the client's state can hold; pages
\* are numbered from 1.
TypeOK ==
  /\ status \in [Item -> Status]
  /\ created \in [Item -> Nat]
  /\ clock \in Nat
  /\ walk \in [pc : {"idle", "count", "items", "done"}, page : Nat \ {0}, total : Nat,
               full : Nat, shown : [Item -> 0..2]]
  /\ entered \subseteq Item /\ left \subseteq Item /\ steady \subseteq Item

Untied(x) == \A y \in Item \ {x} : status[y] # "unborn" => created[y] # created[x]
Newer(S, x) == \E y \in S : created[y] > created[x]

\* A walk misses an item that was there all the time only if a newer one left
\* the list meanwhile, which pulls the rest towards pages already read.  Items
\* with equal created_at have no place of their own and are excepted.
NoneMissed ==
  walk.pc = "done" =>
    \A x \in steady : Untied(x) /\ walk.shown[x] = 0 => Newer(left, x)

\* It shows an item twice only if a newer one entered the list meanwhile.
NoneTwice ==
  \A x \in Item : Untied(x) /\ walk.shown[x] > 1 => Newer(entered, x)

\* When nothing changed, the pages that held anything are as many as
\* Page.total_pages says, ties or no ties.
TotalPagesRead ==
  walk.pc = "done" /\ entered = {} /\ left = {} => walk.full = TotalPages(walk.total)
=============================================================================
