------------------------------- MODULE ItemTree -------------------------------
(***************************************************************************)
(* What projects and tasks are to those who read them: a tree whose items  *)
(* are added under what is there, and go for good, a project together with *)
(* every task it has, in one step.  Fields, transactions and locks are     *)
(* left to the detailed specification.                                     *)
(***************************************************************************)
CONSTANTS Project, Task, Owner, Nowhere

Item == Project \cup Task

VARIABLES
  state, \* "absent", "there" or "gone"
  under  \* the owner of a project, the project of a task

vars == <<state, under>>

There(x) == state[x] = "there"

Init ==
  /\ state \in [Item -> {"absent", "there"}]
  /\ under \in [Item -> Owner \cup Project \cup {Nowhere}]
  /\ \A x \in Item : under[x] = Nowhere <=> state[x] = "absent"

Add(x, p) ==
  /\ state[x] = "absent"
  /\ IF x \in Project THEN p \in Owner ELSE p \in Project /\ There(p)
  /\ state' = [state EXCEPT ![x] = "there"]
  /\ under' = [under EXCEPT ![x] = p]

Remove(x) ==
  /\ There(x)
  /\ state' = [y \in Item |-> IF y = x \/ (There(y) /\ y \in Task /\ under[y] = x)
                                THEN "gone" ELSE state[y]]
  /\ UNCHANGED under

Next == \E x \in Item : Remove(x) \/ \E p \in Owner \cup Project : Add(x, p)

Spec == Init /\ [][Next]_vars
=============================================================================
