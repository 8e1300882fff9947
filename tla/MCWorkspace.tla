------------------------------ MODULE MCWorkspace ------------------------------
(* Workspace for TLC: one owner's project with two tasks, and another owner.   *)
EXTENDS WorkspaceProperties, TLC

CONSTANTS Olga, Home, Seeds

\* Every seeded item that is not the project Home is a task in it.
MCSeedParent == [x \in Seeds |-> IF x = Home THEN Olga ELSE Home]

\* A value or a null for a required column, a null for an optional one.
ValueOrNull ==
  {[f \in {g} |-> v] : g \in NotNull, v \in {Null} \cup (Value \ {Blank})}
    \cup {[f \in {g} |-> Null] : g \in Field \ NotNull}
OneField == {[f \in {g} |-> v] : g \in Field, v \in Value \ {Blank}}

Symmetry == Permutations(Request) \cup Permutations(Task)
              \cup Permutations(Value \ {Blank})
=============================================================================
