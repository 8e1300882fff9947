------------------------------ MODULE AccessGuard ------------------------------
(***************************************************************************)
(* get_current_user: requests that present an access token while accounts  *)
(* register, log in, refresh, are disabled and deleted.  A pair of tokens  *)
(* is known by the jti of its refresh token.  Nothing revokes the access   *)
(* token; one that has expired, or is of the wrong type, is refused before *)
(* any await and left out.                                                 *)
(***************************************************************************)
EXTENDS AuthState

Away == [pc |-> "away", user |-> NoUser]

GateAt(g, label) == gate[g].pc = label
LeaveGate(g) == gate' = [gate EXCEPT ![g] = Away]

\* A guarded request changes nothing of the auth service.
Apart == UNCHANGED <<service, raced>>

\* The signature, exp and type are checked at once: sub is all that is kept.
GuardCall(g, j) ==
  /\ GateAt(g, "away")
  /\ gate' = [gate EXCEPT ![g] = [pc |-> "get_by_id", user |-> subject[j]]]
  /\ Apart /\ UNCHANGED overtime

PassesPresent(u) == Active(u)

\* user is None, or not user.is_active: 401.
Passes(u) == users[u].status = "active"

GuardUser(g) ==
  /\ GateAt(g, "get_by_id")
  /\ IF Passes(gate[g].user) THEN gate' = [gate EXCEPT ![g].pc = "admitted"] ELSE LeaveGate(g)
  /\ Apart /\ UNCHANGED overtime

\* The endpoint's own transaction does not read the account again.
GuardedCommit(g) ==
  LET u == gate[g].user IN
  /\ GateAt(g, "admitted")
  /\ LeaveGate(g)
  /\ overtime' = IF users[u].status = "active" THEN overtime
                 ELSE [overtime EXCEPT ![u] = IF @ > Cardinality(Gate) THEN @ ELSE @ + 1]
  /\ Apart

GuardedFail(g) ==
  /\ Faults /\ ~GateAt(g, "away")
  /\ LeaveGate(g)
  /\ Apart /\ UNCHANGED overtime
=============================================================================
