------------------------------ MODULE GuardProofs ------------------------------
(***************************************************************************)
(* What TLAPS proves of the access-token guard within the auth service.      *)
(***************************************************************************)
EXTENDS AccountProofs

Ended(u) == users[u].status \in {"disabled", "deleted"}
Inside(u) == {g \in Gate : GateAt(g, "admitted") /\ gate[g].user = u}

GuardTypeOK ==
  /\ gate \in [Gate -> [pc : {"away", "get_by_id", "admitted"}, user : UserId \cup {NoUser}]]
  /\ overtime \in [UserId -> Nat]
  /\ \A g \in Gate : ~GateAt(g, "away") => gate[g].user \in UserId

\* A guarded request is let in for a committed account.
AdmittedCommitted == \A g \in Gate : GateAt(g, "admitted") => Committed(gate[g].user)

\* Who has committed for an account after its end was inside at its end, and is
\* inside no more.
Outstayed ==
  \A u \in UserId :
    IF Ended(u) THEN overtime[u] + Cardinality(Inside(u)) <= Cardinality(Gate)
                ELSE overtime[u] = 0

GuardInv == GuardTypeOK /\ AdmittedCommitted /\ Outstayed

\* What a step of the auth service may do to the end of an account.
LEMMA EndsLast ==
  ASSUME TokenInv, AccountInv, NEW u \in UserId,
         (\E r \in Request : Call(r) \/ Step(r) \/ Fail(r)) \/ Environment \/ UNCHANGED service
  PROVE  (Ended(u) => Ended(u)') /\ (Committed(u) => Committed(u)')
<1> USE DEF Ended, Committed
<1>0. ServiceOK /\ RequestsOK /\ AccountsBy
  BY DEF TokenInv, AccountInv
<1>1. CASE users' = users
  BY <1>1
<1>2. ASSUME NEW r \in Request, Step(r), users' # users
      PROVE  (Ended(u) => Ended(u)') /\ (Committed(u) => Committed(u)')
  <2>1. Writes(r)
    BY <1>0, <1>2, StepAdvances DEF Advances, AccountInv
  <2>2. AccountBy(req[r]) /\ LocalsOK(req[r])
    BY <1>0 DEF AccountsBy, RequestsOK
  <2>3. CASE RegisterInsert(r)
    <3>1. users[req[r].user].status = "unborn"
      BY <2>2, <2>3 DEF RegisterInsert, At, AccountBy, Drawn
    <3> QED BY <1>0, <1>2, <2>3, <3>1 DEF RegisterInsert, ServiceOK, database
  <2>4. CASE RegisterCommit(r)
    <3>1. users[req[r].user].status = "pending"
      BY <2>2, <2>4 DEF RegisterCommit, At, AccountBy, Inserted
    <3> QED BY <1>0, <2>4, <3>1 DEF RegisterCommit, ServiceOK, Row_
  <2>5. CASE VerifyCommit(r)
    BY <1>0, <2>5 DEF VerifyCommit, ServiceOK, Row_
  <2>6. CASE ResetCommit(r)
    BY <1>0, <2>6 DEF ResetCommit, ServiceOK, Row_
  <2> QED BY <2>1, <2>3, <2>4, <2>5, <2>6 DEF Writes
<1>3. ASSUME NEW r \in Request, Fail(r)
      PROVE  (Ended(u) => Ended(u)') /\ (Committed(u) => Committed(u)')
  BY <1>0, <1>3 DEF Fail, ServiceOK, Row_
<1>4. ASSUME NEW v \in UserId, Disable(v) \/ SoftDelete(v)
      PROVE  (Ended(u) => Ended(u)') /\ (Committed(u) => Committed(u)')
  BY <1>0, <1>4 DEF Disable, SoftDelete, OperatorUpdate, ServiceOK, Row_
<1>5. ASSUME NEW r \in Request, Call(r) PROVE users' = users
  BY <1>5, CallComes DEF Comes, StoresUnchanged, database
<1>6. CASE Environment
  BY <1>1, <1>4, <1>6 DEF Environment, ExpireKey, ExpireJwt, LapseLock, ExpireLock,
                         ExpireAttempts, database
<1>7. CASE UNCHANGED service
  BY <1>7 DEF service
<1> QED BY <1>1, <1>2, <1>3, <1>5, <1>6, <1>7

LEMMA InsideSize ==
  ASSUME NEW u
  PROVE  /\ IsFiniteSet(Inside(u)) /\ Cardinality(Inside(u)) \in Nat
         /\ Cardinality(Inside(u)) <= Cardinality(Gate) /\ Cardinality(Gate) \in Nat
<1>1. Inside(u) \in SUBSET Gate
  BY DEF Inside
<1> QED BY <1>1, FS_Subset, FS_CardinalityType, SizeAssumption

LEMMA AuthGuard ==
  ASSUME TokenInv, AccountInv, GuardInv, [Next]_vars, UNCHANGED <<gate, overtime>>
  PROVE  GuardInv'
<1>1. UNCHANGED <<gate, overtime>> /\ \A u \in UserId : Inside(u)' = Inside(u)
  BY DEF Inside, GateAt
<1>2. GuardTypeOK'
  BY <1>1 DEF GuardInv, GuardTypeOK, GateAt
<1>3. AdmittedCommitted'
  <2> SUFFICES ASSUME NEW g \in Gate, GateAt(g, "admitted") PROVE Committed(gate[g].user)'
    BY <1>1 DEF AdmittedCommitted, GateAt, Committed
  <2>1. gate[g].user \in UserId /\ Committed(gate[g].user)
    BY DEF GuardInv, GuardTypeOK, AdmittedCommitted, GateAt
  <2>2. PICK u \in UserId : u = gate[g].user
    BY <2>1
  <2>3. Committed(u)'
    BY <2>1, <2>2, EndsLast, NextIs
  <2> QED BY <1>1, <2>2, <2>3 DEF Committed
<1>4. Outstayed'
  <2> SUFFICES ASSUME NEW u \in UserId
               PROVE  IF Ended(u)' THEN overtime[u] + Cardinality(Inside(u)) <= Cardinality(Gate)
                                   ELSE overtime[u] = 0
    BY <1>1 DEF Outstayed, Ended
  <2>1. Ended(u) => Ended(u)'
    BY EndsLast, NextIs
  <2> QED BY <2>1, InsideSize DEF GuardInv, Outstayed
<1> QED BY <1>2, <1>3, <1>4 DEF GuardInv

\* One guarded request moves; nobody enters an ended account.
LEMMA GateGuard ==
  ASSUME TokenInv, AccountInv, GuardInv, UNCHANGED service, NEW g \in Gate,
         \/ \E j \in Jti \cap known : GuardCall(g, j)
         \/ GuardUser(g) \/ GuardedCommit(g) \/ GuardedFail(g)
  PROVE  GuardInv'
<1>0. UNCHANGED <<users, subject>> /\ ServiceOK
  BY DEF service, TokenInv
<1> DEFINE Place == [pc : {"away", "get_by_id", "admitted"}, user : UserId \cup {NoUser}]
<1>g. gate \in [Gate -> Place] /\ gate[g] \in Place /\ overtime \in [UserId -> Nat]
  BY DEF GuardInv, GuardTypeOK
<1>u. ~GateAt(g, "away") => gate[g].user \in UserId
  BY DEF GuardInv, GuardTypeOK
<1>1. ASSUME NEW j \in Jti \cap known, GuardCall(g, j) PROVE GuardInv'
  <2>1. subject[j] \in UserId
    BY <1>0 DEF TokenInv, HeldInv, Minted, ServiceOK
  <2>2. gate' = [gate EXCEPT ![g] = [pc |-> "get_by_id", user |-> subject[j]]]
        /\ overtime' = overtime
    BY <1>1 DEF GuardCall
  <2>3. GuardTypeOK'
    BY <2>1, <2>2 DEF GuardInv, GuardTypeOK, GateAt
  <2>4. AdmittedCommitted'
    BY <1>0, <1>g, <2>2 DEF GuardInv, AdmittedCommitted, GateAt, Committed
  <2>5. \A u \in UserId : Inside(u)' = Inside(u)
    BY <1>1, <1>g, <2>2 DEF GuardCall, Inside, GateAt
  <2> QED BY <1>0, <2>2, <2>3, <2>4, <2>5 DEF GuardInv, Outstayed, Ended
<1>2. ASSUME LeaveGate(g), overtime' = overtime PROVE GuardInv'
  <2>1. GuardTypeOK'
    BY <1>2 DEF LeaveGate, Away, GuardInv, GuardTypeOK, GateAt
  <2>2. AdmittedCommitted'
    BY <1>0, <1>2, <1>g DEF LeaveGate, Away, GuardInv, AdmittedCommitted, GateAt, Committed
  <2>3. ASSUME NEW u \in UserId PROVE Cardinality(Inside(u)') <= Cardinality(Inside(u))
                                      /\ Cardinality(Inside(u)') \in Nat
    <3>1. Inside(u)' \in SUBSET Inside(u)
      BY <1>2, <1>g DEF LeaveGate, Away, Inside, GateAt
    <3> QED BY <3>1, FS_Subset, FS_CardinalityType, InsideSize
  <2>4. Outstayed'
    <3> SUFFICES ASSUME NEW u \in UserId
                 PROVE  IF Ended(u)
                          THEN overtime[u] + Cardinality(Inside(u)') <= Cardinality(Gate)
                          ELSE overtime[u] = 0
      BY <1>0, <1>2 DEF Outstayed, Ended
    <3>1. overtime[u] \in Nat
      BY <1>g
    <3> QED BY <2>3, <3>1, InsideSize DEF GuardInv, Outstayed
  <2> QED BY <2>1, <2>2, <2>4 DEF GuardInv
<1>3. CASE GuardUser(g)
  <2>1. CASE LeaveGate(g)
    BY <1>2, <1>3, <2>1 DEF GuardUser
  <2>2. CASE Passes(gate[g].user) /\ gate' = [gate EXCEPT ![g].pc = "admitted"]
    <3>1. overtime' = overtime /\ GateAt(g, "get_by_id")
      BY <1>3 DEF GuardUser
    <3>2. PICK v \in UserId : v = gate[g].user
      BY <1>u, <3>1 DEF GateAt
    <3>3. users[v].status = "active"
      BY <2>2, <3>2 DEF Passes
    <3>4. gate'[g].pc = "admitted" /\ gate'[g].user = v
          /\ \A h \in Gate \ {g} : gate'[h] = gate[h]
      BY <1>g, <2>2, <3>2
    <3>5. GuardTypeOK'
      BY <2>2, <3>1, <3>2, <3>4, <1>g DEF GuardInv, GuardTypeOK, GateAt
    <3>6. AdmittedCommitted'
      BY <1>0, <3>3, <3>4 DEF GuardInv, AdmittedCommitted, GateAt, Committed
    <3>7. \A u \in UserId : u # v => Inside(u)' = Inside(u)
      BY <3>1, <3>2, <3>4 DEF Inside, GateAt
    <3>8. Outstayed'
      BY <1>0, <3>1, <3>3, <3>7 DEF GuardInv, Outstayed, Ended
    <3> QED BY <3>5, <3>6, <3>8 DEF GuardInv
  <2> QED BY <1>3, <2>1, <2>2 DEF GuardUser
<1>4. CASE GuardedCommit(g)
  <2>1. PICK v \in UserId : v = gate[g].user
    BY <1>4, <1>u DEF GuardedCommit, GateAt
  <2>2. CASE users[v].status = "active"
    BY <1>2, <1>4, <2>1, <2>2 DEF GuardedCommit
  <2>3. CASE users[v].status # "active"
    <3>1. Ended(v)
      BY <1>4, <2>1, <2>3 DEF GuardedCommit, GuardInv, AdmittedCommitted, Committed, Ended
    <3>2. PICK n \in Nat : n = IF overtime[v] > Cardinality(Gate) THEN overtime[v]
                                                                 ELSE overtime[v] + 1
      BY <1>g
    <3>3. overtime' = [overtime EXCEPT ![v] = n] /\ LeaveGate(g)
      BY <1>4, <2>1, <2>3, <3>2 DEF GuardedCommit
    <3>4. GuardTypeOK'
      BY <1>g, <3>3 DEF LeaveGate, Away, GuardInv, GuardTypeOK, GateAt
    <3>5. AdmittedCommitted'
      BY <1>0, <1>g, <3>3 DEF LeaveGate, Away, GuardInv, AdmittedCommitted, GateAt, Committed
    <3>6. \A u \in UserId : u # v => Inside(u)' = Inside(u) /\ overtime'[u] = overtime[u]
      BY <1>g, <2>1, <3>3 DEF LeaveGate, Away, Inside, GateAt
    <3>7. Inside(v)' = Inside(v) \ {g} /\ g \in Inside(v)
      BY <1>4, <1>g, <2>1, <3>3 DEF GuardedCommit, LeaveGate, Away, Inside, GateAt
    <3>8. Cardinality(Inside(v)') = Cardinality(Inside(v)) - 1
      BY <3>7, FS_RemoveElement, InsideSize
    <3>9. overtime'[v] <= overtime[v] + 1 /\ overtime'[v] \in Nat
      BY <1>g, <3>2, <3>3, InsideSize
    <3>10. overtime'[v] + Cardinality(Inside(v)') <= Cardinality(Gate)
      <4>1. overtime[v] + Cardinality(Inside(v)) <= Cardinality(Gate) /\ overtime[v] \in Nat
        BY <1>g, <3>1 DEF GuardInv, Outstayed
      <4> QED BY <3>8, <3>9, <4>1, InsideSize
    <3>11. Outstayed'
      BY <1>0, <3>1, <3>6, <3>10 DEF GuardInv, Outstayed, Ended
    <3> QED BY <3>4, <3>5, <3>11 DEF GuardInv
  <2> QED BY <2>2, <2>3
<1>5. CASE GuardedFail(g)
  BY <1>2, <1>5 DEF GuardedFail
<1> QED BY <1>1, <1>3, <1>4, <1>5

\* After an account is disabled or deleted, at most as many changes are committed
\* for it as guarded requests can be inside: none is let in again.
THEOREM BansTakeHold == Spec => []BanTakesHold
<1>1. Init => GuardInv
  <2> SUFFICES ASSUME Init PROVE GuardInv
    OBVIOUS
  <2>1. gate = [g \in Gate |-> Away] /\ overtime = [u \in UserId |-> 0]
    BY DEF Init
  <2>2. \A u \in UserId : overtime[u] = 0 /\ Inside(u) = {}
    BY <2>1 DEF Inside, GateAt, Away
  <2>3. GuardTypeOK /\ AdmittedCommitted
    BY <2>1 DEF GuardTypeOK, AdmittedCommitted, GateAt, Away
  <2>4. Outstayed
    BY <2>2, InsideSize DEF Outstayed
  <2> QED BY <2>3, <2>4 DEF GuardInv
<1>2. TokenInv /\ AccountInv /\ GuardInv /\ [Next]_vars => GuardInv'
  <2> SUFFICES ASSUME TokenInv, AccountInv, GuardInv, [Next]_vars PROVE GuardInv'
    OBVIOUS
  <2>1. CASE UNCHANGED <<gate, overtime>>
    BY <2>1, AuthGuard
  <2>2. CASE \E r \in Request : Call(r) \/ Step(r) \/ Fail(r)
    BY <2>1, <2>2, RequestNotes
  <2>3. CASE Environment
    BY <2>1, <2>3 DEF Environment, ExpireKey, ExpireJwt, LapseLock, ExpireLock, ExpireAttempts,
                      Disable, SoftDelete, OperatorUpdate, Event
  <2>4. CASE Guarded
    BY <2>4, GuardedApart, GateGuard DEF Guarded
  <2>5. CASE UNCHANGED vars
    BY <2>1, <2>5 DEF vars
  <2> QED BY <2>2, <2>3, <2>4, <2>5 DEF Next, Quiet
<1>3. GuardInv => BanTakesHold
  <2> SUFFICES ASSUME GuardInv, NEW u \in UserId PROVE overtime[u] <= Cardinality(Gate)
    BY DEF BanTakesHold
  <2>1. overtime[u] \in Nat
    BY DEF GuardInv, GuardTypeOK
  <2> QED BY <2>1, InsideSize DEF GuardInv, Outstayed
<1> QED BY <1>1, <1>2, <1>3, AccountInvariant, PTL DEF Spec
=============================================================================
