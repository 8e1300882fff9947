------------------------------ MODULE TokenLife ------------------------------
(***************************************************************************)
(* What a verification link, a reset link or a refresh token is to those   *)
(* who use it: drawn at random, minted once for one holder, and dead for   *)
(* good after that.  Where it is kept, in how many commands it is minted   *)
(* or revoked and why it dies is left to the detailed specification.       *)
(***************************************************************************)
CONSTANTS Token, Holder, Nobody

VARIABLES
  life,  \* "unborn", "working" or "dead"
  holder \* whom a token was minted for

vars == <<life, holder>>

Init == life = [t \in Token |-> "unborn"] /\ holder = [t \in Token |-> Nobody]

Mint(t, u) ==
  /\ life[t] = "unborn"
  /\ life' = [life EXCEPT ![t] = "working"]
  /\ holder' = [holder EXCEPT ![t] = u]

\* Used, logged out, rotated, expired; or several at once, revoked by a reset.
End(S) ==
  /\ \A t \in S : life[t] = "working"
  /\ life' = [t \in Token |-> IF t \in S THEN "dead" ELSE life[t]]
  /\ UNCHANGED holder

Next ==
  \/ \E t \in Token, u \in Holder : Mint(t, u)
  \/ \E S \in SUBSET Token : End(S)

Spec == Init /\ [][Next]_vars
=============================================================================
