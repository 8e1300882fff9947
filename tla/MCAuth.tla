-------------------------------- MODULE MCAuth --------------------------------
(* AuthService for TLC: one address that can be typed in two ways (AdaTyped    *)
(* is Ada capitalised), and the symmetry of the sets nothing tells apart.      *)
EXTENDS AuthProperties, TLC

CONSTANTS Ada, AdaTyped

MCLower == [a \in Address |-> IF a = AdaTyped THEN Ada ELSE a]

Symmetry ==
  UNION {Permutations(S) :
           S \in {Request, UserId \ Seeded, Password, VerifyLink, ResetLink, Jti, Gate}}
=============================================================================
