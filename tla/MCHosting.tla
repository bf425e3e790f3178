------------------------------ MODULE MCHosting ------------------------------
(***************************************************************************)
(* Instances of PublicGateway for TLC.                                     *)
(***************************************************************************)
EXTENDS PublicGateway, TLC

CONSTANTS m1, m2, alice, bob, w1, w2

OneHome == [m \in Machines |-> alice]
TwoHomes == m1 :> alice @@ m2 :> bob
Symmetric == Permutations(Workers)

=============================================================================
