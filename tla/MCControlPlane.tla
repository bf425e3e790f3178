---------------------------- MODULE MCControlPlane ----------------------------
(* The control plane with two machines, three grants and three half hours.   *)
EXTENDS ControlPlane

CONSTANTS m1, m2
=============================================================================
