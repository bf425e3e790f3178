------------------------- MODULE MCMachineLifecycle -------------------------
(* Model-checking instances of MachineLifecycle.                           *)
EXTENDS MachineLifecycle, TLC

\* Provider ids are interchangeable.
IdSymmetry == Permutations(Servers) \cup Permutations(Ips)
=============================================================================
