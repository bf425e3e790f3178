------------------------------ MODULE MCBackups ------------------------------
(* Small instances of Backups for TLC.                                        *)
EXTENDS Backups, TLC

CONSTANTS a1, b1, b2

Symmetry == Permutations(Restores)

OneOwner == [b \in Backups |-> a1]

=============================================================================
