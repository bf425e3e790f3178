---------------------------- MODULE MCImageFactory ----------------------------
(* Small instances of ImageFactory for TLC.                                   *)
EXTENDS ImageFactory, TLC

CONSTANTS w1, w2

Symmetry == Permutations(Workers)

=============================================================================
