---------------------------- MODULE MCOwnership ----------------------------
(* Three writer incarnations sharing one scope.                             *)
EXTENDS Ownership, TLC

CONSTANTS w1, w2, w3

MCWriter == {w1, w2, w3}
MCSymmetry == Permutations(MCWriter)
=============================================================================
