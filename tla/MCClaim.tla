------------------------------ MODULE MCClaim ------------------------------
(* Claim with two instances of equal standing. *)
EXTENDS Claim, TLC

CONSTANTS i1, i2

MCInstance == {i1, i2}
MCSymmetry == Permutations(MCInstance)
=============================================================================
