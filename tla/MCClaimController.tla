-------------------------- MODULE MCClaimController --------------------------
(***************************************************************************)
(* ClaimController for TLC: small sets of claims and VMIDs as model values *)
(* that can be exchanged for one another.                                  *)
(***************************************************************************)
EXTENDS ClaimController, TLC

Symmetry == Permutations(VMIDs)
=============================================================================
