---------------------------- MODULE MC_Matching ----------------------------
(***************************************************************************)
(* Instances of Matching for TLC.                                          *)
(***************************************************************************)
EXTENDS Matching, TLC

Symmetry == Permutations(Users) \cup Permutations(Sessions)
=============================================================================
