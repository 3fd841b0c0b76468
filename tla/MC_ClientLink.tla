--------------------------- MODULE MC_ClientLink ---------------------------
(***************************************************************************)
(* An instance of ClientLink for TLC.                                      *)
(***************************************************************************)
EXTENDS ClientLink, TLC

CONSTANTS p, q

AnyPeer == Permutations(Peers)
=============================================================================
