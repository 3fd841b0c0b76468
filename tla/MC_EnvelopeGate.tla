-------------------------- MODULE MC_EnvelopeGate --------------------------
(***************************************************************************)
(* An instance of EnvelopeGate for TLC: Ttl is as short as TtlAssumption   *)
(* allows.                                                                 *)
(***************************************************************************)
EXTENDS EnvelopeGate, TLC

TightTtl == 2 * Skew + Stall

Symmetry == Permutations(Conns) \cup Permutations(Nonces)
=============================================================================
