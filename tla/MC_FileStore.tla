---------------------------- MODULE MC_FileStore ----------------------------
(***************************************************************************)
(* Instances of FileStore for TLC: one file that may be downloaded twice,  *)
(* one that may be downloaded once.                                        *)
(***************************************************************************)
EXTENDS FileStore

CONSTANTS twice, once

Limits == [f \in Files |-> IF f = twice THEN 2 ELSE 1]
=============================================================================
