--------------------------- MODULE MC_GroupFanout ---------------------------
(***************************************************************************)
(* An instance of GroupFanout for TLC: three users, a message of a.        *)
(***************************************************************************)
EXTENDS GroupFanout

CONSTANTS a, b, c

FromA == [h \in Messages |-> a]

Created == {<<a, b, c>>, <<b, c>>}
=============================================================================
