-------------------------- MODULE MC_ClientStore --------------------------
(***************************************************************************)
(* An instance of ClientStore for TLC: two contacts, messages both ways    *)
(* with the first, a group with a message of this user.                    *)
(***************************************************************************)
EXTENDS ClientStore, TLC

CONSTANTS x, y, g, came, gone, said, t1, t2, t3

Where == [m \in Msgs |-> IF m = said THEN g ELSE x]

AnyTask == Permutations(Tasks)
=============================================================================
