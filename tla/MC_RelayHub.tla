---------------------------- MODULE MC_RelayHub ----------------------------
(* Instances of RelayHub for TLC: users a and b, and frames between them. *)
EXTENDS RelayHub, TLC

CONSTANTS a, b, ca, cb, m1, m2

\* One connection of a, and one that may register as a, as b, or as both in turn.
ExchangeIds == [c \in Conns |-> IF c = ca THEN {a} ELSE {a, b}]

\* One connection of each.
PairIds == [c \in Conns |-> IF c = ca THEN {a} ELSE {b}]

\* From a to b, or to the user whose place two connections take from each other.
FromA == [m \in Msgs |-> a]
ToB   == [m \in Msgs |-> b]
FromB == [m \in Msgs |-> b]
ToA   == [m \in Msgs |-> a]

\* Frames of one kind, sender and recipient are interchangeable.
Frames == Permutations(Msgs)

AllContacts == [m \in Msgs |-> "contact"]
AllMessages == [m \in Msgs |-> "store"]
=============================================================================
