--------------------------- MODULE MC_NodeRelay ---------------------------
(***************************************************************************)
(* An instance of NodeRelay for TLC: a direct message and a group message  *)
(* of a, a file link to b, and two sockets of b's device.                  *)
(***************************************************************************)
EXTENDS NodeRelay, TLC

CONSTANTS a, b, sb, sc, direct, grouped, link1, signal, g

\* b's first socket, and one that belongs to a, to b, or to a device that was a's and is b's.
DeviceIds == (sb :> {b}) @@ (sc :> {a, b})

MsgKind == [m \in Msgs |-> IF m = direct THEN "message" ELSE IF m = grouped THEN "group" ELSE IF m = link1 THEN "file" ELSE "signal"]
FromA == [m \in Msgs |-> a]
ToB == [m \in Msgs |-> IF m = grouped THEN g ELSE b]
DirectTwice == [m \in Msgs |-> IF m = direct THEN 2 ELSE 1]
BothList == [u \in Users |-> {g}]
=============================================================================
