-------------------------- MODULE MC_ScannedRelay --------------------------
(***************************************************************************)
(* An instance of ScannedRelay for TLC: a sends to b from a device that    *)
(* may be b's later; b has another one at another address.                 *)
(***************************************************************************)
EXTENDS ScannedRelay, TLC

CONSTANTS a, b, b1, b2, x, y, direct, grouped, signal

Address == (b1 :> y) @@ (b2 :> x)
DeviceIds == (b1 :> {a, b}) @@ (b2 :> {b})
MsgKind == [m \in Msgs |-> IF m = direct THEN "message" ELSE IF m = grouped THEN "group" ELSE "signal"]
FromA == [m \in Msgs |-> a]
ToB == [m \in Msgs |-> IF m = grouped THEN CHOOSE g \in Groups : TRUE ELSE b]
DirectTwice == [m \in Msgs |-> IF m = direct THEN 2 ELSE 1]
Lists == {<<a, b>>}
=============================================================================
