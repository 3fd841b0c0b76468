---------------------------- MODULE StoreForward ----------------------------
(***************************************************************************)
(* What a relay promises about one message, whatever its connections, its  *)
(* buffers and its goroutines do: a message is in one place at a time, it  *)
(* reaches a recipient at most once, only a storable message is ever kept  *)
(* for later, and a message that was lost or received stays so.            *)
(*                                                                         *)
(* RelayHub implements this specification (property Mailbox there).        *)
(***************************************************************************)
EXTENDS Naturals

CONSTANTS Msgs,        \* the messages clients may hand to the relay
          Storable     \* the ones of Msgs the relay may keep for an absent recipient

VARIABLES stage,       \* stage[m]: how far the relay has taken m
          receipts     \* receipts[m]: how often a client has received m

vars == <<stage, receipts>>

Stages == {"fresh", "transit", "stored", "received", "gone"}

Init == /\ stage = [m \in Msgs |-> "fresh"]
        /\ receipts = [m \in Msgs |-> 0]

\* stage' moves every message of S to stage t and leaves the others.
Shift(S, t) == [m \in Msgs |-> IF m \in S THEN t ELSE stage[m]]

In(t) == {m \in Msgs : stage[m] = t}

\* A client's frame reaches the relay.
Accept(m) == /\ stage[m] = "fresh"
             /\ stage' = Shift({m}, "transit")
             /\ UNCHANGED receipts

\* The recipient is absent: m is kept, and may take the place of an older one.
Keep(m) == /\ m \in Storable
           /\ stage[m] = "transit"
           /\ \E old \in SUBSET In("stored") :
                stage' = [x \in Msgs |-> IF x = m THEN "stored"
                                         ELSE IF x \in old THEN "gone" ELSE stage[x]]
           /\ UNCHANGED receipts

\* The recipient came: messages kept for it are on their way again.
Release == /\ \E S \in SUBSET In("stored") : stage' = Shift(S, "transit")
           /\ UNCHANGED receipts

Receive(m) == /\ stage[m] = "transit"
              /\ stage' = Shift({m}, "received")
              /\ receipts' = [receipts EXCEPT ![m] = @ + 1]

\* A connection fails or has no room: messages on their way are lost.
Lose == /\ \E S \in SUBSET In("transit") : stage' = Shift(S, "gone")
        /\ UNCHANGED receipts

\* Kept messages outlive their time.
Expire == /\ \E S \in SUBSET In("stored") : stage' = Shift(S, "gone")
          /\ UNCHANGED receipts

Next == /\ vars' # vars                  \* a stutter is left to the brackets
        /\ \/ \E m \in Msgs : Accept(m) \/ Keep(m) \/ Receive(m)
           \/ Release
           \/ Lose
           \/ Expire

Spec == Init /\ [][Next]_vars
=============================================================================
