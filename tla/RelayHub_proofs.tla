-------------------------- MODULE RelayHub_proofs --------------------------
(***************************************************************************)
(* Theorems about RelayHub, for any sets of users, connections and frames, *)
(* any assignment of ids to connections and any channel capacity.          *)
(***************************************************************************)
EXTENDS RelayHub, SequenceTheorems, FiniteSetTheorems, TLAPS

-----------------------------------------------------------------------------
(* The operators on queues                                                 *)

\* emit keeps a channel within its capacity and adds nothing but the frame.
LEMMA OfferProperties ==
  ASSUME NEW S, NEW q \in Seq(S), NEW x \in S, Len(q) <= BufCap
  PROVE  /\ Offer(q, x) \in Seq(S)
         /\ Len(Offer(q, x)) <= BufCap
         /\ \A m : Holds(Offer(q, x), m) => Holds(q, m) \/ m = x
<1> USE ConstantsAssumption
<1>1. CASE Len(q) < BufCap
  <2>1. Offer(q, x) = Append(q, x)
    BY <1>1 DEF Offer
  <2>2. /\ Append(q, x) \in Seq(S)
        /\ Len(Append(q, x)) = Len(q) + 1
        /\ DOMAIN Append(q, x) = 1..(Len(q) + 1)
        /\ \A i \in 1..Len(q) : Append(q, x)[i] = q[i]
        /\ Append(q, x)[Len(q) + 1] = x
        /\ DOMAIN q = 1..Len(q)
        /\ Len(q) \in Nat
    OBVIOUS
  <2> QED
    BY <1>1, <2>1, <2>2 DEF Holds
<1>2. CASE ~(Len(q) < BufCap)
  BY <1>2 DEF Offer
<1> QED BY <1>1, <1>2

\* The first notice leaves, nothing else changes.
LEMMA TailProperties ==
  ASSUME NEW S, NEW q \in Seq(S), q # <<>>
  PROVE  /\ Tail(q) \in Seq(S)
         /\ Len(Tail(q)) <= Len(q)
         /\ Head(q) \in S
         /\ Holds(q, Head(q))
         /\ \A m : Holds(Tail(q), m) => Holds(q, m)
<1>1. /\ Len(q) \in Nat \ {0}
      /\ DOMAIN q = 1..Len(q)
      /\ Head(q) = q[1]
      /\ Tail(q) \in Seq(S)
      /\ Len(Tail(q)) = Len(q) - 1
      /\ DOMAIN Tail(q) = 1..(Len(q) - 1)
      /\ \A i \in 1..(Len(q) - 1) : Tail(q)[i] = q[i + 1]
      /\ q[1] \in S
  OBVIOUS
<1> QED
  BY <1>1 DEF Holds

\* Appending adds nothing but the new element.
LEMMA AppendHolds ==
  ASSUME NEW S, NEW q \in Seq(S), NEW x \in S
  PROVE  /\ Append(q, x) \in Seq(S)
         /\ \A m : Holds(Append(q, x), m) => Holds(q, m) \/ m = x
<1>1. /\ Append(q, x) \in Seq(S)
      /\ DOMAIN Append(q, x) = 1..(Len(q) + 1)
      /\ \A i \in 1..Len(q) : Append(q, x)[i] = q[i]
      /\ Append(q, x)[Len(q) + 1] = x
      /\ DOMAIN q = 1..Len(q)
      /\ Len(q) \in Nat
  OBVIOUS
<1> QED
  BY <1>1 DEF Holds

\* Overwriting one position, wherever it is, adds nothing but the new element.
LEMMA ReplaceProperties ==
  ASSUME NEW S, NEW q \in Seq(S), NEW k, NEW x \in S
  PROVE  /\ [q EXCEPT ![k] = x] \in Seq(S)
         /\ \A m : Holds([q EXCEPT ![k] = x], m) => Holds(q, m) \/ m = x
<1> DEFINE r == [q EXCEPT ![k] = x]
<1>1. /\ Len(q) \in Nat
      /\ q \in [1..Len(q) -> S]
  OBVIOUS
<1>2. /\ r \in [1..Len(q) -> S]
      /\ DOMAIN r = DOMAIN q
      /\ \A i \in DOMAIN q : r[i] = q[i] \/ r[i] = x
  BY <1>1
<1>3. r = [i \in 1..Len(q) |-> r[i]]
  BY <1>2
<1>4. r \in Seq(S)
  BY <1>1, <1>2, <1>3, IsASeq
<1> QED
  BY <1>2, <1>4 DEF Holds

\* Storing a contact notice adds nothing but the notice, in place of an older one or not.
LEMMA MergeProperties ==
  ASSUME NEW q \in Seq(Msgs), NEW m \in Msgs
  PROVE  /\ MergeContact(q, m) \in Seq(Msgs)
         /\ \A x : Holds(MergeContact(q, m), x) => Holds(q, x) \/ x = m
<1> DEFINE same == {i \in DOMAIN q : From[q[i]] = From[m]}
           k == CHOOSE i \in same : \A j \in same : i <= j
<1>1. CASE same = {}
  <2>1. MergeContact(q, m) = Append(q, m)
    BY <1>1 DEF MergeContact
  <2> QED
    BY <2>1, AppendHolds
<1>2. CASE same # {}
  <2>1. MergeContact(q, m) = [q EXCEPT ![k] = m]
    BY <1>2 DEF MergeContact
  <2> HIDE DEF k
  <2>2. /\ [q EXCEPT ![k] = m] \in Seq(Msgs)
        /\ \A x : Holds([q EXCEPT ![k] = m], x) => Holds(q, x) \/ x = m
    BY ReplaceProperties
  <2> QED
    BY <2>1, <2>2 DEF Holds
<1> QED
  BY <1>1, <1>2

\* What a filter leaves of a queue was in the queue.
LEMMA SubsequenceProperties ==
  ASSUME NEW S, NEW q \in Seq(S), NEW s \in Subsequences(q)
  PROVE  /\ s \in Seq(S)
         /\ \A m : Holds(s, m) => Holds(q, m)
<1>0. PICK n \in 0..Len(q) :
        s \in { [i \in 1..n |-> q[f[i]]] :
                  f \in {g \in [1..n -> DOMAIN q] : \A i, j \in 1..n : i < j => g[i] < g[j]} }
  BY Zenon DEF Subsequences
<1>1. PICK f \in [1..n -> DOMAIN q] : s = [i \in 1..n |-> q[f[i]]]
  BY <1>0
<1>2. \A i \in 1..n : f[i] \in DOMAIN q /\ q[f[i]] \in S
  OBVIOUS
<1>3. n \in Nat
  OBVIOUS
<1>4. s \in Seq(S)
  BY <1>1, <1>2, <1>3, IsASeq
<1>5. \A m : Holds(s, m) => Holds(q, m)
  BY <1>1, <1>2 DEF Holds
<1> QED
  BY <1>4, <1>5

\* Cleanup leaves, for every user, a subsequence of that user's queue.
LEMMA CleanupProperties ==
  ASSUME Cleanup,
         pending \in [Users -> Seq(Msgs)], contacts \in [Users -> Seq(Msgs)]
  PROVE  /\ pending' \in [Users -> Seq(Msgs)]
         /\ contacts' \in [Users -> Seq(Msgs)]
         /\ \A u \in Users : \A m : /\ Holds(pending'[u], m) => Holds(pending[u], m)
                                    /\ Holds(contacts'[u], m) => Holds(contacts[u], m)
<1> DEFINE P == UNION {Subsequences(pending[u]) : u \in Users}
           C == UNION {Subsequences(contacts[u]) : u \in Users}
<1>1. /\ pending' \in [Users -> P]
      /\ contacts' \in [Users -> C]
      /\ \A u \in Users : pending'[u] \in Subsequences(pending[u])
      /\ \A u \in Users : contacts'[u] \in Subsequences(contacts[u])
  BY DEF Cleanup
<1>2. \A u \in Users : /\ pending[u] \in Seq(Msgs)
                       /\ contacts[u] \in Seq(Msgs)
  OBVIOUS
<1>3. \A u \in Users : /\ pending'[u] \in Seq(Msgs)
                       /\ \A m : Holds(pending'[u], m) => Holds(pending[u], m)
  BY <1>1, <1>2, SubsequenceProperties
<1>4. \A u \in Users : /\ contacts'[u] \in Seq(Msgs)
                       /\ \A m : Holds(contacts'[u], m) => Holds(contacts[u], m)
  BY <1>1, <1>2, SubsequenceProperties
<1> HIDE DEF P, C
<1> QED
  BY <1>1, <1>3, <1>4

-----------------------------------------------------------------------------
(* Types                                                                   *)

\* What the reader goroutine has in hand at each point of a handler.
PhaseOK ==
  \A c \in Conns :
    /\ phase[c] \in {"announce", "popContacts", "giveContacts", "popMessages", "giveMessages"}
         => owner[c] \in Users
    /\ phase[c] \in {"giveContacts", "giveMessages"} => todo[c] # <<>>
    /\ phase[c] = "emit" => target[c] \in Conns
    /\ phase[c] \in {"emit", "store"} => hand[c] \in Msgs

\* The type invariant with what makes it inductive.
TypeInv == TypeOK /\ PhaseOK

\* OfferProperties for the channels of the relay.
LEMMA ChannelOffer ==
  ASSUME TypeInv, NEW d \in Conns, NEW x \in Msgs \cup {Ctl}
  PROVE  /\ Offer(buf[d], x) \in Seq(Msgs \cup {Ctl})
         /\ Len(Offer(buf[d], x)) <= BufCap
         /\ \A m : Holds(Offer(buf[d], x), m) => Holds(buf[d], m) \/ m = x
<1> DEFINE S == Msgs \cup {Ctl}
           q == buf[d]
<1>1. q \in Seq(S) /\ Len(q) <= BufCap
  BY DEF TypeInv, TypeOK
<1>2. x \in S
  OBVIOUS
<1> HIDE DEF S, q
<1>3. /\ Offer(q, x) \in Seq(S)
      /\ Len(Offer(q, x)) <= BufCap
      /\ \A m : Holds(Offer(q, x), m) => Holds(q, m) \/ m = x
  BY <1>1, <1>2, OfferProperties
<1> QED
  BY <1>3 DEF S, q

\* A broadcast changes channels only by emits of control frames, whether it panics or not.
LEMMA AnnounceBuffers ==
  ASSUME NEW c \in Conns, Announce(c) \/ AnnouncePanics(c),
         buf \in [Conns -> Seq(Msgs \cup {Ctl})]
  PROVE  /\ buf' \in [Conns -> Seq(Msgs \cup {Ctl}) \cup {Offer(buf[d], Ctl) : d \in Conns}]
         /\ \A d \in Conns : buf'[d] \in {Offer(buf[d], Ctl), buf[d]}
<1>1. PICK D : buf' = [d \in Conns |-> IF d \in D THEN Offer(buf[d], Ctl) ELSE buf[d]]
  <2>1. CASE Announce(c)
    BY <2>1 DEF Announce
  <2>2. CASE AnnouncePanics(c)
    <3>1. PICK told : buf' = [d \in Conns |-> IF d \in told \cup {c} THEN Offer(buf[d], Ctl)
                                                                    ELSE buf[d]]
      BY <2>2 DEF AnnouncePanics
    <3> QED
      BY <3>1
  <2> QED
    BY <2>1, <2>2
<1> QED
  BY <1>1

\* TypeInv over a broadcast of presence.
LEMMA AnnounceTypes ==
  ASSUME TypeInv, NEW c \in Conns, Announce(c) \/ AnnouncePanics(c)
  PROVE  TypeInv'
<1> USE DEF TypeInv, TypeOK
<1>1. \A d \in Conns : /\ Offer(buf[d], Ctl) \in Seq(Msgs \cup {Ctl})
                       /\ Len(Offer(buf[d], Ctl)) <= BufCap
  BY ChannelOffer
<1>2. /\ buf' \in [Conns -> Seq(Msgs \cup {Ctl})]
      /\ \A d \in Conns : Len(buf'[d]) <= BufCap
  BY <1>1, AnnounceBuffers
<1>3. /\ UNCHANGED <<owner, hand, target, todo, up, closed, writing, clients, pending,
                     contacts, sent, kept, got, claimed>>
      /\ phase[c] = "announce"
  BY DEF Announce, AnnouncePanics, storeVars, historyVars
<1>4. PICK p \in {"popContacts", "closing"} : phase' = [phase EXCEPT ![c] = p]
  BY DEF Announce, AnnouncePanics, Goto
<1>5. TypeOK'
  BY <1>2, <1>3, <1>4 DEF Phases
<1>6. PhaseOK'
  BY <1>3, <1>4 DEF PhaseOK
<1> QED
  BY <1>5, <1>6

\* TypeInv over the pops of the two queues.
LEMMA PopTypes ==
  ASSUME TypeInv, NEW c \in Conns, PopContacts(c) \/ PopMessages(c)
  PROVE  TypeInv'
<1>1. /\ owner[c] \in Users
      /\ UNCHANGED <<owner, hand, target, up, closed, writing, buf, clients, sent, kept, got,
                     claimed>>
  BY DEF TypeInv, PhaseOK, PopContacts, PopMessages, channelVars, historyVars
<1>2. /\ pending' \in [Users -> Seq(Msgs)]
      /\ contacts' \in [Users -> Seq(Msgs)]
  <2>1. /\ pending' = pending \/ pending' = [pending EXCEPT ![owner[c]] = <<>>]
        /\ contacts' = contacts \/ contacts' = [contacts EXCEPT ![owner[c]] = <<>>]
    BY DEF PopContacts, PopMessages
  <2>2. pending \in [Users -> Seq(Msgs)] /\ contacts \in [Users -> Seq(Msgs)]
    BY DEF TypeInv, TypeOK
  <2>3. <<>> \in Seq(Msgs)
    OBVIOUS
  <2>4. \A f, g : /\ f \in [Users -> Seq(Msgs)]
                  /\ g = f \/ g = [f EXCEPT ![owner[c]] = <<>>]
                  => g \in [Users -> Seq(Msgs)]
    BY <2>3
  <2> QED
    BY <2>1, <2>2, <2>4
<1>3. PICK q \in Seq(Msgs) :
        /\ todo' = [todo EXCEPT ![c] = q]
        /\ \/ phase' = [phase EXCEPT ![c] = "idle"]
           \/ phase' = [phase EXCEPT ![c] = "popMessages"]
           \/ phase' = [phase EXCEPT ![c] = "giveContacts"] /\ q # <<>>
           \/ phase' = [phase EXCEPT ![c] = "giveMessages"] /\ q # <<>>
  <2>1. CASE PopContacts(c)
    <3>1. contacts[owner[c]] \in Seq(Msgs)
      BY <1>1 DEF TypeInv, TypeOK
    <3> QED
      BY <2>1, <3>1 DEF PopContacts, Goto
  <2>2. CASE PopMessages(c)
    <3>1. pending[owner[c]] \in Seq(Msgs)
      BY <1>1 DEF TypeInv, TypeOK
    <3> QED
      BY <2>2, <3>1 DEF PopMessages, Goto
  <2> QED
    BY <2>1, <2>2
<1>4. TypeOK'
  BY <1>1, <1>2, <1>3 DEF TypeInv, TypeOK, Phases
<1>5. PhaseOK'
  BY <1>1, <1>3 DEF TypeInv, TypeOK, PhaseOK
<1> QED
  BY <1>4, <1>5 DEF TypeInv

\* A step of one connection's goroutines keeps every variable in its type.
LEMMA ConnTypeStep ==
  ASSUME TypeInv, NEW c \in Conns,
         \/ Connect(c) \/ Disconnect(c)
         \/ \E u \in Ids[c] : Register(c, u)
         \/ \E m \in Msgs : Receive(c, m)
         \/ Reply(c)
         \/ Handler(c)
         \/ Writer(c)
  PROVE  TypeInv'
<1> USE ConstantsAssumption DEF TypeInv, TypeOK, PhaseOK, Phases, Goto, readerVars,
        channelVars, storeVars, historyVars
<1>1. CASE Connect(c)
  BY <1>1 DEF Connect
<1>2. CASE Disconnect(c)
  BY <1>2 DEF Disconnect
<1>3. CASE \E u \in Ids[c] : Register(c, u)
  <2>1. PICK u \in Ids[c] : Register(c, u)
    BY <1>3
  <2>2. u \in Users
    OBVIOUS
  <2> QED
    BY <2>1, <2>2 DEF Register
<1>4. CASE \E m \in Msgs : Receive(c, m)
  <2>1. PICK m \in Msgs : Receive(c, m)
    BY <1>4
  <2>2. Dest[m] \in Users
    OBVIOUS
  <2>3. Append(sent[c], m) \in Seq(Msgs)
    BY AppendHolds
  <2> QED
    BY <2>1, <2>2, <2>3 DEF Receive
<1>5. CASE Reply(c)
  <2>1. /\ Offer(buf[c], Ctl) \in Seq(Msgs \cup {Ctl})
        /\ Len(Offer(buf[c], Ctl)) <= BufCap
    BY ChannelOffer
  <2> QED
    BY <1>5, <2>1 DEF Reply
<1>6. CASE Handler(c)
  <2>1. \A d \in Conns : /\ Offer(buf[d], Ctl) \in Seq(Msgs \cup {Ctl})
                         /\ Len(Offer(buf[d], Ctl)) <= BufCap
    BY ChannelOffer
  <2>2. CASE Announce(c)
    BY <2>2, AnnounceTypes
  <2>3. CASE AnnouncePanics(c)
    BY <2>3, AnnounceTypes
  <2>4. CASE PopContacts(c)
    BY <2>4, PopTypes
  <2>5. CASE PopMessages(c)
    BY <2>5, PopTypes
  <2>6. CASE Give(c)
    <3>1. /\ todo[c] \in Seq(Msgs)
          /\ todo[c] # <<>>
          /\ buf[c] \in Seq(Msgs \cup {Ctl})
      BY <2>6 DEF Give
    <3>2. Tail(todo[c]) \in Seq(Msgs) /\ Head(todo[c]) \in Msgs
      BY <3>1, TailProperties
    <3>3. /\ Offer(buf[c], Head(todo[c])) \in Seq(Msgs \cup {Ctl})
          /\ Len(Offer(buf[c], Head(todo[c]))) <= BufCap
      BY <3>1, <3>2, ChannelOffer
    <3> QED
      BY <2>6, <3>2, <3>3 DEF Give
  <2>7. CASE Deliver(c)
    <3>1. target[c] \in Conns /\ hand[c] \in Msgs
      BY <2>7 DEF Deliver
    <3>2. /\ Offer(buf[target[c]], hand[c]) \in Seq(Msgs \cup {Ctl})
          /\ Len(Offer(buf[target[c]], hand[c])) <= BufCap
      BY <3>1, ChannelOffer
    <3> QED
      BY <2>7, <3>1, <3>2 DEF Deliver, Settle
  <2>8. CASE DeliverPanics(c)
    BY <2>8 DEF DeliverPanics
  <2>9. CASE Store(c)
    <3>1. hand[c] \in Msgs /\ Dest[hand[c]] \in Users
      BY <2>9 DEF Store
    <3>2. \A u \in Users : /\ Append(pending[u], hand[c]) \in Seq(Msgs)
                           /\ MergeContact(contacts[u], hand[c]) \in Seq(Msgs)
      BY <3>1, AppendHolds, MergeProperties
    <3> QED
      BY <2>9, <3>1, <3>2 DEF Store, Settle
  <2>10. CASE Ack(c)
    BY <2>1, <2>10 DEF Ack
  <2>11. CASE Unlist(c)
    BY <2>11 DEF Unlist
  <2>12. CASE CloseChannel(c)
    BY <2>12 DEF CloseChannel
  <2> QED
    BY <1>6, <2>2, <2>3, <2>4, <2>5, <2>6, <2>7, <2>8, <2>9, <2>10, <2>11, <2>12 DEF Handler
<1>7. CASE Writer(c)
  <2>1. buf[c] \in Seq(Msgs \cup {Ctl}) /\ buf[c] # <<>>
    BY <1>7 DEF Writer, Write, WriteLost
  <2>2. /\ Tail(buf[c]) \in Seq(Msgs \cup {Ctl})
        /\ Len(Tail(buf[c])) <= BufCap
        /\ Head(buf[c]) \in Msgs \cup {Ctl}
    BY <2>1, TailProperties
  <2>3. Head(buf[c]) # Ctl => Append(got[c], Head(buf[c])) \in Seq(Msgs)
    BY <2>2, AppendHolds
  <2>4. CASE Write(c)
    BY <2>2, <2>3, <2>4 DEF Write
  <2>5. CASE WriteLost(c)
    BY <2>2, <2>5 DEF WriteLost
  <2> QED
    BY <1>7, <2>4, <2>5 DEF Writer
<1> QED
  BY <1>1, <1>2, <1>3, <1>4, <1>5, <1>6, <1>7

\* TypeInv before the first step.
LEMMA TypeInitially == Init => TypeInv
BY ConstantsAssumption DEF Init, TypeInv, TypeOK, PhaseOK, Phases

\* TypeInv is inductive.
LEMMA TypeStep ==
  ASSUME TypeInv, [Next]_vars
  PROVE  TypeInv'
<1>1. CASE Cleanup
  <2>1. pending \in [Users -> Seq(Msgs)] /\ contacts \in [Users -> Seq(Msgs)]
    BY DEF TypeInv, TypeOK
  <2>2. pending' \in [Users -> Seq(Msgs)] /\ contacts' \in [Users -> Seq(Msgs)]
    BY <1>1, <2>1, CleanupProperties
  <2> QED
    BY <1>1, <2>2 DEF Cleanup, TypeInv, TypeOK, PhaseOK, readerVars, channelVars, historyVars
<1>2. CASE UNCHANGED vars
  BY <1>2 DEF vars, TypeInv, TypeOK, PhaseOK
<1> QED
  BY <1>1, <1>2, ConnTypeStep DEF Next

\* Every variable keeps its shape and no channel exceeds its capacity, with any number of
\* connections and frames.
THEOREM TypeCorrect == Spec => [](TypeOK /\ PhaseOK)
<1>1. Init => TypeInv
  BY TypeInitially
<1>2. TypeInv /\ [Next]_vars => TypeInv'
  BY TypeStep
<1> QED
  BY <1>1, <1>2, PTL DEF Spec, TypeInv

-----------------------------------------------------------------------------
(* Registered connections are open                                         *)

\* RegisteredOpen is not inductive: it says nothing of the moment between the two halves of
\* close().  A channel is closed only by the last step of close(), and from its first step
\* on the connection is out of the map under its own user id.
OpenInv ==
  /\ \A c \in Conns : closed[c] => phase[c] = "gone"
  /\ \A c \in Conns, u \in Users :
       phase[c] \in {"unlisted", "gone"} /\ clients[u] = c => owner[c] # u

\* Every step but four leaves the map, the owners and the closed flags alone and moves no
\* goroutine into or out of the end of close().
LEMMA QuietSteps ==
  ASSUME TypeInv, Next,
         ~ \E c \in Conns : \/ \E u \in Ids[c] : Register(c, u)
                           \/ Unlist(c) \/ CloseChannel(c)
  PROVE  /\ UNCHANGED <<owner, clients, closed>>
         /\ \A c \in Conns : phase[c] # phase'[c] =>
              /\ phase[c] \notin {"unlisted", "gone"}
              /\ phase'[c] \notin {"unlisted", "gone"}
<1>1. phase \in [Conns -> Phases]
  BY DEF TypeInv, TypeOK
<1>2. CASE Cleanup
  BY <1>2 DEF Cleanup, readerVars, channelVars
<1>3. ASSUME NEW c \in Conns,
             \/ Connect(c) \/ Disconnect(c) \/ Reply(c) \/ Writer(c)
             \/ \E m \in Msgs : Receive(c, m)
      PROVE  /\ UNCHANGED <<owner, clients, closed>>
             /\ \A d \in Conns : phase[d] # phase'[d] =>
                  /\ phase[d] \notin {"unlisted", "gone"}
                  /\ phase'[d] \notin {"unlisted", "gone"}
  BY <1>1, <1>3 DEF Connect, Disconnect, Reply, Writer, Write, WriteLost, Receive, Goto,
                    readerVars, channelVars
<1>4. ASSUME NEW c \in Conns, Announce(c) \/ AnnouncePanics(c) \/ PopContacts(c)
                              \/ PopMessages(c) \/ Give(c)
      PROVE  /\ UNCHANGED <<owner, clients, closed>>
             /\ \A d \in Conns : phase[d] # phase'[d] =>
                  /\ phase[d] \notin {"unlisted", "gone"}
                  /\ phase'[d] \notin {"unlisted", "gone"}
  BY <1>1, <1>4 DEF Announce, AnnouncePanics, PopContacts, PopMessages, Give, Goto,
                    channelVars
<1>5. ASSUME NEW c \in Conns, Deliver(c) \/ DeliverPanics(c) \/ Store(c) \/ Ack(c)
      PROVE  /\ UNCHANGED <<owner, clients, closed>>
             /\ \A d \in Conns : phase[d] # phase'[d] =>
                  /\ phase[d] \notin {"unlisted", "gone"}
                  /\ phase'[d] \notin {"unlisted", "gone"}
  BY <1>1, <1>5 DEF Deliver, DeliverPanics, Store, Ack, Settle, Goto, channelVars
<1> QED
  BY <1>2, <1>3, <1>4, <1>5 DEF Next, Handler

\* OpenInv is inductive.
LEMMA OpenStep ==
  ASSUME TypeInv, OpenInv, [Next]_vars
  PROVE  OpenInv'
<1>1. /\ phase \in [Conns -> Phases]
      /\ owner \in [Conns -> Users \cup {NoUser}]
      /\ closed \in [Conns -> BOOLEAN]
      /\ clients \in [Users -> Conns \cup {NoConn}]
  BY DEF TypeInv, TypeOK
<1>2. ASSUME NEW c \in Conns, NEW u \in Ids[c], Register(c, u)
      PROVE  OpenInv'
  <2>1. u \in Users
    BY ConstantsAssumption
  <2>2. /\ phase[c] = "idle"
        /\ phase' = [phase EXCEPT ![c] = "announce"]
        /\ owner' = [owner EXCEPT ![c] = u]
        /\ clients' = [clients EXCEPT ![u] = c]
        /\ closed' = closed
    BY <1>2 DEF Register, Goto, channelVars
  <2> QED
    BY <1>1, <2>1, <2>2 DEF OpenInv
<1>3. ASSUME NEW c \in Conns, Unlist(c)
      PROVE  OpenInv'
  <2>1. /\ phase[c] \in {"closing", "idle"}
        /\ phase' = [phase EXCEPT ![c] = "unlisted"]
        /\ clients' = [u \in Users |->
                         IF u = owner[c] /\ clients[u] = c THEN NoConn ELSE clients[u]]
        /\ UNCHANGED <<owner, closed>>
    BY <1>3 DEF Unlist, Goto, channelVars
  <2>2. NoConn \notin Conns
    BY ConstantsAssumption
  <2> QED
    BY <1>1, <2>1, <2>2 DEF OpenInv
<1>4. ASSUME NEW c \in Conns, CloseChannel(c)
      PROVE  OpenInv'
  <2>1. /\ phase[c] = "unlisted"
        /\ phase' = [phase EXCEPT ![c] = "gone"]
        /\ closed' = [closed EXCEPT ![c] = TRUE]
        /\ UNCHANGED <<owner, clients>>
    BY <1>4 DEF CloseChannel, Goto
  <2> QED
    BY <1>1, <2>1 DEF OpenInv
<1>5. CASE UNCHANGED vars
  BY <1>5 DEF vars, OpenInv
<1>6. CASE Next /\ ~ \E c \in Conns : \/ \E u \in Ids[c] : Register(c, u)
                                      \/ Unlist(c) \/ CloseChannel(c)
  BY <1>6, QuietSteps DEF OpenInv
<1> QED
  BY <1>2, <1>3, <1>4, <1>5, <1>6

\* What the map of clients leads to under a connection's own user id can be sent to: no
\* emit to it panics, for any number of connections closing and registering at once.
THEOREM RegisteredConnectionsAreOpen == Spec => []RegisteredOpen
<1>1. Init => OpenInv
  BY DEF Init, OpenInv
<1>2. TypeInv /\ OpenInv /\ [Next]_vars => OpenInv'
  BY OpenStep
<1>3. OpenInv => RegisteredOpen
  BY DEF OpenInv, RegisteredOpen
<1>4. Spec => []TypeInv
  BY TypeCorrect DEF TypeInv
<1> QED
  BY <1>1, <1>2, <1>3, <1>4, PTL DEF Spec

\* The close of one connection never takes another one out of the map of clients: an entry
\* changes only when a connection registers under its id or the connection itself leaves.
THEOREM TheNewestConnectionStays == Spec => NewestWins
<1> DEFINE Kept == \A u \in Users, c \in Conns :
       clients[u] = c /\ clients'[u] # c
         => \/ phase'[c] = "unlisted"
            \/ \E d \in Conns : phase[d] = "idle" /\ phase'[d] = "announce" /\ owner'[d] = u
<1>1. TypeInv /\ [Next]_vars => [Kept]_vars
  <2> SUFFICES ASSUME TypeInv, Next PROVE Kept
    OBVIOUS
  <2>1. /\ phase \in [Conns -> Phases]
        /\ owner \in [Conns -> Users \cup {NoUser}]
        /\ clients \in [Users -> Conns \cup {NoConn}]
    BY DEF TypeInv, TypeOK
  <2>2. ASSUME NEW c \in Conns, NEW u \in Ids[c], Register(c, u)
        PROVE  Kept
    BY <2>1, <2>2 DEF Register, Goto
  <2>3. ASSUME NEW c \in Conns, Unlist(c)
        PROVE  Kept
    BY <2>1, <2>3 DEF Unlist, Goto
  <2>4. ASSUME NEW c \in Conns, CloseChannel(c)
        PROVE  Kept
    BY <2>4 DEF CloseChannel
  <2>5. CASE ~ \E c \in Conns : \/ \E u \in Ids[c] : Register(c, u)
                               \/ Unlist(c) \/ CloseChannel(c)
    BY <2>5, QuietSteps
  <2> QED
    BY <2>2, <2>3, <2>4, <2>5
<1>2. Spec => []TypeInv
  BY TypeCorrect DEF TypeInv
<1> QED
  BY <1>1, <1>2, PTL DEF Spec, NewestWins

-----------------------------------------------------------------------------
(* Confinement                                                             *)

\* A message is queued under its recipient, and a connection is in the map only under an id
\* it has registered.
RightQueue ==
  \A u \in Users : \A m : Holds(pending[u], m) \/ Holds(contacts[u], m) => Dest[m] = u

\* A connection is in the map, or has an owner, only under what it registered as.
RightOwner ==
  /\ \A u \in Users, c \in Conns : clients[u] = c => u \in claimed[c]
  /\ \A c \in Conns : owner[c] \in Users => owner[c] \in claimed[c]

\* Confined is not inductive: the entry to() found may be replaced before its emit, so what
\* must survive is that the connection found had registered as the recipient.
RightTarget ==
  \A c \in Conns : target[c] \in Conns => Dest[hand[c]] \in claimed[target[c]]

\* The invariant of confinement.
ConfineInv == RightQueue /\ RightOwner /\ RightTarget /\ Confined

\* claimed only grows, and the parts of ConfineInv are about three groups of variables.
LEMMA ConfineFrame ==
  ASSUME TypeInv, ConfineInv,
         \A c \in Conns : claimed[c] \subseteq claimed'[c],
         UNCHANGED <<owner, clients>>
  PROVE  /\ RightOwner'
         /\ UNCHANGED <<pending, contacts>> => RightQueue'
         /\ UNCHANGED <<hand, target>> => RightTarget'
         /\ UNCHANGED <<todo, buf, got>> => Confined'
<1>1. RightOwner'
  BY DEF ConfineInv, RightOwner
<1>2. ASSUME UNCHANGED <<pending, contacts>> PROVE RightQueue'
  BY <1>2 DEF ConfineInv, RightQueue
<1>3. ASSUME UNCHANGED <<hand, target>> PROVE RightTarget'
  BY <1>3 DEF ConfineInv, RightTarget
<1>4. ASSUME UNCHANGED <<todo, buf, got>> PROVE Confined'
  BY <1>4 DEF ConfineInv, Confined
<1> QED
  BY <1>1, <1>2, <1>3, <1>4

\* ConfineInv over what opens, closes, registers or reads for a connection.
LEMMA ConfineConnections ==
  ASSUME TypeInv, ConfineInv, NEW c \in Conns,
         \/ Connect(c) \/ Disconnect(c) \/ Unlist(c) \/ CloseChannel(c)
         \/ \E u \in Ids[c] : Register(c, u)
         \/ \E m \in Msgs : Receive(c, m)
  PROVE  ConfineInv'
<1> USE DEF readerVars, channelVars, storeVars, historyVars
<1>1. /\ owner \in [Conns -> Users \cup {NoUser}]
      /\ clients \in [Users -> Conns \cup {NoConn}]
      /\ claimed \in [Conns -> SUBSET Users]
      /\ hand \in [Conns -> Msgs \cup {NoMsg}]
      /\ target \in [Conns -> Conns \cup {NoConn}]
      /\ buf \in [Conns -> Seq(Msgs \cup {Ctl})]
      /\ NoConn \notin Conns
  BY ConstantsAssumption DEF TypeInv, TypeOK
<1>2. CASE Connect(c) \/ Disconnect(c)
  BY <1>2, ConfineFrame DEF ConfineInv, Connect, Disconnect
<1>3. CASE Unlist(c)
  <2>1. /\ clients' = [u \in Users |->
                         IF u = owner[c] /\ clients[u] = c THEN NoConn ELSE clients[u]]
        /\ UNCHANGED <<owner, hand, target, todo, buf, got, pending, contacts, claimed>>
    BY <1>3 DEF Unlist
  <2>2. RightOwner'
    BY <1>1, <2>1 DEF ConfineInv, RightOwner
  <2> QED
    BY <2>1, <2>2 DEF ConfineInv, RightQueue, RightTarget, Confined
<1>4. CASE CloseChannel(c)
  <2>1. /\ buf' = [buf EXCEPT ![c] = <<>>]
        /\ UNCHANGED <<owner, clients, hand, target, todo, got, pending, contacts, claimed>>
    BY <1>4 DEF CloseChannel
  <2>2. \A d \in Conns : \A m : Holds(buf'[d], m) => Holds(buf[d], m)
    <3>1. \A m : ~Holds(<<>>, m)
      BY DEF Holds
    <3> QED
      BY <1>1, <2>1, <3>1
  <2>3. Confined'
    BY <2>1, <2>2 DEF ConfineInv, Confined
  <2> QED
    BY <2>1, <2>3, ConfineFrame DEF ConfineInv
<1>5. ASSUME NEW u \in Ids[c], Register(c, u)
      PROVE  ConfineInv'
  <2>1. u \in Users
    BY ConstantsAssumption
  <2>2. /\ owner' = [owner EXCEPT ![c] = u]
        /\ clients' = [clients EXCEPT ![u] = c]
        /\ claimed' = [claimed EXCEPT ![c] = @ \cup {u}]
        /\ UNCHANGED <<hand, target, todo, buf, got, pending, contacts>>
    BY <1>5 DEF Register
  <2>3. \A d \in Conns : claimed[d] \subseteq claimed'[d]
    BY <1>1, <2>2
  <2>4. RightOwner'
    BY <1>1, <2>1, <2>2 DEF ConfineInv, RightOwner
  <2>5. RightTarget'
    BY <2>2, <2>3 DEF ConfineInv, RightTarget
  <2>6. Confined'
    BY <2>2, <2>3 DEF ConfineInv, Confined
  <2> QED
    BY <2>2, <2>4, <2>5, <2>6 DEF ConfineInv, RightQueue
<1>6. ASSUME NEW m \in Msgs, Receive(c, m)
      PROVE  ConfineInv'
  <2>1. /\ hand' = [hand EXCEPT ![c] = m]
        /\ target' = [target EXCEPT ![c] = clients[Dest[m]]]
        /\ UNCHANGED <<owner, clients, todo, buf, got, pending, contacts, claimed>>
    BY <1>6 DEF Receive
  <2>2. Dest[m] \in Users
    BY ConstantsAssumption
  <2>3. RightTarget'
    BY <1>1, <2>1, <2>2 DEF ConfineInv, RightTarget, RightOwner
  <2> QED
    BY <2>1, <2>3, ConfineFrame DEF ConfineInv
<1> QED
  BY <1>2, <1>3, <1>4, <1>5, <1>6

\* ConfineInv over a broadcast, the pops and the giving of what was popped.
LEMMA ConfineRegister ==
  ASSUME TypeInv, ConfineInv, NEW c \in Conns,
         Announce(c) \/ AnnouncePanics(c) \/ PopContacts(c) \/ PopMessages(c) \/ Give(c)
  PROVE  ConfineInv'
<1> USE DEF readerVars, channelVars, storeVars, historyVars
<1>1. /\ todo \in [Conns -> Seq(Msgs)]
      /\ buf \in [Conns -> Seq(Msgs \cup {Ctl})]
      /\ pending \in [Users -> Seq(Msgs)]
      /\ contacts \in [Users -> Seq(Msgs)]
      /\ \A d \in Conns : Len(buf[d]) <= BufCap
      /\ Ctl \notin Msgs
  BY ConstantsAssumption DEF TypeInv, TypeOK
<1>2. CASE Announce(c) \/ AnnouncePanics(c)
  <2>1. UNCHANGED <<owner, clients, hand, target, todo, got, pending, contacts, claimed>>
    BY <1>2 DEF Announce, AnnouncePanics
  <2>2. \A d \in Conns : \A m \in Msgs : Holds(buf'[d], m) => Holds(buf[d], m)
    <3>1. \A d \in Conns :
            /\ Offer(buf[d], Ctl) \in Seq(Msgs \cup {Ctl})
            /\ \A m : Holds(Offer(buf[d], Ctl), m) => Holds(buf[d], m) \/ m = Ctl
      BY <1>1, ChannelOffer
    <3>2. \A d \in Conns : buf'[d] \in {Offer(buf[d], Ctl), buf[d]}
      BY <1>1, <1>2, AnnounceBuffers
    <3> QED
      BY <1>1, <3>1, <3>2
  <2>3. Confined'
    BY <2>1, <2>2 DEF ConfineInv, Confined
  <2> QED
    BY <2>1, <2>3, ConfineFrame DEF ConfineInv
<1>3. CASE PopContacts(c) \/ PopMessages(c)
  <2>1. /\ owner[c] \in Users
        /\ UNCHANGED <<owner, clients, hand, target, buf, got, claimed>>
    BY <1>3 DEF PopContacts, PopMessages, TypeInv, PhaseOK
  <2>2. \A m : ~Holds(<<>>, m)
    BY DEF Holds
  <2>3. RightQueue'
    <3>1. /\ pending' = pending \/ pending' = [pending EXCEPT ![owner[c]] = <<>>]
          /\ contacts' = contacts \/ contacts' = [contacts EXCEPT ![owner[c]] = <<>>]
      BY <1>3 DEF PopContacts, PopMessages
    <3>2. \A u \in Users : /\ pending'[u] \in {pending[u], <<>>}
                           /\ contacts'[u] \in {contacts[u], <<>>}
      BY <1>1, <3>1
    <3> QED
      BY <2>2, <3>2 DEF ConfineInv, RightQueue
  <2>4. Confined'
    <3>1. \/ todo' = [todo EXCEPT ![c] = contacts[owner[c]]]
          \/ todo' = [todo EXCEPT ![c] = pending[owner[c]]]
      BY <1>3 DEF PopContacts, PopMessages
    <3>2. \A m : Holds(todo'[c], m) => Dest[m] \in claimed[c]
      BY <1>1, <2>1, <3>1 DEF ConfineInv, RightQueue, RightOwner
    <3>3. \A d \in Conns \ {c} : todo'[d] = todo[d]
      BY <1>1, <3>1
    <3> QED
      BY <2>1, <3>2, <3>3 DEF ConfineInv, Confined
  <2> QED
    BY <2>1, <2>3, <2>4, ConfineFrame DEF ConfineInv
<1>4. CASE Give(c)
  <2>1. /\ todo[c] # <<>>
        /\ buf' = [buf EXCEPT ![c] = Offer(@, Head(todo[c]))]
        /\ todo' = [todo EXCEPT ![c] = Tail(@)]
        /\ UNCHANGED <<owner, clients, hand, target, got, pending, contacts, claimed>>
    BY <1>4 DEF Give, TypeInv, PhaseOK
  <2>2. /\ Head(todo[c]) \in Msgs
        /\ Holds(todo[c], Head(todo[c]))
        /\ \A m : Holds(Tail(todo[c]), m) => Holds(todo[c], m)
    BY <1>1, <2>1, TailProperties
  <2>3. /\ Offer(buf[c], Head(todo[c])) \in Seq(Msgs \cup {Ctl})
        /\ \A m : Holds(Offer(buf[c], Head(todo[c])), m)
                  => Holds(buf[c], m) \/ m = Head(todo[c])
    BY <1>1, <2>2, ChannelOffer
  <2>4. /\ buf'[c] = Offer(buf[c], Head(todo[c]))
        /\ todo'[c] = Tail(todo[c])
        /\ \A d \in Conns \ {c} : buf'[d] = buf[d] /\ todo'[d] = todo[d]
    BY <1>1, <2>1
  <2>5. \A m : Holds(todo'[c], m) \/ Holds(buf'[c], m) => Holds(todo[c], m) \/ Holds(buf[c], m)
    BY <2>2, <2>3, <2>4
  <2>6. Confined'
    BY <2>1, <2>4, <2>5 DEF ConfineInv, Confined
  <2> QED
    BY <2>1, <2>6, ConfineFrame DEF ConfineInv
<1> QED
  BY <1>2, <1>3, <1>4

\* ConfineInv over the emit or the storing of what is in hand, and the answers.
LEMMA ConfineRelay ==
  ASSUME TypeInv, ConfineInv, NEW c \in Conns,
         Deliver(c) \/ DeliverPanics(c) \/ Store(c) \/ Ack(c) \/ Reply(c)
  PROVE  ConfineInv'
<1> USE DEF readerVars, channelVars, storeVars, historyVars
<1>1. /\ hand \in [Conns -> Msgs \cup {NoMsg}]
      /\ target \in [Conns -> Conns \cup {NoConn}]
      /\ buf \in [Conns -> Seq(Msgs \cup {Ctl})]
      /\ pending \in [Users -> Seq(Msgs)]
      /\ contacts \in [Users -> Seq(Msgs)]
      /\ \A d \in Conns : Len(buf[d]) <= BufCap
      /\ Ctl \notin Msgs
      /\ NoConn \notin Conns
  BY ConstantsAssumption DEF TypeInv, TypeOK
<1>2. CASE Deliver(c)
  <2>1. /\ hand[c] \in Msgs
        /\ target[c] \in Conns
        /\ buf' = [buf EXCEPT ![target[c]] = Offer(@, hand[c])]
        /\ hand' = [hand EXCEPT ![c] = NoMsg]
        /\ target' = [target EXCEPT ![c] = NoConn]
        /\ UNCHANGED <<owner, clients, todo, got, pending, contacts, claimed>>
    BY <1>2 DEF Deliver, Settle, TypeInv, PhaseOK
  <2>2. /\ Offer(buf[target[c]], hand[c]) \in Seq(Msgs \cup {Ctl})
        /\ \A m : Holds(Offer(buf[target[c]], hand[c]), m)
                  => Holds(buf[target[c]], m) \/ m = hand[c]
    BY <1>1, <2>1, ChannelOffer
  <2>3. Dest[hand[c]] \in claimed[target[c]]
    BY <2>1 DEF ConfineInv, RightTarget
  <2>4. \A d \in Conns : d # target[c] => buf'[d] = buf[d]
    BY <1>1, <2>1
  <2>5. buf'[target[c]] = Offer(buf[target[c]], hand[c])
    BY <1>1, <2>1
  <2>6. Confined'
    BY <2>1, <2>2, <2>3, <2>4, <2>5 DEF ConfineInv, Confined
  <2>7. RightTarget'
    BY <1>1, <2>1 DEF ConfineInv, RightTarget
  <2> QED
    BY <2>1, <2>6, <2>7, ConfineFrame DEF ConfineInv
<1>3. CASE DeliverPanics(c)
  <2>1. /\ hand' = [hand EXCEPT ![c] = NoMsg]
        /\ target' = [target EXCEPT ![c] = NoConn]
        /\ UNCHANGED <<owner, clients, todo, buf, got, pending, contacts, claimed>>
    BY <1>3 DEF DeliverPanics
  <2>2. RightTarget'
    BY <1>1, <2>1 DEF ConfineInv, RightTarget
  <2> QED
    BY <2>1, <2>2, ConfineFrame DEF ConfineInv
<1>4. CASE Store(c)
  <2> DEFINE m == hand[c]
             u == Dest[hand[c]]
  <2>1. /\ m \in Msgs
        /\ u \in Users
        /\ hand' = [hand EXCEPT ![c] = NoMsg]
        /\ target' = [target EXCEPT ![c] = NoConn]
        /\ pending' = pending \/ pending' = [pending EXCEPT ![u] = Append(@, m)]
        /\ contacts' = contacts \/ contacts' = [contacts EXCEPT ![u] = MergeContact(@, m)]
        /\ UNCHANGED <<owner, clients, todo, buf, got, claimed>>
    <3>1. m \in Msgs /\ u \in Users
      BY <1>4, ConstantsAssumption DEF Store, TypeInv, PhaseOK
    <3> QED
      BY <1>1, <1>4, <3>1 DEF Store, Settle
  <2>2. RightTarget'
    BY <1>1, <2>1 DEF ConfineInv, RightTarget
  <2>3. /\ Append(pending[u], m) \in Seq(Msgs)
        /\ \A x : Holds(Append(pending[u], m), x) => Holds(pending[u], x) \/ x = m
        /\ \A x : Holds(MergeContact(contacts[u], m), x) => Holds(contacts[u], x) \/ x = m
    BY <1>1, <2>1, AppendHolds, MergeProperties
  <2>4. /\ pending'[u] \in {pending[u], Append(pending[u], m)}
        /\ contacts'[u] \in {contacts[u], MergeContact(contacts[u], m)}
        /\ \A v \in Users \ {u} : pending'[v] = pending[v] /\ contacts'[v] = contacts[v]
    BY <1>1, <2>1
  <2>5. RightQueue'
    BY <2>3, <2>4 DEF ConfineInv, RightQueue
  <2> QED
    BY <2>1, <2>2, <2>5, ConfineFrame DEF ConfineInv
<1>5. CASE Ack(c) \/ Reply(c)
  <2>1. /\ buf' = [buf EXCEPT ![c] = Offer(@, Ctl)]
        /\ UNCHANGED <<owner, clients, hand, target, todo, got, pending, contacts, claimed>>
    BY <1>5 DEF Ack, Reply
  <2>2. /\ Offer(buf[c], Ctl) \in Seq(Msgs \cup {Ctl})
        /\ \A m : Holds(Offer(buf[c], Ctl), m) => Holds(buf[c], m) \/ m = Ctl
    BY <1>1, ChannelOffer
  <2>3. \A d \in Conns : \A m \in Msgs : Holds(buf'[d], m) => Holds(buf[d], m)
    BY <1>1, <2>1, <2>2
  <2>4. Confined'
    BY <2>1, <2>3 DEF ConfineInv, Confined
  <2> QED
    BY <2>1, <2>4, ConfineFrame DEF ConfineInv
<1> QED
  BY <1>2, <1>3, <1>4, <1>5

\* ConfineInv over the writer.
LEMMA ConfineWriter ==
  ASSUME TypeInv, ConfineInv, NEW c \in Conns, Writer(c)
  PROVE  ConfineInv'
<1>1. /\ buf \in [Conns -> Seq(Msgs \cup {Ctl})]
      /\ got \in [Conns -> Seq(Msgs)]
  BY DEF TypeInv, TypeOK
<1>2. /\ buf[c] # <<>>
      /\ buf' = [buf EXCEPT ![c] = Tail(@)]
      /\ \/ got' = got
         \/ got' = [got EXCEPT ![c] = Append(@, Head(buf[c]))] /\ Head(buf[c]) # Ctl
      /\ UNCHANGED <<owner, clients, hand, target, todo, pending, contacts, claimed>>
  <2>1. CASE Write(c)
    BY <1>1, <2>1 DEF Write, readerVars, storeVars
  <2>2. CASE WriteLost(c)
    BY <2>2 DEF WriteLost, readerVars, storeVars, historyVars
  <2> QED
    BY <2>1, <2>2 DEF Writer
<1>3. /\ Head(buf[c]) \in Msgs \cup {Ctl}
      /\ Tail(buf[c]) \in Seq(Msgs \cup {Ctl})
      /\ Holds(buf[c], Head(buf[c]))
      /\ \A m : Holds(Tail(buf[c]), m) => Holds(buf[c], m)
  BY <1>1, <1>2, TailProperties
<1>4. Head(buf[c]) # Ctl =>
        /\ Append(got[c], Head(buf[c])) \in Seq(Msgs)
        /\ \A m : Holds(Append(got[c], Head(buf[c])), m) => Holds(got[c], m) \/ m = Head(buf[c])
  BY <1>1, <1>3, AppendHolds
<1>5. \A m : /\ Holds(buf'[c], m) => Holds(buf[c], m)
             /\ Holds(got'[c], m) => Holds(got[c], m) \/ Holds(buf[c], m)
  BY <1>1, <1>2, <1>3, <1>4
<1>6. \A d \in Conns \ {c} : buf'[d] = buf[d] /\ got'[d] = got[d]
  BY <1>1, <1>2
<1>7. Confined'
  BY <1>2, <1>5, <1>6 DEF ConfineInv, Confined
<1> QED
  BY <1>2, <1>7, ConfineFrame DEF ConfineInv

\* ConfineInv before the first step.
LEMMA ConfineInitially == Init => ConfineInv
<1>1. \A m : ~Holds(<<>>, m)
  BY DEF Holds
<1> QED
  BY <1>1, ConstantsAssumption
     DEF Init, ConfineInv, RightQueue, RightOwner, RightTarget, Confined

\* ConfineInv is inductive.
LEMMA ConfineStep ==
  ASSUME TypeInv, ConfineInv, [Next]_vars
  PROVE  ConfineInv'
<1>1. CASE Cleanup
  <2>1. /\ pending \in [Users -> Seq(Msgs)]
        /\ contacts \in [Users -> Seq(Msgs)]
    BY DEF TypeInv, TypeOK
  <2>2. \A u \in Users : \A m : /\ Holds(pending'[u], m) => Holds(pending[u], m)
                                /\ Holds(contacts'[u], m) => Holds(contacts[u], m)
    BY <1>1, <2>1, CleanupProperties
  <2>3. RightQueue'
    BY <2>2 DEF ConfineInv, RightQueue
  <2> QED
    BY <1>1, <2>3, ConfineFrame
       DEF ConfineInv, Cleanup, readerVars, channelVars, historyVars
<1>2. CASE UNCHANGED vars
  BY <1>2, ConfineFrame DEF vars, ConfineInv
<1> QED
  BY <1>1, <1>2, ConfineConnections, ConfineRegister, ConfineRelay, ConfineWriter
     DEF Next, Handler

\* Whatever connections register, close, panic or are looked up meanwhile, a message is on
\* its way only to connections that registered as its recipient, and queued only for it.
THEOREM MessagesAreConfined == Spec => [](Confined /\ RightQueue)
<1>1. Init => ConfineInv
  BY ConfineInitially
<1>2. TypeInv /\ ConfineInv /\ [Next]_vars => ConfineInv'
  BY ConfineStep
<1>3. Spec => []TypeInv
  BY TypeCorrect DEF TypeInv
<1> QED
  BY <1>1, <1>2, <1>3, PTL DEF Spec, ConfineInv

\* No frame but the control frame is twice in q.
Once(q) == \A i, j \in DOMAIN q : q[i] = q[j] /\ q[i] # Ctl => i = j

\* No two frames of q have one sender.
OneNotice(q) == \A i, j \in DOMAIN q : From[q[i]] = From[q[j]] => i = j

\* The empty queue holds nothing.
LEMMA EmptyQueue ==
  Once(<<>>) /\ OneNotice(<<>>) /\ \A m, n : ~Holds(<<>>, m) /\ ~Precedes(<<>>, m, n)
BY DEF Once, OneNotice, Holds, Precedes

\* Append, exactly.
LEMMA AppendEffect ==
  ASSUME NEW S, NEW q \in Seq(S), NEW x \in S
  PROVE  /\ \A m : Holds(Append(q, x), m) <=> Holds(q, m) \/ m = x
         /\ Once(q) /\ (x = Ctl \/ ~Holds(q, x)) => Once(Append(q, x))
         /\ \A m, n : Precedes(Append(q, x), m, n) <=> Precedes(q, m, n) \/ (Holds(q, m) /\ n = x)
<1> DEFINE r == Append(q, x)
           n0 == Len(q)
<1>1. /\ n0 \in Nat
      /\ DOMAIN q = 1..n0
      /\ DOMAIN r = 1..(n0 + 1)
      /\ \A i \in 1..n0 : r[i] = q[i]
      /\ r[n0 + 1] = x
  OBVIOUS
<1> HIDE DEF r, n0
<1>2. \A m : Holds(r, m) <=> Holds(q, m) \/ m = x
  BY <1>1 DEF Holds
<1>3. Once(q) /\ (x = Ctl \/ ~Holds(q, x)) => Once(r)
  BY <1>1 DEF Holds, Once
<1>4. ASSUME NEW m, NEW n
      PROVE  Precedes(r, m, n) <=> Precedes(q, m, n) \/ (Holds(q, m) /\ n = x)
  <2>1. ASSUME Precedes(r, m, n) PROVE Precedes(q, m, n) \/ (Holds(q, m) /\ n = x)
    <3>1. PICK i \in DOMAIN r, j \in DOMAIN r : i < j /\ r[i] = m /\ r[j] = n
      BY <2>1 DEF Precedes
    <3>2. i \in 1..n0 /\ q[i] = m
      BY <1>1, <3>1
    <3>3. CASE j = n0 + 1
      BY <1>1, <3>1, <3>2, <3>3 DEF Holds
    <3>4. CASE j \in 1..n0
      BY <1>1, <3>1, <3>2, <3>4 DEF Precedes
    <3> QED
      BY <1>1, <3>3, <3>4
  <2>2. ASSUME Precedes(q, m, n) PROVE Precedes(r, m, n)
    <3>1. PICK i \in DOMAIN q, j \in DOMAIN q : i < j /\ q[i] = m /\ q[j] = n
      BY <2>2 DEF Precedes
    <3> QED
      BY <1>1, <3>1 DEF Precedes
  <2>3. ASSUME Holds(q, m), n = x PROVE Precedes(r, m, n)
    <3>1. PICK i \in DOMAIN q : q[i] = m
      BY <2>3 DEF Holds
    <3>2. i \in DOMAIN r /\ n0 + 1 \in DOMAIN r /\ i < n0 + 1 /\ r[i] = m /\ r[n0 + 1] = n
      BY <1>1, <2>3, <3>1
    <3> QED
      BY <3>2 DEF Precedes
  <2> QED
    BY <2>1, <2>2, <2>3
<1> QED
  BY <1>2, <1>3, <1>4 DEF r

\* emit, exactly.
LEMMA OfferEffect ==
  ASSUME NEW S, NEW q \in Seq(S), NEW x \in S, Len(q) <= BufCap
  PROVE  /\ \A m : Holds(Offer(q, x), m) <=> Holds(q, m) \/ (Len(q) # BufCap /\ m = x)
         /\ Once(q) /\ (x = Ctl \/ ~Holds(q, x)) => Once(Offer(q, x))
         /\ \A m, n : Precedes(Offer(q, x), m, n) =>
                        Precedes(q, m, n) \/ (Holds(q, m) /\ n = x)
<1>1. Len(q) \in Nat /\ BufCap \in Nat
  BY ConstantsAssumption
<1>2. CASE Len(q) < BufCap
  <2>1. Offer(q, x) = Append(q, x) /\ Len(q) # BufCap
    BY <1>1, <1>2 DEF Offer
  <2> QED
    BY <2>1, AppendEffect
<1>3. CASE Len(q) = BufCap
  <2>1. Offer(q, x) = q
    BY <1>1, <1>3 DEF Offer
  <2> QED
    BY <1>3, <2>1
<1> QED
  BY <1>1, <1>2, <1>3

\* The first frame leaves, exactly.
LEMMA TailEffect ==
  ASSUME NEW S, NEW q \in Seq(S), q # <<>>
  PROVE  /\ Once(q) => Once(Tail(q))
         /\ Once(q) => \A m : m # Ctl => (Holds(Tail(q), m) <=> Holds(q, m) /\ m # Head(q))
         /\ \A m : Holds(Tail(q), m) => Holds(q, m) /\ Precedes(q, Head(q), m)
         /\ \A m, n : Precedes(Tail(q), m, n) => Precedes(q, m, n)
<1> DEFINE r == Tail(q)
           h == Head(q)
           n0 == Len(q)
<1>1. /\ n0 \in Nat \ {0}
      /\ DOMAIN q = 1..n0
      /\ h = q[1]
      /\ DOMAIN r = 1..(n0 - 1)
      /\ \A i \in 1..(n0 - 1) : r[i] = q[i + 1]
  OBVIOUS
<1> HIDE DEF r, h, n0
<1>2. \A i \in DOMAIN r : i + 1 \in DOMAIN q /\ 1 \in DOMAIN q /\ 1 < i + 1 /\ r[i] = q[i + 1]
  BY <1>1
<1>3. Once(q) => Once(r)
  BY <1>1, <1>2 DEF Once
<1>4. \A m : Holds(r, m) => Holds(q, m) /\ Precedes(q, h, m)
  BY <1>1, <1>2 DEF Holds, Precedes
<1>5. ASSUME Once(q), NEW m, m # Ctl
      PROVE  Holds(r, m) <=> Holds(q, m) /\ m # h
  <2>1. ASSUME Holds(r, m) PROVE m # h
    <3>1. PICK i \in DOMAIN r : r[i] = m
      BY <2>1 DEF Holds
    <3> QED
      BY <1>1, <1>2, <1>5, <3>1 DEF Once
  <2>2. ASSUME Holds(q, m), m # h PROVE Holds(r, m)
    <3>1. PICK i \in DOMAIN q : q[i] = m
      BY <2>2 DEF Holds
    <3>2. i - 1 \in DOMAIN r /\ r[i - 1] = m
      BY <1>1, <2>2, <3>1
    <3> QED
      BY <3>2 DEF Holds
  <2> QED
    BY <1>4, <2>1, <2>2
<1>6. ASSUME NEW m, NEW n, Precedes(r, m, n) PROVE Precedes(q, m, n)
  <2>1. PICK i \in DOMAIN r, j \in DOMAIN r : i < j /\ r[i] = m /\ r[j] = n
    BY <1>6 DEF Precedes
  <2>2. i + 1 < j + 1
    BY <1>1, <2>1
  <2> QED
    BY <1>2, <2>1, <2>2 DEF Precedes
<1> QED
  BY <1>3, <1>4, <1>5, <1>6 DEF r, h

\* A filter keeps what it keeps in its order.
LEMMA SubsequenceEffect ==
  ASSUME NEW S, NEW q \in Seq(S), NEW s \in Subsequences(q)
  PROVE  /\ \A m : Holds(s, m) => Holds(q, m)
         /\ Once(q) => Once(s)
         /\ OneNotice(q) => OneNotice(s)
         /\ \A m, n : Precedes(s, m, n) => Precedes(q, m, n)
<1>0. PICK n \in 0..Len(q) :
        s \in { [i \in 1..n |-> q[f[i]]] :
                  f \in {g \in [1..n -> DOMAIN q] : \A i, j \in 1..n : i < j => g[i] < g[j]} }
  BY Zenon DEF Subsequences
<1>1. PICK f \in [1..n -> DOMAIN q] : /\ s = [i \in 1..n |-> q[f[i]]]
                                      /\ \A i, j \in 1..n : i < j => f[i] < f[j]
  BY <1>0
<1>2. /\ DOMAIN s = 1..n
      /\ \A i \in 1..n : s[i] = q[f[i]] /\ f[i] \in DOMAIN q /\ f[i] \in Nat
  <2>1. DOMAIN q = 1..Len(q) /\ Len(q) \in Nat
    OBVIOUS
  <2> QED
    BY <1>1, <2>1
<1>3. \A i, j \in 1..n : f[i] = f[j] => i = j
  <2> SUFFICES ASSUME NEW i \in 1..n, NEW j \in 1..n, f[i] = f[j] PROVE i = j
    OBVIOUS
  <2>1. ~(i < j) /\ ~(j < i)
    BY <1>1, <1>2
  <2> QED
    BY <2>1
<1>4. \A m : Holds(s, m) => Holds(q, m)
  BY <1>2 DEF Holds
<1>5. Once(q) => Once(s)
  BY <1>2, <1>3 DEF Once
<1>6. OneNotice(q) => OneNotice(s)
  BY <1>2, <1>3 DEF OneNotice
<1>7. \A x, y : Precedes(s, x, y) => Precedes(q, x, y)
  BY <1>1, <1>2 DEF Precedes
<1> QED
  BY <1>4, <1>5, <1>6, <1>7

\* A contact notice is stored once, instead of an older one of its sender if there is one.
LEMMA MergeEffect ==
  ASSUME NEW q \in Seq(Msgs), NEW x \in Msgs, Once(q), OneNotice(q), ~Holds(q, x)
  PROVE  /\ Holds(MergeContact(q, x), x)
         /\ \A m : Holds(MergeContact(q, x), m) => Holds(q, m) \/ m = x
         /\ \A m : Holds(q, m) /\ ~Holds(MergeContact(q, x), m) => From[m] = From[x]
         /\ Once(MergeContact(q, x))
         /\ OneNotice(MergeContact(q, x))
<1> DEFINE same == {i \in DOMAIN q : From[q[i]] = From[x]}
           k == CHOOSE i \in same : \A j \in same : i <= j
           r == MergeContact(q, x)
<1>1. /\ Len(q) \in Nat
      /\ DOMAIN q = 1..Len(q)
      /\ q \in [1..Len(q) -> Msgs]
      /\ Ctl \notin Msgs
  BY ConstantsAssumption
<1>2. CASE same = {}
  <2>1. r = Append(q, x)
    BY <1>2 DEF MergeContact
  <2>2. /\ \A m : Holds(r, m) <=> Holds(q, m) \/ m = x
        /\ Once(r)
    BY <2>1, AppendEffect
  <2>3. /\ DOMAIN r = 1..(Len(q) + 1)
        /\ \A i \in 1..Len(q) : r[i] = q[i]
        /\ r[Len(q) + 1] = x
    BY <2>1
  <2>4. \A i \in 1..Len(q) : From[r[i]] # From[x]
    BY <1>1, <1>2, <2>3
  <2> HIDE DEF r, same
  <2>5. OneNotice(r)
    <3> SUFFICES ASSUME NEW i \in DOMAIN r, NEW j \in DOMAIN r, From[r[i]] = From[r[j]]
                 PROVE  i = j
      BY DEF OneNotice
    <3>1. CASE i \in 1..Len(q) /\ j \in 1..Len(q)
      BY <1>1, <2>3, <3>1 DEF OneNotice
    <3>2. CASE i = Len(q) + 1 \/ j = Len(q) + 1
      BY <1>1, <2>3, <2>4, <3>2
    <3> QED
      BY <1>1, <2>3, <3>1, <3>2
  <2> QED
    BY <2>2, <2>5 DEF r
<1>3. CASE same # {}
  <2>1. PICK p : p \in same
    BY <1>3
  <2>2. \A i \in same : i = p
    BY <2>1 DEF OneNotice
  <2>3. k = p
    BY <1>1, <2>1, <2>2
  <2>4. r = [q EXCEPT ![p] = x]
    BY <1>3, <2>3 DEF MergeContact
  <2>5. /\ p \in DOMAIN q
        /\ From[q[p]] = From[x]
        /\ DOMAIN r = DOMAIN q
        /\ r[p] = x
        /\ \A i \in DOMAIN q : i # p => r[i] = q[i]
    BY <1>1, <2>1, <2>4
  <2> HIDE DEF r, k, same
  <2>6. Holds(r, x) /\ \A m : Holds(r, m) => Holds(q, m) \/ m = x
    BY <2>5 DEF Holds
  <2>7. \A m : Holds(q, m) /\ ~Holds(r, m) => From[m] = From[x]
    BY <2>5 DEF Holds
  <2>8. Once(r)
    BY <2>5 DEF Once, Holds
  <2>9. OneNotice(r)
    BY <2>5 DEF OneNotice
  <2> QED
    BY <2>6, <2>7, <2>8, <2>9 DEF r
<1> QED
  BY <1>2, <1>3

-----------------------------------------------------------------------------
(* Where a message is                                                      *)

\* The kinds of place that belong to a connection, and to a user.
ConnPlaces == {"hand", "todo", "buf", "got"}
\* Those of a user.
UserPlaces == {"pending", "contacts"}

\* The places a message may be in, whichever connection or user they belong to.
AllPlaces == (ConnPlaces \X Conns) \cup (UserPlaces \X Users)

\* The places each message is in.
Where ==
  [m \in Msgs |->
     {<<"hand", c>> : c \in {d \in Conns : hand[d] = m}}
     \cup {<<"todo", c>> : c \in {d \in Conns : Holds(todo[d], m)}}
     \cup {<<"buf", c>> : c \in {d \in Conns : Holds(buf[d], m)}}
     \cup {<<"got", c>> : c \in {d \in Conns : Holds(got[d], m)}}
     \cup {<<"pending", u>> : u \in {v \in Users : Holds(pending[v], m)}}
     \cup {<<"contacts", u>> : u \in {v \in Users : Holds(contacts[v], m)}}]

\* Where says which queue, channel or hand holds a message.
LocatedFacts ==
  \A m \in Msgs :
    /\ Where[m] \subseteq AllPlaces
    /\ \A c \in Conns : /\ <<"hand", c>> \in Where[m] <=> hand[c] = m
                        /\ <<"todo", c>> \in Where[m] <=> Holds(todo[c], m)
                        /\ <<"buf", c>> \in Where[m] <=> Holds(buf[c], m)
                        /\ <<"got", c>> \in Where[m] <=> Holds(got[c], m)
    /\ \A u \in Users : /\ <<"pending", u>> \in Where[m] <=> Holds(pending[u], m)
                        /\ <<"contacts", u>> \in Where[m] <=> Holds(contacts[u], m)

\* Where says that, whatever the state.
LEMMA Located == LocatedFacts
<1> SUFFICES ASSUME NEW m \in Msgs
             PROVE  /\ Where[m] \subseteq AllPlaces
                    /\ \A c \in Conns : /\ <<"hand", c>> \in Where[m] <=> hand[c] = m
                                        /\ <<"todo", c>> \in Where[m] <=> Holds(todo[c], m)
                                        /\ <<"buf", c>> \in Where[m] <=> Holds(buf[c], m)
                                        /\ <<"got", c>> \in Where[m] <=> Holds(got[c], m)
                    /\ \A u \in Users : /\ <<"pending", u>> \in Where[m] <=> Holds(pending[u], m)
                                        /\ <<"contacts", u>> \in Where[m] <=> Holds(contacts[u], m)
  BY DEF LocatedFacts
<1>1. \A p : p \in Where[m] <=>
        \/ \E c \in Conns : p = <<"hand", c>> /\ hand[c] = m
        \/ \E c \in Conns : p = <<"todo", c>> /\ Holds(todo[c], m)
        \/ \E c \in Conns : p = <<"buf", c>> /\ Holds(buf[c], m)
        \/ \E c \in Conns : p = <<"got", c>> /\ Holds(got[c], m)
        \/ \E u \in Users : p = <<"pending", u>> /\ Holds(pending[u], m)
        \/ \E u \in Users : p = <<"contacts", u>> /\ Holds(contacts[u], m)
  BY DEF Where
<1>2. Where[m] \subseteq AllPlaces
  BY <1>1 DEF AllPlaces, ConnPlaces, UserPlaces
<1> QED
  BY <1>1, <1>2

\* A set of places is known from its members.
LEMMA SamePlaces ==
  ASSUME NEW P \in SUBSET AllPlaces, NEW Q \in SUBSET AllPlaces,
         \A c \in Conns : /\ <<"hand", c>> \in P <=> <<"hand", c>> \in Q
                          /\ <<"todo", c>> \in P <=> <<"todo", c>> \in Q
                          /\ <<"buf", c>> \in P <=> <<"buf", c>> \in Q
                          /\ <<"got", c>> \in P <=> <<"got", c>> \in Q,
         \A u \in Users : /\ <<"pending", u>> \in P <=> <<"pending", u>> \in Q
                          /\ <<"contacts", u>> \in P <=> <<"contacts", u>> \in Q
  PROVE  P = Q
<1>1. \A p \in AllPlaces : p \in P <=> p \in Q
  <2> SUFFICES ASSUME NEW p \in AllPlaces PROVE p \in P <=> p \in Q
    OBVIOUS
  <2>1. CASE p \in ConnPlaces \X Conns
    <3>1. PICK k \in ConnPlaces, c \in Conns : p = <<k, c>>
      BY <2>1
    <3> QED
      BY <3>1 DEF ConnPlaces
  <2>2. CASE p \in UserPlaces \X Users
    <3>1. PICK k \in UserPlaces, u \in Users : p = <<k, u>>
      BY <2>2
    <3> QED
      BY <3>1 DEF UserPlaces
  <2> QED
    BY <2>1, <2>2 DEF AllPlaces
<1> QED
  BY <1>1

\* What the next state's places are, from what the next state's queues hold.
LEMMA NextPlaces ==
  ASSUME NEW m \in Msgs, NEW P \in SUBSET AllPlaces,
         \A c \in Conns : /\ hand'[c] = m <=> <<"hand", c>> \in P
                          /\ Holds(todo'[c], m) <=> <<"todo", c>> \in P
                          /\ Holds(buf'[c], m) <=> <<"buf", c>> \in P
                          /\ Holds(got'[c], m) <=> <<"got", c>> \in P,
         \A u \in Users : /\ Holds(pending'[u], m) <=> <<"pending", u>> \in P
                          /\ Holds(contacts'[u], m) <=> <<"contacts", u>> \in P
  PROVE  Where'[m] = P
<1>1. LocatedFacts'
  BY Located, PTL
<1>2. /\ Where'[m] \in SUBSET AllPlaces
      /\ \A c \in Conns : /\ <<"hand", c>> \in Where'[m] <=> hand'[c] = m
                          /\ <<"todo", c>> \in Where'[m] <=> Holds(todo'[c], m)
                          /\ <<"buf", c>> \in Where'[m] <=> Holds(buf'[c], m)
                          /\ <<"got", c>> \in Where'[m] <=> Holds(got'[c], m)
      /\ \A u \in Users : /\ <<"pending", u>> \in Where'[m] <=> Holds(pending'[u], m)
                          /\ <<"contacts", u>> \in Where'[m] <=> Holds(contacts'[u], m)
  BY <1>1 DEF LocatedFacts
<1> DEFINE Q == Where'[m]
<1>3. /\ \A c \in Conns : /\ <<"hand", c>> \in Q <=> <<"hand", c>> \in P
                          /\ <<"todo", c>> \in Q <=> <<"todo", c>> \in P
                          /\ <<"buf", c>> \in Q <=> <<"buf", c>> \in P
                          /\ <<"got", c>> \in Q <=> <<"got", c>> \in P
      /\ \A u \in Users : /\ <<"pending", u>> \in Q <=> <<"pending", u>> \in P
                          /\ <<"contacts", u>> \in Q <=> <<"contacts", u>> \in P
  BY <1>2
<1>4. Q \in SUBSET AllPlaces
  BY <1>2
<1> HIDE DEF Q
<1>5. Q = P
  BY <1>3, <1>4, SamePlaces
<1> QED
  BY <1>5 DEF Q

\* A message whose queues hold it as before has not moved.
LEMMA SamePlace ==
  ASSUME NEW m \in Msgs,
         \A c \in Conns : /\ hand'[c] = m <=> hand[c] = m
                          /\ Holds(todo'[c], m) <=> Holds(todo[c], m)
                          /\ Holds(buf'[c], m) <=> Holds(buf[c], m)
                          /\ Holds(got'[c], m) <=> Holds(got[c], m),
         \A u \in Users : /\ Holds(pending'[u], m) <=> Holds(pending[u], m)
                          /\ Holds(contacts'[u], m) <=> Holds(contacts[u], m)
  PROVE  Where'[m] = Where[m]
BY Located, NextPlaces DEF LocatedFacts

\* A message in one place is in no other queue.
LEMMA OnlyThere ==
  ASSUME NEW m \in Msgs, NEW p, Where[m] = {p}
  PROVE  /\ \A c \in Conns : /\ hand[c] = m <=> p = <<"hand", c>>
                             /\ Holds(todo[c], m) <=> p = <<"todo", c>>
                             /\ Holds(buf[c], m) <=> p = <<"buf", c>>
                             /\ Holds(got[c], m) <=> p = <<"got", c>>
         /\ \A u \in Users : /\ Holds(pending[u], m) <=> p = <<"pending", u>>
                             /\ Holds(contacts[u], m) <=> p = <<"contacts", u>>
<1>1. \A q : q \in Where[m] <=> p = q
  OBVIOUS
<1> QED
  BY <1>1, Located DEF LocatedFacts

\* A message the next state holds in one queue only is in that place.
LEMMA OneNextPlace ==
  ASSUME NEW m \in Msgs, NEW p \in AllPlaces,
         \A c \in Conns : /\ hand'[c] = m <=> p = <<"hand", c>>
                          /\ Holds(todo'[c], m) <=> p = <<"todo", c>>
                          /\ Holds(buf'[c], m) <=> p = <<"buf", c>>
                          /\ Holds(got'[c], m) <=> p = <<"got", c>>,
         \A u \in Users : /\ Holds(pending'[u], m) <=> p = <<"pending", u>>
                          /\ Holds(contacts'[u], m) <=> p = <<"contacts", u>>
  PROVE  Where'[m] = {p}
<1> DEFINE P == {p}
<1>1. P \in SUBSET AllPlaces
  OBVIOUS
<1>2. \A q : q \in P <=> p = q
  OBVIOUS
<1> HIDE DEF P
<1>3. /\ \A c \in Conns : /\ hand'[c] = m <=> <<"hand", c>> \in P
                          /\ Holds(todo'[c], m) <=> <<"todo", c>> \in P
                          /\ Holds(buf'[c], m) <=> <<"buf", c>> \in P
                          /\ Holds(got'[c], m) <=> <<"got", c>> \in P
      /\ \A u \in Users : /\ Holds(pending'[u], m) <=> <<"pending", u>> \in P
                          /\ Holds(contacts'[u], m) <=> <<"contacts", u>> \in P
  BY <1>2
<1>4. Where'[m] = P
  BY <1>1, <1>3, NextPlaces
<1> QED
  BY <1>4 DEF P

\* A message that nothing holds in the next state is nowhere in it.
LEMMA NoNextPlace ==
  ASSUME NEW m \in Msgs,
         \A c \in Conns : /\ hand'[c] # m
                          /\ ~Holds(todo'[c], m)
                          /\ ~Holds(buf'[c], m)
                          /\ ~Holds(got'[c], m),
         \A u \in Users : ~Holds(pending'[u], m) /\ ~Holds(contacts'[u], m)
  PROVE  Where'[m] = {}
<1> DEFINE P == {}
<1>1. P \in SUBSET AllPlaces /\ \A p : p \notin P
  OBVIOUS
<1> HIDE DEF P
<1>2. Where'[m] = P
  BY <1>1, NextPlaces
<1> QED
  BY <1>2 DEF P

\* The relay has read m.
Sent(m) == \E c \in Conns : Holds(sent[c], m)

\* m is in one place at most, and in none before it was sent.
OnePlace(m) ==
  /\ \A p, q \in Where[m] : p = q
  /\ Where[m] # {} => Sent(m)

\* No queue, channel or list has a message twice, and no queue two notices of one sender.
QueuesOnce ==
  /\ \A c \in Conns : Once(todo[c]) /\ Once(buf[c]) /\ Once(got[c])
  /\ \A u \in Users : Once(pending[u]) /\ Once(contacts[u]) /\ OneNotice(contacts[u])

\* What the goroutines of a connection hold between their handlers, and before the first.
BetweenHandlers ==
  \A c \in Conns :
    /\ phase[c] \notin {"emit", "store"} => hand[c] = NoMsg
    /\ phase[c] \notin {"giveContacts", "giveMessages"} => todo[c] = <<>>
    /\ up[c] => writing[c]
    /\ closed[c] => ~up[c]
    /\ phase[c] = "new" => claimed[c] = {} /\ ~closed[c]

\* A message is in one place, once.
PlaceInv == (\A m \in Msgs : OnePlace(m)) /\ QueuesOnce /\ BetweenHandlers

\* The inductive invariant of the relay.
HubInv == TypeInv /\ ConfineInv /\ PlaceInv

\* What a step does to m: nothing, a move from one place to another, or the loss of it.
Stays(m) == Where'[m] = Where[m]

\* It goes from p to q.
Moves(m, p, q) == Where[m] = {p} /\ Where'[m] = {q}

\* It is lost, or done with.
Leaves(m, p) == Where[m] = {p} /\ Where'[m] = {}

\* m is in place k of x and in no other.
OnlyAt(m, k, x) ==
  /\ \A c \in Conns : /\ hand[c] = m <=> k = "hand" /\ x = c
                      /\ Holds(todo[c], m) <=> k = "todo" /\ x = c
                      /\ Holds(buf[c], m) <=> k = "buf" /\ x = c
                      /\ Holds(got[c], m) <=> k = "got" /\ x = c
  /\ \A u \in Users : /\ Holds(pending[u], m) <=> k = "pending" /\ x = u
                      /\ Holds(contacts[u], m) <=> k = "contacts" /\ x = u

\* Nothing holds m.
Nowhere(m) ==
  /\ \A c \in Conns : hand[c] # m /\ ~Holds(todo[c], m) /\ ~Holds(buf[c], m) /\ ~Holds(got[c], m)
  /\ \A u \in Users : ~Holds(pending[u], m) /\ ~Holds(contacts[u], m)

\* OnePlace in terms of the queues.
LEMMA OneAt ==
  ASSUME NEW m \in Msgs, OnePlace(m), NEW k, NEW x, <<k, x>> \in Where[m]
  PROVE  Where[m] = {<<k, x>>} /\ OnlyAt(m, k, x)
<1> DEFINE p == <<k, x>>
<1>1. Where[m] = {p}
  BY DEF OnePlace
<1>2. \A l, y : p = <<l, y>> <=> k = l /\ x = y
  OBVIOUS
<1> HIDE DEF p
<1>3. /\ \A c \in Conns : /\ hand[c] = m <=> p = <<"hand", c>>
                          /\ Holds(todo[c], m) <=> p = <<"todo", c>>
                          /\ Holds(buf[c], m) <=> p = <<"buf", c>>
                          /\ Holds(got[c], m) <=> p = <<"got", c>>
      /\ \A u \in Users : /\ Holds(pending[u], m) <=> p = <<"pending", u>>
                          /\ Holds(contacts[u], m) <=> p = <<"contacts", u>>
  BY <1>1, OnlyThere
<1>4. OnlyAt(m, k, x)
  BY <1>2, <1>3 DEF OnlyAt
<1> QED
  BY <1>1, <1>4 DEF p

\* A message has moved if the next state holds it in one place.
LEMMA MovesTo ==
  ASSUME NEW m \in Msgs, NEW k, NEW x, Where[m] = {<<k, x>>},
         NEW l, NEW y, <<l, y>> \in AllPlaces, OnlyAt(m, l, y)'
  PROVE  Moves(m, <<k, x>>, <<l, y>>)
<1> DEFINE q == <<l, y>>
<1>1. \A j, z : q = <<j, z>> <=> l = j /\ y = z
  OBVIOUS
<1>2. q \in AllPlaces
  OBVIOUS
<1> HIDE DEF q
<1>3. /\ \A c \in Conns : /\ hand'[c] = m <=> q = <<"hand", c>>
                          /\ Holds(todo'[c], m) <=> q = <<"todo", c>>
                          /\ Holds(buf'[c], m) <=> q = <<"buf", c>>
                          /\ Holds(got'[c], m) <=> q = <<"got", c>>
      /\ \A u \in Users : /\ Holds(pending'[u], m) <=> q = <<"pending", u>>
                          /\ Holds(contacts'[u], m) <=> q = <<"contacts", u>>
  BY <1>1 DEF OnlyAt
<1>4. Where'[m] = {q}
  BY <1>2, <1>3, OneNextPlace
<1> QED
  BY <1>4 DEF Moves, q

\* It is lost if the next state holds it nowhere.
LEMMA LeavesFrom ==
  ASSUME NEW m \in Msgs, NEW p, Where[m] = {p}, Nowhere(m)'
  PROVE  Leaves(m, p)
<1>1. /\ \A c \in Conns : /\ hand'[c] # m
                          /\ ~Holds(todo'[c], m)
                          /\ ~Holds(buf'[c], m)
                          /\ ~Holds(got'[c], m)
      /\ \A u \in Users : ~Holds(pending'[u], m) /\ ~Holds(contacts'[u], m)
  BY DEF Nowhere
<1>2. Where'[m] = {}
  BY <1>1, NoNextPlace
<1> QED
  BY <1>2 DEF Leaves

\* The steps that leave every message where it is, whatever they do to control frames.
Quiet(c) ==
  \/ Connect(c) \/ Disconnect(c) \/ (\E u \in Ids[c] : Register(c, u)) \/ Reply(c)
  \/ Announce(c) \/ AnnouncePanics(c) \/ Ack(c) \/ Unlist(c)

\* Those steps touch control frames only.
LEMMA QuietEffect ==
  ASSUME HubInv, NEW c \in Conns, Quiet(c)
  PROVE  /\ UNCHANGED <<hand, target, todo, pending, contacts, sent, kept, got>>
         /\ \A d \in Conns : \A m \in Msgs : Holds(buf'[d], m) <=> Holds(buf[d], m)
         /\ \A d \in Conns : Once(buf'[d])
         /\ \A d \in Conns : \A m, n \in Msgs : Precedes(buf'[d], m, n) => Precedes(buf[d], m, n)
         /\ \A m \in Msgs : Stays(m)
<1> USE DEF readerVars, channelVars, storeVars, historyVars
<1>1. UNCHANGED <<hand, target, todo, pending, contacts, sent, kept, got>>
  BY DEF Quiet, Connect, Disconnect, Register, Reply, Announce, AnnouncePanics, Ack, Unlist
<1>2. /\ buf \in [Conns -> Seq(Msgs \cup {Ctl})]
      /\ \A d \in Conns : Len(buf[d]) <= BufCap
      /\ \A d \in Conns : Once(buf[d])
      /\ Ctl \notin Msgs
  BY ConstantsAssumption DEF HubInv, TypeInv, TypeOK, PlaceInv, QueuesOnce
<1>3. \A d \in Conns : buf'[d] \in {Offer(buf[d], Ctl), buf[d]}
  <2>1. CASE Announce(c) \/ AnnouncePanics(c)
    BY <1>2, <2>1, AnnounceBuffers
  <2>2. CASE Reply(c) \/ Ack(c)
    BY <1>2, <2>2 DEF Reply, Ack
  <2>3. CASE Connect(c) \/ Disconnect(c) \/ (\E u \in Ids[c] : Register(c, u)) \/ Unlist(c)
    BY <2>3 DEF Connect, Disconnect, Register, Unlist
  <2> QED
    BY <2>1, <2>2, <2>3 DEF Quiet
<1>4. \A d \in Conns :
        /\ \A m : Holds(Offer(buf[d], Ctl), m) <=> Holds(buf[d], m) \/ (Len(buf[d]) # BufCap /\ m = Ctl)
        /\ Once(Offer(buf[d], Ctl))
        /\ \A m, n : Precedes(Offer(buf[d], Ctl), m, n) =>
                       Precedes(buf[d], m, n) \/ (Holds(buf[d], m) /\ n = Ctl)
  <2> SUFFICES ASSUME NEW d \in Conns
               PROVE  /\ \A m : Holds(Offer(buf[d], Ctl), m)
                                <=> Holds(buf[d], m) \/ (Len(buf[d]) # BufCap /\ m = Ctl)
                      /\ Once(Offer(buf[d], Ctl))
                      /\ \A m, n : Precedes(Offer(buf[d], Ctl), m, n) =>
                                     Precedes(buf[d], m, n) \/ (Holds(buf[d], m) /\ n = Ctl)
    OBVIOUS
  <2> DEFINE q == buf[d]
             S == Msgs \cup {Ctl}
  <2>1. q \in Seq(S) /\ Len(q) <= BufCap /\ Once(q) /\ Ctl \in S
    BY <1>2
  <2> HIDE DEF q, S
  <2>2. /\ \A m : Holds(Offer(q, Ctl), m) <=> Holds(q, m) \/ (Len(q) # BufCap /\ m = Ctl)
        /\ Once(Offer(q, Ctl))
        /\ \A m, n : Precedes(Offer(q, Ctl), m, n) => Precedes(q, m, n) \/ (Holds(q, m) /\ n = Ctl)
    BY <2>1, OfferEffect
  <2> QED
    BY <2>2 DEF q
<1>5. \A d \in Conns : \A m \in Msgs : Holds(buf'[d], m) <=> Holds(buf[d], m)
  BY <1>2, <1>3, <1>4
<1>6. \A d \in Conns : Once(buf'[d])
  BY <1>2, <1>3, <1>4
<1>7. \A d \in Conns : \A m, n \in Msgs : Precedes(buf'[d], m, n) => Precedes(buf[d], m, n)
  BY <1>2, <1>3, <1>4
<1>8. \A m \in Msgs : Stays(m)
  BY <1>1, <1>5, SamePlace DEF Stays
<1> QED
  BY <1>1, <1>5, <1>6, <1>7, <1>8

\* store.PopPendingContacts and store.PopPending: what waited is now to be emitted.
LEMMA PopEffect ==
  ASSUME HubInv, NEW c \in Conns, PopContacts(c) \/ PopMessages(c)
  PROVE  /\ owner[c] \in Users
         /\ todo[c] = <<>>
         /\ UNCHANGED <<owner, hand, target, up, closed, writing, buf, clients, sent, kept, got,
                        claimed>>
         /\ \A d \in Conns : d # c => todo'[d] = todo[d] /\ phase'[d] = phase[d]
         /\ \A u \in Users : u # owner[c] => pending'[u] = pending[u] /\ contacts'[u] = contacts[u]
         /\ \/ /\ todo'[c] = contacts[owner[c]] /\ contacts'[owner[c]] = <<>> /\ pending' = pending
               /\ \A m \in Msgs : \/ Stays(m)
                                  \/ Moves(m, <<"contacts", owner[c]>>, <<"todo", c>>)
            \/ /\ todo'[c] = pending[owner[c]] /\ pending'[owner[c]] = <<>> /\ contacts' = contacts
               /\ \A m \in Msgs : \/ Stays(m)
                                  \/ Moves(m, <<"pending", owner[c]>>, <<"todo", c>>)
<1> DEFINE u == owner[c]
<1>1. /\ todo \in [Conns -> Seq(Msgs)]
      /\ phase \in [Conns -> Phases]
      /\ pending \in [Users -> Seq(Msgs)]
      /\ contacts \in [Users -> Seq(Msgs)]
      /\ u \in Users
      /\ todo[c] = <<>>
  BY DEF HubInv, TypeInv, TypeOK, PhaseOK, PlaceInv, BetweenHandlers, PopContacts, PopMessages
<1>2. /\ UNCHANGED <<owner, hand, target, up, closed, writing, buf, clients, sent, kept, got,
                     claimed>>
      /\ \A d \in Conns : d # c => todo'[d] = todo[d] /\ phase'[d] = phase[d]
  BY <1>1 DEF PopContacts, PopMessages, Goto, channelVars, historyVars
<1>3. \A m : ~Holds(<<>>, m)
  BY EmptyQueue
<1>4. \A m \in Msgs : /\ OnePlace(m)
                      /\ Where[m] \in SUBSET AllPlaces
                      /\ <<"todo", c>> \in AllPlaces
  BY Located DEF HubInv, PlaceInv, LocatedFacts, AllPlaces, ConnPlaces
<1>5. CASE PopContacts(c)
  <2>1. /\ todo'[c] = contacts[u] /\ contacts'[u] = <<>> /\ pending' = pending
        /\ \A v \in Users : v # u => contacts'[v] = contacts[v]
    BY <1>1, <1>5 DEF PopContacts
  <2>2. ASSUME NEW m \in Msgs, Holds(contacts[u], m)
        PROVE  Moves(m, <<"contacts", u>>, <<"todo", c>>)
    <3>1. <<"contacts", u>> \in Where[m]
      BY <1>1, <2>2, Located DEF LocatedFacts
    <3>2. Where[m] = {<<"contacts", u>>} /\ OnlyAt(m, "contacts", u)
      BY <1>4, <3>1, OneAt
    <3>3. /\ \A d \in Conns : hand[d] # m /\ ~Holds(todo[d], m) /\ ~Holds(buf[d], m)
                              /\ ~Holds(got[d], m)
          /\ \A v \in Users : ~Holds(pending[v], m) /\ (Holds(contacts[v], m) <=> v = u)
      BY <3>2 DEF OnlyAt
    <3>4. /\ \A d \in Conns : hand'[d] # m /\ (Holds(todo'[d], m) <=> d = c) /\ ~Holds(buf'[d], m)
                              /\ ~Holds(got'[d], m)
          /\ \A v \in Users : ~Holds(pending'[v], m) /\ ~Holds(contacts'[v], m)
      BY <1>1, <1>2, <1>3, <2>1, <2>2, <3>3
    <3>5. OnlyAt(m, "todo", c)'
      BY <3>4 DEF OnlyAt
    <3> QED
      BY <1>4, <3>2, <3>5, MovesTo
  <2>3. ASSUME NEW m \in Msgs, ~Holds(contacts[u], m) PROVE Stays(m)
    BY <1>1, <1>2, <1>3, <2>1, <2>3, SamePlace DEF Stays
  <2> QED
    BY <1>1, <1>2, <2>1, <2>2, <2>3
<1>6. CASE PopMessages(c)
  <2>1. /\ todo'[c] = pending[u] /\ pending'[u] = <<>> /\ contacts' = contacts
        /\ \A v \in Users : v # u => pending'[v] = pending[v]
    BY <1>1, <1>6 DEF PopMessages
  <2>2. ASSUME NEW m \in Msgs, Holds(pending[u], m)
        PROVE  Moves(m, <<"pending", u>>, <<"todo", c>>)
    <3>1. <<"pending", u>> \in Where[m]
      BY <1>1, <2>2, Located DEF LocatedFacts
    <3>2. Where[m] = {<<"pending", u>>} /\ OnlyAt(m, "pending", u)
      BY <1>4, <3>1, OneAt
    <3>3. /\ \A d \in Conns : hand[d] # m /\ ~Holds(todo[d], m) /\ ~Holds(buf[d], m)
                              /\ ~Holds(got[d], m)
          /\ \A v \in Users : ~Holds(contacts[v], m) /\ (Holds(pending[v], m) <=> v = u)
      BY <3>2 DEF OnlyAt
    <3>4. /\ \A d \in Conns : hand'[d] # m /\ (Holds(todo'[d], m) <=> d = c) /\ ~Holds(buf'[d], m)
                              /\ ~Holds(got'[d], m)
          /\ \A v \in Users : ~Holds(pending'[v], m) /\ ~Holds(contacts'[v], m)
      BY <1>1, <1>2, <1>3, <2>1, <2>2, <3>3
    <3>5. OnlyAt(m, "todo", c)'
      BY <3>4 DEF OnlyAt
    <3> QED
      BY <1>4, <3>2, <3>5, MovesTo
  <2>3. ASSUME NEW m \in Msgs, ~Holds(pending[u], m) PROVE Stays(m)
    BY <1>1, <1>2, <1>3, <2>1, <2>3, SamePlace DEF Stays
  <2> QED
    BY <1>1, <1>2, <2>1, <2>2, <2>3
<1> QED
  BY <1>5, <1>6

\* writeLoop: the first frame reaches the client or is lost; the rest waits.
LEMMA WriterEffect ==
  ASSUME HubInv, NEW c \in Conns, Writer(c)
  PROVE  /\ buf[c] # <<>>
         /\ buf' = [buf EXCEPT ![c] = Tail(@)]
         /\ UNCHANGED <<readerVars, up, closed, clients, storeVars, sent, kept, claimed>>
         /\ \/ /\ Write(c) /\ writing[c] /\ writing' = writing
               /\ \A m \in Msgs : \/ Stays(m)
                                  \/ Moves(m, <<"buf", c>>, <<"got", c>>) /\ m = Head(buf[c])
               /\ IF Head(buf[c]) = Ctl THEN got' = got
                  ELSE got' = [got EXCEPT ![c] = Append(@, Head(buf[c]))]
            \/ /\ WriteLost(c) /\ ~up[c] /\ got' = got
               /\ writing' \in {writing, [writing EXCEPT ![c] = FALSE]}
               /\ \A m \in Msgs : Stays(m) \/ Leaves(m, <<"buf", c>>)
<1>0. PICK h : h = Head(buf[c])
  OBVIOUS
<1>1. /\ buf \in [Conns -> Seq(Msgs \cup {Ctl})]
      /\ got \in [Conns -> Seq(Msgs)]
      /\ Once(buf[c])
      /\ Ctl \notin Msgs
  BY ConstantsAssumption DEF HubInv, TypeInv, TypeOK, PlaceInv, QueuesOnce
<1>2. /\ buf[c] # <<>>
      /\ buf' = [buf EXCEPT ![c] = Tail(@)]
      /\ UNCHANGED <<readerVars, up, closed, clients, storeVars, sent, kept, claimed>>
  BY DEF Writer, Write, WriteLost, historyVars
<1>3. /\ h \in Msgs \cup {Ctl}
      /\ Holds(buf[c], h)
      /\ \A m \in Msgs : Holds(Tail(buf[c]), m) <=> Holds(buf[c], m) /\ m # h
  BY <1>0, <1>1, <1>2, TailProperties, TailEffect
<1>4. /\ \A d \in Conns : \A m \in Msgs : Holds(buf'[d], m) <=> Holds(buf[d], m) /\ (d = c => m # h)
      /\ UNCHANGED <<hand, todo, pending, contacts>>
  BY <1>1, <1>2, <1>3 DEF readerVars, storeVars
<1>5. \A m \in Msgs : /\ OnePlace(m)
                      /\ <<"got", c>> \in AllPlaces
                      /\ Holds(buf[c], m) => <<"buf", c>> \in Where[m]
  BY Located DEF HubInv, PlaceInv, LocatedFacts, AllPlaces, ConnPlaces
<1>6. ASSUME h \in Msgs
      PROVE  /\ Where[h] = {<<"buf", c>>}
             /\ \A d \in Conns : hand[d] # h /\ ~Holds(todo[d], h) /\ ~Holds(got[d], h)
                                 /\ (Holds(buf[d], h) <=> d = c)
             /\ \A u \in Users : ~Holds(pending[u], h) /\ ~Holds(contacts[u], h)
  <2>1. <<"buf", c>> \in Where[h]
    BY <1>3, <1>5, <1>6
  <2>2. Where[h] = {<<"buf", c>>} /\ OnlyAt(h, "buf", c)
    BY <1>5, <1>6, <2>1, OneAt
  <2> QED
    BY <2>2 DEF OnlyAt
<1>7. CASE Write(c)
  <2>1. /\ writing[c] /\ writing' = writing
        /\ IF h = Ctl THEN got' = got ELSE got' = [got EXCEPT ![c] = Append(@, h)]
    BY <1>0, <1>1, <1>7 DEF Write
  <2>2. \A d \in Conns : \A m \in Msgs : Holds(got'[d], m) <=> Holds(got[d], m) \/ (d = c /\ m = h)
    <3>1. CASE h = Ctl
      BY <1>1, <2>1, <3>1
    <3>2. CASE h # Ctl
      <4>1. h \in Msgs
        BY <1>3, <3>2
      <4>2. got'[c] = Append(got[c], h) /\ \A d \in Conns : d # c => got'[d] = got[d]
        BY <1>1, <2>1, <3>2
      <4>3. \A m : Holds(Append(got[c], h), m) <=> Holds(got[c], m) \/ m = h
        BY <1>1, <4>1, AppendEffect
      <4> QED
        BY <1>1, <4>1, <4>2, <4>3
    <3> QED
      BY <3>1, <3>2
  <2>3. ASSUME h \in Msgs PROVE Moves(h, <<"buf", c>>, <<"got", c>>)
    <3>1. /\ \A d \in Conns : hand'[d] # h /\ ~Holds(todo'[d], h) /\ ~Holds(buf'[d], h)
                              /\ (Holds(got'[d], h) <=> d = c)
          /\ \A u \in Users : ~Holds(pending'[u], h) /\ ~Holds(contacts'[u], h)
      BY <1>4, <1>6, <2>2, <2>3
    <3>2. OnlyAt(h, "got", c)'
      BY <3>1 DEF OnlyAt
    <3> QED
      BY <1>5, <1>6, <2>3, <3>2, MovesTo
  <2>4. ASSUME NEW m \in Msgs, m # h PROVE Stays(m)
    BY <1>4, <2>2, <2>4, SamePlace DEF Stays
  <2> QED
    BY <1>0, <1>2, <1>7, <2>1, <2>3, <2>4
<1>8. CASE WriteLost(c)
  <2>1. ~up[c] /\ got' = got /\ writing' \in {writing, [writing EXCEPT ![c] = FALSE]}
    BY <1>8 DEF WriteLost, historyVars
  <2>2. ASSUME h \in Msgs PROVE Leaves(h, <<"buf", c>>)
    <3>1. Nowhere(h)'
      BY <1>4, <1>6, <2>1, <2>2 DEF Nowhere
    <3> QED
      BY <1>6, <2>2, <3>1, LeavesFrom
  <2>3. ASSUME NEW m \in Msgs, m # h PROVE Stays(m)
    BY <1>4, <2>1, <2>3, SamePlace DEF Stays
  <2> QED
    BY <1>2, <1>8, <2>1, <2>2, <2>3
<1> QED
  BY <1>7, <1>8 DEF Writer

\* close(c.send): what is left in the channel is lost.
LEMMA CloseEffect ==
  ASSUME HubInv, NEW c \in Conns, CloseChannel(c)
  PROVE  \A m \in Msgs : Stays(m) \/ Leaves(m, <<"buf", c>>)
<1>1. /\ buf \in [Conns -> Seq(Msgs \cup {Ctl})]
      /\ buf' = [buf EXCEPT ![c] = <<>>]
      /\ UNCHANGED <<hand, todo, got, pending, contacts>>
  BY DEF CloseChannel, HubInv, TypeInv, TypeOK, storeVars, historyVars
<1>2. \A d \in Conns : \A m \in Msgs : Holds(buf'[d], m) <=> Holds(buf[d], m) /\ d # c
  BY <1>1, EmptyQueue
<1>3. ASSUME NEW m \in Msgs, Holds(buf[c], m) PROVE Leaves(m, <<"buf", c>>)
  <2>1. OnePlace(m) /\ <<"buf", c>> \in Where[m]
    BY <1>3, Located DEF HubInv, PlaceInv, LocatedFacts
  <2>2. Where[m] = {<<"buf", c>>} /\ OnlyAt(m, "buf", c)
    BY <2>1, OneAt
  <2>3. Nowhere(m)'
    BY <1>1, <1>2, <2>2 DEF OnlyAt, Nowhere
  <2> QED
    BY <2>2, <2>3, LeavesFrom
<1>4. ASSUME NEW m \in Msgs, ~Holds(buf[c], m) PROVE Stays(m)
  BY <1>1, <1>2, <1>4, SamePlace DEF Stays
<1> QED
  BY <1>3, <1>4

\* A turn of the loops of register: the first popped frame enters the channel, or is lost if
\* the channel is full.
LEMMA GiveEffect ==
  ASSUME HubInv, NEW c \in Conns, Give(c)
  PROVE  /\ todo[c] # <<>> /\ Head(todo[c]) \in Msgs
         /\ todo' = [todo EXCEPT ![c] = Tail(@)]
         /\ buf' = [buf EXCEPT ![c] = Offer(@, Head(todo[c]))]
         /\ ~Holds(buf[c], Head(todo[c]))
         /\ UNCHANGED <<owner, hand, target, up, closed, writing, clients, storeVars, historyVars>>
         /\ \A d \in Conns : d # c => phase'[d] = phase[d]
         /\ \A m \in Msgs :
              \/ Stays(m)
              \/ /\ m = Head(todo[c])
                 /\ IF Len(buf[c]) = BufCap THEN Leaves(m, <<"todo", c>>)
                    ELSE Moves(m, <<"todo", c>>, <<"buf", c>>)
<1>0. PICK h : h = Head(todo[c])
  OBVIOUS
<1>1. /\ buf \in [Conns -> Seq(Msgs \cup {Ctl})]
      /\ \A d \in Conns : Len(buf[d]) <= BufCap
      /\ todo \in [Conns -> Seq(Msgs)]
      /\ phase \in [Conns -> Phases]
      /\ todo[c] # <<>>
      /\ Once(todo[c]) /\ Once(buf[c])
      /\ Ctl \notin Msgs
  BY ConstantsAssumption DEF HubInv, TypeInv, TypeOK, PhaseOK, PlaceInv, QueuesOnce, Give
<1>2. /\ todo' = [todo EXCEPT ![c] = Tail(@)]
      /\ buf' = [buf EXCEPT ![c] = Offer(@, h)]
      /\ UNCHANGED <<owner, hand, target, up, closed, writing, clients, storeVars, historyVars>>
      /\ \A d \in Conns : d # c => phase'[d] = phase[d]
  BY <1>0, <1>1 DEF Give, Goto
<1>3. /\ h \in Msgs
      /\ Holds(todo[c], h)
      /\ \A m \in Msgs : Holds(Tail(todo[c]), m) <=> Holds(todo[c], m) /\ m # h
  BY <1>0, <1>1, TailProperties, TailEffect
<1>4. /\ OnePlace(h) /\ <<"todo", c>> \in Where[h]
      /\ <<"buf", c>> \in AllPlaces
  BY <1>3, Located DEF HubInv, PlaceInv, LocatedFacts, AllPlaces, ConnPlaces
<1>5. Where[h] = {<<"todo", c>>} /\ OnlyAt(h, "todo", c)
  BY <1>3, <1>4, OneAt
<1>6. /\ \A d \in Conns : hand[d] # h /\ ~Holds(buf[d], h) /\ ~Holds(got[d], h)
                          /\ (Holds(todo[d], h) <=> d = c)
      /\ \A u \in Users : ~Holds(pending[u], h) /\ ~Holds(contacts[u], h)
  BY <1>5 DEF OnlyAt
<1>7. \A m : Holds(Offer(buf[c], h), m) <=> Holds(buf[c], m) \/ (Len(buf[c]) # BufCap /\ m = h)
  <2> DEFINE q == buf[c]
             S == Msgs \cup {Ctl}
  <2>1. q \in Seq(S) /\ Len(q) <= BufCap /\ h \in S
    BY <1>1, <1>3
  <2> HIDE DEF q, S
  <2>2. \A m : Holds(Offer(q, h), m) <=> Holds(q, m) \/ (Len(q) # BufCap /\ m = h)
    BY <2>1, OfferEffect
  <2> QED
    BY <2>2 DEF q
<1>8. /\ UNCHANGED <<hand, got, pending, contacts>>
      /\ \A d \in Conns : \A m \in Msgs :
           /\ Holds(todo'[d], m) <=> Holds(todo[d], m) /\ (d = c => m # h)
           /\ Holds(buf'[d], m) <=> Holds(buf[d], m) \/ (d = c /\ m = h /\ Len(buf[c]) # BufCap)
  BY <1>1, <1>2, <1>3, <1>7 DEF storeVars, historyVars
<1>9. ASSUME Len(buf[c]) = BufCap PROVE Leaves(h, <<"todo", c>>)
  <2>1. Nowhere(h)'
    BY <1>3, <1>6, <1>8, <1>9 DEF Nowhere
  <2> QED
    BY <1>3, <1>5, <2>1, LeavesFrom
<1>10. ASSUME Len(buf[c]) # BufCap PROVE Moves(h, <<"todo", c>>, <<"buf", c>>)
  <2>1. /\ \A d \in Conns : hand'[d] # h /\ ~Holds(todo'[d], h) /\ ~Holds(got'[d], h)
                            /\ (Holds(buf'[d], h) <=> d = c)
        /\ \A u \in Users : ~Holds(pending'[u], h) /\ ~Holds(contacts'[u], h)
    BY <1>3, <1>6, <1>8, <1>10
  <2>2. OnlyAt(h, "buf", c)'
    BY <2>1 DEF OnlyAt
  <2> QED
    BY <1>3, <1>4, <1>5, <2>2, MovesTo
<1>11. ASSUME NEW m \in Msgs, m # h PROVE Stays(m)
  BY <1>8, <1>11, SamePlace DEF Stays
<1> QED
  BY <1>0, <1>1, <1>2, <1>3, <1>6, <1>9, <1>10, <1>11

\* A frame is read: it is in the reader's hand, and everything else where it was.
LEMMA ReceiveEffect ==
  ASSUME HubInv, NEW c \in Conns, NEW r \in Msgs, Receive(c, r)
  PROVE  /\ ~Sent(r) /\ Where[r] = {} /\ Where'[r] = {<<"hand", c>>}
         /\ \A m \in Msgs : m # r => Stays(m)
<1>1. /\ hand \in [Conns -> Msgs \cup {NoMsg}]
      /\ hand[c] = NoMsg
      /\ NoMsg \notin Msgs
      /\ hand' = [hand EXCEPT ![c] = r]
      /\ UNCHANGED <<todo, buf, got, pending, contacts>>
      /\ ~Sent(r)
  BY ConstantsAssumption DEF Receive, HubInv, TypeInv, TypeOK, PlaceInv, BetweenHandlers,
                             channelVars, storeVars, Sent
<1>2. Where[r] = {} /\ <<"hand", c>> \in AllPlaces
  BY <1>1 DEF HubInv, PlaceInv, OnePlace, AllPlaces, ConnPlaces
<1>3. /\ \A d \in Conns : hand[d] # r /\ ~Holds(todo[d], r) /\ ~Holds(buf[d], r) /\ ~Holds(got[d], r)
      /\ \A u \in Users : ~Holds(pending[u], r) /\ ~Holds(contacts[u], r)
  BY <1>2, Located DEF LocatedFacts
<1>4. \A d \in Conns : \A m \in Msgs : hand'[d] = m <=> hand[d] = m \/ (d = c /\ m = r)
  BY <1>1
<1>5. Where'[r] = {<<"hand", c>>}
  <2> DEFINE q == <<"hand", c>>
  <2>1. \A k, x : q = <<k, x>> <=> k = "hand" /\ x = c
    OBVIOUS
  <2>2. q \in AllPlaces
    BY <1>2
  <2> HIDE DEF q
  <2>3. /\ \A d \in Conns : /\ hand'[d] = r <=> q = <<"hand", d>>
                            /\ Holds(todo'[d], r) <=> q = <<"todo", d>>
                            /\ Holds(buf'[d], r) <=> q = <<"buf", d>>
                            /\ Holds(got'[d], r) <=> q = <<"got", d>>
        /\ \A u \in Users : /\ Holds(pending'[u], r) <=> q = <<"pending", u>>
                            /\ Holds(contacts'[u], r) <=> q = <<"contacts", u>>
    BY <1>1, <1>3, <1>4, <2>1
  <2>4. Where'[r] = {q}
    BY <2>2, <2>3, OneNextPlace
  <2> QED
    BY <2>4 DEF q
<1>6. ASSUME NEW m \in Msgs, m # r PROVE Stays(m)
  BY <1>1, <1>4, <1>6, SamePlace DEF Stays
<1> QED
  BY <1>1, <1>2, <1>5, <1>6

\* What the handler of c has in hand is nowhere else.
LEMMA InHand ==
  ASSUME HubInv, NEW c \in Conns, NEW h \in Msgs, hand[c] = h
  PROVE  /\ Where[h] = {<<"hand", c>>}
         /\ \A d \in Conns : (hand[d] = h <=> d = c) /\ ~Holds(todo[d], h) /\ ~Holds(buf[d], h)
                             /\ ~Holds(got[d], h)
         /\ \A u \in Users : ~Holds(pending[u], h) /\ ~Holds(contacts[u], h)
<1>1. OnePlace(h) /\ <<"hand", c>> \in Where[h]
  BY Located DEF HubInv, PlaceInv, LocatedFacts
<1>2. Where[h] = {<<"hand", c>>} /\ OnlyAt(h, "hand", c)
  BY <1>1, OneAt
<1> QED
  BY <1>2 DEF OnlyAt

\* to()'s emit: the message enters the channel found, or is lost if that is full.
LEMMA DeliverEffect ==
  ASSUME HubInv, NEW c \in Conns, NEW h, NEW t, hand[c] = h, target[c] = t, Deliver(c)
  PROVE  /\ h \in Msgs /\ t \in Conns /\ ~closed[t]
         /\ buf' = [buf EXCEPT ![t] = Offer(@, h)]
         /\ UNCHANGED <<owner, todo, up, closed, writing, clients, storeVars, historyVars>>
         /\ \A m \in Msgs : \/ Stays(m)
                            \/ /\ m = h
                               /\ IF Len(buf[t]) = BufCap THEN Leaves(m, <<"hand", c>>)
                                  ELSE Moves(m, <<"hand", c>>, <<"buf", t>>)
<1>1. /\ h \in Msgs /\ t \in Conns /\ ~closed[t]
      /\ hand \in [Conns -> Msgs \cup {NoMsg}]
      /\ NoMsg \notin Msgs /\ Ctl \notin Msgs
      /\ buf \in [Conns -> Seq(Msgs \cup {Ctl})]
      /\ Len(buf[t]) <= BufCap
  BY ConstantsAssumption DEF HubInv, TypeInv, TypeOK, PhaseOK, Deliver
<1>2. /\ hand' = [hand EXCEPT ![c] = NoMsg]
      /\ buf' = [buf EXCEPT ![t] = Offer(@, h)]
      /\ UNCHANGED <<owner, todo, up, closed, writing, clients, storeVars, historyVars>>
  BY DEF Deliver, Settle
<1>3. /\ Where[h] = {<<"hand", c>>}
      /\ \A d \in Conns : (hand[d] = h <=> d = c) /\ ~Holds(todo[d], h) /\ ~Holds(buf[d], h)
                          /\ ~Holds(got[d], h)
      /\ \A u \in Users : ~Holds(pending[u], h) /\ ~Holds(contacts[u], h)
  BY <1>1, InHand
<1>4. \A m : Holds(Offer(buf[t], h), m) <=> Holds(buf[t], m) \/ (Len(buf[t]) # BufCap /\ m = h)
  <2> DEFINE q == buf[t]
             S == Msgs \cup {Ctl}
  <2>1. q \in Seq(S) /\ Len(q) <= BufCap /\ h \in S
    BY <1>1
  <2> HIDE DEF q, S
  <2>2. \A m : Holds(Offer(q, h), m) <=> Holds(q, m) \/ (Len(q) # BufCap /\ m = h)
    BY <2>1, OfferEffect
  <2> QED
    BY <2>2 DEF q
<1>5. /\ UNCHANGED <<todo, got, pending, contacts>>
      /\ \A d \in Conns : \A m \in Msgs :
           /\ hand'[d] = m <=> hand[d] = m /\ d # c
           /\ Holds(buf'[d], m) <=> Holds(buf[d], m) \/ (d = t /\ m = h /\ Len(buf[t]) # BufCap)
  BY <1>1, <1>2, <1>4 DEF storeVars, historyVars
<1>6. ASSUME Len(buf[t]) = BufCap PROVE Leaves(h, <<"hand", c>>)
  <2>1. Nowhere(h)'
    BY <1>1, <1>3, <1>5, <1>6 DEF Nowhere
  <2> QED
    BY <1>1, <1>3, <2>1, LeavesFrom
<1>7. ASSUME Len(buf[t]) # BufCap PROVE Moves(h, <<"hand", c>>, <<"buf", t>>)
  <2>1. /\ \A d \in Conns : hand'[d] # h /\ ~Holds(todo'[d], h) /\ ~Holds(got'[d], h)
                            /\ (Holds(buf'[d], h) <=> d = t)
        /\ \A u \in Users : ~Holds(pending'[u], h) /\ ~Holds(contacts'[u], h)
    BY <1>1, <1>3, <1>5, <1>7
  <2>2. OnlyAt(h, "buf", t)'
    BY <2>1 DEF OnlyAt
  <2>3. <<"buf", t>> \in AllPlaces
    BY <1>1 DEF AllPlaces, ConnPlaces
  <2> QED
    BY <1>1, <1>3, <2>2, <2>3, MovesTo
<1>8. ASSUME NEW m \in Msgs, m # h PROVE Stays(m)
  <2>1. \A d \in Conns : hand'[d] = m <=> hand[d] = m
    BY <1>5, <1>8
  <2> QED
    BY <1>5, <1>8, <2>1, SamePlace DEF Stays
<1> QED
  BY <1>1, <1>2, <1>6, <1>7, <1>8

\* A panic at the emit loses the message in hand.
LEMMA PanicEffect ==
  ASSUME HubInv, NEW c \in Conns, NEW h, hand[c] = h, DeliverPanics(c)
  PROVE  /\ h \in Msgs /\ target[c] \in Conns /\ closed[target[c]]
         /\ UNCHANGED <<owner, todo, channelVars, clients, storeVars, historyVars>>
         /\ \A m \in Msgs : Stays(m) \/ (m = h /\ Leaves(m, <<"hand", c>>))
<1>1. /\ h \in Msgs /\ target[c] \in Conns /\ closed[target[c]]
      /\ hand \in [Conns -> Msgs \cup {NoMsg}]
      /\ NoMsg \notin Msgs
      /\ hand' = [hand EXCEPT ![c] = NoMsg]
      /\ UNCHANGED <<owner, todo, channelVars, clients, storeVars, historyVars>>
  BY ConstantsAssumption DEF HubInv, TypeInv, TypeOK, PhaseOK, DeliverPanics
<1>2. /\ Where[h] = {<<"hand", c>>}
      /\ \A d \in Conns : (hand[d] = h <=> d = c) /\ ~Holds(todo[d], h) /\ ~Holds(buf[d], h)
                          /\ ~Holds(got[d], h)
      /\ \A u \in Users : ~Holds(pending[u], h) /\ ~Holds(contacts[u], h)
  BY <1>1, InHand
<1>3. /\ UNCHANGED <<todo, buf, got, pending, contacts>>
      /\ \A d \in Conns : \A m \in Msgs : hand'[d] = m <=> hand[d] = m /\ d # c
  BY <1>1 DEF channelVars, storeVars, historyVars
<1>4. Leaves(h, <<"hand", c>>)
  <2>1. Nowhere(h)'
    BY <1>1, <1>2, <1>3 DEF Nowhere
  <2> QED
    BY <1>1, <1>2, <2>1, LeavesFrom
<1>5. ASSUME NEW m \in Msgs, m # h PROVE Stays(m)
  <2>1. \A d \in Conns : hand'[d] = m <=> hand[d] = m
    BY <1>3, <1>5
  <2> QED
    BY <1>3, <1>5, <2>1, SamePlace DEF Stays
<1> QED
  BY <1>1, <1>4, <1>5

\* A contact notice takes the place of an older one of its sender.
Replaced(m, h) ==
  Leaves(m, <<"contacts", Dest[h]>>) /\ Kind[h] = "contact" /\ From[m] = From[h]

\* to() found nobody: a message is queued, a contact notice is queued and may replace an older
\* one of its sender, a live frame is dropped.
LEMMA StoreEffect ==
  ASSUME HubInv, NEW c \in Conns, NEW h, NEW u, hand[c] = h, u = Dest[h], Store(c)
  PROVE  /\ h \in Msgs /\ u \in Users
         /\ UNCHANGED <<owner, todo, channelVars, clients, sent, got, claimed>>
         /\ kept' = IF Kind[h] = "live" THEN kept ELSE kept \cup {h}
         /\ pending' = [pending EXCEPT ![u] = IF Kind[h] = "store" THEN Append(@, h) ELSE @]
         /\ contacts' = [contacts EXCEPT ![u] = IF Kind[h] = "contact" THEN MergeContact(@, h)
                                                 ELSE @]
         /\ CASE Kind[h] = "live"    -> Leaves(h, <<"hand", c>>)
              [] Kind[h] = "store"   -> Moves(h, <<"hand", c>>, <<"pending", u>>)
              [] Kind[h] = "contact" -> Moves(h, <<"hand", c>>, <<"contacts", u>>)
         /\ \A m \in Msgs : m # h => Stays(m) \/ Replaced(m, h)
<1>1. /\ h \in Msgs /\ u \in Users
      /\ Kind[h] \in {"store", "live", "contact"}
      /\ hand \in [Conns -> Msgs \cup {NoMsg}]
      /\ NoMsg \notin Msgs
      /\ pending \in [Users -> Seq(Msgs)]
      /\ contacts \in [Users -> Seq(Msgs)]
      /\ Once(contacts[u]) /\ OneNotice(contacts[u])
  <2>1. h \in Msgs
    BY DEF HubInv, TypeInv, PhaseOK, Store
  <2>2. u \in Users
    BY <2>1, ConstantsAssumption
  <2> QED
    BY <2>1, <2>2, ConstantsAssumption DEF HubInv, TypeInv, TypeOK, PlaceInv, QueuesOnce
<1>2. /\ hand' = [hand EXCEPT ![c] = NoMsg]
      /\ kept' = IF Kind[h] = "live" THEN kept ELSE kept \cup {h}
      /\ pending' = [pending EXCEPT ![u] = IF Kind[h] = "store" THEN Append(@, h) ELSE @]
      /\ contacts' = [contacts EXCEPT ![u] = IF Kind[h] = "contact" THEN MergeContact(@, h)
                                              ELSE @]
      /\ UNCHANGED <<owner, todo, channelVars, clients, sent, got, claimed>>
  BY DEF Store, Settle
<1>3. /\ Where[h] = {<<"hand", c>>}
      /\ \A d \in Conns : (hand[d] = h <=> d = c) /\ ~Holds(todo[d], h) /\ ~Holds(buf[d], h)
                          /\ ~Holds(got[d], h)
      /\ \A v \in Users : ~Holds(pending[v], h) /\ ~Holds(contacts[v], h)
  BY <1>1, InHand
<1>4. /\ UNCHANGED <<todo, buf, got>>
      /\ \A d \in Conns : \A m \in Msgs : hand'[d] = m <=> hand[d] = m /\ d # c
  BY <1>1, <1>2 DEF channelVars
<1>5. \A v \in Users : \A m \in Msgs :
        Holds(pending'[v], m) <=> Holds(pending[v], m) \/ (v = u /\ m = h /\ Kind[h] = "store")
  <2>1. \A m : Holds(Append(pending[u], h), m) <=> Holds(pending[u], m) \/ m = h
    BY <1>1, AppendEffect
  <2>2. pending'[u] = IF Kind[h] = "store" THEN Append(pending[u], h) ELSE pending[u]
    BY <1>1, <1>2
  <2>3. \A v \in Users : v # u => pending'[v] = pending[v]
    BY <1>1, <1>2
  <2> QED
    BY <2>1, <2>2, <2>3
<1>6. /\ \A v \in Users : Kind[h] # "contact" \/ v # u => contacts'[v] = contacts[v]
      /\ Kind[h] = "contact" => contacts'[u] = MergeContact(contacts[u], h)
  BY <1>1, <1>2
<1>7. /\ Holds(MergeContact(contacts[u], h), h)
      /\ \A m : Holds(MergeContact(contacts[u], h), m) => Holds(contacts[u], m) \/ m = h
      /\ \A m : Holds(contacts[u], m) /\ ~Holds(MergeContact(contacts[u], h), m)
                  => From[m] = From[h]
  BY <1>1, <1>3, MergeEffect
<1>8. <<"pending", u>> \in AllPlaces /\ <<"contacts", u>> \in AllPlaces
  BY <1>1 DEF AllPlaces, UserPlaces
<1>9. ASSUME Kind[h] = "live" PROVE Leaves(h, <<"hand", c>>)
  <2>1. Nowhere(h)'
    BY <1>1, <1>3, <1>4, <1>5, <1>6, <1>9 DEF Nowhere
  <2> QED
    BY <1>1, <1>3, <2>1, LeavesFrom
<1>10. ASSUME Kind[h] = "store" PROVE Moves(h, <<"hand", c>>, <<"pending", u>>)
  <2>1. /\ \A d \in Conns : hand'[d] # h /\ ~Holds(todo'[d], h) /\ ~Holds(buf'[d], h)
                            /\ ~Holds(got'[d], h)
        /\ \A v \in Users : (Holds(pending'[v], h) <=> v = u) /\ ~Holds(contacts'[v], h)
    BY <1>1, <1>3, <1>4, <1>5, <1>6, <1>10
  <2>2. OnlyAt(h, "pending", u)'
    BY <2>1 DEF OnlyAt
  <2> QED
    BY <1>1, <1>3, <1>8, <2>2, MovesTo
<1>11. ASSUME Kind[h] = "contact" PROVE Moves(h, <<"hand", c>>, <<"contacts", u>>)
  <2>1. /\ \A d \in Conns : hand'[d] # h /\ ~Holds(todo'[d], h) /\ ~Holds(buf'[d], h)
                            /\ ~Holds(got'[d], h)
        /\ \A v \in Users : ~Holds(pending'[v], h) /\ (Holds(contacts'[v], h) <=> v = u)
    BY <1>1, <1>3, <1>4, <1>5, <1>6, <1>7, <1>11
  <2>2. OnlyAt(h, "contacts", u)'
    BY <2>1 DEF OnlyAt
  <2> QED
    BY <1>1, <1>3, <1>8, <2>2, MovesTo
<1>12. ASSUME NEW m \in Msgs, m # h
       PROVE  Stays(m) \/ Replaced(m, h)
  <2>1. /\ \A d \in Conns : hand'[d] = m <=> hand[d] = m
        /\ \A v \in Users : Holds(pending'[v], m) <=> Holds(pending[v], m)
    BY <1>4, <1>5, <1>12, <1>3
  <2>2. CASE Kind[h] = "contact" /\ Holds(contacts[u], m) /\ ~Holds(contacts'[u], m)
    <3>1. From[m] = From[h]
      BY <1>6, <1>7, <2>2
    <3>2. OnePlace(m) /\ <<"contacts", u>> \in Where[m]
      BY <1>1, <2>2, Located DEF HubInv, PlaceInv, LocatedFacts
    <3>3. Where[m] = {<<"contacts", u>>} /\ OnlyAt(m, "contacts", u)
      BY <3>2, OneAt
    <3>4. Nowhere(m)'
      BY <1>4, <1>6, <2>1, <2>2, <3>3 DEF OnlyAt, Nowhere
    <3>5. Leaves(m, <<"contacts", u>>)
      BY <3>3, <3>4, LeavesFrom
    <3> QED
      BY <2>2, <3>1, <3>5 DEF Replaced
  <2>3. CASE ~(Kind[h] = "contact" /\ Holds(contacts[u], m) /\ ~Holds(contacts'[u], m))
    <3>1. \A v \in Users : Holds(contacts'[v], m) <=> Holds(contacts[v], m)
      BY <1>6, <1>7, <1>12, <2>3
    <3> QED
      BY <1>4, <2>1, <3>1, SamePlace DEF Stays
  <2> QED
    BY <2>2, <2>3
<1> QED
  BY <1>1, <1>2, <1>9, <1>10, <1>11, <1>12

\* The hourly clean-up loses some of what is stored.
LEMMA CleanupEffect ==
  ASSUME HubInv, Cleanup
  PROVE  /\ UNCHANGED <<readerVars, channelVars, clients, historyVars>>
         /\ \A u \in Users : /\ pending'[u] \in Subsequences(pending[u])
                             /\ contacts'[u] \in Subsequences(contacts[u])
         /\ \A m \in Msgs : \/ Stays(m)
                            \/ \E u \in Users : \/ Leaves(m, <<"pending", u>>)
                                                \/ Leaves(m, <<"contacts", u>>)
<1>1. /\ UNCHANGED <<readerVars, channelVars, clients, historyVars>>
      /\ \A u \in Users : /\ pending'[u] \in Subsequences(pending[u])
                          /\ contacts'[u] \in Subsequences(contacts[u])
  BY DEF Cleanup
<1>2. \A u \in Users : \A m : /\ Holds(pending'[u], m) => Holds(pending[u], m)
                              /\ Holds(contacts'[u], m) => Holds(contacts[u], m)
  BY CleanupProperties DEF HubInv, TypeInv, TypeOK
<1>3. UNCHANGED <<hand, todo, buf, got>>
  BY <1>1 DEF readerVars, channelVars, historyVars
<1>4. ASSUME NEW m \in Msgs
      PROVE  \/ Stays(m)
             \/ \E u \in Users : \/ Leaves(m, <<"pending", u>>)
                                 \/ Leaves(m, <<"contacts", u>>)
  <2>1. CASE \A u \in Users : /\ Holds(pending'[u], m) <=> Holds(pending[u], m)
                              /\ Holds(contacts'[u], m) <=> Holds(contacts[u], m)
    BY <1>3, <2>1, SamePlace DEF Stays
  <2>2. CASE \E u \in Users : Holds(pending[u], m) /\ ~Holds(pending'[u], m)
    <3>1. PICK u \in Users : Holds(pending[u], m) /\ ~Holds(pending'[u], m)
      BY <2>2
    <3>2. OnePlace(m) /\ <<"pending", u>> \in Where[m]
      BY <3>1, Located DEF HubInv, PlaceInv, LocatedFacts
    <3>3. Where[m] = {<<"pending", u>>} /\ OnlyAt(m, "pending", u)
      BY <3>2, OneAt
    <3>4. Nowhere(m)'
      BY <1>2, <1>3, <3>1, <3>3 DEF OnlyAt, Nowhere
    <3> QED
      BY <3>3, <3>4, LeavesFrom
  <2>3. CASE \E u \in Users : Holds(contacts[u], m) /\ ~Holds(contacts'[u], m)
    <3>1. PICK u \in Users : Holds(contacts[u], m) /\ ~Holds(contacts'[u], m)
      BY <2>3
    <3>2. OnePlace(m) /\ <<"contacts", u>> \in Where[m]
      BY <3>1, Located DEF HubInv, PlaceInv, LocatedFacts
    <3>3. Where[m] = {<<"contacts", u>>} /\ OnlyAt(m, "contacts", u)
      BY <3>2, OneAt
    <3>4. Nowhere(m)'
      BY <1>2, <1>3, <3>1, <3>3 DEF OnlyAt, Nowhere
    <3> QED
      BY <3>3, <3>4, LeavesFrom
  <2> QED
    BY <1>2, <2>1, <2>2, <2>3
<1> QED
  BY <1>1, <1>4

-----------------------------------------------------------------------------
(* PlaceInv is inductive                                                   *)

\* What was read stays read.
LEMMA SentGrows ==
  ASSUME TypeInv, [Next]_vars
  PROVE  \A c \in Conns : \/ sent'[c] = sent[c]
                          \/ \E r \in Msgs : Receive(c, r) /\ sent'[c] = Append(sent[c], r)
<1>1. sent \in [Conns -> Seq(Msgs)]
  BY DEF TypeInv, TypeOK
<1>2. CASE \E c \in Conns : \E r \in Msgs : Receive(c, r)
  <2>1. PICK d \in Conns, r \in Msgs : Receive(d, r)
    BY <1>2
  <2>2. sent' = [sent EXCEPT ![d] = Append(sent[d], r)]
    BY <2>1 DEF Receive
  <2>3. sent'[d] = Append(sent[d], r) /\ \A c \in Conns : c # d => sent'[c] = sent[c]
    BY <1>1, <2>2
  <2> QED
    BY <2>1, <2>3
<1>3. CASE ~ \E c \in Conns : \E r \in Msgs : Receive(c, r)
  <2>1. sent' = sent
    <3>1. CASE UNCHANGED vars
      BY <3>1 DEF vars
    <3>2. CASE Cleanup
      BY <3>2 DEF Cleanup, historyVars
    <3>3. ASSUME NEW c \in Conns, Handler(c) PROVE sent' = sent
      BY <3>3 DEF Handler, Announce, AnnouncePanics, PopContacts, PopMessages, Give, Deliver,
                  DeliverPanics, Store, Ack, Unlist, CloseChannel, historyVars
    <3>4. ASSUME NEW c \in Conns,
                 \/ Connect(c) \/ Disconnect(c) \/ Reply(c) \/ Writer(c)
                 \/ \E u \in Ids[c] : Register(c, u)
          PROVE  sent' = sent
      BY <3>4 DEF Connect, Disconnect, Register, Reply, Writer, Write, WriteLost, historyVars
    <3> QED
      BY <1>3, <3>1, <3>2, <3>3, <3>4 DEF Next
  <2> QED
    BY <2>1
<1> QED
  BY <1>2, <1>3

\* What was read stays read, and only Receive reads.
LEMMA SentStays ==
  ASSUME TypeInv, [Next]_vars
  PROVE  \A c \in Conns : \A m \in Msgs :
           /\ Holds(sent[c], m) => Holds(sent'[c], m)
           /\ Holds(sent'[c], m) => Holds(sent[c], m) \/ Receive(c, m)
<1> SUFFICES ASSUME NEW c \in Conns
             PROVE  \A m \in Msgs : /\ Holds(sent[c], m) => Holds(sent'[c], m)
                                    /\ Holds(sent'[c], m) => Holds(sent[c], m) \/ Receive(c, m)
  OBVIOUS
<1>1. CASE sent'[c] = sent[c]
  BY <1>1
<1>2. ASSUME NEW r \in Msgs, Receive(c, r), sent'[c] = Append(sent[c], r)
      PROVE  \A m \in Msgs : /\ Holds(sent[c], m) => Holds(sent'[c], m)
                             /\ Holds(sent'[c], m) => Holds(sent[c], m) \/ Receive(c, m)
  <2>1. sent[c] \in Seq(Msgs)
    BY DEF TypeInv, TypeOK
  <2>2. \A m : Holds(sent'[c], m) <=> Holds(sent[c], m) \/ m = r
    BY <1>2, <2>1, AppendEffect
  <2> QED
    BY <1>2, <2>2
<1> QED
  BY <1>1, <1>2, SentGrows

\* The frames a step moves: one to a place of its own, or all of a queue, or none.
LEMMA StepEffect ==
  ASSUME HubInv, [Next]_vars, NEW m \in Msgs
  PROVE  \/ Stays(m)
         \/ \E p \in Where[m] : Where[m] = {p} /\ Where'[m] = {}
         \/ \E p \in Where[m], q \in AllPlaces : Where[m] = {p} /\ Where'[m] = {q}
         \/ \E c \in Conns : Receive(c, m) /\ Where'[m] = {<<"hand", c>>}
<1> DEFINE Lost == \E p \in Where[m] : Where[m] = {p} /\ Where'[m] = {}
           Moved == \E p \in Where[m], q \in AllPlaces : Where[m] = {p} /\ Where'[m] = {q}
           Read == \E d \in Conns : Receive(d, m) /\ Where'[m] = {<<"hand", d>>}
<1>1. ASSUME NEW p, Leaves(m, p) PROVE Lost
  BY <1>1 DEF Leaves
<1>2. ASSUME NEW p, NEW q \in AllPlaces, Moves(m, p, q) PROVE Moved
  BY <1>2 DEF Moves
<1>3. /\ \A k \in ConnPlaces, c \in Conns : <<k, c>> \in AllPlaces
      /\ \A k \in UserPlaces, u \in Users : <<k, u>> \in AllPlaces
  BY DEF AllPlaces
<1> HIDE DEF Lost, Moved, Read
<1>4. ASSUME UNCHANGED vars PROVE Stays(m)
  BY <1>4, SamePlace DEF vars, Stays
<1>5. ASSUME Cleanup PROVE Stays(m) \/ Lost
  <2>1. ASSUME NEW u \in Users, Leaves(m, <<"pending", u>>) \/ Leaves(m, <<"contacts", u>>)
        PROVE  Lost
    BY <1>1, <2>1
  <2> QED
    BY <1>5, <2>1, CleanupEffect
<1>6. ASSUME NEW c \in Conns, Quiet(c) PROVE Stays(m)
  BY <1>6, QuietEffect
<1>7. ASSUME NEW c \in Conns, PopContacts(c) \/ PopMessages(c) PROVE Stays(m) \/ Moved
  <2>1. <<"todo", c>> \in AllPlaces
    BY <1>3 DEF ConnPlaces
  <2> QED
    BY <1>2, <1>7, <2>1, PopEffect
<1>8. ASSUME NEW c \in Conns, Give(c) PROVE Stays(m) \/ Moved \/ Lost
  <2>1. <<"buf", c>> \in AllPlaces
    BY <1>3 DEF ConnPlaces
  <2>2. \/ Stays(m)
        \/ Leaves(m, <<"todo", c>>)
        \/ Moves(m, <<"todo", c>>, <<"buf", c>>)
    BY <1>8, GiveEffect
  <2> QED
    BY <1>1, <1>2, <2>1, <2>2
<1>9. ASSUME NEW c \in Conns, Deliver(c) PROVE Stays(m) \/ Moved \/ Lost
  <2>1. PICK h : h = hand[c]
    OBVIOUS
  <2>2. PICK t : t = target[c]
    OBVIOUS
  <2>3. /\ t \in Conns
        /\ Stays(m) \/ Leaves(m, <<"hand", c>>) \/ Moves(m, <<"hand", c>>, <<"buf", t>>)
    BY <1>9, <2>1, <2>2, DeliverEffect
  <2>4. <<"buf", t>> \in AllPlaces
    BY <1>3, <2>3 DEF ConnPlaces
  <2> QED
    BY <1>1, <1>2, <2>3, <2>4
<1>10. ASSUME NEW c \in Conns, DeliverPanics(c) PROVE Stays(m) \/ Lost
  <2>1. PICK h : h = hand[c]
    OBVIOUS
  <2> QED
    BY <1>1, <1>10, <2>1, PanicEffect
<1>11. ASSUME NEW c \in Conns, Store(c) PROVE Stays(m) \/ Moved \/ Lost
  <2>1. PICK h : h = hand[c]
    OBVIOUS
  <2>2. PICK u : u = Dest[h]
    OBVIOUS
  <2>3. /\ h \in Msgs /\ u \in Users
        /\ CASE Kind[h] = "live"    -> Leaves(h, <<"hand", c>>)
             [] Kind[h] = "store"   -> Moves(h, <<"hand", c>>, <<"pending", u>>)
             [] Kind[h] = "contact" -> Moves(h, <<"hand", c>>, <<"contacts", u>>)
        /\ m # h => Stays(m) \/ Replaced(m, h)
    BY <1>11, <2>1, <2>2, StoreEffect
  <2>4. Kind[h] \in {"live", "store", "contact"}
    BY <2>3, ConstantsAssumption
  <2>5. <<"pending", u>> \in AllPlaces /\ <<"contacts", u>> \in AllPlaces
    BY <1>3, <2>3 DEF UserPlaces
  <2>6. CASE m = h
    <3>1. \/ Leaves(m, <<"hand", c>>)
          \/ Moves(m, <<"hand", c>>, <<"pending", u>>)
          \/ Moves(m, <<"hand", c>>, <<"contacts", u>>)
      BY <2>3, <2>4, <2>6
    <3> QED
      BY <1>1, <1>2, <2>5, <3>1
  <2>7. Replaced(m, h) => Lost
    BY <1>1 DEF Replaced
  <2> QED
    BY <2>3, <2>6, <2>7
<1>12. ASSUME NEW c \in Conns, CloseChannel(c) PROVE Stays(m) \/ Lost
  BY <1>1, <1>12, CloseEffect
<1>13. ASSUME NEW c \in Conns, Writer(c) PROVE Stays(m) \/ Moved \/ Lost
  <2>1. <<"got", c>> \in AllPlaces
    BY <1>3 DEF ConnPlaces
  <2>2. \/ Stays(m)
        \/ Leaves(m, <<"buf", c>>)
        \/ Moves(m, <<"buf", c>>, <<"got", c>>)
    BY <1>13, WriterEffect
  <2> QED
    BY <1>1, <1>2, <2>1, <2>2
<1>14. ASSUME NEW c \in Conns, NEW r \in Msgs, Receive(c, r) PROVE Stays(m) \/ Read
  BY <1>14, ReceiveEffect DEF Read
<1>15. Stays(m) \/ Moved \/ Lost \/ Read
  <2>1. ASSUME NEW c \in Conns, ~Quiet(c),
               \/ Connect(c) \/ Disconnect(c)
               \/ \E u \in Ids[c] : Register(c, u)
               \/ Reply(c) \/ Handler(c) \/ Writer(c)
        PROVE  Stays(m) \/ Moved \/ Lost
    BY <1>7, <1>8, <1>9, <1>10, <1>11, <1>12, <1>13, <2>1 DEF Handler, Quiet
  <2>2. CASE Next
    <3>1. CASE \E c \in Conns : \E r \in Msgs : Receive(c, r)
      BY <1>14, <3>1
    <3>2. CASE \E c \in Conns : \/ Connect(c) \/ Disconnect(c)
                                \/ \E u \in Ids[c] : Register(c, u)
                                \/ Reply(c) \/ Handler(c) \/ Writer(c)
      BY <1>6, <2>1, <3>2
    <3> QED
      BY <1>5, <2>2, <3>1, <3>2 DEF Next
  <2> QED
    BY <1>4, <2>2
<1> QED
  BY <1>15 DEF Lost, Moved, Read

\* OnePlace is inductive.
LEMMA OnePlaceStep ==
  ASSUME HubInv, [Next]_vars
  PROVE  (\A m \in Msgs : OnePlace(m))'
<1> SUFFICES ASSUME NEW m \in Msgs
             PROVE  /\ \A p, q \in Where'[m] : p = q
                    /\ Where'[m] # {} => \E c \in Conns : Holds(sent'[c], m)
  BY DEF OnePlace, Sent
<1>1. OnePlace(m) /\ TypeInv
  BY DEF HubInv, PlaceInv
<1>2. Sent(m) => \E c \in Conns : Holds(sent'[c], m)
  BY <1>1, SentStays DEF Sent
<1>3. CASE Stays(m)
  BY <1>1, <1>2, <1>3 DEF OnePlace, Stays
<1>4. CASE \E p \in Where[m] : Where[m] = {p} /\ Where'[m] = {}
  BY <1>4
<1>5. CASE \E p \in Where[m], q \in AllPlaces : Where[m] = {p} /\ Where'[m] = {q}
  BY <1>1, <1>2, <1>5 DEF OnePlace
<1>6. ASSUME NEW c \in Conns, Receive(c, m), Where'[m] = {<<"hand", c>>}
      PROVE  /\ \A p, q \in Where'[m] : p = q
             /\ \E d \in Conns : Holds(sent'[d], m)
  <2>1. sent[c] \in Seq(Msgs) /\ sent'[c] = Append(sent[c], m)
    BY <1>1, <1>6 DEF Receive, TypeInv, TypeOK
  <2>2. Holds(sent'[c], m)
    BY <2>1, AppendEffect
  <2> QED
    BY <1>6, <2>2
<1> QED
  BY <1>3, <1>4, <1>5, <1>6, StepEffect

\* The first frame of a channel is nowhere else.
LEMMA FirstInChannel ==
  ASSUME HubInv, NEW c \in Conns, buf[c] # <<>>, NEW h \in Msgs, h = Head(buf[c])
  PROVE  /\ Where[h] = {<<"buf", c>>}
         /\ \A d \in Conns : hand[d] # h /\ ~Holds(todo[d], h) /\ ~Holds(got[d], h)
                             /\ (Holds(buf[d], h) <=> d = c)
         /\ \A u \in Users : ~Holds(pending[u], h) /\ ~Holds(contacts[u], h)
<1>1. Holds(buf[c], h)
  BY TailProperties DEF HubInv, TypeInv, TypeOK
<1>2. OnePlace(h) /\ <<"buf", c>> \in Where[h]
  BY <1>1, Located DEF HubInv, PlaceInv, LocatedFacts
<1>3. Where[h] = {<<"buf", c>>} /\ OnlyAt(h, "buf", c)
  BY <1>2, OneAt
<1> QED
  BY <1>3 DEF OnlyAt

\* QueuesOnce is inductive.
LEMMA QueuesOnceStep ==
  ASSUME HubInv, [Next]_vars
  PROVE  QueuesOnce'
<1> USE DEF channelVars, storeVars, historyVars
<1>1. /\ buf \in [Conns -> Seq(Msgs \cup {Ctl})]
      /\ \A d \in Conns : Len(buf[d]) <= BufCap
      /\ got \in [Conns -> Seq(Msgs)]
      /\ todo \in [Conns -> Seq(Msgs)]
      /\ pending \in [Users -> Seq(Msgs)]
      /\ contacts \in [Users -> Seq(Msgs)]
      /\ QueuesOnce
      /\ Ctl \notin Msgs
  BY ConstantsAssumption DEF HubInv, TypeInv, TypeOK, PlaceInv
<1>2. Once(<<>>) /\ OneNotice(<<>>)
  BY EmptyQueue
<1>3. ASSUME UNCHANGED vars PROVE QueuesOnce'
  BY <1>1, <1>3 DEF vars, QueuesOnce
<1>4. ASSUME Cleanup PROVE QueuesOnce'
  <2>1. /\ UNCHANGED <<todo, buf, got>>
        /\ \A u \in Users : /\ pending'[u] \in Subsequences(pending[u])
                            /\ contacts'[u] \in Subsequences(contacts[u])
    BY <1>4, CleanupEffect DEF readerVars
  <2>2. \A u \in Users : Once(pending'[u]) /\ Once(contacts'[u]) /\ OneNotice(contacts'[u])
    <3> SUFFICES ASSUME NEW u \in Users
                 PROVE  Once(pending'[u]) /\ Once(contacts'[u]) /\ OneNotice(contacts'[u])
      OBVIOUS
    <3>1. /\ Once(pending[u]) /\ Once(contacts[u]) /\ OneNotice(contacts[u])
          /\ pending[u] \in Seq(Msgs) /\ contacts[u] \in Seq(Msgs)
      BY <1>1 DEF QueuesOnce
    <3> QED
      BY <2>1, <3>1, SubsequenceEffect
  <2> QED
    BY <1>1, <2>1, <2>2 DEF QueuesOnce
<1>5. ASSUME NEW c \in Conns, Quiet(c) PROVE QueuesOnce'
  BY <1>1, <1>5, QuietEffect DEF QueuesOnce
<1>6. ASSUME NEW c \in Conns, PopContacts(c) \/ PopMessages(c) PROVE QueuesOnce'
  <2>1. /\ owner[c] \in Users
        /\ UNCHANGED <<buf, got>>
        /\ \A d \in Conns : d # c => todo'[d] = todo[d]
        /\ \A u \in Users : u # owner[c] => pending'[u] = pending[u] /\ contacts'[u] = contacts[u]
        /\ \/ todo'[c] = contacts[owner[c]] /\ contacts'[owner[c]] = <<>> /\ pending' = pending
           \/ todo'[c] = pending[owner[c]] /\ pending'[owner[c]] = <<>> /\ contacts' = contacts
    BY <1>6, PopEffect
  <2>2. \A d \in Conns : Once(todo'[d])
    BY <1>1, <2>1 DEF QueuesOnce
  <2>3. \A u \in Users : Once(pending'[u]) /\ Once(contacts'[u]) /\ OneNotice(contacts'[u])
    BY <1>1, <1>2, <2>1 DEF QueuesOnce
  <2> QED
    BY <1>1, <2>1, <2>2, <2>3 DEF QueuesOnce
<1>7. ASSUME NEW c \in Conns, NEW t \in Conns, NEW h \in Msgs, ~Holds(buf[t], h),
             buf' = [buf EXCEPT ![t] = Offer(@, h)],
             todo' = todo \/ (todo[c] # <<>> /\ todo' = [todo EXCEPT ![c] = Tail(@)]),
             UNCHANGED <<got, pending, contacts>>
      PROVE  QueuesOnce'
  <2>1. Once(Offer(buf[t], h))
    <3> DEFINE q == buf[t]
               S == Msgs \cup {Ctl}
    <3>1. q \in Seq(S) /\ Len(q) <= BufCap /\ Once(q) /\ h \in S /\ ~Holds(q, h)
      BY <1>1, <1>7 DEF QueuesOnce
    <3> HIDE DEF q, S
    <3>2. Once(Offer(q, h))
      BY <3>1, OfferEffect
    <3> QED
      BY <3>2 DEF q
  <2>2. \A d \in Conns : Once(buf'[d])
    BY <1>1, <1>7, <2>1 DEF QueuesOnce
  <2>3. \A d \in Conns : Once(todo'[d])
    <3>1. todo[c] # <<>> => Once(Tail(todo[c]))
      BY <1>1, TailEffect DEF QueuesOnce
    <3> QED
      BY <1>1, <1>7, <3>1 DEF QueuesOnce
  <2> QED
    BY <1>1, <1>7, <2>2, <2>3 DEF QueuesOnce
<1>8. ASSUME NEW c \in Conns, Give(c) PROVE QueuesOnce'
  <2>1. PICK h : h = Head(todo[c])
    OBVIOUS
  <2>2. /\ todo[c] # <<>> /\ h \in Msgs /\ ~Holds(buf[c], h)
        /\ todo' = [todo EXCEPT ![c] = Tail(@)]
        /\ buf' = [buf EXCEPT ![c] = Offer(@, h)]
        /\ UNCHANGED <<got, pending, contacts>>
    BY <1>8, <2>1, GiveEffect
  <2> QED
    BY <1>7, <2>2
<1>9. ASSUME NEW c \in Conns, Deliver(c) PROVE QueuesOnce'
  <2>1. PICK h : h = hand[c]
    OBVIOUS
  <2>2. PICK t : t = target[c]
    OBVIOUS
  <2>3. /\ h \in Msgs /\ t \in Conns
        /\ buf' = [buf EXCEPT ![t] = Offer(@, h)]
        /\ UNCHANGED <<todo, got, pending, contacts>>
    BY <1>9, <2>1, <2>2, DeliverEffect
  <2>4. ~Holds(buf[t], h)
    BY <2>1, <2>3, InHand
  <2> QED
    BY <1>7, <2>3, <2>4
<1>10. ASSUME NEW c \in Conns, DeliverPanics(c) PROVE QueuesOnce'
  <2>1. PICK h : h = hand[c]
    OBVIOUS
  <2>2. UNCHANGED <<todo, buf, got, pending, contacts>>
    BY <1>10, <2>1, PanicEffect
  <2> QED
    BY <1>1, <2>2 DEF QueuesOnce
<1>11. ASSUME NEW c \in Conns, Store(c) PROVE QueuesOnce'
  <2>1. PICK h : h = hand[c]
    OBVIOUS
  <2>2. PICK u : u = Dest[h]
    OBVIOUS
  <2>3. /\ h \in Msgs /\ u \in Users
        /\ UNCHANGED <<todo, buf, got>>
        /\ pending' = [pending EXCEPT ![u] = IF Kind[h] = "store" THEN Append(@, h) ELSE @]
        /\ contacts' = [contacts EXCEPT ![u] = IF Kind[h] = "contact" THEN MergeContact(@, h)
                                                 ELSE @]
    <3>1. h \in Msgs /\ u \in Users
      BY <1>11, <2>1, <2>2, StoreEffect
    <3> QED
      BY <1>11, <2>1, <2>2, <3>1 DEF Store, Settle
  <2>4. ~Holds(pending[u], h) /\ ~Holds(contacts[u], h)
    BY <2>1, <2>3, InHand
  <2>5. Once(Append(pending[u], h))
    BY <1>1, <2>3, <2>4, AppendEffect DEF QueuesOnce
  <2>6. Once(MergeContact(contacts[u], h)) /\ OneNotice(MergeContact(contacts[u], h))
    BY <1>1, <2>3, <2>4, MergeEffect DEF QueuesOnce
  <2>7. \A v \in Users : /\ pending'[v] = pending[v] \/ (v = u /\ pending'[v] = Append(pending[u], h))
                         /\ \/ contacts'[v] = contacts[v]
                            \/ v = u /\ contacts'[v] = MergeContact(contacts[u], h)
    BY <1>1, <2>3
  <2>8. \A v \in Users : Once(pending'[v]) /\ Once(contacts'[v]) /\ OneNotice(contacts'[v])
    BY <1>1, <2>5, <2>6, <2>7 DEF QueuesOnce
  <2> QED
    BY <1>1, <2>3, <2>8 DEF QueuesOnce
<1>12. ASSUME NEW c \in Conns, CloseChannel(c) PROVE QueuesOnce'
  <2>1. buf' = [buf EXCEPT ![c] = <<>>] /\ UNCHANGED <<todo, got, pending, contacts>>
    BY <1>12 DEF CloseChannel
  <2> QED
    BY <1>1, <1>2, <2>1 DEF QueuesOnce
<1>13. ASSUME NEW c \in Conns, Writer(c) PROVE QueuesOnce'
  <2>0. PICK h : h = Head(buf[c])
    OBVIOUS
  <2>1. /\ buf[c] # <<>>
        /\ buf' = [buf EXCEPT ![c] = Tail(@)]
        /\ UNCHANGED <<todo, pending, contacts>>
        /\ got' = got \/ (h # Ctl /\ got' = [got EXCEPT ![c] = Append(@, h)])
    BY <1>13, <2>0, WriterEffect DEF readerVars
  <2>2. Once(Tail(buf[c]))
    BY <1>1, <2>1, TailEffect DEF QueuesOnce
  <2>3. h # Ctl => Once(Append(got[c], h))
    <3> SUFFICES ASSUME h # Ctl PROVE Once(Append(got[c], h))
      OBVIOUS
    <3>1. h \in Msgs
      <4>1. Head(buf[c]) \in Msgs \cup {Ctl}
        BY <1>1, <2>1, TailProperties
      <4> QED
        BY <2>0, <4>1
    <3>2. ~Holds(got[c], h)
      BY <2>0, <2>1, <3>1, FirstInChannel
    <3> QED
      BY <1>1, <3>1, <3>2, AppendEffect DEF QueuesOnce
  <2>4. \A d \in Conns : Once(buf'[d]) /\ Once(got'[d])
    BY <1>1, <2>1, <2>2, <2>3 DEF QueuesOnce
  <2> QED
    BY <1>1, <2>1, <2>4 DEF QueuesOnce
<1>14. ASSUME NEW c \in Conns, NEW r \in Msgs, Receive(c, r) PROVE QueuesOnce'
  BY <1>1, <1>14 DEF Receive, QueuesOnce
<1>15. ASSUME NEW c \in Conns, ~Quiet(c),
              \/ Connect(c) \/ Disconnect(c)
              \/ \E u \in Ids[c] : Register(c, u)
              \/ Reply(c) \/ Handler(c) \/ Writer(c)
       PROVE  QueuesOnce'
  BY <1>6, <1>8, <1>9, <1>10, <1>11, <1>12, <1>13, <1>15 DEF Handler, Quiet
<1> QED
  BY <1>3, <1>4, <1>5, <1>14, <1>15 DEF Next

\* BetweenHandlers is inductive.
LEMMA BetweenStep ==
  ASSUME TypeInv, BetweenHandlers, [Next]_vars
  PROVE  BetweenHandlers'
<1> USE DEF readerVars, channelVars, storeVars, historyVars, Goto
<1>1. /\ phase \in [Conns -> Phases]
      /\ hand \in [Conns -> Msgs \cup {NoMsg}]
      /\ todo \in [Conns -> Seq(Msgs)]
      /\ up \in [Conns -> BOOLEAN]
      /\ closed \in [Conns -> BOOLEAN]
      /\ writing \in [Conns -> BOOLEAN]
      /\ claimed \in [Conns -> SUBSET Users]
  BY DEF TypeInv, TypeOK
<1>2. CASE UNCHANGED vars
  BY <1>2 DEF vars, BetweenHandlers
<1>3. CASE Cleanup
  BY <1>3 DEF Cleanup, BetweenHandlers
<1>4. ASSUME NEW c \in Conns,
             \/ Connect(c) \/ Disconnect(c) \/ Reply(c) \/ Writer(c)
             \/ \E u \in Ids[c] : Register(c, u)
             \/ \E m \in Msgs : Receive(c, m)
      PROVE  BetweenHandlers'
  <2>1. CASE Connect(c) \/ Disconnect(c) \/ Reply(c)
    BY <1>1, <2>1 DEF Connect, Disconnect, Reply, BetweenHandlers
  <2>2. CASE Writer(c)
    BY <1>1, <2>2 DEF Writer, Write, WriteLost, BetweenHandlers
  <2>3. CASE (\E u \in Ids[c] : Register(c, u)) \/ \E m \in Msgs : Receive(c, m)
    BY <1>1, <2>3 DEF Register, Receive, BetweenHandlers
  <2> QED
    BY <1>4, <2>1, <2>2, <2>3
<1>5. ASSUME NEW c \in Conns, Handler(c) PROVE BetweenHandlers'
  <2>1. CASE Announce(c) \/ AnnouncePanics(c)
    BY <1>1, <2>1 DEF Announce, AnnouncePanics, BetweenHandlers
  <2>2. CASE PopContacts(c)
    BY <1>1, <2>2 DEF PopContacts, BetweenHandlers
  <2>3. CASE PopMessages(c)
    BY <1>1, <2>3 DEF PopMessages, BetweenHandlers
  <2>4. CASE Give(c)
    BY <1>1, <2>4 DEF Give, BetweenHandlers
  <2>5. CASE Deliver(c) \/ DeliverPanics(c) \/ Store(c) \/ Ack(c)
    BY <1>1, <2>5 DEF Deliver, DeliverPanics, Store, Ack, Settle, BetweenHandlers
  <2>6. CASE Unlist(c) \/ CloseChannel(c)
    BY <1>1, <2>6 DEF Unlist, CloseChannel, BetweenHandlers
  <2> QED
    BY <1>5, <2>1, <2>2, <2>3, <2>4, <2>5, <2>6 DEF Handler
<1> QED
  BY <1>2, <1>3, <1>4, <1>5 DEF Next

\* The inductive invariant holds throughout.
LEMMA HubInvariant == Spec => []HubInv
<1>1. Init => HubInv
  <2>1. Init => TypeInv
    BY TypeInitially
  <2>2. Init => ConfineInv
    BY ConfineInitially
  <2>3. Init => PlaceInv
    <3> SUFFICES ASSUME Init PROVE PlaceInv
      OBVIOUS
    <3>1. NoMsg \notin Msgs
      BY ConstantsAssumption
    <3>2. /\ \A c \in Conns : hand[c] = NoMsg /\ todo[c] = <<>> /\ buf[c] = <<>> /\ got[c] = <<>>
          /\ \A u \in Users : pending[u] = <<>> /\ contacts[u] = <<>>
      BY DEF Init
    <3>3. \A m \in Msgs : Where[m] = {}
      BY <3>1, <3>2, EmptyQueue DEF Where
    <3>4. QueuesOnce
      BY <3>2, EmptyQueue DEF QueuesOnce
    <3>5. BetweenHandlers
      BY DEF Init, BetweenHandlers
    <3> QED
      BY <3>3, <3>4, <3>5 DEF PlaceInv, OnePlace
  <2> QED
    BY <2>1, <2>2, <2>3 DEF HubInv
<1>2. HubInv /\ [Next]_vars => HubInv'
  <2> SUFFICES ASSUME HubInv, [Next]_vars PROVE HubInv'
    OBVIOUS
  <2>1. TypeInv /\ ConfineInv /\ PlaceInv
    BY DEF HubInv
  <2>2. TypeInv'
    BY <2>1, TypeStep
  <2>3. ConfineInv'
    BY <2>1, ConfineStep
  <2>4. PlaceInv'
    <3>1. BetweenHandlers'
      BY <2>1, BetweenStep DEF PlaceInv
    <3>2. QueuesOnce'
      BY QueuesOnceStep
    <3>3. (\A m \in Msgs : OnePlace(m))'
      BY OnePlaceStep
    <3> QED
      BY <3>1, <3>2, <3>3 DEF PlaceInv
  <2> QED
    BY <2>2, <2>3, <2>4 DEF HubInv
<1> QED
  BY <1>1, <1>2, PTL DEF Spec

\* A set no two elements of which differ counts as none or one.
LEMMA AtMostOne ==
  ASSUME NEW S, \A x, y \in S : x = y
  PROVE  Cardinality(S) <= 1
<1>1. CASE S = {}
  BY <1>1, FS_EmptySet
<1>2. CASE S # {}
  <2>1. PICK x \in S : TRUE
    BY <1>2
  <2>2. S = {x}
    BY <2>1
  <2> QED
    BY <2>2, FS_Singleton
<1> QED
  BY <1>1, <1>2

\* An element of PlacesIn is a position of the table.
LEMMA InTable ==
  ASSUME NEW name, NEW table, NEW m, NEW e \in PlacesIn(name, table, m)
  PROVE  \E x \in DOMAIN table : \E i \in DOMAIN table[x] : e = <<name, x, i>> /\ table[x][i] = m
BY DEF PlacesIn

\* Position i of place k of x is m's.
Position(k, x, i, m) ==
  /\ k = "hand" => i = 1
  /\ k = "todo" => i \in DOMAIN todo[x] /\ todo[x][i] = m
  /\ k = "buf" => i \in DOMAIN buf[x] /\ buf[x][i] = m
  /\ k = "got" => i \in DOMAIN got[x] /\ got[x][i] = m
  /\ k = "pending" => i \in DOMAIN pending[x] /\ pending[x][i] = m
  /\ k = "contacts" => i \in DOMAIN contacts[x] /\ contacts[x][i] = m

\* An element of Places is a position of a place that Where lists.
LEMMA PlacePositions ==
  ASSUME TypeInv, NEW m \in Msgs, NEW e \in Places(m)
  PROVE  \E k, x, i : e = <<k, x, i>> /\ <<k, x>> \in Where[m] /\ Position(k, x, i, m)
<1>1. /\ DOMAIN todo = Conns /\ DOMAIN buf = Conns /\ DOMAIN got = Conns
      /\ DOMAIN pending = Users /\ DOMAIN contacts = Users
  BY DEF TypeInv, TypeOK
<1>2. LocatedFacts
  BY Located
<1>3. CASE e \in {<<"hand", c, 1>> : c \in {d \in Conns : hand[d] = m}}
  <2>1. PICK c \in Conns : e = <<"hand", c, 1>> /\ hand[c] = m
    BY <1>3
  <2>2. Position("hand", c, 1, m)
    BY DEF Position
  <2> QED
    BY <1>2, <2>1, <2>2 DEF LocatedFacts
<1>4. CASE e \in PlacesIn("todo", todo, m)
  <2>1. PICK c \in Conns : \E i \in DOMAIN todo[c] : e = <<"todo", c, i>> /\ todo[c][i] = m
    BY <1>1, <1>4, InTable
  <2>2. PICK i \in DOMAIN todo[c] : e = <<"todo", c, i>> /\ todo[c][i] = m
    BY <2>1
  <2>3. Position("todo", c, i, m) /\ Holds(todo[c], m)
    BY <2>2 DEF Position, Holds
  <2> QED
    BY <1>2, <2>2, <2>3 DEF LocatedFacts
<1>5. CASE e \in PlacesIn("buf", buf, m)
  <2>1. PICK c \in Conns : \E i \in DOMAIN buf[c] : e = <<"buf", c, i>> /\ buf[c][i] = m
    BY <1>1, <1>5, InTable
  <2>2. PICK i \in DOMAIN buf[c] : e = <<"buf", c, i>> /\ buf[c][i] = m
    BY <2>1
  <2>3. Position("buf", c, i, m) /\ Holds(buf[c], m)
    BY <2>2 DEF Position, Holds
  <2> QED
    BY <1>2, <2>2, <2>3 DEF LocatedFacts
<1>6. CASE e \in PlacesIn("got", got, m)
  <2>1. PICK c \in Conns : \E i \in DOMAIN got[c] : e = <<"got", c, i>> /\ got[c][i] = m
    BY <1>1, <1>6, InTable
  <2>2. PICK i \in DOMAIN got[c] : e = <<"got", c, i>> /\ got[c][i] = m
    BY <2>1
  <2>3. Position("got", c, i, m) /\ Holds(got[c], m)
    BY <2>2 DEF Position, Holds
  <2> QED
    BY <1>2, <2>2, <2>3 DEF LocatedFacts
<1>7. CASE e \in PlacesIn("pending", pending, m)
  <2>1. PICK u \in Users : \E i \in DOMAIN pending[u] : e = <<"pending", u, i>> /\ pending[u][i] = m
    BY <1>1, <1>7, InTable
  <2>2. PICK i \in DOMAIN pending[u] : e = <<"pending", u, i>> /\ pending[u][i] = m
    BY <2>1
  <2>3. Position("pending", u, i, m) /\ Holds(pending[u], m)
    BY <2>2 DEF Position, Holds
  <2> QED
    BY <1>2, <2>2, <2>3 DEF LocatedFacts
<1>8. CASE e \in PlacesIn("contacts", contacts, m)
  <2>1. PICK u \in Users : \E i \in DOMAIN contacts[u] : e = <<"contacts", u, i>> /\ contacts[u][i] = m
    BY <1>1, <1>8, InTable
  <2>2. PICK i \in DOMAIN contacts[u] : e = <<"contacts", u, i>> /\ contacts[u][i] = m
    BY <2>1
  <2>3. Position("contacts", u, i, m) /\ Holds(contacts[u], m)
    BY <2>2 DEF Position, Holds
  <2> QED
    BY <1>2, <2>2, <2>3 DEF LocatedFacts
<1> QED
  BY <1>3, <1>4, <1>5, <1>6, <1>7, <1>8 DEF Places

\* A frame sent once is never in two places and never twice in one, whatever is looked up,
\* popped, flushed, expired or replaced in between: delivery at most once, for any number of
\* connections and messages and any channel capacity.
THEOREM NothingIsDuplicated == Spec => []NoDuplicate
<1>1. HubInv => NoDuplicate
  <2> SUFFICES ASSUME HubInv PROVE NoDuplicate
    OBVIOUS
  <2>1. ASSUME NEW m \in Msgs, NEW e \in Places(m), NEW f \in Places(m)
        PROVE  e = f
    <3>1. TypeInv /\ OnePlace(m) /\ QueuesOnce /\ m # Ctl
      BY ConstantsAssumption DEF HubInv, PlaceInv
    <3>2. PICK k, x, i : e = <<k, x, i>> /\ <<k, x>> \in Where[m] /\ Position(k, x, i, m)
      BY <3>1, PlacePositions
    <3>3. PICK l, y, j : f = <<l, y, j>> /\ <<l, y>> \in Where[m] /\ Position(l, y, j, m)
      BY <3>1, PlacePositions
    <3>4. <<k, x>> = <<l, y>> /\ <<k, x>> \in AllPlaces
      BY <3>1, <3>2, <3>3, Located DEF OnePlace, LocatedFacts
    <3>5. k = l /\ x = y
      BY <3>4
    <3>6. \/ k \in {"hand", "todo", "buf", "got"} /\ x \in Conns
          \/ k \in {"pending", "contacts"} /\ x \in Users
      BY <3>4 DEF AllPlaces, ConnPlaces, UserPlaces
    <3>7. Position(k, x, i, m) /\ Position(k, x, j, m)
      BY <3>2, <3>3, <3>5
    <3>8. i = j
      BY <3>1, <3>6, <3>7 DEF Position, QueuesOnce, Once
    <3> QED
      BY <3>2, <3>3, <3>5, <3>8
  <2>2. \A m \in Msgs : Cardinality(Places(m)) <= 1
    BY <2>1, AtMostOne
  <2>3. \A u \in Users : \A i, j \in DOMAIN contacts[u] :
          From[contacts[u][i]] = From[contacts[u][j]] => i = j
    BY DEF HubInv, PlaceInv, QueuesOnce, OneNotice
  <2> QED
    BY <2>2, <2>3 DEF NoDuplicate
<1> QED
  BY <1>1, HubInvariant, PTL

-----------------------------------------------------------------------------
(* The relay implements StoreForward                                       *)

\* The step is one of StoreForward's under the mapping, or changes nothing of it.
Mapped == [StoreAndForward!Next]_StoreAndForward!vars

\* stage of StoreForward is a function on the messages.
LEMMA StageIsFunction ==
  StageOf' = [m \in Msgs |-> StageOf'[m]] /\ ReceiptsOf' = [m \in Msgs |-> ReceiptsOf'[m]]
BY DEF StageOf, ReceiptsOf

\* Messages that go from transit to gone make a Lose.
LEMMA MapLose ==
  ASSUME ReceiptsOf' = ReceiptsOf,
         \A m \in Msgs : \/ StageOf'[m] = StageOf[m]
                         \/ StageOf[m] = "transit" /\ StageOf'[m] = "gone"
  PROVE  Mapped
<1> DEFINE S == {m \in Msgs : StageOf[m] = "transit" /\ StageOf'[m] = "gone"}
<1>1. StageOf' = [m \in Msgs |-> IF m \in S THEN "gone" ELSE StageOf[m]]
  BY StageIsFunction
<1>2. S \in SUBSET StoreAndForward!In("transit")
  BY DEF StoreAndForward!In
<1> HIDE DEF S
<1>3. StoreAndForward!Lose
  BY <1>1, <1>2 DEF StoreAndForward!Lose, StoreAndForward!Shift
<1> QED
  BY <1>3 DEF Mapped, StoreAndForward!Next

\* Messages that go from stored to gone make an Expire.
LEMMA MapExpire ==
  ASSUME ReceiptsOf' = ReceiptsOf,
         \A m \in Msgs : \/ StageOf'[m] = StageOf[m]
                         \/ StageOf[m] = "stored" /\ StageOf'[m] = "gone"
  PROVE  Mapped
<1> DEFINE S == {m \in Msgs : StageOf[m] = "stored" /\ StageOf'[m] = "gone"}
<1>1. StageOf' = [m \in Msgs |-> IF m \in S THEN "gone" ELSE StageOf[m]]
  BY StageIsFunction
<1>2. S \in SUBSET StoreAndForward!In("stored")
  BY DEF StoreAndForward!In
<1> HIDE DEF S
<1>3. StoreAndForward!Expire
  BY <1>1, <1>2 DEF StoreAndForward!Expire, StoreAndForward!Shift
<1> QED
  BY <1>3 DEF Mapped, StoreAndForward!Next

\* Messages that go from stored to transit make a Release.
LEMMA MapRelease ==
  ASSUME ReceiptsOf' = ReceiptsOf,
         \A m \in Msgs : \/ StageOf'[m] = StageOf[m]
                         \/ StageOf[m] = "stored" /\ StageOf'[m] = "transit"
  PROVE  Mapped
<1> DEFINE S == {m \in Msgs : StageOf[m] = "stored" /\ StageOf'[m] = "transit"}
<1>1. StageOf' = [m \in Msgs |-> IF m \in S THEN "transit" ELSE StageOf[m]]
  BY StageIsFunction
<1>2. S \in SUBSET StoreAndForward!In("stored")
  BY DEF StoreAndForward!In
<1> HIDE DEF S
<1>3. StoreAndForward!Release
  BY <1>1, <1>2 DEF StoreAndForward!Release, StoreAndForward!Shift
<1> QED
  BY <1>3 DEF Mapped, StoreAndForward!Next

\* A message that goes from new to transit makes an Accept.
LEMMA MapAccept ==
  ASSUME NEW r \in Msgs, StageOf[r] = "fresh", StageOf'[r] = "transit",
         ReceiptsOf' = ReceiptsOf,
         \A m \in Msgs : m # r => StageOf'[m] = StageOf[m]
  PROVE  Mapped
<1>1. StageOf' = [m \in Msgs |-> IF m \in {r} THEN "transit" ELSE StageOf[m]]
  BY StageIsFunction
<1>2. StoreAndForward!Accept(r)
  BY <1>1 DEF StoreAndForward!Accept, StoreAndForward!Shift
<1> QED
  BY <1>2 DEF Mapped, StoreAndForward!Next

\* A message that is written to its recipient makes a Receive.
LEMMA MapReceive ==
  ASSUME NEW r \in Msgs, StageOf[r] = "transit", StageOf'[r] = "received",
         ReceiptsOf'[r] = ReceiptsOf[r] + 1,
         \A m \in Msgs : m # r => StageOf'[m] = StageOf[m] /\ ReceiptsOf'[m] = ReceiptsOf[m]
  PROVE  Mapped
<1>1. StageOf' = [m \in Msgs |-> IF m \in {r} THEN "received" ELSE StageOf[m]]
  BY StageIsFunction
<1>2. ReceiptsOf' = [m \in Msgs |-> IF m = r THEN ReceiptsOf[r] + 1 ELSE ReceiptsOf[m]]
  BY StageIsFunction
<1>3. ReceiptsOf' = [ReceiptsOf EXCEPT ![r] = @ + 1]
  <2>1. ReceiptsOf = [m \in Msgs |-> ReceiptsOf[m]]
    BY DEF ReceiptsOf
  <2> QED
    BY <1>2, <2>1
<1>4. StoreAndForward!Receive(r)
  BY <1>1, <1>3 DEF StoreAndForward!Receive, StoreAndForward!Shift
<1> QED
  BY <1>4 DEF Mapped, StoreAndForward!Next

\* A message that goes into a queue, replacing at most the notices of its sender, makes a Keep.
LEMMA MapKeep ==
  ASSUME NEW r \in Msgs, Kind[r] # "live", StageOf[r] = "transit", StageOf'[r] = "stored",
         ReceiptsOf' = ReceiptsOf,
         \A m \in Msgs : m # r => \/ StageOf'[m] = StageOf[m]
                                  \/ StageOf[m] = "stored" /\ StageOf'[m] = "gone"
  PROVE  Mapped
<1> DEFINE S == {m \in Msgs : StageOf[m] = "stored" /\ StageOf'[m] = "gone"}
<1>1. StageOf' = [m \in Msgs |-> IF m = r THEN "stored" ELSE IF m \in S THEN "gone"
                                 ELSE StageOf[m]]
  BY StageIsFunction
<1>2. S \in SUBSET StoreAndForward!In("stored")
  BY DEF StoreAndForward!In
<1> HIDE DEF S
<1>3. StoreAndForward!Keep(r)
  BY <1>1, <1>2 DEF StoreAndForward!Keep
<1> QED
  BY <1>3 DEF Mapped, StoreAndForward!Next

\* What stage a message is in, from where it is.
StageFacts ==
  \A m \in Msgs :
    /\ \A c \in Conns :
         /\ Where[m] = {<<"hand", c>>} => StageOf[m] = "transit" /\ ReceiptsOf[m] = 0
         /\ Where[m] = {<<"todo", c>>} => StageOf[m] = "transit" /\ ReceiptsOf[m] = 0
         /\ Where[m] = {<<"buf", c>>} =>
              StageOf[m] = (IF writing[c] THEN "transit" ELSE "gone") /\ ReceiptsOf[m] = 0
         /\ Where[m] = {<<"got", c>>} => StageOf[m] = "received" /\ ReceiptsOf[m] = 1
    /\ \A u \in Users :
         /\ Where[m] = {<<"pending", u>>} => StageOf[m] = "stored" /\ ReceiptsOf[m] = 0
         /\ Where[m] = {<<"contacts", u>>} => StageOf[m] = "stored" /\ ReceiptsOf[m] = 0
    /\ Where[m] = {} =>
         /\ StageOf[m] = IF \E c \in Conns : Holds(sent[c], m) THEN "gone" ELSE "fresh"
         /\ ReceiptsOf[m] = 0

\* A message in no client's hands was not received, one in a client's was received once.
LEMMA ReceiptCount ==
  ASSUME HubInv, NEW m \in Msgs
  PROVE  /\ (\A c \in Conns : ~Holds(got[c], m)) => Receipts(m) = 0
         /\ \A c \in Conns : Where[m] = {<<"got", c>>} => Receipts(m) = 1
<1> DEFINE P == PlacesIn("got", got, m)
<1>1. DOMAIN got = Conns /\ \A c \in Conns : Once(got[c]) /\ m # Ctl
  BY ConstantsAssumption DEF HubInv, TypeInv, TypeOK, PlaceInv, QueuesOnce
<1>2. \A e \in P : \E c \in Conns : \E i \in DOMAIN got[c] : e = <<"got", c, i>> /\ got[c][i] = m
  BY <1>1, InTable
<1>3. ASSUME \A c \in Conns : ~Holds(got[c], m) PROVE Receipts(m) = 0
  <2>1. P = {}
    BY <1>2, <1>3 DEF Holds
  <2> QED
    BY <2>1, FS_EmptySet DEF Receipts
<1>4. ASSUME NEW c \in Conns, Where[m] = {<<"got", c>>} PROVE Receipts(m) = 1
  <2>1. \A d \in Conns : Holds(got[d], m) <=> d = c
    <3>1. OnlyAt(m, "got", c)
      BY <1>4, OneAt DEF HubInv, PlaceInv
    <3> QED
      BY <3>1 DEF OnlyAt
  <2>2. PICK i \in DOMAIN got[c] : got[c][i] = m
    BY <2>1 DEF Holds
  <2>3. \A d \in Conns : \A j \in DOMAIN got[d] : got[d][j] = m => d = c /\ j = i
    BY <1>1, <2>1, <2>2 DEF Holds, Once
  <2>4. <<"got", c, i>> \in P
    BY <1>1, <2>2 DEF PlacesIn
  <2>5. \A e \in P : e = <<"got", c, i>>
    BY <1>2, <2>3
  <2>6. P = {<<"got", c, i>>}
    BY <2>4, <2>5
  <2> QED
    BY <2>6, FS_Singleton DEF Receipts
<1> QED
  BY <1>3, <1>4

\* The places of a message determine its stage and its receipts.
LEMMA Staged == HubInv => StageFacts
<1> SUFFICES ASSUME HubInv, NEW m \in Msgs
             PROVE  /\ \A c \in Conns :
                         /\ Where[m] = {<<"hand", c>>} => Stage(m) = "transit" /\ Receipts(m) = 0
                         /\ Where[m] = {<<"todo", c>>} => Stage(m) = "transit" /\ Receipts(m) = 0
                         /\ Where[m] = {<<"buf", c>>} =>
                              /\ Stage(m) = (IF writing[c] THEN "transit" ELSE "gone")
                              /\ Receipts(m) = 0
                         /\ Where[m] = {<<"got", c>>} => Stage(m) = "received" /\ Receipts(m) = 1
                    /\ \A u \in Users :
                         /\ Where[m] = {<<"pending", u>>} => Stage(m) = "stored" /\ Receipts(m) = 0
                         /\ Where[m] = {<<"contacts", u>>} => Stage(m) = "stored" /\ Receipts(m) = 0
                    /\ Where[m] = {} =>
                         /\ Stage(m) = IF \E c \in Conns : Holds(sent[c], m) THEN "gone" ELSE "fresh"
                         /\ Receipts(m) = 0
  BY DEF StageFacts, StageOf, ReceiptsOf
<1>1. OnePlace(m)
  BY DEF HubInv, PlaceInv
<1>2. ASSUME NEW k, NEW x, Where[m] = {<<k, x>>} PROVE OnlyAt(m, k, x)
  BY <1>1, <1>2, OneAt
<1>3. ASSUME NEW c \in Conns, Where[m] = {<<"hand", c>>}
      PROVE  Stage(m) = "transit" /\ Receipts(m) = 0
  BY <1>2, <1>3, ReceiptCount DEF OnlyAt, Stage
<1>4. ASSUME NEW c \in Conns, Where[m] = {<<"todo", c>>}
      PROVE  Stage(m) = "transit" /\ Receipts(m) = 0
  BY <1>2, <1>4, ReceiptCount DEF OnlyAt, Stage
<1>5. ASSUME NEW c \in Conns, Where[m] = {<<"buf", c>>}
      PROVE  Stage(m) = (IF writing[c] THEN "transit" ELSE "gone") /\ Receipts(m) = 0
  <2>1. \E d \in Conns : Holds(sent[d], m)
    BY <1>1, <1>5 DEF OnePlace, Sent
  <2>2. OnlyAt(m, "buf", c)
    BY <1>2, <1>5
  <2> QED
    BY <2>1, <2>2, ReceiptCount DEF OnlyAt, Stage
<1>6. ASSUME NEW c \in Conns, Where[m] = {<<"got", c>>}
      PROVE  Stage(m) = "received" /\ Receipts(m) = 1
  <2>1. OnlyAt(m, "got", c)
    BY <1>2, <1>6
  <2> QED
    BY <1>6, <2>1, ReceiptCount DEF OnlyAt, Stage
<1>7. ASSUME NEW u \in Users, NEW k \in UserPlaces, Where[m] = {<<k, u>>}
      PROVE  Stage(m) = "stored" /\ Receipts(m) = 0
  <2>1. OnlyAt(m, k, u)
    BY <1>2, <1>7
  <2> QED
    BY <2>1, ReceiptCount DEF OnlyAt, Stage, UserPlaces
<1>8. ASSUME Where[m] = {}
      PROVE  /\ Stage(m) = IF \E c \in Conns : Holds(sent[c], m) THEN "gone" ELSE "fresh"
             /\ Receipts(m) = 0
  <2>1. /\ \A c \in Conns : hand[c] # m /\ ~Holds(todo[c], m) /\ ~Holds(buf[c], m)
                            /\ ~Holds(got[c], m)
        /\ \A u \in Users : ~Holds(pending[u], m) /\ ~Holds(contacts[u], m)
    BY <1>8, Located DEF LocatedFacts
  <2> QED
    BY <2>1, ReceiptCount DEF Stage
<1> QED
  BY <1>3, <1>4, <1>5, <1>6, <1>7, <1>8 DEF UserPlaces

\* The places a message can be in.
LEMMA PlaceCases ==
  ASSUME HubInv, NEW m \in Msgs
  PROVE  \/ Where[m] = {}
         \/ \E c \in Conns : \/ Where[m] = {<<"hand", c>>} \/ Where[m] = {<<"todo", c>>}
                             \/ Where[m] = {<<"buf", c>>} \/ Where[m] = {<<"got", c>>}
         \/ \E u \in Users : Where[m] = {<<"pending", u>>} \/ Where[m] = {<<"contacts", u>>}
<1>1. (\A p, q \in Where[m] : p = q) /\ Where[m] \subseteq AllPlaces
  BY Located DEF HubInv, PlaceInv, OnePlace, LocatedFacts
<1>2. CASE Where[m] # {}
  <2>1. PICK p \in AllPlaces : Where[m] = {p}
    BY <1>1, <1>2
  <2>2. CASE p \in ConnPlaces \X Conns
    <3>1. PICK k \in ConnPlaces, c \in Conns : p = <<k, c>>
      BY <2>2
    <3> QED
      BY <2>1, <3>1 DEF ConnPlaces
  <2>3. CASE p \in UserPlaces \X Users
    <3>1. PICK k \in UserPlaces, u \in Users : p = <<k, u>>
      BY <2>3
    <3> QED
      BY <2>1, <3>1 DEF UserPlaces
  <2> QED
    BY <2>2, <2>3 DEF AllPlaces
<1> QED
  BY <1>2

\* A message that stays where it is stays in its stage while nothing happens to the writer of
\* the channel it is in.
LEMMA StageStays ==
  ASSUME HubInv, StageFacts, StageFacts', NEW m \in Msgs, Stays(m),
         \A c \in Conns : Holds(buf[c], m) => writing'[c] = writing[c],
         (\E c \in Conns : Holds(sent[c], m)) <=> (\E c \in Conns : Holds(sent'[c], m))
  PROVE  StageOf'[m] = StageOf[m] /\ ReceiptsOf'[m] = ReceiptsOf[m]
<1>1. Where'[m] = Where[m]
  BY DEF Stays
<1>2. CASE Where[m] = {}
  BY <1>1, <1>2 DEF StageFacts
<1>3. ASSUME NEW c \in Conns,
             Where[m] = {<<"hand", c>>} \/ Where[m] = {<<"todo", c>>} \/ Where[m] = {<<"got", c>>}
      PROVE  StageOf'[m] = StageOf[m] /\ ReceiptsOf'[m] = ReceiptsOf[m]
  BY <1>1, <1>3 DEF StageFacts
<1>4. ASSUME NEW c \in Conns, Where[m] = {<<"buf", c>>}
      PROVE  StageOf'[m] = StageOf[m] /\ ReceiptsOf'[m] = ReceiptsOf[m]
  <2>1. Holds(buf[c], m)
    BY <1>4, Located DEF LocatedFacts
  <2>2. writing'[c] = writing[c]
    BY <2>1
  <2> QED
    BY <1>1, <1>4, <2>2 DEF StageFacts
<1>5. ASSUME NEW u \in Users, Where[m] = {<<"pending", u>>} \/ Where[m] = {<<"contacts", u>>}
      PROVE  StageOf'[m] = StageOf[m] /\ ReceiptsOf'[m] = ReceiptsOf[m]
  BY <1>1, <1>5 DEF StageFacts
<1> QED
  BY <1>2, <1>3, <1>4, <1>5, PlaceCases

\* A message that is lost on its way, or from a channel, was in transit or lost before.
LEMMA StageLeaves ==
  ASSUME HubInv, StageFacts, StageFacts', NEW m \in Msgs, NEW p, Leaves(m, p),
         \A c \in Conns : Holds(sent[c], m) => Holds(sent'[c], m)
  PROVE  /\ StageOf'[m] = "gone" /\ ReceiptsOf'[m] = 0
         /\ \A c \in Conns : p = <<"hand", c>> \/ p = <<"todo", c>> =>
              StageOf[m] = "transit" /\ ReceiptsOf[m] = 0
         /\ \A c \in Conns : p = <<"buf", c>> =>
              StageOf[m] = (IF writing[c] THEN "transit" ELSE "gone") /\ ReceiptsOf[m] = 0
         /\ \A u \in Users : p = <<"pending", u>> \/ p = <<"contacts", u>> =>
              StageOf[m] = "stored" /\ ReceiptsOf[m] = 0
<1>1. Where[m] = {p} /\ Where'[m] = {}
  BY DEF Leaves
<1>2. \E c \in Conns : Holds(sent[c], m)
  BY <1>1 DEF HubInv, PlaceInv, OnePlace, Sent
<1>3. StageOf'[m] = "gone" /\ ReceiptsOf'[m] = 0
  BY <1>1, <1>2 DEF StageFacts
<1>4. \A c \in Conns : p = <<"hand", c>> \/ p = <<"todo", c>> =>
        StageOf[m] = "transit" /\ ReceiptsOf[m] = 0
  BY <1>1 DEF StageFacts
<1>5. \A c \in Conns : p = <<"buf", c>> =>
        StageOf[m] = (IF writing[c] THEN "transit" ELSE "gone") /\ ReceiptsOf[m] = 0
  BY <1>1 DEF StageFacts
<1>6. \A u \in Users : p = <<"pending", u>> \/ p = <<"contacts", u>> =>
        StageOf[m] = "stored" /\ ReceiptsOf[m] = 0
  BY <1>1 DEF StageFacts
<1> QED
  BY <1>3, <1>4, <1>5, <1>6

\* ReceiptsOf is known from its values.
LEMMA SameReceipts ==
  ASSUME \A m \in Msgs : ReceiptsOf'[m] = ReceiptsOf[m]
  PROVE  ReceiptsOf' = ReceiptsOf
<1>1. ReceiptsOf = [m \in Msgs |-> ReceiptsOf[m]]
  BY DEF ReceiptsOf
<1> QED
  BY <1>1, StageIsFunction

\* Before its first frame nothing was ever queued for a connection.
LEMMA NewChannel ==
  ASSUME HubInv, NEW c \in Conns, phase[c] = "new"
  PROVE  \A m \in Msgs : ~Holds(buf[c], m)
BY DEF HubInv, PlaceInv, BetweenHandlers, ConfineInv, Confined

\* Every step of the relay is a step of the service, or none.
LEMMA MapStep ==
  ASSUME HubInv, StageFacts, StageFacts', [Next]_vars
  PROVE  Mapped
<1> USE DEF channelVars, storeVars, historyVars
<1>1. TypeInv
  BY DEF HubInv
<1>2. \A m \in Msgs : \A c \in Conns : Holds(sent[c], m) => Holds(sent'[c], m)
  BY <1>1, SentStays
<1>3. ASSUME \A c \in Conns : \A r \in Msgs : ~Receive(c, r)
      PROVE  \A m \in Msgs : (\E c \in Conns : Holds(sent[c], m))
                               <=> (\E c \in Conns : Holds(sent'[c], m))
  BY <1>1, <1>3, SentStays
<1>4. ASSUME UNCHANGED vars PROVE Mapped
  <2>1. \A m \in Msgs : Stays(m)
    BY <1>4, SamePlace DEF vars, Stays
  <2>2. writing' = writing /\ sent' = sent
    BY <1>4 DEF vars
  <2>3. \A m \in Msgs : StageOf'[m] = StageOf[m] /\ ReceiptsOf'[m] = ReceiptsOf[m]
    BY <2>1, <2>2, StageStays
  <2> QED
    BY <2>3, SameReceipts, MapLose
\* Steps that lose messages on their way, or none.
<1>5. ASSUME sent' = sent,
             \A m \in Msgs :
               \/ /\ Stays(m)
                  /\ \A c \in Conns : Holds(buf[c], m) => writing'[c] = writing[c]
               \/ \E c \in Conns : \/ Leaves(m, <<"hand", c>>)
                                   \/ Leaves(m, <<"todo", c>>)
                                   \/ Leaves(m, <<"buf", c>>)
                                   \/ Stays(m) /\ Where[m] = {<<"buf", c>>} /\ ~writing'[c]
                                   \/ \E d \in Conns : Moves(m, <<"hand", c>>, <<"buf", d>>)
                                   \/ Moves(m, <<"todo", c>>, <<"buf", c>>)
      PROVE  Mapped
  <2>1. ASSUME NEW m \in Msgs
        PROVE  /\ ReceiptsOf'[m] = ReceiptsOf[m]
               /\ \/ StageOf'[m] = StageOf[m]
                  \/ StageOf[m] = "transit" /\ StageOf'[m] = "gone"
    <3>1. CASE /\ Stays(m)
               /\ \A c \in Conns : Holds(buf[c], m) => writing'[c] = writing[c]
      BY <1>5, <3>1, StageStays
    <3>2. ASSUME NEW c \in Conns,
                 Leaves(m, <<"hand", c>>) \/ Leaves(m, <<"todo", c>>) \/ Leaves(m, <<"buf", c>>)
          PROVE  /\ ReceiptsOf'[m] = ReceiptsOf[m]
                 /\ \/ StageOf'[m] = StageOf[m]
                    \/ StageOf[m] = "transit" /\ StageOf'[m] = "gone"
      <4>1. PICK p : /\ p = <<"hand", c>> \/ p = <<"todo", c>> \/ p = <<"buf", c>>
                     /\ Leaves(m, p)
        BY <3>2
      <4>2. StageOf'[m] = "gone" /\ ReceiptsOf'[m] = 0
        BY <1>2, <4>1, StageLeaves
      <4>3. (StageOf[m] = "transit" \/ StageOf[m] = "gone") /\ ReceiptsOf[m] = 0
        BY <1>2, <4>1, StageLeaves
      <4> QED
        BY <4>2, <4>3
    <3>3. ASSUME NEW c \in Conns, Stays(m), Where[m] = {<<"buf", c>>}, ~writing'[c]
          PROVE  /\ ReceiptsOf'[m] = ReceiptsOf[m]
                 /\ \/ StageOf'[m] = StageOf[m]
                    \/ StageOf[m] = "transit" /\ StageOf'[m] = "gone"
      <4>1. Where'[m] = {<<"buf", c>>}
        BY <3>3 DEF Stays
      <4> QED
        BY <3>3, <4>1 DEF StageFacts
    <3>4. ASSUME NEW c \in Conns, NEW d \in Conns,
                 \/ Where[m] = {<<"hand", c>>}
                 \/ Where[m] = {<<"todo", c>>},
                 Where'[m] = {<<"buf", d>>}
          PROVE  /\ ReceiptsOf'[m] = ReceiptsOf[m]
                 /\ \/ StageOf'[m] = StageOf[m]
                    \/ StageOf[m] = "transit" /\ StageOf'[m] = "gone"
      BY <3>4 DEF StageFacts
    <3> QED
      BY <1>5, <3>1, <3>2, <3>3, <3>4 DEF Moves
  <2> QED
    BY <2>1, SameReceipts, MapLose
<1>6. ASSUME NEW c \in Conns, Quiet(c) PROVE Mapped
  <2>1. sent' = sent /\ \A m \in Msgs : Stays(m)
    BY <1>6, QuietEffect
  <2>2. \/ writing' = writing
        \/ phase[c] = "new" /\ \A d \in Conns : d # c => writing'[d] = writing[d]
    <3>1. writing \in [Conns -> BOOLEAN]
      BY <1>1 DEF TypeInv, TypeOK
    <3> QED
      BY <1>6, <3>1 DEF Quiet, Connect, Disconnect, Register, Reply, Announce, AnnouncePanics,
                        Ack, Unlist
  <2>3. \A m \in Msgs : \A d \in Conns : Holds(buf[d], m) => writing'[d] = writing[d]
    BY <2>2, NewChannel
  <2> QED
    BY <1>5, <2>1, <2>3
<1>7. ASSUME NEW c \in Conns, PopContacts(c) \/ PopMessages(c) PROVE Mapped
  <2>1. /\ owner[c] \in Users
        /\ writing' = writing /\ sent' = sent
        /\ \A m \in Msgs : \/ Stays(m)
                           \/ Moves(m, <<"contacts", owner[c]>>, <<"todo", c>>)
                           \/ Moves(m, <<"pending", owner[c]>>, <<"todo", c>>)
    BY <1>7, PopEffect
  <2>2. ASSUME NEW m \in Msgs
        PROVE  /\ ReceiptsOf'[m] = ReceiptsOf[m]
               /\ \/ StageOf'[m] = StageOf[m]
                  \/ StageOf[m] = "stored" /\ StageOf'[m] = "transit"
    <3>1. CASE Stays(m)
      BY <2>1, <3>1, StageStays
    <3>2. CASE Moves(m, <<"contacts", owner[c]>>, <<"todo", c>>)
      BY <2>1, <3>2 DEF Moves, StageFacts
    <3>3. CASE Moves(m, <<"pending", owner[c]>>, <<"todo", c>>)
      BY <2>1, <3>3 DEF Moves, StageFacts
    <3> QED
      BY <2>1, <3>1, <3>2, <3>3
  <2> QED
    BY <2>2, SameReceipts, MapRelease
<1>8. ASSUME NEW c \in Conns, Give(c) PROVE Mapped
  <2>1. /\ writing' = writing /\ sent' = sent
        /\ \A m \in Msgs : \/ Stays(m)
                           \/ Leaves(m, <<"todo", c>>)
                           \/ Moves(m, <<"todo", c>>, <<"buf", c>>)
    BY <1>8, GiveEffect
  <2> QED
    BY <1>5, <2>1
<1>9. ASSUME NEW c \in Conns, Deliver(c) PROVE Mapped
  <2>1. PICK h : h = hand[c]
    OBVIOUS
  <2>2. PICK t : t = target[c]
    OBVIOUS
  <2>3. /\ t \in Conns
        /\ writing' = writing /\ sent' = sent
        /\ \A m \in Msgs : \/ Stays(m)
                           \/ Leaves(m, <<"hand", c>>)
                           \/ Moves(m, <<"hand", c>>, <<"buf", t>>)
    BY <1>9, <2>1, <2>2, DeliverEffect
  <2> QED
    BY <1>5, <2>3
<1>10. ASSUME NEW c \in Conns, DeliverPanics(c) PROVE Mapped
  <2>1. PICK h : h = hand[c]
    OBVIOUS
  <2>2. /\ writing' = writing /\ sent' = sent
        /\ \A m \in Msgs : Stays(m) \/ Leaves(m, <<"hand", c>>)
    BY <1>10, <2>1, PanicEffect
  <2> QED
    BY <1>5, <2>2
<1>11. ASSUME NEW c \in Conns, Store(c) PROVE Mapped
  <2>1. PICK h : h = hand[c]
    OBVIOUS
  <2>2. PICK u : u = Dest[h]
    OBVIOUS
  <2>3. /\ h \in Msgs /\ u \in Users
        /\ CASE Kind[h] = "live"    -> Leaves(h, <<"hand", c>>)
             [] Kind[h] = "store"   -> Moves(h, <<"hand", c>>, <<"pending", u>>)
             [] Kind[h] = "contact" -> Moves(h, <<"hand", c>>, <<"contacts", u>>)
        /\ \A m \in Msgs : m # h => Stays(m) \/ Replaced(m, h)
    BY <1>11, <2>1, <2>2, StoreEffect
  <2>4. writing' = writing /\ sent' = sent
    BY <1>11 DEF Store
  <2>5. Kind[h] \in {"live", "store", "contact"}
    BY <2>3, ConstantsAssumption
  <2>6. CASE Kind[h] = "live"
    BY <1>5, <2>3, <2>4, <2>6 DEF Replaced
  <2>7. CASE Kind[h] # "live"
    <3>1. /\ StageOf[h] = "transit" /\ ReceiptsOf[h] = 0
          /\ StageOf'[h] = "stored" /\ ReceiptsOf'[h] = 0
      <4>1. Where[h] = {<<"hand", c>>}
        BY <2>3, <2>5, <2>7 DEF Moves
      <4>2. Where'[h] = {<<"pending", u>>} \/ Where'[h] = {<<"contacts", u>>}
        BY <2>3, <2>5, <2>7 DEF Moves
      <4> QED
        BY <2>3, <4>1, <4>2 DEF StageFacts
    <3>2. ASSUME NEW m \in Msgs, m # h
          PROVE  /\ ReceiptsOf'[m] = ReceiptsOf[m]
                 /\ \/ StageOf'[m] = StageOf[m]
                    \/ StageOf[m] = "stored" /\ StageOf'[m] = "gone"
      <4>1. CASE Stays(m)
        BY <2>4, <4>1, StageStays
      <4>2. CASE Replaced(m, h)
        <5>1. PICK p : p = <<"contacts", u>> /\ Leaves(m, p)
          BY <2>2, <4>2 DEF Replaced
        <5> QED
          BY <1>2, <2>3, <5>1, StageLeaves
      <4> QED
        BY <2>3, <3>2, <4>1, <4>2
    <3>3. ReceiptsOf' = ReceiptsOf
      BY <3>1, <3>2, SameReceipts
    <3> QED
      BY <2>3, <2>7, <3>1, <3>2, <3>3, MapKeep
  <2> QED
    BY <2>6, <2>7
<1>12. ASSUME NEW c \in Conns, CloseChannel(c) PROVE Mapped
  <2>1. /\ sent' = sent
        /\ \A d \in Conns : d # c => writing'[d] = writing[d]
        /\ \A m \in Msgs : Stays(m) \/ Leaves(m, <<"buf", c>>)
    <3>1. writing \in [Conns -> BOOLEAN]
      BY <1>1 DEF TypeInv, TypeOK
    <3> QED
      BY <1>12, <3>1, CloseEffect DEF CloseChannel
  <2>2. buf'[c] = <<>>
    BY <1>1, <1>12 DEF CloseChannel, TypeInv, TypeOK
  <2>3. ASSUME NEW m \in Msgs, Stays(m) PROVE ~Holds(buf[c], m)
    <3>1. ~Holds(buf'[c], m)
      BY <2>2, EmptyQueue
    <3>2. LocatedFacts /\ LocatedFacts'
      BY Located, PTL
    <3> QED
      BY <2>3, <3>1, <3>2 DEF Stays, LocatedFacts
  <2> QED
    BY <1>5, <2>1, <2>3
<1>13. ASSUME NEW c \in Conns, WriteLost(c) PROVE Mapped
  <2>1. /\ sent' = sent
        /\ ~writing'[c] \/ writing' = writing
        /\ \A d \in Conns : d # c => writing'[d] = writing[d]
        /\ \A m \in Msgs : Stays(m) \/ Leaves(m, <<"buf", c>>)
    <3>1. writing \in [Conns -> BOOLEAN] /\ Writer(c) /\ ~Write(c)
      BY <1>1, <1>13 DEF TypeInv, TypeOK, Writer, Write, WriteLost
    <3> QED
      BY <1>13, <3>1, WriterEffect
  <2>2. ASSUME NEW m \in Msgs, Holds(buf[c], m) PROVE Where[m] = {<<"buf", c>>}
    <3>1. OnePlace(m) /\ <<"buf", c>> \in Where[m]
      BY <2>2, Located DEF HubInv, PlaceInv, LocatedFacts
    <3> QED
      BY <3>1, OneAt
  <2>3. CASE writing' = writing
    BY <1>5, <2>1, <2>3
  <2>4. CASE ~writing'[c]
    BY <1>5, <2>1, <2>2, <2>4
  <2> QED
    BY <2>1, <2>3, <2>4
<1>14. ASSUME NEW c \in Conns, Write(c) PROVE Mapped
  <2>1. /\ writing' = writing /\ sent' = sent /\ writing[c]
        /\ \A m \in Msgs : \/ Stays(m)
                           \/ Moves(m, <<"buf", c>>, <<"got", c>>) /\ m = Head(buf[c])
    <3>1. Writer(c) /\ ~WriteLost(c)
      BY <1>14 DEF Writer, Write, WriteLost
    <3> QED
      BY <1>14, <3>1, WriterEffect
  <2>2. \A m \in Msgs : Stays(m) => /\ StageOf'[m] = StageOf[m]
                                    /\ ReceiptsOf'[m] = ReceiptsOf[m]
    BY <2>1, StageStays
  <2>3. CASE \A m \in Msgs : Stays(m)
    BY <2>2, <2>3, SameReceipts, MapLose
  <2>4. ASSUME NEW r \in Msgs, ~Stays(r) PROVE Mapped
    <3>1. Moves(r, <<"buf", c>>, <<"got", c>>) /\ \A m \in Msgs : m # r => Stays(m)
      BY <2>1, <2>4
    <3>2. /\ StageOf[r] = "transit" /\ ReceiptsOf[r] = 0
          /\ StageOf'[r] = "received" /\ ReceiptsOf'[r] = 1
      BY <2>1, <3>1 DEF Moves, StageFacts
    <3> QED
      BY <2>2, <3>1, <3>2, MapReceive
  <2> QED
    BY <2>3, <2>4
<1>15. ASSUME NEW c \in Conns, NEW r \in Msgs, Receive(c, r) PROVE Mapped
  <2>1. /\ Where[r] = {} /\ Where'[r] = {<<"hand", c>>}
        /\ ~Sent(r)
        /\ \A m \in Msgs : m # r => Stays(m)
    BY <1>15, ReceiveEffect
  <2>2. writing' = writing /\ sent' = [sent EXCEPT ![c] = Append(@, r)]
    BY <1>15 DEF Receive
  <2>3. StageOf[r] = "fresh" /\ ReceiptsOf[r] = 0 /\ StageOf'[r] = "transit" /\ ReceiptsOf'[r] = 0
    BY <2>1 DEF StageFacts, Sent
  <2>4. \A m \in Msgs : \A d \in Conns : m # r => (Holds(sent'[d], m) <=> Holds(sent[d], m))
    <3>1. \A m : Holds(Append(sent[c], r), m) <=> Holds(sent[c], m) \/ m = r
      BY <1>1, AppendEffect DEF TypeInv, TypeOK
    <3> QED
      BY <1>1, <2>2, <3>1 DEF TypeInv, TypeOK
  <2>5. \A m \in Msgs : m # r => StageOf'[m] = StageOf[m] /\ ReceiptsOf'[m] = ReceiptsOf[m]
    BY <2>1, <2>2, <2>4, StageStays
  <2>6. ReceiptsOf' = ReceiptsOf
    BY <2>3, <2>5, SameReceipts
  <2> QED
    BY <2>3, <2>5, <2>6, MapAccept
<1>16. ASSUME Cleanup PROVE Mapped
  <2>1. /\ writing' = writing /\ sent' = sent
        /\ \A m \in Msgs : \/ Stays(m)
                           \/ \E u \in Users : \/ Leaves(m, <<"pending", u>>)
                                               \/ Leaves(m, <<"contacts", u>>)
    BY <1>16, CleanupEffect
  <2>2. ASSUME NEW m \in Msgs
        PROVE  /\ ReceiptsOf'[m] = ReceiptsOf[m]
               /\ \/ StageOf'[m] = StageOf[m]
                  \/ StageOf[m] = "stored" /\ StageOf'[m] = "gone"
    <3>1. CASE Stays(m)
      BY <2>1, <3>1, StageStays
    <3>2. CASE \E u \in Users : Leaves(m, <<"pending", u>>) \/ Leaves(m, <<"contacts", u>>)
      <4>0. PICK u \in Users : Leaves(m, <<"pending", u>>) \/ Leaves(m, <<"contacts", u>>)
        BY <3>2
      <4>1. PICK p : (p = <<"pending", u>> \/ p = <<"contacts", u>>) /\ Leaves(m, p)
        BY <4>0
      <4> QED
        BY <1>2, <4>1, StageLeaves
    <3> QED
      BY <2>1, <3>1, <3>2
  <2> QED
    BY <2>2, SameReceipts, MapExpire
<1>17. ASSUME NEW c \in Conns, ~Quiet(c),
              \/ Connect(c) \/ Disconnect(c)
              \/ \E u \in Ids[c] : Register(c, u)
              \/ Reply(c) \/ Handler(c) \/ Writer(c)
       PROVE  Mapped
  BY <1>7, <1>8, <1>9, <1>10, <1>11, <1>12, <1>13, <1>14, <1>17 DEF Handler, Writer, Quiet
<1> QED
  BY <1>4, <1>6, <1>15, <1>16, <1>17 DEF Next

\* The relay implements the store-and-forward service: whatever its goroutines do, every
\* message goes through the stages of StoreForward in its order, is received once at most, and
\* is kept only if it may be.
THEOREM RelayStoresAndForwards == Spec => Mailbox
<1>1. Init => StoreAndForward!Init
  <2> SUFFICES ASSUME Init PROVE StoreAndForward!Init
    OBVIOUS
  <2>1. NoMsg \notin Msgs /\ \A m : ~Holds(<<>>, m)
    BY ConstantsAssumption, EmptyQueue
  <2>2. \A m \in Msgs : Stage(m) = "fresh"
    BY <2>1 DEF Init, Stage
  <2>3. \A m \in Msgs : Receipts(m) = 0
    <3> SUFFICES ASSUME NEW m \in Msgs PROVE Receipts(m) = 0
      OBVIOUS
    <3>1. PlacesIn("got", got, m) = {}
      BY <2>1, InTable DEF Init, Holds
    <3> QED
      BY <3>1, FS_EmptySet DEF Receipts
  <2> QED
    BY <2>2, <2>3 DEF StoreAndForward!Init, StageOf, ReceiptsOf
<1>2. HubInv /\ HubInv' /\ [Next]_vars => Mapped
  <2>1. HubInv => StageFacts
    BY Staged
  <2>2. HubInv' => StageFacts'
    BY <2>1, PTL
  <2> QED
    BY <2>1, <2>2, MapStep
<1> QED
  BY <1>1, <1>2, HubInvariant, PTL DEF Spec, Mailbox, StoreAndForward!Spec, Mapped

-----------------------------------------------------------------------------
(* Losses have causes                                                      *)

\* What failed when a step lost m.
Cause(m) ==
  \/ \E c \in Conns : /\ Bound(m, c)
                      /\ Len(buf[c]) = BufCap \/ ~up[c] \/ phase[c] = "unlisted"
  \/ Stage(m) = "stored" /\ UNCHANGED readerVars
  \/ \E c \in Conns : /\ phase[c] = "store" /\ hand[c] # m
                      /\ Kind[hand[c]] = "contact" /\ From[hand[c]] = From[m]
                      /\ Dest[hand[c]] = Dest[m]

\* Whatever is lost has a cause.
LEMMA LossStep ==
  ASSUME HubInv, StageFacts, StageFacts', Next, NEW m \in Msgs, Kind[m] # "live",
         StageOf[m] \in {"transit", "stored"}, StageOf'[m] = "gone"
  PROVE  Cause(m)
<1> USE DEF channelVars, storeVars, historyVars
<1>1. /\ TypeInv /\ BetweenHandlers /\ OnePlace(m)
      /\ [Next]_vars
  BY DEF HubInv, PlaceInv
<1>2. \A c \in Conns : Holds(sent[c], m) => Holds(sent'[c], m)
  BY <1>1, SentStays
\* Bound, by place.
<1>3. ASSUME NEW c \in Conns, Where[m] = {<<"todo", c>>} \/ Where[m] = {<<"buf", c>>}
      PROVE  Bound(m, c)
  BY <1>3, Located DEF LocatedFacts, Bound
<1>4. ASSUME NEW c \in Conns, Where[m] = {<<"hand", c>>}, target[c] \in Conns
      PROVE  Bound(m, target[c])
  BY <1>4, Located DEF LocatedFacts, Bound
<1>5. ASSUME NEW c \in Conns, Bound(m, c), Len(buf[c]) = BufCap \/ ~up[c] \/ phase[c] = "unlisted"
      PROVE  Cause(m)
  BY <1>5 DEF Cause
\* A step that leaves m where it is loses it only with its writer.
<1>6. ASSUME Stays(m), sent' = sent
      PROVE  \E c \in Conns : Where[m] = {<<"buf", c>>} /\ writing'[c] # writing[c]
  <2>1. ~ \A c \in Conns : Holds(buf[c], m) => writing'[c] = writing[c]
    BY <1>6, StageStays
  <2>2. PICK c \in Conns : Holds(buf[c], m) /\ writing'[c] # writing[c]
    BY <2>1
  <2>3. <<"buf", c>> \in Where[m]
    BY <2>2, Located DEF LocatedFacts
  <2> QED
    BY <1>1, <2>2, <2>3, OneAt
\* One that moves it to a channel loses it only if the writer of that has returned.
<1>7. ASSUME NEW p, NEW c \in Conns, Moves(m, p, <<"buf", c>>), writing' = writing
      PROVE  ~up[c]
  <2>1. ~writing'[c]
    BY <1>7 DEF Moves, StageFacts
  <2> QED
    BY <1>1, <1>7, <2>1 DEF BetweenHandlers
<1>8. ASSUME NEW c \in Conns, Quiet(c) PROVE FALSE
  <2>1. sent' = sent /\ Stays(m)
    BY <1>8, QuietEffect
  <2>2. \/ writing' = writing
        \/ phase[c] = "new" /\ \A d \in Conns : d # c => writing'[d] = writing[d]
    <3>1. writing \in [Conns -> BOOLEAN]
      BY <1>1 DEF TypeInv, TypeOK
    <3> QED
      BY <1>8, <3>1 DEF Quiet, Connect, Disconnect, Register, Reply, Announce, AnnouncePanics,
                        Ack, Unlist
  <2>3. PICK d \in Conns : Where[m] = {<<"buf", d>>} /\ writing'[d] # writing[d]
    BY <1>6, <2>1
  <2>4. Holds(buf[d], m)
    BY <2>3, Located DEF LocatedFacts
  <2> QED
    BY <2>2, <2>3, <2>4, NewChannel
<1>9. ASSUME NEW c \in Conns, PopContacts(c) \/ PopMessages(c) PROVE FALSE
  <2>1. /\ owner[c] \in Users
        /\ writing' = writing /\ sent' = sent
        /\ \/ Stays(m)
           \/ Moves(m, <<"contacts", owner[c]>>, <<"todo", c>>)
           \/ Moves(m, <<"pending", owner[c]>>, <<"todo", c>>)
    BY <1>9, PopEffect
  <2>2. ~Stays(m)
    BY <1>6, <2>1
  <2>3. Where'[m] = {<<"todo", c>>}
    BY <2>1, <2>2 DEF Moves
  <2> QED
    BY <2>3 DEF StageFacts
<1>10. ASSUME NEW c \in Conns, Give(c) PROVE Cause(m)
  <2>1. /\ writing' = writing /\ sent' = sent
        /\ \/ Stays(m)
           \/ Len(buf[c]) = BufCap /\ Leaves(m, <<"todo", c>>)
           \/ Moves(m, <<"todo", c>>, <<"buf", c>>)
    BY <1>10, GiveEffect
  <2>2. Where[m] = {<<"todo", c>>} /\ (Len(buf[c]) = BufCap \/ ~up[c])
    BY <1>6, <1>7, <2>1 DEF Leaves, Moves
  <2> QED
    BY <1>3, <1>5, <2>2
<1>11. ASSUME NEW c \in Conns, Deliver(c) PROVE Cause(m)
  <2>1. PICK h : h = hand[c]
    OBVIOUS
  <2>2. PICK t : t = target[c]
    OBVIOUS
  <2>3. /\ t \in Conns
        /\ writing' = writing /\ sent' = sent
        /\ \/ Stays(m)
           \/ Len(buf[t]) = BufCap /\ Leaves(m, <<"hand", c>>)
           \/ Moves(m, <<"hand", c>>, <<"buf", t>>)
    BY <1>11, <2>1, <2>2, DeliverEffect
  <2>4. Where[m] = {<<"hand", c>>} /\ (Len(buf[t]) = BufCap \/ ~up[t])
    BY <1>6, <1>7, <2>3 DEF Leaves, Moves
  <2>5. Bound(m, t)
    BY <1>4, <2>2, <2>3, <2>4
  <2> QED
    BY <1>5, <2>3, <2>4, <2>5
<1>12. ASSUME NEW c \in Conns, DeliverPanics(c) PROVE Cause(m)
  <2>1. PICK h : h = hand[c]
    OBVIOUS
  <2>2. /\ target[c] \in Conns /\ closed[target[c]]
        /\ writing' = writing /\ sent' = sent
        /\ Stays(m) \/ Leaves(m, <<"hand", c>>)
    BY <1>12, <2>1, PanicEffect
  <2>3. Where[m] = {<<"hand", c>>}
    BY <1>6, <2>2 DEF Leaves
  <2>4. ~up[target[c]]
    BY <1>1, <2>2 DEF BetweenHandlers
  <2> QED
    BY <1>4, <1>5, <2>2, <2>3, <2>4
<1>13. ASSUME NEW c \in Conns, Store(c) PROVE Cause(m)
  <2>1. PICK h : h = hand[c]
    OBVIOUS
  <2>2. PICK u : u = Dest[h]
    OBVIOUS
  <2>3. /\ h \in Msgs /\ u \in Users
        /\ CASE Kind[h] = "live"    -> Leaves(h, <<"hand", c>>)
             [] Kind[h] = "store"   -> Moves(h, <<"hand", c>>, <<"pending", u>>)
             [] Kind[h] = "contact" -> Moves(h, <<"hand", c>>, <<"contacts", u>>)
        /\ m # h => Stays(m) \/ Replaced(m, h)
    BY <1>13, <2>1, <2>2, StoreEffect
  <2>4. writing' = writing /\ sent' = sent /\ phase[c] = "store"
    BY <1>13 DEF Store
  <2>5. Kind[h] \in {"live", "store", "contact"}
    BY <2>3, ConstantsAssumption
  <2>6. m # h
    <3>1. SUFFICES ASSUME m = h PROVE FALSE
      OBVIOUS
    <3>2. Where'[m] = {<<"pending", u>>} \/ Where'[m] = {<<"contacts", u>>}
      BY <2>3, <2>5, <3>1 DEF Moves
    <3> QED
      BY <2>3, <3>2 DEF StageFacts
  <2>7. ~Stays(m)
    BY <1>6, <2>4
  <2>8. Where[m] = {<<"contacts", u>>} /\ Kind[h] = "contact" /\ From[m] = From[h]
    BY <2>2, <2>3, <2>6, <2>7 DEF Leaves, Replaced
  <2>9. Holds(contacts[u], m)
    BY <2>3, <2>8, Located DEF LocatedFacts
  <2>10. Dest[m] = Dest[h]
    BY <2>2, <2>3, <2>9 DEF HubInv, ConfineInv, RightQueue
  <2> QED
    BY <2>1, <2>4, <2>6, <2>8, <2>10 DEF Cause
<1>14. ASSUME NEW c \in Conns, CloseChannel(c) PROVE Cause(m)
  <2>1. /\ sent' = sent /\ phase[c] = "unlisted"
        /\ \A d \in Conns : d # c => writing'[d] = writing[d]
        /\ Stays(m) \/ Leaves(m, <<"buf", c>>)
    <3>1. writing \in [Conns -> BOOLEAN]
      BY <1>1 DEF TypeInv, TypeOK
    <3> QED
      BY <1>14, <3>1, CloseEffect DEF CloseChannel
  <2>2. Where[m] = {<<"buf", c>>}
    BY <1>6, <2>1 DEF Leaves
  <2> QED
    BY <1>3, <1>5, <2>1, <2>2
<1>15. ASSUME NEW c \in Conns, WriteLost(c) PROVE Cause(m)
  <2>1. /\ sent' = sent /\ ~up[c]
        /\ \A d \in Conns : d # c => writing'[d] = writing[d]
        /\ Stays(m) \/ Leaves(m, <<"buf", c>>)
    <3>1. writing \in [Conns -> BOOLEAN] /\ Writer(c) /\ ~Write(c)
      BY <1>1, <1>15 DEF TypeInv, TypeOK, Writer, Write, WriteLost
    <3> QED
      BY <1>15, <3>1, WriterEffect
  <2>2. Where[m] = {<<"buf", c>>}
    BY <1>6, <2>1 DEF Leaves
  <2> QED
    BY <1>3, <1>5, <2>1, <2>2
<1>16. ASSUME NEW c \in Conns, Write(c) PROVE FALSE
  <2>1. /\ writing' = writing /\ sent' = sent
        /\ Stays(m) \/ Moves(m, <<"buf", c>>, <<"got", c>>)
    <3>1. Writer(c) /\ ~WriteLost(c)
      BY <1>16 DEF Writer, Write, WriteLost
    <3> QED
      BY <1>16, <3>1, WriterEffect
  <2>2. Where'[m] = {<<"got", c>>}
    BY <1>6, <2>1 DEF Moves
  <2> QED
    BY <2>2 DEF StageFacts
<1>17. ASSUME NEW c \in Conns, NEW r \in Msgs, Receive(c, r) PROVE FALSE
  <2>1. /\ Where[r] = {} /\ Where'[r] = {<<"hand", c>>}
        /\ ~Sent(r)
        /\ m # r => Stays(m)
    BY <1>17, ReceiveEffect
  <2>2. writing' = writing /\ sent' = [sent EXCEPT ![c] = Append(@, r)]
    BY <1>17 DEF Receive
  <2>3. m # r
    BY <2>1 DEF StageFacts
  <2>4. \A d \in Conns : Holds(sent'[d], m) <=> Holds(sent[d], m)
    <3>1. \A x : Holds(Append(sent[c], r), x) <=> Holds(sent[c], x) \/ x = r
      BY <1>1, AppendEffect DEF TypeInv, TypeOK
    <3> QED
      BY <1>1, <2>2, <2>3, <3>1 DEF TypeInv, TypeOK
  <2> QED
    BY <2>1, <2>2, <2>3, <2>4, StageStays
<1>18. ASSUME Cleanup PROVE Cause(m)
  <2>1. /\ UNCHANGED readerVars
        /\ writing' = writing /\ sent' = sent
        /\ \/ Stays(m)
           \/ \E u \in Users : \/ Leaves(m, <<"pending", u>>)
                               \/ Leaves(m, <<"contacts", u>>)
    BY <1>18, CleanupEffect
  <2>2. PICK u \in Users : Where[m] = {<<"pending", u>>} \/ Where[m] = {<<"contacts", u>>}
    BY <1>6, <2>1 DEF Leaves
  <2>3. Stage(m) = "stored"
    BY <2>2 DEF StageFacts, StageOf
  <2> QED
    BY <2>1, <2>3 DEF Cause
<1>19. ASSUME NEW c \in Conns, ~Quiet(c),
              \/ Connect(c) \/ Disconnect(c)
              \/ \E u \in Ids[c] : Register(c, u)
              \/ Reply(c) \/ Handler(c) \/ Writer(c)
       PROVE  Cause(m)
  BY <1>9, <1>10, <1>11, <1>12, <1>13, <1>14, <1>15, <1>16, <1>19 DEF Handler, Writer, Quiet
<1> QED
  BY <1>8, <1>17, <1>18, <1>19 DEF Next

\* No message meant for storage is lost without something having failed: the channel it was
\* bound for was full, broken or closing, its time ran out, or a newer notice of its sender
\* took its place.
THEOREM LossesHaveCauses == Spec => LossNeedsCause
<1> DEFINE Loss(m) == Kind[m] # "live" /\ Stage(m) \in {"transit", "stored"} /\ Stage(m)' = "gone"
           Caused == \A m \in Msgs : Loss(m) => Cause(m)
<1>1. HubInv /\ HubInv' /\ [Next]_vars => [Caused]_vars
  <2>1. HubInv => StageFacts
    BY Staged
  <2>2. HubInv' => StageFacts'
    BY <2>1, PTL
  <2> SUFFICES ASSUME HubInv, HubInv', Next, NEW m \in Msgs, Loss(m) PROVE Cause(m)
    OBVIOUS
  <2>3. StageOf[m] = Stage(m) /\ StageOf'[m] = Stage(m)'
    BY DEF StageOf
  <2> QED
    BY <2>1, <2>2, <2>3, LossStep
<1>2. Spec => [][Caused]_vars
  BY <1>1, HubInvariant, PTL DEF Spec
<1> QED
  BY <1>2, PTL DEF LossNeedsCause, Cause

-----------------------------------------------------------------------------
(* The order of what one connection sent                                   *)

\* What a connection has received or is about to.
Popped(g, q, m) == Holds(g, m) \/ Holds(q, m)

\* The order of it.
Line(g, q, a, b) == Precedes(g, a, b) \/ Precedes(q, a, b) \/ (Holds(g, a) /\ Holds(q, b))

\* Line is the order of what was received followed by what is about to be.
LEMMA LineIsConcatenation ==
  ASSUME NEW S, NEW g \in Seq(S), NEW q \in Seq(S), NEW a, NEW b
  PROVE  Precedes(g \o q, a, b) <=> Line(g, q, a, b)
<1> DEFINE r == g \o q
           n == Len(g)
           k == Len(q)
<1>1. /\ n \in Nat /\ k \in Nat
      /\ DOMAIN g = 1..n /\ DOMAIN q = 1..k /\ DOMAIN r = 1..(n + k)
      /\ \A i \in 1..n : r[i] = g[i]
      /\ \A i \in 1..k : r[n + i] = q[i]
  OBVIOUS
<1> HIDE DEF r, n, k
<1>2. ASSUME Precedes(r, a, b) PROVE Line(g, q, a, b)
  <2>1. PICK i \in DOMAIN r, j \in DOMAIN r : i < j /\ r[i] = a /\ r[j] = b
    BY <1>2 DEF Precedes
  <2>2. CASE j \in 1..n
    BY <1>1, <2>1, <2>2 DEF Precedes, Line
  <2>3. CASE i \in 1..n /\ j \notin 1..n
    <3>1. j - n \in 1..k /\ q[j - n] = b
      BY <1>1, <2>1, <2>3
    <3> QED
      BY <1>1, <2>1, <2>3, <3>1 DEF Holds, Line
  <2>4. CASE i \notin 1..n /\ j \notin 1..n
    <3>1. /\ i - n \in 1..k /\ q[i - n] = a
          /\ j - n \in 1..k /\ q[j - n] = b
          /\ i - n < j - n
      BY <1>1, <2>1, <2>4
    <3> QED
      BY <1>1, <3>1 DEF Precedes, Line
  <2> QED
    BY <1>1, <2>1, <2>2, <2>3, <2>4
<1>3. ASSUME Precedes(g, a, b) PROVE Precedes(r, a, b)
  BY <1>1, <1>3 DEF Precedes
<1>4. ASSUME Precedes(q, a, b) PROVE Precedes(r, a, b)
  <2>1. PICK i \in 1..k, j \in 1..k : i < j /\ q[i] = a /\ q[j] = b
    BY <1>1, <1>4 DEF Precedes
  <2>2. n + i \in DOMAIN r /\ n + j \in DOMAIN r /\ n + i < n + j /\ r[n + i] = a /\ r[n + j] = b
    BY <1>1, <2>1
  <2> QED
    BY <2>2 DEF Precedes
<1>5. ASSUME Holds(g, a), Holds(q, b) PROVE Precedes(r, a, b)
  <2>1. PICK i \in 1..n, j \in 1..k : g[i] = a /\ q[j] = b
    BY <1>1, <1>5 DEF Holds
  <2>2. i \in DOMAIN r /\ n + j \in DOMAIN r /\ i < n + j /\ r[i] = a /\ r[n + j] = b
    BY <1>1, <2>1
  <2> QED
    BY <2>2 DEF Precedes
<1> QED
  BY <1>2, <1>3, <1>4, <1>5 DEF Line, r

\* SentBefore for any value of sent; and the pairs of it that must keep their order.
Before(s, a, b) == \E c \in Conns : Precedes(s[c], a, b)

\* a must stay before b.
Ordered(s, a, b) == Before(s, a, b) /\ SameFlow(a, b)

\* A message is read once, by one connection.
SentOnce ==
  /\ \A c \in Conns : Once(sent[c])
  /\ \A c, d \in Conns : \A m \in Msgs : Holds(sent[c], m) /\ Holds(sent[d], m) => c = d

\* What a handler has in hand is the last its connection sent, and was not yet stored.
LastSent ==
  \A c \in Conns : \A m \in Msgs :
    hand[c] = m => /\ Holds(sent[c], m) /\ m \notin kept
                   /\ \A n \in Msgs : ~Precedes(sent[c], m, n)

\* Whatever waits in a queue or was popped from one was stored, and is of the queue's kind.
StoredKept ==
  \A m \in Msgs :
    /\ \A u \in Users : /\ Holds(pending[u], m) => m \in kept /\ Kind[m] = "store"
                        /\ Holds(contacts[u], m) => m \in kept /\ Kind[m] = "contact"
    /\ \A c \in Conns : Holds(todo[c], m) => m \in kept
    /\ m \in kept => Sent(m)

\* SenderOrder says nothing of what is still stored or popped.  Behind a stored message that
\* was emitted, none is queued that was sent before it; and the queues keep the order.
TodoBehind ==
  \A c \in Conns : \A a, b \in Msgs :
    /\ Holds(todo[c], a) /\ b \in kept /\ Popped(got[c], buf[c], b) => ~Ordered(sent, a, b)
    /\ Precedes(todo[c], b, a) => ~Ordered(sent, a, b)

\* The same of what waits in a queue, whoever receives for it.
QueueBehind ==
  \A u \in Users, c \in Conns : \A a, b \in Msgs :
    /\ Holds(pending[u], a) \/ Holds(contacts[u], a)
    /\ b \in kept
    /\ Popped(got[c], buf[c], b) \/ Holds(todo[c], b)
    => ~Ordered(sent, a, b)

\* A queue of messages keeps the order they were sent in.
QueueOrder ==
  \A u \in Users : \A a, b \in Msgs : Precedes(pending[u], b, a) => ~Ordered(sent, a, b)

\* What a connection received or is about to receive is in SenderOrder's order.
LineOrder ==
  \A c \in Conns : \A a, b \in Msgs :
    Line(got[c], buf[c], a, b) /\ Before(sent, b, a) => b \in kept /\ ~(a \in kept /\ SameFlow(a, b))

\* The inductive invariant of SenderOrder, over HubInv.
OrderInv ==
  SentOnce /\ LastSent /\ StoredKept /\ TodoBehind /\ QueueBehind /\ QueueOrder /\ LineOrder

\* A step that reads and stores nothing and moves no message forward disturbs no order.
LEMMA OrderShrinks ==
  ASSUME OrderInv, sent' = sent, kept' = kept,
         \A c \in Conns : \A m \in Msgs : hand'[c] = m => hand[c] = m,
         \A c \in Conns : \A m \in Msgs :
           /\ Holds(todo'[c], m) => Holds(todo[c], m)
           /\ Popped(got'[c], buf'[c], m) => Popped(got[c], buf[c], m),
         \A c \in Conns : \A m, n \in Msgs :
           /\ Precedes(todo'[c], m, n) => Precedes(todo[c], m, n)
           /\ Line(got'[c], buf'[c], m, n) => Line(got[c], buf[c], m, n),
         \A u \in Users : \A m \in Msgs :
           /\ Holds(pending'[u], m) => Holds(pending[u], m)
           /\ Holds(contacts'[u], m) => Holds(contacts[u], m),
         \A u \in Users : \A m, n \in Msgs : Precedes(pending'[u], m, n) => Precedes(pending[u], m, n)
  PROVE  OrderInv'
<1> USE DEF OrderInv
<1>1. SentOnce'
  BY DEF SentOnce
<1>2. LastSent'
  BY DEF LastSent
<1>3. StoredKept'
  BY DEF StoredKept, Sent
<1>4. TodoBehind'
  BY DEF TodoBehind
<1>5. QueueBehind'
  BY DEF QueueBehind
<1>6. QueueOrder'
  BY DEF QueueOrder
<1>7. LineOrder'
  BY DEF LineOrder
<1> QED
  BY <1>1, <1>2, <1>3, <1>4, <1>5, <1>6, <1>7

\* OrderInv over the writer: a frame goes from the channel to the connection.
LEMMA OrderWriter ==
  ASSUME HubInv, OrderInv, NEW c \in Conns, Writer(c)
  PROVE  OrderInv'
<1>0. PICK h : h = Head(buf[c])
  OBVIOUS
<1>1. /\ buf \in [Conns -> Seq(Msgs \cup {Ctl})]
      /\ got \in [Conns -> Seq(Msgs)]
      /\ Once(buf[c])
      /\ Ctl \notin Msgs
  BY ConstantsAssumption DEF HubInv, TypeInv, TypeOK, PlaceInv, QueuesOnce
<1>2. /\ buf[c] # <<>>
      /\ buf' = [buf EXCEPT ![c] = Tail(@)]
      /\ UNCHANGED <<hand, todo, pending, contacts, sent, kept>>
      /\ got' = got \/ (h # Ctl /\ got' = [got EXCEPT ![c] = Append(@, h)])
  BY <1>0, WriterEffect DEF readerVars, storeVars
<1>3. /\ h \in Msgs \cup {Ctl}
      /\ Holds(buf[c], h)
      /\ \A m : Holds(Tail(buf[c]), m) => Holds(buf[c], m) /\ Precedes(buf[c], h, m)
      /\ \A m, n : Precedes(Tail(buf[c]), m, n) => Precedes(buf[c], m, n)
  BY <1>0, <1>1, <1>2, TailProperties, TailEffect
<1>4. h # Ctl => /\ \A m : Holds(Append(got[c], h), m) => Holds(got[c], m) \/ m = h
                 /\ \A m, n : Precedes(Append(got[c], h), m, n)
                                => Precedes(got[c], m, n) \/ (Holds(got[c], m) /\ n = h)
  BY <1>1, <1>3, AppendEffect
<1>5. /\ buf'[c] = Tail(buf[c])
      /\ got'[c] = got[c] \/ (h # Ctl /\ got'[c] = Append(got[c], h))
      /\ \A d \in Conns : d # c => buf'[d] = buf[d] /\ got'[d] = got[d]
  BY <1>1, <1>2
<1>6. /\ \A m \in Msgs : Popped(got'[c], buf'[c], m) => Popped(got[c], buf[c], m)
      /\ \A m, n \in Msgs : Line(got'[c], buf'[c], m, n) => Line(got[c], buf[c], m, n)
  BY <1>3, <1>4, <1>5 DEF Popped, Line
<1>7. \A d \in Conns :
        /\ \A m \in Msgs : Popped(got'[d], buf'[d], m) => Popped(got[d], buf[d], m)
        /\ \A m, n \in Msgs : Line(got'[d], buf'[d], m, n) => Line(got[d], buf[d], m, n)
  BY <1>5, <1>6
<1> QED
  BY <1>2, <1>7, OrderShrinks

\* OrderInv over the steps that touch control frames only.
LEMMA OrderQuiet ==
  ASSUME HubInv, OrderInv,
         \/ UNCHANGED vars \/ Cleanup
         \/ \E c \in Conns : Quiet(c) \/ DeliverPanics(c) \/ CloseChannel(c)
  PROVE  OrderInv'
<1> USE DEF channelVars, storeVars, historyVars
<1>1. /\ buf \in [Conns -> Seq(Msgs \cup {Ctl})]
      /\ hand \in [Conns -> Msgs \cup {NoMsg}]
      /\ pending \in [Users -> Seq(Msgs)]
      /\ contacts \in [Users -> Seq(Msgs)]
      /\ NoMsg \notin Msgs
  BY ConstantsAssumption DEF HubInv, TypeInv, TypeOK
<1>2. CASE UNCHANGED vars
  BY <1>2, OrderShrinks DEF vars
<1>3. CASE Cleanup
  <2>1. UNCHANGED <<hand, todo, buf, got, sent, kept>>
    BY <1>3 DEF Cleanup, readerVars
  <2>2. \A u \in Users : /\ pending'[u] \in Subsequences(pending[u])
                         /\ contacts'[u] \in Subsequences(contacts[u])
    BY <1>3 DEF Cleanup
  <2>3. \A u \in Users : /\ \A m : Holds(pending'[u], m) => Holds(pending[u], m)
                         /\ \A m : Holds(contacts'[u], m) => Holds(contacts[u], m)
                         /\ \A m, n : Precedes(pending'[u], m, n) => Precedes(pending[u], m, n)
    BY <1>1, <2>2, SubsequenceEffect
  <2> QED
    BY <2>1, <2>3, OrderShrinks
<1>4. ASSUME NEW c \in Conns, Quiet(c) PROVE OrderInv'
  <2>1. /\ UNCHANGED <<hand, todo, pending, contacts, sent, kept, got>>
        /\ \A d \in Conns : \A m \in Msgs : Holds(buf'[d], m) <=> Holds(buf[d], m)
        /\ \A d \in Conns : \A m, n \in Msgs : Precedes(buf'[d], m, n) => Precedes(buf[d], m, n)
    BY <1>4, QuietEffect
  <2>2. \A d \in Conns :
          /\ \A m \in Msgs : Popped(got'[d], buf'[d], m) => Popped(got[d], buf[d], m)
          /\ \A m, n \in Msgs : Line(got'[d], buf'[d], m, n) => Line(got[d], buf[d], m, n)
    BY <2>1 DEF Popped, Line
  <2> QED
    BY <2>1, <2>2, OrderShrinks
<1>5. ASSUME NEW c \in Conns, DeliverPanics(c) PROVE OrderInv'
  <2>1. /\ UNCHANGED <<todo, buf, pending, contacts, sent, kept, got>>
        /\ hand' = [hand EXCEPT ![c] = NoMsg]
    BY <1>5 DEF DeliverPanics
  <2>2. \A d \in Conns : \A m \in Msgs : hand'[d] = m => hand[d] = m
    BY <1>1, <2>1
  <2> QED
    BY <2>1, <2>2, OrderShrinks
<1>6. ASSUME NEW c \in Conns, CloseChannel(c) PROVE OrderInv'
  <2>1. /\ UNCHANGED <<hand, todo, pending, contacts, sent, kept, got>>
        /\ buf' = [buf EXCEPT ![c] = <<>>]
    BY <1>6 DEF CloseChannel
  <2>2. \A d \in Conns : buf'[d] = buf[d] \/ buf'[d] = <<>>
    BY <1>1, <2>1
  <2>3. \A d \in Conns :
          /\ \A m \in Msgs : Popped(got'[d], buf'[d], m) => Popped(got[d], buf[d], m)
          /\ \A m, n \in Msgs : Line(got'[d], buf'[d], m, n) => Line(got[d], buf[d], m, n)
    BY <2>1, <2>2, EmptyQueue DEF Popped, Line
  <2> QED
    BY <2>1, <2>3, OrderShrinks
<1> QED
  BY <1>2, <1>3, <1>4, <1>5, <1>6

\* What is in hand was sent before nothing.
LEMMA HandIsLast ==
  ASSUME OrderInv, NEW c \in Conns, NEW h \in Msgs, hand[c] = h
  PROVE  h \notin kept /\ \A m \in Msgs : ~Before(sent, h, m)
<1>1. Holds(sent[c], h) /\ h \notin kept /\ \A n \in Msgs : ~Precedes(sent[c], h, n)
  BY DEF OrderInv, LastSent
<1>2. ASSUME NEW m \in Msgs, NEW d \in Conns, Precedes(sent[d], h, m) PROVE FALSE
  <2>1. Holds(sent[d], h)
    BY <1>2 DEF Precedes, Holds
  <2>2. d = c
    BY <1>1, <2>1 DEF OrderInv, SentOnce
  <2> QED
    BY <1>1, <1>2, <2>2
<1> QED
  BY <1>1, <1>2 DEF Before

\* The emit of h to t adds h at the end of the line of t, or nothing.
LEMMA LineOffer ==
  ASSUME TypeInv, NEW t \in Conns, NEW h \in Msgs,
         buf' = [buf EXCEPT ![t] = Offer(@, h)], got' = got
  PROVE  /\ \A d \in Conns : \A m \in Msgs :
              Popped(got'[d], buf'[d], m) => Popped(got[d], buf[d], m) \/ (d = t /\ m = h)
         /\ \A d \in Conns : \A m, n \in Msgs :
              Line(got'[d], buf'[d], m, n) =>
                \/ Line(got[d], buf[d], m, n)
                \/ d = t /\ n = h /\ Popped(got[t], buf[t], m)
<1>1. /\ buf \in [Conns -> Seq(Msgs \cup {Ctl})]
      /\ \A d \in Conns : Len(buf[d]) <= BufCap
  BY DEF TypeInv, TypeOK
<1>2. /\ buf'[t] = Offer(buf[t], h)
      /\ \A d \in Conns : d # t => buf'[d] = buf[d]
  BY <1>1
<1>3. /\ \A m : Holds(Offer(buf[t], h), m) => Holds(buf[t], m) \/ m = h
      /\ \A m, n : Precedes(Offer(buf[t], h), m, n) =>
                     Precedes(buf[t], m, n) \/ (Holds(buf[t], m) /\ n = h)
  <2> DEFINE q == buf[t]
             S == Msgs \cup {Ctl}
  <2>1. q \in Seq(S) /\ Len(q) <= BufCap /\ h \in S
    BY <1>1
  <2> HIDE DEF q, S
  <2>2. /\ \A m : Holds(Offer(q, h), m) <=> Holds(q, m) \/ (Len(q) # BufCap /\ m = h)
        /\ \A m, n : Precedes(Offer(q, h), m, n) =>
                       Precedes(q, m, n) \/ (Holds(q, m) /\ n = h)
    BY <2>1, OfferEffect
  <2> QED
    BY <2>2 DEF q
<1> QED
  BY <1>2, <1>3 DEF Popped, Line

\* OrderInv over the emit of the message in hand.
LEMMA OrderDeliver ==
  ASSUME HubInv, OrderInv, NEW c \in Conns, Deliver(c)
  PROVE  OrderInv'
<1> USE DEF channelVars, storeVars, historyVars, OrderInv
<1>0. PICK h : h = hand[c]
  OBVIOUS
<1>00. PICK t : t = target[c]
  OBVIOUS
<1>1. /\ h \in Msgs /\ t \in Conns
      /\ buf' = [buf EXCEPT ![t] = Offer(@, h)]
      /\ UNCHANGED <<todo, pending, contacts, sent, kept, got>>
  BY <1>0, <1>00, DeliverEffect
<1>2. TypeInv
  BY DEF HubInv
<1>3. /\ hand \in [Conns -> Msgs \cup {NoMsg}]
      /\ NoMsg \notin Msgs
      /\ hand' = [hand EXCEPT ![c] = NoMsg]
  BY <1>2, ConstantsAssumption DEF TypeInv, TypeOK, Deliver, Settle
<1>4. h \notin kept /\ \A m \in Msgs : ~Before(sent, h, m)
  BY <1>0, <1>1, HandIsLast
<1>5. /\ \A d \in Conns : \A m \in Msgs :
            Popped(got'[d], buf'[d], m) => Popped(got[d], buf[d], m) \/ (d = t /\ m = h)
      /\ \A d \in Conns : \A m, n \in Msgs :
            Line(got'[d], buf'[d], m, n) =>
              Line(got[d], buf[d], m, n) \/ (d = t /\ n = h /\ Popped(got[t], buf[t], m))
  BY <1>1, <1>2, LineOffer
<1>6. SentOnce' /\ StoredKept' /\ QueueOrder'
  BY <1>1 DEF SentOnce, StoredKept, QueueOrder, Sent
<1>7. LastSent'
  <2>1. \A d \in Conns : \A m \in Msgs : hand'[d] = m => hand[d] = m
    BY <1>3
  <2> QED
    BY <1>1, <2>1 DEF LastSent
<1>8. TodoBehind'
  BY <1>1, <1>4, <1>5 DEF TodoBehind
<1>9. QueueBehind'
  BY <1>1, <1>4, <1>5 DEF QueueBehind
<1>10. LineOrder'
  BY <1>1, <1>4, <1>5 DEF LineOrder
<1> QED
  BY <1>6, <1>7, <1>8, <1>9, <1>10

\* OrderInv over the emit of a popped message.
LEMMA OrderGive ==
  ASSUME HubInv, OrderInv, NEW c \in Conns, Give(c)
  PROVE  OrderInv'
<1> USE DEF storeVars, historyVars, OrderInv
<1>0. PICK h : h = Head(todo[c])
  OBVIOUS
<1>1. /\ h \in Msgs /\ todo[c] # <<>>
      /\ todo' = [todo EXCEPT ![c] = Tail(@)]
      /\ buf' = [buf EXCEPT ![c] = Offer(@, h)]
      /\ UNCHANGED <<hand, pending, contacts, sent, kept, got>>
  BY <1>0, GiveEffect
<1>2. TypeInv /\ todo \in [Conns -> Seq(Msgs)]
  BY DEF HubInv, TypeInv, TypeOK
<1>3. /\ Holds(todo[c], h)
      /\ \A m : Holds(Tail(todo[c]), m) => Holds(todo[c], m) /\ Precedes(todo[c], h, m)
      /\ \A m, n : Precedes(Tail(todo[c]), m, n) => Precedes(todo[c], m, n)
  BY <1>0, <1>1, <1>2, TailProperties, TailEffect
<1>4. /\ \A m : Holds(todo'[c], m) => Holds(todo[c], m) /\ Precedes(todo[c], h, m)
      /\ \A m, n : Precedes(todo'[c], m, n) => Precedes(todo[c], m, n)
      /\ \A d \in Conns : d # c => todo'[d] = todo[d]
  BY <1>1, <1>2, <1>3
<1>5. /\ \A d \in Conns : \A m \in Msgs :
            Popped(got'[d], buf'[d], m) => Popped(got[d], buf[d], m) \/ (d = c /\ m = h)
      /\ \A d \in Conns : \A m, n \in Msgs :
            Line(got'[d], buf'[d], m, n) =>
              Line(got[d], buf[d], m, n) \/ (d = c /\ n = h /\ Popped(got[c], buf[c], m))
  BY <1>1, <1>2, LineOffer
<1>6. h \in kept /\ \A m \in Msgs : m \in kept /\ Popped(got[c], buf[c], m) => ~Ordered(sent, h, m)
  BY <1>1, <1>3 DEF StoredKept, TodoBehind
<1>7. SentOnce' /\ LastSent' /\ QueueOrder'
  BY <1>1 DEF SentOnce, LastSent, QueueOrder
<1>8. StoredKept'
  BY <1>1, <1>4 DEF StoredKept, Sent
<1>9. TodoBehind'
  <2>1. ASSUME NEW d \in Conns, NEW a \in Msgs, NEW b \in Msgs, Precedes(todo'[d], b, a)
        PROVE  ~Ordered(sent, a, b)
    BY <1>4, <2>1 DEF TodoBehind
  <2>2. ASSUME NEW d \in Conns, NEW a \in Msgs, NEW b \in Msgs,
               Holds(todo'[d], a), b \in kept, Popped(got'[d], buf'[d], b)
        PROVE  ~Ordered(sent, a, b)
    <3>1. CASE Popped(got[d], buf[d], b)
      BY <1>4, <2>2, <3>1 DEF TodoBehind
    <3>2. CASE d = c /\ b = h
      BY <1>4, <2>2, <3>2 DEF TodoBehind
    <3> QED
      BY <1>5, <2>2, <3>1, <3>2
  <2> QED
    BY <1>1, <2>1, <2>2 DEF TodoBehind
<1>10. QueueBehind'
  <2>1. ASSUME NEW d \in Conns, NEW b \in Msgs, Popped(got'[d], buf'[d], b) \/ Holds(todo'[d], b)
        PROVE  Popped(got[d], buf[d], b) \/ Holds(todo[d], b)
    BY <1>3, <1>4, <1>5, <2>1
  <2> QED
    BY <1>1, <2>1 DEF QueueBehind
<1>11. LineOrder'
  <2>1. \A m \in Msgs : SameFlow(h, m) <=> SameFlow(m, h)
    BY DEF SameFlow
  <2> QED
    BY <1>1, <1>5, <1>6, <2>1 DEF LineOrder, Ordered
<1> QED
  BY <1>7, <1>8, <1>9, <1>10, <1>11

\* OrderInv over the storing of the message in hand.
LEMMA OrderStore ==
  ASSUME HubInv, OrderInv, NEW c \in Conns, Store(c)
  PROVE  OrderInv'
<1> USE DEF channelVars, OrderInv
<1>0. PICK h : h = hand[c]
  OBVIOUS
<1>00. PICK u : u = Dest[h]
  OBVIOUS
<1>1. h \in Msgs /\ u \in Users
  BY <1>0, <1>00, StoreEffect
<1>2. /\ hand' = [hand EXCEPT ![c] = NoMsg]
      /\ kept' = IF Kind[h] = "live" THEN kept ELSE kept \cup {h}
      /\ pending' = [pending EXCEPT ![u] = IF Kind[h] = "store" THEN Append(@, h) ELSE @]
      /\ contacts' = [contacts EXCEPT ![u] = IF Kind[h] = "contact" THEN MergeContact(@, h)
                                              ELSE @]
      /\ UNCHANGED <<todo, buf, sent, got>>
  BY <1>0, <1>00 DEF Store, Settle
<1>3. /\ hand \in [Conns -> Msgs \cup {NoMsg}]
      /\ pending \in [Users -> Seq(Msgs)]
      /\ contacts \in [Users -> Seq(Msgs)]
      /\ NoMsg \notin Msgs
  BY ConstantsAssumption DEF HubInv, TypeInv, TypeOK
<1>4. h \notin kept /\ \A m \in Msgs : ~Before(sent, h, m)
  BY <1>0, <1>1, HandIsLast
<1>5. /\ \A d \in Conns : (hand[d] = h <=> d = c) /\ ~Holds(todo[d], h) /\ ~Holds(buf[d], h)
                          /\ ~Holds(got[d], h)
      /\ \A v \in Users : ~Holds(pending[v], h) /\ ~Holds(contacts[v], h)
  BY <1>0, <1>1, InHand
<1>6. \A v \in Users :
        \/ pending'[v] = pending[v]
        \/ Kind[h] = "store" /\ v = u /\ pending'[v] = Append(pending[u], h)
  BY <1>2, <1>3
<1>7. \A v \in Users :
        \/ contacts'[v] = contacts[v]
        \/ Kind[h] = "contact" /\ v = u /\ contacts'[v] = MergeContact(contacts[u], h)
  BY <1>2, <1>3
<1>8. /\ \A m : Holds(Append(pending[u], h), m) => Holds(pending[u], m) \/ m = h
      /\ \A m, n : Precedes(Append(pending[u], h), m, n)
                     => Precedes(pending[u], m, n) \/ (Holds(pending[u], m) /\ n = h)
  BY <1>1, <1>3, AppendEffect
<1>9. \A m : Holds(MergeContact(contacts[u], h), m) => Holds(contacts[u], m) \/ m = h
  BY <1>1, <1>3, MergeProperties
<1>10. /\ \A v \in Users : \A m \in Msgs :
            /\ Holds(pending'[v], m) => Holds(pending[v], m) \/ (m = h /\ Kind[h] = "store")
            /\ Holds(contacts'[v], m) => Holds(contacts[v], m) \/ (m = h /\ Kind[h] = "contact")
       /\ \A v \in Users : \A m, n \in Msgs :
            Precedes(pending'[v], m, n) => Precedes(pending[v], m, n) \/ n = h
  BY <1>6, <1>7, <1>8, <1>9
<1>11. /\ \A m \in Msgs : m \in kept' <=> m \in kept \/ (m = h /\ Kind[h] # "live")
       /\ \A d \in Conns : \A m \in Msgs : hand'[d] = m => hand[d] = m /\ m # h
  BY <1>0, <1>2, <1>3, <1>5
<1>12. SentOnce'
  BY <1>2 DEF SentOnce
<1>13. LastSent'
  BY <1>2, <1>11 DEF LastSent
<1>14. StoredKept'
  <2>1. Holds(sent[c], h)
    BY <1>0, <1>1 DEF LastSent
  <2> QED
    BY <1>2, <1>10, <1>11, <2>1 DEF StoredKept, Sent
<1>15. TodoBehind'
  BY <1>2, <1>5, <1>11 DEF TodoBehind, Popped
<1>16. QueueBehind'
  <2> SUFFICES ASSUME NEW v \in Users, NEW d \in Conns, NEW a \in Msgs, NEW b \in Msgs,
                      Holds(pending'[v], a) \/ Holds(contacts'[v], a), b \in kept',
                      Popped(got[d], buf[d], b) \/ Holds(todo[d], b)
               PROVE  ~Ordered(sent, a, b)
    BY <1>2 DEF QueueBehind
  <2>1. b \in kept
    BY <1>5, <1>11 DEF Popped
  <2>2. CASE a = h
    BY <1>4, <2>2 DEF Ordered
  <2>3. CASE a # h
    BY <1>10, <2>1, <2>3 DEF QueueBehind
  <2> QED
    BY <2>2, <2>3
<1>17. QueueOrder'
  BY <1>2, <1>4, <1>10 DEF QueueOrder, Ordered
<1>18. LineOrder'
  <2> SUFFICES ASSUME NEW d \in Conns, NEW a \in Msgs, NEW b \in Msgs,
                      Line(got[d], buf[d], a, b), Before(sent, b, a)
               PROVE  b \in kept' /\ ~(a \in kept' /\ SameFlow(a, b))
    BY <1>2 DEF LineOrder
  <2>1. Popped(got[d], buf[d], a)
    BY DEF Line, Popped, Precedes, Holds
  <2>2. a # h
    BY <1>5, <2>1 DEF Popped
  <2> QED
    BY <1>11, <2>2 DEF LineOrder
<1> QED
  BY <1>12, <1>13, <1>14, <1>15, <1>16, <1>17, <1>18

\* OrderInv over the pops of the two queues.
LEMMA OrderPop ==
  ASSUME HubInv, OrderInv, NEW c \in Conns, PopContacts(c) \/ PopMessages(c)
  PROVE  OrderInv'
<1> USE DEF OrderInv
<1>0. PICK u : u = owner[c]
  OBVIOUS
<1>1. /\ u \in Users
      /\ todo[c] = <<>>
      /\ UNCHANGED <<hand, buf, sent, kept, got>>
      /\ \A d \in Conns : d # c => todo'[d] = todo[d]
      /\ \A v \in Users : v # u => pending'[v] = pending[v] /\ contacts'[v] = contacts[v]
      /\ \/ todo'[c] = contacts[u] /\ contacts'[u] = <<>> /\ pending' = pending
         \/ todo'[c] = pending[u] /\ pending'[u] = <<>> /\ contacts' = contacts
  BY <1>0, PopEffect
<1>2. /\ OneNotice(contacts[u])
      /\ contacts[u] \in Seq(Msgs)
      /\ \A v \in Users : \A m : Holds(pending[v], m) \/ Holds(contacts[v], m) => Dest[m] = v
  BY <1>1 DEF HubInv, PlaceInv, QueuesOnce, ConfineInv, RightQueue, TypeInv, TypeOK
<1>3. (\A m : ~Holds(<<>>, m)) /\ \A m, n : ~Precedes(<<>>, m, n)
  BY EmptyQueue
<1>4. /\ \A v \in Users : \A m \in Msgs : /\ Holds(pending'[v], m) => Holds(pending[v], m)
                                          /\ Holds(contacts'[v], m) => Holds(contacts[v], m)
      /\ \A v \in Users : \A m, n \in Msgs : Precedes(pending'[v], m, n) => Precedes(pending[v], m, n)
  BY <1>1, <1>3
<1>5. \A m \in Msgs : Holds(todo'[c], m) => Holds(pending[u], m) \/ Holds(contacts[u], m)
  BY <1>1
<1>6. \A m, n \in Msgs : Precedes(todo'[c], n, m) => ~Ordered(sent, m, n)
  <2> SUFFICES ASSUME NEW m \in Msgs, NEW n \in Msgs, Precedes(todo'[c], n, m)
               PROVE  ~Ordered(sent, m, n)
    OBVIOUS
  <2>1. CASE todo'[c] = pending[u]
    BY <1>1, <2>1 DEF QueueOrder
  <2>2. CASE todo'[c] = contacts[u]
    <3>1. PICK i \in DOMAIN contacts[u], j \in DOMAIN contacts[u] :
            i < j /\ contacts[u][i] = n /\ contacts[u][j] = m
      BY <2>2 DEF Precedes
    <3>2. i # j
      BY <1>2, <3>1
    <3>3. From[n] # From[m]
      BY <1>2, <3>1, <3>2 DEF OneNotice
    <3> QED
      BY <3>3 DEF Ordered, SameFlow
  <2> QED
    BY <1>1, <2>1, <2>2
<1>7. SentOnce' /\ LastSent' /\ LineOrder' /\ QueueOrder'
  BY <1>1, <1>4 DEF SentOnce, LastSent, LineOrder, QueueOrder
<1>8. StoredKept'
  BY <1>1, <1>4, <1>5 DEF StoredKept, Sent
<1>9. TodoBehind'
  <2>1. ASSUME NEW d \in Conns, NEW a \in Msgs, NEW b \in Msgs, Precedes(todo'[d], b, a)
        PROVE  ~Ordered(sent, a, b)
    BY <1>1, <1>6, <2>1 DEF TodoBehind
  <2>2. ASSUME NEW d \in Conns, NEW a \in Msgs, NEW b \in Msgs,
               Holds(todo'[d], a), b \in kept, Popped(got[d], buf[d], b)
        PROVE  ~Ordered(sent, a, b)
    BY <1>1, <1>5, <2>2 DEF TodoBehind, QueueBehind
  <2> QED
    BY <1>1, <2>1, <2>2 DEF TodoBehind
<1>10. QueueBehind'
  <2> SUFFICES ASSUME NEW v \in Users, NEW d \in Conns, NEW a \in Msgs, NEW b \in Msgs,
                      Holds(pending'[v], a) \/ Holds(contacts'[v], a), b \in kept,
                      Popped(got[d], buf[d], b) \/ Holds(todo'[d], b)
               PROVE  ~Ordered(sent, a, b)
    BY <1>1 DEF QueueBehind
  <2>1. CASE Popped(got[d], buf[d], b) \/ Holds(todo[d], b)
    BY <1>4, <2>1 DEF QueueBehind
  <2>2. CASE d = c /\ Holds(todo'[c], b)
    <3> SUFFICES ASSUME SameFlow(a, b) PROVE FALSE
      BY DEF Ordered
    <3>1. Dest[b] = u /\ Dest[a] = v
      BY <1>1, <1>2, <1>4, <1>5, <2>2
    <3>2. v = u
      BY <3>1 DEF SameFlow
    <3>3. CASE todo'[c] = contacts[u] /\ contacts'[u] = <<>> /\ pending' = pending
      BY <1>1, <1>3, <2>2, <3>2, <3>3 DEF StoredKept, SameFlow
    <3>4. CASE todo'[c] = pending[u] /\ pending'[u] = <<>> /\ contacts' = contacts
      BY <1>1, <1>3, <2>2, <3>2, <3>4 DEF StoredKept, SameFlow
    <3> QED
      BY <1>1, <3>3, <3>4
  <2> QED
    BY <1>1, <2>1, <2>2
<1> QED
  BY <1>7, <1>8, <1>9, <1>10

\* OrderInv over the reading of a frame.
LEMMA OrderReceive ==
  ASSUME HubInv, OrderInv, NEW c \in Conns, NEW r \in Msgs, Receive(c, r)
  PROVE  OrderInv'
<1> USE DEF channelVars, storeVars, OrderInv
<1>1. /\ \A d \in Conns : ~Holds(sent[d], r)
      /\ sent' = [sent EXCEPT ![c] = Append(@, r)]
      /\ hand' = [hand EXCEPT ![c] = r]
      /\ UNCHANGED <<todo, buf, pending, contacts, kept, got>>
  BY DEF Receive
<1>2. /\ sent \in [Conns -> Seq(Msgs)]
      /\ hand \in [Conns -> Msgs \cup {NoMsg}]
      /\ kept \subseteq Msgs
      /\ Ctl \notin Msgs
  BY ConstantsAssumption DEF HubInv, TypeInv, TypeOK
<1>3. Where[r] = {}
  BY ReceiveEffect
<1>4. /\ \A d \in Conns : hand[d] # r /\ ~Holds(todo[d], r) /\ ~Holds(buf[d], r) /\ ~Holds(got[d], r)
      /\ \A u \in Users : ~Holds(pending[u], r) /\ ~Holds(contacts[u], r)
  BY <1>3, Located DEF LocatedFacts
<1>5. r \notin kept
  BY <1>1 DEF StoredKept, Sent
<1>6. /\ \A m : Holds(Append(sent[c], r), m) <=> Holds(sent[c], m) \/ m = r
      /\ Once(Append(sent[c], r))
      /\ \A m, n : Precedes(Append(sent[c], r), m, n) <=>
                     Precedes(sent[c], m, n) \/ (Holds(sent[c], m) /\ n = r)
  BY <1>1, <1>2, AppendEffect DEF SentOnce
<1>7. sent'[c] = Append(sent[c], r) /\ \A d \in Conns : d # c => sent'[d] = sent[d]
  BY <1>1, <1>2
<1>8. /\ \A d \in Conns : Once(sent'[d])
      /\ \A d \in Conns : \A m \in Msgs : Holds(sent'[d], m) <=> Holds(sent[d], m) \/ (d = c /\ m = r)
      /\ \A d \in Conns : \A m, n \in Msgs :
           Precedes(sent'[d], m, n) <=>
             Precedes(sent[d], m, n) \/ (d = c /\ Holds(sent[c], m) /\ n = r)
  BY <1>6, <1>7 DEF SentOnce
<1>9. \A m, n \in Msgs : Before(sent', m, n) => Before(sent, m, n) \/ n = r
  BY <1>8 DEF Before
<1>10. \A m, n \in Msgs : n # r /\ ~Ordered(sent, m, n) => ~Ordered(sent', m, n)
  BY <1>9 DEF Ordered
<1>11. SentOnce'
  BY <1>1, <1>8 DEF SentOnce
<1>12. LastSent'
  <2> SUFFICES ASSUME NEW d \in Conns, NEW m \in Msgs, hand'[d] = m
               PROVE  /\ Holds(sent'[d], m) /\ m \notin kept
                      /\ \A n \in Msgs : ~Precedes(sent'[d], m, n)
    BY <1>1 DEF LastSent
  <2>1. CASE d = c
    <3>1. m = r
      BY <1>1, <1>2, <2>1
    <3>2. \A n \in Msgs : ~Precedes(sent[c], r, n)
      BY <1>1 DEF Precedes, Holds
    <3> QED
      BY <1>1, <1>5, <1>8, <2>1, <3>1, <3>2
  <2>2. CASE d # c
    BY <1>1, <1>2, <1>8, <2>2 DEF LastSent
  <2> QED
    BY <2>1, <2>2
<1>13. StoredKept'
  BY <1>1, <1>8 DEF StoredKept, Sent
<1>14. TodoBehind'
  <2>1. ASSUME NEW d \in Conns, NEW a \in Msgs, NEW b \in Msgs, Precedes(todo[d], b, a)
        PROVE  ~Ordered(sent', a, b)
    <3>1. b # r
      BY <1>4, <2>1 DEF Precedes, Holds
    <3> QED
      BY <1>10, <2>1, <3>1 DEF TodoBehind
  <2>2. ASSUME NEW d \in Conns, NEW a \in Msgs, NEW b \in Msgs,
               Holds(todo[d], a), b \in kept, Popped(got[d], buf[d], b)
        PROVE  ~Ordered(sent', a, b)
    BY <1>5, <1>10, <2>2 DEF TodoBehind
  <2> QED
    BY <1>1, <2>1, <2>2 DEF TodoBehind
<1>15. QueueBehind'
  BY <1>1, <1>5, <1>10 DEF QueueBehind
<1>16. QueueOrder'
  <2>1. ASSUME NEW u \in Users, NEW a \in Msgs, NEW b \in Msgs, Precedes(pending[u], b, a)
        PROVE  ~Ordered(sent', a, b)
    <3>1. b # r
      BY <1>4, <2>1 DEF Precedes, Holds
    <3> QED
      BY <1>10, <2>1, <3>1 DEF QueueOrder
  <2> QED
    BY <1>1, <2>1 DEF QueueOrder
<1>17. LineOrder'
  <2> SUFFICES ASSUME NEW d \in Conns, NEW a \in Msgs, NEW b \in Msgs,
                      Line(got[d], buf[d], a, b), Before(sent', b, a)
               PROVE  b \in kept /\ ~(a \in kept /\ SameFlow(a, b))
    BY <1>1 DEF LineOrder
  <2>1. Popped(got[d], buf[d], a)
    BY DEF Line, Popped, Precedes, Holds
  <2>2. a # r
    BY <1>4, <2>1 DEF Popped
  <2> QED
    BY <1>9, <2>2 DEF LineOrder
<1> QED
  BY <1>11, <1>12, <1>13, <1>14, <1>15, <1>16, <1>17

\* Frames of one connection reach any connection in the order they were sent, but for those
\* that had to be stored; and of these, the ones of one kind, sender and recipient keep it too.
THEOREM OrderIsKept == Spec => []SenderOrder
<1>1. Init => OrderInv
  <2> SUFFICES ASSUME Init PROVE OrderInv
    OBVIOUS
  <2>1. NoMsg \notin Msgs
    BY ConstantsAssumption
  <2> QED
    BY <2>1, EmptyQueue DEF Init, OrderInv, SentOnce, LastSent, StoredKept, TodoBehind, QueueBehind,
                            QueueOrder, LineOrder, Line, Popped
<1>2. HubInv /\ OrderInv /\ [Next]_vars => OrderInv'
  <2> SUFFICES ASSUME HubInv, OrderInv, [Next]_vars PROVE OrderInv'
    OBVIOUS
  <2>1. ASSUME NEW c \in Conns,
               \/ Connect(c) \/ Disconnect(c)
               \/ \E u \in Ids[c] : Register(c, u)
               \/ \E m \in Msgs : Receive(c, m)
               \/ Reply(c) \/ Handler(c) \/ Writer(c)
        PROVE  OrderInv'
    BY <2>1, OrderQuiet, OrderWriter, OrderDeliver, OrderGive, OrderStore, OrderPop, OrderReceive
       DEF Quiet, Handler
  <2> QED
    BY <2>1, OrderQuiet DEF Next
<1>3. HubInv /\ OrderInv => SenderOrder
  <2> SUFFICES ASSUME HubInv, OrderInv, NEW c \in Conns, NEW a \in Msgs, NEW b \in Msgs,
                      Precedes(got[c] \o buf[c], a, b), SentBefore(b, a)
               PROVE  b \in kept /\ ~(a \in kept /\ SameFlow(a, b))
    BY DEF SenderOrder
  <2>1. got[c] \in Seq(Msgs \cup {Ctl}) /\ buf[c] \in Seq(Msgs \cup {Ctl})
    BY DEF HubInv, TypeInv, TypeOK
  <2>2. Line(got[c], buf[c], a, b)
    BY <2>1, LineIsConcatenation
  <2>3. Before(sent, b, a)
    BY DEF SentBefore, Before
  <2> QED
    BY <2>2, <2>3 DEF OrderInv, LineOrder
<1> QED
  BY <1>1, <1>2, <1>3, HubInvariant, PTL DEF Spec

=============================================================================
