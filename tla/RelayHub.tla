------------------------------ MODULE RelayHub ------------------------------
(***************************************************************************)
(* The Go WebSocket relay: server/go/internal/ws/hub.go over the in-memory *)
(* store of server/go/internal/storage/memory.go.                          *)
(*                                                                         *)
(* Every connection has a reader goroutine, which reads one frame at a     *)
(* time and runs its handler to the end, and a writer goroutine, which     *)
(* empties the connection's buffered channel.  A step of this module is    *)
(* one access to shared state by one goroutine: a section under the hub's  *)
(* or the store's lock, one channel operation, or one frame written.       *)
(* Groups are in module GroupFanout; what admits a frame is EnvelopeGate.  *)
(***************************************************************************)
EXTENDS Integers, Sequences, FiniteSets

CONSTANTS
  Users,    \* user ids
  Conns,    \* WebSocket connections; each is opened at most once
  Msgs,     \* frames a client may send that carry something for another user
  Ids,      \* Ids[c]: the user ids connection c may register under
  Kind,     \* Kind[m]: "store" (message), "live" (message with p2pOnly, file:share,
            \*   webrtc:*, p2p:file-offer), "contact" (contact:add)
  From,     \* From[m]: the user the frame is from
  Dest,     \* Dest[m]: the user it is for
  BufCap,   \* capacity of a connection's send channel (32 in the code)
  NoUser, NoConn, NoMsg,
  Ctl       \* a frame about no message: registered, user:online, ack, error, lookup result

ASSUME ConstantsAssumption ==
  /\ Ids  \in [Conns -> SUBSET Users]
  /\ Kind \in [Msgs -> {"store", "live", "contact"}]
  /\ From \in [Msgs -> Users]
  /\ Dest \in [Msgs -> Users]
  /\ BufCap \in Nat \ {0}
  /\ NoUser \notin Users
  /\ NoConn \notin Conns
  /\ NoMsg \notin Msgs
  /\ Ctl \notin Msgs

VARIABLES
  phase,     \* phase[c]: where the reader goroutine of c stands
  owner,     \* owner[c]: Client.userID
  hand,      \* hand[c]: the message the handler of c is relaying
  target,    \* target[c]: the connection to() looked up for it
  todo,      \* todo[c]: what register popped from the store and has still to emit
  up,        \* up[c]: frames written to c reach the client
  closed,    \* closed[c]: the send channel of c is closed
  writing,   \* writing[c]: the writer goroutine of c has not returned
  buf,       \* buf[c]: the send channel
  clients,   \* Hub.clients
  pending,   \* Memory.pending
  contacts,  \* Memory.pendingContacts
  sent,      \* history: sent[c], the frames of Msgs the reader of c has read, in order
  kept,      \* history: messages that were at some time in the store
  got,       \* history: got[c], what the client of c has received
  claimed    \* history: claimed[c], the user ids c has registered under

readerVars  == <<phase, owner, hand, target, todo>>
channelVars == <<up, closed, writing, buf>>
storeVars   == <<pending, contacts>>
historyVars == <<sent, kept, got, claimed>>
vars == <<phase, owner, hand, target, todo, up, closed, writing, buf, clients,
          pending, contacts, sent, kept, got, claimed>>

Phases == {"new",           \* ServeWS has not run
           "idle",          \* in ReadMessage
           "emit", "store", "ack",
           "announce", "popContacts", "giveContacts", "popMessages",
           "giveMessages",  \* the steps of register
           "closing",       \* in the deferred close, before its locked section
           "unlisted",      \* after it, before close(c.send)
           "gone"}

Init ==
  /\ phase   = [c \in Conns |-> "new"]
  /\ owner   = [c \in Conns |-> NoUser]
  /\ hand    = [c \in Conns |-> NoMsg]
  /\ target  = [c \in Conns |-> NoConn]
  /\ todo    = [c \in Conns |-> <<>>]
  /\ up      = [c \in Conns |-> FALSE]
  /\ closed  = [c \in Conns |-> FALSE]
  /\ writing = [c \in Conns |-> FALSE]
  /\ buf     = [c \in Conns |-> <<>>]
  /\ clients = [u \in Users |-> NoConn]
  /\ pending = [u \in Users |-> <<>>]
  /\ contacts = [u \in Users |-> <<>>]
  /\ sent    = [c \in Conns |-> <<>>]
  /\ kept    = {}
  /\ got     = [c \in Conns |-> <<>>]
  /\ claimed = [c \in Conns |-> {}]

-----------------------------------------------------------------------------
(* Helpers                                                                 *)

\* Client.emit: a full channel drops the frame, the sender never waits.
Offer(q, item) == IF Len(q) < BufCap THEN Append(q, item) ELSE q

\* Memory.AddPendingContact: a later notice of the same sender replaces the earlier one.
MergeContact(q, m) ==
  LET same == {i \in DOMAIN q : From[q[i]] = From[m]}
  IN  IF same = {}
      THEN Append(q, m)
      ELSE [q EXCEPT ![CHOOSE i \in same : \A j \in same : i <= j] = m]

\* The sequences a filter can leave of q.
Subsequences(q) ==
  UNION { { [i \in 1..n |-> q[f[i]]] :
              f \in {g \in [1..n -> DOMAIN q] : \A i, j \in 1..n : i < j => g[i] < g[j]} }
          : n \in 0..Len(q) }

Holds(q, m) == \E i \in DOMAIN q : q[i] = m

Goto(c, p) == phase' = [phase EXCEPT ![c] = p]

-----------------------------------------------------------------------------
(* Connections                                                             *)

\* ServeWS: upgrade, start the writer, enter the read loop.
Connect(c) ==
  /\ phase[c] = "new"
  /\ Goto(c, "idle")
  /\ up' = [up EXCEPT ![c] = TRUE]
  /\ writing' = [writing EXCEPT ![c] = TRUE]
  /\ UNCHANGED <<owner, hand, target, todo, closed, buf, clients, storeVars, historyVars>>

\* The network or the client goes away; nobody in the relay has noticed yet.
Disconnect(c) ==
  /\ up[c]
  /\ up' = [up EXCEPT ![c] = FALSE]
  /\ UNCHANGED <<readerVars, closed, writing, buf, clients, storeVars, historyVars>>

\* (faulty: the entry of the userID is removed whoever holds it, as server-go does)
UnlistAny(c) ==
  /\ phase[c] = "closing" \/ (phase[c] = "idle" /\ ~up[c])
  /\ clients' = [u \in Users |-> IF u = owner[c] THEN NoConn ELSE clients[u]]
  /\ Goto(c, "unlisted")
  /\ UNCHANGED <<owner, hand, target, todo, channelVars, storeVars, historyVars>>

\* (faulty: the entry stays)
UnlistNone(c) ==
  /\ phase[c] = "closing" \/ (phase[c] = "idle" /\ ~up[c])
  /\ Goto(c, "unlisted")
  /\ UNCHANGED <<owner, hand, target, todo, channelVars, clients, storeVars, historyVars>>

\* Client.close, deferred by readLoop: after a failed ReadMessage or a panic.  This is the
\* section under the hub's lock.
Unlist(c) ==
  /\ phase[c] = "closing" \/ (phase[c] = "idle" /\ ~up[c])
  /\ clients' = [u \in Users |->
                   IF u = owner[c] /\ clients[u] = c THEN NoConn ELSE clients[u]]
  /\ Goto(c, "unlisted")
  /\ UNCHANGED <<owner, hand, target, todo, channelVars, storeVars, historyVars>>

\* Client.close, after the lock: close(c.send) and conn.Close.  The writer returns at its
\* next write or at the end of the channel; no frame left in it reaches the client.
CloseChannel(c) ==
  /\ phase[c] = "unlisted"
  /\ closed' = [closed EXCEPT ![c] = TRUE]
  /\ up' = [up EXCEPT ![c] = FALSE]
  /\ writing' = [writing EXCEPT ![c] = FALSE]
  /\ buf' = [buf EXCEPT ![c] = <<>>]
  /\ Goto(c, "gone")
  /\ UNCHANGED <<owner, hand, target, todo, clients, storeVars, historyVars>>

\* writeLoop: one frame reaches the client.  WriteJSON has no deadline: as long as the client
\* is connected and does not read, this step does not happen.
Write(c) ==
  /\ writing[c]
  /\ buf[c] # <<>>
  /\ up[c]
  /\ buf' = [buf EXCEPT ![c] = Tail(@)]
  /\ got' = [got EXCEPT ![c] = IF Head(buf[c]) = Ctl THEN @ ELSE Append(@, Head(buf[c]))]
  /\ UNCHANGED <<readerVars, up, closed, writing, clients, storeVars, sent, kept, claimed>>

\* writeLoop, when the client is gone: the frame is lost.  Either WriteJSON fails and the writer
\* returns, so that whatever is in the channel or is emitted to it later stays there, or the
\* kernel still takes the frame and the writer goes on.
WriteLost(c) ==
  /\ writing[c]
  /\ buf[c] # <<>>
  /\ ~up[c]
  /\ buf' = [buf EXCEPT ![c] = Tail(@)]
  /\ writing' \in {writing, [writing EXCEPT ![c] = FALSE]}
  /\ UNCHANGED <<readerVars, up, closed, clients, storeVars, historyVars>>

-----------------------------------------------------------------------------
(* register: each store call and each emit is a step of its own, and other *)
(* goroutines run between them.                                            *)

\* c.userID and the hub's map, then SetPublicKey and AddGroupMember (module GroupFanout).
Register(c, u) ==
  /\ phase[c] = "idle"
  /\ owner' = [owner EXCEPT ![c] = u]
  /\ clients' = [clients EXCEPT ![u] = c]
  /\ claimed' = [claimed EXCEPT ![c] = @ \cup {u}]
  /\ Goto(c, "announce")
  /\ UNCHANGED <<hand, target, todo, channelVars, storeVars, sent, kept, got>>

\* The connections broadcast() of c emits to: entries under a user id other than its own.
Audience(c) == {clients[u] : u \in {v \in Users : v # owner[c]}} \ {NoConn}

\* The "registered" reply, then broadcast("user:online") under the read lock throughout.
Announce(c) ==
  /\ phase[c] = "announce"
  /\ \A d \in Audience(c) : ~closed[d]
  /\ buf' = [d \in Conns |-> IF d \in Audience(c) \cup {c} THEN Offer(buf[d], Ctl) ELSE buf[d]]
  /\ Goto(c, "popContacts")
  /\ UNCHANGED <<owner, hand, target, todo, up, closed, writing, clients, storeVars, historyVars>>

\* broadcast meets a closed channel: the map's order decides who was told before the panic.
AnnouncePanics(c) ==
  /\ phase[c] = "announce"
  /\ \E d \in Audience(c) : closed[d]
  /\ \E told \in SUBSET {d \in Audience(c) : ~closed[d]} :
       buf' = [d \in Conns |-> IF d \in told \cup {c} THEN Offer(buf[d], Ctl) ELSE buf[d]]
  /\ Goto(c, "closing")
  /\ UNCHANGED <<owner, hand, target, todo, up, closed, writing, clients, storeVars, historyVars>>

\* (faulty: copies the queue and does not delete it)
PopContactsKeeps(c) ==
  /\ phase[c] = "popContacts"
  /\ todo' = [todo EXCEPT ![c] = contacts[owner[c]]]
  /\ Goto(c, IF contacts[owner[c]] = <<>> THEN "popMessages" ELSE "giveContacts")
  /\ UNCHANGED <<owner, hand, target, channelVars, clients, storeVars, historyVars>>

\* store.PopPendingContacts
PopContacts(c) ==
  /\ phase[c] = "popContacts"
  /\ todo' = [todo EXCEPT ![c] = contacts[owner[c]]]
  /\ contacts' = [contacts EXCEPT ![owner[c]] = <<>>]
  /\ Goto(c, IF contacts[owner[c]] = <<>> THEN "popMessages" ELSE "giveContacts")
  /\ UNCHANGED <<owner, hand, target, channelVars, clients, pending, historyVars>>

\* store.PopPending
PopMessages(c) ==
  /\ phase[c] = "popMessages"
  /\ todo' = [todo EXCEPT ![c] = pending[owner[c]]]
  /\ pending' = [pending EXCEPT ![owner[c]] = <<>>]
  /\ Goto(c, IF pending[owner[c]] = <<>> THEN "idle" ELSE "giveMessages")
  /\ UNCHANGED <<owner, hand, target, channelVars, clients, contacts, historyVars>>

\* (faulty: newest first)
GiveNewest(c) ==
  /\ phase[c] \in {"giveContacts", "giveMessages"}
  /\ LET n == Len(todo[c])
     IN  /\ buf' = [buf EXCEPT ![c] = Offer(@, todo[c][n])]
         /\ todo' = [todo EXCEPT ![c] = SubSeq(@, 1, n - 1)]
         /\ Goto(c, IF n > 1 THEN phase[c]
                    ELSE IF phase[c] = "giveContacts" THEN "popMessages" ELSE "idle")
  /\ UNCHANGED <<owner, hand, target, up, closed, writing, clients, storeVars, historyVars>>

\* (faulty: a blocking send)
GiveBlocks(c) ==
  /\ phase[c] \in {"giveContacts", "giveMessages"}
  /\ Len(buf[c]) < BufCap
  /\ buf' = [buf EXCEPT ![c] = Append(@, Head(todo[c]))]
  /\ todo' = [todo EXCEPT ![c] = Tail(@)]
  /\ Goto(c, IF Tail(todo[c]) # <<>> THEN phase[c]
             ELSE IF phase[c] = "giveContacts" THEN "popMessages" ELSE "idle")
  /\ UNCHANGED <<owner, hand, target, up, closed, writing, clients, storeVars, historyVars>>

\* One turn of either loop that emits what was popped.
Give(c) ==
  /\ phase[c] \in {"giveContacts", "giveMessages"}
  /\ buf' = [buf EXCEPT ![c] = Offer(@, Head(todo[c]))]
  /\ todo' = [todo EXCEPT ![c] = Tail(@)]
  /\ Goto(c, IF Tail(todo[c]) # <<>> THEN phase[c]
             ELSE IF phase[c] = "giveContacts" THEN "popMessages" ELSE "idle")
  /\ UNCHANGED <<owner, hand, target, up, closed, writing, clients, storeVars, historyVars>>

-----------------------------------------------------------------------------
(* directMessage, contactAdd, file:share and relayByPeer: look the         *)
(* recipient up, leave the lock, then emit or store.                       *)

\* (faulty: looks up the sender)
ReceiveSwapped(c, m) ==
  /\ phase[c] = "idle"
  /\ \A d \in Conns : ~Holds(sent[d], m)
  /\ owner[c] \in {NoUser, From[m]}
  /\ sent' = [sent EXCEPT ![c] = Append(@, m)]
  /\ hand' = [hand EXCEPT ![c] = m]
  /\ target' = [target EXCEPT ![c] = clients[From[m]]]
  /\ Goto(c, IF clients[From[m]] = NoConn THEN "store" ELSE "emit")
  /\ UNCHANGED <<owner, todo, channelVars, clients, storeVars, kept, got, claimed>>

\* A frame is read and to() looks the recipient up.  A contact:add to oneself returns at once.
Receive(c, m) ==
  /\ phase[c] = "idle"
  /\ \A d \in Conns : ~Holds(sent[d], m)
  /\ owner[c] \in {NoUser, From[m]}
  /\ Kind[m] = "contact" => From[m] # Dest[m]
  /\ sent' = [sent EXCEPT ![c] = Append(@, m)]
  /\ hand' = [hand EXCEPT ![c] = m]
  /\ target' = [target EXCEPT ![c] = clients[Dest[m]]]
  /\ Goto(c, IF clients[Dest[m]] = NoConn THEN "store" ELSE "emit")
  /\ UNCHANGED <<owner, todo, channelVars, clients, storeVars, kept, got, claimed>>

\* After the message is dealt with a contact:add is acknowledged, anything else returns.
Settle(c) ==
  /\ hand' = [hand EXCEPT ![c] = NoMsg]
  /\ target' = [target EXCEPT ![c] = NoConn]
  /\ Goto(c, IF Kind[hand[c]] = "contact" THEN "ack" ELSE "idle")

\* (faulty: the result of to() is ignored and the message is stored as well)
DeliverAndStore(c) ==
  /\ phase[c] = "emit"
  /\ ~closed[target[c]]
  /\ buf' = [buf EXCEPT ![target[c]] = Offer(@, hand[c])]
  /\ contacts' = [contacts EXCEPT ![Dest[hand[c]]] = MergeContact(@, hand[c])]
  /\ Settle(c)
  /\ UNCHANGED <<owner, todo, up, closed, writing, clients, pending, historyVars>>

\* to(): the emit to the connection found.
Deliver(c) ==
  /\ phase[c] = "emit"
  /\ ~closed[target[c]]
  /\ buf' = [buf EXCEPT ![target[c]] = Offer(@, hand[c])]
  /\ Settle(c)
  /\ UNCHANGED <<owner, todo, up, closed, writing, clients, storeVars, historyVars>>

\* to(): the connection found has been closed since.  The send panics, the deferred close
\* of the sender runs and net/http recovers.
DeliverPanics(c) ==
  /\ phase[c] = "emit"
  /\ closed[target[c]]
  /\ hand' = [hand EXCEPT ![c] = NoMsg]
  /\ target' = [target EXCEPT ![c] = NoConn]
  /\ Goto(c, "closing")
  /\ UNCHANGED <<owner, todo, channelVars, clients, storeVars, historyVars>>

\* (faulty: P2POnly inverted)
StoreInverted(c) ==
  /\ phase[c] = "store"
  /\ pending' = [pending EXCEPT ![Dest[hand[c]]] =
                   IF Kind[hand[c]] = "live" THEN Append(@, hand[c]) ELSE @]
  /\ kept' = kept \cup {hand[c]}
  /\ Settle(c)
  /\ UNCHANGED <<owner, todo, channelVars, clients, contacts, sent, got, claimed>>

\* to() returned false: AddPending, AddPendingContact, or nothing for a live frame.
Store(c) ==
  /\ phase[c] = "store"
  /\ pending' = [pending EXCEPT ![Dest[hand[c]]] =
                   IF Kind[hand[c]] = "store" THEN Append(@, hand[c]) ELSE @]
  /\ contacts' = [contacts EXCEPT ![Dest[hand[c]]] =
                   IF Kind[hand[c]] = "contact" THEN MergeContact(@, hand[c]) ELSE @]
  /\ kept' = IF Kind[hand[c]] = "live" THEN kept ELSE kept \cup {hand[c]}
  /\ Settle(c)
  /\ UNCHANGED <<owner, todo, channelVars, clients, sent, got, claimed>>

\* (faulty: a blocking send)
AckBlocks(c) ==
  /\ phase[c] = "ack"
  /\ Len(buf[c]) < BufCap
  /\ buf' = [buf EXCEPT ![c] = Append(@, Ctl)]
  /\ Goto(c, "idle")
  /\ UNCHANGED <<owner, hand, target, todo, up, closed, writing, clients, storeVars, historyVars>>

\* "contact:add:ack"
Ack(c) ==
  /\ phase[c] = "ack"
  /\ buf' = [buf EXCEPT ![c] = Offer(@, Ctl)]
  /\ Goto(c, "idle")
  /\ UNCHANGED <<owner, hand, target, todo, up, closed, writing, clients, storeVars, historyVars>>

\* A frame that only earns a reply: undecodable, refused by the gate, unsupported, user:lookup.
Reply(c) ==
  /\ phase[c] = "idle"
  /\ buf' = [buf EXCEPT ![c] = Offer(@, Ctl)]
  /\ UNCHANGED <<readerVars, up, closed, writing, clients, storeVars, historyVars>>

-----------------------------------------------------------------------------
(* The hub's ticker                                                        *)

\* Hub.Run's tick and Memory.Cleanup: what outlived MessageTTL goes, in one locked pass.
Cleanup ==
  /\ pending'  \in {f \in [Users -> UNION {Subsequences(pending[u]) : u \in Users}] :
                      \A u \in Users : f[u] \in Subsequences(pending[u])}
  /\ contacts' \in {f \in [Users -> UNION {Subsequences(contacts[u]) : u \in Users}] :
                      \A u \in Users : f[u] \in Subsequences(contacts[u])}
  /\ UNCHANGED <<readerVars, channelVars, clients, historyVars>>

\* What the reader goroutine of c does on its own once a handler or close has begun.
Handler(c) ==
  \/ Announce(c) \/ AnnouncePanics(c)
  \/ PopContacts(c) \/ PopMessages(c) \/ Give(c)
  \/ Deliver(c) \/ DeliverPanics(c) \/ Store(c) \/ Ack(c)
  \/ Unlist(c) \/ CloseChannel(c)

Writer(c) == Write(c) \/ WriteLost(c)

Next ==
  \/ \E c \in Conns :
       \/ Connect(c) \/ Disconnect(c)
       \/ \E u \in Ids[c] : Register(c, u)
       \/ \E m \in Msgs : Receive(c, m)
       \/ Reply(c)
       \/ Handler(c)
       \/ Writer(c)
  \/ Cleanup

Spec == Init /\ [][Next]_vars

\* The Go scheduler runs every goroutine that can run, RWMutex and the channel's non-blocking
\* send make no goroutine wait for ever, and a write to a client that is gone ends.  Nothing is
\* assumed of clients: Write is not fair.
Fairness == \A c \in Conns : WF_vars(Handler(c)) /\ WF_vars(WriteLost(c))

FairSpec == Spec /\ Fairness

-----------------------------------------------------------------------------
(* Properties                                                              *)

\* Every variable has its shape, and no channel exceeds its capacity.
TypeOK ==
  /\ phase   \in [Conns -> Phases]
  /\ owner   \in [Conns -> Users \cup {NoUser}]
  /\ hand    \in [Conns -> Msgs \cup {NoMsg}]
  /\ target  \in [Conns -> Conns \cup {NoConn}]
  /\ todo    \in [Conns -> Seq(Msgs)]
  /\ up      \in [Conns -> BOOLEAN]
  /\ closed  \in [Conns -> BOOLEAN]
  /\ writing \in [Conns -> BOOLEAN]
  /\ buf     \in [Conns -> Seq(Msgs \cup {Ctl})]
  /\ \A c \in Conns : Len(buf[c]) <= BufCap
  /\ clients \in [Users -> Conns \cup {NoConn}]
  /\ pending \in [Users -> Seq(Msgs)]
  /\ contacts \in [Users -> Seq(Msgs)]
  /\ sent    \in [Conns -> Seq(Msgs)]
  /\ kept    \in SUBSET Msgs
  /\ got     \in [Conns -> Seq(Msgs)]
  /\ claimed \in [Conns -> SUBSET Users]

\* An entry of the hub's map leads to an open channel, unless its connection has since
\* registered under another id: close() removes only the entry of the current userID, and
\* does so before it closes the channel.  An emit to any other closed entry would panic.
RegisteredOpen ==
  \A u \in Users, c \in Conns :
    clients[u] = c /\ owner[c] = u => ~closed[c]

\* A message is popped for, buffered for, or received by, a connection only if that
\* connection has registered as its recipient, whatever registers, closes or is looked up
\* between to()'s lookup and its emit.
Confined ==
  \A c \in Conns, m \in Msgs :
    Holds(todo[c], m) \/ Holds(buf[c], m) \/ Holds(got[c], m) => Dest[m] \in claimed[c]

\* The positions of m in a table of sequences.
PlacesIn(name, table, m) ==
  UNION {{<<name, x, i>> : i \in {j \in DOMAIN table[x] : table[x][j] = m}} : x \in DOMAIN table}

\* Where a message is, by kind of place, owner and position.
Places(m) ==
       {<<"hand", c, 1>> : c \in {d \in Conns : hand[d] = m}}
  \cup PlacesIn("pending", pending, m) \cup PlacesIn("contacts", contacts, m)
  \cup PlacesIn("todo", todo, m) \cup PlacesIn("buf", buf, m) \cup PlacesIn("got", got, m)

\* A frame sent once never exists twice: not queued and delivered, not delivered on two
\* connections of its recipient, not flushed twice by two registers of one user.  And several
\* contact:add frames of one sender wait as one notice, in any mix with pops and clean-up.
NoDuplicate ==
  /\ \A m \in Msgs : Cardinality(Places(m)) <= 1
  /\ \A u \in Users : \A i, j \in DOMAIN contacts[u] :
       From[contacts[u][i]] = From[contacts[u][j]] => i = j

\* a stands before b in q.
Precedes(q, a, b) == \E i, j \in DOMAIN q : i < j /\ q[i] = a /\ q[j] = b

SentBefore(a, b) == \E c \in Conns : Precedes(sent[c], a, b)

\* Of one kind, from one user to another.
SameFlow(a, b) == Kind[a] = Kind[b] /\ From[a] = From[b] /\ Dest[a] = Dest[b]

\* What one connection sent reaches a connection in the order sent, except that a message
\* which had to be stored may be overtaken: by one that had not, or by a stored one of another
\* kind, sender or recipient.
SenderOrder ==
  \A c \in Conns : \A a, b \in Msgs :
    Precedes(got[c] \o buf[c], a, b) /\ SentBefore(b, a)
      => b \in kept /\ ~(a \in kept /\ SameFlow(a, b))

\* A user stays reachable through the connection that registered last: the close of an older
\* connection, or the panic of any handler, never takes the newer entry out of the map.
NewestWins ==
  [][\A u \in Users, c \in Conns :
       clients[u] = c /\ clients'[u] # c
         => \/ phase'[c] = "unlisted"
            \/ \E d \in Conns : phase[d] = "idle" /\ phase'[d] = "announce" /\ owner'[d] = u]_vars

\* How far the relay has taken m.  What is left in the channel of a connection whose writer
\* has returned is lost.
Stage(m) ==
  IF \E c \in Conns : Holds(got[c], m) THEN "received"
  ELSE IF \/ \E c \in Conns : hand[c] = m \/ Holds(todo[c], m)
          \/ \E c \in Conns : writing[c] /\ Holds(buf[c], m) THEN "transit"
  ELSE IF \E u \in Users : Holds(pending[u], m) \/ Holds(contacts[u], m) THEN "stored"
  ELSE IF \E c \in Conns : Holds(sent[c], m) THEN "gone" ELSE "fresh"

Receipts(m) ==
  Cardinality(PlacesIn("got", got, m))

StageOf == [m \in Msgs |-> Stage(m)]

ReceiptsOf == [m \in Msgs |-> Receipts(m)]

StoreAndForward ==
  INSTANCE StoreForward WITH Storable <- {m \in Msgs : Kind[m] # "live"},
                             stage <- StageOf, receipts <- ReceiptsOf

\* The relay implements the store-and-forward service.
Mailbox == StoreAndForward!Spec

\* The connection c is the one m is in the channel of, is popped for, or is to be emitted to.
Bound(m, c) ==
  Holds(buf[c], m) \/ Holds(todo[c], m) \/ \E d \in Conns : hand[d] = m /\ target[d] = c

\* A message for storage is lost only where something failed: the connection it was bound for
\* was full, broken or being closed, its time ran out, or a later contact:add of its sender
\* to its recipient replaced it.
LossNeedsCause ==
  [][\A m \in Msgs :
       Kind[m] # "live" /\ Stage(m) \in {"transit", "stored"} /\ Stage(m)' = "gone"
         => \/ \E c \in Conns : /\ Bound(m, c)
                                /\ Len(buf[c]) = BufCap \/ ~up[c] \/ phase[c] = "unlisted"
            \/ Stage(m) = "stored" /\ UNCHANGED readerVars
            \/ \E c \in Conns : /\ phase[c] = "store" /\ hand[c] # m
                                /\ Kind[hand[c]] = "contact" /\ From[hand[c]] = From[m]
                                /\ Dest[hand[c]] = Dest[m]]_vars

\* No handler waits for ever, in particular not for a recipient that does not read: the
\* reader of every connection comes back to its next frame or ends.
HandlerReturns ==
  \A c \in Conns : phase[c] \notin {"new", "idle", "gone"} ~> phase[c] \in {"idle", "gone"}

\* m is the frame in place i of the channel of c, whose client is connected; the one the writer is
\* writing counts as the first of its channel.
Waits(m, c, i) == up[c] /\ writing[c] /\ i \in DOMAIN buf[c] /\ buf[c][i] = m

\* A message the relay took is received, stored or lost in the end, unless it stays for ever where
\* it is in one channel, whose client is connected and reads nothing more: writeLoop then waits in
\* a WriteJSON without deadline.  Such a client holds up no message but those in its own channel.
TransitEnds ==
  \A m \in Msgs : \/ []<>(Stage(m) # "transit")
                  \/ \E c \in Conns, i \in 1..BufCap : <>[]Waits(m, c, i)

=============================================================================
