----------------------------- MODULE NodeRelay -----------------------------
(***************************************************************************)
(* The Node relay (server/routes.ts): users, messages, groups, file links  *)
(* and signals.  Matching models the rest of the same relay.               *)
(*                                                                         *)
(* The relay is one event loop, so a handler is one step.  What is hard is *)
(* the order of frames of several sockets: repeated frames, a queue at its *)
(* limit, a socket that registers under two ids, a break the relay has not *)
(* noticed, timers, and a restart, after which only sockets that register  *)
(* again tell the relay what it knew.  What is emitted on a socket arrives *)
(* at once or never: a break takes effect before the relay notices it, so  *)
(* that what is on its way then is emitted to a broken socket here.        *)
(***************************************************************************)
EXTENDS Naturals, Sequences, FiniteSets

CONSTANTS
  Users, Groups, Sockets,
  Msgs,          \* the frames clients send; m is also the id in the frame
  Kind,          \* Kind[m]: "message", "p2pOnly", "group", "file" or "signal"
  From, Dest,    \* Dest[m]: the group of a "group" frame, a user otherwise
  Ids,           \* Ids[s]: the ids the client of socket s registers under
  Lists,         \* Lists[u]: the groups in u's own storage
  MaxPending,    \* MAX_PENDING_PER_USER
  Movers,        \* bound: the users that join and leave groups by frames of their own
  MaxSends,      \* bound: MaxSends[m], how often a client sends m
  MaxFrames,     \* bound: how many frames are sent in all
  MaxRestarts,   \* bound
  NoSocket, NoUser

Kinds == {"message", "p2pOnly", "group", "file", "signal"}

\* The value of groups[g] while the relay has no group g.
NoGroup == {NoUser}

GroupMsgs == {m \in Msgs : Kind[m] = "group"}

ASSUME NodeRelayAssumption ==
  /\ Kind \in [Msgs -> Kinds]
  /\ From \in [Msgs -> Users]
  /\ Dest \in [Msgs -> Users \cup Groups]
  /\ \A m \in Msgs : Dest[m] \in IF Kind[m] = "group" THEN Groups ELSE Users
  /\ Ids \in [Sockets -> SUBSET Users]
  /\ Lists \in [Users -> SUBSET Groups]
  /\ MaxSends \in [Msgs -> Nat]
  /\ \A m \in Msgs : Kind[m] \in {"file", "signal"} => MaxSends[m] <= 1
  /\ MaxPending \in Nat /\ MaxFrames \in Nat /\ MaxRestarts \in Nat
  /\ Movers \subseteq Users
  /\ NoSocket \notin Sockets
  /\ NoUser \notin Users
  /\ Users \cap Sockets = {}

VARIABLES
  connectedUsers,       \* connectedUsers[u]: the socket u registered on last
  pendingMessages,      \* pendingMessages[u]
  deliveredMessageIds,  \* the ids the relay remembers
  groups,               \* groups[g]: its members, NoGroup if the relay does not know it
  rooms,                \* rooms[g]: the sockets that joined the Socket.IO room g
  link,                 \* link[s]: "open", "broken" (the relay does not know yet) or "closed"
  got,                  \* history: got[p], how often a client received the copy p
  sends,                \* sends[m]: how often m was sent
  forgotten,            \* history: forgotten[m], how often the relay lost m's id
  claimed,              \* history: claimed[s], the ids s registered under since it was opened
  listed,               \* history: listed[g], who registered with g since the relay started, and
                        \* has not left, nor been left out by a later group:create
  restarts              \* how often the relay was started again

relayVars == <<connectedUsers, pendingMessages, deliveredMessageIds, groups, rooms>>
pastVars  == <<forgotten, claimed, listed, restarts>>
vars == <<relayVars, link, got, sends, pastVars>>

\* A copy: the frame and whom it is for, the socket if it went to a room.
Copies == Msgs \X (Users \cup Sockets)

Init ==
  /\ connectedUsers = [u \in Users |-> NoSocket]
  /\ pendingMessages = [u \in Users |-> <<>>]
  /\ deliveredMessageIds = {}
  /\ groups = [g \in Groups |-> NoGroup]
  /\ rooms = [g \in Groups |-> {}]
  /\ link = [s \in Sockets |-> "closed"]
  /\ got = [p \in Copies |-> 0]
  /\ sends = [m \in Msgs |-> 0]
  /\ forgotten = [m \in Msgs |-> 0]
  /\ claimed = [s \in Sockets |-> {}]
  /\ listed = [g \in Groups |-> {}]
  /\ restarts = 0

-----------------------------------------------------------------------------
(* Sockets                                                                 *)

\* A client opens a socket.  A socket id is used once; one that nothing refers to any more
\* stands for the next.
Connect(s) ==
  /\ link[s] = "closed"
  /\ \A u \in Users : connectedUsers[u] # s
  /\ link' = [link EXCEPT ![s] = "open"]
  /\ claimed' = [claimed EXCEPT ![s] = {}]
  /\ UNCHANGED <<relayVars, got, sends, forgotten, listed, restarts>>

\* The network or the client goes; the relay will notice.
Break(s) ==
  /\ link[s] = "open"
  /\ link' = [link EXCEPT ![s] = "broken"]
  /\ UNCHANGED <<relayVars, got, sends, pastVars>>

\* s is one the relay still takes frames from.
Heard(s) == link[s] \in {"open", "broken"}

\* The client of m's sender hands m to its socket s, for the first time or again.
Sends(s, m) ==
  /\ Heard(s)
  /\ From[m] \in Ids[s]
  /\ sends[m] < MaxSends[m]
  /\ Cardinality({f \in Msgs \X (1..MaxFrames) : f[2] <= sends[f[1]]}) < MaxFrames
  /\ sends' = [sends EXCEPT ![m] = @ + 1]

Count(seq, x) == Cardinality({i \in DOMAIN seq : seq[i] = x})

\* The copies of m for the users or sockets of dest[s] are emitted on each socket s.
Emit(m, dest) ==
  got' = [p \in Copies |->
            IF p[1] = m /\ \E s \in Sockets : link[s] = "open" /\ p[2] \in dest[s]
            THEN got[p] + 1 ELSE got[p]]

\* io.to(connectedUsers.get(u)).emit for each user u of us who is there.
EmitTo(m, us) == Emit(m, [s \in Sockets |-> {u \in us : connectedUsers[u] = s}])

-----------------------------------------------------------------------------
(* The relay                                                               *)

\* (faulty: the list starts anew)
RejoinedAlone(u, gs) == [g \in Groups |-> IF g \in gs THEN {u} ELSE groups[g]]

\* The member lists with u in those of gs; a list that is not there starts with u.
Rejoined(u, gs) ==
  [g \in Groups |-> IF g \notin gs THEN groups[g]
                    ELSE IF groups[g] = NoGroup THEN {u} ELSE groups[g] \cup {u}]

\* "register": u joins the rooms of its groups and their member lists, starting a list that
\* is not there, and what was queued for it is emitted at once.
Register(s, u, gs) ==
  /\ Heard(s)
  /\ u \in Ids[s]
  /\ gs \subseteq Lists[u]
  /\ connectedUsers' = [connectedUsers EXCEPT ![u] = s]
  /\ rooms' = [g \in Groups |-> IF g \in gs THEN rooms[g] \cup {s} ELSE rooms[g]]
  /\ groups' = Rejoined(u, gs)
  /\ got' = [p \in Copies |-> IF p[2] = u /\ link[s] = "open"
                              THEN got[p] + Count(pendingMessages[u], p[1]) ELSE got[p]]
  /\ pendingMessages' = [pendingMessages EXCEPT ![u] = <<>>]
  /\ claimed' = [claimed EXCEPT ![s] = @ \cup {u}]
  /\ listed' = [g \in Groups |-> IF g \in gs THEN listed[g] \cup {u} ELSE listed[g]]
  /\ UNCHANGED <<deliveredMessageIds, link, sends, forgotten, restarts>>

\* (faulty: a user on a broken socket counts as away)
OnlineIfOpen(u) == \E s \in Sockets : connectedUsers[u] = s /\ link[s] = "open"

\* What the relay takes for online: there is an entry.
Online(u) == connectedUsers[u] # NoSocket

Full(u) == Len(pendingMessages[u]) >= MaxPending

\* (faulty: an id is remembered only while its copies wait)
FirstTimeUnlessQueued(m) ==
  /\ \A u \in Users : Count(pendingMessages[u], m) = 0
  /\ deliveredMessageIds' = deliveredMessageIds \cup {m}

\* The check for repeated ids, which marks the id whatever becomes of the message.
FirstTime(m) ==
  /\ m \notin deliveredMessageIds
  /\ deliveredMessageIds' = deliveredMessageIds \cup {m}

\* "message" and "group:message" with an id the relay remembers.
Repeated(s, m) ==
  /\ Kind[m] \in {"message", "p2pOnly", "group"}
  /\ Sends(s, m)
  /\ m \in deliveredMessageIds
  /\ UNCHANGED <<relayVars, link, got, pastVars>>

\* "message" to a user who is registered.
MessageOnline(s, m) ==
  /\ Kind[m] \in {"message", "p2pOnly"}
  /\ Sends(s, m)
  /\ FirstTime(m)
  /\ Online(Dest[m])
  /\ EmitTo(m, {Dest[m]})
  /\ UNCHANGED <<connectedUsers, pendingMessages, groups, rooms, link, pastVars>>

\* "message" to a user who is not: it is queued, or dropped if it is p2pOnly or the queue is
\* at its limit.
MessageOffline(s, m) ==
  /\ Kind[m] \in {"message", "p2pOnly"}
  /\ Sends(s, m)
  /\ FirstTime(m)
  /\ ~Online(Dest[m])
  /\ pendingMessages' =
       IF Kind[m] = "message" /\ ~Full(Dest[m])
       THEN [pendingMessages EXCEPT ![Dest[m]] = Append(@, m)] ELSE pendingMessages
  /\ UNCHANGED <<connectedUsers, groups, rooms, link, got, pastVars>>

\* "file:share": queued without regard to the limit, and without a check for repeats.
FileShare(s, m) ==
  /\ Kind[m] = "file"
  /\ Sends(s, m)
  /\ IF Online(Dest[m])
     THEN EmitTo(m, {Dest[m]}) /\ UNCHANGED pendingMessages
     ELSE /\ pendingMessages' = [pendingMessages EXCEPT ![Dest[m]] = Append(@, m)]
          /\ UNCHANGED got
  /\ UNCHANGED <<connectedUsers, deliveredMessageIds, groups, rooms, link, pastVars>>

\* "webrtc:offer", "webrtc:answer", "webrtc:ice" and "p2p:file-offer": passed on or dropped.
Signal(s, m) ==
  /\ Kind[m] = "signal"
  /\ Sends(s, m)
  /\ EmitTo(m, {Dest[m]})
  /\ UNCHANGED <<relayVars, link, pastVars>>

\* "group:create": the list is set, whatever it was.  The client lists itself with the members it
\* chose; a frame that waited for the connection comes after that client has registered with g.
GroupCreate(s, g, members) ==
  /\ Heard(s)
  /\ members \cap Ids[s] # {}
  /\ groups' = [groups EXCEPT ![g] = members]
  /\ rooms' = [rooms EXCEPT ![g] = @ \cup {s}]
  /\ listed' = [listed EXCEPT ![g] = @ \cap members]
  /\ UNCHANGED <<connectedUsers, pendingMessages, deliveredMessageIds, link, got, sends,
                 forgotten, claimed, restarts>>

\* "group:join": the room takes everybody, the list only of a group that is there.
GroupJoin(s, g, u) ==
  /\ Heard(s)
  /\ u \in Ids[s] \cap Movers
  /\ rooms' = [rooms EXCEPT ![g] = @ \cup {s}]
  /\ groups' = [groups EXCEPT ![g] = IF @ = NoGroup THEN NoGroup ELSE @ \cup {u}]
  /\ UNCHANGED <<connectedUsers, pendingMessages, deliveredMessageIds, link, got, sends,
                 pastVars>>

\* "group:leave": the last member takes the group with it.
GroupLeave(s, g, u) ==
  /\ Heard(s)
  /\ u \in Ids[s] \cap Movers
  /\ rooms' = [rooms EXCEPT ![g] = @ \ {s}]
  /\ groups' = [groups EXCEPT ![g] = IF @ = NoGroup \/ @ \subseteq {u} THEN NoGroup ELSE @ \ {u}]
  /\ listed' = [listed EXCEPT ![g] = @ \ {u}]
  /\ UNCHANGED <<connectedUsers, pendingMessages, deliveredMessageIds, link, got, sends,
                 forgotten, claimed, restarts>>

\* "group:message" to a group the relay knows: each member but the sender gets or is queued
\* a copy.
GroupMessage(s, m) ==
  /\ Kind[m] = "group"
  /\ Sends(s, m)
  /\ FirstTime(m)
  /\ groups[Dest[m]] # NoGroup
  /\ LET others == groups[Dest[m]] \ {From[m]}
     IN  /\ EmitTo(m, others)
         /\ pendingMessages' = [u \in Users |-> IF u \in others /\ ~Online(u) /\ ~Full(u)
                                                THEN Append(pendingMessages[u], m)
                                                ELSE pendingMessages[u]]
  /\ UNCHANGED <<connectedUsers, groups, rooms, link, pastVars>>

\* "group:message" to one it does not know: to the sockets of the room, the sender's too.
RoomMessage(s, m) ==
  /\ Kind[m] = "group"
  /\ Sends(s, m)
  /\ FirstTime(m)
  /\ groups[Dest[m]] = NoGroup
  /\ Emit(m, [t \in Sockets |-> rooms[Dest[m]] \cap {t}])
  /\ UNCHANGED <<connectedUsers, pendingMessages, groups, rooms, link, pastVars>>

\* (faulty: a user with another socket by now is taken out as well, this socket's own is not)
DisconnectByClaim(s) ==
  /\ Heard(s)
  /\ link' = [link EXCEPT ![s] = "closed"]
  /\ rooms' = [g \in Groups |-> rooms[g] \ {s}]
  /\ connectedUsers' = [u \in Users |-> IF u \in claimed[s] /\ connectedUsers[u] # s THEN NoSocket
                                        ELSE connectedUsers[u]]
  /\ UNCHANGED <<pendingMessages, deliveredMessageIds, groups, got, sends, pastVars>>

\* "disconnect": Socket.IO has taken the socket out of its rooms, and the first user found
\* with this socket goes; the loop ends there.
Disconnect(s) ==
  /\ Heard(s)
  /\ link' = [link EXCEPT ![s] = "closed"]
  /\ rooms' = [g \in Groups |-> rooms[g] \ {s}]
  /\ LET here == {u \in Users : connectedUsers[u] = s}
     IN  IF here = {} THEN UNCHANGED connectedUsers
         ELSE \E u \in here : connectedUsers' = [connectedUsers EXCEPT ![u] = NoSocket]
  /\ UNCHANGED <<pendingMessages, deliveredMessageIds, groups, got, sends, pastVars>>

\* The timer of cleanupDeliveredIds: m's id is an hour old.  Bound: it makes no difference once
\* nobody sends m again.
CleanupDeliveredIds(m) ==
  /\ m \in deliveredMessageIds
  /\ sends[m] < MaxSends[m]
  /\ deliveredMessageIds' = deliveredMessageIds \ {m}
  /\ forgotten' = [forgotten EXCEPT ![m] = @ + 1]
  /\ UNCHANGED <<connectedUsers, pendingMessages, groups, rooms, link, got, sends, claimed,
                 listed, restarts>>

\* The timer of cleanupExpiredMessages: the oldest of u's messages have outlived MESSAGE_TTL.
CleanupExpiredMessages(u) ==
  /\ pendingMessages[u] # <<>>
  /\ \E n \in 1..Len(pendingMessages[u]) :
       pendingMessages' = [pendingMessages EXCEPT ![u] = SubSeq(@, n + 1, Len(@))]
  /\ UNCHANGED <<connectedUsers, deliveredMessageIds, groups, rooms, link, got, sends,
                 pastVars>>

\* The process ends and starts again: all of its state was in memory.
Restart ==
  /\ restarts < MaxRestarts
  /\ restarts' = restarts + 1
  /\ connectedUsers' = [u \in Users |-> NoSocket]
  /\ pendingMessages' = [u \in Users |-> <<>>]
  /\ deliveredMessageIds' = {}
  /\ groups' = [g \in Groups |-> NoGroup]
  /\ rooms' = [g \in Groups |-> {}]
  /\ link' = [s \in Sockets |-> "closed"]
  /\ forgotten' = [m \in Msgs |-> IF m \in deliveredMessageIds THEN forgotten[m] + 1
                                  ELSE forgotten[m]]
  /\ listed' = [g \in Groups |-> {}]
  /\ UNCHANGED <<got, sends, claimed>>

Frame(s, m) ==
  \/ Repeated(s, m) \/ MessageOnline(s, m) \/ MessageOffline(s, m)
  \/ FileShare(s, m) \/ Signal(s, m)
  \/ GroupMessage(s, m) \/ RoomMessage(s, m)

Next ==
  \/ \E s \in Sockets :
       \/ Connect(s) \/ Break(s) \/ Disconnect(s)
       \/ \E m \in Msgs : Frame(s, m)
       \/ \E u \in Users, gs \in SUBSET Groups : Register(s, u, gs)
       \/ \E g \in Groups, members \in SUBSET Users : GroupCreate(s, g, members)
       \/ \E g \in Groups, u \in Users : GroupJoin(s, g, u) \/ GroupLeave(s, g, u)
  \/ \E m \in Msgs : CleanupDeliveredIds(m)
  \/ \E u \in Users : CleanupExpiredMessages(u)
  \/ Restart

Spec == Init /\ [][Next]_vars

-----------------------------------------------------------------------------
(* Properties                                                              *)

\* Every variable keeps its type.
TypeOK ==
  /\ connectedUsers \in [Users -> Sockets \cup {NoSocket}]
  /\ pendingMessages \in [Users -> Seq(Msgs)]
  /\ deliveredMessageIds \subseteq Msgs
  /\ groups \in [Groups -> (SUBSET Users) \cup {NoGroup}]
  /\ rooms \in [Groups -> SUBSET Sockets]
  /\ link \in [Sockets -> {"open", "broken", "closed"}]
  /\ got \in [Copies -> Nat]
  /\ sends \in [Msgs -> Nat]
  /\ forgotten \in [Msgs -> Nat]
  /\ claimed \in [Sockets -> SUBSET Users]
  /\ listed \in [Groups -> SUBSET Users]
  /\ restarts \in Nat

\* Nothing waits for a user the relay takes to be there: what is queued was queued while the
\* user was away, and every way of coming back empties the queue.
QueuedMeansAbsent == \A u \in Users : pendingMessages[u] # <<>> => connectedUsers[u] = NoSocket

\* connectedUsers leads to a socket that is gone only if that socket registered under two ids:
\* its disconnect takes one of them out.  An overlapping reconnect does not leave such an entry.
EntriesLeadSomewhere ==
  \A u \in Users, s \in Sockets :
    connectedUsers[u] = s =>
      /\ u \in claimed[s]
      /\ link[s] = "closed" => claimed[s] # {u}

\* How many copies of m are there for u, received or waiting.
CopiesOf(m, u) == Count(pendingMessages[u], m) + got[<<m, u>>]

\* However often a client repeats a frame, and wherever its copies are, a user gets it once,
\* and once more for each time the relay forgot the id (after an hour, or in a restart).
OnceWhileRemembered ==
  \A m \in Msgs, u \in Users : CopiesOf(m, u) <= 1 + forgotten[m]

\* A group message makes a copy for everybody who registered with the group since the relay
\* was started, online or not, in whatever order they came back after a restart and the group
\* was created again; only a full queue or a socket that is gone may cost a member its copy.
FanoutComplete ==
  [][\A m \in GroupMsgs :
       m \notin deliveredMessageIds /\ m \in deliveredMessageIds' =>
         \A u \in listed[Dest[m]] \ {From[m]} :
           \/ CopiesOf(m, u)' > CopiesOf(m, u)
           \/ ~Online(u) /\ Full(u)
           \/ Online(u) /\ link[connectedUsers[u]] # "open"]_vars
=============================================================================
