---------------------------- MODULE ScannedRelay ----------------------------
(***************************************************************************)
(* The first Go relay (server-go/): its socket events, and the scanner     *)
(* whose verdict on an address closes the connections from there           *)
(* (server.go, security_manager.go, anti_graviti_scanner.go).  Its files   *)
(* are in FileStore.                                                       *)
(*                                                                         *)
(* Every connection has a reader goroutine, which handles its events one   *)
(* by one and takes a different lock for every map, and a scan goroutine;  *)
(* a verdict starts goroutines of its own that take users out of the map.  *)
(* A step is what happens under one lock, or one write to a connection; a  *)
(* write to a client that does not read is a step that does not happen.    *)
(***************************************************************************)
EXTENDS Naturals, Sequences, FiniteSets

CONSTANTS
  Users, Groups, Conns, Addresses,
  IP,            \* IP[c]: the address connection c comes from
  Ids,           \* Ids[c]: the ids its client registers under
  Msgs,          \* the events that carry something to somebody; m is also the id in it
  Kind,          \* Kind[m]: "message", "p2pOnly", "signal" (webrtc:*) or "group"
  From, Dest,    \* Dest[m]: the group of a "group" event, a user otherwise
  MemberLists,   \* the lists clients create groups with
  Condemned,     \* the addresses a scan finds critical
  MaxSends,      \* bound: MaxSends[m], how often m is sent
  MaxEvents,     \* bound: how many different events are sent
  NoConn, NoUser

ASSUME ScannedRelayAssumption ==
  /\ IP \in [Conns -> Addresses]
  /\ Ids \in [Conns -> SUBSET Users]
  /\ Kind \in [Msgs -> {"message", "p2pOnly", "signal", "group"}]
  /\ From \in [Msgs -> Users]
  /\ Dest \in [Msgs -> Users \cup Groups]
  /\ \A m \in Msgs : Dest[m] \in IF Kind[m] = "group" THEN Groups ELSE Users
  /\ MemberLists \subseteq Seq(Users)
  /\ Condemned \subseteq Addresses
  /\ MaxSends \in [Msgs -> Nat] /\ MaxEvents \in Nat
  /\ NoConn \notin Conns /\ NoUser \notin Users /\ NoUser \notin Addresses
  /\ Users \cap Addresses = {}

\* A client lists itself and the contacts it selected, each of them once, and is no contact of
\* its own (client/screens/CreateGroupScreen.tsx:70 and 114, QRScannerScreen.tsx:149).
ASSUME ListsAssumption ==
  \A l \in MemberLists : \A i, j \in DOMAIN l : l[i] = l[j] => i = j

VARIABLES
  connectedUsers, pendingMessages, deliveredMessageIds, groups,
  blacklist,   \* the keys of blacklistedIPs and blacklistedNodes
  conn,        \* conn[c]: "new", "open" or "closed", by whichever side
  userID,      \* userID[c]: ClientConn.UserID
  reader,      \* reader[c]: where c's reader goroutine is
  scan,        \* scan[c]: the scan goroutine: "none", "running", "node" (its second part)
  calls,       \* the running disconnect callbacks: who was blacklisted by whose scan
  got,         \* history: got[p], how often a client received the copy p of an event
  sends,       \* history: sends[m], how often m was sent
  forgotten,   \* history: forgotten[m], how often m's id was removed
  latest,      \* history: latest[u], the connection that registered as u last
  taken,       \* history: who was taken out by the close of another connection
  slipped      \* history: the connections that were blacklisted between check and insertion

mapVars == <<connectedUsers, pendingMessages, deliveredMessageIds, groups>>
pastVars == <<forgotten, latest, taken, slipped>>
vars == <<mapVars, blacklist, conn, userID, reader, scan, calls, got, sends, pastVars>>

Copies == Msgs \X Users

\* A reader that waits for the next event.
Waiting == [pc |-> "idle", user |-> NoUser, msg |-> <<>>, rest |-> <<>>, to |-> NoConn]

Init ==
  /\ connectedUsers = [u \in Users |-> NoConn]
  /\ pendingMessages = [u \in Users |-> <<>>]
  /\ deliveredMessageIds = {}
  /\ groups = [g \in Groups |-> <<>>]
  /\ blacklist = {}
  /\ conn = [c \in Conns |-> "new"]
  /\ userID = [c \in Conns |-> NoUser]
  /\ reader = [c \in Conns |-> Waiting]
  /\ scan = [c \in Conns |-> "none"]
  /\ calls = {}
  /\ got = [p \in Copies |-> 0]
  /\ sends = [m \in Msgs |-> 0]
  /\ forgotten = [m \in Msgs |-> 0]
  /\ latest = [u \in Users |-> NoConn]
  /\ taken = {}
  /\ slipped = {}

-----------------------------------------------------------------------------
(* Connections and the first check of every event                          *)

\* handleSocketIOUpgrade: the reader and the scan begin.
Upgrade(c) ==
  /\ conn[c] = "new"
  /\ IP[c] \notin blacklist
  /\ conn' = [conn EXCEPT ![c] = "open"]
  /\ scan' = [scan EXCEPT ![c] = "running"]
  /\ UNCHANGED <<mapVars, blacklist, userID, reader, calls, got, sends, pastVars>>

\* The client or the network closes.
Break(c) ==
  /\ conn[c] = "open"
  /\ conn' = [conn EXCEPT ![c] = "closed"]
  /\ UNCHANGED <<mapVars, blacklist, userID, reader, scan, calls, got, sends, pastVars>>

Blocked(c) == IP[c] \in blacklist \/ userID[c] \in blacklist

\* The reader of c takes an event from somebody who is not blacklisted.  An event may have
\* arrived before the connection was closed.
Takes(c) == reader[c].pc = "idle" /\ conn[c] # "new" /\ ~Blocked(c)

\* It takes one from somebody who is, or a register with an id that is.
Refuse(c) ==
  /\ reader[c].pc = "idle" /\ conn[c] = "open"
  /\ Blocked(c) \/ Ids[c] \cap blacklist # {}
  /\ conn' = [conn EXCEPT ![c] = "closed"]
  /\ UNCHANGED <<mapVars, blacklist, userID, reader, scan, calls, got, sends, pastVars>>

\* (faulty: the entry stays)
FinishKeeps(c) ==
  /\ reader[c].pc = "idle" /\ conn[c] = "closed"
  /\ reader' = [reader EXCEPT ![c].pc = "done"]
  /\ UNCHANGED <<mapVars, blacklist, conn, userID, scan, calls, got, sends, pastVars>>

\* The deferred part of readSocketLoop: whatever entry the last user id has goes.
Finish(c) ==
  /\ reader[c].pc = "idle" /\ conn[c] = "closed"
  /\ reader' = [reader EXCEPT ![c].pc = "done"]
  /\ LET here == {u \in Users : u = userID[c] /\ connectedUsers[u] # NoConn}
     IN  /\ connectedUsers' = [u \in Users |-> IF u \in here THEN NoConn ELSE connectedUsers[u]]
         /\ taken' = taken \cup {u \in here : connectedUsers[u] # c}
  /\ UNCHANGED <<pendingMessages, deliveredMessageIds, groups, blacklist, conn, userID, scan,
                 calls, got, sends, forgotten, latest, slipped>>

-----------------------------------------------------------------------------
(* "register"                                                              *)

\* The id is not blacklisted either.  The address, the old id and the new one are looked up one
\* after the other; as the relay takes nobody off the blacklist, a register that passes all three
\* would have passed them at the moment of the first, and one that fails does so at the moment of
\* its last.
Register(c, u) ==
  /\ Takes(c)
  /\ u \in Ids[c] \ blacklist
  /\ reader' = [reader EXCEPT ![c].pc = "name", ![c].user = u]
  /\ UNCHANGED <<mapVars, blacklist, conn, userID, scan, calls, got, sends, pastVars>>

\* cc.UserID, which the scan reads without a lock.
Name(c) ==
  /\ reader[c].pc = "name"
  /\ userID' = [userID EXCEPT ![c] = reader[c].user]
  /\ reader' = [reader EXCEPT ![c].pc = "list"]
  /\ UNCHANGED <<mapVars, blacklist, conn, scan, calls, got, sends, pastVars>>

List(c) ==
  LET u == userID[c]
  IN  /\ reader[c].pc = "list"
      /\ connectedUsers' = [connectedUsers EXCEPT ![u] = c]
      /\ reader' = [reader EXCEPT ![c].pc = "pop"]
      /\ latest' = [latest EXCEPT ![u] = c]
      /\ taken' = taken \ {u}
      /\ slipped' = IF Blocked(c) THEN slipped \cup {c} ELSE slipped
      /\ UNCHANGED <<pendingMessages, deliveredMessageIds, groups, blacklist, conn, userID, scan,
                     calls, got, sends, forgotten>>

\* pendingMutex is free.
Unlocked == \A c \in Conns : reader[c].pc # "flush"

\* (faulty: what is flushed stays queued)
PopKeeps(c) ==
  LET u == userID[c]
  IN  /\ reader[c].pc = "pop" /\ Unlocked
      /\ reader' = [reader EXCEPT ![c].msg = pendingMessages[u],
                                  ![c].pc = IF pendingMessages[u] = <<>> THEN "idle" ELSE "flush"]
      /\ UNCHANGED <<mapVars, blacklist, conn, userID, scan, calls, got, sends, pastVars>>

\* pendingMutex is taken, if anything is queued until it is written.
Pop(c) ==
  LET u == userID[c]
  IN  /\ reader[c].pc = "pop" /\ Unlocked
      /\ reader' = [reader EXCEPT ![c].msg = pendingMessages[u],
                                  ![c].pc = IF pendingMessages[u] = <<>> THEN "idle" ELSE "flush"]
      /\ pendingMessages' = [pendingMessages EXCEPT ![u] = <<>>]
      /\ UNCHANGED <<connectedUsers, deliveredMessageIds, groups, blacklist, conn, userID, scan,
                     calls, got, sends, pastVars>>

\* SendMessage: the copy of m for u is written to d; what a closed connection says is ignored.
Write(m, u, d) ==
  got' = IF conn[d] = "open" THEN [got EXCEPT ![<<m, u>>] = @ + 1] ELSE got

Flush(c) ==
  /\ reader[c].pc = "flush"
  /\ Write(Head(reader[c].msg), userID[c], c)
  /\ reader' = [reader EXCEPT ![c].msg = Tail(@),
                              ![c].pc = IF Len(reader[c].msg) = 1 THEN "idle" ELSE "flush"]
  /\ UNCHANGED <<mapVars, blacklist, conn, userID, scan, calls, sends, pastVars>>

-----------------------------------------------------------------------------
(* The other events                                                        *)

GroupCreate(c, g, members) ==
  /\ Takes(c)
  /\ groups' = [groups EXCEPT ![g] = members]
  /\ UNCHANGED <<connectedUsers, pendingMessages, deliveredMessageIds, blacklist, conn, userID,
                 reader, scan, calls, got, sends, pastVars>>

\* Whom m is for: the group's list as it is when m comes, in which the sender will be skipped.
Recipients(m) == IF Kind[m] = "group" THEN groups[Dest[m]] ELSE <<Dest[m]>>

Skips(m, u) == Kind[m] = "group" /\ u = From[m]

\* Only "message" looks for repeated ids.
HasMemory(m) == Kind[m] \in {"message", "p2pOnly"}

\* Any of the events in Msgs.
Take(c, m) ==
  /\ Takes(c)
  /\ From[m] \in Ids[c] /\ sends[m] < MaxSends[m]
  /\ Cardinality({x \in Msgs : x = m \/ sends[x] > 0}) <= MaxEvents
  /\ sends' = [sends EXCEPT ![m] = @ + 1]
  /\ IF (HasMemory(m) /\ m \in deliveredMessageIds) \/ Recipients(m) = <<>>
     THEN UNCHANGED reader
     ELSE reader' = [reader EXCEPT ![c].pc = "look", ![c].msg = <<m>>,
                                   ![c].rest = Recipients(m)]
  /\ deliveredMessageIds' = deliveredMessageIds \cup {x \in {m} : HasMemory(x)}
  /\ UNCHANGED <<connectedUsers, pendingMessages, groups, blacklist, conn, userID, scan, calls,
                 got, pastVars>>

\* The recipient that was dealt with goes.
Advance(c) ==
  reader' = [reader EXCEPT ![c].rest = Tail(@), ![c].to = NoConn,
                           ![c].msg = IF Len(reader[c].rest) = 1 THEN <<>> ELSE @,
                           ![c].pc = IF Len(reader[c].rest) = 1 THEN "idle" ELSE "look"]

\* The next recipient is looked up, unless it is the sender.
Look(c) ==
  LET m == Head(reader[c].msg)
      u == Head(reader[c].rest)
      d == connectedUsers[u]
  IN  /\ reader[c].pc = "look"
      /\ IF Skips(m, u) THEN Advance(c)
         ELSE IF d # NoConn THEN reader' = [reader EXCEPT ![c].pc = "send", ![c].to = d]
         ELSE IF Kind[m] \in {"message", "group"}
              THEN reader' = [reader EXCEPT ![c].pc = "queue"]
         ELSE Advance(c)
      /\ UNCHANGED <<mapVars, blacklist, conn, userID, scan, calls, got, sends, pastVars>>

Send(c) ==
  /\ reader[c].pc = "send"
  /\ Write(Head(reader[c].msg), Head(reader[c].rest), reader[c].to)
  /\ Advance(c)
  /\ UNCHANGED <<mapVars, blacklist, conn, userID, scan, calls, sends, pastVars>>

\* Nothing limits the queue, and nothing in it expires.
Queue(c) ==
  /\ reader[c].pc = "queue" /\ Unlocked
  /\ pendingMessages' = [pendingMessages EXCEPT ![Head(reader[c].rest)] =
                           Append(@, Head(reader[c].msg))]
  /\ Advance(c)
  /\ UNCHANGED <<connectedUsers, deliveredMessageIds, groups, blacklist, conn, userID, scan,
                 calls, got, sends, pastVars>>

\* runPeriodicCleanups: m's id is an hour old.  Bound: only while m may be sent again.
Cleanup(m) ==
  /\ m \in deliveredMessageIds /\ sends[m] < MaxSends[m]
  /\ deliveredMessageIds' = deliveredMessageIds \ {m}
  /\ forgotten' = [forgotten EXCEPT ![m] = @ + 1]
  /\ UNCHANGED <<connectedUsers, pendingMessages, groups, blacklist, conn, userID, reader, scan,
                 calls, got, sends, latest, taken, slipped>>

-----------------------------------------------------------------------------
(* The scanner                                                             *)

\* runAsynchronousThreatScan: BlacklistIP.  A scan that fails or finds nothing changes nothing.
Scan(c) ==
  /\ scan[c] = "running"
  /\ IP[c] \in Condemned
  /\ blacklist' = blacklist \cup {IP[c]}
  /\ calls' = calls \cup {<<c, IP[c]>>}
  /\ scan' = [scan EXCEPT ![c] = "node"]
  /\ UNCHANGED <<mapVars, conn, userID, reader, got, sends, pastVars>>

\* BlacklistNode, of the id the connection has by now.
ScanNode(c) ==
  LET named == {userID[c]} \ {NoUser}
  IN  /\ scan[c] = "node"
      /\ blacklist' = blacklist \cup named
      /\ calls' = calls \cup {<<c, u>> : u \in named}
      /\ scan' = [scan EXCEPT ![c] = "none"]
      /\ UNCHANGED <<mapVars, conn, userID, reader, got, sends, pastVars>>

\* (faulty: only the id is compared)
MatchesId(u, key) == connectedUsers[u] # NoConn /\ u = key

Matches(u, key) == connectedUsers[u] # NoConn /\ (u = key \/ IP[connectedUsers[u]] = key)

\* The callback of main: everybody who matches is closed and taken out, under the map's lock.
Disconnect(k) ==
  LET out == {u \in Users : Matches(u, k[2])}
  IN  /\ k \in calls
      /\ calls' = calls \ {k}
      /\ conn' = [c \in Conns |-> IF \E u \in out : connectedUsers[u] = c THEN "closed" ELSE conn[c]]
      /\ connectedUsers' = [u \in Users |-> IF u \in out THEN NoConn ELSE connectedUsers[u]]
      /\ UNCHANGED <<pendingMessages, deliveredMessageIds, groups, blacklist, userID, reader, scan,
                     got, sends, pastVars>>

Next ==
  \/ \E c \in Conns :
       \/ Upgrade(c) \/ Break(c) \/ Refuse(c) \/ Finish(c)
       \/ \E u \in Users : Register(c, u)
       \/ Name(c) \/ List(c) \/ Pop(c) \/ Flush(c)
       \/ \E g \in Groups, members \in MemberLists : GroupCreate(c, g, members)
       \/ \E m \in Msgs : Take(c, m)
       \/ Look(c) \/ Send(c) \/ Queue(c)
       \/ Scan(c) \/ ScanNode(c)
  \/ \E m \in Msgs : Cleanup(m)
  \/ \E k \in calls : Disconnect(k)

Spec == Init /\ [][Next]_vars

-----------------------------------------------------------------------------
(* Properties                                                              *)

Readers ==
  [pc : {"idle", "name", "list", "pop", "flush", "look", "send", "queue", "done"},
   user : Users \cup {NoUser}, msg : Seq(Msgs), rest : Seq(Users), to : Conns \cup {NoConn}]

\* A reader at its place has what it needs there.
ReaderOK(r, id) ==
  /\ r.pc = "name" => r.user \in Users
  /\ r.pc \in {"list", "pop", "flush"} => id \in Users
  /\ r.pc \in {"flush", "look", "send", "queue"} => r.msg # <<>>
  /\ r.pc \in {"look", "send", "queue"} => r.rest # <<>>
  /\ r.pc = "send" => r.to \in Conns

\* Every variable keeps its type, and a reader has what its place needs.
TypeOK ==
  /\ connectedUsers \in [Users -> Conns \cup {NoConn}]
  /\ pendingMessages \in [Users -> Seq(Msgs)]
  /\ deliveredMessageIds \subseteq Msgs
  /\ groups \in [Groups -> Seq(Users)]
  /\ blacklist \subseteq Users \cup Addresses
  /\ conn \in [Conns -> {"new", "open", "closed"}]
  /\ userID \in [Conns -> Users \cup {NoUser}]
  /\ reader \in [Conns -> Readers]
  /\ \A c \in Conns : ReaderOK(reader[c], userID[c])
  /\ scan \in [Conns -> {"none", "running", "node"}]
  /\ calls \subseteq Conns \X (Users \cup Addresses)
  /\ got \in [Copies -> Nat] /\ sends \in [Msgs -> Nat] /\ forgotten \in [Msgs -> Nat]
  /\ latest \in [Users -> Conns \cup {NoConn}]
  /\ taken \subseteq Users
  /\ slipped \subseteq Conns

Count(seq, x) == Cardinality({i \in DOMAIN seq : seq[i] = x})

\* The places of the copies of m for u that reader r of a connection known as id has still to
\* deal with, or to flush.
Held(r, id, m, u) ==
  {i \in DOMAIN r.rest : /\ r.pc \in {"look", "send", "queue"} /\ Head(r.msg) = m
                         /\ ~Skips(m, u) /\ r.rest[i] = u}
  \cup {i \in DOMAIN r.msg : r.pc = "flush" /\ id = u /\ r.msg[i] = m}

InHands(m, u) == UNION {{c} \X Held(reader[c], userID[c], m, u) : c \in Conns}

\* How many copies of m for u there are: queued, received, or in somebody's hands.
CopiesOf(m, u) ==
  Count(pendingMessages[u], m) + got[<<m, u>>] + Cardinality(InHands(m, u))

\* Wherever the copies of an event are, whatever registers, closes or is flushed meanwhile,
\* nobody has two: of a repeated "message" only one more for each time its id was removed; of
\* the others, which have no such check, one for each time they were sent.
MessagesOnce ==
  \A m \in Msgs, u \in Users :
    CopiesOf(m, u) <= IF HasMemory(m) THEN 1 + forgotten[m] ELSE sends[m]

\* The map leads to a connection whose reader is gone only if that connection has registered
\* under another id since.  And whoever registered last as a user is found by the relay while
\* it is connected, unless the close of an older connection took the entry or a verdict about
\* its address or id did.
EntriesLead ==
  \A u \in Users, c \in Conns :
    /\ connectedUsers[u] = c /\ reader[c].pc = "done" => userID[c] # u
    /\ latest[u] = c /\ conn[c] = "open"
         => connectedUsers[u] = c \/ u \in taken \/ {IP[c], u} \cap blacklist # {}

\* A verdict reaches every connection it is about: when no callback runs any more, whoever is
\* in the map with a blacklisted address or id was checked before and inserted after it.
VerdictHolds ==
  \A u \in Users, c \in Conns :
    connectedUsers[u] = c /\ (IP[c] \in blacklist \/ u \in blacklist) =>
      \/ c \in slipped
      \/ \E k \in calls : k[2] \in {u, IP[c]}
=============================================================================
