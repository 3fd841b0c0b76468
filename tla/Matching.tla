------------------------------ MODULE Matching ------------------------------
(***************************************************************************)
(* Anonymous matching: the handlers and timers of the Node relay           *)
(* (server/routes.ts) and the screen that drives them                      *)
(* (client/screens/MatchingScreen.tsx over client/lib/socket.ts).          *)
(*                                                                         *)
(* The relay is one event loop, so a handler is one step.  A socket        *)
(* carries requests one way and events the other, each in order, and loses *)
(* what is under way when it breaks; the client opens another one, and the *)
(* relay may notice the break of the old one later.  What matched users    *)
(* then send each other (matching:message, matching:file_share) changes    *)
(* nothing here and is left out.                                           *)
(***************************************************************************)
EXTENDS Integers, Sequences, FiniteSets

CONSTANTS
  Users,
  Sessions,      \* session ids; bound: each is generated once
  MaxSockets,    \* bound: how often the clients connect, together
  MaxUnderWay,   \* bound: a client sends while fewer requests and events are under way to and from it
  NoSocket, NoSession

ASSUME MatchingAssumption ==
  /\ MaxSockets \in Nat /\ MaxUnderWay \in Nat
  /\ NoSocket \notin Users \X (1..MaxSockets)
  /\ NoSession \notin Sessions

Sockets == Users \X (1..MaxSockets)

User(s) == s[1]

VARIABLES
  connectedUsers,  \* connectedUsers[u]: the socket u registered on last
  matchingQueue,   \* matchingQueue[u]: the socket of u's entry
  matchSessions,   \* matchSessions[i]: the set of it, if it is there
  userToSession,   \* userToSession[u]
  aged,            \* the sessions and queued users whose joinedAt is long past
  used,            \* the session ids that were generated
  link,            \* link[s]: "new", "up", "broken" (unnoticed by the relay), "closed"
  requests,        \* requests[s]: what the relay has still to handle
  events,          \* events[s]: what the client has still to receive
  current,         \* current[u]: the number of u's socket, 0 before the first
  greeting,        \* the clients whose connect handler has still to register
  status,          \* status[u]: MatchStatus of the screen
  sessionId,       \* sessionId[u]: the session the screen is about
  pressed          \* history: pressed[i], the users who pressed Connect for it

serverVars == <<connectedUsers, matchingQueue, matchSessions, userToSession, aged, used>>
matchVars  == <<matchingQueue, matchSessions, userToSession, aged, used>>
linkVars   == <<link, current, greeting>>
screenVars == <<status, sessionId, pressed>>
vars == <<connectedUsers, matchingQueue, matchSessions, userToSession, aged, used,
          link, requests, events, current, greeting, status, sessionId, pressed>>

Statuses == {"idle", "searching", "found", "waiting_partner", "connected", "declined",
             "partner_left"}

Init ==
  /\ connectedUsers = [u \in Users |-> NoSocket]
  /\ matchingQueue = [u \in Users |-> NoSocket]
  /\ matchSessions = [i \in Sessions |-> {}]
  /\ userToSession = [u \in Users |-> NoSession]
  /\ aged = {}
  /\ used = {}
  /\ link = [s \in Sockets |-> "new"]
  /\ requests = [s \in Sockets |-> <<>>]
  /\ events = [s \in Sockets |-> <<>>]
  /\ current = [u \in Users |-> 0]
  /\ greeting = {}
  /\ status = [u \in Users |-> "idle"]
  /\ sessionId = [u \in Users |-> NoSession]
  /\ pressed = [i \in Sessions |-> {}]

-----------------------------------------------------------------------------
(* Sockets                                                                 *)

SocketOf(u) == <<u, current[u]>>

Online(u) == current[u] > 0 /\ link[SocketOf(u)] = "up"

\* The client connects, or Socket.IO reconnects; register follows after an await.
Connect(u) ==
  /\ Cardinality({s \in Sockets : link[s] # "new"}) < MaxSockets
  /\ ~Online(u)
  /\ current' = [current EXCEPT ![u] = @ + 1]
  /\ link' = [link EXCEPT ![<<u, current[u] + 1>>] = "up"]
  /\ greeting' = greeting \cup {u}
  /\ UNCHANGED <<serverVars, requests, events, screenVars>>

\* The connection breaks: the client knows, the relay will notice.
Break(u) ==
  /\ Online(u)
  /\ link' = [link EXCEPT ![SocketOf(u)] = "broken"]
  /\ events' = [events EXCEPT ![SocketOf(u)] = <<>>]
  /\ UNCHANGED <<serverVars, requests, current, greeting, screenVars>>

\* A request on u's socket; emit does nothing without a connection.
Request(u, type, i) ==
  IF Online(u)
  THEN /\ Len(requests[SocketOf(u)]) + Len(events[SocketOf(u)]) < MaxUnderWay
       /\ requests' = [requests EXCEPT ![SocketOf(u)] = Append(@, <<type, i>>)]
  ELSE UNCHANGED requests

\* The connect handler goes on after getActiveGroups.
SendRegister(u) ==
  /\ u \in greeting
  /\ Online(u)
  /\ Request(u, "register", NoSession)
  /\ greeting' = greeting \ {u}
  /\ UNCHANGED <<serverVars, link, events, current, screenVars>>

\* The events after the relay emits e to socket s.
Emit(table, s, e) ==
  IF s # NoSocket /\ link[s] = "up" THEN [table EXCEPT ![s] = Append(@, e)] ELSE table

Event(type) == <<type, NoSession>>

-----------------------------------------------------------------------------
(* The relay                                                               *)

Exists(i) == i \in Sessions /\ matchSessions[i] # {}

\* The one record of an existing session.
Record(i) == CHOOSE r \in matchSessions[i] : TRUE

Other(i, u) == CHOOSE v \in DOMAIN Record(i).socket : v # u

\* Both users are released and the session is deleted.
Delete(i) ==
  /\ matchSessions' = [matchSessions EXCEPT ![i] = {}]
  /\ userToSession' = [u \in Users |-> IF u \in DOMAIN Record(i).socket THEN NoSession
                                       ELSE userToSession[u]]
  /\ aged' = aged \ {i}
  /\ UNCHANGED used

Queued == {u \in Users : matchingQueue[u] # NoSocket}

\* What a request's handler has in common: s has it next.
Handling(s, type) ==
  /\ link[s] \in {"up", "broken"}
  /\ requests[s] # <<>>
  /\ Head(requests[s])[1] = type
  /\ requests' = [requests EXCEPT ![s] = Tail(@)]
  /\ UNCHANGED <<linkVars, screenVars>>

About(s) == Head(requests[s])[2]

\* "register", as far as matching depends on it.
Register(s) ==
  /\ Handling(s, "register")
  /\ connectedUsers' = [connectedUsers EXCEPT ![User(s)] = s]
  /\ UNCHANGED <<matchVars, events>>

\* "matching:start" of a user who is in a session.
StartRefused(s) ==
  /\ Handling(s, "start")
  /\ userToSession[User(s)] # NoSession
  /\ events' = Emit(events, s, Event("error"))
  /\ UNCHANGED serverVars

\* (faulty: one's own entry will do)
StartPairedWithAny(s) ==
  LET u == User(s)
  IN  /\ Handling(s, "start")
      /\ userToSession[u] = NoSession
      /\ \E v \in Queued, i \in Sessions \ used :
           /\ matchingQueue' = [matchingQueue EXCEPT ![v] = NoSocket]
           /\ matchSessions' = [matchSessions EXCEPT ![i] =
                {[socket |-> [w \in {u, v} |-> IF w = u THEN s ELSE matchingQueue[v]],
                  accepted |-> {}, connected |-> FALSE]}]
           /\ userToSession' = [userToSession EXCEPT ![u] = i, ![v] = i]
           /\ used' = used \cup {i}
           /\ aged' = aged \ {v}
           /\ events' = Emit(Emit(events, s, <<"found", i>>), matchingQueue[v], <<"found", i>>)
      /\ UNCHANGED connectedUsers

\* "matching:start" with a partner in the queue.  Any partner will do: the code takes the
\* first one, and there is never a second (QueueAgrees).
StartPaired(s) ==
  LET u == User(s)
  IN  /\ Handling(s, "start")
      /\ userToSession[u] = NoSession
      /\ \E v \in Queued \ {u}, i \in Sessions \ used :
           /\ matchingQueue' = [matchingQueue EXCEPT ![v] = NoSocket]
           /\ matchSessions' = [matchSessions EXCEPT ![i] =
                {[socket |-> [w \in {u, v} |-> IF w = u THEN s ELSE matchingQueue[v]],
                  accepted |-> {}, connected |-> FALSE]}]
           /\ userToSession' = [userToSession EXCEPT ![u] = i, ![v] = i]
           /\ used' = used \cup {i}
           /\ aged' = aged \ {v}
           /\ events' = Emit(Emit(events, s, <<"found", i>>), matchingQueue[v], <<"found", i>>)
      /\ UNCHANGED connectedUsers

\* "matching:start" with nobody there: queued, or queued anew.
StartQueued(s) ==
  LET u == User(s)
  IN  /\ Handling(s, "start")
      /\ userToSession[u] = NoSession
      /\ Queued \ {u} = {}
      /\ matchingQueue' = [matchingQueue EXCEPT ![u] = s]
      /\ aged' = aged \ {u}
      /\ events' = Emit(events, s, Event("queued"))
      /\ UNCHANGED <<connectedUsers, matchSessions, userToSession, used>>

\* "matching:cancel"
Cancel(s) ==
  /\ Handling(s, "cancel")
  /\ matchingQueue' = [matchingQueue EXCEPT ![User(s)] = NoSocket]
  /\ aged' = aged \ {User(s)}
  /\ events' = Emit(events, s, Event("cancelled"))
  /\ UNCHANGED <<connectedUsers, matchSessions, userToSession, used>>

\* "matching:accept", "matching:decline" or "matching:end_session" of a session that is gone.
TooLate(s) ==
  /\ \E type \in {"accept", "decline", "end"} : Handling(s, type)
  /\ ~Exists(About(s))
  /\ UNCHANGED <<serverVars, events>>

\* (faulty: the first one to accept connects both)
AcceptAlone(s) ==
  LET i == About(s)
      sockets == Record(i).socket
      other == Other(i, User(s))
  IN  /\ Handling(s, "accept")
      /\ Exists(i)
      /\ matchSessions' = [matchSessions EXCEPT ![i] =
           {[Record(i) EXCEPT !.accepted = @ \cup {User(s)}, !.connected = TRUE]}]
      /\ events' = Emit(Emit(events, sockets[User(s)], <<"connected", i>>),
                        sockets[other], <<"connected", i>>)
      /\ UNCHANGED <<connectedUsers, matchingQueue, userToSession, aged, used>>

\* "matching:accept"
Accept(s) ==
  LET i == About(s)
      accepted == Record(i).accepted \cup {User(s)}
      sockets == Record(i).socket
      other == Other(i, User(s))
  IN  /\ Handling(s, "accept")
      /\ Exists(i)
      /\ matchSessions' = [matchSessions EXCEPT ![i] =
           {[Record(i) EXCEPT !.accepted = accepted,
                              !.connected = @ \/ Cardinality(accepted) >= 2]}]
      /\ events' =
           IF Cardinality(accepted) >= 2
           THEN Emit(Emit(events, sockets[User(s)], <<"connected", i>>),
                     sockets[other], <<"connected", i>>)
           ELSE Emit(events, sockets[other], Event("partner_accepted"))
      /\ UNCHANGED <<connectedUsers, matchingQueue, userToSession, aged, used>>

\* (faulty: the other one is not told)
DeclineSilently(s) ==
  LET i == About(s)
  IN  /\ Handling(s, "decline")
      /\ Exists(i)
      /\ Delete(i)
      /\ events' = Emit(events, s, Event("declined_by_you"))
      /\ UNCHANGED <<connectedUsers, matchingQueue>>

\* "matching:decline"
Decline(s) ==
  LET i == About(s)
  IN  /\ Handling(s, "decline")
      /\ Exists(i)
      /\ Delete(i)
      /\ events' = Emit(Emit(events, Record(i).socket[Other(i, User(s))], Event("declined")),
                        s, Event("declined_by_you"))
      /\ UNCHANGED <<connectedUsers, matchingQueue>>

\* "matching:end_session"
EndSession(s) ==
  LET i == About(s)
  IN  /\ Handling(s, "end")
      /\ Exists(i)
      /\ Delete(i)
      /\ events' = Emit(Emit(events, Record(i).socket[Other(i, User(s))], Event("session_ended")),
                        s, Event("session_ended"))
      /\ UNCHANGED <<connectedUsers, matchingQueue>>

\* "disconnect" of a socket somebody has registered on, and still has.
Disconnect(s) ==
  LET u == User(s)
      i == userToSession[u]
  IN  /\ link[s] = "broken"
      /\ connectedUsers[u] = s
      /\ link' = [link EXCEPT ![s] = "closed"]
      /\ requests' = [requests EXCEPT ![s] = <<>>]
      /\ connectedUsers' = [connectedUsers EXCEPT ![u] = NoSocket]
      /\ matchingQueue' = [matchingQueue EXCEPT ![u] = NoSocket]
      /\ IF Exists(i)
         THEN /\ matchSessions' = [matchSessions EXCEPT ![i] = {}]
              /\ userToSession' = [userToSession EXCEPT ![u] = NoSession,
                                                        ![Other(i, u)] = NoSession]
              /\ events' = Emit(events, connectedUsers[Other(i, u)], Event("partner_left"))
         ELSE UNCHANGED <<matchSessions, userToSession, events>>
      /\ aged' = aged \ {u, i}
      /\ UNCHANGED <<used, current, greeting, screenVars>>

\* "disconnect" of any other socket: the queue and the sessions keep it.
DisconnectUnlisted(s) ==
  /\ link[s] = "broken"
  /\ connectedUsers[User(s)] # s
  /\ link' = [link EXCEPT ![s] = "closed"]
  /\ requests' = [requests EXCEPT ![s] = <<>>]
  /\ UNCHANGED <<serverVars, events, current, greeting, screenVars>>

\* Ten minutes after its begin for a session, five for an entry of the queue.
Age(x) ==
  /\ x \notin aged
  /\ (x \in Sessions /\ matchSessions[x] # {}) \/ x \in Queued
  /\ aged' = aged \cup {x}
  /\ UNCHANGED <<connectedUsers, matchingQueue, matchSessions, userToSession, used, linkVars,
                 requests, events, screenVars>>

\* (faulty: the sessions go, and the index of users stays)
CleanupSessionsOnly ==
  /\ matchSessions' = [i \in Sessions |-> IF i \in aged THEN {} ELSE matchSessions[i]]
  /\ matchingQueue' = [u \in Users |-> IF u \in aged THEN NoSocket ELSE matchingQueue[u]]
  /\ aged' = {}
  /\ UNCHANGED <<connectedUsers, userToSession, used, linkVars, requests, events, screenVars>>

\* The minute timer.  Nobody is told.
Cleanup ==
  /\ matchSessions' = [i \in Sessions |-> IF i \in aged THEN {} ELSE matchSessions[i]]
  /\ userToSession' = [u \in Users |-> IF userToSession[u] \in aged THEN NoSession
                                       ELSE userToSession[u]]
  /\ matchingQueue' = [u \in Users |-> IF u \in aged THEN NoSocket ELSE matchingQueue[u]]
  /\ aged' = {}
  /\ UNCHANGED <<connectedUsers, used, linkVars, requests, events, screenVars>>

-----------------------------------------------------------------------------
(* The screen                                                              *)

Show(u, st, i) ==
  /\ status' = [status EXCEPT ![u] = st]
  /\ sessionId' = [sessionId EXCEPT ![u] = i]

\* A press that sends a request and touches neither the relay nor the events.
Press(u, type, i) ==
  /\ Request(u, type, i)
  /\ UNCHANGED <<serverVars, linkVars, events>>

\* handleStart
PressStart(u) ==
  /\ status[u] = "idle"
  /\ Online(u)
  /\ Press(u, "start", NoSession)
  /\ Show(u, "searching", sessionId[u])
  /\ UNCHANGED pressed

\* handleCancel
PressCancel(u) ==
  /\ status[u] = "searching"
  /\ Press(u, "cancel", NoSession)
  /\ Show(u, "idle", sessionId[u])
  /\ UNCHANGED pressed

\* handleAccept: the button is there while the status is "found".
PressAccept(u) ==
  /\ status[u] = "found"
  /\ Press(u, "accept", sessionId[u])
  /\ Show(u, "waiting_partner", sessionId[u])
  /\ pressed' = [pressed EXCEPT ![sessionId[u]] = @ \cup {u}]

\* handleDecline
PressDecline(u) ==
  /\ status[u] = "found"
  /\ Press(u, "decline", sessionId[u])
  /\ Show(u, "declined", NoSession)
  /\ UNCHANGED pressed

\* handleEndSession
PressEnd(u) ==
  /\ status[u] = "connected"
  /\ Press(u, "end", sessionId[u])
  /\ Show(u, "idle", NoSession)
  /\ UNCHANGED pressed

\* "Try Again" and its like
PressAgain(u) ==
  /\ status[u] \in {"declined", "partner_left"}
  /\ Show(u, "idle", sessionId[u])
  /\ UNCHANGED <<serverVars, linkVars, requests, events, pressed>>

\* What onMatchingEvent makes of an event: status and session.
After(u, e) ==
  CASE e[1] = "queued"           -> <<"searching", sessionId[u]>>
    [] e[1] = "found"            -> <<"found", e[2]>>
    [] e[1] = "partner_accepted" -> <<"waiting_partner", sessionId[u]>>
    [] e[1] = "connected"        -> <<"connected", e[2]>>
    [] e[1] \in {"declined", "declined_by_you"}   -> <<"declined", NoSession>>
    [] e[1] \in {"partner_left", "session_ended"} -> <<"partner_left", NoSession>>
    [] e[1] \in {"cancelled", "error"}            -> <<"idle", sessionId[u]>>

Receive(u) ==
  /\ Online(u)
  /\ events[SocketOf(u)] # <<>>
  /\ LET after == After(u, Head(events[SocketOf(u)]))
     IN  Show(u, after[1], after[2])
  /\ events' = [events EXCEPT ![SocketOf(u)] = Tail(@)]
  /\ UNCHANGED <<serverVars, linkVars, requests, pressed>>

Handle(s) ==
  \/ Register(s)
  \/ StartRefused(s) \/ StartPaired(s) \/ StartQueued(s) \/ Cancel(s)
  \/ TooLate(s) \/ Accept(s) \/ Decline(s) \/ EndSession(s)

Next ==
  \/ \E s \in Sockets : Handle(s) \/ Disconnect(s) \/ DisconnectUnlisted(s)
  \/ \E u \in Users :
       \/ Connect(u) \/ Break(u) \/ SendRegister(u) \/ Receive(u)
       \/ PressStart(u) \/ PressCancel(u) \/ PressAccept(u) \/ PressDecline(u)
       \/ PressEnd(u) \/ PressAgain(u)
  \/ \E x \in Sessions \cup Users : Age(x)
  \/ Cleanup

Spec == Init /\ [][Next]_vars

-----------------------------------------------------------------------------
(* Properties                                                              *)

SessionRecords(u, v) ==
  [socket : [{u, v} -> Sockets], accepted : SUBSET {u, v}, connected : BOOLEAN]

Requests == {"register", "start", "cancel", "accept", "decline", "end"} \X (Sessions \cup {NoSession})

EventTypes == {"queued", "found", "partner_accepted", "connected", "declined", "declined_by_you",
               "partner_left", "session_ended", "cancelled", "error"}

\* Every variable has its shape; a session is one record, of two users.
TypeOK ==
  /\ connectedUsers \in [Users -> Sockets \cup {NoSocket}]
  /\ matchingQueue \in [Users -> Sockets \cup {NoSocket}]
  /\ \A i \in Sessions :
       Exists(i) => \E u, v \in Users : /\ u # v
                                        /\ \E r \in SessionRecords(u, v) : matchSessions[i] = {r}
  /\ userToSession \in [Users -> Sessions \cup {NoSession}]
  /\ aged \subseteq Sessions \cup Users
  /\ used \subseteq Sessions
  /\ link \in [Sockets -> {"new", "up", "broken", "closed"}]
  /\ \A s \in Sockets : requests[s] \in Seq(Requests)
  /\ \A s \in Sockets : events[s] \in Seq(EventTypes \X (Sessions \cup {NoSession}))
  /\ current \in [Users -> 0..MaxSockets]
  /\ greeting \subseteq Users
  /\ status \in [Users -> Statuses]
  /\ sessionId \in [Users -> Sessions \cup {NoSession}]
  /\ pressed \in [Sessions -> SUBSET Users]

\* The index of users and the sessions agree: whoever is sent to a session is one of its two
\* users, and both of its users are sent to it.  So nobody is in two sessions, and nobody is
\* refused for a session that is gone.
IndexAgrees ==
  \A u \in Users, i \in Sessions :
    userToSession[u] = i <=> Exists(i) /\ u \in DOMAIN Record(i).socket

\* At most one user waits, and whoever waits is in no session.
QueueAgrees ==
  /\ \A u, v \in Queued : u = v
  /\ \A u \in Queued : userToSession[u] = NoSession

\* The relay's three maps agree, whatever the order of the six handlers, the disconnects and
\* the timer that change them.
MapsAgree == IndexAgrees /\ QueueAgrees

\* A session connects two users only if both pressed Connect, whatever screens were shown old
\* events, pressed late, reconnected or pressed for an earlier session.
ConnectedByBoth ==
  \A i \in Sessions :
    Exists(i) /\ Record(i).connected => DOMAIN Record(i).socket \subseteq pressed[i]

\* Whoever's step ends a session before the timer does, each user who still has the connection
\* the session was found on, and is registered on it, is sent an event about it: no screen
\* stays with a partner the relay has dropped.
EndsAreTold ==
  [][\A i \in Sessions, u \in Users :
       (/\ Exists(i) /\ ~Exists(i)' /\ i \notin aged
        /\ u \in DOMAIN Record(i).socket
        /\ link[Record(i).socket[u]] = "up"
        /\ connectedUsers[u] = Record(i).socket[u])
       => events'[Record(i).socket[u]] # events[Record(i).socket[u]]]_vars

\* A user whose screen says of a match "Waiting for partner to accept..." has accepted it.
WaitsAfterAccepting ==
  \A u \in Users :
    status[u] = "waiting_partner" /\ sessionId[u] # NoSession => u \in pressed[sessionId[u]]
=============================================================================
