-------------------------- MODULE Matching_proofs --------------------------
(***************************************************************************)
(* Theorems about Matching, for any sets of users and session ids, any     *)
(* number of sockets and any number of requests and events under way.      *)
(***************************************************************************)
EXTENDS Matching, FiniteSetTheorems, TLAPS

-----------------------------------------------------------------------------
(* Sockets, records and events                                             *)

\* The events of the relay: of a session, or of none.
Events == EventTypes \X (Sessions \cup {NoSession})

\* The records of sessions: of two users, each with a socket of its own.
IsRecord(r) ==
  \E u, v \in Users : /\ u # v
                      /\ r \in SessionRecords(u, v)
                      /\ User(r.socket[u]) = u /\ User(r.socket[v]) = v

\* A socket is its user and its number.
LEMMA SocketPairs ==
  /\ \A s \in Sockets : User(s) \in Users /\ s[2] \in 1..MaxSockets /\ s = <<User(s), s[2]>>
  /\ \A u \in Users, n \in 1..MaxSockets : <<u, n>> \in Sockets
  /\ \A u, n : User(<<u, n>>) = u /\ <<u, n>>[2] = n
  /\ NoSocket \notin Sockets
BY MatchingAssumption DEF Sockets, User

\* A set of two elements has the cardinality 2, and a subset of it that has two elements too
\* is all of it.
LEMMA Pairs ==
  ASSUME NEW a, NEW b
  PROVE  /\ IsFiniteSet({a, b})
         /\ Cardinality({a, b}) = 2 <=> a # b
         /\ \A A \in SUBSET {a, b} : Cardinality(A) >= 2 => A = {a, b}
<1>1. /\ IsFiniteSet({a}) /\ Cardinality({a}) = 1
      /\ IsFiniteSet({b}) /\ Cardinality({b}) = 1
      /\ Cardinality({}) = 0
  BY FS_Singleton, FS_EmptySet
<1>2. /\ IsFiniteSet({a} \cup {b})
      /\ Cardinality({a} \cup {b}) = IF b \in {a} THEN Cardinality({a}) ELSE Cardinality({a}) + 1
  BY <1>1, FS_AddElement
<1>3. {a} \cup {b} = {a, b}
  OBVIOUS
<1>4. Cardinality({a, b}) = 2 <=> a # b
  BY <1>1, <1>2, <1>3
<1>5. ASSUME NEW A \in SUBSET {a, b}, A # {a, b} PROVE ~ (Cardinality(A) >= 2)
  <2>1. A = {} \/ A = {a} \/ A = {b}
    BY <1>5
  <2> QED
    BY <1>1, <2>1
<1> QED
  BY <1>2, <1>3, <1>4, <1>5

\* What a record is made of.
LEMMA RecordShape ==
  ASSUME NEW r, IsRecord(r)
  PROVE  /\ DOMAIN r.socket \subseteq Users
         /\ \A w \in DOMAIN r.socket : r.socket[w] \in Sockets /\ User(r.socket[w]) = w
         /\ \E u, v \in Users : u # v /\ DOMAIN r.socket = {u, v}
         /\ r.accepted \subseteq DOMAIN r.socket
         /\ r.connected \in BOOLEAN
         /\ r = [socket |-> r.socket, accepted |-> r.accepted, connected |-> r.connected]
BY DEF IsRecord, SessionRecords

\* The one record of a session, and the other one of its users.
LEMMA TheRecord ==
  ASSUME NEW i \in Sessions, NEW r, IsRecord(r), matchSessions[i] = {r}
  PROVE  /\ Exists(i)
         /\ Record(i) = r
         /\ \A u \in DOMAIN r.socket : /\ Other(i, u) \in DOMAIN r.socket
                                       /\ Other(i, u) # u
                                       /\ DOMAIN r.socket = {u, Other(i, u)}
<1>1. Exists(i) /\ Record(i) = r
  BY DEF Exists, Record
<1>2. PICK a \in Users, b \in Users : a # b /\ DOMAIN r.socket = {a, b}
  BY RecordShape
<1> QED
  BY <1>1, <1>2 DEF Other

\* An emit adds the event to the socket, if that is up.
LEMMA EmitEffect ==
  ASSUME NEW table \in [Sockets -> Seq(Events)], NEW s \in Sockets \cup {NoSocket},
         NEW e \in Events
  PROVE  /\ Emit(table, s, e) \in [Sockets -> Seq(Events)]
         /\ \A t \in Sockets :
              Emit(table, s, e)[t] = IF t = s /\ link[s] = "up" THEN Append(table[t], e)
                                                                ELSE table[t]
<1>1. NoSocket \notin Sockets
  BY SocketPairs
<1>2. s \in Sockets => Append(table[s], e) \in Seq(Events)
  OBVIOUS
<1> QED
  BY <1>1, <1>2 DEF Emit

-----------------------------------------------------------------------------
(* The inductive invariant                                                 *)

\* The shape of the variables; that of the sessions is part of SessionInv.
Shape ==
  /\ connectedUsers \in [Users -> Sockets \cup {NoSocket}]
  /\ matchingQueue \in [Users -> Sockets \cup {NoSocket}]
  /\ DOMAIN matchSessions = Sessions
  /\ userToSession \in [Users -> Sessions \cup {NoSession}]
  /\ aged \subseteq Sessions \cup Users
  /\ used \subseteq Sessions
  /\ link \in [Sockets -> {"new", "up", "broken", "closed"}]
  /\ requests \in [Sockets -> Seq(Requests)]
  /\ events \in [Sockets -> Seq(Events)]
  /\ current \in [Users -> 0..MaxSockets]
  /\ greeting \subseteq Users
  /\ status \in [Users -> Statuses]
  /\ sessionId \in [Users -> Sessions \cup {NoSession}]
  /\ pressed \in [Sessions -> SUBSET Users]

\* The sockets that were opened.
Opened == {s \in Sockets : link[s] # "new"}

\* A user opens sockets in order, and only the last one may be up.
LinkInv ==
  /\ \A s \in Sockets : /\ link[s] = "new" <=> s[2] > current[User(s)]
                        /\ link[s] = "up" => s[2] = current[User(s)]
  /\ IsFiniteSet(Opened)

\* A session has one record, its id was used, and the index of users leads to it.
SessionInv ==
  /\ \A i \in Sessions :
       /\ matchSessions[i] # {} => i \in used
       /\ \A r \in matchSessions[i] : matchSessions[i] = {r} /\ IsRecord(r)
  /\ \A u \in Users, i \in Sessions :
       userToSession[u] = i <=> \E r \in matchSessions[i] : u \in DOMAIN r.socket

\* Nobody but the one who waits is in the queue, with a socket of theirs.
QueueInv ==
  /\ QueueAgrees
  /\ \A u \in Queued : User(matchingQueue[u]) = u

\* Of a session i, as far as U and M hold it: its id was used, and while it is there s belongs
\* to one of its users, and is no older than the socket the session was found on.
Knows(U, M, s, i) ==
  i \in Sessions => /\ i \in U
                    /\ \A r \in M[i] : /\ User(s) \in DOMAIN r.socket
                                       /\ r.socket[User(s)][2] <= s[2]

\* Only the users of a session hear, speak or show anything of it.
AllKnow(U, M, table) ==
  \A s \in Sockets : \A k \in DOMAIN table[s] : Knows(U, M, s, table[s][k][2])

\* They do so in what the relay has sent, in what the users have sent, and on the screens.
KnowInv ==
  /\ AllKnow(used, matchSessions, events)
  /\ AllKnow(used, matchSessions, requests)
  /\ \A u \in Users : Knows(used, matchSessions, <<u, current[u]>>, sessionId[u])

\* Whoever's acceptance is under way or recorded has pressed the button for that session.
PressInv ==
  /\ \A s \in Sockets : \A k \in DOMAIN requests[s] :
       /\ requests[s][k][1] = "accept"
       /\ requests[s][k][2] \in Sessions
       => User(s) \in pressed[requests[s][k][2]]
  /\ \A i \in Sessions : \A r \in matchSessions[i] :
       /\ r.accepted \subseteq pressed[i]
       /\ r.connected => DOMAIN r.socket \subseteq pressed[i]

\* The inductive invariant.
MatchInv == Shape /\ LinkInv /\ SessionInv /\ QueueInv /\ KnowInv /\ PressInv

\* MatchInv is stronger than the properties.
LEMMA MatchInvSuffices ==
  ASSUME MatchInv
  PROVE  TypeOK /\ MapsAgree /\ ConnectedByBoth
<1>1. TypeOK
  <2>1. ASSUME NEW i \in Sessions, Exists(i)
        PROVE  \E u, v \in Users : /\ u # v
                                   /\ \E r \in SessionRecords(u, v) : matchSessions[i] = {r}
    <3>1. PICK r : matchSessions[i] = {r} /\ IsRecord(r)
      BY <2>1 DEF MatchInv, SessionInv, Exists
    <3> QED
      BY <3>1 DEF IsRecord
  <2> QED
    BY <2>1 DEF MatchInv, Shape, TypeOK, Events
<1>2. ASSUME NEW i \in Sessions
      PROVE  \A r \in matchSessions[i] : matchSessions[i] = {r} /\ Exists(i) /\ Record(i) = r
  BY TheRecord DEF MatchInv, SessionInv
<1>3. MapsAgree
  BY <1>2 DEF MatchInv, SessionInv, QueueInv, MapsAgree, IndexAgrees, Exists
<1>4. ConnectedByBoth
  BY <1>2 DEF MatchInv, PressInv, ConnectedByBoth, Exists
<1> QED
  BY <1>1, <1>3, <1>4

\* MatchInv before the first step.
LEMMA MatchInitially == Init => MatchInv
<1> SUFFICES ASSUME Init PROVE MatchInv
  OBVIOUS
<1> USE DEF Init
<1>1. Shape
  BY MatchingAssumption DEF Shape, Statuses
<1>2. LinkInv
  <2>1. Opened = {}
    BY DEF Opened
  <2>2. \A s \in Sockets : User(s) \in Users /\ s[2] \in 1..MaxSockets
    BY SocketPairs
  <2> QED
    BY <2>1, <2>2, FS_EmptySet DEF LinkInv
<1>3. SessionInv
  BY MatchingAssumption DEF SessionInv
<1>4. QueueInv
  BY DEF QueueInv, QueueAgrees, Queued
<1>5. KnowInv
  BY MatchingAssumption DEF KnowInv, AllKnow, Knows
<1>6. PressInv
  BY DEF PressInv
<1> QED
  BY <1>1, <1>2, <1>3, <1>4, <1>5, <1>6 DEF MatchInv

-----------------------------------------------------------------------------
(* The sessions                                                            *)

\* What a handler has in hand, and what it leaves of the requests.
LEMMA HandlingFacts ==
  ASSUME MatchInv, NEW s \in Sockets, NEW type, Handling(s, type)
  PROVE  /\ About(s) \in Sessions \cup {NoSession}
         /\ Knows(used, matchSessions, s, About(s))
         /\ type = "accept" /\ About(s) \in Sessions => User(s) \in pressed[About(s)]
         /\ link[s] \in {"up", "broken"}
         /\ requests' \in [Sockets -> Seq(Requests)]
         /\ \A t \in Sockets : \A k \in DOMAIN requests'[t] :
              \E j \in DOMAIN requests[t] : requests'[t][k] = requests[t][j]
<1>1. /\ requests \in [Sockets -> Seq(Requests)]
      /\ requests[s] # <<>>
      /\ Head(requests[s])[1] = type
      /\ requests' = [requests EXCEPT ![s] = Tail(@)]
      /\ link[s] \in {"up", "broken"}
  BY DEF MatchInv, Shape, Handling
<1>2. /\ requests[s] \in Seq(Requests)
      /\ 1 \in DOMAIN requests[s]
      /\ requests[s][1] = Head(requests[s])
      /\ Head(requests[s]) \in Requests
      /\ Tail(requests[s]) \in Seq(Requests)
      /\ \A k \in DOMAIN Tail(requests[s]) : /\ k + 1 \in DOMAIN requests[s]
                                             /\ Tail(requests[s])[k] = requests[s][k + 1]
  BY <1>1
<1>3. About(s) = requests[s][1][2] /\ type = requests[s][1][1]
  BY <1>1, <1>2 DEF About
<1>4. About(s) \in Sessions \cup {NoSession}
  BY <1>2, <1>3 DEF Requests
<1>5. Knows(used, matchSessions, s, About(s))
  BY <1>2, <1>3 DEF MatchInv, KnowInv, AllKnow
<1>6. type = "accept" /\ About(s) \in Sessions => User(s) \in pressed[About(s)]
  BY <1>2, <1>3 DEF MatchInv, PressInv
<1>7. requests' \in [Sockets -> Seq(Requests)]
  BY <1>1, <1>2
<1>8. ASSUME NEW t \in Sockets, NEW k \in DOMAIN requests'[t]
      PROVE  \E j \in DOMAIN requests[t] : requests'[t][k] = requests[t][j]
  BY <1>1, <1>2
<1> QED
  BY <1>1, <1>4, <1>5, <1>6, <1>7, <1>8

\* A session a handler is about, its record and its users.
LEMMA InHand ==
  ASSUME MatchInv, NEW s \in Sockets, NEW type, Handling(s, type), Exists(About(s))
  PROVE  \E r : /\ IsRecord(r)
                /\ matchSessions[About(s)] = {r}
                /\ Record(About(s)) = r
                /\ User(s) \in DOMAIN r.socket
                /\ r.socket[User(s)][2] <= s[2]
                /\ Other(About(s), User(s)) \in DOMAIN r.socket
                /\ Other(About(s), User(s)) # User(s)
                /\ DOMAIN r.socket = {User(s), Other(About(s), User(s))}
                /\ \A u \in Users : userToSession[u] = About(s) <=> u \in DOMAIN r.socket
<1>1. About(s) \in Sessions /\ Knows(used, matchSessions, s, About(s))
  BY HandlingFacts DEF Exists
<1>2. PICK r : matchSessions[About(s)] = {r} /\ IsRecord(r)
  BY <1>1 DEF MatchInv, SessionInv, Exists
<1>3. User(s) \in DOMAIN r.socket /\ r.socket[User(s)][2] <= s[2]
  BY <1>1, <1>2 DEF Knows
<1>4. \A u \in Users : userToSession[u] = About(s) <=> u \in DOMAIN r.socket
  BY <1>1, <1>2 DEF MatchInv, SessionInv
<1> QED
  BY <1>1, <1>2, <1>3, <1>4, TheRecord

\* The sessions of D end.
Ended(D) ==
  /\ DOMAIN matchSessions' = Sessions
  /\ \A i \in Sessions : matchSessions'[i] = IF i \in D THEN {} ELSE matchSessions[i]
  /\ userToSession' = [u \in Users |-> IF userToSession[u] \in D THEN NoSession
                                       ELSE userToSession[u]]
  /\ used' = used

\* Whatever ends sessions takes their records and their index entries together.
LEMMA EndStep ==
  ASSUME MatchInv,
         (\E s \in Sockets : Decline(s) \/ EndSession(s) \/ Disconnect(s)) \/ Cleanup
  PROVE  \E D \in SUBSET Sessions : Ended(D)
<1>1. /\ DOMAIN matchSessions = Sessions
      /\ userToSession \in [Users -> Sessions \cup {NoSession}]
      /\ NoSession \notin Sessions
  BY MatchingAssumption DEF MatchInv, Shape
<1>2. ASSUME NEW s \in Sockets, Decline(s) \/ EndSession(s) PROVE Ended({About(s)})
  <2>1. /\ Handling(s, "decline") \/ Handling(s, "end")
        /\ Exists(About(s))
        /\ Delete(About(s))
    BY <1>2 DEF Decline, EndSession
  <2>2. PICK r : /\ Record(About(s)) = r
                 /\ \A u \in Users : userToSession[u] = About(s) <=> u \in DOMAIN r.socket
    BY <2>1, InHand
  <2> QED
    BY <1>1, <2>1, <2>2 DEF Delete, Ended
<1>3. ASSUME NEW s \in Sockets, Disconnect(s) PROVE \E D \in SUBSET Sessions : Ended(D)
  <2> DEFINE u == User(s)
             i == userToSession[u]
  <2>1. u \in Users
    BY SocketPairs
  <2>2. CASE ~Exists(i)
    <3>1. UNCHANGED <<matchSessions, userToSession, used>>
      BY <1>3, <2>2 DEF Disconnect
    <3>2. userToSession = [v \in Users |-> userToSession[v]]
      BY <1>1
    <3>3. Ended({})
      BY <1>1, <3>1, <3>2 DEF Ended
    <3> QED
      BY <3>3
  <2>3. CASE Exists(i)
    <3>1. i \in Sessions
      BY <2>3 DEF Exists
    <3>2. PICK r : /\ matchSessions[i] = {r} /\ IsRecord(r)
                   /\ \A v \in Users : userToSession[v] = i <=> v \in DOMAIN r.socket
      BY <2>3, <3>1 DEF MatchInv, SessionInv, Exists
    <3>3. u \in DOMAIN r.socket
      BY <2>1, <3>2
    <3>4. DOMAIN r.socket = {u, Other(i, u)} /\ DOMAIN r.socket \subseteq Users
      BY <3>1, <3>2, <3>3, TheRecord, RecordShape
    <3>5. /\ matchSessions' = [matchSessions EXCEPT ![i] = {}]
          /\ userToSession' = [userToSession EXCEPT ![u] = NoSession, ![Other(i, u)] = NoSession]
          /\ used' = used
      BY <1>3, <2>3 DEF Disconnect
    <3>6. Ended({i})
      <4> HIDE DEF u, i
      <4> QED
        BY <1>1, <3>1, <3>2, <3>4, <3>5 DEF Ended
    <3> QED
      BY <3>1, <3>6
  <2> QED
    BY <2>2, <2>3
<1>4. ASSUME Cleanup PROVE Ended(aged \cap Sessions)
  BY <1>1, <1>4 DEF Cleanup, Ended
<1> QED
  BY <1>2, <1>3, <1>4, HandlingFacts DEF Decline, EndSession, Exists

\* What a step may do to the sessions: nothing, end some, begin one, or record an acceptance.
LEMMA SessionStep ==
  ASSUME MatchInv, [Next]_vars
  PROVE  \/ UNCHANGED <<matchSessions, userToSession, used>>
         \/ \E D \in SUBSET Sessions : Ended(D)
         \/ \E s \in Sockets : StartPaired(s) \/ Accept(s)
<1> USE DEF serverVars, matchVars, linkVars, screenVars, Press
<1>1. CASE UNCHANGED vars
  BY <1>1 DEF vars
<1>2. ASSUME NEW s \in Sockets, Handle(s) \/ DisconnectUnlisted(s),
             ~ (StartPaired(s) \/ Accept(s) \/ Decline(s) \/ EndSession(s))
      PROVE  UNCHANGED <<matchSessions, userToSession, used>>
  BY <1>2 DEF Handle, DisconnectUnlisted, Register, StartRefused, StartQueued, Cancel, TooLate
<1>3. ASSUME NEW u \in Users,
             \/ Connect(u) \/ Break(u) \/ SendRegister(u) \/ Receive(u)
             \/ PressStart(u) \/ PressCancel(u) \/ PressAccept(u) \/ PressDecline(u)
             \/ PressEnd(u) \/ PressAgain(u)
      PROVE  UNCHANGED <<matchSessions, userToSession, used>>
  BY <1>3 DEF Connect, Break, SendRegister, Receive, PressStart, PressCancel, PressAccept,
              PressDecline, PressEnd, PressAgain
<1>4. ASSUME NEW x \in Sessions \cup Users, Age(x)
      PROVE  UNCHANGED <<matchSessions, userToSession, used>>
  BY <1>4 DEF Age
<1>5. CASE (\E s \in Sockets : Decline(s) \/ EndSession(s) \/ Disconnect(s)) \/ Cleanup
  BY <1>5, EndStep
<1> QED
  BY <1>1, <1>2, <1>3, <1>4, <1>5 DEF Next, Handle

\* Beginning a session, in full.
Begun(s, v, i) ==
  /\ v \in Queued \ {User(s)}
  /\ i \in Sessions \ used
  /\ matchingQueue' = [matchingQueue EXCEPT ![v] = NoSocket]
  /\ matchSessions' = [matchSessions EXCEPT ![i] =
       {[socket |-> [w \in {User(s), v} |-> IF w = User(s) THEN s ELSE matchingQueue[v]],
         accepted |-> {}, connected |-> FALSE]}]
  /\ userToSession' = [userToSession EXCEPT ![User(s)] = i, ![v] = i]
  /\ used' = used \cup {i}
  /\ aged' = aged \ {v}
  /\ events' = Emit(Emit(events, s, <<"found", i>>), matchingQueue[v], <<"found", i>>)

\* The same, with what it rests on and the record it writes.
Begins(s, v, i, r) ==
  /\ Begun(s, v, i)
  /\ User(s) \in Users /\ v # User(s)
  /\ matchingQueue[v] \in Sockets /\ User(matchingQueue[v]) = v
  /\ userToSession[User(s)] = NoSession /\ userToSession[v] = NoSession
  /\ matchSessions[i] = {}
  /\ matchSessions' = [matchSessions EXCEPT ![i] = {r}]
  /\ IsRecord(r)
  /\ DOMAIN r.socket = {User(s), v}
  /\ r.socket[User(s)] = s /\ r.socket[v] = matchingQueue[v]
  /\ r.accepted = {} /\ r.connected = FALSE

\* A pairing begins a session of the caller and the one who waited.
LEMMA Beginning ==
  ASSUME MatchInv, NEW s \in Sockets, StartPaired(s)
  PROVE  \E v \in Users, i \in Sessions : \E r : Begins(s, v, i, r)
<1>1. User(s) \in Users
  BY SocketPairs
<1>2. userToSession[User(s)] = NoSession
  BY DEF StartPaired
<1>3. PICK v \in Queued \ {User(s)}, i \in Sessions \ used : Begun(s, v, i)
  BY DEF StartPaired, Begun
<1>4. /\ v \in Users /\ v # User(s) /\ matchingQueue[v] \in Sockets
      /\ User(matchingQueue[v]) = v
      /\ userToSession[v] = NoSession
      /\ matchSessions[i] = {}
  BY <1>3 DEF MatchInv, Shape, SessionInv, QueueInv, QueueAgrees, Queued
<1> DEFINE f == [w \in {User(s), v} |-> IF w = User(s) THEN s ELSE matchingQueue[v]]
           r == [socket |-> f, accepted |-> {}, connected |-> FALSE]
<1>5. /\ f \in [{User(s), v} -> Sockets]
      /\ f[User(s)] = s /\ f[v] = matchingQueue[v]
  BY <1>4
<1>6. matchSessions' = [matchSessions EXCEPT ![i] = {r}]
  BY <1>3 DEF Begun
<1>7. DOMAIN f = {User(s), v}
  OBVIOUS
<1> HIDE DEF f
<1>8. IsRecord(r)
  <2>1. r \in SessionRecords(User(s), v)
    BY <1>5 DEF SessionRecords
  <2> QED
    BY <1>1, <1>4, <1>5, <2>1 DEF IsRecord
<1>9. r.socket = f /\ r.accepted = {} /\ r.connected = FALSE
  OBVIOUS
<1> HIDE DEF r
<1>10. Begins(s, v, i, r)
  BY <1>1, <1>2, <1>3, <1>4, <1>5, <1>6, <1>7, <1>8, <1>9 DEF Begins
<1> QED
  BY <1>3, <1>4, <1>10

\* Recording an acceptance, in full.
LEMMA Accepting ==
  ASSUME MatchInv, NEW s \in Sockets, Accept(s)
  PROVE  /\ UNCHANGED <<connectedUsers, matchingQueue, userToSession, aged, used>>
         /\ \E i \in Sessions : \E r, n :
              /\ i = About(s)
              /\ matchSessions[i] = {r} /\ IsRecord(r) /\ Record(i) = r
              /\ matchSessions' = [matchSessions EXCEPT ![i] = {n}] /\ IsRecord(n)
              /\ User(s) \in DOMAIN r.socket
              /\ User(s) \in pressed[i]
              /\ n.socket = r.socket
              /\ n.accepted = r.accepted \cup {User(s)}
              /\ n.connected = (r.connected \/ Cardinality(n.accepted) >= 2)
              /\ n.connected => r.connected \/ n.accepted = DOMAIN r.socket
<1> DEFINE i == About(s)
<1>1. Handling(s, "accept") /\ Exists(i) /\ i \in Sessions
  BY DEF Accept, Exists
<1>2. PICK r : /\ IsRecord(r) /\ matchSessions[i] = {r} /\ Record(i) = r
               /\ User(s) \in DOMAIN r.socket
  BY <1>1, InHand
<1>3. User(s) \in pressed[i]
  BY <1>1, HandlingFacts
<1> DEFINE A == r.accepted \cup {User(s)}
           n == [r EXCEPT !.accepted = A, !.connected = @ \/ Cardinality(A) >= 2]
<1>4. /\ UNCHANGED <<connectedUsers, matchingQueue, userToSession, aged, used>>
      /\ matchSessions' = [matchSessions EXCEPT ![i] = {n}]
  BY <1>2 DEF Accept
<1>5. PICK u \in Users, v \in Users :
        /\ u # v
        /\ r \in SessionRecords(u, v)
        /\ User(r.socket[u]) = u /\ User(r.socket[v]) = v
  BY <1>2 DEF IsRecord
<1>6. DOMAIN r.socket = {u, v} /\ A \in SUBSET {u, v} /\ r.connected \in BOOLEAN
  BY <1>2, <1>5 DEF SessionRecords
<1>7. Cardinality(A) >= 2 => A = DOMAIN r.socket
  <2>1. \A B \in SUBSET {u, v} : Cardinality(B) >= 2 => B = {u, v}
    BY Pairs
  <2> QED
    BY <1>6, <2>1
<1> HIDE DEF i, A
<1>8. /\ n.socket = r.socket /\ n.accepted = A
      /\ n.connected = (r.connected \/ Cardinality(A) >= 2)
      /\ n \in SessionRecords(u, v)
  BY <1>5, <1>6 DEF SessionRecords
<1> HIDE DEF n
<1>9. IsRecord(n)
  BY <1>5, <1>8 DEF IsRecord
<1>10. n.connected => r.connected \/ n.accepted = DOMAIN r.socket
  BY <1>7, <1>8
<1> QED
  BY <1>1, <1>2, <1>3, <1>4, <1>8, <1>9, <1>10 DEF A, i

\* SessionInv is inductive.
LEMMA SessionInvStep ==
  ASSUME MatchInv, [Next]_vars
  PROVE  /\ SessionInv'
         /\ DOMAIN matchSessions' = Sessions
         /\ userToSession' \in [Users -> Sessions \cup {NoSession}]
         /\ used' \subseteq Sessions
<1>1. /\ DOMAIN matchSessions = Sessions
      /\ userToSession \in [Users -> Sessions \cup {NoSession}]
      /\ used \subseteq Sessions
      /\ NoSession \notin Sessions
      /\ SessionInv
  BY MatchingAssumption DEF MatchInv, Shape
<1>2. CASE UNCHANGED <<matchSessions, userToSession, used>>
  BY <1>1, <1>2 DEF SessionInv
<1>3. ASSUME NEW D \in SUBSET Sessions, Ended(D)
      PROVE  /\ SessionInv'
             /\ DOMAIN matchSessions' = Sessions
             /\ userToSession' \in [Users -> Sessions \cup {NoSession}]
             /\ used' \subseteq Sessions
  BY <1>1, <1>3 DEF SessionInv, Ended
<1>4. ASSUME NEW s \in Sockets, StartPaired(s)
      PROVE  /\ SessionInv'
             /\ DOMAIN matchSessions' = Sessions
             /\ userToSession' \in [Users -> Sessions \cup {NoSession}]
             /\ used' \subseteq Sessions
  <2> DEFINE u == User(s)
  <2>0a. PICK v \in Users, i \in Sessions : \E r : Begins(s, v, i, r)
    BY <1>4, Beginning
  <2>0. PICK r : Begins(s, v, i, r)
    BY <2>0a
  <2>1. /\ v # u /\ u \in Users
        /\ userToSession[u] = NoSession /\ userToSession[v] = NoSession
        /\ matchSessions[i] = {}
        /\ IsRecord(r)
        /\ matchSessions' = [matchSessions EXCEPT ![i] = {r}]
        /\ DOMAIN r.socket = {u, v}
    BY <2>0 DEF Begins
  <2>2. /\ userToSession' = [userToSession EXCEPT ![u] = i, ![v] = i]
        /\ used' = used \cup {i}
        /\ i \notin used
    BY <2>0 DEF Begins, Begun
  <2> HIDE DEF u
  <2>3. /\ userToSession' \in [Users -> Sessions \cup {NoSession}]
        /\ \A w \in Users : userToSession'[w] = IF w \in {u, v} THEN i ELSE userToSession[w]
    BY <1>1, <2>1, <2>2
  <2>4. /\ DOMAIN matchSessions' = Sessions
        /\ \A j \in Sessions : matchSessions'[j] = IF j = i THEN {r} ELSE matchSessions[j]
    BY <1>1, <2>1
  <2>5. \A w \in Users : userToSession[w] # i
    BY <1>1, <2>1 DEF SessionInv
  <2>6. SessionInv'
    BY <1>1, <2>1, <2>2, <2>3, <2>4, <2>5 DEF SessionInv
  <2> QED
    BY <1>1, <2>2, <2>3, <2>4, <2>6
<1>5. ASSUME NEW s \in Sockets, Accept(s)
      PROVE  /\ SessionInv'
             /\ DOMAIN matchSessions' = Sessions
             /\ userToSession' \in [Users -> Sessions \cup {NoSession}]
             /\ used' \subseteq Sessions
  <2>1. UNCHANGED <<userToSession, used>>
    BY <1>5, Accepting
  <2>1a. PICK i \in Sessions : \E r, n :
          /\ matchSessions[i] = {r} /\ IsRecord(n) /\ n.socket = r.socket
          /\ matchSessions' = [matchSessions EXCEPT ![i] = {n}]
    BY <1>5, Accepting
  <2>2. PICK r, n :
          /\ matchSessions[i] = {r} /\ IsRecord(n) /\ n.socket = r.socket
          /\ matchSessions' = [matchSessions EXCEPT ![i] = {n}]
    BY <2>1a
  <2>3. /\ DOMAIN matchSessions' = Sessions
        /\ \A j \in Sessions : matchSessions'[j] = IF j = i THEN {n} ELSE matchSessions[j]
    BY <1>1, <2>2
  <2>4. SessionInv'
    BY <1>1, <2>1, <2>2, <2>3 DEF SessionInv
  <2> QED
    BY <1>1, <2>1, <2>3, <2>4
<1> QED
  BY <1>2, <1>3, <1>4, <1>5, SessionStep

-----------------------------------------------------------------------------
(* The queue                                                               *)

\* QueueInv holds if users leave the queue or a session, and none enters.
LEMMA QueueShrinks ==
  ASSUME QueueInv, \A u \in Users : matchingQueue'[u] \in {matchingQueue[u], NoSocket},
         \A u \in Users : userToSession'[u] \in {userToSession[u], NoSession}
  PROVE  QueueInv'
BY DEF QueueInv, QueueAgrees, Queued

\* QueueInv is inductive.
LEMMA QueueInvStep ==
  ASSUME MatchInv, [Next]_vars
  PROVE  /\ QueueInv'
         /\ matchingQueue' \in [Users -> Sockets \cup {NoSocket}]
<1> USE DEF serverVars, matchVars, linkVars, screenVars, Press
<1>1. /\ matchingQueue \in [Users -> Sockets \cup {NoSocket}]
      /\ userToSession \in [Users -> Sessions \cup {NoSession}]
      /\ QueueInv
      /\ NoSocket \notin Sockets
  BY SocketPairs DEF MatchInv, Shape
<1>2. CASE UNCHANGED <<matchingQueue, userToSession>>
  BY <1>1, <1>2, QueueShrinks
<1>3. ASSUME NEW s \in Sockets, StartPaired(s)
      PROVE  QueueInv' /\ matchingQueue' \in [Users -> Sockets \cup {NoSocket}]
  <2>0. PICK v \in Users, i \in Sessions : \E r : Begins(s, v, i, r)
    BY <1>3, Beginning
  <2>1. PICK r : Begins(s, v, i, r)
    BY <2>0
  <2>2. v \in Queued /\ matchingQueue' = [matchingQueue EXCEPT ![v] = NoSocket]
    BY <2>1 DEF Begins, Begun
  <2>3. Queued' = {}
    BY <1>1, <2>2 DEF QueueInv, QueueAgrees, Queued
  <2> QED
    BY <1>1, <2>2, <2>3 DEF QueueInv, QueueAgrees
<1>4. ASSUME NEW s \in Sockets, StartQueued(s)
      PROVE  QueueInv' /\ matchingQueue' \in [Users -> Sockets \cup {NoSocket}]
  <2>1. User(s) \in Users
    BY SocketPairs
  <2>2. /\ matchingQueue' = [matchingQueue EXCEPT ![User(s)] = s]
        /\ userToSession' = userToSession
        /\ userToSession[User(s)] = NoSession
        /\ Queued \ {User(s)} = {}
    BY <1>4 DEF StartQueued
  <2>3. Queued' = {User(s)} /\ matchingQueue'[User(s)] = s
    BY <1>1, <2>1, <2>2 DEF Queued
  <2> QED
    BY <1>1, <2>1, <2>2, <2>3 DEF QueueInv, QueueAgrees
<1>5. ASSUME NEW s \in Sockets, Cancel(s) \/ Disconnect(s)
      PROVE  QueueInv' /\ matchingQueue' \in [Users -> Sockets \cup {NoSocket}]
  <2>1. matchingQueue' = [matchingQueue EXCEPT ![User(s)] = NoSocket]
    BY <1>5 DEF Cancel, Disconnect
  <2>2. userToSession' = userToSession \/ \E D \in SUBSET Sessions : Ended(D)
    BY <1>5, EndStep DEF Cancel
  <2>3. \A u \in Users : userToSession'[u] \in {userToSession[u], NoSession}
    BY <2>2 DEF Ended
  <2> QED
    BY <1>1, <2>1, <2>3, QueueShrinks
<1>6. CASE Cleanup
  BY <1>1, <1>6, QueueShrinks DEF Cleanup
<1>7. ASSUME NEW s \in Sockets, Decline(s) \/ EndSession(s)
      PROVE  QueueInv' /\ matchingQueue' \in [Users -> Sockets \cup {NoSocket}]
  <2>1. matchingQueue' = matchingQueue
    BY <1>7 DEF Decline, EndSession
  <2>2. \A u \in Users : userToSession'[u] \in {userToSession[u], NoSession}
    BY <1>7, EndStep DEF Ended
  <2> QED
    BY <1>1, <2>1, <2>2, QueueShrinks
<1>8. ASSUME NEW s \in Sockets, Handle(s) \/ DisconnectUnlisted(s),
             ~ (StartPaired(s) \/ StartQueued(s) \/ Cancel(s) \/ Decline(s) \/ EndSession(s))
      PROVE  UNCHANGED <<matchingQueue, userToSession>>
  BY <1>8 DEF Handle, DisconnectUnlisted, Register, StartRefused, TooLate, Accept
<1>9. ASSUME NEW u \in Users,
             \/ Connect(u) \/ Break(u) \/ SendRegister(u) \/ Receive(u)
             \/ PressStart(u) \/ PressCancel(u) \/ PressAccept(u) \/ PressDecline(u)
             \/ PressEnd(u) \/ PressAgain(u)
      PROVE  UNCHANGED <<matchingQueue, userToSession>>
  BY <1>9 DEF Connect, Break, SendRegister, Receive, PressStart, PressCancel, PressAccept,
              PressDecline, PressEnd, PressAgain
<1>10. ASSUME NEW x \in Sessions \cup Users, Age(x)
       PROVE  UNCHANGED <<matchingQueue, userToSession>>
  BY <1>10 DEF Age
<1>11. CASE UNCHANGED vars
  BY <1>2, <1>11 DEF vars
<1> QED
  BY <1>2, <1>3, <1>4, <1>5, <1>6, <1>7, <1>8, <1>9, <1>10, <1>11 DEF Next, Handle

-----------------------------------------------------------------------------
(* The sockets                                                             *)

\* The bound on the sockets together bounds the number of a user's next one.
LEMMA NextSocket ==
  ASSUME Shape, LinkInv, NEW u \in Users, Cardinality(Opened) < MaxSockets
  PROVE  <<u, current[u] + 1>> \in Sockets
<1> DEFINE n == current[u]
           f == [k \in 1..n |-> <<u, k>>]
<1>1. n \in 0..MaxSockets /\ n \in Int /\ MaxSockets \in Nat
  BY MatchingAssumption DEF Shape
<1>2. \A k \in 1..n : <<u, k>> \in Opened
  BY <1>1, SocketPairs DEF LinkInv, Opened
<1>3. f \in Injection(1..n, Opened)
  BY <1>2 DEF Injection, IsInjective
<1>4. IsFiniteSet(Opened)
  BY DEF LinkInv
<1> HIDE DEF f, n
<1>5. Cardinality(1..n) <= Cardinality(Opened)
  BY <1>3, <1>4, FS_Injection
<1>6. Cardinality(1..n) = n
  BY <1>1, FS_Interval
<1>7. Cardinality(Opened) \in Nat
  BY <1>4, FS_CardinalityType
<1>8. n + 1 \in 1..MaxSockets
  BY <1>1, <1>5, <1>6, <1>7
<1> QED
  BY <1>8, SocketPairs DEF n

\* LinkInv is inductive.
LEMMA LinkInvStep ==
  ASSUME MatchInv, [Next]_vars
  PROVE  /\ LinkInv'
         /\ link' \in [Sockets -> {"new", "up", "broken", "closed"}]
         /\ current' \in [Users -> 0..MaxSockets]
         /\ \A u \in Users : current[u] <= current'[u]
<1> DEFINE Goal == /\ LinkInv'
                   /\ link' \in [Sockets -> {"new", "up", "broken", "closed"}]
                   /\ current' \in [Users -> 0..MaxSockets]
                   /\ \A u \in Users : current[u] <= current'[u]
<1> USE DEF serverVars, matchVars, linkVars, screenVars, Press
<1>1. /\ link \in [Sockets -> {"new", "up", "broken", "closed"}]
      /\ current \in [Users -> 0..MaxSockets]
      /\ \A s \in Sockets : /\ link[s] = "new" <=> s[2] > current[User(s)]
                            /\ link[s] = "up" => s[2] = current[User(s)]
      /\ IsFiniteSet(Opened)
  BY DEF MatchInv, Shape, LinkInv
<1>2. \A u \in Users : current[u] <= current[u]
  BY <1>1, MatchingAssumption
<1>3. ASSUME UNCHANGED <<link, current>> PROVE Goal
  <2>1. Opened' = Opened
    BY <1>3 DEF Opened
  <2> QED
    BY <1>1, <1>2, <1>3, <2>1 DEF LinkInv
<1>4. ASSUME NEW s \in Sockets, NEW v \in {"broken", "closed"}, link[s] # "new",
             link' = [link EXCEPT ![s] = v], current' = current
      PROVE  Goal
  <2>1. Opened' = Opened
    BY <1>1, <1>4 DEF Opened
  <2> QED
    BY <1>1, <1>2, <1>4, <2>1 DEF LinkInv
<1>5. ASSUME NEW u \in Users, Connect(u) PROVE Goal
  <2> DEFINE n == current[u] + 1
             t == <<u, n>>
  <2>1. /\ Cardinality(Opened) < MaxSockets
        /\ ~Online(u)
        /\ current' = [current EXCEPT ![u] = n]
        /\ link' = [link EXCEPT ![t] = "up"]
    BY <1>5 DEF Connect, Opened
  <2>2. t \in Sockets /\ User(t) = u /\ t[2] = n
    BY <2>1, NextSocket, SocketPairs DEF MatchInv
  <2>3. n \in 0..MaxSockets /\ current[u] \in Nat
    BY <1>1, <2>2, SocketPairs, MatchingAssumption
  <2>4. \A s \in Sockets : link[s] = "up" => User(s) # u
    <3>1. SUFFICES ASSUME NEW s \in Sockets, link[s] = "up", User(s) = u PROVE FALSE
      OBVIOUS
    <3>2. s[2] = current[u] /\ s = <<u, s[2]>> /\ s[2] \in 1..MaxSockets
      BY <1>1, <3>1, SocketPairs
    <3> QED
      BY <2>1, <3>1, <3>2 DEF Online, SocketOf
  <2>5. \A s \in Sockets : User(s) = u /\ s[2] = n => s = t
    BY SocketPairs
  <2>6. \A s \in Sockets : User(s) \in Users /\ s[2] \in Nat
    BY SocketPairs
  <2> HIDE DEF n, t
  <2>7. Opened' = Opened \cup {t}
    BY <1>1, <2>1, <2>2 DEF Opened
  <2>8. IsFiniteSet(Opened')
    BY <1>1, <2>7, FS_AddElement
  <2>9. ASSUME NEW s \in Sockets
        PROVE  /\ link'[s] = "new" <=> s[2] > current'[User(s)]
               /\ link'[s] = "up" => s[2] = current'[User(s)]
    <3>1. link'[s] = IF s = t THEN "up" ELSE link[s]
      BY <1>1, <2>1, <2>2
    <3>2. current'[User(s)] = IF User(s) = u THEN n ELSE current[User(s)]
      BY <1>1, <2>1, <2>6
    <3>3. n = current[u] + 1
      BY DEF n
    <3>4. CASE s = t
      BY <2>2, <2>3, <3>1, <3>2, <3>4
    <3>5. CASE s # t /\ User(s) = u
      BY <1>1, <2>3, <2>4, <2>5, <2>6, <3>1, <3>2, <3>3, <3>5
    <3>6. CASE User(s) # u
      BY <1>1, <2>2, <3>1, <3>2, <3>6
    <3> QED
      BY <3>4, <3>5, <3>6
  <2>10. LinkInv'
    BY <2>8, <2>9 DEF LinkInv
  <2>11. \A v \in Users : current[v] <= current'[v]
    BY <1>1, <1>2, <2>1, <2>3 DEF n
  <2> QED
    BY <1>1, <2>1, <2>3, <2>10, <2>11
<1>6. ASSUME NEW u \in Users, Break(u) PROVE Goal
  <2>1. /\ current[u] > 0 /\ link[SocketOf(u)] = "up"
        /\ link' = [link EXCEPT ![SocketOf(u)] = "broken"] /\ current' = current
    BY <1>6 DEF Break, Online
  <2>2. SocketOf(u) \in Sockets
    BY <1>1, <2>1, SocketPairs, MatchingAssumption DEF SocketOf
  <2> QED
    BY <1>4, <2>1, <2>2
<1>7. ASSUME NEW s \in Sockets, Disconnect(s) \/ DisconnectUnlisted(s) PROVE Goal
  <2>1. link[s] = "broken" /\ link' = [link EXCEPT ![s] = "closed"] /\ current' = current
    BY <1>7 DEF Disconnect, DisconnectUnlisted
  <2> QED
    BY <1>4, <2>1
<1>8. ASSUME NEW s \in Sockets, Handle(s) PROVE UNCHANGED <<link, current>>
  BY <1>8 DEF Handle, Register, StartRefused, StartPaired, StartQueued, Cancel, TooLate, Accept,
              Decline, EndSession, Handling
<1>9. ASSUME NEW u \in Users,
             \/ SendRegister(u) \/ Receive(u)
             \/ PressStart(u) \/ PressCancel(u) \/ PressAccept(u) \/ PressDecline(u)
             \/ PressEnd(u) \/ PressAgain(u)
      PROVE  UNCHANGED <<link, current>>
  BY <1>9 DEF SendRegister, Receive, PressStart, PressCancel, PressAccept,
              PressDecline, PressEnd, PressAgain
<1>10. ASSUME (\E x \in Sessions \cup Users : Age(x)) \/ Cleanup \/ UNCHANGED vars
       PROVE  UNCHANGED <<link, current>>
  BY <1>10 DEF Age, Cleanup, vars
<1> HIDE DEF Goal
<1>11. Goal
  BY <1>3, <1>5, <1>6, <1>7, <1>8, <1>9, <1>10 DEF Next
<1> QED
  BY <1>11 DEF Goal

-----------------------------------------------------------------------------
(* Who knows of a session                                                  *)

\* What was known stays so: ids are not used again, and an acceptance changes no socket.
LEMMA KnownStays ==
  ASSUME MatchInv, [Next]_vars, NEW s, NEW i, Knows(used, matchSessions, s, i)
  PROVE  Knows(used', matchSessions', s, i)
<1> SUFFICES ASSUME i \in Sessions
             PROVE  /\ i \in used'
                    /\ \A r \in matchSessions'[i] : /\ User(s) \in DOMAIN r.socket
                                                    /\ r.socket[User(s)][2] <= s[2]
  BY DEF Knows
<1>1. /\ i \in used
      /\ \A r \in matchSessions[i] : /\ User(s) \in DOMAIN r.socket
                                     /\ r.socket[User(s)][2] <= s[2]
      /\ DOMAIN matchSessions = Sessions
  BY DEF Knows, MatchInv, Shape
<1>2. CASE UNCHANGED <<matchSessions, userToSession, used>>
  BY <1>1, <1>2
<1>3. CASE \E D \in SUBSET Sessions : Ended(D)
  BY <1>1, <1>3 DEF Ended
<1>4. ASSUME NEW t \in Sockets, StartPaired(t)
      PROVE  i \in used' /\ matchSessions'[i] = matchSessions[i]
  <2>0. PICK v \in Users, j \in Sessions : \E r : Begins(t, v, j, r)
    BY <1>4, Beginning
  <2>1. PICK r : Begins(t, v, j, r)
    BY <2>0
  <2>2. /\ matchSessions' = [matchSessions EXCEPT ![j] = {r}]
        /\ used' = used \cup {j} /\ j \notin used
    BY <2>1 DEF Begins, Begun
  <2> QED
    BY <1>1, <2>2
<1>5. ASSUME NEW t \in Sockets, Accept(t)
      PROVE  /\ i \in used'
             /\ \A r \in matchSessions'[i] : \E q \in matchSessions[i] : r.socket = q.socket
  <2>1. used' = used
    BY <1>5, Accepting
  <2>1a. PICK j \in Sessions : \E r, n :
          /\ matchSessions[j] = {r} /\ n.socket = r.socket
          /\ matchSessions' = [matchSessions EXCEPT ![j] = {n}]
    BY <1>5, Accepting
  <2>2. PICK r, n :
          /\ matchSessions[j] = {r} /\ n.socket = r.socket
          /\ matchSessions' = [matchSessions EXCEPT ![j] = {n}]
    BY <2>1a
  <2>3. CASE i = j
    BY <1>1, <2>1, <2>2, <2>3
  <2>4. CASE i # j
    BY <1>1, <2>1, <2>2, <2>4
  <2> QED
    BY <2>3, <2>4
<1> QED
  BY <1>1, <1>2, <1>3, <1>4, <1>5, SessionStep

\* A user's newer socket may know what an older one does.
LEMMA NewerKnows ==
  ASSUME NEW U, NEW M, \A i \in Sessions : \A r \in M[i] : IsRecord(r),
         NEW s, NEW t, User(t) = User(s), s[2] \in Int, t[2] \in Int, s[2] <= t[2],
         NEW i, Knows(U, M, s, i)
  PROVE  Knows(U, M, t, i)
<1> SUFFICES ASSUME i \in Sessions, NEW r \in M[i]
             PROVE  /\ User(s) \in DOMAIN r.socket
                    /\ r.socket[User(s)][2] <= t[2]
  BY DEF Knows
<1>1. User(s) \in DOMAIN r.socket /\ r.socket[User(s)][2] <= s[2]
  BY DEF Knows
<1>2. r.socket[User(s)] \in Sockets
  BY <1>1, RecordShape
<1>3. r.socket[User(s)][2] \in Int
  BY <1>2, SocketPairs
<1> QED
  BY <1>1, <1>3

\* A record's sockets know its session.
LEMMA OwnersKnow ==
  ASSUME NEW U, NEW M, NEW i \in U, NEW r, IsRecord(r), M[i] = {r}, NEW w \in DOMAIN r.socket
  PROVE  Knows(U, M, r.socket[w], i)
<1>1. r.socket[w] \in Sockets /\ User(r.socket[w]) = w
  BY RecordShape
<1>2. r.socket[w][2] \in Nat
  BY <1>1, SocketPairs
<1> QED
  BY <1>1, <1>2 DEF Knows

\* An emit to a socket that knows.
LEMMA EmitKnown ==
  ASSUME NEW U, NEW M, NEW table \in [Sockets -> Seq(Events)], AllKnow(U, M, table),
         NEW s \in Sockets \cup {NoSocket}, NEW e \in Events,
         s \in Sockets => Knows(U, M, s, e[2])
  PROVE  Emit(table, s, e) \in [Sockets -> Seq(Events)] /\ AllKnow(U, M, Emit(table, s, e))
<1> DEFINE new == Emit(table, s, e)
<1>1. /\ new \in [Sockets -> Seq(Events)]
      /\ \A t \in Sockets : \/ new[t] = table[t]
                            \/ t = s /\ new[t] = Append(table[t], e)
  <2>1. /\ Emit(table, s, e) \in [Sockets -> Seq(Events)]
        /\ \A t \in Sockets :
             Emit(table, s, e)[t] = IF t = s /\ link[s] = "up" THEN Append(table[t], e)
                                                               ELSE table[t]
    BY EmitEffect
  <2> QED
    BY <2>1
<1> HIDE DEF new
<1>2. ASSUME NEW t \in Sockets, NEW k \in DOMAIN new[t]
      PROVE  Knows(U, M, t, new[t][k][2])
  <2>1. CASE new[t] = table[t]
    BY <1>2, <2>1 DEF AllKnow
  <2>2. CASE t = s /\ new[t] = Append(table[t], e)
    <3>1. table[t] \in Seq(Events)
      OBVIOUS
    <3>2. CASE k \in DOMAIN table[t]
      <4>1. new[t][k] = table[t][k]
        BY <2>2, <3>1, <3>2
      <4> QED
        BY <3>2, <4>1 DEF AllKnow
    <3>3. CASE k \notin DOMAIN table[t]
      <4>1. new[t][k] = e
        BY <1>2, <2>2, <3>1, <3>3
      <4> QED
        BY <2>2, <4>1
    <3> QED
      BY <3>2, <3>3
  <2> QED
    BY <1>1, <2>1, <2>2
<1> QED
  BY <1>1, <1>2 DEF AllKnow, new

\* Events without a session may go to anybody.
LEMMA PlainEvents ==
  ASSUME NEW type \in EventTypes
  PROVE  /\ Event(type) \in Events
         /\ \A U, M, s : Knows(U, M, s, Event(type)[2])
BY MatchingAssumption DEF Event, Events, Knows

\* The events keep their shape and go only to those who know of their session.
LEMMA EventStep ==
  ASSUME MatchInv, [Next]_vars
  PROVE  events' \in [Sockets -> Seq(Events)] /\ AllKnow(used', matchSessions', events')
<1> DEFINE Goal == events' \in [Sockets -> Seq(Events)] /\ AllKnow(used', matchSessions', events')
<1> USE DEF serverVars, matchVars, linkVars, screenVars, Press
<1>1. /\ events \in [Sockets -> Seq(Events)]
      /\ AllKnow(used', matchSessions', events)
  <2>1. AllKnow(used, matchSessions, events)
    BY DEF MatchInv, KnowInv
  <2> QED
    BY <2>1, KnownStays DEF AllKnow, MatchInv, Shape
<1>2. ASSUME UNCHANGED events PROVE Goal
  BY <1>1, <1>2
<1>3. ASSUME NEW s \in Sockets \cup {NoSocket}, NEW type \in EventTypes
      PROVE  /\ Emit(events, s, Event(type)) \in [Sockets -> Seq(Events)]
             /\ AllKnow(used', matchSessions', Emit(events, s, Event(type)))
  BY <1>1, PlainEvents, EmitKnown
<1>4. ASSUME NEW s \in Sockets \cup {NoSocket}, NEW t \in Sockets,
             NEW x \in EventTypes, NEW y \in EventTypes,
             events' = Emit(Emit(events, s, Event(x)), t, Event(y))
      PROVE  Goal
  BY <1>3, <1>4, PlainEvents, EmitKnown
<1>5. ASSUME NEW s \in Sockets, StartRefused(s) \/ StartQueued(s) \/ Cancel(s) PROVE Goal
  <2>1. PICK type \in EventTypes : events' = Emit(events, s, Event(type))
    BY <1>5 DEF StartRefused, StartQueued, Cancel, EventTypes
  <2> QED
    BY <1>3, <2>1
<1>6. ASSUME NEW s \in Sockets, StartPaired(s) PROVE Goal
  <2>0. PICK v \in Users, i \in Sessions : \E r : Begins(s, v, i, r)
    BY <1>6, Beginning
  <2>1. PICK r : Begins(s, v, i, r)
    BY <2>0
  <2> DEFINE e == <<"found", i>>
  <2>2. /\ events' = Emit(Emit(events, s, e), matchingQueue[v], e)
        /\ i \in used'
        /\ matchSessions' = [matchSessions EXCEPT ![i] = {r}]
        /\ DOMAIN matchSessions = Sessions
        /\ IsRecord(r)
        /\ matchingQueue[v] \in Sockets
        /\ DOMAIN r.socket = {User(s), v}
        /\ r.socket[User(s)] = s /\ r.socket[v] = matchingQueue[v]
    BY <2>1 DEF Begins, Begun, MatchInv, Shape
  <2>3. matchSessions'[i] = {r}
    BY <2>2
  <2>4. Knows(used', matchSessions', s, i) /\ Knows(used', matchSessions', matchingQueue[v], i)
    <3>1. /\ Knows(used', matchSessions', r.socket[User(s)], i)
          /\ Knows(used', matchSessions', r.socket[v], i)
      BY <2>2, <2>3, OwnersKnow
    <3> QED
      BY <2>2, <3>1
  <2>5. e \in Events /\ e[2] = i
    BY DEF Events, EventTypes
  <2> HIDE DEF e
  <2>6. /\ Emit(events, s, e) \in [Sockets -> Seq(Events)]
        /\ AllKnow(used', matchSessions', Emit(events, s, e))
    BY <1>1, <2>4, <2>5, EmitKnown
  <2> QED
    BY <2>2, <2>4, <2>5, <2>6, EmitKnown
<1>7. ASSUME NEW s \in Sockets, Accept(s) PROVE Goal
  <2> DEFINE i == About(s)
             x == Other(i, User(s))
             e == <<"connected", i>>
  <2>0. Handling(s, "accept") /\ Exists(i) /\ i \in Sessions
    BY <1>7 DEF Accept, Exists
  <2>1. PICK r : /\ IsRecord(r) /\ matchSessions[i] = {r} /\ Record(i) = r
                 /\ User(s) \in DOMAIN r.socket
                 /\ x \in DOMAIN r.socket
    BY <2>0, InHand
  <2>2. \/ events' = Emit(Emit(events, r.socket[User(s)], e), r.socket[x], e)
        \/ events' = Emit(events, r.socket[x], Event("partner_accepted"))
    BY <1>7, <2>1 DEF Accept
  <2>3. r.socket[User(s)] \in Sockets /\ r.socket[x] \in Sockets
    BY <2>1, RecordShape
  <2>4. i \in used
    BY <2>1, <2>0 DEF MatchInv, SessionInv
  <2>5. /\ Knows(used, matchSessions, r.socket[User(s)], i)
        /\ Knows(used, matchSessions, r.socket[x], i)
    BY <2>1, <2>4, OwnersKnow
  <2>6. /\ Knows(used', matchSessions', r.socket[User(s)], i)
        /\ Knows(used', matchSessions', r.socket[x], i)
    BY <2>5, KnownStays
  <2>7. e \in Events /\ e[2] = i
    BY <2>0 DEF Events, EventTypes
  <2> HIDE DEF e, i, x
  <2>8. CASE events' = Emit(events, r.socket[x], Event("partner_accepted"))
    BY <1>3, <2>3, <2>8 DEF EventTypes
  <2>9. CASE events' = Emit(Emit(events, r.socket[User(s)], e), r.socket[x], e)
    <3>1. /\ Emit(events, r.socket[User(s)], e) \in [Sockets -> Seq(Events)]
          /\ AllKnow(used', matchSessions', Emit(events, r.socket[User(s)], e))
      BY <1>1, <2>3, <2>6, <2>7, EmitKnown
    <3> QED
      BY <2>3, <2>6, <2>7, <2>9, <3>1, EmitKnown
  <2> QED
    BY <2>2, <2>8, <2>9
<1>8. ASSUME NEW s \in Sockets, Decline(s) \/ EndSession(s) PROVE Goal
  <2> DEFINE i == About(s)
             x == Other(i, User(s))
  <2>0. (Handling(s, "decline") \/ Handling(s, "end")) /\ Exists(i)
    BY <1>8 DEF Decline, EndSession
  <2>1. PICK r : IsRecord(r) /\ Record(i) = r /\ x \in DOMAIN r.socket
    BY <2>0, InHand
  <2>2. r.socket[x] \in Sockets
    BY <2>1, RecordShape
  <2>3. \/ events' = Emit(Emit(events, r.socket[x], Event("declined")), s,
                          Event("declined_by_you"))
        \/ events' = Emit(Emit(events, r.socket[x], Event("session_ended")), s,
                          Event("session_ended"))
    BY <1>8, <2>1 DEF Decline, EndSession
  <2> QED
    BY <1>4, <2>2, <2>3 DEF EventTypes
<1>9. ASSUME NEW s \in Sockets, Disconnect(s) PROVE Goal
  <2> DEFINE u == User(s)
             i == userToSession[u]
  <2>1. CASE ~Exists(i)
    BY <1>2, <1>9, <2>1 DEF Disconnect
  <2>2. CASE Exists(i)
    <3>1. PICK r : matchSessions[i] = {r} /\ IsRecord(r) /\ i \in Sessions
      BY <2>2 DEF MatchInv, SessionInv, Exists
    <3>2. u \in Users /\ u \in DOMAIN r.socket
      BY <3>1, SocketPairs DEF MatchInv, SessionInv
    <3>3. Other(i, u) \in Users
      BY <3>1, <3>2, TheRecord, RecordShape
    <3>4. connectedUsers[Other(i, u)] \in Sockets \cup {NoSocket}
      BY <3>3 DEF MatchInv, Shape
    <3>5. events' = Emit(events, connectedUsers[Other(i, u)], Event("partner_left"))
      BY <1>9, <2>2 DEF Disconnect
    <3> QED
      BY <1>3, <3>4, <3>5 DEF EventTypes
  <2> QED
    BY <2>1, <2>2
<1>10. ASSUME NEW t \in Sockets, NEW q \in {<<>>, Tail(events[t])},
              q = <<>> \/ events[t] # <<>>, events' = [events EXCEPT ![t] = q]
       PROVE  Goal
  <2>1. /\ q \in Seq(Events)
        /\ \A k \in DOMAIN q : \E j \in DOMAIN events[t] : q[k] = events[t][j]
    <3>1. events[t] \in Seq(Events)
      BY <1>1
    <3>2. events[t] # <<>> =>
            /\ Tail(events[t]) \in Seq(Events)
            /\ \A k \in DOMAIN Tail(events[t]) : /\ k + 1 \in DOMAIN events[t]
                                                 /\ Tail(events[t])[k] = events[t][k + 1]
      BY <3>1
    <3>3. CASE q = <<>>
      BY <3>3
    <3>4. CASE q # <<>>
      BY <1>10, <3>2, <3>4
    <3> QED
      BY <3>3, <3>4
  <2>2. \A s \in Sockets : events'[s] = IF s = t THEN q ELSE events[s]
    BY <1>1, <1>10
  <2>3. events' \in [Sockets -> Seq(Events)]
    BY <1>1, <1>10, <2>1
  <2> QED
    BY <1>1, <2>1, <2>2, <2>3 DEF AllKnow
<1>11. ASSUME NEW u \in Users, Break(u) \/ Receive(u) PROVE Goal
  <2>1. /\ Online(u)
        /\ \/ events' = [events EXCEPT ![SocketOf(u)] = <<>>]
           \/ /\ events' = [events EXCEPT ![SocketOf(u)] = Tail(events[SocketOf(u)])]
              /\ events[SocketOf(u)] # <<>>
    BY <1>11 DEF Break, Receive
  <2>2. SocketOf(u) \in Sockets
    BY <2>1, SocketPairs, MatchingAssumption DEF Online, SocketOf, MatchInv, Shape
  <2> QED
    BY <1>10, <2>1, <2>2
<1>12. ASSUME NEW s \in Sockets, Register(s) \/ TooLate(s) \/ DisconnectUnlisted(s)
       PROVE  UNCHANGED events
  BY <1>12 DEF Register, TooLate, DisconnectUnlisted
<1>13. ASSUME NEW u \in Users,
              \/ Connect(u) \/ SendRegister(u)
              \/ PressStart(u) \/ PressCancel(u) \/ PressAccept(u) \/ PressDecline(u)
              \/ PressEnd(u) \/ PressAgain(u)
       PROVE  UNCHANGED events
  BY <1>13 DEF Connect, SendRegister, PressStart, PressCancel, PressAccept, PressDecline,
               PressEnd, PressAgain
<1>14. ASSUME (\E x \in Sessions \cup Users : Age(x)) \/ Cleanup \/ UNCHANGED vars
       PROVE  UNCHANGED events
  BY <1>14 DEF Age, Cleanup, vars
<1> HIDE DEF Goal
<1>15. Goal
  BY <1>2, <1>5, <1>6, <1>7, <1>8, <1>9, <1>11, <1>12, <1>13, <1>14 DEF Next, Handle
<1> QED
  BY <1>15 DEF Goal

\* What a client sends goes behind the requests of its socket.
LEMMA RequestEffect ==
  ASSUME Shape, NEW u \in Users, NEW type, NEW i, <<type, i>> \in Requests,
         Request(u, type, i)
  PROVE  /\ requests' \in [Sockets -> Seq(Requests)]
         /\ \A t \in Sockets : \A k \in DOMAIN requests'[t] :
              \/ \E j \in DOMAIN requests[t] : requests'[t][k] = requests[t][j]
              \/ t = <<u, current[u]>> /\ requests'[t][k] = <<type, i>>
<1>1. requests \in [Sockets -> Seq(Requests)]
  BY DEF Shape
<1>2. CASE ~Online(u)
  BY <1>1, <1>2 DEF Request
<1>3. CASE Online(u)
  <2> DEFINE s == SocketOf(u)
             e == <<type, i>>
  <2>1. s \in Sockets /\ s = <<u, current[u]>>
    BY <1>3, SocketPairs, MatchingAssumption DEF Online, SocketOf, Shape
  <2>2. requests' = [requests EXCEPT ![s] = Append(@, e)]
    BY <1>3 DEF Request
  <2>3. e \in Requests
    OBVIOUS
  <2> HIDE DEF s, e
  <2>4. requests[s] \in Seq(Requests)
    BY <1>1, <2>1
  <2>5. /\ Append(requests[s], e) \in Seq(Requests)
        /\ \A k \in DOMAIN Append(requests[s], e) :
             \/ k \in DOMAIN requests[s] /\ Append(requests[s], e)[k] = requests[s][k]
             \/ Append(requests[s], e)[k] = e
    BY <2>3, <2>4
  <2>6. /\ requests' \in [Sockets -> Seq(Requests)]
        /\ requests'[s] = Append(requests[s], e)
        /\ \A t \in Sockets : t # s => requests'[t] = requests[t]
    BY <1>1, <2>1, <2>2, <2>5
  <2>7. ASSUME NEW t \in Sockets, NEW k \in DOMAIN requests'[t]
        PROVE  \/ \E j \in DOMAIN requests[t] : requests'[t][k] = requests[t][j]
               \/ t = s /\ requests'[t][k] = e
    <3>1. CASE t = s
      BY <2>5, <2>6, <2>7, <3>1
    <3>2. CASE t # s
      BY <2>6, <2>7, <3>2
    <3> QED
      BY <3>1, <3>2
  <2> QED
    BY <2>1, <2>6, <2>7 DEF e
<1> QED
  BY <1>2, <1>3

\* u's screen sends e: of its session or of none, an acceptance only when the button is pressed.
Sent(u, e) ==
  /\ e \in Requests
  /\ e[2] \in {NoSession, sessionId[u]}
  /\ e[1] = "accept" => PressAccept(u) /\ e[2] = sessionId[u]

\* A request under way was so before, or is what its user's screen sends.
LEMMA RequestStep ==
  ASSUME MatchInv, [Next]_vars
  PROVE  /\ requests' \in [Sockets -> Seq(Requests)]
         /\ \A t \in Sockets : \A k \in DOMAIN requests'[t] :
              \/ \E j \in DOMAIN requests[t] : requests'[t][k] = requests[t][j]
              \/ \E u \in Users : t = <<u, current[u]>> /\ Sent(u, requests'[t][k])
<1> DEFINE Goal ==
      /\ requests' \in [Sockets -> Seq(Requests)]
      /\ \A t \in Sockets : \A k \in DOMAIN requests'[t] :
           \/ \E j \in DOMAIN requests[t] : requests'[t][k] = requests[t][j]
           \/ \E u \in Users : t = <<u, current[u]>> /\ Sent(u, requests'[t][k])
<1> USE DEF serverVars, matchVars, linkVars, screenVars
<1>1. requests \in [Sockets -> Seq(Requests)] /\ Shape
  BY DEF MatchInv, Shape
<1>2. ASSUME UNCHANGED requests PROVE Goal
  BY <1>1, <1>2
<1>3. ASSUME NEW s \in Sockets, NEW type, Handling(s, type) PROVE Goal
  BY <1>3, HandlingFacts
<1>4. ASSUME NEW s \in Sockets, Handle(s) PROVE \E type : Handling(s, type)
  BY <1>4 DEF Handle, Register, StartRefused, StartPaired, StartQueued, Cancel, TooLate, Accept,
              Decline, EndSession
<1>5. ASSUME NEW s \in Sockets, Disconnect(s) \/ DisconnectUnlisted(s) PROVE Goal
  <2>1. requests' = [requests EXCEPT ![s] = <<>>]
    BY <1>5 DEF Disconnect, DisconnectUnlisted
  <2> QED
    BY <1>1, <2>1
<1>6. ASSUME NEW u \in Users, NEW type, NEW i, Request(u, type, i), Sent(u, <<type, i>>)
      PROVE  Goal
  <2>1. <<type, i>> \in Requests
    BY <1>6 DEF Sent
  <2>2. /\ requests' \in [Sockets -> Seq(Requests)]
        /\ \A t \in Sockets : \A k \in DOMAIN requests'[t] :
             \/ \E j \in DOMAIN requests[t] : requests'[t][k] = requests[t][j]
             \/ t = <<u, current[u]>> /\ requests'[t][k] = <<type, i>>
    BY <1>1, <1>6, <2>1, RequestEffect
  <2> QED
    BY <1>6, <2>2 DEF Sent
<1>7. ASSUME NEW u \in Users, SendRegister(u) \/ PressStart(u) \/ PressCancel(u) PROVE Goal
  <2>1. PICK type \in {"register", "start", "cancel"} : Request(u, type, NoSession)
    BY <1>7 DEF SendRegister, PressStart, PressCancel, Press
  <2>2. Sent(u, <<type, NoSession>>)
    BY DEF Sent, Requests
  <2> QED
    BY <1>6, <2>1, <2>2
<1>8. ASSUME NEW u \in Users, PressAccept(u) \/ PressDecline(u) \/ PressEnd(u) PROVE Goal
  <2>1. sessionId[u] \in Sessions \cup {NoSession}
    BY <1>1 DEF Shape
  <2>2. PICK type \in {"accept", "decline", "end"} :
          Request(u, type, sessionId[u]) /\ (type = "accept" => PressAccept(u))
    BY <1>8 DEF PressAccept, PressDecline, PressEnd, Press
  <2>3. Sent(u, <<type, sessionId[u]>>)
    BY <2>1, <2>2 DEF Sent, Requests
  <2> QED
    BY <1>6, <2>2, <2>3
<1>9. ASSUME NEW u \in Users, Connect(u) \/ Break(u) \/ Receive(u) \/ PressAgain(u)
      PROVE  UNCHANGED requests
  BY <1>9 DEF Connect, Break, Receive, PressAgain
<1>10. ASSUME (\E x \in Sessions \cup Users : Age(x)) \/ Cleanup \/ UNCHANGED vars
       PROVE  UNCHANGED requests
  BY <1>10 DEF Age, Cleanup, vars
<1> HIDE DEF Goal
<1>11. Goal
  BY <1>2, <1>3, <1>4, <1>5, <1>7, <1>8, <1>9, <1>10 DEF Next
<1> QED
  BY <1>11 DEF Goal

\* What the screen shows next: the session it showed, none, or that of an event it received.
LEMMA ScreenStep ==
  ASSUME MatchInv, [Next]_vars
  PROVE  /\ status' \in [Users -> Statuses]
         /\ sessionId' \in [Users -> Sessions \cup {NoSession}]
         /\ \A u \in Users :
              \/ sessionId'[u] \in {sessionId[u], NoSession}
              \/ /\ <<u, current[u]>> \in Sockets
                 /\ \E k \in DOMAIN events[<<u, current[u]>>] :
                      sessionId'[u] = events[<<u, current[u]>>][k][2]
<1> DEFINE Goal ==
      /\ status' \in [Users -> Statuses]
      /\ sessionId' \in [Users -> Sessions \cup {NoSession}]
      /\ \A u \in Users :
           \/ sessionId'[u] \in {sessionId[u], NoSession}
           \/ /\ <<u, current[u]>> \in Sockets
              /\ \E k \in DOMAIN events[<<u, current[u]>>] :
                   sessionId'[u] = events[<<u, current[u]>>][k][2]
<1> USE DEF serverVars, matchVars, linkVars, screenVars
<1>1. /\ status \in [Users -> Statuses]
      /\ sessionId \in [Users -> Sessions \cup {NoSession}]
      /\ events \in [Sockets -> Seq(Events)]
  BY DEF MatchInv, Shape
<1>2. ASSUME UNCHANGED <<status, sessionId>> PROVE Goal
  BY <1>1, <1>2
<1>3. ASSUME NEW u \in Users,
             \/ PressStart(u) \/ PressCancel(u) \/ PressAccept(u) \/ PressDecline(u)
             \/ PressEnd(u) \/ PressAgain(u)
      PROVE  Goal
  <2>1. PICK st \in Statuses, i \in {sessionId[u], NoSession} :
          /\ status' = [status EXCEPT ![u] = st]
          /\ sessionId' = [sessionId EXCEPT ![u] = i]
    BY <1>3 DEF PressStart, PressCancel, PressAccept, PressDecline, PressEnd, PressAgain, Show,
                Statuses
  <2> QED
    BY <1>1, <2>1
<1>4. ASSUME NEW u \in Users, Receive(u) PROVE Goal
  <2> DEFINE s == <<u, current[u]>>
             e == Head(events[s])
  <2>1. s \in Sockets
    BY <1>4, SocketPairs, MatchingAssumption DEF Receive, Online, SocketOf, MatchInv, Shape
  <2>2. /\ events[s] # <<>>
        /\ status' = [status EXCEPT ![u] = After(u, e)[1]]
        /\ sessionId' = [sessionId EXCEPT ![u] = After(u, e)[2]]
    BY <1>4 DEF Receive, SocketOf, Show
  <2>3. 1 \in DOMAIN events[s] /\ e = events[s][1] /\ e \in Events
    BY <1>1, <2>1, <2>2
  <2> HIDE DEF e
  <2>4. /\ After(u, e)[1] \in Statuses
        /\ After(u, e)[2] \in {sessionId[u], NoSession, e[2]}
    <3>1. e[1] \in EventTypes
      BY <2>3 DEF Events
    <3>2. CASE e[1] = "queued"
      BY <3>2 DEF After, Statuses
    <3>3. CASE e[1] = "found"
      BY <3>3 DEF After, Statuses
    <3>4. CASE e[1] = "partner_accepted"
      BY <3>4 DEF After, Statuses
    <3>5. CASE e[1] = "connected"
      BY <3>5 DEF After, Statuses
    <3>6. CASE e[1] \in {"declined", "declined_by_you"}
      BY <3>6 DEF After, Statuses
    <3>7. CASE e[1] \in {"partner_left", "session_ended"}
      BY <3>7 DEF After, Statuses
    <3>8. CASE e[1] \in {"cancelled", "error"}
      BY <3>8 DEF After, Statuses
    <3> QED
      BY <3>1, <3>2, <3>3, <3>4, <3>5, <3>6, <3>7, <3>8 DEF EventTypes
  <2>5. e[2] \in Sessions \cup {NoSession}
    BY <2>3 DEF Events
  <2> QED
    BY <1>1, <2>1, <2>2, <2>3, <2>4, <2>5
<1>5. ASSUME NEW s \in Sockets, Handle(s) \/ Disconnect(s) \/ DisconnectUnlisted(s)
      PROVE  UNCHANGED <<status, sessionId>>
  BY <1>5 DEF Handle, Disconnect, DisconnectUnlisted, Register, StartRefused, StartPaired,
              StartQueued, Cancel, TooLate, Accept, Decline, EndSession, Handling
<1>6. ASSUME NEW u \in Users, Connect(u) \/ Break(u) \/ SendRegister(u)
      PROVE  UNCHANGED <<status, sessionId>>
  BY <1>6 DEF Connect, Break, SendRegister
<1>7. ASSUME (\E x \in Sessions \cup Users : Age(x)) \/ Cleanup \/ UNCHANGED vars
      PROVE  UNCHANGED <<status, sessionId>>
  BY <1>7 DEF Age, Cleanup, vars
<1> HIDE DEF Goal
<1>8. Goal
  BY <1>2, <1>3, <1>4, <1>5, <1>6, <1>7 DEF Next
<1> QED
  BY <1>8 DEF Goal

\* KnowInv is inductive.
LEMMA KnowInvStep ==
  ASSUME MatchInv, [Next]_vars
  PROVE  KnowInv'
<1>1. AllKnow(used', matchSessions', events')
  BY EventStep
<1>2. /\ AllKnow(used', matchSessions', events)
      /\ AllKnow(used', matchSessions', requests)
      /\ \A u \in Users : Knows(used', matchSessions', <<u, current[u]>>, sessionId[u])
  <2>1. /\ AllKnow(used, matchSessions, events)
        /\ AllKnow(used, matchSessions, requests)
        /\ \A u \in Users : Knows(used, matchSessions, <<u, current[u]>>, sessionId[u])
    BY DEF MatchInv, KnowInv
  <2> QED
    BY <2>1, KnownStays DEF AllKnow
<1>3. \A s : Knows(used', matchSessions', s, NoSession)
  BY MatchingAssumption DEF Knows
<1>4. AllKnow(used', matchSessions', requests')
  <2>1. SUFFICES ASSUME NEW t \in Sockets, NEW k \in DOMAIN requests'[t]
                 PROVE  Knows(used', matchSessions', t, requests'[t][k][2])
    BY DEF AllKnow
  <2>2. CASE \E j \in DOMAIN requests[t] : requests'[t][k] = requests[t][j]
    BY <1>2, <2>2 DEF AllKnow
  <2>3. CASE \E u \in Users : t = <<u, current[u]>> /\ Sent(u, requests'[t][k])
    BY <1>2, <1>3, <2>3 DEF Sent
  <2> QED
    BY <2>1, <2>2, <2>3, RequestStep
<1>5. ASSUME NEW u \in Users PROVE Knows(used', matchSessions', <<u, current'[u]>>, sessionId'[u])
  <2> DEFINE s == <<u, current[u]>>
             t == <<u, current'[u]>>
  <2>1. Knows(used', matchSessions', s, sessionId'[u])
    BY <1>2, <1>3, ScreenStep DEF AllKnow
  <2>2. /\ User(s) = u /\ User(t) = u
        /\ s[2] \in Int /\ t[2] \in Int /\ s[2] <= t[2]
    BY LinkInvStep, SocketPairs, MatchingAssumption DEF MatchInv, Shape
  <2>3. \A i \in Sessions : \A r \in matchSessions'[i] : IsRecord(r)
    BY SessionInvStep DEF SessionInv
  <2> HIDE DEF s, t
  <2>4. Knows(used', matchSessions', t, sessionId'[u])
    BY <2>1, <2>2, <2>3, NewerKnows
  <2> QED
    BY <2>4 DEF t
<1> QED
  BY <1>1, <1>4, <1>5 DEF KnowInv

-----------------------------------------------------------------------------
(* Who pressed                                                             *)

\* Presses are remembered, and an acceptance is one.
LEMMA PressedStep ==
  ASSUME MatchInv, [Next]_vars
  PROVE  /\ pressed' \in [Sessions -> SUBSET Users]
         /\ \A i \in Sessions : pressed[i] \subseteq pressed'[i]
         /\ \A u \in Users : PressAccept(u) /\ sessionId[u] \in Sessions
                               => u \in pressed'[sessionId[u]]
<1> USE DEF serverVars, matchVars, linkVars, screenVars
<1>1. pressed \in [Sessions -> SUBSET Users]
  BY DEF MatchInv, Shape
<1>2. CASE UNCHANGED pressed
  <2>1. \A u \in Users : PressAccept(u) /\ sessionId[u] \in Sessions => u \in pressed'[sessionId[u]]
    BY <1>1 DEF PressAccept
  <2> QED
    BY <1>1, <1>2, <2>1
<1>3. ASSUME NEW v \in Users, PressAccept(v)
      PROVE  /\ pressed' \in [Sessions -> SUBSET Users]
             /\ \A i \in Sessions : pressed[i] \subseteq pressed'[i]
  BY <1>1, <1>3 DEF PressAccept
<1>4. \A u \in Users : PressAccept(u) /\ sessionId[u] \in Sessions => u \in pressed'[sessionId[u]]
  BY <1>1 DEF PressAccept
<1>5. ASSUME NEW s \in Sockets, Handle(s) \/ Disconnect(s) \/ DisconnectUnlisted(s)
      PROVE  UNCHANGED pressed
  BY <1>5 DEF Handle, Disconnect, DisconnectUnlisted, Register, StartRefused, StartPaired,
              StartQueued, Cancel, TooLate, Accept, Decline, EndSession, Handling
<1>6. ASSUME NEW u \in Users,
             \/ Connect(u) \/ Break(u) \/ SendRegister(u) \/ Receive(u)
             \/ PressStart(u) \/ PressCancel(u) \/ PressDecline(u)
             \/ PressEnd(u) \/ PressAgain(u)
      PROVE  UNCHANGED pressed
  BY <1>6 DEF Connect, Break, SendRegister, Receive, PressStart, PressCancel, PressDecline,
              PressEnd, PressAgain
<1>7. ASSUME (\E x \in Sessions \cup Users : Age(x)) \/ Cleanup \/ UNCHANGED vars
      PROVE  UNCHANGED pressed
  BY <1>7 DEF Age, Cleanup, vars
<1> QED
  BY <1>2, <1>3, <1>4, <1>5, <1>6, <1>7 DEF Next

\* PressInv is inductive.
LEMMA PressInvStep ==
  ASSUME MatchInv, [Next]_vars
  PROVE  PressInv'
<1>1. ASSUME NEW t \in Sockets, NEW k \in DOMAIN requests'[t],
             requests'[t][k][1] = "accept", requests'[t][k][2] \in Sessions
      PROVE  User(t) \in pressed'[requests'[t][k][2]]
  <2>1. CASE \E j \in DOMAIN requests[t] : requests'[t][k] = requests[t][j]
    BY <1>1, <2>1, PressedStep DEF MatchInv, PressInv
  <2>2. ASSUME NEW u \in Users, t = <<u, current[u]>>, Sent(u, requests'[t][k])
        PROVE  User(t) \in pressed'[requests'[t][k][2]]
    <3>1. PressAccept(u) /\ requests'[t][k][2] = sessionId[u]
      BY <1>1, <2>2 DEF Sent
    <3>2. User(t) = u
      BY <2>2, SocketPairs
    <3> QED
      BY <1>1, <3>1, <3>2, PressedStep
  <2> QED
    BY <1>1, <2>1, <2>2, RequestStep
<1>2. /\ \A i \in Sessions : pressed[i] \subseteq pressed'[i]
      /\ \A i \in Sessions : \A r \in matchSessions[i] :
           /\ r.accepted \subseteq pressed[i]
           /\ r.connected => DOMAIN r.socket \subseteq pressed[i]
      /\ DOMAIN matchSessions = Sessions
  BY PressedStep DEF MatchInv, PressInv, Shape
<1>3. ASSUME NEW i \in Sessions, NEW r \in matchSessions'[i]
      PROVE  /\ r.accepted \subseteq pressed'[i]
             /\ r.connected => DOMAIN r.socket \subseteq pressed'[i]
  <2>1. CASE UNCHANGED <<matchSessions, userToSession, used>>
    BY <1>2, <1>3, <2>1
  <2>2. CASE \E D \in SUBSET Sessions : Ended(D)
    BY <1>2, <1>3, <2>2 DEF Ended
  <2>3. ASSUME NEW s \in Sockets, StartPaired(s)
        PROVE  /\ r.accepted \subseteq pressed'[i]
               /\ r.connected => DOMAIN r.socket \subseteq pressed'[i]
    <3>0. PICK v \in Users, j \in Sessions : \E n : Begins(s, v, j, n)
      BY <2>3, Beginning
    <3>1. PICK n : Begins(s, v, j, n)
      BY <3>0
    <3>2. /\ matchSessions' = [matchSessions EXCEPT ![j] = {n}]
          /\ n.accepted = {} /\ n.connected = FALSE
      BY <3>1 DEF Begins
    <3> QED
      BY <1>2, <1>3, <3>2
  <2>4. ASSUME NEW s \in Sockets, Accept(s)
        PROVE  /\ r.accepted \subseteq pressed'[i]
               /\ r.connected => DOMAIN r.socket \subseteq pressed'[i]
    <3>0. PICK j \in Sessions : \E q, n :
            /\ matchSessions[j] = {q}
            /\ matchSessions' = [matchSessions EXCEPT ![j] = {n}]
            /\ User(s) \in pressed[j]
            /\ n.socket = q.socket
            /\ n.accepted = q.accepted \cup {User(s)}
            /\ n.connected => q.connected \/ n.accepted = DOMAIN q.socket
      BY <2>4, Accepting
    <3>1. PICK q, n :
            /\ matchSessions[j] = {q}
            /\ matchSessions' = [matchSessions EXCEPT ![j] = {n}]
            /\ User(s) \in pressed[j]
            /\ n.socket = q.socket
            /\ n.accepted = q.accepted \cup {User(s)}
            /\ n.connected => q.connected \/ n.accepted = DOMAIN q.socket
      BY <3>0
    <3>2. CASE i # j
      BY <1>2, <1>3, <3>1, <3>2
    <3>3. CASE i = j
      <4>1. /\ q.accepted \subseteq pressed[i]
            /\ q.connected => DOMAIN q.socket \subseteq pressed[i]
        BY <1>2, <3>1, <3>3
      <4>2. r = n
        BY <1>2, <1>3, <3>1, <3>3
      <4> QED
        BY <1>2, <3>1, <3>3, <4>1, <4>2
    <3> QED
      BY <3>2, <3>3
  <2> QED
    BY <2>1, <2>2, <2>3, <2>4, SessionStep
<1> QED
  BY <1>1, <1>3 DEF PressInv

-----------------------------------------------------------------------------
(* The theorems                                                            *)

\* The rest of Shape.
LEMMA ShapeStep ==
  ASSUME MatchInv, [Next]_vars
  PROVE  Shape'
<1> USE DEF serverVars, matchVars, linkVars, screenVars, Press
<1>1. /\ connectedUsers \in [Users -> Sockets \cup {NoSocket}]
      /\ aged \subseteq Sessions \cup Users
      /\ greeting \subseteq Users
  BY DEF MatchInv, Shape
<1> DEFINE Goal == /\ connectedUsers' \in [Users -> Sockets \cup {NoSocket}]
                   /\ aged' \subseteq Sessions \cup Users
                   /\ greeting' \subseteq Users
<1>2. ASSUME NEW s \in Sockets, Handle(s) \/ Disconnect(s) \/ DisconnectUnlisted(s) PROVE Goal
  <2>1. \/ connectedUsers' = connectedUsers
        \/ connectedUsers' = [connectedUsers EXCEPT ![User(s)] = s]
        \/ connectedUsers' = [connectedUsers EXCEPT ![User(s)] = NoSocket]
    BY <1>2 DEF Handle, Disconnect, DisconnectUnlisted, Register, StartRefused, StartPaired,
                StartQueued, Cancel, TooLate, Accept, Decline, EndSession
  <2>2. aged' \subseteq aged
    BY <1>2 DEF Handle, Disconnect, DisconnectUnlisted, Register, StartRefused, StartPaired,
                StartQueued, Cancel, TooLate, Accept, Decline, EndSession, Delete
  <2>3. greeting' = greeting
    BY <1>2 DEF Handle, Disconnect, DisconnectUnlisted, Register, StartRefused, StartPaired,
                StartQueued, Cancel, TooLate, Accept, Decline, EndSession, Handling
  <2> QED
    BY <1>1, <2>1, <2>2, <2>3
<1>3. ASSUME NEW u \in Users,
             \/ Connect(u) \/ Break(u) \/ SendRegister(u) \/ Receive(u)
             \/ PressStart(u) \/ PressCancel(u) \/ PressAccept(u) \/ PressDecline(u)
             \/ PressEnd(u) \/ PressAgain(u)
      PROVE  Goal
  <2>1. UNCHANGED <<connectedUsers, aged>>
    BY <1>3 DEF Connect, Break, SendRegister, Receive, PressStart, PressCancel, PressAccept,
                PressDecline, PressEnd, PressAgain
  <2>2. greeting' \subseteq greeting \cup {u}
    BY <1>3 DEF Connect, Break, SendRegister, Receive, PressStart, PressCancel, PressAccept,
                PressDecline, PressEnd, PressAgain
  <2> QED
    BY <1>1, <2>1, <2>2
<1>4. ASSUME (\E x \in Sessions \cup Users : Age(x)) \/ Cleanup \/ UNCHANGED vars PROVE Goal
  BY <1>1, <1>4 DEF Age, Cleanup, vars
<1>5. Goal
  BY <1>2, <1>3, <1>4 DEF Next
<1> QED
  BY <1>5, SessionInvStep, QueueInvStep, LinkInvStep, EventStep, RequestStep, ScreenStep,
     PressedStep DEF Shape

\* The inductive invariant holds throughout.
LEMMA MatchInvariant == Spec => []MatchInv
<1>1. Init => MatchInv
  BY MatchInitially
<1>2. MatchInv /\ [Next]_vars => MatchInv'
  BY ShapeStep, LinkInvStep, SessionInvStep, QueueInvStep, KnowInvStep, PressInvStep DEF MatchInv
<1> QED
  BY <1>1, <1>2, PTL DEF Spec

\* The variables keep their shape (the maps of routes.ts, the state of MatchingScreen.tsx), and
\* a session is one record of two users.
THEOREM TypeCorrect == Spec => []TypeOK
<1>1. MatchInv => TypeOK
  BY MatchInvSuffices
<1> QED
  BY <1>1, MatchInvariant, PTL

\* The queue, the sessions and the index of users agree, whatever the order of the handlers, the
\* disconnects and the timer (routes.ts): nobody is in two sessions, nobody is refused for a
\* session that is gone, and nobody waits who is in one.
THEOREM TheMapsAgree == Spec => []MapsAgree
<1>1. MatchInv => MapsAgree
  BY MatchInvSuffices
<1> QED
  BY <1>1, MatchInvariant, PTL

\* The relay connects two users (matching:accept) only if both have pressed the button for that
\* very session, however late their requests and events come.
THEOREM BothHavePressed == Spec => []ConnectedByBoth
<1>1. MatchInv => ConnectedByBoth
  BY MatchInvSuffices
<1> QED
  BY <1>1, MatchInvariant, PTL

\* Who ends a session.
LEMMA EndedBy ==
  ASSUME MatchInv, [Next]_vars, NEW i \in Sessions, Exists(i), matchSessions'[i] = {}
  PROVE  \/ \E s \in Sockets : (Decline(s) \/ EndSession(s)) /\ i = About(s)
         \/ \E s \in Sockets : Disconnect(s) /\ i = userToSession[User(s)]
         \/ i \in aged
<1> USE DEF serverVars, matchVars, linkVars, screenVars, Press
<1>1. DOMAIN matchSessions = Sessions /\ matchSessions[i] # {}
  BY DEF MatchInv, Shape, Exists
<1>2. ASSUME NEW s \in Sockets, StartPaired(s) PROVE FALSE
  <2>0. PICK v \in Users, j \in Sessions : \E r : Begins(s, v, j, r)
    BY <1>2, Beginning
  <2>1. PICK r : Begins(s, v, j, r)
    BY <2>0
  <2>2. matchSessions' = [matchSessions EXCEPT ![j] = {r}]
    BY <2>1 DEF Begins
  <2> QED
    BY <1>1, <2>2
<1>3. ASSUME NEW s \in Sockets, Accept(s) PROVE FALSE
  <2>0. PICK j \in Sessions : \E q, n : matchSessions' = [matchSessions EXCEPT ![j] = {n}]
    BY <1>3, Accepting
  <2>1. PICK q, n : matchSessions' = [matchSessions EXCEPT ![j] = {n}]
    BY <2>0
  <2> QED
    BY <1>1, <2>1
<1>4. ASSUME NEW s \in Sockets, Decline(s) \/ EndSession(s) PROVE i = About(s)
  <2>1. matchSessions' = [matchSessions EXCEPT ![About(s)] = {}]
    BY <1>4 DEF Decline, EndSession, Delete
  <2> QED
    BY <1>1, <2>1
<1>5. ASSUME NEW s \in Sockets, Disconnect(s) PROVE i = userToSession[User(s)]
  <2>1. \/ matchSessions' = [matchSessions EXCEPT ![userToSession[User(s)]] = {}]
        \/ matchSessions' = matchSessions
    BY <1>5 DEF Disconnect
  <2> QED
    BY <1>1, <2>1
<1>6. CASE Cleanup
  BY <1>1, <1>6 DEF Cleanup
<1>7. ASSUME NEW s \in Sockets, Handle(s) \/ DisconnectUnlisted(s),
             ~ (StartPaired(s) \/ Accept(s) \/ Decline(s) \/ EndSession(s))
      PROVE  UNCHANGED matchSessions
  BY <1>7 DEF Handle, DisconnectUnlisted, Register, StartRefused, StartQueued, Cancel, TooLate
<1>8. ASSUME NEW u \in Users,
             \/ Connect(u) \/ Break(u) \/ SendRegister(u) \/ Receive(u)
             \/ PressStart(u) \/ PressCancel(u) \/ PressAccept(u) \/ PressDecline(u)
             \/ PressEnd(u) \/ PressAgain(u)
      PROVE  UNCHANGED matchSessions
  BY <1>8 DEF Connect, Break, SendRegister, Receive, PressStart, PressCancel, PressAccept,
              PressDecline, PressEnd, PressAgain
<1>9. ASSUME (\E x \in Sessions \cup Users : Age(x)) \/ UNCHANGED vars
      PROVE  UNCHANGED matchSessions
  BY <1>9 DEF Age, vars
<1> QED
  BY <1>1, <1>2, <1>3, <1>4, <1>5, <1>6, <1>7, <1>8, <1>9 DEF Next, Handle

\* The user who ends a session does it on the socket it was found on, if that is up; and the
\* events go to both.
LEMMA Told ==
  ASSUME MatchInv, NEW s \in Sockets, Decline(s) \/ EndSession(s),
         NEW u \in DOMAIN Record(About(s)).socket, NEW t \in Sockets,
         t = Record(About(s)).socket[u], link[t] = "up"
  PROVE  events'[t] # events[t]
<1> DEFINE i == About(s)
           x == Other(i, User(s))
<1>0. (Handling(s, "decline") \/ Handling(s, "end")) /\ Exists(i)
  BY DEF Decline, EndSession
<1>1. PICK r : /\ IsRecord(r) /\ Record(i) = r
               /\ User(s) \in DOMAIN r.socket
               /\ r.socket[User(s)][2] <= s[2]
               /\ x \in DOMAIN r.socket /\ x # User(s)
               /\ DOMAIN r.socket = {User(s), x}
  BY <1>0, InHand
<1>2. /\ r.socket[x] \in Sockets /\ User(r.socket[x]) = x
      /\ r.socket[User(s)] \in Sockets /\ User(r.socket[User(s)]) = User(s)
  BY <1>1, RecordShape
<1>3. r.socket[x] # s
  BY <1>1, <1>2
<1>4. PICK a \in EventTypes, b \in EventTypes :
        events' = Emit(Emit(events, r.socket[x], Event(a)), s, Event(b))
  <2>1. \/ events' = Emit(Emit(events, r.socket[x], Event("declined")), s,
                          Event("declined_by_you"))
        \/ events' = Emit(Emit(events, r.socket[x], Event("session_ended")), s,
                          Event("session_ended"))
    BY <1>1 DEF Decline, EndSession
  <2> QED
    BY <2>1 DEF EventTypes
<1>5. Event(a) \in Events /\ Event(b) \in Events /\ events \in [Sockets -> Seq(Events)]
  BY PlainEvents DEF MatchInv, Shape
<1> DEFINE first == Emit(events, r.socket[x], Event(a))
<1>6. /\ first \in [Sockets -> Seq(Events)]
      /\ \A q \in Sockets :
           first[q] = IF q = r.socket[x] /\ link[r.socket[x]] = "up"
                      THEN Append(events[q], Event(a)) ELSE events[q]
  <2>1. \A p \in Sockets \cup {NoSocket}, e \in Events :
          /\ Emit(events, p, e) \in [Sockets -> Seq(Events)]
          /\ \A q \in Sockets :
               Emit(events, p, e)[q] = IF q = p /\ link[p] = "up" THEN Append(events[q], e)
                                                                 ELSE events[q]
    BY <1>5, EmitEffect
  <2> QED
    BY <1>2, <1>5, <2>1
<1> HIDE DEF first
<1>7. events' = Emit(first, s, Event(b))
  BY <1>4 DEF first
<1>8. \A q \in Sockets :
        events'[q] = IF q = s /\ link[s] = "up" THEN Append(first[q], Event(b)) ELSE first[q]
  <2>1. \A q \in Sockets :
          Emit(first, s, Event(b))[q] =
            IF q = s /\ link[s] = "up" THEN Append(first[q], Event(b)) ELSE first[q]
    <3>1. \A p \in Sockets \cup {NoSocket}, e \in Events : \A q \in Sockets :
            Emit(first, p, e)[q] = IF q = p /\ link[p] = "up" THEN Append(first[q], e)
                                                              ELSE first[q]
      BY <1>6, EmitEffect
    <3> QED
      BY <1>5, <3>1
  <2> QED
    BY <1>7, <2>1
<1>9. \A q \in Seq(Events), e \in Events : Append(q, e) # q
  <2>1. \A q \in Seq(Events), e \in Events : Len(Append(q, e)) = Len(q) + 1 /\ Len(q) \in Nat
    OBVIOUS
  <2> QED
    BY <2>1
<1>10. events[t] \in Seq(Events)
  BY <1>5
<1>11. CASE u = x
  <2>1. t = r.socket[x] /\ t # s
    BY <1>1, <1>3, <1>11
  <2>2. events'[t] = Append(events[t], Event(a))
    BY <1>6, <1>8, <2>1
  <2> QED
    BY <1>5, <1>9, <1>10, <2>2
<1>12. CASE u = User(s)
  <2>1. t = r.socket[User(s)] /\ User(t) = User(s)
    BY <1>1, <1>2, <1>12
  <2>2. t[2] = current[User(s)] /\ s[2] <= current[User(s)]
    <3>1. link[s] # "new"
      BY <1>0, HandlingFacts
    <3>2. /\ s[2] \in Int /\ User(s) \in Users
          /\ ~ (s[2] > current[User(s)])
          /\ t[2] = current[User(t)]
      BY <3>1, SocketPairs DEF MatchInv, LinkInv
    <3>3. current[User(s)] \in Int
      BY <3>2, MatchingAssumption DEF MatchInv, Shape
    <3> QED
      BY <2>1, <3>2, <3>3
  <2>3. t = s
    <3>1. t[2] <= s[2]
      BY <1>1, <2>1
    <3>2. t[2] = s[2]
      <4>1. t[2] \in Int /\ s[2] \in Int
        BY SocketPairs
      <4> QED
        BY <2>2, <3>1, <4>1
    <3> QED
      BY <2>1, <3>2, SocketPairs
  <2>4. first[t] = events[t]
    BY <1>3, <1>6, <2>3
  <2>5. events'[t] = Append(events[t], Event(b))
    BY <1>8, <2>3, <2>4
  <2> QED
    BY <1>5, <1>9, <1>10, <2>5
<1> QED
  BY <1>1, <1>11, <1>12

\* Whoever's handler or disconnect ends a session, each of its users who is still registered on
\* the socket it was found on is sent an event about it (routes.ts; the timer tells nobody).
THEOREM BothAreTold == Spec => EndsAreTold
<1> DEFINE Tells ==
      \A i \in Sessions, u \in Users :
        (/\ Exists(i) /\ ~Exists(i)' /\ i \notin aged
         /\ u \in DOMAIN Record(i).socket
         /\ link[Record(i).socket[u]] = "up"
         /\ connectedUsers[u] = Record(i).socket[u])
        => events'[Record(i).socket[u]] # events[Record(i).socket[u]]
<1>1. ASSUME MatchInv, [Next]_vars PROVE Tells
  <2>1. SUFFICES ASSUME NEW i \in Sessions, NEW u \in Users,
                        Exists(i), ~Exists(i)', i \notin aged,
                        u \in DOMAIN Record(i).socket,
                        link[Record(i).socket[u]] = "up",
                        connectedUsers[u] = Record(i).socket[u]
                 PROVE  events'[Record(i).socket[u]] # events[Record(i).socket[u]]
    OBVIOUS
  <2>2. matchSessions'[i] = {}
    BY <2>1 DEF Exists
  <2>3. PICK r : matchSessions[i] = {r} /\ IsRecord(r) /\ Record(i) = r
    BY <1>1, <2>1, TheRecord DEF MatchInv, SessionInv, Exists
  <2>4. r.socket[u] \in Sockets /\ User(r.socket[u]) = u
    BY <2>1, <2>3, RecordShape
  <2>5. ASSUME NEW s \in Sockets, Decline(s) \/ EndSession(s), i = About(s)
        PROVE  events'[r.socket[u]] # events[r.socket[u]]
    BY <1>1, <2>1, <2>3, <2>4, <2>5, Told
  <2>6. ASSUME NEW s \in Sockets, Disconnect(s), i = userToSession[User(s)]
        PROVE  events'[r.socket[u]] # events[r.socket[u]]
    <3> DEFINE w == User(s)
    <3>1. w \in DOMAIN r.socket
      BY <1>1, <2>3, <2>6, SocketPairs DEF MatchInv, SessionInv
    <3>2. /\ link[s] = "broken"
          /\ connectedUsers[w] = s
          /\ events' = Emit(events, connectedUsers[Other(i, w)], Event("partner_left"))
      BY <2>1, <2>6 DEF Disconnect
    <3>3. u # w
      BY <2>1, <2>3, <3>2
    <3>4. u = Other(i, w)
      BY <2>1, <2>3, <3>1, <3>3, TheRecord
    <3>5. events' = Emit(events, r.socket[u], Event("partner_left"))
      BY <2>1, <2>3, <3>2, <3>4
    <3>6. events \in [Sockets -> Seq(Events)] /\ Event("partner_left") \in Events
      BY <1>1, PlainEvents DEF MatchInv, Shape, EventTypes
    <3>7. Emit(events, r.socket[u], Event("partner_left"))[r.socket[u]]
            = Append(events[r.socket[u]], Event("partner_left"))
      <4>1. \A p \in Sockets \cup {NoSocket}, e \in Events : \A q \in Sockets :
              Emit(events, p, e)[q] = IF q = p /\ link[p] = "up" THEN Append(events[q], e)
                                                                ELSE events[q]
        BY <3>6, EmitEffect
      <4> QED
        BY <2>1, <2>3, <2>4, <3>6, <4>1
    <3>8. events[r.socket[u]] \in Seq(Events)
      BY <2>4, <3>6
    <3>9. \A q \in Seq(Events), e \in Events : Len(Append(q, e)) = Len(q) + 1 /\ Len(q) \in Nat
      OBVIOUS
    <3>10. Append(events[r.socket[u]], Event("partner_left")) # events[r.socket[u]]
      BY <3>6, <3>8, <3>9
    <3> QED
      BY <3>5, <3>7, <3>10
  <2> QED
    BY <1>1, <2>1, <2>2, <2>3, <2>5, <2>6, EndedBy
<1>2. MatchInv /\ [Next]_vars => Tells
  BY <1>1
<1> HIDE DEF Tells
<1>3. Spec => [][Tells]_vars
  BY <1>2, MatchInvariant, PTL DEF Spec
<1> QED
  BY <1>3 DEF EndsAreTold, Tells

=============================================================================
