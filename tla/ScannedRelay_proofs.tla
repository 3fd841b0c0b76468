------------------------ MODULE ScannedRelay_proofs ------------------------
(***************************************************************************)
(* Theorems about ScannedRelay, for any users, groups, connections,        *)
(* addresses and events, and any set of condemned addresses.               *)
(***************************************************************************)
EXTENDS ScannedRelay, SequenceTheorems, FiniteSetTheorems, TLAPS

-----------------------------------------------------------------------------
(* Types                                                                   *)

\* The types before the first connection.
LEMMA TypeInit == Init => TypeOK
  BY ScannedRelayAssumption DEF Init, TypeOK, Readers, ReaderOK, Waiting, Copies

\* What is left of a list without its first element.
LEMMA TailType ==
  ASSUME NEW S, NEW q \in Seq(S), q # <<>>
  PROVE  Tail(q) \in Seq(S) /\ Head(q) \in S /\ (Len(q) # 1 => Tail(q) # <<>>)
<1>1. /\ Tail(q) \in Seq(S) /\ Head(q) \in S
      /\ Len(Tail(q)) = Len(q) - 1
      /\ Len(q) \in Nat
  BY HeadTailProperties, LenProperties
<1>2. Tail(q) = <<>> => Len(Tail(q)) = 0
  BY <1>1, EmptySeq
<1> QED
  BY <1>1, <1>2

\* A reader that moves to another record with what its place needs keeps the types of the rest.
LEMMA ReaderType ==
  ASSUME TypeOK, NEW c \in Conns, NEW r \in Readers, ReaderOK(r, userID'[c]),
         reader' = [reader EXCEPT ![c] = r], \A d \in Conns \ {c} : userID'[d] = userID[d]
  PROVE  reader' \in [Conns -> Readers] /\ \A d \in Conns : ReaderOK(reader'[d], userID'[d])
<1>1. reader \in [Conns -> Readers] /\ \A d \in Conns : ReaderOK(reader[d], userID[d])
  BY DEF TypeOK
<1> QED
  BY <1>1

\* What Advance makes of a reader that has a recipient.
LEMMA AdvanceType ==
  ASSUME TypeOK, NEW c \in Conns, reader[c].pc \in {"look", "send", "queue"}, Advance(c),
         UNCHANGED userID
  PROVE  reader' \in [Conns -> Readers] /\ \A d \in Conns : ReaderOK(reader'[d], userID'[d])
<1> DEFINE o == reader[c]
           p == IF Len(o.rest) = 1 THEN "idle" ELSE "look"
           ms == IF Len(o.rest) = 1 THEN <<>> ELSE o.msg
           us == Tail(o.rest)
           r == [o EXCEPT !.rest = us, !.to = NoConn, !.msg = ms, !.pc = p]
<1>1. o \in Readers /\ ReaderOK(o, userID[c])
  BY DEF TypeOK
<1>2. o.rest \in Seq(Users) /\ o.rest # <<>> /\ o.msg \in Seq(Msgs) /\ o.msg # <<>>
  BY <1>1 DEF Readers, ReaderOK
<1>3. us \in Seq(Users) /\ (Len(o.rest) # 1 => us # <<>>)
  BY <1>2, TailType
<1>4. reader' = [reader EXCEPT ![c] = r]
  BY DEF Advance
<1> HIDE DEF o, us
<1>5. /\ p \in {"idle", "look"}
      /\ ms \in Seq(Msgs)
      /\ p = "look" => ms # <<>> /\ us # <<>>
  <2>1. CASE Len(o.rest) = 1
    BY <2>1, EmptySeq
  <2>2. CASE Len(o.rest) # 1
    BY <1>2, <1>3, <2>2
  <2> QED
    BY <2>1, <2>2
<1> HIDE DEF p, ms
<1>6. r = [o EXCEPT !.rest = us, !.to = NoConn, !.msg = ms, !.pc = p]
  OBVIOUS
<1> HIDE DEF r
<1>7. r \in Readers /\ r.pc = p /\ r.msg = ms /\ r.rest = us
  BY <1>1, <1>3, <1>5, <1>6 DEF Readers
<1>8. ReaderOK(r, userID[c])
  BY <1>5, <1>7 DEF ReaderOK
<1> QED
  BY <1>4, <1>7, <1>8, ReaderType

\* The types of what a reader's step leaves or changes besides its place.
Shared ==
  /\ connectedUsers \in [Users -> Conns \cup {NoConn}]
  /\ pendingMessages \in [Users -> Seq(Msgs)]
  /\ deliveredMessageIds \subseteq Msgs
  /\ groups \in [Groups -> Seq(Users)]
  /\ blacklist \subseteq Users \cup Addresses
  /\ conn \in [Conns -> {"new", "open", "closed"}]
  /\ userID \in [Conns -> Users \cup {NoUser}]
  /\ scan \in [Conns -> {"none", "running", "node"}]
  /\ calls \subseteq Conns \X (Users \cup Addresses)
  /\ got \in [Copies -> Nat] /\ sends \in [Msgs -> Nat] /\ forgotten \in [Msgs -> Nat]
  /\ latest \in [Users -> Conns \cup {NoConn}]
  /\ taken \subseteq Users
  /\ slipped \subseteq Conns

\* What each reader has, which its place requires.
AtPlaces == reader \in [Conns -> Readers] /\ \A c \in Conns : ReaderOK(reader[c], userID[c])

\* TypeOK in two parts, which the steps treat apart.
LEMMA TypeParts == TypeOK <=> Shared /\ AtPlaces
  BY DEF TypeOK, Shared, AtPlaces

\* What is written to a connection is a number of copies.
LEMMA WriteType ==
  ASSUME TypeOK, NEW m \in Msgs, NEW u \in Users, NEW d, Write(m, u, d)
  PROVE  got' \in [Copies -> Nat]
<1>1. got \in [Copies -> Nat] /\ <<m, u>> \in Copies
  BY DEF TypeOK, Copies
<1> QED
  BY <1>1 DEF Write

\* The list of those a frame is for.
LEMMA RecipientsType ==
  ASSUME TypeOK, NEW m \in Msgs
  PROVE  Recipients(m) \in Seq(Users)
<1>1. CASE Kind[m] = "group"
  BY <1>1, ScannedRelayAssumption DEF Recipients, TypeOK
<1>2. CASE Kind[m] # "group"
  <2>1. Dest[m] \in Users
    BY <1>2, ScannedRelayAssumption
  <2> QED
    BY <1>2, <2>1 DEF Recipients
<1> QED
  BY <1>1, <1>2

\* One step per place of a reader, and per event outside.
LEMMA TypeStep == TypeOK /\ [Next]_vars => TypeOK'
<1> SUFFICES ASSUME TypeOK, [Next]_vars PROVE Shared' /\ AtPlaces'
  BY DEF TypeOK, Shared, AtPlaces
<1> USE DEF mapVars, pastVars
<1>1. Shared /\ AtPlaces
  BY TypeParts
<1>2. ASSUME NEW c \in Conns, Upgrade(c) \/ Break(c) \/ Refuse(c)
      PROVE  Shared' /\ AtPlaces'
  <2>1. CASE Upgrade(c)
    BY <1>1, <2>1 DEF Shared, AtPlaces, Upgrade
  <2>2. CASE Break(c)
    BY <1>1, <2>2 DEF Shared, AtPlaces, Break
  <2>3. CASE Refuse(c)
    BY <1>1, <2>3 DEF Shared, AtPlaces, Refuse
  <2> QED
    BY <1>2, <2>1, <2>2, <2>3
<1>3. ASSUME NEW c \in Conns, Finish(c)
      PROVE  Shared' /\ AtPlaces'
  <2>1. Shared'
    BY <1>1, <1>3 DEF Shared, Finish
  <2> DEFINE r == [reader[c] EXCEPT !.pc = "done"]
  <2>2. r \in Readers /\ r.pc = "done" /\ reader' = [reader EXCEPT ![c] = r]
    BY <1>1, <1>3 DEF AtPlaces, Readers, Finish
  <2>3. ReaderOK(r, userID'[c]) /\ UNCHANGED userID
    BY <1>3, <2>2 DEF ReaderOK, Finish
  <2> HIDE DEF r
  <2> QED
    BY <2>1, <2>2, <2>3, ReaderType DEF AtPlaces
<1>4. ASSUME NEW c \in Conns, NEW u \in Users, Register(c, u)
      PROVE  Shared' /\ AtPlaces'
  <2>1. Shared'
    BY <1>1, <1>4 DEF Shared, Register
  <2> DEFINE r == [reader[c] EXCEPT !.pc = "name", !.user = u]
  <2>2. r \in Readers /\ r.pc = "name" /\ r.user = u /\ reader' = [reader EXCEPT ![c] = r]
    BY <1>1, <1>4 DEF AtPlaces, Readers, Register
  <2>3. ReaderOK(r, userID'[c]) /\ UNCHANGED userID
    BY <1>4, <2>2 DEF ReaderOK, Register
  <2> HIDE DEF r
  <2> QED
    BY <2>1, <2>2, <2>3, ReaderType DEF AtPlaces
<1>5. ASSUME NEW c \in Conns, Name(c)
      PROVE  Shared' /\ AtPlaces'
  <2>1. reader[c].user \in Users
    BY <1>1, <1>5 DEF AtPlaces, ReaderOK, Name
  <2>2. Shared' /\ userID'[c] \in Users
    BY <1>1, <1>5, <2>1 DEF Shared, Name
  <2> DEFINE r == [reader[c] EXCEPT !.pc = "list"]
  <2>3. r \in Readers /\ r.pc = "list" /\ reader' = [reader EXCEPT ![c] = r]
    BY <1>1, <1>5 DEF AtPlaces, Readers, Name
  <2>4. ReaderOK(r, userID'[c]) /\ \A d \in Conns \ {c} : userID'[d] = userID[d]
    BY <1>1, <1>5, <2>2, <2>3 DEF ReaderOK, Name, Shared
  <2> HIDE DEF r
  <2> QED
    BY <2>2, <2>3, <2>4, ReaderType DEF AtPlaces
<1>6. ASSUME NEW c \in Conns, List(c)
      PROVE  Shared' /\ AtPlaces'
  <2>1. userID[c] \in Users
    BY <1>1, <1>6 DEF AtPlaces, ReaderOK, List
  <2>2. Shared'
    BY <1>1, <1>6, <2>1 DEF Shared, List
  <2> DEFINE r == [reader[c] EXCEPT !.pc = "pop"]
  <2>3. r \in Readers /\ r.pc = "pop" /\ reader' = [reader EXCEPT ![c] = r]
    BY <1>1, <1>6 DEF AtPlaces, Readers, List
  <2>4. ReaderOK(r, userID'[c]) /\ UNCHANGED userID
    BY <1>6, <2>1, <2>3 DEF ReaderOK, List
  <2> HIDE DEF r
  <2> QED
    BY <2>2, <2>3, <2>4, ReaderType DEF AtPlaces
<1>7. ASSUME NEW c \in Conns, Pop(c)
      PROVE  Shared' /\ AtPlaces'
  <2> DEFINE q == pendingMessages[userID[c]]
             r == [reader[c] EXCEPT !.msg = q, !.pc = IF q = <<>> THEN "idle" ELSE "flush"]
  <2>1. userID[c] \in Users /\ q \in Seq(Msgs)
    BY <1>1, <1>7 DEF Shared, AtPlaces, ReaderOK, Pop
  <2>2. Shared'
    BY <1>1, <1>7, <2>1 DEF Shared, Pop
  <2>3. reader' = [reader EXCEPT ![c] = r] /\ UNCHANGED userID
    BY <1>7 DEF Pop
  <2> HIDE DEF q
  <2>4. /\ r \in Readers /\ r.msg = q
        /\ r.pc = "idle" \/ (r.pc = "flush" /\ q # <<>>)
    BY <1>1, <2>1 DEF AtPlaces, Readers
  <2> HIDE DEF r
  <2>5. ReaderOK(r, userID'[c])
    BY <2>1, <2>3, <2>4 DEF ReaderOK
  <2> QED
    BY <2>2, <2>3, <2>4, <2>5, ReaderType DEF AtPlaces
<1>8. ASSUME NEW c \in Conns, Flush(c)
      PROVE  Shared' /\ AtPlaces'
  <2> DEFINE o == reader[c]
             p == IF Len(o.msg) = 1 THEN "idle" ELSE "flush"
             r == [o EXCEPT !.msg = Tail(o.msg), !.pc = p]
  <2>1. o \in Readers /\ userID[c] \in Users /\ o.msg \in Seq(Msgs) /\ o.msg # <<>>
    BY <1>1, <1>8 DEF AtPlaces, Readers, ReaderOK, Flush
  <2>2. Tail(o.msg) \in Seq(Msgs) /\ Head(o.msg) \in Msgs /\ (Len(o.msg) # 1 => Tail(o.msg) # <<>>)
    BY <2>1, TailType
  <2>3. Shared'
    <3>1. got' \in [Copies -> Nat]
      BY <1>8, <2>1, <2>2, WriteType DEF Flush
    <3> QED
      BY <1>1, <1>8, <3>1 DEF Shared, Flush
  <2>4. reader' = [reader EXCEPT ![c] = r] /\ UNCHANGED userID
    BY <1>8 DEF Flush
  <2>5. /\ r \in Readers /\ r.msg = Tail(o.msg)
        /\ r.pc = "idle" \/ (r.pc = "flush" /\ r.msg # <<>>)
    BY <2>1, <2>2 DEF Readers
  <2> HIDE DEF r
  <2>6. ReaderOK(r, userID'[c])
    BY <2>1, <2>4, <2>5 DEF ReaderOK
  <2> QED
    BY <2>3, <2>4, <2>5, <2>6, ReaderType DEF AtPlaces
<1>9. ASSUME NEW c \in Conns, NEW g \in Groups, NEW members \in MemberLists,
             GroupCreate(c, g, members)
      PROVE  Shared' /\ AtPlaces'
  BY <1>1, <1>9, ScannedRelayAssumption DEF Shared, AtPlaces, GroupCreate
<1>10. ASSUME NEW c \in Conns, NEW m \in Msgs, Take(c, m)
       PROVE  Shared' /\ AtPlaces'
  <2>1. Shared' /\ UNCHANGED userID
    BY <1>1, <1>10 DEF Shared, Take
  <2>2. CASE UNCHANGED reader
    BY <1>1, <2>1, <2>2 DEF AtPlaces
  <2>3. CASE reader' # reader
    <3> DEFINE r == [reader[c] EXCEPT !.pc = "look", !.msg = <<m>>, !.rest = Recipients(m)]
    <3>1. Recipients(m) # <<>> /\ reader' = [reader EXCEPT ![c] = r]
      BY <1>10, <2>3 DEF Take
    <3>2. <<m>> \in Seq(Msgs) /\ <<m>> # <<>> /\ Recipients(m) \in Seq(Users)
      BY RecipientsType
    <3>3. reader[c] \in Readers
      BY <1>1 DEF AtPlaces
    <3>4. /\ r \in Readers
          /\ r.pc = "look" /\ r.msg = <<m>> /\ r.rest = Recipients(m)
      BY <3>2, <3>3 DEF Readers
    <3> HIDE DEF r
    <3>5. ReaderOK(r, userID'[c])
      BY <3>1, <3>2, <3>4 DEF ReaderOK
    <3> QED
      BY <2>1, <3>1, <3>4, <3>5, ReaderType DEF AtPlaces
  <2> QED
    BY <2>2, <2>3
<1>11. ASSUME NEW c \in Conns, Look(c)
       PROVE  Shared' /\ AtPlaces'
  <2> DEFINE u == Head(reader[c].rest)
  <2>1. Shared' /\ UNCHANGED userID
    BY <1>1, <1>11 DEF Shared, Look
  <2>2. /\ u \in Users
        /\ reader[c].pc = "look" /\ reader[c].msg # <<>> /\ reader[c].rest # <<>>
    <3>1. reader[c].rest \in Seq(Users) /\ reader[c].rest # <<>>
      BY <1>1, <1>11 DEF AtPlaces, Readers, ReaderOK, Look
    <3> QED
      BY <1>1, <1>11, <3>1, HeadTailProperties DEF AtPlaces, ReaderOK, Look
  <2>3. CASE Advance(c)
    BY <2>1, <2>2, <2>3, AdvanceType DEF AtPlaces
  <2>4. CASE reader' = [reader EXCEPT ![c].pc = "send", ![c].to = connectedUsers[u]]
              /\ connectedUsers[u] # NoConn
    <3> DEFINE r == [reader[c] EXCEPT !.pc = "send", !.to = connectedUsers[u]]
    <3>1. connectedUsers[u] \in Conns
      BY <1>1, <2>2, <2>4 DEF Shared
    <3>2. /\ r \in Readers /\ reader' = [reader EXCEPT ![c] = r]
          /\ r.pc = "send" /\ r.to = connectedUsers[u]
          /\ r.msg = reader[c].msg /\ r.rest = reader[c].rest
      BY <1>1, <2>4, <3>1 DEF AtPlaces, Readers
    <3> HIDE DEF r
    <3>3. ReaderOK(r, userID'[c])
      BY <2>2, <3>1, <3>2 DEF ReaderOK
    <3> QED
      BY <2>1, <3>2, <3>3, ReaderType DEF AtPlaces
  <2>5. CASE reader' = [reader EXCEPT ![c].pc = "queue"]
    <3> DEFINE r == [reader[c] EXCEPT !.pc = "queue"]
    <3>1. /\ r \in Readers /\ reader' = [reader EXCEPT ![c] = r]
          /\ r.pc = "queue" /\ r.msg = reader[c].msg /\ r.rest = reader[c].rest
      BY <1>1, <2>5 DEF AtPlaces, Readers
    <3> HIDE DEF r
    <3>2. ReaderOK(r, userID'[c])
      BY <2>2, <3>1 DEF ReaderOK
    <3> QED
      BY <2>1, <3>1, <3>2, ReaderType DEF AtPlaces
  <2> QED
    BY <1>11, <2>3, <2>4, <2>5 DEF Look
<1>12. ASSUME NEW c \in Conns, Send(c) \/ Queue(c)
       PROVE  Shared' /\ AtPlaces'
  <2>1. /\ Advance(c) /\ UNCHANGED userID
        /\ reader[c].pc \in {"look", "send", "queue"}
    BY <1>12 DEF Send, Queue
  <2>2. /\ reader[c].rest \in Seq(Users) /\ reader[c].rest # <<>>
        /\ reader[c].msg \in Seq(Msgs) /\ reader[c].msg # <<>>
    BY <1>1, <2>1 DEF AtPlaces, Readers, ReaderOK
  <2>3. Head(reader[c].rest) \in Users /\ Head(reader[c].msg) \in Msgs
    BY <2>2, HeadTailProperties
  <2>4. CASE Send(c)
    <3>1. got' \in [Copies -> Nat]
      BY <2>3, <2>4, WriteType DEF Send
    <3>2. Shared'
      BY <1>1, <2>4, <3>1 DEF Shared, Send
    <3> QED
      BY <2>1, <3>2, AdvanceType DEF AtPlaces
  <2>5. CASE Queue(c)
    <3> DEFINE q == Append(pendingMessages[Head(reader[c].rest)], Head(reader[c].msg))
    <3>1. q \in Seq(Msgs)
      BY <1>1, <2>3, AppendProperties DEF Shared
    <3>2. pendingMessages' = [pendingMessages EXCEPT ![Head(reader[c].rest)] = q]
      BY <2>5 DEF Queue
    <3> HIDE DEF q
    <3>3. pendingMessages' \in [Users -> Seq(Msgs)]
      BY <1>1, <3>1, <3>2 DEF Shared
    <3>4. Shared'
      BY <1>1, <2>5, <3>3 DEF Shared, Queue
    <3> QED
      BY <2>1, <3>4, AdvanceType DEF AtPlaces
  <2> QED
    BY <1>12, <2>4, <2>5
<1>13. ASSUME NEW c \in Conns, Scan(c) \/ ScanNode(c)
       PROVE  Shared' /\ AtPlaces'
  <2>1. IP[c] \in Addresses
    BY ScannedRelayAssumption
  <2>2. CASE Scan(c)
    BY <1>1, <2>1, <2>2 DEF Shared, AtPlaces, Scan
  <2>3. CASE ScanNode(c)
    BY <1>1, <2>3 DEF Shared, AtPlaces, ScanNode
  <2> QED
    BY <1>13, <2>2, <2>3
<1>14. ASSUME NEW m \in Msgs, Cleanup(m)
       PROVE  Shared' /\ AtPlaces'
  BY <1>1, <1>14 DEF Shared, AtPlaces, Cleanup
<1>15. ASSUME NEW k \in calls, Disconnect(k)
       PROVE  Shared' /\ AtPlaces'
  BY <1>1, <1>15 DEF Shared, AtPlaces, Disconnect
<1>16. CASE UNCHANGED vars
  BY <1>1, <1>16 DEF Shared, AtPlaces, vars
<1> QED
  BY <1>2, <1>3, <1>4, <1>5, <1>6, <1>7, <1>8, <1>9, <1>10, <1>11, <1>12, <1>13, <1>14, <1>15,
     <1>16 DEF Next

\* Every map and every reader keeps its type: a reader at its place always has the recipients,
\* the event or the connection the next step will use.
THEOREM TypeCorrect == Spec => []TypeOK
  BY TypeInit, TypeStep, PTL DEF Spec

-----------------------------------------------------------------------------
(* The map and the verdicts                                                *)

\* The steps that change none of what the map and the verdicts are about.
Aside == UNCHANGED <<connectedUsers, blacklist, conn, userID, calls, latest, taken, slipped>>

\* Most of what a reader does is aside of the map.
LEMMA ReadersAside ==
  ASSUME NEW c \in Conns,
         \/ \E u \in Users : Register(c, u)
         \/ Pop(c) \/ Flush(c) \/ Look(c) \/ Send(c) \/ Queue(c)
         \/ \E g \in Groups, members \in MemberLists : GroupCreate(c, g, members)
         \/ \E m \in Msgs : Take(c, m)
  PROVE  Aside
  BY DEF Aside, mapVars, pastVars, Register, Pop, Flush, Look, Send, Queue, GroupCreate, Take

\* A reader that is done got there by Finish, and does not rename itself.
LEMMA DoneByFinish ==
  ASSUME TypeOK, [Next]_vars, NEW c \in Conns, ~Finish(c), reader'[c].pc = "done"
  PROVE  reader[c].pc = "done" /\ userID'[c] = userID[c]
<1> USE DEF mapVars, pastVars
<1>1. reader \in [Conns -> Readers] /\ userID \in [Conns -> Users \cup {NoUser}]
  BY DEF TypeOK
<1>2. ASSUME NEW d \in Conns, Upgrade(d) \/ Break(d) \/ Refuse(d) \/ Scan(d) \/ ScanNode(d)
      PROVE  reader' = reader /\ userID' = userID
  BY <1>2 DEF Upgrade, Break, Refuse, Scan, ScanNode
<1>3. ASSUME NEW d \in Conns,
             \/ Finish(d) \/ Name(d) \/ List(d) \/ Pop(d) \/ Flush(d)
             \/ \E u \in Users : Register(d, u)
      PROVE  reader[c].pc = "done" /\ userID'[c] = userID[c]
  BY <1>1, <1>3 DEF Finish, Name, List, Pop, Flush, Register, Readers
<1>4. ASSUME NEW d \in Conns,
             \/ Look(d) \/ Send(d) \/ Queue(d)
             \/ \E m \in Msgs : Take(d, m)
      PROVE  reader[c].pc = "done" /\ userID'[c] = userID[c]
  <2>1. userID' = userID
    BY <1>4 DEF Look, Send, Queue, Take
  <2>2. CASE Advance(d)
    BY <1>1, <2>1, <2>2 DEF Advance, Readers
  <2>3. ASSUME NEW r, r.pc # "done", reader' = [reader EXCEPT ![d] = r]
        PROVE  reader[c].pc = "done"
    BY <1>1, <2>3
  <2>4. CASE Look(d) /\ ~Advance(d)
    <3>1. \/ \E e : reader' = [reader EXCEPT ![d] = [reader[d] EXCEPT !.pc = "send", !.to = e]]
          \/ reader' = [reader EXCEPT ![d] = [reader[d] EXCEPT !.pc = "queue"]]
      BY <2>4 DEF Look
    <3>2. /\ \A e : [reader[d] EXCEPT !.pc = "send", !.to = e].pc = "send"
          /\ [reader[d] EXCEPT !.pc = "queue"].pc = "queue"
      BY <1>1 DEF Readers
    <3>3. CASE reader' = [reader EXCEPT ![d] = [reader[d] EXCEPT !.pc = "queue"]]
      BY <2>1, <2>3, <3>2, <3>3
    <3>4. CASE \E e : reader' = [reader EXCEPT ![d] = [reader[d] EXCEPT !.pc = "send", !.to = e]]
      <4>1. PICK e : reader' = [reader EXCEPT ![d] = [reader[d] EXCEPT !.pc = "send", !.to = e]]
        BY <3>4
      <4> QED
        BY <2>1, <2>3, <3>2, <4>1
    <3> QED
      BY <3>1, <3>3, <3>4
  <2>5. CASE \E m \in Msgs : Take(d, m)
    <3>1. PICK m \in Msgs : Take(d, m)
      BY <2>5
    <3>2. \/ reader' = reader
          \/ reader' = [reader EXCEPT ![d] =
                          [reader[d] EXCEPT !.pc = "look", !.msg = <<m>>, !.rest = Recipients(m)]]
      BY <3>1 DEF Take
    <3>3. [reader[d] EXCEPT !.pc = "look", !.msg = <<m>>, !.rest = Recipients(m)].pc = "look"
      BY <1>1 DEF Readers
    <3> QED
      BY <2>1, <2>3, <3>2, <3>3
  <2> QED
    BY <1>4, <2>2, <2>4, <2>5 DEF Send, Queue
<1>5. ASSUME \/ \E d \in Conns, g \in Groups, members \in MemberLists : GroupCreate(d, g, members)
             \/ \E m \in Msgs : Cleanup(m)
             \/ \E k \in calls : Disconnect(k)
             \/ UNCHANGED vars
      PROVE  reader' = reader /\ userID' = userID
  BY <1>5 DEF GroupCreate, Cleanup, Disconnect, vars
<1> QED
  BY <1>2, <1>3, <1>4, <1>5 DEF Next

\* A connection that has not been opened has no reader at work and nobody's entry.
Fresh ==
  \A c \in Conns :
    conn[c] = "new" => reader[c].pc = "idle" /\ \A u \in Users : latest[u] # c

\* A connection is opened before its reader works.
LEMMA FreshStep == TypeOK /\ Fresh /\ [Next]_vars => Fresh'
<1> SUFFICES ASSUME TypeOK, Fresh, [Next]_vars, NEW c \in Conns, conn'[c] = "new"
             PROVE  reader'[c].pc = "idle" /\ \A u \in Users : latest'[u] # c
  BY DEF Fresh
<1> DEFINE New == reader'[c].pc = "idle" /\ \A u \in Users : latest'[u] # c
<1> USE DEF mapVars, pastVars
<1>1. /\ reader \in [Conns -> Readers] /\ conn \in [Conns -> {"new", "open", "closed"}]
      /\ latest \in [Users -> Conns \cup {NoConn}] /\ userID \in [Conns -> Users \cup {NoUser}]
  BY DEF TypeOK
<1>2. ASSUME NEW d \in Conns, Upgrade(d) \/ Break(d) \/ Refuse(d) \/ Scan(d) \/ ScanNode(d)
      PROVE  New
  BY <1>1, <1>2 DEF Fresh, Upgrade, Break, Refuse, Scan, ScanNode
<1>3. ASSUME NEW d \in Conns,
             \/ Finish(d) \/ Name(d) \/ List(d) \/ Pop(d) \/ Flush(d)
             \/ \E u \in Users : Register(d, u)
      PROVE  New
  BY <1>1, <1>3 DEF Fresh, Finish, Name, List, Pop, Flush, Register, Takes
<1>4. ASSUME NEW d \in Conns,
             \/ Look(d) \/ Send(d) \/ Queue(d)
             \/ \E m \in Msgs : Take(d, m)
      PROVE  New
  BY <1>1, <1>4 DEF Fresh, Look, Send, Queue, Take, Takes, Advance
<1>5. ASSUME \/ \E d \in Conns, g \in Groups, members \in MemberLists : GroupCreate(d, g, members)
             \/ \E m \in Msgs : Cleanup(m)
             \/ UNCHANGED vars
      PROVE  New
  BY <1>5 DEF Fresh, GroupCreate, Cleanup, vars
<1>6. ASSUME NEW k \in calls, Disconnect(k)
      PROVE  New
  BY <1>1, <1>6 DEF Fresh, Disconnect
<1> QED
  BY <1>2, <1>3, <1>4, <1>5, <1>6 DEF Next

\* What a callback is about is on the blacklist.
MapInv ==
  /\ TypeOK
  /\ Fresh
  /\ \A k \in calls : k[2] \in blacklist
  /\ EntriesLead
  /\ VerdictHolds

\* MapInv before the first connection.
LEMMA MapInit == Init => MapInv
<1> SUFFICES ASSUME Init PROVE MapInv
  OBVIOUS
<1>1. TypeOK
  BY TypeInit
<1>2. Fresh /\ (\A k \in calls : k[2] \in blacklist)
  BY ScannedRelayAssumption DEF Init, Fresh, Waiting
<1>3. EntriesLead /\ VerdictHolds
  BY ScannedRelayAssumption DEF Init, EntriesLead, VerdictHolds, Waiting
<1> QED
  BY <1>1, <1>2, <1>3 DEF MapInv

\* Every step keeps MapInv.
LEMMA MapStep == MapInv /\ [Next]_vars => MapInv'
<1> SUFFICES ASSUME MapInv, [Next]_vars PROVE MapInv'
  OBVIOUS
<1> USE ScannedRelayAssumption DEF mapVars, pastVars
<1>1. /\ TypeOK /\ TypeOK' /\ Fresh /\ Fresh' /\ EntriesLead /\ VerdictHolds
      /\ \A k \in calls : k[2] \in blacklist
  BY TypeStep, FreshStep DEF MapInv
<1>2. /\ connectedUsers \in [Users -> Conns \cup {NoConn}]
      /\ latest \in [Users -> Conns \cup {NoConn}]
      /\ userID \in [Conns -> Users \cup {NoUser}]
      /\ conn \in [Conns -> {"new", "open", "closed"}]
      /\ taken \subseteq Users
      /\ reader \in [Conns -> Readers]
      /\ calls \subseteq Conns \X (Users \cup Addresses)
  BY <1>1 DEF TypeOK
<1> DEFINE Ended(u, c) == connectedUsers[u] = c /\ reader[c].pc = "done" => userID[c] # u
           Found(u, c) == latest[u] = c /\ conn[c] = "open"
                            => \/ connectedUsers[u] = c \/ u \in taken
                               \/ {IP[c], u} \cap blacklist # {}
           Judged(u, c) == connectedUsers[u] = c /\ (IP[c] \in blacklist \/ u \in blacklist)
                             => \/ c \in slipped
                                \/ \E k \in calls : k[2] \in {u, IP[c]}
<1>3. \A u \in Users, c \in Conns : Ended(u, c) /\ Found(u, c) /\ Judged(u, c)
  BY <1>1 DEF EntriesLead, VerdictHolds
<1>4. SUFFICES /\ \A u \in Users, c \in Conns : Ended(u, c)' /\ Found(u, c)' /\ Judged(u, c)'
               /\ \A k \in calls' : k[2] \in blacklist'
  BY <1>1 DEF MapInv, EntriesLead, VerdictHolds
<1> DEFINE Holds == /\ \A u \in Users, c \in Conns : Ended(u, c)' /\ Found(u, c)' /\ Judged(u, c)'
                    /\ \A k \in calls' : k[2] \in blacklist'
<1>5. ASSUME NEW u \in Users, NEW c \in Conns, connectedUsers[u] = c \/ connectedUsers'[u] # c
      PROVE  Ended(u, c)'
  <2>1. CASE Finish(c)
    BY <1>2, <2>1 DEF Finish
  <2>2. CASE ~Finish(c)
    BY <1>1, <1>3, <1>5, <2>2, DoneByFinish
  <2> QED
    BY <2>1, <2>2
<1>6. ASSUME Aside \/ (\E d \in Conns : Name(d)) \/ (\E m \in Msgs : Cleanup(m)) \/ UNCHANGED vars
      PROVE  Holds
  <2>1. UNCHANGED <<connectedUsers, blacklist, conn, calls, latest, taken, slipped>>
    BY <1>6 DEF Aside, Name, Cleanup, vars
  <2>2. \A u \in Users, c \in Conns : Ended(u, c)'
    BY <1>5, <2>1
  <2> QED
    BY <1>1, <1>3, <2>1, <2>2
<1>7. ASSUME NEW d \in Conns, Upgrade(d) \/ Break(d) \/ Refuse(d)
      PROVE  Holds
  <2>1. /\ UNCHANGED <<connectedUsers, blacklist, calls, latest, taken, slipped>>
        /\ \A c \in Conns : conn'[c] = "open" => conn[c] = "open" \/ conn[c] = "new"
    BY <1>2, <1>7 DEF Upgrade, Break, Refuse
  <2>2. \A u \in Users, c \in Conns : Ended(u, c)'
    BY <1>5, <2>1
  <2>3. \A u \in Users, c \in Conns : Found(u, c)'
    BY <1>1, <1>3, <2>1 DEF Fresh
  <2> QED
    BY <1>1, <1>3, <2>1, <2>2, <2>3
<1>8. ASSUME NEW d \in Conns, Finish(d)
      PROVE  Holds
  <2>1. /\ UNCHANGED <<blacklist, conn, calls, latest, slipped>>
        /\ \A u \in Users : connectedUsers'[u] = connectedUsers[u]
                             \/ /\ connectedUsers'[u] = NoConn
                                /\ connectedUsers[u] = d \/ u \in taken'
        /\ taken \subseteq taken'
        /\ conn[d] = "closed"
    BY <1>2, <1>8 DEF Finish
  <2>2. \A u \in Users, c \in Conns : Ended(u, c)'
    BY <1>5, <2>1
  <2>3. \A u \in Users, c \in Conns : Found(u, c)'
    BY <1>3, <2>1
  <2>4. \A u \in Users, c \in Conns : Judged(u, c)'
    BY <1>3, <2>1
  <2> QED
    BY <1>1, <2>1, <2>2, <2>3, <2>4
<1>9. ASSUME NEW d \in Conns, List(d)
      PROVE  Holds
  <2> DEFINE w == userID[d]
  <2>1. /\ UNCHANGED <<blacklist, conn, calls, userID>>
        /\ w \in Users
        /\ connectedUsers'[w] = d /\ latest'[w] = d
        /\ \A u \in Users \ {w} : /\ connectedUsers'[u] = connectedUsers[u]
                                  /\ latest'[u] = latest[u]
                                  /\ u \in taken => u \in taken'
        /\ slipped \subseteq slipped'
        /\ Blocked(d) => d \in slipped'
        /\ reader'[d].pc = "pop"
    BY <1>1, <1>2, <1>9 DEF List, TypeOK, ReaderOK, Readers
  <2>2. ASSUME NEW u \in Users, NEW c \in Conns
        PROVE  Ended(u, c)' /\ Found(u, c)' /\ Judged(u, c)'
    <3>1. CASE u = w
      <4>1. Ended(u, c)' /\ Found(u, c)'
        BY <2>1, <3>1
      <4>2. Judged(u, c)'
        BY <2>1, <3>1 DEF Blocked
      <4> QED
        BY <4>1, <4>2
    <3>2. CASE u # w
      BY <1>3, <1>5, <2>1, <3>2
    <3> QED
      BY <3>1, <3>2
  <2> QED
    BY <1>1, <2>1, <2>2
<1>10. ASSUME NEW d \in Conns, Scan(d) \/ ScanNode(d)
       PROVE  Holds
  <2>1. /\ UNCHANGED <<connectedUsers, conn, latest, taken, slipped>>
        /\ blacklist \subseteq blacklist' /\ calls \subseteq calls'
        /\ \A x \in blacklist' \ blacklist : \E k \in calls' : k[2] = x
        /\ \A k \in calls' : k \in calls \/ k[2] \in blacklist'
    <3>1. CASE Scan(d)
      <4>1. /\ blacklist' = blacklist \cup {IP[d]} /\ calls' = calls \cup {<<d, IP[d]>>}
            /\ <<d, IP[d]>>[2] = IP[d]
        BY <3>1 DEF Scan
      <4> QED
        BY <3>1, <4>1 DEF Scan
    <3>2. CASE ScanNode(d)
      <4> DEFINE named == {userID[d]} \ {NoUser}
      <4>1. blacklist' = blacklist \cup named /\ calls' = calls \cup {<<d, u>> : u \in named}
        BY <3>2 DEF ScanNode
      <4> HIDE DEF named
      <4>2. \A u \in named : <<d, u>> \in calls' /\ <<d, u>>[2] = u
        BY <4>1
      <4>3. \A x \in blacklist' \ blacklist : \E k \in calls' : k[2] = x
        BY <4>1, <4>2
      <4>4. \A k \in calls' : k \in calls \/ k[2] \in blacklist'
        BY <4>1
      <4> QED
        BY <3>2, <4>1, <4>3, <4>4 DEF ScanNode
    <3> QED
      BY <1>10, <3>1, <3>2
  <2>2. \A u \in Users, c \in Conns : Ended(u, c)'
    BY <1>5, <2>1
  <2>3. \A u \in Users, c \in Conns : Found(u, c)'
    BY <1>3, <2>1
  <2>4. ASSUME NEW u \in Users, NEW c \in Conns
        PROVE  Judged(u, c)'
    <3>1. CASE IP[c] \in blacklist \/ u \in blacklist
      BY <1>3, <2>1, <3>1
    <3>2. CASE ~(IP[c] \in blacklist \/ u \in blacklist)
      BY <2>1, <3>2
    <3> QED
      BY <3>1, <3>2
  <2> QED
    BY <1>1, <2>1, <2>2, <2>3, <2>4
<1>11. ASSUME NEW k \in calls, Disconnect(k)
       PROVE  Holds
  <2>1. /\ UNCHANGED <<blacklist, latest, taken, slipped>>
        /\ calls' = calls \ {k}
        /\ \A u \in Users : connectedUsers'[u] = IF Matches(u, k[2]) THEN NoConn ELSE connectedUsers[u]
        /\ \A c \in Conns : conn'[c] = "open" => conn[c] = "open"
    BY <1>2, <1>11 DEF Disconnect
  <2>2. k[2] \in blacklist
    BY <1>1
  <2>3. \A u \in Users, c \in Conns : Ended(u, c)'
    BY <1>5, <2>1
  <2>4. ASSUME NEW u \in Users, NEW c \in Conns
        PROVE  Found(u, c)' /\ Judged(u, c)'
    BY <1>3, <2>1, <2>2 DEF Matches
  <2> QED
    BY <1>1, <2>1, <2>3, <2>4
<1> QED
  BY <1>6, <1>7, <1>8, <1>9, <1>10, <1>11, ReadersAside DEF Next

\* The map loses the connection that registered last as a user only to the close of an older
\* connection or to a verdict, and keeps no entry of a reader that is gone but under a former id.
THEOREM EntriesAreKept == Spec => []EntriesLead
<1>1. MapInv => EntriesLead
  BY DEF MapInv
<1> QED
  BY MapInit, MapStep, <1>1, PTL DEF Spec

\* However connections register, finish and are scanned at once, a verdict misses nobody in the
\* map but those inserted after a check made before it.
THEOREM VerdictsHold == Spec => []VerdictHolds
<1>1. MapInv => VerdictHolds
  BY DEF MapInv
<1> QED
  BY MapInit, MapStep, <1>1, PTL DEF Spec

-----------------------------------------------------------------------------
(* Copies in a list                                                        *)

\* A count is a number.
LEMMA CountType ==
  ASSUME NEW S, NEW q \in Seq(S), NEW x
  PROVE  /\ IsFiniteSet({i \in DOMAIN q : q[i] = x})
         /\ Count(q, x) \in Nat
<1>1. Len(q) \in Nat /\ DOMAIN q = 1..Len(q)
  OBVIOUS
<1>2. IsFiniteSet(1..Len(q))
  BY <1>1, FS_Interval
<1>3. {i \in DOMAIN q : q[i] = x} \in SUBSET (1..Len(q))
  BY <1>1
<1>4. IsFiniteSet({i \in DOMAIN q : q[i] = x})
  BY <1>2, <1>3, FS_Subset
<1> QED
  BY <1>4, FS_CardinalityType DEF Count

\* An empty list holds no copy.
LEMMA CountEmpty ==
  ASSUME NEW x
  PROVE  Count(<<>>, x) = 0
<1>1. {i \in DOMAIN <<>> : <<>>[i] = x} = {}
  OBVIOUS
<1> QED
  BY <1>1, FS_EmptySet DEF Count

\* A list of one holds it once.
LEMMA CountOne ==
  ASSUME NEW m, NEW x
  PROVE  Count(<<m>>, x) = IF x = m THEN 1 ELSE 0
<1>1. {i \in DOMAIN <<m>> : <<m>>[i] = x} = IF x = m THEN {1} ELSE {}
  OBVIOUS
<1> QED
  BY <1>1, FS_EmptySet, FS_Singleton DEF Count

\* A list that names nobody twice names each at most once.
LEMMA CountDistinct ==
  ASSUME NEW S, NEW q \in Seq(S), NEW x, \A i, j \in DOMAIN q : q[i] = q[j] => i = j
  PROVE  Count(q, x) <= 1
<1> DEFINE C == {i \in DOMAIN q : q[i] = x}
<1>0. Count(q, x) = Cardinality(C)
  BY DEF Count
<1>1. CASE C = {}
  <2>1. Cardinality(C) = 0
    BY <1>1, FS_EmptySet
  <2> QED
    BY <1>0, <2>1
<1>2. CASE C # {}
  <2>1. PICK i \in C : TRUE
    BY <1>2
  <2>2. C = {i}
    BY <2>1
  <2>3. Cardinality({i}) = 1
    BY FS_Singleton
  <2> HIDE DEF C
  <2> QED
    BY <1>0, <2>2, <2>3
<1> QED
  BY <1>1, <1>2

\* A list grows by one copy of what is appended.
LEMMA CountAppend ==
  ASSUME NEW S, NEW q \in Seq(S), NEW m \in S, NEW x
  PROVE  Count(Append(q, m), x) = Count(q, x) + (IF x = m THEN 1 ELSE 0)
<1> DEFINE n == Len(q)
           C(s) == {i \in DOMAIN s : s[i] = x}
<1>1. /\ n \in Nat
      /\ DOMAIN q = 1..n
      /\ DOMAIN Append(q, m) = 1..(n + 1)
      /\ \A i \in 1..n : Append(q, m)[i] = q[i]
      /\ Append(q, m)[n + 1] = m
  OBVIOUS
<1>2. IsFiniteSet(C(q)) /\ Cardinality(C(q)) = Count(q, x) /\ Count(q, x) \in Nat
  BY CountType DEF Count
<1>3. CASE x = m
  <2>1. C(Append(q, m)) = C(q) \cup {n + 1} /\ n + 1 \notin C(q)
    BY <1>1, <1>3
  <2> QED
    BY <1>2, <1>3, <2>1, FS_AddElement DEF Count
<1>4. CASE x # m
  <2>1. C(Append(q, m)) = C(q)
    BY <1>1, <1>4
  <2>2. Count(Append(q, m), x) = Count(q, x)
    BY <2>1 DEF Count
  <2> QED
    BY <1>2, <1>4, <2>2
<1> QED
  BY <1>3, <1>4

\* A list without its first element has a copy of that less.
LEMMA CountTail ==
  ASSUME NEW S, NEW q \in Seq(S), q # <<>>, NEW x
  PROVE  Count(q, x) = Count(Tail(q), x) + (IF x = Head(q) THEN 1 ELSE 0)
<1> DEFINE t == Tail(q)
           C(s) == {i \in DOMAIN s : s[i] = x}
           D == C(q) \ {1}
           f == [i \in C(t) |-> i + 1]
<1>1. /\ Len(q) \in Nat /\ Len(q) >= 1 /\ DOMAIN q = 1..Len(q)
      /\ DOMAIN t = 1..(Len(q) - 1)
      /\ \A i \in 1..(Len(q) - 1) : t[i] = q[i + 1]
      /\ Head(q) = q[1]
      /\ t \in Seq(S)
  <2>1. /\ Len(q) \in Nat /\ DOMAIN q = 1..Len(q) /\ Head(q) = q[1]
    OBVIOUS
  <2>2. Len(q) # 0
    BY EmptySeq
  <2>3. t \in Seq(S) /\ Len(t) = Len(q) - 1 /\ \A i \in 1..Len(t) : t[i] = q[i + 1]
    BY HeadTailProperties
  <2>4. DOMAIN t = 1..Len(t)
    BY <2>3, LenProperties
  <2> QED
    BY <2>1, <2>2, <2>3, <2>4
<1>2. f \in [C(t) -> D]
  BY <1>1
<1>3. \A i, j \in C(t) : f[i] = f[j] => i = j
  BY <1>1
<1>4. \A j \in D : \E i \in C(t) : f[i] = j
  <2> SUFFICES ASSUME NEW j \in D PROVE \E i \in C(t) : f[i] = j
    OBVIOUS
  <2>1. j \in 2..Len(q) /\ q[j] = x
    BY <1>1
  <2>2. j - 1 \in C(t) /\ (j - 1) + 1 = j
    BY <1>1, <2>1
  <2> QED
    BY <2>2
<1>5. IsFiniteSet(C(t)) /\ IsFiniteSet(C(q)) /\ Count(t, x) \in Nat /\ Count(q, x) \in Nat
  BY <1>1, CountType
<1>6. 1 \in C(q) <=> x = Head(q)
  BY <1>1
<1> HIDE DEF f, C, D
<1>7. f \in Bijection(C(t), D)
  BY <1>2, <1>3, <1>4 DEF Bijection, Injection, IsInjective, Surjection
<1>8. Cardinality(D) = Cardinality(C(t))
  BY <1>5, <1>7, FS_Bijection DEF ExistsBijection
<1>9. Cardinality(D) = IF 1 \in C(q) THEN Cardinality(C(q)) - 1 ELSE Cardinality(C(q))
  BY <1>5, FS_RemoveElement DEF D
<1>10. Cardinality(C(t)) = Count(t, x) /\ Cardinality(C(q)) = Count(q, x)
  BY DEF C, Count
<1> QED
  BY <1>5, <1>6, <1>8, <1>9, <1>10

-----------------------------------------------------------------------------
(* Copies in somebody's hands                                              *)

\* The elements of two sets that share none are counted apart.
LEMMA CountApart ==
  ASSUME NEW S, NEW T, IsFiniteSet(S), IsFiniteSet(T), S \cap T = {}
  PROVE  /\ IsFiniteSet(S \cup T)
         /\ Cardinality(S \cup T) = Cardinality(S) + Cardinality(T)
<1>1. Cardinality(S \cap T) = 0
  BY FS_EmptySet
<1>2. Cardinality(S) \in Nat /\ Cardinality(T) \in Nat
  BY FS_CardinalityType
<1>3. /\ IsFiniteSet(S \cup T)
      /\ Cardinality(S \cup T) = Cardinality(S) + Cardinality(T) - Cardinality(S \cap T)
  BY FS_Union
<1> QED
  BY <1>1, <1>2, <1>3

\* Everything that the connections hold, when c holds h[c].
All(h) == UNION {{c} \X h[c] : c \in Conns}

\* When one connection holds something else, the number changes by what it holds.
LEMMA AllChange ==
  ASSUME NEW h, NEW k, NEW c \in Conns, \A d \in Conns \ {c} : h[d] = k[d],
         IsFiniteSet(All(h)), IsFiniteSet(h[c]), IsFiniteSet(k[c])
  PROVE  /\ IsFiniteSet(All(k))
         /\ Cardinality(All(k)) + Cardinality(h[c]) = Cardinality(All(h)) + Cardinality(k[c])
<1> DEFINE rest == UNION {{d} \X h[d] : d \in Conns \ {c}}
           one(S) == {c} \X S
<1>1. All(h) = rest \cup one(h[c])
  BY DEF All
<1>2. All(k) = rest \cup one(k[c])
  <2>1. rest = UNION {{d} \X k[d] : d \in Conns \ {c}}
    OBVIOUS
  <2> QED
    BY <2>1 DEF All
<1>3. rest \cap one(h[c]) = {} /\ rest \cap one(k[c]) = {}
  OBVIOUS
<1>4. ASSUME NEW S, IsFiniteSet(S)
      PROVE  /\ IsFiniteSet(one(S)) /\ Cardinality(one(S)) = Cardinality(S)
             /\ Cardinality(S) \in Nat
  <2>1. IsFiniteSet({c}) /\ Cardinality({c}) = 1 /\ Cardinality(S) \in Nat
    BY <1>4, FS_Singleton, FS_CardinalityType
  <2> QED
    BY <1>4, <2>1, FS_Product
<1>5. IsFiniteSet(rest) /\ Cardinality(rest) \in Nat
  <2>1. rest \in SUBSET All(h)
    BY <1>1
  <2> QED
    BY <2>1, FS_Subset, FS_CardinalityType
<1> HIDE DEF rest, one
<1>6. /\ IsFiniteSet(rest \cup one(k[c]))
      /\ Cardinality(rest \cup one(k[c])) = Cardinality(rest) + Cardinality(one(k[c]))
  <2>1. IsFiniteSet(one(k[c])) /\ rest \cap one(k[c]) = {}
    BY <1>3, <1>4
  <2> QED
    BY <1>5, <2>1, CountApart
<1>7. Cardinality(rest \cup one(h[c])) = Cardinality(rest) + Cardinality(one(h[c]))
  <2>1. IsFiniteSet(one(h[c])) /\ rest \cap one(h[c]) = {}
    BY <1>3, <1>4
  <2> QED
    BY <1>5, <2>1, CountApart
<1> QED
  BY <1>1, <1>2, <1>4, <1>5, <1>6, <1>7

\* How many copies of m for u a reader holds.
Holding(r, id, m, u) ==
  IF r.pc \in {"look", "send", "queue"} /\ Head(r.msg) = m
  THEN IF Skips(m, u) THEN 0 ELSE Count(r.rest, u)
  ELSE IF r.pc = "flush" /\ id = u THEN Count(r.msg, m) ELSE 0

\* That is the number of their places.
LEMMA HoldingIs ==
  ASSUME NEW r \in Readers, NEW id, NEW m, NEW u
  PROVE  /\ IsFiniteSet(Held(r, id, m, u))
         /\ Cardinality(Held(r, id, m, u)) = Holding(r, id, m, u)
         /\ Holding(r, id, m, u) \in Nat
<1> DEFINE A == {i \in DOMAIN r.rest : /\ r.pc \in {"look", "send", "queue"} /\ Head(r.msg) = m
                                       /\ ~Skips(m, u) /\ r.rest[i] = u}
           B == {i \in DOMAIN r.msg : r.pc = "flush" /\ id = u /\ r.msg[i] = m}
           F == {i \in DOMAIN r.rest : r.rest[i] = u}
           G == {i \in DOMAIN r.msg : r.msg[i] = m}
<1>1. /\ IsFiniteSet(F) /\ Count(r.rest, u) \in Nat
      /\ IsFiniteSet(G) /\ Count(r.msg, m) \in Nat
  <2>1. r.rest \in Seq(Users) /\ r.msg \in Seq(Msgs)
    BY DEF Readers
  <2> QED
    BY <2>1, CountType
<1>2. /\ Cardinality(F) = Count(r.rest, u) /\ Cardinality(G) = Count(r.msg, m)
      /\ IsFiniteSet({}) /\ Cardinality({}) = 0
  BY FS_EmptySet DEF Count
<1>3. Held(r, id, m, u) = A \cup B
  BY DEF Held
<1> DEFINE N == Holding(r, id, m, u)
<1>4. CASE r.pc \in {"look", "send", "queue"} /\ Head(r.msg) = m /\ ~Skips(m, u)
  <2>1. A \cup B = F /\ N = Count(r.rest, u)
    BY <1>4 DEF Holding
  <2> QED
    BY <1>1, <1>2, <1>3, <2>1
<1>5. CASE r.pc = "flush" /\ id = u
  <2>1. A \cup B = G /\ N = Count(r.msg, m)
    BY <1>5 DEF Holding
  <2> QED
    BY <1>1, <1>2, <1>3, <2>1
<1>6. CASE /\ ~(r.pc \in {"look", "send", "queue"} /\ Head(r.msg) = m /\ ~Skips(m, u))
           /\ ~(r.pc = "flush" /\ id = u)
  <2>1. A \cup B = {} /\ N = 0
    BY <1>6 DEF Holding
  <2> QED
    BY <1>2, <1>3, <2>1
<1> QED
  BY <1>4, <1>5, <1>6

\* The readers' places change with the one reader that moves.
LEMMA HandsChange ==
  ASSUME TypeOK, TypeOK', NEW c \in Conns, NEW m \in Msgs, NEW u \in Users,
         \A d \in Conns \ {c} : reader'[d] = reader[d] /\ userID'[d] = userID[d],
         IsFiniteSet(InHands(m, u))
  PROVE  /\ IsFiniteSet(InHands(m, u)')
         /\ Cardinality(InHands(m, u)) \in Nat /\ Cardinality(InHands(m, u)') \in Nat
         /\ Cardinality(InHands(m, u)') + Holding(reader[c], userID[c], m, u)
              = Cardinality(InHands(m, u)) + Holding(reader'[c], userID'[c], m, u)
<1> DEFINE h == [d \in Conns |-> Held(reader[d], userID[d], m, u)]
           k == [d \in Conns |-> Held(reader'[d], userID'[d], m, u)]
<1>1. reader[c] \in Readers /\ reader'[c] \in Readers
  BY DEF TypeOK
<1>2. /\ IsFiniteSet(h[c]) /\ Cardinality(h[c]) = Holding(reader[c], userID[c], m, u)
      /\ IsFiniteSet(k[c]) /\ Cardinality(k[c]) = Holding(reader'[c], userID'[c], m, u)
  BY <1>1, HoldingIs
<1>3. InHands(m, u) = All(h) /\ InHands(m, u)' = All(k)
  BY DEF InHands, All
<1>4. \A d \in Conns \ {c} : h[d] = k[d]
  OBVIOUS
<1> HIDE DEF h, k
<1>5. /\ IsFiniteSet(All(k))
      /\ Cardinality(All(k)) + Cardinality(h[c]) = Cardinality(All(h)) + Cardinality(k[c])
  BY <1>2, <1>3, <1>4, AllChange
<1>6. Cardinality(All(k)) \in Nat /\ Cardinality(All(h)) \in Nat
  BY <1>3, <1>5, FS_CardinalityType
<1> QED
  BY <1>2, <1>3, <1>5, <1>6

\* How many copies of a "message" are allowed by the times its id was removed or added.
Allowed(m) ==
  IF HasMemory(m) THEN forgotten[m] + (IF m \in deliveredMessageIds THEN 1 ELSE 0) ELSE sends[m]

\* A group has been created with some list, or not yet.
GroupLists == \A g \in Groups : groups[g] \in MemberLists \cup {<<>>}

\* Nobody is about to be sent what the sender is skipped in.
Unskipped ==
  \A c \in Conns :
    reader[c].pc \in {"send", "queue"} => ~Skips(Head(reader[c].msg), Head(reader[c].rest))

\* The copies there are were allowed, one by one.
CopyInv ==
  /\ TypeOK /\ GroupLists /\ Unskipped
  /\ \A m \in Msgs, u \in Users :
       IsFiniteSet(InHands(m, u)) /\ CopiesOf(m, u) <= Allowed(m)

\* The copies of m for u that a step of c can move: queued, received, or held by c.
Near(c, m, u) ==
  Count(pendingMessages[u], m) + got[<<m, u>>] + Holding(reader[c], userID[c], m, u)

\* They are numbers.
LEMMA NearType ==
  ASSUME TypeOK, NEW c \in Conns, NEW m \in Msgs, NEW u \in Users
  PROVE  /\ Count(pendingMessages[u], m) \in Nat /\ got[<<m, u>>] \in Nat
         /\ Holding(reader[c], userID[c], m, u) \in Nat
         /\ Allowed(m) \in Nat
<1>1. Count(pendingMessages[u], m) \in Nat
  BY CountType DEF TypeOK
<1>2. got[<<m, u>>] \in Nat
  BY DEF TypeOK, Copies
<1>3. Holding(reader[c], userID[c], m, u) \in Nat
  <2>1. reader[c] \in Readers
    BY DEF TypeOK
  <2> QED
    BY <2>1, HoldingIs
<1>4. Allowed(m) \in Nat
  BY DEF TypeOK, Allowed
<1> QED
  BY <1>1, <1>2, <1>3, <1>4

\* It is enough to look at the reader that moves: if it makes no more copies than become
\* allowed, there are no more than allowed.
LEMMA Enough ==
  ASSUME CopyInv, TypeOK', NEW c \in Conns, NEW m \in Msgs, NEW u \in Users,
         \A d \in Conns \ {c} : reader'[d] = reader[d] /\ userID'[d] = userID[d],
         Near(c, m, u)' + Allowed(m) <= Near(c, m, u) + Allowed(m)'
  PROVE  IsFiniteSet(InHands(m, u)') /\ CopiesOf(m, u)' <= Allowed(m)'
<1> DEFINE p == Count(pendingMessages[u], m)
           q == Count(pendingMessages'[u], m)
           h == Holding(reader[c], userID[c], m, u)
           k == Holding(reader'[c], userID'[c], m, u)
           a == Allowed(m)
           b == Allowed(m)'
           s == Cardinality(InHands(m, u))
           t == Cardinality(InHands(m, u)')
           g == got[<<m, u>>]
           f == got'[<<m, u>>]
<1>1. TypeOK /\ IsFiniteSet(InHands(m, u)) /\ CopiesOf(m, u) <= Allowed(m)
  BY DEF CopyInv
<1>2. p \in Nat /\ g \in Nat /\ h \in Nat /\ a \in Nat
  BY <1>1, NearType
<1>3. q \in Nat /\ f \in Nat /\ k \in Nat /\ b \in Nat
  <2>1. q \in Nat
    BY CountType DEF TypeOK
  <2>2. f \in Nat
    BY DEF TypeOK, Copies
  <2>3. k \in Nat
    <3>1. reader'[c] \in Readers
      BY DEF TypeOK
    <3> QED
      BY <3>1, HoldingIs
  <2>4. b \in Nat
    BY DEF TypeOK, Allowed
  <2> QED
    BY <2>1, <2>2, <2>3, <2>4
<1>4. IsFiniteSet(InHands(m, u)') /\ s \in Nat /\ t \in Nat /\ t + h = s + k
  BY <1>1, HandsChange
<1>5. p + g + s <= a
  BY <1>1 DEF CopiesOf
<1>6. q + f + k + a <= p + g + h + b
  BY DEF Near
<1>7. CopiesOf(m, u)' = q + f + t
  BY DEF CopiesOf
<1> HIDE DEF p, q, h, k, a, b, s, t, g, f
<1>8. q + f + t <= b
  BY <1>2, <1>3, <1>4, <1>5, <1>6
<1> QED
  BY <1>4, <1>7, <1>8 DEF b

\* The recipient that was dealt with is no longer in the reader's hands.
LEMMA AdvanceHolding ==
  ASSUME TypeOK, NEW c \in Conns, reader[c].pc \in {"look", "send", "queue"}, Advance(c),
         UNCHANGED userID, NEW m \in Msgs, NEW u \in Users
  PROVE  Holding(reader[c], userID[c], m, u)
           = Holding(reader'[c], userID'[c], m, u)
               + (IF m = Head(reader[c].msg) /\ u = Head(reader[c].rest) /\ ~Skips(m, u)
                  THEN 1 ELSE 0)
<1> DEFINE o == reader[c]
           n == reader'[c]
<1>1. /\ o \in Readers /\ o.rest \in Seq(Users) /\ o.rest # <<>>
      /\ o.msg \in Seq(Msgs) /\ o.msg # <<>>
  BY DEF TypeOK, Readers, ReaderOK
<1>2. /\ n.rest = Tail(o.rest)
      /\ n.msg = IF Len(o.rest) = 1 THEN <<>> ELSE o.msg
      /\ n.pc = IF Len(o.rest) = 1 THEN "idle" ELSE "look"
  BY <1>1 DEF Advance, TypeOK, Readers
<1>3. Count(o.rest, u) = Count(Tail(o.rest), u) + (IF u = Head(o.rest) THEN 1 ELSE 0)
  BY <1>1, CountTail
<1>4. Len(o.rest) = 1 => Count(Tail(o.rest), u) = 0
  <2> SUFFICES ASSUME Len(o.rest) = 1 PROVE Count(Tail(o.rest), u) = 0
    OBVIOUS
  <2>1. Tail(o.rest) \in Seq(Users) /\ Len(Tail(o.rest)) = 0
    BY <1>1, HeadTailProperties
  <2>2. Tail(o.rest) = <<>>
    BY <2>1, EmptySeq
  <2> QED
    BY <2>2, CountEmpty
<1>5. Count(o.rest, u) \in Nat /\ Count(Tail(o.rest), u) \in Nat
  <2>1. Tail(o.rest) \in Seq(Users)
    BY <1>1, HeadTailProperties
  <2> QED
    BY <1>1, <2>1, CountType
<1>6. Holding(o, userID[c], m, u) = IF Head(o.msg) = m /\ ~Skips(m, u) THEN Count(o.rest, u) ELSE 0
  BY DEF Holding
<1>7. Holding(n, userID'[c], m, u)
        = IF Head(o.msg) = m /\ ~Skips(m, u) THEN Count(Tail(o.rest), u) ELSE 0
  <2>1. CASE Len(o.rest) = 1
    BY <1>2, <1>4, <2>1 DEF Holding
  <2>2. CASE Len(o.rest) # 1
    BY <1>2, <2>2 DEF Holding
  <2> QED
    BY <2>1, <2>2
<1> HIDE DEF o, n
<1>8. Holding(o, userID[c], m, u)
        = Holding(n, userID'[c], m, u)
            + (IF m = Head(o.msg) /\ u = Head(o.rest) /\ ~Skips(m, u) THEN 1 ELSE 0)
  BY <1>3, <1>5, <1>6, <1>7
<1> QED
  BY <1>8 DEF o, n

\* What is written is one copy, or nothing.
LEMMA WriteAtMost ==
  ASSUME TypeOK, NEW x \in Msgs, NEW v \in Users, NEW d, Write(x, v, d),
         NEW m \in Msgs, NEW u \in Users
  PROVE  /\ got[<<m, u>>] \in Nat /\ got'[<<m, u>>] \in Nat
         /\ got'[<<m, u>>] <= got[<<m, u>>] + (IF m = x /\ u = v THEN 1 ELSE 0)
<1>1. got \in [Copies -> Nat] /\ <<m, u>> \in Copies /\ <<x, v>> \in Copies
  BY DEF TypeOK, Copies
<1>2. <<m, u>> = <<x, v>> <=> m = x /\ u = v
  OBVIOUS
<1> QED
  BY <1>1, <1>2 DEF Write

\* What a step of c leaves of the others.
Alone(c) == \A d \in Conns \ {c} : reader'[d] = reader[d] /\ userID'[d] = userID[d]

\* A step by which c makes no more copies of m for u than become allowed.
Fair(c, m, u) == Near(c, m, u)' + Allowed(m) <= Near(c, m, u) + Allowed(m)'

\* Where a reader holds nothing.
Empty == {"idle", "name", "list", "pop", "done"}

\* A reader that holds nothing before and after leaves the copies where they are.
LEMMA NothingHeld ==
  ASSUME TypeOK, NEW c \in Conns, NEW m \in Msgs, NEW u \in Users,
         reader[c].pc \in Empty, reader'[c].pc \in Empty,
         UNCHANGED <<pendingMessages, got, sends, forgotten, deliveredMessageIds>>
  PROVE  Fair(c, m, u)
<1>1. Holding(reader[c], userID[c], m, u) = 0 /\ Holding(reader'[c], userID'[c], m, u) = 0
  BY DEF Holding, Empty
<1>2. /\ Count(pendingMessages[u], m) \in Nat /\ got[<<m, u>>] \in Nat
      /\ Allowed(m) \in Nat /\ Allowed(m)' = Allowed(m)
  BY NearType DEF Allowed
<1>3. Near(c, m, u) = Count(pendingMessages[u], m) + got[<<m, u>>] + 0
  BY <1>1 DEF Near
<1>4. Near(c, m, u)' = Count(pendingMessages[u], m) + got[<<m, u>>] + 0
  BY <1>1 DEF Near
<1> QED
  BY <1>2, <1>3, <1>4 DEF Fair

\* What is popped goes from the queue to the reader.
LEMMA PopFair ==
  ASSUME TypeOK, NEW c \in Conns, Pop(c), NEW m \in Msgs, NEW u \in Users
  PROVE  Fair(c, m, u) /\ reader'[c].pc \in {"idle", "flush"}
<1> DEFINE v == userID[c]
           q == pendingMessages[v]
           n == reader'[c]
<1>1. /\ v \in Users /\ q \in Seq(Msgs)
      /\ n.pc = (IF q = <<>> THEN "idle" ELSE "flush") /\ n.msg = q
      /\ userID' = userID
      /\ pendingMessages' = [pendingMessages EXCEPT ![v] = <<>>]
      /\ reader[c].pc = "pop"
  BY DEF Pop, TypeOK, ReaderOK, Readers
<1>2. Holding(reader[c], userID[c], m, u) = 0
  BY <1>1 DEF Holding
<1>3. Count(<<>>, m) = 0 /\ Count(q, m) \in Nat
  BY <1>1, CountEmpty, CountType
<1>4. Holding(reader'[c], userID'[c], m, u) = IF u = v THEN Count(q, m) ELSE 0
  <2>1. CASE q = <<>>
    BY <1>1, <1>3, <2>1 DEF Holding
  <2>2. CASE q # <<>>
    BY <1>1, <2>2 DEF Holding
  <2> QED
    BY <2>1, <2>2
<1>5. /\ Count(pendingMessages[u], m) \in Nat /\ got[<<m, u>>] \in Nat /\ got' = got
      /\ Allowed(m) \in Nat /\ Allowed(m)' = Allowed(m)
  BY NearType DEF Allowed, Pop, pastVars
<1>6. Count(pendingMessages'[u], m) = IF u = v THEN 0 ELSE Count(pendingMessages[u], m)
  <2>1. pendingMessages'[u] = IF u = v THEN <<>> ELSE pendingMessages[u]
    BY <1>1 DEF TypeOK
  <2> QED
    BY <1>3, <2>1
<1>7. Near(c, m, u) = Count(pendingMessages[u], m) + got[<<m, u>>] + 0
  BY <1>2 DEF Near
<1>8. Near(c, m, u)' = Count(pendingMessages'[u], m) + got[<<m, u>>]
                         + Holding(reader'[c], userID'[c], m, u)
  BY <1>5 DEF Near
<1>9. Near(c, m, u)' = Near(c, m, u)
  <2>1. CASE u = v
    BY <1>3, <1>4, <1>5, <1>6, <1>7, <1>8, <2>1
  <2>2. CASE u # v
    BY <1>4, <1>5, <1>6, <1>7, <1>8, <2>2
  <2> QED
    BY <2>1, <2>2
<1>10. Near(c, m, u)' \in Nat
  BY <1>5, <1>7, <1>9
<1> QED
  BY <1>1, <1>5, <1>9, <1>10 DEF Fair

\* What is flushed was in the reader's hands.
LEMMA FlushFair ==
  ASSUME TypeOK, NEW c \in Conns, Flush(c), NEW m \in Msgs, NEW u \in Users
  PROVE  Fair(c, m, u) /\ reader'[c].pc \in {"idle", "flush"}
<1> DEFINE v == userID[c]
           q == reader[c].msg
           n == reader'[c]
           one == IF m = Head(q) /\ u = v THEN 1 ELSE 0
<1>1. /\ v \in Users /\ q \in Seq(Msgs) /\ q # <<>> /\ reader[c].pc = "flush"
      /\ n.pc = (IF Len(q) = 1 THEN "idle" ELSE "flush") /\ n.msg = Tail(q)
      /\ userID' = userID
  BY DEF Flush, TypeOK, ReaderOK, Readers
<1>2. Head(q) \in Msgs /\ Tail(q) \in Seq(Msgs) /\ (Len(q) = 1 => Tail(q) = <<>>)
  <2>1. Head(q) \in Msgs /\ Tail(q) \in Seq(Msgs) /\ Len(Tail(q)) = Len(q) - 1
    BY <1>1, HeadTailProperties
  <2>2. Len(q) = 1 => Len(Tail(q)) = 0
    BY <2>1
  <2>3. Len(Tail(q)) = 0 => Tail(q) = <<>>
    BY <2>1, EmptySeq
  <2> QED
    BY <2>1, <2>2, <2>3
<1>3. /\ Count(q, m) = Count(Tail(q), m) + (IF m = Head(q) THEN 1 ELSE 0)
      /\ Count(q, m) \in Nat /\ Count(Tail(q), m) \in Nat
  BY <1>1, <1>2, CountTail, CountType
<1>4. Holding(reader[c], userID[c], m, u) = IF u = v THEN Count(q, m) ELSE 0
  BY <1>1 DEF Holding
<1>5. Holding(reader'[c], userID'[c], m, u) = IF u = v THEN Count(Tail(q), m) ELSE 0
  <2>1. CASE Len(q) = 1
    <3>1. Count(Tail(q), m) = 0
      BY <1>2, <2>1, CountEmpty
    <3> QED
      BY <1>1, <2>1, <3>1 DEF Holding
  <2>2. CASE Len(q) # 1
    BY <1>1, <2>2 DEF Holding
  <2> QED
    BY <2>1, <2>2
<1>6. /\ got[<<m, u>>] \in Nat /\ got'[<<m, u>>] \in Nat
      /\ got'[<<m, u>>] <= got[<<m, u>>] + one
  BY <1>1, <1>2, WriteAtMost DEF Flush
<1>7. /\ Count(pendingMessages[u], m) \in Nat /\ pendingMessages' = pendingMessages
      /\ Allowed(m) \in Nat /\ Allowed(m)' = Allowed(m)
  BY NearType DEF Allowed, Flush, mapVars, pastVars
<1>8. /\ Near(c, m, u) = Count(pendingMessages[u], m) + got[<<m, u>>]
                           + Holding(reader[c], userID[c], m, u)
      /\ Near(c, m, u)' = Count(pendingMessages[u], m) + got'[<<m, u>>]
                            + Holding(reader'[c], userID'[c], m, u)
  BY <1>7 DEF Near
<1>9. Near(c, m, u)' <= Near(c, m, u) /\ Near(c, m, u) \in Nat /\ Near(c, m, u)' \in Nat
  <2>1. CASE u = v
    BY <1>3, <1>4, <1>5, <1>6, <1>7, <1>8, <2>1
  <2>2. CASE u # v
    BY <1>4, <1>5, <1>6, <1>7, <1>8, <2>2
  <2> QED
    BY <2>1, <2>2
<1> QED
  BY <1>1, <1>7, <1>9 DEF Fair

\* An event's own copy comes with its sending, one for each recipient.
LEMMA TakeFair ==
  ASSUME TypeOK, GroupLists, NEW c \in Conns, NEW x \in Msgs, Take(c, x),
         NEW m \in Msgs, NEW u \in Users
  PROVE  Fair(c, m, u) /\ (reader' = reader \/ reader'[c].pc = "look")
<1>1. /\ reader[c].pc = "idle" /\ userID' = userID
      /\ pendingMessages' = pendingMessages /\ got' = got /\ forgotten' = forgotten
      /\ sends' = [sends EXCEPT ![x] = @ + 1]
      /\ deliveredMessageIds' = deliveredMessageIds \cup {y \in {x} : HasMemory(y)}
      /\ \/ reader' = reader
         \/ /\ ~(HasMemory(x) /\ x \in deliveredMessageIds)
            /\ reader' = [reader EXCEPT ![c].pc = "look", ![c].msg = <<x>>,
                                        ![c].rest = Recipients(x)]
  BY DEF Take, Takes, pastVars
<1>2. /\ Count(pendingMessages[u], m) \in Nat /\ got[<<m, u>>] \in Nat /\ Allowed(m) \in Nat
      /\ sends \in [Msgs -> Nat] /\ forgotten \in [Msgs -> Nat]
      /\ reader[c] \in Readers /\ reader \in [Conns -> Readers]
  BY NearType DEF TypeOK
<1>3. Holding(reader[c], userID[c], m, u) = 0
  BY <1>1 DEF Holding
<1>4. Allowed(m)' \in Nat /\ Allowed(m) <= Allowed(m)'
  <2>1. CASE HasMemory(m)
    <3>1. Allowed(m)' = forgotten[m] + (IF m \in deliveredMessageIds' THEN 1 ELSE 0)
      BY <1>1, <2>1 DEF Allowed
    <3>2. Allowed(m) = forgotten[m] + (IF m \in deliveredMessageIds THEN 1 ELSE 0)
      BY <2>1 DEF Allowed
    <3>3. m \in deliveredMessageIds => m \in deliveredMessageIds'
      BY <1>1
    <3> QED
      BY <1>2, <3>1, <3>2, <3>3
  <2>2. CASE ~HasMemory(m)
    <3>1. Allowed(m)' = sends'[m] /\ Allowed(m) = sends[m]
      BY <2>2 DEF Allowed
    <3> QED
      BY <1>1, <1>2, <3>1
  <2> QED
    BY <2>1, <2>2
<1>5. ASSUME reader' # reader
      PROVE  /\ Holding(reader'[c], userID'[c], m, u) \in {0, 1}
             /\ m # x => Holding(reader'[c], userID'[c], m, u) = 0
             /\ m = x => Allowed(m)' = Allowed(m) + 1
             /\ reader'[c].pc = "look"
  <2>1. reader'[c].pc = "look" /\ reader'[c].msg = <<x>> /\ reader'[c].rest = Recipients(x)
    BY <1>1, <1>2, <1>5 DEF Readers
  <2>2. Recipients(x) \in Seq(Users) /\ Head(<<x>>) = x
    BY RecipientsType
  <2>3. \A i, j \in DOMAIN Recipients(x) : Recipients(x)[i] = Recipients(x)[j] => i = j
    <3>1. CASE Kind[x] = "group"
      <4>1. Dest[x] \in Groups /\ Recipients(x) = groups[Dest[x]]
        BY <3>1, ScannedRelayAssumption DEF Recipients
      <4>2. CASE groups[Dest[x]] \in MemberLists
        BY <4>1, <4>2, ListsAssumption
      <4>3. CASE groups[Dest[x]] = <<>>
        BY <4>1, <4>3
      <4> QED
        BY <4>1, <4>2, <4>3 DEF GroupLists
    <3>2. CASE Kind[x] # "group"
      BY <3>2 DEF Recipients
    <3> QED
      BY <3>1, <3>2
  <2>4. Count(Recipients(x), u) <= 1 /\ Count(Recipients(x), u) \in Nat
    BY <2>2, <2>3, CountDistinct, CountType
  <2>5. Holding(reader'[c], userID'[c], m, u)
          = IF m = x /\ ~Skips(m, u) THEN Count(Recipients(x), u) ELSE 0
    BY <2>1, <2>2 DEF Holding
  <2>6. m = x => Allowed(m)' = Allowed(m) + 1
    <3> SUFFICES ASSUME m = x PROVE Allowed(m)' = Allowed(m) + 1
      OBVIOUS
    <3>1. CASE HasMemory(m)
      <4>1. m \notin deliveredMessageIds /\ m \in deliveredMessageIds'
        BY <1>1, <1>5, <3>1
      <4>2. Allowed(m) = forgotten[m] + 0 /\ Allowed(m)' = forgotten[m] + 1
        BY <1>1, <3>1, <4>1 DEF Allowed
      <4> QED
        BY <1>2, <4>2
    <3>2. CASE ~HasMemory(m)
      <4>1. Allowed(m)' = sends'[m] /\ Allowed(m) = sends[m]
        BY <3>2 DEF Allowed
      <4> QED
        BY <1>1, <1>2, <4>1
    <3> QED
      BY <3>1, <3>2
  <2> QED
    BY <2>1, <2>4, <2>5, <2>6
<1>6. /\ Near(c, m, u) = Count(pendingMessages[u], m) + got[<<m, u>>] + 0
      /\ Near(c, m, u)' = Count(pendingMessages[u], m) + got[<<m, u>>]
                            + Holding(reader'[c], userID'[c], m, u)
  BY <1>1, <1>3 DEF Near
<1>7. CASE reader' = reader
  <2>1. Holding(reader'[c], userID'[c], m, u) = 0
    BY <1>1, <1>3, <1>7
  <2> QED
    BY <1>2, <1>4, <1>6, <1>7, <2>1 DEF Fair
<1>8. CASE reader' # reader
  <2>1. CASE m = x
    BY <1>2, <1>4, <1>5, <1>6, <1>8, <2>1 DEF Fair
  <2>2. CASE m # x
    BY <1>2, <1>4, <1>5, <1>6, <1>8, <2>2 DEF Fair
  <2> QED
    BY <1>5, <1>8, <2>1, <2>2
<1> QED
  BY <1>7, <1>8

\* A lookup keeps the recipient in hand, or lets one go.
LEMMA LookFair ==
  ASSUME TypeOK, NEW c \in Conns, Look(c), NEW m \in Msgs, NEW u \in Users
  PROVE  /\ Fair(c, m, u)
         /\ reader'[c].pc \in {"send", "queue"}
              => /\ reader'[c].msg = reader[c].msg /\ reader'[c].rest = reader[c].rest
                 /\ ~Skips(Head(reader[c].msg), Head(reader[c].rest))
<1> DEFINE o == reader[c]
           n == reader'[c]
<1>1. /\ o.pc = "look" /\ userID' = userID /\ pendingMessages' = pendingMessages /\ got' = got
      /\ Allowed(m)' = Allowed(m)
  BY DEF Look, mapVars, pastVars, Allowed
<1>2. /\ Count(pendingMessages[u], m) \in Nat /\ got[<<m, u>>] \in Nat /\ Allowed(m) \in Nat
      /\ Holding(reader[c], userID[c], m, u) \in Nat
      /\ o \in Readers /\ reader \in [Conns -> Readers]
  BY NearType DEF TypeOK
<1>3. /\ Near(c, m, u) = Count(pendingMessages[u], m) + got[<<m, u>>]
                           + Holding(reader[c], userID[c], m, u)
      /\ Near(c, m, u)' = Count(pendingMessages[u], m) + got[<<m, u>>]
                            + Holding(reader'[c], userID'[c], m, u)
  BY <1>1 DEF Near
<1>4. CASE Advance(c)
  <2>1. reader'[c].pc \notin {"send", "queue"}
    BY <1>2, <1>4 DEF Advance, Readers
  <2>2. Holding(reader'[c], userID'[c], m, u) \in Nat
    <3>1. reader'[c] \in Readers
      BY <1>1, <1>4, AdvanceType
    <3> QED
      BY <3>1, HoldingIs
  <2>3. Holding(reader[c], userID[c], m, u)
          = Holding(reader'[c], userID'[c], m, u)
              + (IF m = Head(reader[c].msg) /\ u = Head(reader[c].rest) /\ ~Skips(m, u)
                 THEN 1 ELSE 0)
    BY <1>1, <1>4, AdvanceHolding
  <2>4. Holding(reader'[c], userID'[c], m, u) <= Holding(reader[c], userID[c], m, u)
    BY <1>2, <2>2, <2>3
  <2> QED
    BY <1>1, <1>2, <1>3, <2>1, <2>2, <2>4 DEF Fair
<1>5. CASE ~Advance(c)
  <2>1. /\ ~Skips(Head(o.msg), Head(o.rest))
        /\ \/ reader' = [reader EXCEPT ![c].pc = "send", ![c].to = connectedUsers[Head(o.rest)]]
           \/ reader' = [reader EXCEPT ![c].pc = "queue"]
    BY <1>5 DEF Look
  <2>2. n.pc \in {"send", "queue"} /\ n.msg = o.msg /\ n.rest = o.rest
    BY <1>2, <2>1 DEF Readers
  <2>3. Holding(reader'[c], userID'[c], m, u) = Holding(reader[c], userID[c], m, u)
    BY <1>1, <2>2 DEF Holding
  <2>4. Near(c, m, u)' = Near(c, m, u) /\ Near(c, m, u) \in Nat
    BY <1>2, <1>3, <2>3
  <2>5. Fair(c, m, u)
    BY <1>1, <1>2, <2>4 DEF Fair
  <2> QED
    BY <2>1, <2>2, <2>5
<1> QED
  BY <1>4, <1>5

\* What is sent or queued goes out of the reader's hands.
LEMMA MoveFair ==
  ASSUME TypeOK, Unskipped, NEW c \in Conns, Send(c) \/ Queue(c),
         NEW m \in Msgs, NEW u \in Users
  PROVE  Fair(c, m, u) /\ reader'[c].pc \in {"idle", "look"}
<1> DEFINE x == Head(reader[c].msg)
           v == Head(reader[c].rest)
           one == IF m = x /\ u = v THEN 1 ELSE 0
           h == Holding(reader[c], userID[c], m, u)
           k == Holding(reader'[c], userID'[c], m, u)
           p == Count(pendingMessages[u], m)
           q == Count(pendingMessages'[u], m)
           g == got[<<m, u>>]
           f == got'[<<m, u>>]
<1>1. /\ reader[c].pc \in {"send", "queue"} /\ Advance(c) /\ userID' = userID
      /\ Allowed(m)' = Allowed(m)
  BY DEF Send, Queue, pastVars, mapVars, Allowed
<1>2. /\ reader[c] \in Readers /\ reader \in [Conns -> Readers]
      /\ reader[c].rest \in Seq(Users) /\ reader[c].rest # <<>>
      /\ reader[c].msg \in Seq(Msgs) /\ reader[c].msg # <<>>
  BY <1>1 DEF TypeOK, Readers, ReaderOK
<1>3. x \in Msgs /\ v \in Users
  BY <1>2, HeadTailProperties
<1>4. reader'[c].pc \in {"idle", "look"}
  BY <1>1, <1>2 DEF Advance, Readers
<1>5. p \in Nat /\ g \in Nat /\ h \in Nat /\ Allowed(m) \in Nat
  BY NearType
<1>6. k \in Nat
  <2>1. reader'[c] \in Readers
    BY <1>1, AdvanceType
  <2> QED
    BY <2>1, HoldingIs
<1>7. h = k + one
  <2>1. ~Skips(x, v)
    BY <1>1 DEF Unskipped
  <2>2. h = k + (IF m = x /\ u = v /\ ~Skips(m, u) THEN 1 ELSE 0)
    BY <1>1, AdvanceHolding
  <2>3. (m = x /\ u = v /\ ~Skips(m, u)) <=> (m = x /\ u = v)
    BY <2>1
  <2> QED
    BY <2>2, <2>3
<1>8. q \in Nat /\ f \in Nat /\ q + f <= p + g + one
  <2>1. CASE Send(c)
    <3>1. pendingMessages' = pendingMessages /\ Write(x, v, reader[c].to)
      BY <2>1 DEF Send, mapVars
    <3>2. f \in Nat /\ f <= g + one
      BY <1>3, <3>1, WriteAtMost
    <3> QED
      BY <1>5, <3>1, <3>2
  <2>2. CASE Queue(c)
    <3>1. got' = got /\ pendingMessages' = [pendingMessages EXCEPT ![v] = Append(@, x)]
      BY <2>2 DEF Queue
    <3>2. pendingMessages'[u] = IF u = v THEN Append(pendingMessages[v], x) ELSE pendingMessages[u]
      BY <3>1 DEF TypeOK
    <3>3. pendingMessages[v] \in Seq(Msgs)
      BY <1>3 DEF TypeOK
    <3>4. Count(Append(pendingMessages[v], x), m)
            = Count(pendingMessages[v], m) + (IF m = x THEN 1 ELSE 0)
      BY <1>3, <3>3, CountAppend
    <3>5. CASE u = v
      <4>1. q = p + one
        BY <3>2, <3>4, <3>5
      <4> QED
        BY <1>5, <3>1, <4>1
    <3>6. CASE u # v
      BY <1>5, <3>1, <3>2, <3>6
    <3> QED
      BY <3>5, <3>6
  <2> QED
    BY <2>1, <2>2
<1>9. Near(c, m, u) = p + g + h /\ Near(c, m, u)' = q + f + k
  BY DEF Near
<1>10. one \in Nat
  OBVIOUS
<1> HIDE DEF p, q, g, f, h, k, one
<1> QED
  BY <1>1, <1>4, <1>5, <1>6, <1>7, <1>8, <1>9, <1>10 DEF Fair

\* A step of one reader keeps the number of copies within what is allowed.
LEMMA ReaderKeeps ==
  ASSUME CopyInv, TypeOK', NEW c \in Conns, Alone(c),
         \A m \in Msgs, u \in Users : Fair(c, m, u)
  PROVE  \A m \in Msgs, u \in Users :
           IsFiniteSet(InHands(m, u)') /\ CopiesOf(m, u)' <= Allowed(m)'
<1> SUFFICES ASSUME NEW m \in Msgs, NEW u \in Users
             PROVE  IsFiniteSet(InHands(m, u)') /\ CopiesOf(m, u)' <= Allowed(m)'
  OBVIOUS
<1>1. Near(c, m, u)' + Allowed(m) <= Near(c, m, u) + Allowed(m)'
  BY DEF Fair
<1> QED
  BY <1>1, Enough DEF Alone

\* What is in the readers' hands stays there when no reader moves.
LEMMA HandsSame ==
  ASSUME UNCHANGED <<reader, userID, pendingMessages, got>>, NEW m \in Msgs, NEW u \in Users
  PROVE  InHands(m, u)' = InHands(m, u) /\ CopiesOf(m, u)' = CopiesOf(m, u)
  BY DEF InHands, CopiesOf

\* CopyInv before the first connection.
LEMMA CopyInit == Init => CopyInv
<1> SUFFICES ASSUME Init PROVE CopyInv
  OBVIOUS
<1>1. TypeOK
  BY TypeInit
<1>2. GroupLists /\ Unskipped
  BY DEF Init, GroupLists, Unskipped, Waiting
<1>3. ASSUME NEW m \in Msgs, NEW u \in Users
      PROVE  IsFiniteSet(InHands(m, u)) /\ CopiesOf(m, u) <= Allowed(m)
  <2>1. \A c \in Conns : Held(reader[c], userID[c], m, u) = {}
    BY DEF Init, Held, Waiting
  <2>2. InHands(m, u) = {}
    BY <2>1 DEF InHands
  <2>3. IsFiniteSet(InHands(m, u)) /\ Cardinality(InHands(m, u)) = 0
    BY <2>2, FS_EmptySet
  <2>4. Count(pendingMessages[u], m) = 0 /\ got[<<m, u>>] = 0 /\ Allowed(m) = 0
    BY CountEmpty DEF Init, Copies, Allowed
  <2> QED
    BY <2>3, <2>4 DEF CopiesOf
<1> QED
  BY <1>1, <1>2, <1>3 DEF CopyInv

\* No step creates a group with a list nobody sent, or starts to send to who is skipped.
LEMMA PlacesStep ==
  ASSUME CopyInv, [Next]_vars
  PROVE  GroupLists' /\ Unskipped'
<1> USE DEF mapVars, pastVars
<1>1. TypeOK /\ GroupLists /\ Unskipped
  BY DEF CopyInv
<1>2. /\ reader \in [Conns -> Readers] /\ groups \in [Groups -> Seq(Users)]
  BY <1>1 DEF TypeOK
<1>3. ASSUME NEW c \in Conns, NEW g \in Groups, NEW members \in MemberLists,
             GroupCreate(c, g, members)
      PROVE  GroupLists' /\ Unskipped'
  BY <1>1, <1>2, <1>3 DEF GroupCreate, GroupLists, Unskipped
<1>4. ASSUME NEW c \in Conns, groups' = groups,
             \A d \in Conns \ {c} : reader'[d] = reader[d],
             \/ reader'[c] = reader[c]
             \/ reader'[c].pc \notin {"send", "queue"}
             \/ ~Skips(Head(reader'[c].msg), Head(reader'[c].rest))
      PROVE  GroupLists' /\ Unskipped'
  <2>1. GroupLists'
    BY <1>1, <1>4 DEF GroupLists
  <2>2. ASSUME NEW d \in Conns, reader'[d].pc \in {"send", "queue"}
        PROVE  ~Skips(Head(reader'[d].msg), Head(reader'[d].rest))
    BY <1>1, <1>4, <2>2 DEF Unskipped
  <2> QED
    BY <2>1, <2>2 DEF Unskipped
<1>5. ASSUME \/ \E c \in Conns : Upgrade(c) \/ Break(c) \/ Refuse(c) \/ Scan(c) \/ ScanNode(c)
             \/ \E m \in Msgs : Cleanup(m)
             \/ \E k \in calls : Disconnect(k)
             \/ UNCHANGED vars
      PROVE  GroupLists' /\ Unskipped'
  <2>1. reader' = reader /\ groups' = groups
    BY <1>5 DEF Upgrade, Break, Refuse, Scan, ScanNode, Cleanup, Disconnect, vars
  <2> QED
    BY <1>1, <2>1 DEF GroupLists, Unskipped
<1>6. ASSUME NEW c \in Conns,
             \/ Finish(c) \/ Name(c) \/ List(c) \/ Pop(c) \/ Flush(c)
             \/ \E u \in Users : Register(c, u)
      PROVE  GroupLists' /\ Unskipped'
  <2>1. /\ groups' = groups /\ \A d \in Conns \ {c} : reader'[d] = reader[d]
        /\ reader'[c].pc \notin {"send", "queue"}
    BY <1>2, <1>6 DEF Finish, Name, List, Pop, Flush, Register, Readers
  <2> QED
    BY <1>4, <2>1
<1>7. ASSUME NEW c \in Conns, NEW m \in Msgs, Take(c, m)
      PROVE  GroupLists' /\ Unskipped'
  <2>1. /\ groups' = groups /\ \A d \in Conns \ {c} : reader'[d] = reader[d]
        /\ reader'[c] = reader[c] \/ reader'[c].pc \notin {"send", "queue"}
    BY <1>2, <1>7 DEF Take, Readers
  <2> QED
    BY <1>4, <2>1
<1>8. ASSUME NEW c \in Conns, Send(c) \/ Queue(c)
      PROVE  GroupLists' /\ Unskipped'
  <2>1. /\ groups' = groups /\ \A d \in Conns \ {c} : reader'[d] = reader[d]
        /\ reader'[c].pc \notin {"send", "queue"}
    BY <1>2, <1>8 DEF Send, Queue, Advance, Readers
  <2> QED
    BY <1>4, <2>1
<1>9. ASSUME NEW c \in Conns, Look(c)
      PROVE  GroupLists' /\ Unskipped'
  <2>1. groups' = groups /\ \A d \in Conns \ {c} : reader'[d] = reader[d]
    BY <1>2, <1>9 DEF Look, Advance
  <2>2. \/ reader'[c].pc \notin {"send", "queue"}
        \/ ~Skips(Head(reader'[c].msg), Head(reader'[c].rest))
    <3>1. CASE Advance(c)
      BY <1>2, <3>1 DEF Advance, Readers
    <3>2. CASE ~Advance(c)
      <4>1. /\ ~Skips(Head(reader[c].msg), Head(reader[c].rest))
            /\ \/ reader' = [reader EXCEPT ![c].pc = "send",
                                           ![c].to = connectedUsers[Head(reader[c].rest)]]
               \/ reader' = [reader EXCEPT ![c].pc = "queue"]
        BY <1>9, <3>2 DEF Look
      <4>2. reader'[c].msg = reader[c].msg /\ reader'[c].rest = reader[c].rest
        BY <1>2, <4>1 DEF Readers
      <4> QED
        BY <4>1, <4>2
    <3> QED
      BY <3>1, <3>2
  <2> QED
    BY <1>4, <2>1, <2>2
<1> QED
  BY <1>3, <1>5, <1>6, <1>7, <1>8, <1>9 DEF Next

\* Every step keeps CopyInv: the readers' one by one, and those that move no copy.
LEMMA CopyStep == CopyInv /\ [Next]_vars => CopyInv'
<1> SUFFICES ASSUME CopyInv, [Next]_vars PROVE CopyInv'
  OBVIOUS
<1> USE DEF mapVars, pastVars
<1>1. TypeOK /\ TypeOK' /\ GroupLists /\ Unskipped /\ GroupLists' /\ Unskipped'
  BY TypeStep, PlacesStep DEF CopyInv
<1>2. /\ reader \in [Conns -> Readers] /\ userID \in [Conns -> Users \cup {NoUser}]
      /\ forgotten \in [Msgs -> Nat] /\ deliveredMessageIds \subseteq Msgs
  BY <1>1 DEF TypeOK
<1> DEFINE Kept == \A m \in Msgs, u \in Users :
                     IsFiniteSet(InHands(m, u)') /\ CopiesOf(m, u)' <= Allowed(m)'
<1>3. SUFFICES Kept
  BY <1>1 DEF CopyInv
<1>4. \A m \in Msgs, u \in Users : IsFiniteSet(InHands(m, u)) /\ CopiesOf(m, u) <= Allowed(m)
  BY DEF CopyInv
<1>5. ASSUME UNCHANGED <<reader, userID, pendingMessages, got>>,
             \A m \in Msgs : Allowed(m)' = Allowed(m)
      PROVE  Kept
  BY <1>4, <1>5, HandsSame
<1>6. ASSUME \/ \E c \in Conns : Upgrade(c) \/ Break(c) \/ Refuse(c) \/ Scan(c) \/ ScanNode(c)
             \/ \E c \in Conns, g \in Groups, members \in MemberLists : GroupCreate(c, g, members)
             \/ \E k \in calls : Disconnect(k)
             \/ UNCHANGED vars
      PROVE  Kept
  <2>1. UNCHANGED <<reader, userID, pendingMessages, got, sends, forgotten, deliveredMessageIds>>
    BY <1>6 DEF Upgrade, Break, Refuse, Scan, ScanNode, GroupCreate, Disconnect, vars
  <2>2. \A m \in Msgs : Allowed(m)' = Allowed(m)
    BY <2>1 DEF Allowed
  <2> QED
    BY <1>5, <2>1, <2>2
<1>7. ASSUME NEW x \in Msgs, Cleanup(x)
      PROVE  Kept
  <2>1. UNCHANGED <<reader, userID, pendingMessages, got>>
    BY <1>7 DEF Cleanup
  <2>2. ASSUME NEW m \in Msgs PROVE Allowed(m)' = Allowed(m)
    <3>1. /\ x \in deliveredMessageIds /\ sends' = sends
          /\ deliveredMessageIds' = deliveredMessageIds \ {x}
          /\ forgotten' = [forgotten EXCEPT ![x] = @ + 1]
      BY <1>7 DEF Cleanup
    <3>2. CASE m = x
      BY <1>2, <3>1, <3>2 DEF Allowed
    <3>3. CASE m # x
      BY <1>2, <3>1, <3>3 DEF Allowed
    <3> QED
      BY <3>2, <3>3
  <2> QED
    BY <1>5, <2>1, <2>2
<1>8. ASSUME NEW c \in Conns,
             \/ Finish(c) \/ Name(c) \/ List(c)
             \/ \E u \in Users : Register(c, u)
      PROVE  Kept
  <2>1. /\ reader[c].pc \in Empty /\ reader'[c].pc \in Empty
        /\ UNCHANGED <<pendingMessages, got, sends, forgotten, deliveredMessageIds>>
    BY <1>2, <1>8 DEF Empty, Finish, Name, List, Register, Takes, Readers
  <2>2. Alone(c)
    BY <1>2, <1>8 DEF Alone, Finish, Name, List, Register
  <2>3. \A m \in Msgs, u \in Users : Fair(c, m, u)
    BY <1>1, <2>1, NothingHeld
  <2> QED
    BY <1>1, <2>2, <2>3, ReaderKeeps
<1>9. ASSUME NEW c \in Conns, Pop(c) \/ Flush(c)
      PROVE  Kept
  <2>1. Alone(c)
    BY <1>2, <1>9 DEF Alone, Pop, Flush
  <2>2. \A m \in Msgs, u \in Users : Fair(c, m, u)
    BY <1>1, <1>9, PopFair, FlushFair
  <2> QED
    BY <1>1, <2>1, <2>2, ReaderKeeps
<1>10. ASSUME NEW c \in Conns, NEW x \in Msgs, Take(c, x)
       PROVE  Kept
  <2>1. Alone(c)
    BY <1>2, <1>10 DEF Alone, Take
  <2>2. \A m \in Msgs, u \in Users : Fair(c, m, u)
    BY <1>1, <1>10, TakeFair
  <2> QED
    BY <1>1, <2>1, <2>2, ReaderKeeps
<1>11. ASSUME NEW c \in Conns, Look(c)
       PROVE  Kept
  <2>1. Alone(c)
    BY <1>2, <1>11 DEF Alone, Look, Advance
  <2>2. \A m \in Msgs, u \in Users : Fair(c, m, u)
    BY <1>1, <1>11, LookFair
  <2> QED
    BY <1>1, <2>1, <2>2, ReaderKeeps
<1>12. ASSUME NEW c \in Conns, Send(c) \/ Queue(c)
       PROVE  Kept
  <2>1. Alone(c)
    BY <1>2, <1>12 DEF Alone, Send, Queue, Advance
  <2>2. \A m \in Msgs, u \in Users : Fair(c, m, u)
    BY <1>1, <1>12, MoveFair
  <2> QED
    BY <1>1, <2>1, <2>2, ReaderKeeps
<1> QED
  BY <1>6, <1>7, <1>8, <1>9, <1>10, <1>11, <1>12 DEF Next

\* However the readers' steps mix, and whoever registers, closes or is taken out meanwhile, there
\* are no more copies of an event for a user than its sendings, or the removals of its id, allow.
THEOREM NobodyHasTwo == Spec => []MessagesOnce
<1>1. CopyInv => MessagesOnce
  <2> SUFFICES ASSUME CopyInv, NEW m \in Msgs, NEW u \in Users
               PROVE  CopiesOf(m, u) <= IF HasMemory(m) THEN 1 + forgotten[m] ELSE sends[m]
    BY DEF MessagesOnce
  <2>1. CopiesOf(m, u) <= Allowed(m) /\ IsFiniteSet(InHands(m, u)) /\ TypeOK
    BY DEF CopyInv
  <2>2. CopiesOf(m, u) \in Nat
    <3>1. Cardinality(InHands(m, u)) \in Nat
      BY <2>1, FS_CardinalityType
    <3>2. Count(pendingMessages[u], m) \in Nat /\ got[<<m, u>>] \in Nat
      BY <2>1, CountType DEF TypeOK, Copies
    <3> QED
      BY <3>1, <3>2 DEF CopiesOf
  <2>3. forgotten[m] \in Nat /\ sends[m] \in Nat
    BY <2>1 DEF TypeOK
  <2>4. CASE HasMemory(m)
    BY <2>1, <2>2, <2>3, <2>4 DEF Allowed
  <2>5. CASE ~HasMemory(m)
    BY <2>1, <2>5 DEF Allowed
  <2> QED
    BY <2>4, <2>5
<1> QED
  BY CopyInit, CopyStep, <1>1, PTL DEF Spec
=============================================================================
