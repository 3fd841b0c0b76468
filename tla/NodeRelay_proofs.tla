-------------------------- MODULE NodeRelay_proofs --------------------------
(***************************************************************************)
(* Theorems about NodeRelay, for any users, groups, sockets and frames,    *)
(* any queue limit, and any number of repetitions and restarts.            *)
(***************************************************************************)
EXTENDS NodeRelay, SequenceTheorems, FiniteSetTheorems, TLAPS

-----------------------------------------------------------------------------
(* Copies in a queue                                                       *)

\* A count is a number.
LEMMA CountType ==
  ASSUME NEW S, NEW q \in Seq(S), NEW x
  PROVE  /\ IsFiniteSet({i \in DOMAIN q : q[i] = x})
         /\ Count(q, x) \in Nat
<1>1. Len(q) \in Nat /\ DOMAIN q = 1..Len(q)
  OBVIOUS
<1>2. IsFiniteSet(1..Len(q))
  BY <1>1, FS_Interval
<1>3. {i \in DOMAIN q : q[i] = x} \in SUBSET (1..Len(q))
  BY <1>1
<1>4. IsFiniteSet({i \in DOMAIN q : q[i] = x})
  BY <1>2, <1>3, FS_Subset
<1> QED
  BY <1>4, FS_CardinalityType DEF Count

\* An empty queue holds no copy.
LEMMA CountEmpty ==
  ASSUME NEW x
  PROVE  Count(<<>>, x) = 0
<1>1. {i \in DOMAIN <<>> : <<>>[i] = x} = {}
  OBVIOUS
<1> QED
  BY <1>1, FS_EmptySet DEF Count

\* A queue grows by one copy of what is appended.
LEMMA CountAppend ==
  ASSUME NEW S, NEW q \in Seq(S), NEW m \in S, NEW x
  PROVE  /\ Append(q, m) \in Seq(S)
         /\ Append(q, m) # <<>>
         /\ Count(Append(q, m), x) = IF x = m THEN Count(q, x) + 1 ELSE Count(q, x)
<1> DEFINE n == Len(q)
           C(s) == {i \in DOMAIN s : s[i] = x}
<1>1. /\ n \in Nat
      /\ DOMAIN q = 1..n
      /\ Append(q, m) \in Seq(S)
      /\ DOMAIN Append(q, m) = 1..(n + 1)
      /\ \A i \in 1..n : Append(q, m)[i] = q[i]
      /\ Append(q, m)[n + 1] = m
      /\ Append(q, m) # <<>>
  OBVIOUS
<1>2. IsFiniteSet(C(q)) /\ Cardinality(C(q)) = Count(q, x)
  BY CountType DEF Count
<1>3. CASE x = m
  <2>1. C(Append(q, m)) = C(q) \cup {n + 1} /\ n + 1 \notin C(q)
    BY <1>1, <1>3
  <2> QED
    BY <1>1, <1>2, <1>3, <2>1, FS_AddElement DEF Count
<1>4. CASE x # m
  <2>1. C(Append(q, m)) = C(q)
    BY <1>1, <1>4
  <2> QED
    BY <1>1, <1>2, <1>4, <2>1 DEF Count
<1> QED
  BY <1>3, <1>4

\* A queue whose oldest messages went holds no more copies than before.
LEMMA CountSuffix ==
  ASSUME NEW S, NEW q \in Seq(S), NEW n \in 1..Len(q), NEW x
  PROVE  /\ SubSeq(q, n + 1, Len(q)) \in Seq(S)
         /\ Count(SubSeq(q, n + 1, Len(q)), x) <= Count(q, x)
<1> DEFINE r == SubSeq(q, n + 1, Len(q))
           C(s) == {i \in DOMAIN s : s[i] = x}
           f == [i \in C(r) |-> i + n]
<1>1. /\ Len(q) \in Nat /\ n \in Nat /\ n <= Len(q)
      /\ DOMAIN q = 1..Len(q)
  OBVIOUS
<1>2. /\ r \in Seq(S)
      /\ DOMAIN r = 1..(Len(q) - n)
      /\ \A i \in 1..(Len(q) - n) : r[i] = q[i + n]
  <2>1. \A i \in (n + 1)..Len(q) : q[i] \in S
    BY <1>1
  <2> QED
    BY <1>1, <2>1, SubSeqProperties
<1>3. f \in [C(r) -> C(q)]
  BY <1>1, <1>2
<1>4. \A i, j \in C(r) : f[i] = f[j] => i = j
  BY <1>1, <1>2
<1>5. f \in Injection(C(r), C(q))
  BY <1>3, <1>4 DEF Injection, IsInjective
<1>6. IsFiniteSet(C(q))
  BY CountType
<1> HIDE DEF f, C
<1>7. Cardinality(C(r)) <= Cardinality(C(q))
  BY <1>5, <1>6, FS_Injection
<1> QED
  BY <1>2, <1>7 DEF Count, C

-----------------------------------------------------------------------------
(* Types                                                                   *)

\* What is emitted adds at most one to what each client received.
LEMMA EmitType ==
  ASSUME TypeOK, NEW m \in Msgs, NEW dest, Emit(m, dest)
  PROVE  /\ got' \in [Copies -> Nat]
         /\ \A p \in Copies : got'[p] \in {got[p], got[p] + 1}
         /\ \A p \in Copies :
              got'[p] = got[p] + 1 <=>
                p[1] = m /\ \E s \in Sockets : link[s] = "open" /\ p[2] \in dest[s]
  BY DEF Emit, TypeOK

\* The types before the first frame.
LEMMA TypeInit == Init => TypeOK
  BY NodeRelayAssumption DEF Init, TypeOK, NoGroup

\* One step per event.
LEMMA TypeStep == TypeOK /\ [Next]_vars => TypeOK'
<1> SUFFICES ASSUME TypeOK, [Next]_vars PROVE TypeOK'
  OBVIOUS
<1> USE NodeRelayAssumption DEF relayVars, pastVars
<1>1. ASSUME NEW s \in Sockets, Connect(s) \/ Break(s) \/ Disconnect(s)
      PROVE  TypeOK'
  <2>1. CASE Connect(s)
    BY <2>1 DEF TypeOK, Connect
  <2>2. CASE Break(s)
    BY <2>2 DEF TypeOK, Break
  <2>3. CASE Disconnect(s)
    <3>1. connectedUsers' \in [Users -> Sockets \cup {NoSocket}]
      BY <2>3 DEF TypeOK, Disconnect
    <3>2. rooms' \in [Groups -> SUBSET Sockets]
      BY <2>3 DEF TypeOK, Disconnect
    <3> QED
      BY <2>3, <3>1, <3>2 DEF TypeOK, Disconnect
  <2> QED
    BY <1>1, <2>1, <2>2, <2>3
<1>2. ASSUME NEW s \in Sockets, NEW m \in Msgs, Frame(s, m)
      PROVE  TypeOK'
  <2> Sends(s, m)
    BY <1>2 DEF Frame, Repeated, MessageOnline, MessageOffline, FileShare, Signal, GroupMessage,
                RoomMessage
  <2>1. sends' \in [Msgs -> Nat]
    BY DEF TypeOK, Sends
  <2>2. CASE Repeated(s, m)
    BY <2>1, <2>2 DEF TypeOK, Repeated
  <2>3. CASE MessageOnline(s, m)
    <3>1. got' \in [Copies -> Nat]
      BY <2>3, EmitType DEF MessageOnline, EmitTo
    <3> QED
      BY <2>1, <2>3, <3>1 DEF TypeOK, MessageOnline, FirstTime
  <2>4. CASE MessageOffline(s, m)
    <3>1. pendingMessages' \in [Users -> Seq(Msgs)]
      BY <2>4 DEF TypeOK, MessageOffline
    <3> QED
      BY <2>1, <2>4, <3>1 DEF TypeOK, MessageOffline, FirstTime
  <2>5. CASE FileShare(s, m)
    <3>1. pendingMessages' \in [Users -> Seq(Msgs)]
      <4>1. Dest[m] \in Users
        BY <2>5 DEF FileShare
      <4> DEFINE q == Append(pendingMessages[Dest[m]], m)
      <4>2. \/ pendingMessages' = pendingMessages
            \/ pendingMessages' = [pendingMessages EXCEPT ![Dest[m]] = q]
        BY <2>5 DEF FileShare
      <4>3. q \in Seq(Msgs)
        BY <4>1, CountAppend DEF TypeOK
      <4> HIDE DEF q
      <4>4. pendingMessages \in [Users -> Seq(Msgs)]
        BY DEF TypeOK
      <4>5. CASE pendingMessages' = [pendingMessages EXCEPT ![Dest[m]] = q]
        BY <4>1, <4>3, <4>4, <4>5
      <4> QED
        BY <4>2, <4>4, <4>5
    <3>2. got' \in [Copies -> Nat]
      BY <2>5, EmitType DEF TypeOK, FileShare, EmitTo
    <3> QED
      BY <2>1, <2>5, <3>1, <3>2 DEF TypeOK, FileShare
  <2>6. CASE Signal(s, m)
    <3>1. got' \in [Copies -> Nat]
      BY <2>6, EmitType DEF Signal, EmitTo
    <3> QED
      BY <2>1, <2>6, <3>1 DEF TypeOK, Signal
  <2>7. CASE GroupMessage(s, m)
    <3>1. got' \in [Copies -> Nat]
      BY <2>7, EmitType DEF GroupMessage, EmitTo
    <3>2. pendingMessages' \in [Users -> Seq(Msgs)]
      BY <2>7 DEF TypeOK, GroupMessage
    <3> QED
      BY <2>1, <2>7, <3>1, <3>2 DEF TypeOK, GroupMessage, FirstTime
  <2>8. CASE RoomMessage(s, m)
    <3>1. got' \in [Copies -> Nat]
      BY <2>8, EmitType DEF RoomMessage
    <3> QED
      BY <2>1, <2>8, <3>1 DEF TypeOK, RoomMessage, FirstTime
  <2> QED
    BY <1>2, <2>2, <2>3, <2>4, <2>5, <2>6, <2>7, <2>8 DEF Frame
<1>3. ASSUME NEW s \in Sockets, NEW u \in Users, NEW gs \in SUBSET Groups, Register(s, u, gs)
      PROVE  TypeOK'
  <2>1. \A x \in Msgs : Count(pendingMessages[u], x) \in Nat
    BY CountType DEF TypeOK
  <2>2. got' \in [Copies -> Nat]
    BY <1>3, <2>1 DEF TypeOK, Register, Copies
  <2>3. groups' \in [Groups -> (SUBSET Users) \cup {NoGroup}]
    BY <1>3 DEF TypeOK, Register, Rejoined
  <2>4. pendingMessages' \in [Users -> Seq(Msgs)]
    BY <1>3 DEF TypeOK, Register
  <2> QED
    BY <1>3, <2>2, <2>3, <2>4 DEF TypeOK, Register
<1>4. ASSUME NEW s \in Sockets, NEW g \in Groups, NEW members \in SUBSET Users,
             GroupCreate(s, g, members)
      PROVE  TypeOK'
  BY <1>4 DEF TypeOK, GroupCreate
<1>5. ASSUME NEW s \in Sockets, NEW g \in Groups, NEW u \in Users,
             GroupJoin(s, g, u) \/ GroupLeave(s, g, u)
      PROVE  TypeOK'
  <2>1. CASE GroupJoin(s, g, u)
    <3>1. groups' \in [Groups -> (SUBSET Users) \cup {NoGroup}]
      BY <2>1 DEF TypeOK, GroupJoin
    <3> QED
      BY <2>1, <3>1 DEF TypeOK, GroupJoin
  <2>2. CASE GroupLeave(s, g, u)
    <3>1. groups' \in [Groups -> (SUBSET Users) \cup {NoGroup}]
      BY <2>2 DEF TypeOK, GroupLeave
    <3> QED
      BY <2>2, <3>1 DEF TypeOK, GroupLeave
  <2> QED
    BY <1>5, <2>1, <2>2
<1>6. ASSUME NEW m \in Msgs, CleanupDeliveredIds(m)
      PROVE  TypeOK'
  BY <1>6 DEF TypeOK, CleanupDeliveredIds
<1>7. ASSUME NEW u \in Users, CleanupExpiredMessages(u)
      PROVE  TypeOK'
  <2>1. PICK n \in 1..Len(pendingMessages[u]) :
          pendingMessages' = [pendingMessages EXCEPT ![u] = SubSeq(@, n + 1, Len(@))]
    BY <1>7 DEF CleanupExpiredMessages
  <2>2. SubSeq(pendingMessages[u], n + 1, Len(pendingMessages[u])) \in Seq(Msgs)
    BY CountSuffix DEF TypeOK
  <2> QED
    BY <1>7, <2>1, <2>2 DEF TypeOK, CleanupExpiredMessages
<1>8. CASE Restart
  BY <1>8 DEF TypeOK, Restart, NoGroup
<1>9. CASE UNCHANGED vars
  BY <1>9 DEF TypeOK, vars
<1> QED
  BY <1>1, <1>2, <1>3, <1>4, <1>5, <1>6, <1>7, <1>8, <1>9 DEF Next

\* The relay's maps, queues and lists keep their types.
THEOREM TypeCorrect == Spec => []TypeOK
<1> QED
  BY TypeInit, TypeStep, PTL DEF Spec

-----------------------------------------------------------------------------
(* What waits, and where the entries lead                                  *)

\* Who is present, and what is queued for whom.
PresenceInv == TypeOK /\ QueuedMeansAbsent /\ EntriesLeadSomewhere

\* PresenceInv before the first frame.
LEMMA PresenceInit == Init => PresenceInv
  BY TypeInit, NodeRelayAssumption DEF Init, PresenceInv, QueuedMeansAbsent, EntriesLeadSomewhere

\* A frame leaves the users, the sockets and what they registered alone.
LEMMA FrameKeeps ==
  ASSUME NEW s \in Sockets, NEW m \in Msgs, Frame(s, m)
  PROVE  UNCHANGED <<connectedUsers, groups, rooms, link, forgotten, claimed, listed, restarts>>
  BY DEF Frame, Repeated, MessageOnline, MessageOffline, FileShare, Signal, GroupMessage,
         RoomMessage, relayVars, pastVars

\* A frame adds to a user's queue only while that user is away.
LEMMA FrameQueues ==
  ASSUME TypeOK, NEW s \in Sockets, NEW m \in Msgs, Frame(s, m), NEW u \in Users
  PROVE  \/ pendingMessages'[u] = pendingMessages[u]
         \/ ~Online(u) /\ pendingMessages'[u] = Append(pendingMessages[u], m)
<1> USE NodeRelayAssumption DEF relayVars
<1>1. CASE Repeated(s, m) \/ MessageOnline(s, m) \/ Signal(s, m) \/ RoomMessage(s, m)
  BY <1>1 DEF Repeated, MessageOnline, Signal, RoomMessage
<1>2. CASE MessageOffline(s, m)
  BY <1>2 DEF TypeOK, MessageOffline
<1>3. CASE FileShare(s, m)
  <2>1. Dest[m] \in Users
    BY <1>3 DEF FileShare
  <2>2. \/ UNCHANGED pendingMessages
        \/ /\ ~Online(Dest[m])
           /\ pendingMessages' = [pendingMessages EXCEPT ![Dest[m]] = Append(@, m)]
    BY <1>3 DEF FileShare
  <2> QED
    BY <2>1, <2>2 DEF TypeOK
<1>4. CASE GroupMessage(s, m)
  BY <1>4 DEF TypeOK, GroupMessage
<1> QED
  BY <1>1, <1>2, <1>3, <1>4 DEF Frame

\* A user who comes has the queue emptied, one who is here has nothing queued.
LEMMA QueuedStep == TypeOK /\ QueuedMeansAbsent /\ [Next]_vars => QueuedMeansAbsent'
<1> SUFFICES ASSUME TypeOK, QueuedMeansAbsent, [Next]_vars,
                    NEW w \in Users, pendingMessages'[w] # <<>>
             PROVE  connectedUsers'[w] = NoSocket
  BY DEF QueuedMeansAbsent
<1> USE DEF relayVars, pastVars
<1>1. ASSUME NEW s \in Sockets, Connect(s) \/ Break(s) \/ Disconnect(s)
      PROVE  connectedUsers'[w] = NoSocket
  BY <1>1 DEF TypeOK, QueuedMeansAbsent, Connect, Break, Disconnect
<1>2. ASSUME NEW s \in Sockets, NEW m \in Msgs, Frame(s, m)
      PROVE  connectedUsers'[w] = NoSocket
  BY <1>2, FrameKeeps, FrameQueues DEF QueuedMeansAbsent, Online
<1>3. ASSUME NEW s \in Sockets, NEW u \in Users, NEW gs \in SUBSET Groups, Register(s, u, gs)
      PROVE  connectedUsers'[w] = NoSocket
  BY <1>3 DEF TypeOK, QueuedMeansAbsent, Register
<1>4. ASSUME NEW s \in Sockets, NEW g \in Groups, NEW members \in SUBSET Users, NEW u \in Users,
             GroupCreate(s, g, members) \/ GroupJoin(s, g, u) \/ GroupLeave(s, g, u)
      PROVE  connectedUsers'[w] = NoSocket
  BY <1>4 DEF QueuedMeansAbsent, GroupCreate, GroupJoin, GroupLeave
<1>5. ASSUME NEW m \in Msgs, CleanupDeliveredIds(m)
      PROVE  connectedUsers'[w] = NoSocket
  BY <1>5 DEF QueuedMeansAbsent, CleanupDeliveredIds
<1>6. ASSUME NEW u \in Users, CleanupExpiredMessages(u)
      PROVE  connectedUsers'[w] = NoSocket
  BY <1>6 DEF TypeOK, QueuedMeansAbsent, CleanupExpiredMessages
<1>7. CASE Restart
  BY <1>7 DEF Restart
<1>8. CASE UNCHANGED vars
  BY <1>8 DEF QueuedMeansAbsent, vars
<1> QED
  BY <1>1, <1>2, <1>3, <1>4, <1>5, <1>6, <1>7, <1>8 DEF Next

\* An entry of the map goes with the socket it leads to.
LEMMA EntriesStep == TypeOK /\ EntriesLeadSomewhere /\ [Next]_vars => EntriesLeadSomewhere'
<1> SUFFICES ASSUME TypeOK, EntriesLeadSomewhere, [Next]_vars,
                    NEW w \in Users, NEW t \in Sockets, connectedUsers'[w] = t
             PROVE  w \in claimed'[t] /\ (link'[t] = "closed" => claimed'[t] # {w})
  BY DEF EntriesLeadSomewhere
<1> DEFINE Leads == w \in claimed'[t] /\ (link'[t] = "closed" => claimed'[t] # {w})
<1> USE NodeRelayAssumption DEF relayVars, pastVars
<1>1. ASSUME NEW s \in Sockets, Connect(s) \/ Break(s)
      PROVE  Leads
  <2>1. CASE Connect(s)
    BY <2>1 DEF TypeOK, EntriesLeadSomewhere, Connect
  <2>2. CASE Break(s)
    BY <2>2 DEF TypeOK, EntriesLeadSomewhere, Break
  <2> QED
    BY <1>1, <2>1, <2>2
<1>2. ASSUME NEW s \in Sockets, Disconnect(s)
      PROVE  Leads
  <2>1. connectedUsers[w] = t /\ claimed' = claimed
    BY <1>2 DEF TypeOK, Disconnect
  <2>2. CASE s # t
    BY <1>2, <2>1, <2>2 DEF TypeOK, EntriesLeadSomewhere, Disconnect
  <2>3. CASE s = t
    <3>1. PICK u \in Users : /\ connectedUsers[u] = s
                             /\ connectedUsers' = [connectedUsers EXCEPT ![u] = NoSocket]
      BY <1>2, <2>1, <2>3 DEF Disconnect
    <3>2. u # w
      BY <3>1, <2>1 DEF TypeOK
    <3>3. u \in claimed[t] /\ w \in claimed[t]
      BY <3>1, <2>1, <2>3 DEF EntriesLeadSomewhere
    <3> QED
      BY <2>1, <3>2, <3>3
  <2> QED
    BY <2>2, <2>3
<1>3. ASSUME NEW s \in Sockets, NEW m \in Msgs, Frame(s, m)
      PROVE  Leads
  BY <1>3, FrameKeeps DEF EntriesLeadSomewhere
<1>4. ASSUME NEW s \in Sockets, NEW u \in Users, NEW gs \in SUBSET Groups, Register(s, u, gs)
      PROVE  Leads
  BY <1>4 DEF TypeOK, EntriesLeadSomewhere, Register, Heard
<1>5. ASSUME NEW s \in Sockets, NEW g \in Groups, NEW members \in SUBSET Users, NEW u \in Users,
             GroupCreate(s, g, members) \/ GroupJoin(s, g, u) \/ GroupLeave(s, g, u)
      PROVE  Leads
  BY <1>5 DEF EntriesLeadSomewhere, GroupCreate, GroupJoin, GroupLeave
<1>6. ASSUME NEW m \in Msgs, CleanupDeliveredIds(m)
      PROVE  Leads
  BY <1>6 DEF EntriesLeadSomewhere, CleanupDeliveredIds
<1>7. ASSUME NEW u \in Users, CleanupExpiredMessages(u)
      PROVE  Leads
  BY <1>7 DEF EntriesLeadSomewhere, CleanupExpiredMessages
<1>8. CASE Restart
  BY <1>8 DEF Restart
<1>9. CASE UNCHANGED vars
  BY <1>9 DEF EntriesLeadSomewhere, vars
<1> QED
  BY <1>1, <1>2, <1>3, <1>4, <1>5, <1>6, <1>7, <1>8, <1>9 DEF Next

\* Every event keeps PresenceInv.
LEMMA PresenceStep == PresenceInv /\ [Next]_vars => PresenceInv'
  BY TypeStep, QueuedStep, EntriesStep DEF PresenceInv

\* Nothing is queued for a user who is registered: in particular a register empties the queue
\* whatever was put there by messages, group messages and file links before.
THEOREM NothingWaitsForThePresent == Spec => []QueuedMeansAbsent
<1>1. PresenceInv => QueuedMeansAbsent
  BY DEF PresenceInv
<1> QED
  BY PresenceInit, PresenceStep, <1>1, PTL DEF Spec

\* An entry for a socket that is gone is what the disconnect of a socket with two ids left.
THEOREM EntriesLead == Spec => []EntriesLeadSomewhere
<1>1. PresenceInv => EntriesLeadSomewhere
  BY DEF PresenceInv
<1> QED
  BY PresenceInit, PresenceStep, <1>1, PTL DEF Spec

-----------------------------------------------------------------------------
(* Copies                                                                  *)

\* How many copies of m a user may have: one for each time the relay took m for new.
Allowance(m) ==
  IF Kind[m] \in {"file", "signal"} THEN forgotten[m] + sends[m]
  ELSE forgotten[m] + (IF m \in deliveredMessageIds THEN 1 ELSE 0)

\* A client sends a message no more often than it does.
SendsBounded == \A m \in Msgs : sends[m] <= MaxSends[m]

\* Nobody has more copies of a message than the relay took it for new.
CopiesInv ==
  /\ TypeOK
  /\ SendsBounded
  /\ \A m \in Msgs, u \in Users : CopiesOf(m, u) <= Allowance(m)

\* A frame is received at once only by users who are registered.
LEMMA FrameEmits ==
  ASSUME TypeOK, NEW s \in Sockets, NEW m \in Msgs, Frame(s, m),
         NEW x \in Msgs, NEW u \in Users
  PROVE  \/ got'[<<x, u>>] = got[<<x, u>>]
         \/ x = m /\ Online(u) /\ got'[<<x, u>>] = got[<<x, u>>] + 1
<1> USE NodeRelayAssumption DEF relayVars
<1> <<x, u>> \in Copies /\ <<x, u>>[1] = x /\ <<x, u>>[2] = u
  BY DEF Copies
<1>1. ASSUME NEW us, EmitTo(m, us)
      PROVE  \/ got'[<<x, u>>] = got[<<x, u>>]
             \/ x = m /\ Online(u) /\ got'[<<x, u>>] = got[<<x, u>>] + 1
  BY <1>1, EmitType DEF EmitTo, Online
<1>2. CASE RoomMessage(s, m)
  BY <1>2, EmitType DEF RoomMessage
<1>3. CASE Repeated(s, m) \/ MessageOffline(s, m)
  BY <1>3 DEF Repeated, MessageOffline
<1>4. CASE MessageOnline(s, m) \/ FileShare(s, m) \/ Signal(s, m) \/ GroupMessage(s, m)
  BY <1>1, <1>4 DEF MessageOnline, FileShare, Signal, GroupMessage
<1> QED
  BY <1>2, <1>3, <1>4 DEF Frame

\* The numbers CopiesOf adds.
LEMMA CopiesType ==
  ASSUME TypeOK, NEW x \in Msgs, NEW u \in Users
  PROVE  Count(pendingMessages[u], x) \in Nat /\ got[<<x, u>>] \in Nat
  BY CountType DEF TypeOK, Copies

\* A frame makes at most one copy of itself for each user, and none of any other.
LEMMA FrameCopies ==
  ASSUME TypeOK, NEW s \in Sockets, NEW m \in Msgs, Frame(s, m),
         NEW x \in Msgs, NEW u \in Users
  PROVE  CopiesOf(x, u)' <= IF x = m THEN CopiesOf(x, u) + 1 ELSE CopiesOf(x, u)
<1>1. CASE pendingMessages'[u] = pendingMessages[u]
  BY <1>1, FrameEmits, CopiesType DEF CopiesOf
<1>2. CASE ~Online(u) /\ pendingMessages'[u] = Append(pendingMessages[u], m)
  <2>1. got'[<<x, u>>] = got[<<x, u>>]
    BY <1>2, FrameEmits
  <2>2. Count(pendingMessages'[u], x) = IF x = m THEN Count(pendingMessages[u], x) + 1
                                        ELSE Count(pendingMessages[u], x)
    BY <1>2, CountAppend DEF TypeOK
  <2> QED
    BY <2>1, <2>2, CopiesType DEF CopiesOf
<1> QED
  BY <1>1, <1>2, FrameQueues

\* The numbers CopiesInv compares, before and after a step.
LEMMA CopiesNumbers ==
  ASSUME TypeOK, TypeOK', NEW x \in Msgs, NEW u \in Users
  PROVE  /\ CopiesOf(x, u) \in Nat /\ CopiesOf(x, u)' \in Nat
         /\ Allowance(x) \in Nat /\ Allowance(x)' \in Nat
<1>1. CopiesOf(x, u) \in Nat
  BY CopiesType DEF CopiesOf
<1>2. pendingMessages'[u] \in Seq(Msgs) /\ got'[<<x, u>>] \in Nat
  BY DEF TypeOK, Copies
<1>3. CopiesOf(x, u)' \in Nat
  <2>1. Count(pendingMessages'[u], x) \in Nat
    BY <1>2, CountType
  <2> QED
    BY <1>2, <2>1 DEF CopiesOf
<1>4. Allowance(x) \in Nat /\ Allowance(x)' \in Nat
  BY DEF Allowance, TypeOK
<1> QED
  BY <1>1, <1>3, <1>4

\* CopiesInv before the first frame.
LEMMA CopiesInit == Init => CopiesInv
<1> SUFFICES ASSUME Init PROVE CopiesInv
  OBVIOUS
<1>1. TypeOK
  BY TypeInit
<1>2. SendsBounded
  BY NodeRelayAssumption DEF Init, SendsBounded
<1>3. ASSUME NEW m \in Msgs, NEW u \in Users
      PROVE  CopiesOf(m, u) <= Allowance(m)
  BY CountEmpty DEF Init, CopiesOf, Allowance, Copies
<1> QED
  BY <1>1, <1>2, <1>3 DEF CopiesInv

\* A frame that makes copies is one the relay took for new.
LEMMA FrameAllows ==
  ASSUME CopiesInv, NEW s \in Sockets, NEW m \in Msgs, Frame(s, m)
  PROVE  CopiesInv'
<1> USE NodeRelayAssumption DEF relayVars, pastVars
<1>1. TypeOK /\ TypeOK'
  BY TypeStep DEF CopiesInv, Next
<1>2. sends' = [sends EXCEPT ![m] = @ + 1] /\ sends[m] < MaxSends[m]
  BY DEF Frame, Sends, Repeated, MessageOnline, MessageOffline, FileShare, Signal, GroupMessage,
         RoomMessage
<1>3. SendsBounded'
  BY <1>1, <1>2 DEF CopiesInv, SendsBounded, TypeOK
<1>4. ASSUME NEW x \in Msgs, NEW u \in Users
      PROVE  CopiesOf(x, u)' <= Allowance(x)'
  <2>1. /\ CopiesOf(x, u) <= Allowance(x)
        /\ CopiesOf(x, u) \in Nat /\ CopiesOf(x, u)' \in Nat
        /\ forgotten' = forgotten /\ forgotten[x] \in Nat /\ sends[x] \in Nat
    BY <1>1, CopiesNumbers, FrameKeeps DEF CopiesInv, TypeOK
  <2>2. CASE Repeated(s, m)
    <3>1. CopiesOf(x, u)' = CopiesOf(x, u)
      BY <2>2 DEF Repeated, CopiesOf
    <3>2. sends'[x] \in Nat /\ sends[x] <= sends'[x] /\ deliveredMessageIds' = deliveredMessageIds
      BY <1>1, <1>2, <2>2 DEF Repeated, TypeOK
    <3>3. Allowance(x) <= Allowance(x)' /\ Allowance(x) \in Nat /\ Allowance(x)' \in Nat
      BY <1>1, <2>1, <3>2, CopiesNumbers DEF Allowance
    <3> QED
      BY <2>1, <3>1, <3>3
  <2>3. CASE ~Repeated(s, m)
    <3>1. \/ Kind[m] \in {"file", "signal"} /\ deliveredMessageIds' = deliveredMessageIds
          \/ Kind[m] \notin {"file", "signal"} /\ FirstTime(m)
      BY <2>3 DEF Frame, MessageOnline, MessageOffline, FileShare, Signal, GroupMessage,
                  RoomMessage
    <3>2. sends'[x] = IF x = m THEN sends[x] + 1 ELSE sends[x]
      BY <1>1, <1>2 DEF TypeOK
    <3>3. Allowance(x)' = IF x = m THEN Allowance(x) + 1 ELSE Allowance(x)
      <4>1. CASE Kind[m] \in {"file", "signal"} /\ deliveredMessageIds' = deliveredMessageIds
        BY <2>1, <3>2, <4>1 DEF Allowance
      <4>2. CASE Kind[m] \notin {"file", "signal"} /\ FirstTime(m)
        BY <2>1, <3>2, <4>2 DEF Allowance, FirstTime
      <4> QED
        BY <3>1, <4>1, <4>2
    <3>4. Allowance(x) \in Nat
      BY <1>1, CopiesNumbers
    <3> QED
      BY <1>1, <2>1, <3>3, <3>4, FrameCopies
  <2> QED
    BY <2>2, <2>3
<1> QED
  BY <1>1, <1>3, <1>4 DEF CopiesInv

\* Every event keeps CopiesInv.
LEMMA CopiesStep == CopiesInv /\ [Next]_vars => CopiesInv'
<1> SUFFICES ASSUME CopiesInv, [Next]_vars PROVE CopiesInv'
  OBVIOUS
<1> USE NodeRelayAssumption DEF relayVars, pastVars
<1>1. TypeOK /\ TypeOK'
  BY TypeStep DEF CopiesInv
<1>2. \A x \in Msgs, u \in Users : /\ CopiesOf(x, u) \in Nat /\ CopiesOf(x, u)' \in Nat
                                   /\ CopiesOf(x, u) <= Allowance(x)
  BY <1>1, CopiesNumbers DEF CopiesInv
<1>3. \A x \in Msgs : Allowance(x) \in Nat /\ Allowance(x)' \in Nat
  BY <1>1 DEF Allowance, TypeOK
<1>4. ASSUME UNCHANGED <<deliveredMessageIds, sends, forgotten>>,
             \A x \in Msgs, u \in Users : CopiesOf(x, u)' <= CopiesOf(x, u)
      PROVE  CopiesInv'
  BY <1>1, <1>2, <1>3, <1>4 DEF CopiesInv, SendsBounded, Allowance
<1>5. ASSUME UNCHANGED <<deliveredMessageIds, sends, forgotten, got, pendingMessages>>
      PROVE  CopiesInv'
  BY <1>2, <1>4, <1>5 DEF CopiesOf
<1>6. ASSUME NEW s \in Sockets, Connect(s) \/ Break(s) \/ Disconnect(s)
      PROVE  CopiesInv'
  BY <1>5, <1>6 DEF Connect, Break, Disconnect
<1>7. ASSUME NEW s \in Sockets, NEW m \in Msgs, Frame(s, m)
      PROVE  CopiesInv'
  BY <1>7, FrameAllows
<1>8. ASSUME NEW s \in Sockets, NEW v \in Users, NEW gs \in SUBSET Groups, Register(s, v, gs)
      PROVE  CopiesInv'
  <2>1. ASSUME NEW x \in Msgs, NEW u \in Users
        PROVE  CopiesOf(x, u)' <= CopiesOf(x, u)
    <3>1. Count(pendingMessages[u], x) \in Nat /\ got[<<x, u>>] \in Nat
      BY <1>1, CopiesType
    <3>2. CASE u = v
      <4>1. Count(pendingMessages'[u], x) = 0
        BY <1>1, <1>8, <3>2, CountEmpty DEF Register, TypeOK
      <4>2. got'[<<x, u>>] \in {got[<<x, u>>], got[<<x, u>>] + Count(pendingMessages[u], x)}
        BY <1>8, <3>2 DEF Register, Copies
      <4> QED
        BY <3>1, <4>1, <4>2 DEF CopiesOf
    <3>3. CASE u # v
      <4>1. pendingMessages'[u] = pendingMessages[u] /\ got'[<<x, u>>] = got[<<x, u>>]
        BY <1>1, <1>8, <3>3 DEF Register, TypeOK, Copies
      <4> QED
        BY <3>1, <4>1 DEF CopiesOf
    <3> QED
      BY <3>2, <3>3
  <2> QED
    BY <1>4, <1>8, <2>1 DEF Register
<1>9. ASSUME NEW s \in Sockets, NEW g \in Groups,
             \/ \E members \in SUBSET Users : GroupCreate(s, g, members)
             \/ \E u \in Users : GroupJoin(s, g, u) \/ GroupLeave(s, g, u)
      PROVE  CopiesInv'
  BY <1>5, <1>9 DEF GroupCreate, GroupJoin, GroupLeave
<1>10. ASSUME NEW m \in Msgs, CleanupDeliveredIds(m)
       PROVE  CopiesInv'
  <2>1. \A x \in Msgs : Allowance(x) <= Allowance(x)'
    BY <1>1, <1>10 DEF CleanupDeliveredIds, Allowance, TypeOK
  <2>2. \A x \in Msgs, u \in Users : CopiesOf(x, u)' = CopiesOf(x, u)
    BY <1>10 DEF CleanupDeliveredIds, CopiesOf
  <2> QED
    BY <1>1, <1>2, <1>3, <1>10, <2>1, <2>2 DEF CopiesInv, SendsBounded, CleanupDeliveredIds
<1>11. ASSUME NEW v \in Users, CleanupExpiredMessages(v)
       PROVE  CopiesInv'
  <2>1. ASSUME NEW x \in Msgs, NEW u \in Users
        PROVE  CopiesOf(x, u)' <= CopiesOf(x, u)
    <3>1. PICK n \in 1..Len(pendingMessages[v]) :
            pendingMessages' = [pendingMessages EXCEPT ![v] = SubSeq(@, n + 1, Len(@))]
      BY <1>11 DEF CleanupExpiredMessages
    <3>2. Count(pendingMessages'[u], x) <= Count(pendingMessages[u], x)
      <4>1. Count(SubSeq(pendingMessages[v], n + 1, Len(pendingMessages[v])), x)
              <= Count(pendingMessages[v], x)
        BY <1>1, CountSuffix DEF TypeOK
      <4>2. Count(pendingMessages[u], x) \in Nat
        BY <1>1, CopiesType
      <4>3. pendingMessages'[u] = IF u = v THEN SubSeq(pendingMessages[v], n + 1, Len(pendingMessages[v]))
                                  ELSE pendingMessages[u]
        BY <1>1, <3>1 DEF TypeOK
      <4> QED
        BY <4>1, <4>2, <4>3
    <3>3. Count(pendingMessages'[u], x) \in Nat
      BY <1>1, CountType DEF TypeOK
    <3> QED
      BY <1>1, <1>11, <3>2, <3>3, CopiesType DEF CleanupExpiredMessages, CopiesOf
  <2> QED
    BY <1>4, <1>11, <2>1 DEF CleanupExpiredMessages
<1>12. CASE Restart
  <2>1. \A x \in Msgs : Allowance(x) <= Allowance(x)'
    BY <1>1, <1>12 DEF Restart, Allowance, TypeOK
  <2>2. ASSUME NEW x \in Msgs, NEW u \in Users
        PROVE  CopiesOf(x, u)' <= CopiesOf(x, u)
    <3>1. Count(pendingMessages'[u], x) = 0 /\ got' = got
      BY <1>12, CountEmpty DEF Restart
    <3> QED
      BY <1>1, <3>1, CopiesType DEF CopiesOf
  <2> QED
    BY <1>1, <1>2, <1>3, <1>12, <2>1, <2>2 DEF CopiesInv, SendsBounded, Restart
<1>13. CASE UNCHANGED vars
  BY <1>5, <1>13 DEF vars
<1> QED
  BY <1>6, <1>7, <1>8, <1>9, <1>10, <1>11, <1>12, <1>13 DEF Next

\* A user never has more copies of a frame than one and one for each time the relay lost its
\* id, wherever the copies are and however often the frame is repeated.
THEOREM CopiesAreBounded == Spec => []OnceWhileRemembered
<1>1. CopiesInv => OnceWhileRemembered
  <2> SUFFICES ASSUME CopiesInv, NEW m \in Msgs, NEW u \in Users
               PROVE  CopiesOf(m, u) <= 1 + forgotten[m]
    BY DEF OnceWhileRemembered
  <2>1. CopiesOf(m, u) <= Allowance(m) /\ CopiesOf(m, u) \in Nat
    BY CopiesType DEF CopiesInv, CopiesOf
  <2>2. Allowance(m) <= 1 + forgotten[m] /\ forgotten[m] \in Nat /\ Allowance(m) \in Nat
    BY NodeRelayAssumption DEF CopiesInv, SendsBounded, Allowance, TypeOK
  <2> QED
    BY <2>1, <2>2
<1> QED
  BY CopiesInit, CopiesStep, <1>1, PTL DEF Spec

-----------------------------------------------------------------------------
(* Group messages                                                          *)

\* The relay's list holds everybody who registered with the group since the relay started.
ListInv == TypeOK /\ \A g \in Groups : listed[g] \subseteq groups[g]

\* ListInv before the first frame.
LEMMA ListInit == Init => ListInv
  BY TypeInit DEF Init, ListInv

\* Every event keeps ListInv.
LEMMA ListStep == ListInv /\ [Next]_vars => ListInv'
<1> SUFFICES ASSUME ListInv, [Next]_vars PROVE ListInv'
  OBVIOUS
<1> USE NodeRelayAssumption DEF relayVars, pastVars
<1>1. TypeOK /\ TypeOK'
  BY TypeStep DEF ListInv
<1>2. ASSUME UNCHANGED <<groups, listed>>
      PROVE  ListInv'
  BY <1>1, <1>2 DEF ListInv
<1>3. ASSUME NEW s \in Sockets, Connect(s) \/ Break(s) \/ Disconnect(s)
      PROVE  ListInv'
  BY <1>2, <1>3 DEF Connect, Break, Disconnect
<1>4. ASSUME NEW s \in Sockets, NEW m \in Msgs, Frame(s, m)
      PROVE  ListInv'
  BY <1>2, <1>4, FrameKeeps
<1>5. ASSUME NEW s \in Sockets, NEW u \in Users, NEW gs \in SUBSET Groups, Register(s, u, gs)
      PROVE  ListInv'
  <2> SUFFICES ASSUME NEW g \in Groups, NEW w \in listed'[g] PROVE w \in groups'[g]
    BY <1>1 DEF ListInv
  <2>1. CASE g \in gs
    <3>1. w \in listed[g] \cup {u}
      BY <1>1, <1>5, <2>1 DEF Register, TypeOK
    <3>2. groups'[g] = IF groups[g] = NoGroup THEN {u} ELSE groups[g] \cup {u}
      BY <1>1, <1>5, <2>1 DEF Register, Rejoined, TypeOK
    <3>3. groups[g] = NoGroup => listed[g] = {}
      BY <1>1 DEF ListInv, NoGroup, TypeOK
    <3> QED
      BY <3>1, <3>2, <3>3 DEF ListInv
  <2>2. CASE g \notin gs
    BY <1>1, <1>5, <2>2 DEF ListInv, Register, Rejoined, TypeOK
  <2> QED
    BY <2>1, <2>2
<1>6. ASSUME NEW s \in Sockets, NEW g \in Groups, NEW members \in SUBSET Users,
             GroupCreate(s, g, members)
      PROVE  ListInv'
  BY <1>1, <1>6 DEF ListInv, GroupCreate, TypeOK
<1>7. ASSUME NEW s \in Sockets, NEW g \in Groups, NEW u \in Users, GroupJoin(s, g, u)
      PROVE  ListInv'
  BY <1>1, <1>7 DEF ListInv, GroupJoin, TypeOK
<1>8. ASSUME NEW s \in Sockets, NEW g \in Groups, NEW u \in Users, GroupLeave(s, g, u)
      PROVE  ListInv'
  <2> SUFFICES ASSUME NEW h \in Groups, NEW w \in listed'[h] PROVE w \in groups'[h]
    BY <1>1 DEF ListInv
  <2>1. w \in listed[h] /\ w \in groups[h] /\ (h = g => w # u)
    BY <1>1, <1>8 DEF ListInv, GroupLeave, TypeOK
  <2>2. CASE h = g
    <3>1. groups[g] # NoGroup /\ ~(groups[g] \subseteq {u})
      BY <1>1, <2>1, <2>2 DEF NoGroup, TypeOK
    <3>2. groups'[g] = groups[g] \ {u}
      BY <1>1, <1>8, <3>1 DEF GroupLeave, TypeOK
    <3> QED
      BY <2>1, <2>2, <3>2
  <2>3. CASE h # g
    BY <1>1, <1>8, <2>1, <2>3 DEF GroupLeave, TypeOK
  <2> QED
    BY <2>2, <2>3
<1>9. ASSUME NEW m \in Msgs, CleanupDeliveredIds(m)
      PROVE  ListInv'
  BY <1>2, <1>9 DEF CleanupDeliveredIds
<1>10. ASSUME NEW u \in Users, CleanupExpiredMessages(u)
       PROVE  ListInv'
  BY <1>2, <1>10 DEF CleanupExpiredMessages
<1>11. CASE Restart
  BY <1>1, <1>11 DEF ListInv, Restart
<1>12. CASE UNCHANGED vars
  BY <1>2, <1>12 DEF vars
<1> QED
  BY <1>3, <1>4, <1>5, <1>6, <1>7, <1>8, <1>9, <1>10, <1>11, <1>12 DEF Next

\* A group message the relay takes for new leaves no member out who is online on a live socket,
\* or away with room in the queue.
THEOREM FanoutsAreComplete == Spec => FanoutComplete
<1> DEFINE Complete == \A m \in GroupMsgs :
       m \notin deliveredMessageIds /\ m \in deliveredMessageIds' =>
         \A u \in listed[Dest[m]] \ {From[m]} :
           \/ CopiesOf(m, u)' > CopiesOf(m, u)
           \/ ~Online(u) /\ Full(u)
           \/ Online(u) /\ link[connectedUsers[u]] # "open"
<1>1. ListInv /\ [Next]_vars => [Complete]_vars
  <2> SUFFICES ASSUME ListInv, [Next]_vars, NEW m \in GroupMsgs,
                      m \notin deliveredMessageIds, m \in deliveredMessageIds',
                      NEW u \in listed[Dest[m]] \ {From[m]},
                      ~(~Online(u) /\ Full(u)),
                      Online(u) => link[connectedUsers[u]] = "open"
               PROVE  CopiesOf(m, u)' > CopiesOf(m, u)
    OBVIOUS
  <2> USE NodeRelayAssumption DEF relayVars, pastVars
  <2>1. /\ TypeOK /\ TypeOK'
        /\ m \in Msgs /\ Kind[m] = "group" /\ Dest[m] \in Groups
        /\ u \in Users /\ u \in groups[Dest[m]]
    BY TypeStep DEF ListInv, GroupMsgs, TypeOK
  <2>2. PICK s \in Sockets : \E x \in Msgs : Frame(s, x) /\ FirstTime(x)
    <3>1. ~ \E s \in Sockets : \/ Connect(s) \/ Break(s) \/ Disconnect(s)
      BY DEF Connect, Break, Disconnect
    <3>2. ~ \E s \in Sockets, w \in Users, gs \in SUBSET Groups : Register(s, w, gs)
      BY DEF Register
    <3>3. ~ \E s \in Sockets, g \in Groups :
              \/ \E members \in SUBSET Users : GroupCreate(s, g, members)
              \/ \E w \in Users : GroupJoin(s, g, w) \/ GroupLeave(s, g, w)
      BY DEF GroupCreate, GroupJoin, GroupLeave
    <3>4. ~ \E x \in Msgs : CleanupDeliveredIds(x)
      BY DEF CleanupDeliveredIds
    <3>5. ~ \E w \in Users : CleanupExpiredMessages(w)
      BY DEF CleanupExpiredMessages
    <3>6. ~ Restart /\ ~ UNCHANGED vars
      BY DEF Restart, vars
    <3>7. PICK s \in Sockets, x \in Msgs : Frame(s, x)
      BY <3>1, <3>2, <3>3, <3>4, <3>5, <3>6 DEF Next
    <3>8. FirstTime(x) \/ UNCHANGED deliveredMessageIds
      BY <3>7 DEF Frame, Repeated, MessageOnline, MessageOffline, FileShare, Signal,
                  GroupMessage, RoomMessage
    <3> QED
      BY <3>7, <3>8
  <2>3. Frame(s, m)
    BY <2>2 DEF FirstTime
  <2>4. GroupMessage(s, m)
    <3>1. ~RoomMessage(s, m)
      BY <2>1 DEF RoomMessage, NoGroup
    <3>2. ~Repeated(s, m)
      BY DEF Repeated
    <3> QED
      BY <2>1, <2>3, <3>1, <3>2 DEF Frame, MessageOnline, MessageOffline, FileShare, Signal
  <2> DEFINE others == groups[Dest[m]] \ {From[m]}
  <2>5. u \in others
    BY <2>1
  <2>6. <<m, u>> \in Copies /\ <<m, u>>[1] = m /\ <<m, u>>[2] = u
    BY <2>1 DEF Copies
  <2>7. CASE Online(u)
    <3>1. connectedUsers[u] \in Sockets /\ link[connectedUsers[u]] = "open"
      BY <2>1, <2>7 DEF Online, TypeOK
    <3>2. EmitTo(m, others)
      BY <2>4 DEF GroupMessage
    <3>3. got'[<<m, u>>] = got[<<m, u>>] + 1
      BY <2>1, <2>5, <2>6, <3>1, <3>2, EmitType DEF EmitTo
    <3>4. pendingMessages'[u] = pendingMessages[u]
      BY <2>1, <2>3, <2>7, FrameQueues
    <3> QED
      BY <2>1, <3>3, <3>4, CopiesType DEF CopiesOf
  <2>8. CASE ~Online(u)
    <3>1. pendingMessages'[u] = Append(pendingMessages[u], m)
      BY <2>1, <2>4, <2>5, <2>8 DEF GroupMessage, TypeOK
    <3>2. Count(pendingMessages'[u], m) = Count(pendingMessages[u], m) + 1
      BY <2>1, <3>1, CountAppend DEF TypeOK
    <3>3. got'[<<m, u>>] = got[<<m, u>>]
      BY <2>1, <2>3, <2>8, FrameEmits
    <3> QED
      BY <2>1, <3>2, <3>3, CopiesType DEF CopiesOf
  <2> QED
    BY <2>7, <2>8
<1> QED
  BY ListInit, ListStep, <1>1, PTL DEF Spec, FanoutComplete
=============================================================================
