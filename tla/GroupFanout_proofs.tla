------------------------- MODULE GroupFanout_proofs -------------------------
(***************************************************************************)
(* Theorems about GroupFanout, for any users, messages, member lists and   *)
(* spare capacity.                                                         *)
(***************************************************************************)
EXTENDS GroupFanout, FiniteSetTheorems, SequenceTheorems, TLAPS

-----------------------------------------------------------------------------
(* The inductive invariant                                                 *)

\* What a position of an array may hold.
Cells == Users \cup {Blank}

\* TypeOK without what follows from the other parts.
Shape ==
  /\ cells \in Seq(Cells)
  /\ len \in 0..Len(cells)
  /\ leaver \in Users \cup {Nobody}
  /\ readAt \in Nat /\ writeAt \in Nat
  /\ viewLen \in [Messages -> Nat]
  /\ sharing \in SUBSET Messages
  /\ older \in [Messages -> Seq(Cells)]
  /\ at \in [Messages -> Nat]
  /\ reached \in [Messages -> Seq(Users)]
  /\ start \in [Messages -> Seq(Users)]
  /\ joined \in [Messages -> SUBSET Users]
  /\ disturbed \in SUBSET Messages
  /\ roster \in SUBSET Users

\* The positions of the list that hold it while a removal runs: what was written back, and what
\* was not read yet.
Kept == (1..(writeAt - 1)) \cup (readAt..len)

\* No value is at two positions of K.
Distinct(q, K) == \A i, j \in K : q[i] = q[j] => i = j

\* Between removals the slice is the group.
RestInv ==
  leaver = Nobody => /\ Listed = roster
                     /\ Distinct(cells, 1..len)
                     /\ readAt = 0 /\ writeAt = 0

\* During one the kept positions are the group, but for the leaver; a removal of a stranger
\* moves nothing, and one of a member disturbs every message under way.
RemovalInv ==
  leaver # Nobody => /\ 1 <= writeAt /\ writeAt <= readAt /\ readAt <= len + 1 /\ 1 <= len
                     /\ Distinct(cells, Kept)
                     /\ \A i \in Kept : cells[i] \in roster
                     /\ \A u \in roster : u = leaver \/ \E i \in Kept : cells[i] = u
                     /\ \A i \in 1..(writeAt - 1) : cells[i] # leaver
                     /\ leaver \notin roster => writeAt = readAt
                     /\ leaver \in roster => InFlight \subseteq disturbed

\* The list, between removals and during one.
ListInv == (\A i \in 1..len : cells[i] \in Users) /\ RestInv /\ RemovalInv

\* The array each message walks.
Views == [h \in Messages |-> IF h \in sharing THEN cells ELSE older[h]]

\* The users each message may go to.
Known == [h \in Messages |-> Range(start[h]) \cup joined[h]]

\* What a message under way will read is known to it, and so is everybody listed, since the
\* cells it shares may be overwritten with them.  Without a removal it reads what it started
\* with: appends write behind its slice.
FlightInv ==
  \A h \in InFlight :
    /\ viewLen[h] <= Len(Views[h])
    /\ \A i \in 1..viewLen[h] : Views[h][i] \in Users /\ Views[h][i] \in Known[h]
    /\ \A i \in 1..len : cells[i] \in Known[h]
    /\ h \notin disturbed => /\ \A i \in 1..viewLen[h] : Views[h][i] = start[h][i]
                             /\ h \in sharing => viewLen[h] <= len

\* What a message has reached.
ReachInv ==
  \A h \in Messages :
    /\ \A i \in DOMAIN reached[h] : reached[h][i] \in Known[h]
    /\ at[h] = 0 => reached[h] = <<>> /\ viewLen[h] = 0
    /\ at[h] > 0 => Len(start[h]) = viewLen[h] /\ at[h] <= viewLen[h] + 1
    /\ Distinct(start[h], DOMAIN start[h])
    /\ h \notin disturbed /\ at[h] > 0
         => Delivers(reached[h], SubSeq(start[h], 1, at[h] - 1), From[h])

\* The inductive invariant.
GroupInv == Shape /\ ListInv /\ FlightInv /\ ReachInv

\* GroupInv is stronger than the properties.
LEMMA GroupInvSuffices ==
  ASSUME GroupInv
  PROVE  TypeOK /\ ListAgrees /\ OnlyMembers /\ CompleteUnlessDisturbed
<1> USE DEF GroupInv
<1>1. TypeOK
  <2>1. writeAt \in 0..readAt
    BY DEF Shape, ListInv, RestInv, RemovalInv
  <2>2. \A h \in InFlight : viewLen[h] <= Len(IF h \in sharing THEN cells ELSE older[h])
    BY DEF FlightInv, Views, InFlight
  <2> QED
    BY <2>1, <2>2 DEF TypeOK, Shape, Cells
<1>2. ListAgrees
  <2>1. SUFFICES ASSUME leaver = Nobody PROVE len = Cardinality(roster)
    BY DEF ListAgrees, Unlocked, ListInv, RestInv
  <2> DEFINE f == [i \in 1..len |-> cells[i]]
  <2>2. len \in Nat /\ roster = {cells[i] : i \in 1..len} /\ Distinct(cells, 1..len)
    BY <2>1 DEF Shape, ListInv, RestInv, Listed
  <2>3. f \in Bijection(1..len, roster)
    BY <2>2 DEF Bijection, Injection, IsInjective, Surjection, Distinct
  <2> HIDE DEF f
  <2>4. ExistsBijection(1..len, roster)
    BY <2>3 DEF ExistsBijection
  <2>5. IsFiniteSet(1..len) /\ Cardinality(1..len) = len
    BY <2>2, FS_Interval
  <2> QED
    BY <2>4, <2>5, FS_Bijection
<1>3. OnlyMembers
  BY DEF OnlyMembers, ReachInv, Known, Range
<1>4. CompleteUnlessDisturbed
  <2>1. SUFFICES ASSUME NEW h \in Messages, at[h] > viewLen[h], h \notin disturbed
                 PROVE  Delivers(reached[h], start[h], From[h])
    BY DEF CompleteUnlessDisturbed
  <2>2. /\ at[h] \in Nat /\ viewLen[h] \in Nat
        /\ start[h] \in Seq(Users)
    BY DEF Shape
  <2>3. at[h] > 0 /\ at[h] - 1 = Len(start[h])
    BY <2>1, <2>2 DEF ReachInv
  <2>4. SubSeq(start[h], 1, at[h] - 1) = start[h]
    BY <2>2, <2>3
  <2> QED
    BY <2>1, <2>3, <2>4 DEF ReachInv
<1> QED
  BY <1>1, <1>2, <1>3, <1>4

\* GroupInv before the first step.
LEMMA GroupInitially == Init => GroupInv
<1> SUFFICES ASSUME Init PROVE GroupInv
  OBVIOUS
<1> USE DEF Init
<1>1. Shape
  BY DEF Shape
<1>2. InFlight = {}
  BY DEF InFlight
<1>3. ListInv
  BY DEF ListInv, RestInv, RemovalInv, Listed, Distinct
<1>4. ReachInv
  BY DEF ReachInv, Distinct
<1> QED
  BY <1>1, <1>2, <1>3, <1>4 DEF GroupInv, FlightInv

-----------------------------------------------------------------------------
(* The arrays                                                              *)

\* Blanks behind a sequence.
LEMMA Padded ==
  ASSUME NEW q \in Seq(Cells), NEW n \in Nat
  PROVE  /\ q \o Blanks(n) \in Seq(Cells)
         /\ Len(q \o Blanks(n)) = Len(q) + n
         /\ \A i \in 1..Len(q) : (q \o Blanks(n))[i] = q[i]
<1>1. Blanks(n) \in Seq(Cells) /\ Len(Blanks(n)) = n
  BY DEF Blanks, Cells
<1> QED
  BY <1>1

\* Another array for the group leaves every message its view.
LEMMA NewArrayEffect ==
  ASSUME Shape, NEW new \in Seq(Cells), NEW n \in 0..Len(new), NewArray(new, n)
  PROVE  /\ cells' = new /\ len' = n
         /\ viewLen' = viewLen
         /\ sharing' = {}
         /\ older' \in [Messages -> Seq(Cells)]
         /\ Views' = Views
<1>1. older' = [h \in Messages |-> IF h \in sharing THEN cells ELSE older[h]]
  BY DEF NewArray
<1>2. older' \in [Messages -> Seq(Cells)]
  BY <1>1 DEF Shape
<1>3. Views' = [h \in Messages |-> older'[h]]
  BY DEF NewArray, Views
<1> QED
  BY <1>1, <1>2, <1>3 DEF NewArray, Views

\* An append puts u behind the list, and changes nothing else that anybody reads.
LEMMA AppendEffect ==
  ASSUME Shape, NEW u \in Users, AppendMember(u)
  PROVE  /\ cells' \in Seq(Cells)
         /\ len' = len + 1 /\ len' <= Len(cells')
         /\ \A i \in 1..len : cells'[i] = cells[i]
         /\ cells'[len + 1] = u
         /\ viewLen' = viewLen
         /\ sharing' \in SUBSET sharing
         /\ older' \in [Messages -> Seq(Cells)]
         /\ \A h \in Messages : \/ Views'[h] = Views[h] /\ h \notin sharing'
                                \/ /\ h \in sharing'
                                   /\ Views[h] = cells /\ Views'[h] = cells'
                                   /\ Len(cells') = Len(cells)
                                   /\ \A i \in 1..Len(cells) : i # len + 1 => cells'[i] = cells[i]
<1>1. cells \in Seq(Cells) /\ len \in 0..Len(cells) /\ u \in Cells /\ len \in Nat
  BY DEF Shape, Cells
<1>2. CASE len < Len(cells)
  <2>1. /\ cells' = [cells EXCEPT ![len + 1] = u]
        /\ len' = len + 1
        /\ UNCHANGED <<viewLen, sharing, older>>
    BY <1>2 DEF AppendMember, viewVars
  <2>2. len + 1 \in 1..Len(cells)
    BY <1>1, <1>2
  <2>3. /\ cells' \in Seq(Cells) /\ Len(cells') = Len(cells)
        /\ cells'[len + 1] = u
        /\ \A i \in 1..len : cells'[i] = cells[i]
        /\ \A i \in 1..Len(cells) : i # len + 1 => cells'[i] = cells[i]
    BY <1>1, <2>1, <2>2
  <2>4. older' \in [Messages -> Seq(Cells)]
    BY <2>1 DEF Shape
  <2>5. \A h \in Messages : /\ h \in sharing => Views[h] = cells /\ Views'[h] = cells'
                            /\ h \notin sharing => Views'[h] = Views[h]
    BY <2>1 DEF Views
  <2>6. \A h \in Messages : \/ Views'[h] = Views[h] /\ h \notin sharing'
                            \/ /\ h \in sharing'
                               /\ Views[h] = cells /\ Views'[h] = cells'
                               /\ Len(cells') = Len(cells)
                               /\ \A i \in 1..Len(cells) : i # len + 1 => cells'[i] = cells[i]
    <3> TAKE h \in Messages
    <3>1. CASE h \in sharing
      BY <3>1, <2>1, <2>3, <2>5
    <3>2. CASE h \notin sharing
      BY <3>2, <2>1, <2>5
    <3> QED
      BY <3>1, <3>2
  <2>7. len' <= Len(cells')
    BY <1>1, <1>2, <2>1, <2>3
  <2>8. sharing' \in SUBSET sharing
    BY <2>1
  <2> QED
    BY <2>1, <2>3, <2>4, <2>6, <2>7, <2>8
<1>3. CASE ~ (len < Len(cells))
  <2> DEFINE q == Append(cells, u)
             n == Grown(len) - (len + 1)
  <2>1. NewArray(q \o Blanks(n), len + 1)
    BY <1>3 DEF AppendMember
  <2>2. len = Len(cells) /\ n \in Nat
    BY <1>1, <1>3 DEF Grown
  <2>3. q \in Seq(Cells) /\ Len(q) = len + 1 /\ q[len + 1] = u /\ \A i \in 1..len : q[i] = cells[i]
    BY <1>1, <2>2
  <2> HIDE DEF q, n
  <2> DEFINE new == q \o Blanks(n)
  <2>4. /\ new \in Seq(Cells)
        /\ Len(new) = len + 1 + n
        /\ \A i \in 1..(len + 1) : new[i] = q[i]
    BY <2>2, <2>3, Padded
  <2>5. len + 1 \in 0..Len(new)
    BY <1>1, <2>2, <2>4
  <2> HIDE DEF new
  <2>6. NewArray(new, len + 1)
    BY <2>1 DEF new
  <2>7. /\ cells' = new /\ len' = len + 1
        /\ viewLen' = viewLen
        /\ sharing' = {}
        /\ older' \in [Messages -> Seq(Cells)]
        /\ Views' = Views
    BY <2>4, <2>5, <2>6, NewArrayEffect
  <2> QED
    BY <1>1, <2>3, <2>4, <2>5, <2>7
<1> QED
  BY <1>2, <1>3

\* A decoded list is the front of the new array.
LEMMA SaveEffect ==
  ASSUME Shape, NEW list \in Lists, NEW slack \in 0..Slack, SaveGroup(list, slack)
  PROVE  /\ cells' \in Seq(Cells)
         /\ len' = Len(list) /\ len' \in 0..Len(cells')
         /\ \A i \in 1..len' : cells'[i] = list[i] /\ list[i] \in Users
         /\ Distinct(list, 1..len')
         /\ roster' = {list[i] : i \in 1..len'}
         /\ viewLen' = viewLen
         /\ sharing' = {}
         /\ older' \in [Messages -> Seq(Cells)]
         /\ Views' = Views
<1>1. list \in Seq(Users) /\ list \in Seq(Cells) /\ slack \in Nat
  BY GroupAssumption DEF Cells
<1>2. Distinct(list, 1..Len(list))
  BY <1>1, GroupAssumption DEF Distinct
<1> DEFINE new == list \o Blanks(slack)
<1>3. /\ new \in Seq(Cells) /\ Len(new) = Len(list) + slack
      /\ \A i \in 1..Len(list) : new[i] = list[i]
  BY <1>1, Padded
<1>4. Len(list) \in 0..Len(new)
  BY <1>1, <1>3
<1>5. NewArray(new, Len(list)) /\ roster' = {list[i] : i \in DOMAIN list}
  BY DEF SaveGroup
<1> HIDE DEF new
<1>6. /\ cells' = new /\ len' = Len(list)
      /\ viewLen' = viewLen
      /\ sharing' = {}
      /\ older' \in [Messages -> Seq(Cells)]
      /\ Views' = Views
  BY <1>3, <1>4, <1>5, NewArrayEffect
<1> QED
  BY <1>1, <1>2, <1>3, <1>4, <1>5, <1>6

\* A turn of the loop writes one listed member where one was listed.
LEMMA TurnEffect ==
  ASSUME GroupInv, RemoveTurn
  PROVE  /\ leaver # Nobody /\ readAt \in 1..len /\ writeAt \in 1..readAt
         /\ UNCHANGED <<len, leaver, viewLen, sharing, older, roster, at>>
         /\ cells' \in Seq(Cells) /\ Len(cells') = Len(cells)
         /\ readAt' = readAt + 1
         /\ \A i \in 1..Len(cells) : i # writeAt => cells'[i] = cells[i]
         /\ \/ /\ cells[readAt] = leaver /\ cells' = cells /\ writeAt' = writeAt
            \/ /\ cells[readAt] # leaver
               /\ cells' = [cells EXCEPT ![writeAt] = cells[readAt]]
               /\ cells'[writeAt] = cells[readAt]
               /\ writeAt' = writeAt + 1
<1>1. /\ cells \in Seq(Cells) /\ len \in 0..Len(cells) /\ len \in Nat
      /\ readAt \in Nat /\ writeAt \in Nat
  BY DEF GroupInv, Shape
<1>2. /\ leaver # Nobody
      /\ 1 <= writeAt /\ writeAt <= readAt /\ readAt <= len
      /\ UNCHANGED <<len, leaver, viewLen, sharing, older, roster, at>>
      /\ readAt' = readAt + 1
      /\ IF cells[readAt] = leaver
         THEN UNCHANGED <<cells, writeAt>>
         ELSE /\ cells' = [cells EXCEPT ![writeAt] = cells[readAt]]
              /\ writeAt' = writeAt + 1
  BY DEF GroupInv, ListInv, RemovalInv, RemoveTurn, Unlocked, viewVars, fanVars
<1>3. readAt \in 1..Len(cells) /\ writeAt \in 1..Len(cells) /\ cells[readAt] \in Cells
  BY <1>1, <1>2
<1>4. CASE cells[readAt] = leaver
  BY <1>1, <1>2, <1>4
<1>5. CASE cells[readAt] # leaver
  <2>1. cells' = [cells EXCEPT ![writeAt] = cells[readAt]]
    BY <1>2, <1>5
  <2>2. /\ cells' \in Seq(Cells) /\ Len(cells') = Len(cells)
        /\ cells'[writeAt] = cells[readAt]
        /\ \A i \in 1..Len(cells) : i # writeAt => cells'[i] = cells[i]
    BY <1>1, <1>3, <2>1
  <2> QED
    BY <1>1, <1>2, <1>5, <2>1, <2>2
<1> QED
  BY <1>4, <1>5

-----------------------------------------------------------------------------
(* Each part across a step                                                 *)

\* The list after a group:create.
LEMMA SaveKeepsList ==
  ASSUME GroupInv, NEW list \in Lists, NEW slack \in 0..Slack, SaveGroup(list, slack)
  PROVE  ListInv'
<1>1. /\ \A i \in 1..len' : cells'[i] = list[i] /\ list[i] \in Users
      /\ Distinct(list, 1..len')
      /\ roster' = {list[i] : i \in 1..len'}
  BY SaveEffect DEF GroupInv
<1>2. leaver' = Nobody /\ readAt' = 0 /\ writeAt' = 0
  BY DEF SaveGroup, Unlocked, removeVars, GroupInv, ListInv, RestInv
<1>3. Listed' = roster'
  BY <1>1 DEF Listed
<1>4. Distinct(cells', 1..len')
  BY <1>1 DEF Distinct
<1> QED
  BY <1>1, <1>2, <1>3, <1>4 DEF ListInv, RestInv, RemovalInv

\* The list with a member more.
LEMMA AddKeepsList ==
  ASSUME GroupInv, NEW u \in Movers, AddGroupMember(u)
  PROVE  ListInv'
<1>1. u \in Users /\ AppendMember(u) /\ u \notin Listed /\ len \in Nat
  BY GroupAssumption DEF AddGroupMember, GroupInv, Shape
<1>2. /\ len' = len + 1
      /\ \A i \in 1..len : cells'[i] = cells[i]
      /\ cells'[len + 1] = u
  BY <1>1, AppendEffect DEF GroupInv
<1>3. leaver' = Nobody /\ readAt' = 0 /\ writeAt' = 0 /\ roster' = roster \cup {u}
  BY DEF AddGroupMember, Unlocked, removeVars, GroupInv, ListInv, RestInv
<1>4. Listed = roster /\ Distinct(cells, 1..len) /\ \A i \in 1..len : cells[i] \in Users
  BY DEF AddGroupMember, Unlocked, GroupInv, ListInv, RestInv
<1>5. 1..(len + 1) = (1..len) \cup {len + 1}
  BY <1>1
<1>6. Listed' = Listed \cup {u}
  BY <1>2, <1>5 DEF Listed
<1>7. Distinct(cells', 1..len')
  BY <1>1, <1>2, <1>4, <1>5 DEF Distinct, Listed
<1>8. \A i \in 1..len' : cells'[i] \in Users
  BY <1>1, <1>2, <1>4, <1>5
<1> QED
  BY <1>3, <1>4, <1>6, <1>7, <1>8 DEF ListInv, RestInv, RemovalInv

\* The list when a removal begins: all of it is still to be read.
LEMMA BeginKeepsList ==
  ASSUME GroupInv, NEW u \in Movers, RemoveBegin(u)
  PROVE  ListInv'
<1>1. /\ leaver' = u /\ u \in Users /\ u # Nobody
      /\ readAt' = 1 /\ writeAt' = 1
      /\ len \in Nat /\ len > 0
      /\ UNCHANGED <<cells, len, roster>>
      /\ u \in Listed => disturbed' = disturbed \cup InFlight
  BY GroupAssumption DEF RemoveBegin, GroupInv, Shape
<1>2. /\ Listed = roster /\ Distinct(cells, 1..len)
      /\ \A i \in 1..len : cells[i] \in Users
  BY DEF RemoveBegin, Unlocked, GroupInv, ListInv, RestInv
<1>3. InFlight' = InFlight
  BY DEF RemoveBegin, viewVars, fanVars, InFlight
<1>4. Kept' = 1..len
  BY <1>1 DEF Kept
<1>5. RemovalInv'
  BY <1>1, <1>2, <1>3, <1>4 DEF RemovalInv, Listed
<1> QED
  BY <1>1, <1>2, <1>5 DEF ListInv, RestInv

\* The list after a turn of the removal's loop: what was kept is kept, but for the leaver.
LEMMA TurnKeepsList ==
  ASSUME GroupInv, RemoveTurn
  PROVE  ListInv'
<1>1. /\ leaver # Nobody /\ readAt \in 1..len /\ writeAt \in 1..readAt
      /\ UNCHANGED <<len, leaver, roster>>
      /\ readAt' = readAt + 1
      /\ \A i \in 1..Len(cells) : i # writeAt => cells'[i] = cells[i]
      /\ \/ /\ cells[readAt] = leaver /\ cells' = cells /\ writeAt' = writeAt
         \/ /\ cells[readAt] # leaver
            /\ cells'[writeAt] = cells[readAt]
            /\ writeAt' = writeAt + 1
  BY TurnEffect
<1>2. len \in Nat /\ len <= Len(cells) /\ Len(cells) \in Nat /\ readAt \in Nat /\ writeAt \in Nat
  BY DEF GroupInv, Shape
<1>3. /\ \A i \in 1..len : cells[i] \in Users
      /\ 1 <= len
      /\ Distinct(cells, Kept)
      /\ \A i \in Kept : cells[i] \in roster
      /\ \A u \in roster : u = leaver \/ \E i \in Kept : cells[i] = u
      /\ \A i \in 1..(writeAt - 1) : cells[i] # leaver
      /\ leaver \notin roster => writeAt = readAt
      /\ leaver \in roster => InFlight \subseteq disturbed
  BY <1>1 DEF GroupInv, ListInv, RemovalInv
<1>4. InFlight' = InFlight /\ disturbed' = disturbed
  BY DEF RemoveTurn, viewVars, fanVars, InFlight
<1>5. readAt \in Kept
  BY <1>1, <1>2 DEF Kept
<1>6. CASE cells[readAt] = leaver
  <2>1. cells' = cells /\ writeAt' = writeAt
    BY <1>1, <1>6
  <2>2. Kept' \subseteq Kept /\ \A i \in Kept : i # readAt => i \in Kept'
    BY <1>1, <1>2, <2>1 DEF Kept
  <2>3. leaver \in roster
    BY <1>3, <1>5, <1>6
  <2>4. RemovalInv'
    BY <1>1, <1>2, <1>3, <1>4, <1>6, <2>1, <2>2, <2>3 DEF RemovalInv, Distinct
  <2> QED
    BY <1>1, <1>3, <2>1, <2>4 DEF ListInv, RestInv
<1>7. CASE cells[readAt] # leaver
  <2>1. cells'[writeAt] = cells[readAt] /\ writeAt' = writeAt + 1
    BY <1>1, <1>7
  <2>2. \A i \in Kept' : \/ i = writeAt
                         \/ i \in Kept /\ i # readAt /\ i \in 1..Len(cells) /\ i # writeAt
    BY <1>1, <1>2, <2>1 DEF Kept
  <2>3. writeAt \in Kept' /\ \A i \in Kept : i # readAt => i \in Kept' /\ i # writeAt
    BY <1>1, <1>2, <2>1 DEF Kept
  <2>4. \A i \in Kept' : \E k \in Kept : /\ cells'[i] = cells[k]
                                         /\ k = IF i = writeAt THEN readAt ELSE i
    BY <1>1, <1>5, <2>1, <2>2
  <2>5. \A k \in Kept : \E i \in Kept' : cells'[i] = cells[k]
    <3> TAKE k \in Kept
    <3>1. CASE k = readAt
      BY <3>1, <2>1, <2>3
    <3>2. CASE k # readAt
      BY <3>2, <1>1, <2>2, <2>3
    <3> QED
      BY <3>1, <3>2
  <2>6. Distinct(cells', Kept')
    <3> SUFFICES ASSUME NEW i \in Kept', NEW j \in Kept', cells'[i] = cells'[j] PROVE i = j
      BY DEF Distinct
    <3>1. PICK k \in Kept : cells'[i] = cells[k] /\ k = IF i = writeAt THEN readAt ELSE i
      BY <2>4
    <3>2. PICK l \in Kept : cells'[j] = cells[l] /\ l = IF j = writeAt THEN readAt ELSE j
      BY <2>4
    <3>3. k = l
      BY <3>1, <3>2, <1>3 DEF Distinct
    <3> QED
      BY <3>1, <3>2, <3>3, <2>2
  <2>7. \A i \in Kept' : cells'[i] \in roster
    BY <1>3, <2>4
  <2>8. \A u \in roster : u = leaver \/ \E i \in Kept' : cells'[i] = u
    BY <1>3, <2>5
  <2>9. \A i \in 1..(writeAt' - 1) : cells'[i] # leaver
    BY <1>1, <1>2, <1>3, <1>7, <2>1
  <2>10. RemovalInv'
    BY <1>1, <1>2, <1>3, <1>4, <2>1, <2>6, <2>7, <2>8, <2>9 DEF RemovalInv
  <2>11. \A i \in 1..len : cells'[i] \in Users
    BY <1>1, <1>2, <1>3, <2>1
  <2> QED
    BY <1>1, <2>10, <2>11 DEF ListInv, RestInv
<1> QED
  BY <1>6, <1>7

\* The list after a removal: what was written back.
LEMMA EndKeepsList ==
  ASSUME GroupInv, RemoveEnd
  PROVE  ListInv'
<1>1. /\ leaver # Nobody /\ leaver' = Nobody /\ readAt' = 0 /\ writeAt' = 0
      /\ roster' = roster \ {leaver}
      /\ readAt > len
      /\ len' = writeAt - 1
      /\ writeAt # 1 => cells' = cells
  BY DEF RemoveEnd, Unlocked, NewArray
<1>2. len \in Nat /\ readAt \in Nat /\ writeAt \in Nat
  BY DEF GroupInv, Shape
<1>3. /\ 1 <= writeAt /\ writeAt <= readAt /\ readAt <= len + 1
      /\ \A i \in 1..len : cells[i] \in Users
      /\ Distinct(cells, Kept)
      /\ \A i \in Kept : cells[i] \in roster
      /\ \A u \in roster : u = leaver \/ \E i \in Kept : cells[i] = u
      /\ \A i \in 1..(writeAt - 1) : cells[i] # leaver
  BY <1>1 DEF GroupInv, ListInv, RemovalInv
<1>4. Kept = 1..len' /\ len' \in Nat /\ \A i \in 1..len' : i \in 1..len
  BY <1>1, <1>2, <1>3 DEF Kept
<1>5. \A i \in 1..len' : cells'[i] = cells[i]
  BY <1>1, <1>2, <1>3
<1>6. Listed' = roster'
  BY <1>1, <1>3, <1>4, <1>5 DEF Listed
<1>7. Distinct(cells', 1..len')
  BY <1>3, <1>4, <1>5 DEF Distinct
<1>8. \A i \in 1..len' : cells'[i] \in Users
  BY <1>3, <1>4, <1>5
<1> QED
  BY <1>1, <1>6, <1>7, <1>8 DEF ListInv, RestInv, RemovalInv

\* The list across any step.
LEMMA ListStep ==
  ASSUME GroupInv, Next
  PROVE  ListInv'
<1>1. ASSUME NEW h \in Messages, GetGroup(h) PROVE ListInv'
  <2>1. UNCHANGED <<cells, len, leaver, readAt, writeAt, roster>> /\ leaver = Nobody
    BY <1>1 DEF GetGroup, listVars, Unlocked
  <2> QED
    BY <2>1 DEF GroupInv, ListInv, RestInv, RemovalInv, Listed
<1>2. ASSUME NEW h \in Messages, Send(h) PROVE ListInv'
  <2>1. /\ UNCHANGED <<cells, len, leaver, readAt, writeAt, roster, disturbed, viewLen>>
        /\ at' = [at EXCEPT ![h] = at[h] + 1]
        /\ h \in InFlight
    BY <1>2 DEF Send, Advance, listVars
  <2>2. InFlight' \subseteq InFlight
    BY <2>1 DEF InFlight, GroupInv, Shape
  <2>3. Kept' = Kept /\ Listed' = Listed
    BY <2>1 DEF Kept, Listed
  <2> QED
    BY <2>1, <2>2, <2>3 DEF GroupInv, ListInv, RestInv, RemovalInv
<1> QED
  BY <1>1, <1>2, SaveKeepsList, AddKeepsList, BeginKeepsList, TurnKeepsList, EndKeepsList DEF Next

\* What is known to a message grows.
LEMMA KnownGrows ==
  ASSUME Shape, NEW S, Joining(S), UNCHANGED start
  PROVE  /\ \A h \in Messages : Known[h] \subseteq Known'[h]
         /\ \A h \in InFlight : S \subseteq Known'[h]
<1>1. \A h \in Messages : joined'[h] = IF h \in InFlight THEN joined[h] \cup S ELSE joined[h]
  BY DEF Joining
<1>2. \A h \in Messages : Known'[h] = Range(start[h]) \cup joined'[h]
  BY DEF Known
<1>3. \A h \in Messages : Known[h] = Range(start[h]) \cup joined[h]
  BY DEF Known
<1>4. \A h \in InFlight : h \in Messages
  BY DEF InFlight
<1> QED
  BY <1>1, <1>2, <1>3, <1>4

\* What is under way across a group:create: all messages keep the arrays they had.
LEMMA SaveKeepsFlight ==
  ASSUME GroupInv, NEW list \in Lists, NEW slack \in 0..Slack, SaveGroup(list, slack)
  PROVE  FlightInv'
<1>1. /\ \A i \in 1..len' : cells'[i] = list[i]
      /\ roster' = {list[i] : i \in 1..len'}
      /\ viewLen' = viewLen
      /\ sharing' = {}
      /\ Views' = Views
  BY SaveEffect DEF GroupInv
<1>2. Joining(roster') /\ UNCHANGED <<start, at, disturbed>>
  BY DEF SaveGroup, fanVars
<1>3. /\ \A h \in Messages : Known[h] \subseteq Known'[h]
      /\ \A h \in InFlight : roster' \subseteq Known'[h]
  BY <1>2, KnownGrows DEF GroupInv
<1>4. InFlight' = InFlight /\ InFlight \subseteq Messages
  BY <1>1, <1>2 DEF InFlight
<1>5. \A i \in 1..len' : cells'[i] \in roster'
  BY <1>1
<1> QED
  BY <1>1, <1>2, <1>3, <1>4, <1>5 DEF GroupInv, FlightInv

\* Across an append: it writes behind the list, which may be within the slice of a message that
\* a removal has disturbed, and then a user who joined.
LEMMA AddKeepsFlight ==
  ASSUME GroupInv, NEW u \in Movers, AddGroupMember(u)
  PROVE  FlightInv'
<1>1. u \in Users /\ AppendMember(u) /\ len \in Nat /\ len <= Len(cells) /\ Len(cells) \in Nat
  BY GroupAssumption DEF AddGroupMember, GroupInv, Shape
<1>2. /\ len' = len + 1
      /\ \A i \in 1..len : cells'[i] = cells[i]
      /\ cells'[len + 1] = u
      /\ viewLen' = viewLen
      /\ sharing' \in SUBSET sharing
      /\ \A h \in Messages : \/ Views'[h] = Views[h] /\ h \notin sharing'
                             \/ /\ h \in sharing'
                                /\ Views[h] = cells /\ Views'[h] = cells'
                                /\ Len(cells') = Len(cells)
                                /\ \A i \in 1..Len(cells) : i # len + 1 => cells'[i] = cells[i]
  BY <1>1, AppendEffect DEF GroupInv
<1>3. Joining({u}) /\ UNCHANGED <<start, at, disturbed>>
  BY DEF AddGroupMember, fanVars
<1>4. /\ \A h \in Messages : Known[h] \subseteq Known'[h]
      /\ \A h \in InFlight : u \in Known'[h]
  BY <1>3, KnownGrows DEF GroupInv
<1>5. InFlight' = InFlight /\ InFlight \subseteq Messages
  BY <1>2, <1>3 DEF InFlight
<1> SUFFICES ASSUME NEW h \in InFlight
             PROVE  /\ viewLen[h] <= Len(Views'[h])
                    /\ \A i \in 1..viewLen[h] : Views'[h][i] \in Users /\ Views'[h][i] \in Known'[h]
                    /\ \A i \in 1..len' : cells'[i] \in Known'[h]
                    /\ h \notin disturbed => /\ \A i \in 1..viewLen[h] : Views'[h][i] = start[h][i]
                                             /\ h \in sharing' => viewLen[h] <= len'
  BY <1>2, <1>3, <1>5 DEF FlightInv
<1>6. h \in Messages /\ viewLen[h] \in Nat
  BY <1>5 DEF GroupInv, Shape
<1>7. /\ viewLen[h] <= Len(Views[h])
      /\ \A i \in 1..viewLen[h] : Views[h][i] \in Users /\ Views[h][i] \in Known[h]
      /\ \A i \in 1..len : cells[i] \in Known[h]
      /\ h \notin disturbed => /\ \A i \in 1..viewLen[h] : Views[h][i] = start[h][i]
                               /\ h \in sharing => viewLen[h] <= len
  BY DEF GroupInv, FlightInv
<1>8. \A i \in 1..len' : cells'[i] \in Known'[h]
  BY <1>1, <1>2, <1>4, <1>6, <1>7
<1>9. CASE Views'[h] = Views[h] /\ h \notin sharing'
  BY <1>4, <1>6, <1>7, <1>8, <1>9
<1>10. CASE /\ h \in sharing'
            /\ Views[h] = cells /\ Views'[h] = cells'
            /\ Len(cells') = Len(cells)
            /\ \A i \in 1..Len(cells) : i # len + 1 => cells'[i] = cells[i]
  <2>1. \A i \in 1..viewLen[h] : /\ i \in 1..Len(cells)
                                 /\ i # len + 1 => cells'[i] = cells[i]
                                 /\ i = len + 1 => cells'[i] = u
    BY <1>1, <1>2, <1>6, <1>7, <1>10
  <2>2. \A i \in 1..viewLen[h] : Views'[h][i] \in Users /\ Views'[h][i] \in Known'[h]
    BY <1>1, <1>4, <1>6, <1>7, <1>10, <2>1
  <2>3. h \notin disturbed => /\ \A i \in 1..viewLen[h] : cells'[i] = start[h][i]
                              /\ viewLen[h] <= len'
    BY <1>1, <1>2, <1>6, <1>7, <1>10
  <2> QED
    BY <1>7, <1>8, <1>10, <2>2, <2>3
<1> QED
  BY <1>2, <1>6, <1>9, <1>10

\* Across a turn of a removal: it writes a listed member, and if the leaver is a stranger the
\* one who was there.
LEMMA TurnKeepsFlight ==
  ASSUME GroupInv, RemoveTurn
  PROVE  FlightInv'
<1>1. /\ leaver # Nobody /\ readAt \in 1..len /\ writeAt \in 1..readAt
      /\ UNCHANGED <<len, viewLen, sharing, older, at>>
      /\ Len(cells') = Len(cells)
      /\ \A i \in 1..Len(cells) : i # writeAt => cells'[i] = cells[i]
      /\ \/ cells' = cells
         \/ cells'[writeAt] = cells[readAt]
  BY TurnEffect
<1>2. /\ UNCHANGED <<start, joined, disturbed>>
      /\ len \in Nat /\ len <= Len(cells) /\ Len(cells) \in Nat
  BY DEF RemoveTurn, fanVars, GroupInv, Shape
<1>3. InFlight' = InFlight /\ InFlight \subseteq Messages /\ Known' = Known
  BY <1>1, <1>2 DEF InFlight, Known
<1>4. \A h \in Messages : \/ Views'[h] = Views[h] /\ h \notin sharing
                          \/ Views[h] = cells /\ Views'[h] = cells' /\ h \in sharing
  BY <1>1 DEF Views
<1>5. /\ leaver \notin roster => writeAt = readAt
      /\ leaver \in roster => InFlight \subseteq disturbed
      /\ \A i \in 1..len : cells[i] \in Users
  BY <1>1 DEF GroupInv, ListInv, RemovalInv
<1>6. \A i \in 1..Len(cells) : cells'[i] = cells[i] \/ cells'[i] = cells[readAt]
  BY <1>1, <1>2
<1>7. writeAt = readAt => \A i \in 1..Len(cells) : cells'[i] = cells[i]
  BY <1>1, <1>2
<1> SUFFICES ASSUME NEW h \in InFlight
             PROVE  /\ viewLen[h] <= Len(Views'[h])
                    /\ \A i \in 1..viewLen[h] : Views'[h][i] \in Users /\ Views'[h][i] \in Known[h]
                    /\ \A i \in 1..len : cells'[i] \in Known[h]
                    /\ h \notin disturbed => /\ \A i \in 1..viewLen[h] : Views'[h][i] = start[h][i]
                                             /\ h \in sharing => viewLen[h] <= len
  BY <1>1, <1>2, <1>3 DEF FlightInv
<1>8. h \in Messages /\ viewLen[h] \in Nat
  BY <1>3 DEF GroupInv, Shape
<1>9. /\ viewLen[h] <= Len(Views[h])
      /\ \A i \in 1..viewLen[h] : Views[h][i] \in Users /\ Views[h][i] \in Known[h]
      /\ \A i \in 1..len : cells[i] \in Known[h]
      /\ h \notin disturbed => /\ \A i \in 1..viewLen[h] : Views[h][i] = start[h][i]
                               /\ h \in sharing => viewLen[h] <= len
  BY DEF GroupInv, FlightInv
<1>10. \A i \in 1..len : cells'[i] \in Known[h]
  BY <1>1, <1>2, <1>6, <1>9
<1>11. CASE Views'[h] = Views[h] /\ h \notin sharing
  BY <1>9, <1>10, <1>11
<1>12. CASE Views[h] = cells /\ Views'[h] = cells' /\ h \in sharing
  <2>1. \A i \in 1..viewLen[h] : i \in 1..Len(cells)
    BY <1>2, <1>8, <1>9, <1>12
  <2>2. \A i \in 1..viewLen[h] : Views'[h][i] \in Users /\ Views'[h][i] \in Known[h]
    BY <1>1, <1>5, <1>6, <1>9, <1>12, <2>1
  <2>3. h \notin disturbed => writeAt = readAt
    BY <1>5
  <2>4. h \notin disturbed => \A i \in 1..viewLen[h] : Views'[h][i] = start[h][i]
    BY <1>7, <1>9, <1>12, <2>1, <2>3
  <2> QED
    BY <1>1, <1>9, <1>10, <1>12, <2>2, <2>4
<1> QED
  BY <1>4, <1>8, <1>11, <1>12

\* Across the end of a removal: the list is shorter only if a member left.
LEMMA EndKeepsFlight ==
  ASSUME GroupInv, RemoveEnd
  PROVE  FlightInv'
<1>1. /\ leaver # Nobody
      /\ readAt > len
      /\ len' = writeAt - 1
      /\ UNCHANGED <<viewLen, at, start, joined, disturbed>>
      /\ IF writeAt = 1 THEN NewArray(<<>>, 0) ELSE UNCHANGED <<cells, sharing, older>>
  BY DEF RemoveEnd, Unlocked, NewArray, viewVars, fanVars
<1>2. /\ len \in Nat /\ readAt \in Nat /\ writeAt \in Nat
      /\ 1 <= writeAt /\ writeAt <= readAt /\ readAt <= len + 1
      /\ leaver \notin roster => writeAt = readAt
      /\ leaver \in roster => InFlight \subseteq disturbed
  BY <1>1 DEF GroupInv, Shape, ListInv, RemovalInv
<1>3. InFlight' = InFlight /\ InFlight \subseteq Messages /\ Known' = Known
  BY <1>1 DEF InFlight, Known
<1>4. \A h \in InFlight \ disturbed : len' = len
  BY <1>1, <1>2
<1>5. CASE writeAt = 1
  <2>1. <<>> \in Seq(Cells) /\ 0 \in 0..Len(<<>>) /\ NewArray(<<>>, 0)
    BY <1>1, <1>5
  <2>2. Views' = Views /\ sharing' = {} /\ len' = 0
    BY <2>1, NewArrayEffect DEF GroupInv
  <2> QED
    BY <1>1, <1>3, <2>2 DEF GroupInv, FlightInv
<1>6. CASE writeAt # 1
  <2>1. Views' = Views /\ sharing' = sharing /\ cells' = cells
    BY <1>1, <1>6 DEF Views
  <2>2. \A i \in 1..len' : i \in 1..len
    BY <1>1, <1>2
  <2> QED
    BY <1>1, <1>3, <1>4, <2>1, <2>2 DEF GroupInv, FlightInv
<1> QED
  BY <1>5, <1>6

\* GetGroup shares the group's array.
LEMMA GetEffect ==
  ASSUME GroupInv, NEW h \in Messages, GetGroup(h)
  PROVE  /\ leaver = Nobody /\ at[h] = 0
         /\ at' = [at EXCEPT ![h] = 1]
         /\ viewLen' = [viewLen EXCEPT ![h] = len]
         /\ start'[h] \in Seq(Users) /\ Len(start'[h]) = len
         /\ \A i \in 1..len : start'[h][i] = cells[i]
         /\ start' \in [Messages -> Seq(Users)]
         /\ Views'[h] = cells /\ h \in sharing'
         /\ \A i \in 1..len : cells[i] \in Users /\ cells[i] \in Known'[h]
         /\ \A k \in Messages \ {h} : /\ Views'[k] = Views[k] /\ Known'[k] = Known[k]
                                      /\ viewLen'[k] = viewLen[k] /\ at'[k] = at[k]
                                      /\ start'[k] = start[k]
                                      /\ k \in sharing' <=> k \in sharing
<1>1. /\ leaver = Nobody /\ at[h] = 0
      /\ at' = [at EXCEPT ![h] = 1]
      /\ viewLen' = [viewLen EXCEPT ![h] = len]
      /\ start' = [start EXCEPT ![h] = SubSeq(cells, 1, len)]
      /\ sharing' = sharing \cup {h}
      /\ UNCHANGED <<cells, older, joined>>
  BY DEF GetGroup, Unlocked, listVars
<1>2. /\ cells \in Seq(Cells) /\ len \in 0..Len(cells) /\ len \in Nat
      /\ at \in [Messages -> Nat] /\ viewLen \in [Messages -> Nat]
      /\ start \in [Messages -> Seq(Users)]
      /\ \A i \in 1..len : cells[i] \in Users
  BY DEF GroupInv, Shape, ListInv
<1> DEFINE l == SubSeq(cells, 1, len)
<1>3. /\ l \in Seq(Cells) /\ Len(l) = len
      /\ \A i \in 1..len : l[i] = cells[i]
  BY <1>2
<1>4. l \in Seq(Users)
  BY <1>2, <1>3
<1> HIDE DEF l
<1>5. start' = [start EXCEPT ![h] = l]
  BY <1>1 DEF l
<1>6. start'[h] = l /\ \A k \in Messages \ {h} : start'[k] = start[k]
  BY <1>2, <1>5
<1>7. start' \in [Messages -> Seq(Users)]
  BY <1>2, <1>4, <1>5
<1>8. \A k \in Messages : Known'[k] = Range(start'[k]) \cup joined[k]
  BY <1>1 DEF Known
<1>9. \A i \in 1..len : cells[i] \in Known'[h]
  BY <1>2, <1>3, <1>6, <1>8 DEF Range
<1>10. \A k \in Messages \ {h} : Known'[k] = Known[k]
  BY <1>6, <1>8 DEF Known
<1>11. /\ Views'[h] = cells
       /\ \A k \in Messages \ {h} : Views'[k] = Views[k]
  BY <1>1 DEF Views
<1>12. \A k \in Messages \ {h} : /\ viewLen'[k] = viewLen[k] /\ at'[k] = at[k]
                                 /\ k \in sharing' <=> k \in sharing
  BY <1>1, <1>2
<1> QED
  BY <1>1, <1>2, <1>3, <1>4, <1>6, <1>7, <1>9, <1>10, <1>11, <1>12

\* Send reads what is known to the message, and keeps the views of those still under way.
LEMMA SendEffect ==
  ASSUME GroupInv, NEW h \in Messages, Send(h)
  PROVE  /\ at[h] \in 1..viewLen[h]
         /\ at' = [at EXCEPT ![h] = at[h] + 1]
         /\ Current(h) = Views[h][at[h]]
         /\ Current(h) \in Users /\ Current(h) \in Known[h]
         /\ reached' = [reached EXCEPT ![h] = IF Current(h) = From[h]
                                              THEN reached[h] ELSE Append(reached[h], Current(h))]
         /\ UNCHANGED <<cells, len, leaver, readAt, writeAt, roster, joined, disturbed, start,
                        viewLen, Known>>
         /\ sharing' \in SUBSET Messages /\ older' \in [Messages -> Seq(Cells)]
         /\ InFlight' \subseteq InFlight
         /\ \A k \in InFlight' : Views'[k] = Views[k] /\ (k \in sharing' <=> k \in sharing)
<1>1. /\ h \in InFlight
      /\ at' = [at EXCEPT ![h] = at[h] + 1]
      /\ UNCHANGED <<cells, len, leaver, readAt, writeAt, roster, joined, disturbed, start, viewLen>>
      /\ reached' = [reached EXCEPT ![h] = IF Current(h) = From[h]
                                           THEN reached[h] ELSE Append(reached[h], Current(h))]
      /\ IF at[h] = viewLen[h]
         THEN sharing' = sharing \ {h} /\ older' = [older EXCEPT ![h] = <<>>]
         ELSE UNCHANGED <<sharing, older>>
  BY DEF Send, Advance, listVars
<1>2. /\ at \in [Messages -> Nat] /\ viewLen \in [Messages -> Nat]
      /\ sharing \in SUBSET Messages /\ older \in [Messages -> Seq(Cells)]
  BY DEF GroupInv, Shape
<1>3. at[h] \in 1..viewLen[h]
  BY <1>1 DEF InFlight
<1>4. Current(h) = Views[h][at[h]]
  BY DEF Current, Views
<1>5. Current(h) \in Users /\ Current(h) \in Known[h]
  BY <1>1, <1>3, <1>4 DEF GroupInv, FlightInv
<1>6. Known' = Known
  BY <1>1 DEF Known
<1>7. sharing' \in SUBSET Messages /\ older' \in [Messages -> Seq(Cells)]
  <2>1. <<>> \in Seq(Cells)
    OBVIOUS
  <2> QED
    BY <1>1, <1>2, <2>1
<1>8. InFlight' \subseteq InFlight
  BY <1>1, <1>2, <1>3 DEF InFlight
<1>9. ASSUME NEW k \in InFlight' PROVE Views'[k] = Views[k] /\ (k \in sharing' <=> k \in sharing)
  <2>1. k \in Messages
    BY <1>9 DEF InFlight
  <2>2. CASE k = h
    <3>1. at[h] + 1 <= viewLen[h]
      BY <1>1, <1>2, <1>9, <2>1, <2>2 DEF InFlight
    <3>2. UNCHANGED <<sharing, older>>
      BY <1>1, <1>2, <3>1
    <3> QED
      BY <1>1, <2>1, <3>2 DEF Views
  <2>3. CASE k # h
    <3>1. (k \in sharing' <=> k \in sharing) /\ older'[k] = older[k]
      BY <1>1, <1>2, <2>1, <2>3
    <3> QED
      BY <1>1, <2>1, <3>1 DEF Views
  <2> QED
    BY <2>2, <2>3
<1> QED
  BY <1>1, <1>3, <1>4, <1>5, <1>6, <1>7, <1>8, <1>9

\* What is under way across any step.
LEMMA FlightStep ==
  ASSUME GroupInv, Next
  PROVE  FlightInv'
<1>1. ASSUME NEW u \in Movers, RemoveBegin(u) PROVE FlightInv'
  <2>1. /\ UNCHANGED <<cells, len, viewLen, sharing, older, at, start, joined>>
        /\ disturbed \subseteq disturbed'
    BY <1>1 DEF RemoveBegin, viewVars, fanVars
  <2>2. InFlight' = InFlight /\ Known' = Known /\ Views' = Views
    BY <2>1 DEF InFlight, Known, Views
  <2> QED
    BY <2>1, <2>2 DEF GroupInv, FlightInv
<1>2. ASSUME NEW h \in Messages, GetGroup(h) PROVE FlightInv'
  <2>1. /\ viewLen' = [viewLen EXCEPT ![h] = len]
        /\ \A i \in 1..len : start'[h][i] = cells[i]
        /\ Views'[h] = cells
        /\ \A i \in 1..len : cells[i] \in Users /\ cells[i] \in Known'[h]
        /\ \A k \in Messages \ {h} : /\ Views'[k] = Views[k] /\ Known'[k] = Known[k]
                                     /\ viewLen'[k] = viewLen[k] /\ at'[k] = at[k]
                                     /\ start'[k] = start[k]
                                     /\ k \in sharing' <=> k \in sharing
    BY <1>2, GetEffect
  <2>2. UNCHANGED <<cells, len, disturbed>>
    BY <1>2 DEF GetGroup, listVars
  <2>3. len \in Nat /\ len <= Len(cells) /\ viewLen'[h] = len
    BY <2>1 DEF GroupInv, Shape
  <2>4. InFlight' \subseteq Messages /\ \A k \in InFlight' : k # h => k \in InFlight
    BY <2>1 DEF InFlight
  <2> SUFFICES ASSUME NEW k \in InFlight'
               PROVE  /\ viewLen'[k] <= Len(Views'[k])
                      /\ \A i \in 1..viewLen'[k] : Views'[k][i] \in Users /\ Views'[k][i] \in Known'[k]
                      /\ \A i \in 1..len : cells[i] \in Known'[k]
                      /\ k \notin disturbed => /\ \A i \in 1..viewLen'[k] : Views'[k][i] = start'[k][i]
                                               /\ k \in sharing' => viewLen'[k] <= len
    BY <2>2 DEF FlightInv
  <2>5. CASE k = h
    BY <2>1, <2>3, <2>5
  <2>6. CASE k # h
    <3>1. k \in InFlight /\ k \in Messages \ {h}
      BY <2>4, <2>6
    <3>2. /\ viewLen[k] <= Len(Views[k])
          /\ \A i \in 1..viewLen[k] : Views[k][i] \in Users /\ Views[k][i] \in Known[k]
          /\ \A i \in 1..len : cells[i] \in Known[k]
          /\ k \notin disturbed => /\ \A i \in 1..viewLen[k] : Views[k][i] = start[k][i]
                                   /\ k \in sharing => viewLen[k] <= len
      BY <3>1 DEF GroupInv, FlightInv
    <3> QED
      BY <2>1, <3>1, <3>2
  <2> QED
    BY <2>5, <2>6
<1>3. ASSUME NEW h \in Messages, Send(h) PROVE FlightInv'
  <2>1. /\ UNCHANGED <<cells, len, disturbed, start, viewLen, Known>>
        /\ InFlight' \subseteq InFlight
        /\ \A k \in InFlight' : Views'[k] = Views[k] /\ (k \in sharing' <=> k \in sharing)
    BY <1>3, SendEffect
  <2> QED
    BY <2>1 DEF GroupInv, FlightInv
<1> QED
  BY <1>1, <1>2, <1>3, SaveKeepsFlight, AddKeepsFlight, TurnKeepsFlight, EndKeepsFlight DEF Next

-----------------------------------------------------------------------------
(* What is reached                                                         *)

\* Delivers when the list goes on by a member who was not in it.
LEMMA DeliversMore ==
  ASSUME NEW q \in Seq(Users), NEW l \in Seq(Users), NEW u, NEW x \in Users,
         Delivers(q, l, u), \A j \in DOMAIN l : l[j] # x
  PROVE  Delivers(IF x = u THEN q ELSE Append(q, x), Append(l, x), u)
<1> DEFINE m == Append(l, x)
           p == Append(q, x)
<1>1. /\ DOMAIN l = 1..Len(l) /\ Len(l) \in Nat
      /\ DOMAIN m = (DOMAIN l) \cup {Len(l) + 1}
      /\ m[Len(l) + 1] = x /\ \A j \in DOMAIN l : m[j] = l[j]
  OBVIOUS
<1>2. /\ DOMAIN q = 1..Len(q) /\ Len(q) \in Nat
      /\ DOMAIN p = (DOMAIN q) \cup {Len(q) + 1}
      /\ p[Len(q) + 1] = x /\ \A j \in DOMAIN q : p[j] = q[j]
  OBVIOUS
<1> HIDE DEF m, p
<1>3. /\ {q[i] : i \in DOMAIN q} = {l[j] : j \in DOMAIN l} \ {u}
      /\ \A i, k \in DOMAIN q :
           i < k => /\ q[i] # q[k]
                    /\ \E j, n \in DOMAIN l : j < n /\ l[j] = q[i] /\ l[n] = q[k]
  BY DEF Delivers
<1>4. {m[j] : j \in DOMAIN m} = {l[j] : j \in DOMAIN l} \cup {x}
  BY <1>1
<1>5. \A i \in DOMAIN q : \E j \in DOMAIN l : l[j] = q[i]
  BY <1>3
<1>6. \A i, k \in DOMAIN q :
        i < k => /\ q[i] # q[k]
                 /\ \E j, n \in DOMAIN m : j < n /\ m[j] = q[i] /\ m[n] = q[k]
  BY <1>1, <1>3
<1>7. CASE x = u
  <2>1. {q[i] : i \in DOMAIN q} = {m[j] : j \in DOMAIN m} \ {u}
    BY <1>3, <1>4, <1>7
  <2>2. Delivers(q, m, u)
    BY <1>6, <2>1 DEF Delivers
  <2> QED
    BY <1>7, <2>2 DEF m
<1>8. CASE x # u
  <2>1. {p[i] : i \in DOMAIN p} = {q[i] : i \in DOMAIN q} \cup {x}
    BY <1>2
  <2>2. {p[i] : i \in DOMAIN p} = {m[j] : j \in DOMAIN m} \ {u}
    BY <1>3, <1>4, <1>8, <2>1
  <2>3. ASSUME NEW i \in DOMAIN p, NEW k \in DOMAIN p, i < k
        PROVE  /\ p[i] # p[k]
               /\ \E j, n \in DOMAIN m : j < n /\ m[j] = p[i] /\ m[n] = p[k]
    <3>1. i \in DOMAIN q /\ p[i] = q[i]
      BY <1>2, <2>3
    <3>2. CASE k \in DOMAIN q
      BY <1>2, <1>6, <2>3, <3>1, <3>2
    <3>3. CASE k = Len(q) + 1
      <4>1. p[k] = x
        BY <1>2, <3>3
      <4>2. PICK j \in DOMAIN l : l[j] = q[i]
        BY <1>5, <3>1
      <4>3. /\ j \in DOMAIN m /\ Len(l) + 1 \in DOMAIN m /\ j < Len(l) + 1
            /\ m[j] = p[i] /\ m[Len(l) + 1] = p[k]
        BY <1>1, <3>1, <4>1, <4>2
      <4>4. p[i] # p[k]
        BY <3>1, <4>1, <4>2
      <4> QED
        BY <4>3, <4>4
    <3> QED
      BY <1>2, <2>3, <3>2, <3>3
  <2>4. Delivers(p, m, u)
    BY <2>2, <2>3 DEF Delivers
  <2> QED
    BY <1>8, <2>4 DEF m, p
<1> QED
  BY <1>7, <1>8

\* What a message has reached across a step of the store: it may only become disturbed, and know
\* more.
LEMMA StoreKeepsReach ==
  ASSUME GroupInv, UNCHANGED <<at, viewLen, reached, start>>,
         disturbed \subseteq disturbed', \A h \in Messages : Known[h] \subseteq Known'[h]
  PROVE  ReachInv'
<1> SUFFICES ASSUME NEW h \in Messages
             PROVE  /\ \A i \in DOMAIN reached[h] : reached[h][i] \in Known'[h]
                    /\ at[h] = 0 => reached[h] = <<>> /\ viewLen[h] = 0
                    /\ at[h] > 0 => Len(start[h]) = viewLen[h] /\ at[h] <= viewLen[h] + 1
                    /\ Distinct(start[h], DOMAIN start[h])
                    /\ h \notin disturbed' /\ at[h] > 0
                         => Delivers(reached[h], SubSeq(start[h], 1, at[h] - 1), From[h])
  BY DEF ReachInv
<1>1. /\ \A i \in DOMAIN reached[h] : reached[h][i] \in Known[h]
      /\ at[h] = 0 => reached[h] = <<>> /\ viewLen[h] = 0
      /\ at[h] > 0 => Len(start[h]) = viewLen[h] /\ at[h] <= viewLen[h] + 1
      /\ Distinct(start[h], DOMAIN start[h])
      /\ h \notin disturbed /\ at[h] > 0
           => Delivers(reached[h], SubSeq(start[h], 1, at[h] - 1), From[h])
  BY DEF GroupInv, ReachInv
<1>2. Known[h] \subseteq Known'[h] /\ (h \notin disturbed' => h \notin disturbed)
  OBVIOUS
<1> QED
  BY <1>1, <1>2

\* Across GetGroup: the message has reached nobody.
LEMMA GetKeepsReach ==
  ASSUME GroupInv, NEW h \in Messages, GetGroup(h)
  PROVE  ReachInv'
<1>1. /\ leaver = Nobody /\ at[h] = 0
      /\ at' = [at EXCEPT ![h] = 1]
      /\ viewLen' = [viewLen EXCEPT ![h] = len]
      /\ start'[h] \in Seq(Users) /\ Len(start'[h]) = len
      /\ \A i \in 1..len : start'[h][i] = cells[i]
      /\ \A k \in Messages \ {h} : /\ Known'[k] = Known[k]
                                   /\ viewLen'[k] = viewLen[k] /\ at'[k] = at[k]
                                   /\ start'[k] = start[k]
  BY GetEffect
<1>2. UNCHANGED <<reached, disturbed>>
  BY DEF GetGroup
<1>3. len \in Nat /\ at'[h] = 1 /\ viewLen'[h] = len
  BY <1>1 DEF GroupInv, Shape
<1> SUFFICES ASSUME NEW k \in Messages
             PROVE  /\ \A i \in DOMAIN reached[k] : reached[k][i] \in Known'[k]
                    /\ at'[k] = 0 => reached[k] = <<>> /\ viewLen'[k] = 0
                    /\ at'[k] > 0 => Len(start'[k]) = viewLen'[k] /\ at'[k] <= viewLen'[k] + 1
                    /\ Distinct(start'[k], DOMAIN start'[k])
                    /\ k \notin disturbed /\ at'[k] > 0
                         => Delivers(reached[k], SubSeq(start'[k], 1, at'[k] - 1), From[k])
  BY <1>2 DEF ReachInv
<1>4. CASE k # h
  BY <1>1, <1>4 DEF GroupInv, ReachInv
<1>5. CASE k = h
  <2>1. reached[h] = <<>>
    BY <1>1 DEF GroupInv, ReachInv
  <2>2. Distinct(cells, 1..len)
    BY <1>1 DEF GroupInv, ListInv, RestInv
  <2>3. DOMAIN start'[h] = 1..len
    BY <1>1
  <2>4. Distinct(start'[h], DOMAIN start'[h])
    BY <1>1, <2>2, <2>3 DEF Distinct
  <2>5. SubSeq(start'[h], 1, at'[h] - 1) = <<>>
    BY <1>1, <1>3
  <2>6. Delivers(<<>>, <<>>, From[h])
    BY DEF Delivers
  <2>7. \A i \in DOMAIN reached[h] : reached[h][i] \in Known'[h]
    BY <2>1
  <2>8. Delivers(reached[h], SubSeq(start'[h], 1, at'[h] - 1), From[h])
    BY <2>1, <2>5, <2>6
  <2>9. at'[h] # 0 /\ Len(start'[h]) = viewLen'[h] /\ at'[h] <= viewLen'[h] + 1
    BY <1>1, <1>3
  <2> QED
    BY <1>5, <2>4, <2>7, <2>8, <2>9
<1> QED
  BY <1>4, <1>5

\* Across a turn of the fan-out: one more of its list, unless it is the sender.
LEMMA SendKeepsReach ==
  ASSUME GroupInv, NEW h \in Messages, Send(h)
  PROVE  ReachInv' /\ reached' \in [Messages -> Seq(Users)]
<1>1. /\ at[h] \in 1..viewLen[h]
      /\ at' = [at EXCEPT ![h] = at[h] + 1]
      /\ Current(h) = Views[h][at[h]]
      /\ Current(h) \in Users /\ Current(h) \in Known[h]
      /\ reached' = [reached EXCEPT ![h] = IF Current(h) = From[h]
                                           THEN reached[h] ELSE Append(reached[h], Current(h))]
      /\ UNCHANGED <<disturbed, start, viewLen, Known>>
  BY SendEffect
<1>2. /\ at \in [Messages -> Nat] /\ viewLen \in [Messages -> Nat]
      /\ reached \in [Messages -> Seq(Users)] /\ start \in [Messages -> Seq(Users)]
  BY DEF GroupInv, Shape
<1> DEFINE x == Current(h)
           more == IF x = From[h] THEN reached[h] ELSE Append(reached[h], x)
<1> HIDE DEF x
<1>3. reached[h] \in Seq(Users) /\ more \in Seq(Users)
  BY <1>1, <1>2 DEF x
<1>4. \A i \in DOMAIN more :
        \/ more[i] = x
        \/ i \in DOMAIN reached[h] /\ more[i] = reached[h][i]
  <2>1. CASE x = From[h]
    BY <2>1
  <2>2. CASE x # From[h]
    <3>1. x \in Users
      BY <1>1 DEF x
    <3>2. \A i \in DOMAIN Append(reached[h], x) :
            \/ Append(reached[h], x)[i] = x
            \/ i \in DOMAIN reached[h] /\ Append(reached[h], x)[i] = reached[h][i]
      BY <1>3, <3>1
    <3>3. more = Append(reached[h], x)
      BY <2>2
    <3> HIDE DEF more
    <3> QED
      BY <3>2, <3>3
  <2> QED
    BY <2>1, <2>2
<1> HIDE DEF more
<1>5. reached' = [reached EXCEPT ![h] = more]
  BY <1>1 DEF x, more
<1>6. reached' \in [Messages -> Seq(Users)] /\ reached'[h] = more /\ at'[h] = at[h] + 1
  BY <1>1, <1>2, <1>3, <1>5
<1> SUFFICES ASSUME NEW k \in Messages
             PROVE  /\ \A i \in DOMAIN reached'[k] : reached'[k][i] \in Known[k]
                    /\ at'[k] = 0 => reached'[k] = <<>> /\ viewLen[k] = 0
                    /\ at'[k] > 0 => Len(start[k]) = viewLen[k] /\ at'[k] <= viewLen[k] + 1
                    /\ Distinct(start[k], DOMAIN start[k])
                    /\ k \notin disturbed /\ at'[k] > 0
                         => Delivers(reached'[k], SubSeq(start[k], 1, at'[k] - 1), From[k])
  BY <1>1, <1>6 DEF ReachInv
<1>7. /\ \A i \in DOMAIN reached[k] : reached[k][i] \in Known[k]
      /\ at[k] = 0 => reached[k] = <<>> /\ viewLen[k] = 0
      /\ at[k] > 0 => Len(start[k]) = viewLen[k] /\ at[k] <= viewLen[k] + 1
      /\ Distinct(start[k], DOMAIN start[k])
      /\ k \notin disturbed /\ at[k] > 0
           => Delivers(reached[k], SubSeq(start[k], 1, at[k] - 1), From[k])
  BY DEF GroupInv, ReachInv
<1>8. CASE k # h
  <2>1. reached'[k] = reached[k] /\ at'[k] = at[k]
    BY <1>1, <1>2, <1>5, <1>8
  <2> QED
    BY <1>7, <2>1
<1>9. CASE k = h
  <2>1. \A i \in DOMAIN more : more[i] \in Known[h]
    BY <1>1, <1>4, <1>7, <1>9 DEF x
  <2>2. /\ at[h] \in Nat /\ at[h] > 0 /\ Len(start[h]) = viewLen[h] /\ at[h] <= Len(start[h])
        /\ start[h] \in Seq(Users) /\ Len(start[h]) \in Nat
    BY <1>1, <1>2, <1>7, <1>9
  <2>3. ASSUME h \notin disturbed
        PROVE  Delivers(more, SubSeq(start[h], 1, at[h]), From[h])
    <3> DEFINE l == SubSeq(start[h], 1, at[h] - 1)
    <3>1. h \in InFlight
      BY <1>1 DEF InFlight
    <3>2. x = start[h][at[h]]
      BY <1>1, <2>3, <3>1 DEF x, GroupInv, FlightInv
    <3>3. /\ l \in Seq(Users) /\ Len(l) = at[h] - 1
          /\ \A j \in 1..(at[h] - 1) : l[j] = start[h][j]
      BY <2>2
    <3>4. SubSeq(start[h], 1, at[h]) = Append(l, x)
      <4>1. 1 \in 1..Len(start[h]) /\ at[h] \in 1..Len(start[h]) /\ start[h][at[h]] \in Users
        BY <2>2
      <4>2. SubSeq(start[h], 1, at[h]) = l \o <<start[h][at[h]]>>
        BY <2>2, <4>1, SubSeqRecursiveSecond
      <4> QED
        BY <3>2, <3>3, <4>1, <4>2, AppendIsConcat
    <3>5. Delivers(reached[h], l, From[h])
      BY <1>7, <1>9, <2>2, <2>3
    <3> HIDE DEF l
    <3>6. \A j \in DOMAIN l : l[j] # x
      BY <1>7, <1>9, <2>2, <3>2, <3>3 DEF Distinct
    <3>7. x \in Users
      BY <1>1 DEF x
    <3>8. Delivers(IF x = From[h] THEN reached[h] ELSE Append(reached[h], x), Append(l, x), From[h])
      BY <1>3, <3>3, <3>5, <3>6, <3>7, DeliversMore
    <3>9. Delivers(more, Append(l, x), From[h])
      BY <3>8 DEF more
    <3>10. SubSeq(start[h], 1, at[h]) = Append(l, x)
      BY <3>4
    <3> QED
      BY <3>9, <3>10
  <2>4. at'[h] - 1 = at[h] /\ at'[h] > 0 /\ at'[h] <= viewLen[h] + 1
    BY <1>1, <1>2, <2>2
  <2> QED
    BY <1>6, <1>7, <1>9, <2>1, <2>2, <2>3, <2>4
<1> QED
  BY <1>6, <1>8, <1>9

\* What is reached across any step.
LEMMA ReachStep ==
  ASSUME GroupInv, Next
  PROVE  ReachInv'
<1>1. ASSUME NEW list \in Lists, NEW slack \in 0..Slack, SaveGroup(list, slack) PROVE ReachInv'
  <2>1. UNCHANGED <<at, viewLen, reached, start, disturbed>> /\ Joining(roster')
    BY <1>1 DEF SaveGroup, NewArray, fanVars
  <2>2. \A h \in Messages : Known[h] \subseteq Known'[h]
    BY <2>1, KnownGrows DEF GroupInv
  <2> QED
    BY <2>1, <2>2, StoreKeepsReach
<1>2. ASSUME NEW u \in Movers, AddGroupMember(u) PROVE ReachInv'
  <2>1. UNCHANGED <<at, viewLen, reached, start, disturbed>> /\ Joining({u})
    BY <1>2 DEF AddGroupMember, AppendMember, NewArray, fanVars, viewVars
  <2>2. \A h \in Messages : Known[h] \subseteq Known'[h]
    BY <2>1, KnownGrows DEF GroupInv
  <2> QED
    BY <2>1, <2>2, StoreKeepsReach
<1>3. ASSUME (\E u \in Movers : RemoveBegin(u)) \/ RemoveTurn \/ RemoveEnd PROVE ReachInv'
  <2>1. /\ UNCHANGED <<at, viewLen, reached, start, joined>>
        /\ disturbed \subseteq disturbed'
    BY <1>3 DEF RemoveBegin, RemoveTurn, RemoveEnd, NewArray, fanVars, viewVars
  <2>2. Known' = Known
    BY <2>1 DEF Known
  <2> QED
    BY <2>1, <2>2, StoreKeepsReach
<1> QED
  BY <1>1, <1>2, <1>3, GetKeepsReach, SendKeepsReach DEF Next

-----------------------------------------------------------------------------
(* The shapes                                                              *)

\* The history of a step of the store.
LEMMA JoiningShape ==
  ASSUME Shape, NEW S \in SUBSET Users, Joining(S)
  PROVE  joined' \in [Messages -> SUBSET Users]
BY DEF Joining, Shape

\* The shapes across any step.
LEMMA ShapeStep ==
  ASSUME GroupInv, Next
  PROVE  Shape'
<1> USE DEF GroupInv
<1>1. ASSUME NEW list \in Lists, NEW slack \in 0..Slack, SaveGroup(list, slack) PROVE Shape'
  <2>1. /\ cells' \in Seq(Cells) /\ len' \in 0..Len(cells')
        /\ \A i \in 1..len' : list[i] \in Users
        /\ roster' = {list[i] : i \in 1..len'}
        /\ viewLen' = viewLen /\ sharing' = {} /\ older' \in [Messages -> Seq(Cells)]
    BY <1>1, SaveEffect
  <2>2. UNCHANGED <<leaver, readAt, writeAt, at, reached, start, disturbed>> /\ Joining(roster')
    BY <1>1 DEF SaveGroup, removeVars, fanVars
  <2>3. roster' \in SUBSET Users
    BY <2>1
  <2>4. joined' \in [Messages -> SUBSET Users]
    BY <2>2, <2>3, JoiningShape
  <2> QED
    BY <2>1, <2>2, <2>3, <2>4 DEF Shape
<1>2. ASSUME NEW u \in Movers, AddGroupMember(u) PROVE Shape'
  <2>1. u \in Users /\ AppendMember(u)
    BY <1>2, GroupAssumption DEF AddGroupMember
  <2>2. /\ cells' \in Seq(Cells) /\ len' = len + 1 /\ len' <= Len(cells')
        /\ viewLen' = viewLen /\ sharing' \in SUBSET sharing
        /\ older' \in [Messages -> Seq(Cells)]
    BY <2>1, AppendEffect
  <2>3. /\ UNCHANGED <<leaver, readAt, writeAt, at, reached, start, disturbed>> /\ Joining({u})
        /\ roster' = roster \cup {u}
    BY <1>2 DEF AddGroupMember, removeVars, fanVars
  <2>4. joined' \in [Messages -> SUBSET Users]
    BY <2>1, <2>3, JoiningShape
  <2>5. len' \in 0..Len(cells')
    BY <2>2 DEF Shape
  <2> QED
    BY <2>1, <2>2, <2>3, <2>4, <2>5 DEF Shape
<1>3. ASSUME NEW u \in Movers, RemoveBegin(u) PROVE Shape'
  <2>1. /\ leaver' = u /\ u \in Users /\ readAt' = 1 /\ writeAt' = 1
        /\ disturbed' = disturbed \/ disturbed' = disturbed \cup InFlight
        /\ UNCHANGED <<cells, len, viewLen, sharing, older, at, reached, start, joined, roster>>
    BY <1>3, GroupAssumption DEF RemoveBegin, viewVars, fanVars
  <2>2. InFlight \subseteq Messages
    BY DEF InFlight
  <2> QED
    BY <2>1, <2>2 DEF Shape
<1>4. ASSUME RemoveTurn PROVE Shape'
  <2>1. /\ UNCHANGED <<len, leaver, viewLen, sharing, older, roster, at>>
        /\ cells' \in Seq(Cells) /\ Len(cells') = Len(cells)
        /\ readAt' = readAt + 1 /\ writeAt' \in {writeAt, writeAt + 1}
    BY <1>4, TurnEffect
  <2>2. UNCHANGED <<reached, start, joined, disturbed>>
    BY <1>4 DEF RemoveTurn, fanVars
  <2> QED
    BY <2>1, <2>2 DEF Shape
<1>5. ASSUME RemoveEnd PROVE Shape'
  <2>1. /\ leaver # Nobody /\ readAt > len
        /\ leaver' = Nobody /\ readAt' = 0 /\ writeAt' = 0
        /\ roster' = roster \ {leaver}
        /\ UNCHANGED <<at, reached, start, joined, disturbed>>
        /\ IF writeAt = 1
           THEN NewArray(<<>>, 0)
           ELSE len' = writeAt - 1 /\ UNCHANGED <<cells, viewLen, sharing, older>>
    BY <1>5 DEF RemoveEnd, Unlocked, fanVars, viewVars
  <2>2. 1 <= writeAt /\ writeAt <= readAt /\ readAt <= len + 1
    BY <2>1 DEF ListInv, RemovalInv
  <2>3. CASE writeAt = 1
    <3>1. <<>> \in Seq(Cells) /\ 0 \in 0..Len(<<>>) /\ NewArray(<<>>, 0)
      BY <2>1, <2>3
    <3>2. /\ cells' = <<>> /\ len' = 0
          /\ viewLen' = viewLen /\ sharing' = {} /\ older' \in [Messages -> Seq(Cells)]
      BY <3>1, NewArrayEffect
    <3> QED
      BY <2>1, <3>1, <3>2 DEF Shape
  <2>4. CASE writeAt # 1
    <3>1. len' = writeAt - 1 /\ UNCHANGED <<cells, viewLen, sharing, older>>
      BY <2>1, <2>4
    <3>2. len' \in 0..Len(cells')
      BY <2>1, <2>2, <3>1 DEF Shape
    <3> QED
      BY <2>1, <3>1, <3>2 DEF Shape
  <2> QED
    BY <2>3, <2>4
<1>6. ASSUME NEW h \in Messages, GetGroup(h) PROVE Shape'
  <2>1. /\ at' = [at EXCEPT ![h] = 1] /\ viewLen' = [viewLen EXCEPT ![h] = len]
        /\ start' \in [Messages -> Seq(Users)]
    BY <1>6, GetEffect
  <2>2. /\ sharing' = sharing \cup {h}
        /\ UNCHANGED <<cells, len, leaver, readAt, writeAt, older, reached, joined, disturbed, roster>>
    BY <1>6 DEF GetGroup, listVars
  <2> QED
    BY <2>1, <2>2 DEF Shape
<1>7. ASSUME NEW h \in Messages, Send(h) PROVE Shape'
  <2>1. /\ at' = [at EXCEPT ![h] = at[h] + 1]
        /\ UNCHANGED <<cells, len, leaver, readAt, writeAt, roster, joined, disturbed, start, viewLen>>
        /\ sharing' \in SUBSET Messages /\ older' \in [Messages -> Seq(Cells)]
    BY <1>7, SendEffect
  <2>2. reached' \in [Messages -> Seq(Users)]
    BY <1>7, SendKeepsReach
  <2>3. at' \in [Messages -> Nat]
    BY <2>1 DEF Shape
  <2> QED
    BY <2>1, <2>2, <2>3 DEF Shape
<1> QED
  BY <1>1, <1>2, <1>3, <1>4, <1>5, <1>6, <1>7 DEF Next

-----------------------------------------------------------------------------
(* The theorems                                                            *)

\* GroupInv across any step.
LEMMA GroupStep == GroupInv /\ [Next]_vars => GroupInv'
<1>1. ASSUME GroupInv, Next PROVE GroupInv'
  BY <1>1, ShapeStep, ListStep, FlightStep, ReachStep DEF GroupInv
<1>2. ASSUME GroupInv, UNCHANGED vars PROVE GroupInv'
  <2> USE <1>2 DEF vars, GroupInv
  <2>1. InFlight' = InFlight /\ Views' = Views /\ Known' = Known /\ Kept' = Kept /\ Listed' = Listed
    BY DEF InFlight, Views, Known, Kept, Listed
  <2>2. Shape'
    BY DEF Shape
  <2>3. ListInv'
    BY <2>1 DEF ListInv, RestInv, RemovalInv
  <2>4. FlightInv'
    BY <2>1 DEF FlightInv
  <2>5. ReachInv'
    BY <2>1 DEF ReachInv
  <2> QED
    BY <2>2, <2>3, <2>4, <2>5
<1> QED
  BY <1>1, <1>2

\* GroupInv holds throughout.
LEMMA GroupInvariant == Spec => []GroupInv
BY GroupInitially, GroupStep, PTL DEF Spec

\* Every variable has its shape, and every slice that is walked lies within its array.
THEOREM TypeCorrect == Spec => []TypeOK
<1>1. GroupInv => TypeOK
  BY GroupInvSuffices
<1> QED
  BY <1>1, GroupInvariant, PTL

\* Between the store's operations the list of memory.go holds everybody who is in the group,
\* once, and nobody else, whatever appends and in-place removals came before.
THEOREM TheListIsTheGroup == Spec => []ListAgrees
<1>1. GroupInv => ListAgrees
  BY GroupInvSuffices
<1> QED
  BY <1>1, GroupInvariant, PTL

\* groupMessage reaches only who was in the group when its frame came or joined meanwhile,
\* although it walks an array that removals compact under it.
THEOREM OnlyMembersAreReached == Spec => []OnlyMembers
<1>1. GroupInv => OnlyMembers
  BY GroupInvSuffices
<1> QED
  BY <1>1, GroupInvariant, PTL

\* A fan-out no removal falls into reaches every member but the sender, once and in the order of
\* the list.
THEOREM UndisturbedFanoutsAreComplete == Spec => []CompleteUnlessDisturbed
<1>1. GroupInv => CompleteUnlessDisturbed
  BY GroupInvSuffices
<1> QED
  BY <1>1, GroupInvariant, PTL

=============================================================================
