---------------------------- MODULE GroupFanout ----------------------------
(***************************************************************************)
(* One group of the Go relay: SaveGroup, AddGroupMember, RemoveGroupMember *)
(* and GetGroup of server/go/internal/storage/memory.go, and groupMessage  *)
(* of server/go/internal/ws/hub.go, which sends a frame to every member.   *)
(*                                                                         *)
(* The store locks its operations, but GetGroup returns a slice, and       *)
(* groupMessage walks it without the lock while RemoveGroupMember compacts *)
(* the same array in place.  The module therefore models arrays: the one   *)
(* the group's slice refers to, and, for a fan-out that started before the *)
(* group got another, what the older one holds.  Only the group's own      *)
(* array is ever written.  The race is on strings of equal length (user    *)
(* ids), so a read returns a value that the position has held.             *)
(***************************************************************************)
EXTENDS Integers, Sequences, FiniteSets

CONSTANTS
  Users,
  Messages,   \* group:message frames; each is sent once
  From,       \* From[h]: the user message h is from
  Movers,     \* the users who join and leave by frames of their own
  Lists,      \* the member lists of group:create frames
  Slack,      \* bound of the capacity json.Unmarshal leaves behind a list
  Blank, Nobody

ASSUME GroupAssumption ==
  /\ From \in [Messages -> Users]
  /\ Movers \subseteq Users
  /\ Lists \subseteq Seq(Users)
  /\ \A l \in Lists : \A i, j \in DOMAIN l : l[i] = l[j] => i = j
  /\ Slack \in Nat
  /\ Blank \notin Users /\ Nobody \notin Users

VARIABLES
  cells,      \* the array of Memory.groups[id].Members, up to its capacity
  len,        \* the length of that slice; 0: no members, or no such group
  leaver,     \* the user RemoveGroupMember is removing, under the lock, or Nobody
  readAt,     \* its loop variable
  writeAt,    \* the length of its out slice, plus one
  viewLen,    \* viewLen[h]: the length of the slice groupMessage of h walks
  sharing,    \* the messages whose slice is in cells
  older,      \* older[h]: the array of the slice of h, when it is not in cells
  at,         \* at[h]: the position of h in its slice, 0 before GetGroup
  reached,    \* reached[h]: the members the message was emitted or queued to, in order
  start,      \* history: start[h], the members listed when h got its slice
  joined,     \* history: joined[h], the users who joined since
  disturbed,  \* history: the messages during whose fan-out a member left
  roster      \* history: who is in the group, as the frames say

listVars == <<cells, len, leaver, readAt, writeAt>>
removeVars == <<leaver, readAt, writeAt>>
viewVars == <<viewLen, sharing, older>>
fanVars  == <<at, reached, start>>
vars == <<cells, len, leaver, readAt, writeAt, viewLen, sharing, older, at, reached, start,
          joined, disturbed, roster>>

Listed == {cells[i] : i \in 1..len}

Unlocked == leaver = Nobody

Blanks(n) == [i \in 1..n |-> Blank]

InFlight == {h \in Messages : at[h] \in 1..viewLen[h]}

Init ==
  /\ cells = <<>>
  /\ len = 0
  /\ leaver = Nobody
  /\ readAt = 0
  /\ writeAt = 0
  /\ viewLen = [h \in Messages |-> 0]
  /\ sharing = {}
  /\ older = [h \in Messages |-> <<>>]
  /\ at = [h \in Messages |-> 0]
  /\ reached = [h \in Messages |-> <<>>]
  /\ start = [h \in Messages |-> <<>>]
  /\ joined = [h \in Messages |-> {}]
  /\ disturbed = {}
  /\ roster = {}

-----------------------------------------------------------------------------
(* The store                                                               *)

\* The group gets array new, of which n cells are its slice; running fan-outs keep the old.
NewArray(new, n) ==
  /\ cells' = new
  /\ len' = n
  /\ older' = [h \in Messages |-> IF h \in sharing THEN cells ELSE older[h]]
  /\ sharing' = {}
  /\ UNCHANGED viewLen

Joining(S) == joined' = [h \in Messages |-> IF h \in InFlight THEN joined[h] \cup S ELSE joined[h]]

\* group:create: the list as it was decoded, whatever the group was before.
SaveGroup(list, slack) ==
  /\ Unlocked
  /\ NewArray(list \o Blanks(slack), Len(list))
  /\ roster' = {list[i] : i \in DOMAIN list}
  /\ Joining(roster')
  /\ UNCHANGED <<removeVars, fanVars, disturbed>>

\* Go's append: doubling, which is exact below 256 elements.
Grown(capacity) == IF capacity = 0 THEN 1 ELSE 2 * capacity

\* append(g.Members, u): in place while the capacity lasts, in a new array otherwise.
AppendMember(u) ==
  IF len < Len(cells)
  THEN /\ cells' = [cells EXCEPT ![len + 1] = u]
       /\ len' = len + 1
       /\ UNCHANGED viewVars
  ELSE NewArray(Append(cells, u) \o Blanks(Grown(len) - (len + 1)), len + 1)

\* group:join, and register for each of its groups.  A member who is listed changes nothing.
AddGroupMember(u) ==
  /\ Unlocked
  /\ u \notin Listed
  /\ AppendMember(u)
  /\ roster' = roster \cup {u}
  /\ Joining({u})
  /\ UNCHANGED <<removeVars, fanVars, disturbed>>

\* group:leave takes the lock and starts its loop with out := g.Members[:0].
RemoveBegin(u) ==
  /\ Unlocked
  /\ len > 0
  /\ leaver' = u
  /\ readAt' = 1
  /\ writeAt' = 1
  /\ disturbed' = IF u \in Listed THEN disturbed \cup InFlight ELSE disturbed
  /\ UNCHANGED <<cells, len, viewVars, fanVars, joined, roster>>

\* One turn of the loop: a member who stays is written back, further to the front.
RemoveTurn ==
  /\ ~Unlocked
  /\ readAt <= len
  /\ IF cells[readAt] = leaver
     THEN UNCHANGED <<cells, writeAt>>
     ELSE /\ cells' = [cells EXCEPT ![writeAt] = cells[readAt]]
          /\ writeAt' = writeAt + 1
  /\ readAt' = readAt + 1
  /\ UNCHANGED <<len, leaver, viewVars, fanVars, joined, disturbed, roster>>

\* (faulty: the old length is kept)
RemoveEndKeeps ==
  /\ ~Unlocked
  /\ readAt > len
  /\ leaver' = Nobody
  /\ readAt' = 0
  /\ writeAt' = 0
  /\ roster' = roster \ {leaver}
  /\ UNCHANGED <<cells, len, viewVars, fanVars, joined, disturbed>>

\* (faulty: off by one)
RemoveEndLong ==
  /\ ~Unlocked
  /\ readAt > len
  /\ len' = writeAt
  /\ leaver' = Nobody
  /\ readAt' = 0
  /\ writeAt' = 0
  /\ roster' = roster \ {leaver}
  /\ UNCHANGED <<cells, viewVars, fanVars, joined, disturbed>>

\* The shortened slice is stored, or the group is deleted with its last member.
RemoveEnd ==
  /\ ~Unlocked
  /\ readAt > len
  /\ IF writeAt = 1
     THEN NewArray(<<>>, 0)
     ELSE len' = writeAt - 1 /\ UNCHANGED <<cells, viewVars>>
  /\ leaver' = Nobody
  /\ readAt' = 0
  /\ writeAt' = 0
  /\ roster' = roster \ {leaver}
  /\ UNCHANGED <<fanVars, joined, disturbed>>

-----------------------------------------------------------------------------
(* groupMessage                                                            *)

\* (faulty: walks the array to its capacity)
GetWholeArray(h) ==
  /\ Unlocked
  /\ at[h] = 0
  /\ viewLen' = [viewLen EXCEPT ![h] = Len(cells)]
  /\ sharing' = sharing \cup {h}
  /\ at' = [at EXCEPT ![h] = 1]
  /\ start' = [start EXCEPT ![h] = SubSeq(cells, 1, len)]
  /\ UNCHANGED <<listVars, older, reached, joined, disturbed, roster>>

\* store.GetGroup: the slice of the moment.
GetGroup(h) ==
  /\ Unlocked
  /\ at[h] = 0
  /\ viewLen' = [viewLen EXCEPT ![h] = len]
  /\ sharing' = sharing \cup {h}
  /\ at' = [at EXCEPT ![h] = 1]
  /\ start' = [start EXCEPT ![h] = SubSeq(cells, 1, len)]
  /\ UNCHANGED <<listVars, older, reached, joined, disturbed, roster>>

Current(h) == IF h \in sharing THEN cells[at[h]] ELSE older[h][at[h]]

\* The loop goes on; after the last turn nobody holds the slice.
Advance(h) ==
  /\ at' = [at EXCEPT ![h] = @ + 1]
  /\ IF at[h] = viewLen[h]
     THEN sharing' = sharing \ {h} /\ older' = [older EXCEPT ![h] = <<>>]
     ELSE UNCHANGED <<sharing, older>>
  /\ UNCHANGED viewLen

\* (faulty: the sender gets the message back)
SendBack(h) ==
  /\ h \in InFlight
  /\ reached' = [reached EXCEPT ![h] = Append(@, Current(h))]
  /\ Advance(h)
  /\ UNCHANGED <<listVars, start, joined, disturbed, roster>>

\* One turn of the loop: read a member and, unless it is the sender, emit to its connection
\* or queue for it (to() and AddPending of module RelayHub).
Send(h) ==
  /\ h \in InFlight
  /\ reached' = [reached EXCEPT ![h] = IF Current(h) = From[h] THEN @ ELSE Append(@, Current(h))]
  /\ Advance(h)
  /\ UNCHANGED <<listVars, start, joined, disturbed, roster>>

Next ==
  \/ \E list \in Lists, slack \in 0..Slack : SaveGroup(list, slack)
  \/ \E u \in Movers : AddGroupMember(u) \/ RemoveBegin(u)
  \/ RemoveTurn
  \/ RemoveEnd
  \/ \E h \in Messages : GetGroup(h) \/ Send(h)

Spec == Init /\ [][Next]_vars

-----------------------------------------------------------------------------
(* Properties                                                              *)

\* Every variable has its shape, and every slice lies within its array.
TypeOK ==
  /\ cells \in Seq(Users \cup {Blank})
  /\ len \in 0..Len(cells)
  /\ leaver \in Users \cup {Nobody}
  /\ readAt \in Nat /\ writeAt \in 0..readAt
  /\ viewLen \in [Messages -> Nat]
  /\ sharing \in SUBSET Messages
  /\ older \in [Messages -> Seq(Users \cup {Blank})]
  /\ \A h \in InFlight : viewLen[h] <= Len(IF h \in sharing THEN cells ELSE older[h])
  /\ at \in [Messages -> Nat]
  /\ reached \in [Messages -> Seq(Users)]
  /\ start \in [Messages -> Seq(Users)]
  /\ joined \in [Messages -> SUBSET Users]
  /\ disturbed \in SUBSET Messages
  /\ roster \in SUBSET Users

\* Between operations the list holds everybody who is in the group, once, and nobody else,
\* however appends and in-place removals share and outgrow arrays.
ListAgrees ==
  Unlocked => Listed = roster /\ len = Cardinality(roster)

\* A message goes to those who were in the group when it came, or joined meanwhile: never to
\* one who had left, though the array it walks still holds what removals left behind.
OnlyMembers ==
  \A h \in Messages : \A i \in DOMAIN reached[h] :
    reached[h][i] \in {start[h][j] : j \in DOMAIN start[h]} \cup joined[h]

\* q holds the members of the list l but u, each once and in the order of l, and nobody else.
Delivers(q, l, u) ==
  /\ {q[i] : i \in DOMAIN q} = {l[j] : j \in DOMAIN l} \ {u}
  /\ \A i, k \in DOMAIN q :
       i < k => /\ q[i] # q[k]
                /\ \E j, n \in DOMAIN l : j < n /\ l[j] = q[i] /\ l[n] = q[k]

\* As long as no member leaves during the fan-out, every member but the sender is reached
\* exactly once, in the order of the list; joins and a new group:create do not disturb it.
CompleteUnlessDisturbed ==
  \A h \in Messages :
    at[h] > viewLen[h] /\ h \notin disturbed => Delivers(reached[h], start[h], From[h])
=============================================================================
