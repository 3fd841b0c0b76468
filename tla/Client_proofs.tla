--------------------------- MODULE Client_proofs ---------------------------
(***************************************************************************)
(* Theorems about what a client keeps: the lists of ClientStore, for any   *)
(* finite set of contacts and any number of groups, messages and handlers  *)
(* at once, and the Tor of the desktop app (DesktopTor), for any number of *)
(* calls, timeouts, exits and restarts.                                    *)
(***************************************************************************)
EXTENDS ClientStore, DesktopTor, SequenceTheorems, FiniteSetTheorems, TLAPS

(***************************************************************************)
(* Sequences                                                               *)
(***************************************************************************)

\* The domain of a sequence.
LEMMA SeqDomain ==
  ASSUME NEW S, NEW q \in Seq(S)
  PROVE  /\ Len(q) \in Nat /\ DOMAIN q = 1..Len(q)
         /\ \A i \in 1..Len(q) : q[i] \in S
         /\ q = <<>> <=> Len(q) = 0
BY EmptySeq

\* A function with the domain of a sequence is a sequence of the same length.
LEMMA SameLength ==
  ASSUME NEW S, NEW q \in Seq(S), NEW r \in [DOMAIN q -> S]
  PROVE  r \in Seq(S) /\ Len(r) = Len(q) /\ DOMAIN r = DOMAIN q
<1>1. Len(q) \in Nat /\ DOMAIN q = 1..Len(q)
  BY SeqDomain
<1>2. r \in [1..Len(q) -> S]
  BY <1>1
<1>3. r \in Seq(S)
  BY <1>1, <1>2
<1>4. DOMAIN r = 1..Len(r) /\ Len(r) \in Nat /\ DOMAIN r = 1..Len(q)
  BY <1>2, <1>3, SeqDomain
<1> QED
  BY <1>1, <1>3, <1>4

\* Appending to a sequence.
LEMMA Appended ==
  ASSUME NEW S, NEW q \in Seq(S), NEW c \in S
  PROVE  LET r == Append(q, c) IN
         /\ r \in Seq(S) /\ Len(r) = Len(q) + 1 /\ DOMAIN r = 1..(Len(q) + 1)
         /\ \A i \in 1..Len(q) : r[i] = q[i]
         /\ r[Len(q) + 1] = c
         /\ r # <<>>
<1>1. Append(q, c) \in Seq(S) /\ Len(Append(q, c)) = Len(q) + 1
  BY AppendProperties
<1>2. /\ \A i \in 1..Len(q) : Append(q, c)[i] = q[i]
      /\ Append(q, c)[Len(q) + 1] = c /\ Append(q, c) # <<>>
  BY AppendProperties
<1> QED
  BY <1>1, <1>2, SeqDomain

\* The rest of a sequence.
LEMMA Rest ==
  ASSUME NEW S, NEW q \in Seq(S), q # <<>>
  PROVE  LET r == Tail(q) IN
         /\ r \in Seq(S) /\ Len(q) \in Nat \ {0} /\ Len(r) = Len(q) - 1
         /\ DOMAIN r = 1..(Len(q) - 1)
         /\ \A i \in 1..(Len(q) - 1) : r[i] = q[i + 1]
         /\ Head(q) = q[1]
         /\ r = <<>> <=> Len(q) = 1
<1>1. Len(q) \in Nat \ {0}
  BY SeqDomain
<1>2. Tail(q) \in Seq(S) /\ Len(Tail(q)) = Len(q) - 1 /\ Head(q) = q[1]
  BY HeadTailProperties, <1>1
<1>3. \A i \in 1..(Len(q) - 1) : Tail(q)[i] = q[i + 1]
  BY <1>1, <1>2, HeadTailProperties
<1>4. Tail(q) = <<>> <=> Len(q) = 1
  BY <1>1, <1>2, SeqDomain
<1> QED
  BY <1>1, <1>2, <1>3, <1>4, SeqDomain

-----------------------------------------------------------------------------
(***************************************************************************)
(* ClientStore: what lists and calls are                                   *)
(***************************************************************************)

\* The keys of AsyncStorage.
Lists == {"contacts", "deleted", "chats", "groups"}

\* The statuses a message m may have in thread c: one of another user is received, one of this
\* user is saved as sent in a group and as sending in a chat.
StatusesOf(c, m) ==
  IF m \in Received THEN {"received"} ELSE IF c \in Groups THEN {"sent"} ELSE {"sending", "sent"}

\* A thread of c: one that is not there is empty, and no message is in it twice.
GoodThread(c, th) ==
  /\ th \in ThreadType
  /\ th.state = "none" => th = NoThread
  /\ \A p \in th.msgs : p[2] \in StatusesOf(c, p[1])
  /\ \A p, q \in th.msgs : p[1] = q[1] => p[2] = q[2]

\* The threads that are kept under a key.
KeptUnder(key) == IF key = "chats" THEN Contacts ELSE Groups

\* What is stored under a key.
GoodList(key, l) ==
  /\ key \in {"contacts", "deleted"} => l \subseteq Contacts
  /\ key \in {"chats", "groups"} => /\ l \in [KeptUnder(key) -> ThreadType]
                                    /\ \A c \in KeptUnder(key) : GoodThread(c, l[c])

\* What AsyncStorage may hold.
GoodDisk(d) == DOMAIN d = Lists /\ \A key \in Lists : GoodList(key, d[key])

\* Of a thread, group or message i is v.
SoIn(th, i, v) ==
  IF i \in Groups THEN v = IF th.state = "none" THEN "absent" ELSE "present"
  ELSE IF i \in Ids(th.msgs) THEN <<i, v>> \in th.msgs ELSE v = "absent"

\* The thread of a group or message.
Place(i) == IF i \in Groups THEN i ELSE In[i]

\* In list l, which is the one for item i, i is v.
IsSo(l, i, v) ==
  IF i \in Contacts THEN v = IF i \in l THEN "present" ELSE "absent"
  ELSE SoIn(l[Place(i)], i, v)

\* The calls the handlers make, with what they are about.
GoodCall(o) ==
  \/ /\ o[2] \in {"unmarkContactDeleted", "markContactDeleted"}
     /\ o[1] = "deleted" /\ o[3] \in Contacts
  \/ /\ o[2] \in {"addContact", "updateContact", "removeContact"}
     /\ o[1] = "contacts" /\ o[3] \in Contacts
  \/ o[2] = "pullReadsContacts" /\ o[1] = "contacts"
  \/ o[2] = "pullReadsDeleted" /\ o[1] = "deleted" /\ o[3] \subseteq Contacts
  \/ /\ o[2] = "saveMessage" /\ o[1] = "chats" /\ o[3] \in Msgs /\ In[o[3]] \in Contacts
     /\ o[4] = IF o[3] \in Received THEN "received" ELSE "sending"
  \/ /\ o[2] = "saveGroupMessage" /\ o[1] = "groups" /\ o[3] \in Msgs /\ In[o[3]] \in Groups
     /\ o[4] = IF o[3] \in Received THEN "received" ELSE "sent"
  \/ /\ o[2] = "updateMessageStatus" /\ o[1] = "chats" /\ o[3] \in Sent /\ In[o[3]] \in Contacts
     /\ o[4] = "sent"
  \/ o[2] = "markChatAsRead" /\ o[1] = "chats" /\ o[3] \in Contacts
  \/ o[2] \in {"archive", "unarchive", "delete"} /\ o[3] \in Threads /\ o[1] = Chats(o[3])
  \/ o[2] = "deleteMessage" /\ o[1] = "chats" /\ o[3] \in Msgs /\ In[o[3]] \in Contacts
  \/ /\ o[2] = "cleanupExpired" /\ o[3] \in Threads /\ o[1] = Chats(o[3])
     /\ o[4] \subseteq {m \in Msgs : In[m] = o[3]}
  \/ o[2] = "createGroup" /\ o[1] = "groups" /\ o[3] \in Groups
  \/ /\ o[2] \in {"addGroupMember", "removeGroupMember"}
     /\ o[1] = "groups" /\ o[3] \in Groups /\ o[4] \in Contacts \cup {Me}

-----------------------------------------------------------------------------
(***************************************************************************)
(* ClientStore: one thread                                                 *)
(***************************************************************************)

\* What a call that is about the items in about, each of which is v from then on, may make of
\* the thread th of c.
ThreadStep(c, th, new, about, v) ==
  /\ GoodThread(c, new)
  /\ \A i \in InThread(c) \cap about : SoIn(new, i, v)
  /\ \A i \in InThread(c) \ about : \A w : SoIn(th, i, w) => SoIn(new, i, w)

\* The fields of a thread.
LEMMA ThreadFields ==
  ASSUME NEW c, NEW th, GoodThread(c, th)
  PROVE  /\ th.state \in {"none", "open", "archived"} /\ th.members \subseteq Contacts \cup {Me}
         /\ th.msgs \subseteq Msgs \X Statuses
         /\ th = [state |-> th.state, members |-> th.members, msgs |-> th.msgs]
         /\ \A p \in th.msgs : p = <<p[1], p[2]>> /\ p[1] \in Msgs /\ p[2] \in StatusesOf(c, p[1])
         /\ \A p, q \in th.msgs : p[1] = q[1] => p[2] = q[2]
         /\ th.state = "none" => th.msgs = {}
BY DEF GoodThread, ThreadType, NoThread

\* The thread with these fields.
IsThread(new, s, us, ms) == new = [state |-> s, members |-> us, msgs |-> ms]

\* A call that is about messages, or about none, leaves the thread where it is and the other
\* messages as they are.
LEMMA MessageStep ==
  ASSUME NEW c \in Threads, NEW th, GoodThread(c, th), NEW new, NEW s, NEW us, NEW ms,
         IsThread(new, s, us, ms),
         s \in {"none", "open", "archived"}, us \subseteq Contacts \cup {Me},
         s = "none" => us = {} /\ ms = {},
         c \in Groups => (s = "none" <=> th.state = "none"),
         \A p \in ms : /\ p = <<p[1], p[2]>> /\ p[1] \in Msgs /\ p[2] \in Statuses
                       /\ p[2] \in StatusesOf(c, p[1]),
         \A p, q \in ms : p[1] = q[1] => p[2] = q[2],
         NEW about \in SUBSET Msgs, NEW v,
         \A i \in about : <<i, v>> \in ms \/ (v = "absent" /\ i \notin Ids(ms)),
         \A p \in ms : p[1] \notin about => p \in th.msgs,
         \A p \in th.msgs : p[1] \notin about => p \in ms
  PROVE  ThreadStep(c, th, new, about, v)
<1>1. new.state = s /\ new.members = us /\ new.msgs = ms
  BY DEF IsThread
<1>2. ms \subseteq Msgs \X Statuses
  <2> SUFFICES ASSUME NEW p \in ms
               PROVE  p \in Msgs \X Statuses
    OBVIOUS
  <2>1. p = <<p[1], p[2]>> /\ p[1] \in Msgs /\ p[2] \in Statuses
    OBVIOUS
  <2> QED
    BY <2>1
<1>3. new \in ThreadType
  BY <1>2 DEF IsThread, ThreadType
<1>4. s = "none" => new = NoThread
  BY DEF IsThread, NoThread
<1>5. GoodThread(c, new)
  BY <1>1, <1>3, <1>4 DEF GoodThread
<1>6. Groups \cap Msgs = {}
  BY ClientStoreAssumption
<1>7. ASSUME NEW i \in about
      PROVE  SoIn(new, i, v)
  <2>1. i \notin Groups
    BY <1>6
  <2>2. CASE <<i, v>> \in ms
    <3>1. <<i, v>>[1] = i
      OBVIOUS
    <3>2. i \in Ids(ms)
      BY <2>2, <3>1 DEF Ids
    <3> QED
      BY <1>1, <2>1, <2>2, <3>2 DEF SoIn
  <2>3. CASE v = "absent" /\ i \notin Ids(ms)
    BY <1>1, <2>1, <2>3 DEF SoIn
  <2> QED
    BY <2>2, <2>3
<1>8. ASSUME NEW i \in InThread(c) \ about, NEW w, SoIn(th, i, w)
      PROVE  SoIn(new, i, w)
  <2>1. CASE i \in Groups
    <3>1. i = c
      BY <1>6, <2>1 DEF InThread
    <3> QED
      BY <1>1, <1>8, <2>1, <3>1 DEF SoIn
  <2>2. CASE i \notin Groups
    <3>1. \A p \in ms : p[1] = i => p \in th.msgs
      OBVIOUS
    <3>2. \A p \in th.msgs : p[1] = i => p \in ms
      OBVIOUS
    <3>3. i \in Ids(ms) <=> i \in Ids(th.msgs)
      BY <3>1, <3>2 DEF Ids
    <3>4. <<i, w>>[1] = i
      OBVIOUS
    <3>5. <<i, w>> \in th.msgs => <<i, w>> \in ms
      BY <3>2, <3>4
    <3> QED
      BY <1>1, <1>8, <2>2, <3>3, <3>5 DEF SoIn
  <2> QED
    BY <2>1, <2>2
<1> QED
  BY <1>5, <1>7, <1>8 DEF ThreadStep

\* saveMessage: the message is there afterwards with its status; one of this user was not before.
LEMMA SaveThread ==
  ASSUME NEW c \in Contacts, NEW th, GoodThread(c, th), NEW m \in Msgs,
         NEW st, st = IF m \in Received THEN "received" ELSE "sending",
         m \in Sent => m \notin Ids(th.msgs),
         NEW new, NEW s, NEW ms, IsThread(new, s, th.members, ms),
         s = IF th.state = "none" THEN "open" ELSE th.state,
         ms = IF m \in Ids(th.msgs) THEN th.msgs ELSE th.msgs \cup {<<m, st>>}
  PROVE  ThreadStep(c, th, new, {m}, st)
<1>1. /\ th.state \in {"none", "open", "archived"} /\ th.members \subseteq Contacts \cup {Me}
      /\ th.msgs \subseteq Msgs \X Statuses
      /\ \A p \in th.msgs : p = <<p[1], p[2]>> /\ p[1] \in Msgs /\ p[2] \in StatusesOf(c, p[1])
      /\ \A p, q \in th.msgs : p[1] = q[1] => p[2] = q[2]
  BY ThreadFields
<1>2. s \in {"open", "archived"}
  BY <1>1
<1>3. c \notin Groups /\ Received \cap Sent = {} /\ m \in Received \cup Sent /\ c \in Threads
  BY ClientStoreAssumption DEF Msgs, Threads
<1>4. st \in StatusesOf(c, m) /\ st \in Statuses
  BY <1>3 DEF StatusesOf, Statuses
<1>5. <<m, st>>[1] = m /\ <<m, st>>[2] = st
  OBVIOUS
<1>6. \A p \in th.msgs : p[2] \in Statuses
  BY <1>1
<1>7. \A p \in ms : /\ p = <<p[1], p[2]>> /\ p[1] \in Msgs /\ p[2] \in Statuses
                    /\ p[2] \in StatusesOf(c, p[1])
  BY <1>1, <1>4, <1>5, <1>6
<1>8. \A p, q \in ms : p[1] = q[1] => p[2] = q[2]
  <2>1. m \notin Ids(th.msgs) => \A p \in th.msgs : p[1] # m
    BY DEF Ids
  <2> QED
    BY <1>1, <1>5, <2>1
<1>9. <<m, st>> \in ms
  <2>1. CASE m \in Ids(th.msgs)
    <3>1. PICK p \in th.msgs : p[1] = m
      BY <2>1 DEF Ids
    <3>2. m \in Received
      BY <1>3, <2>1
    <3>3. p[2] = "received" /\ st = "received"
      BY <1>1, <3>1, <3>2 DEF StatusesOf
    <3> QED
      BY <1>1, <2>1, <3>1, <3>3
  <2>2. CASE m \notin Ids(th.msgs)
    BY <2>2
  <2> QED
    BY <2>1, <2>2
<1>10. \A p \in ms : p[1] \notin {m} => p \in th.msgs
  BY <1>5
<1>11. \A p \in th.msgs : p \in ms
  OBVIOUS
<1>12. \A i \in {m} : <<i, st>> \in ms
  BY <1>9
<1> QED
  BY <1>1, <1>2, <1>3, <1>7, <1>8, <1>10, <1>11, <1>12, MessageStep

\* saveGroupMessage, into a group that is there.
LEMMA SaveGroupThread ==
  ASSUME NEW c \in Groups, NEW th, GoodThread(c, th), NEW m \in Msgs,
         NEW st, st = IF m \in Received THEN "received" ELSE "sent",
         th.state # "none",
         NEW new, NEW ms, IsThread(new, th.state, th.members, ms),
         ms = th.msgs \cup {<<m, st>>}
  PROVE  ThreadStep(c, th, new, {m}, st)
<1>1. /\ th.state \in {"none", "open", "archived"} /\ th.members \subseteq Contacts \cup {Me}
      /\ th.msgs \subseteq Msgs \X Statuses
      /\ \A p \in th.msgs : p = <<p[1], p[2]>> /\ p[1] \in Msgs /\ p[2] \in StatusesOf(c, p[1])
      /\ \A p, q \in th.msgs : p[1] = q[1] => p[2] = q[2]
  BY ThreadFields
<1>2. c \in Threads
  BY DEF Threads
<1>3. st \in StatusesOf(c, m) /\ st \in Statuses
  BY DEF StatusesOf, Statuses
<1>4. <<m, st>>[1] = m /\ <<m, st>>[2] = st
  OBVIOUS
<1>5. \A p \in th.msgs : p[2] \in Statuses
  BY <1>1
<1>6. \A p \in ms : /\ p = <<p[1], p[2]>> /\ p[1] \in Msgs /\ p[2] \in Statuses
                    /\ p[2] \in StatusesOf(c, p[1])
  BY <1>1, <1>3, <1>4, <1>5
<1>7. \A p, q \in ms : p[1] = q[1] => p[2] = q[2]
  <2>1. \A p \in th.msgs : p[1] = m => p[2] = st
    BY <1>1 DEF StatusesOf
  <2> QED
    BY <1>1, <1>4, <2>1
<1>8. \A p \in ms : p[1] \notin {m} => p \in th.msgs
  BY <1>4
<1>9. \A p \in th.msgs : p \in ms
  OBVIOUS
<1>10. \A i \in {m} : <<i, st>> \in ms
  OBVIOUS
<1> QED
  BY <1>1, <1>2, <1>6, <1>7, <1>8, <1>9, <1>10, MessageStep

\* updateMessageStatus, of a message of this user that is there.
LEMMA StatusThread ==
  ASSUME NEW c \in Contacts, NEW th, GoodThread(c, th), NEW m \in Sent, m \in Ids(th.msgs),
         NEW st, st = "sent",
         NEW new, NEW ms, IsThread(new, th.state, th.members, ms),
         ms = Without(th.msgs, {m}) \cup {<<m, st>>}
  PROVE  ThreadStep(c, th, new, {m}, st)
<1>1. /\ th.state \in {"none", "open", "archived"} /\ th.members \subseteq Contacts \cup {Me}
      /\ th.msgs \subseteq Msgs \X Statuses
      /\ \A p \in th.msgs : p = <<p[1], p[2]>> /\ p[1] \in Msgs /\ p[2] \in StatusesOf(c, p[1])
      /\ \A p, q \in th.msgs : p[1] = q[1] => p[2] = q[2]
      /\ th.state = "none" => th.msgs = {}
  BY ThreadFields
<1>2. c \in Threads /\ c \notin Groups /\ m \in Msgs /\ m \notin Received
  BY ClientStoreAssumption DEF Threads, Msgs
<1>3. th.state # "none"
  BY <1>1 DEF Ids
<1>4. <<m, st>>[1] = m /\ <<m, st>>[2] = st
  OBVIOUS
<1>5. st \in StatusesOf(c, m) /\ st \in Statuses
  BY <1>2 DEF StatusesOf, Statuses
<1>6. \A p \in ms : (p \in th.msgs /\ p[1] # m) \/ p = <<m, st>>
  BY DEF Without
<1>7. \A p \in th.msgs : p[2] \in Statuses
  BY <1>1
<1>8. \A p \in ms : /\ p = <<p[1], p[2]>> /\ p[1] \in Msgs /\ p[2] \in Statuses
                    /\ p[2] \in StatusesOf(c, p[1])
  BY <1>1, <1>2, <1>4, <1>5, <1>6, <1>7
<1>9. \A p, q \in ms : p[1] = q[1] => p[2] = q[2]
  <2> SUFFICES ASSUME NEW p \in ms, NEW q \in ms, p[1] = q[1]
               PROVE  p[2] = q[2]
    OBVIOUS
  <2> QED
    BY <1>1, <1>4, <1>6
<1>10. \A p \in ms : p[1] \notin {m} => p \in th.msgs
  BY <1>4, <1>6
<1>11. \A p \in th.msgs : p[1] \notin {m} => p \in ms
  BY DEF Without
<1>12. \A i \in {m} : <<i, st>> \in ms
  OBVIOUS
<1> DEFINE about == {m}
<1>13. about \in SUBSET Msgs
  BY <1>2
<1>14. th.state = "none" => th.members = {} /\ ms = {}
  BY <1>3
<1>15. \A i \in about : <<i, st>> \in ms \/ (st = "absent" /\ i \notin Ids(ms))
  BY <1>12
<1>16. \A p \in ms : p[1] \notin about => p \in th.msgs
  BY <1>10
<1>17. \A p \in th.msgs : p[1] \notin about => p \in ms
  BY <1>11
<1>18. ThreadStep(c, th, new, about, st)
  <2> HIDE DEF about
  <2> QED
    <3>1. c \in Threads
      BY <1>2
    <3>2. th.state \in {"none", "open", "archived"} /\ th.members \subseteq Contacts \cup {Me}
      BY <1>1
    <3>3. c \in Groups => (th.state = "none" <=> th.state = "none")
      OBVIOUS
    <3> QED
      BY <3>1, <3>2, <3>3, <1>8, <1>9, <1>13, <1>14, <1>15, <1>16, <1>17, MessageStep, Zenon
<1> QED
  BY <1>18

\* deleteMessage and cleanupExpiredMessages: the messages gone are absent.
LEMMA WithoutThread ==
  ASSUME NEW c \in Threads, NEW th, GoodThread(c, th), NEW gone \in SUBSET Msgs,
         NEW new, NEW ms, IsThread(new, th.state, th.members, ms), ms = Without(th.msgs, gone)
  PROVE  ThreadStep(c, th, new, gone, "absent")
<1>1. /\ th.state \in {"none", "open", "archived"} /\ th.members \subseteq Contacts \cup {Me}
      /\ th.msgs \subseteq Msgs \X Statuses
      /\ \A p \in th.msgs : p = <<p[1], p[2]>> /\ p[1] \in Msgs /\ p[2] \in StatusesOf(c, p[1])
      /\ \A p, q \in th.msgs : p[1] = q[1] => p[2] = q[2]
      /\ th.state = "none" => th.msgs = {}
  BY ThreadFields
<1>2. th.state = "none" => th.members = {} /\ ms = {}
  BY <1>1 DEF GoodThread, NoThread, Without
<1>3. ms \subseteq th.msgs /\ \A p \in th.msgs : p[1] \notin gone => p \in ms
  BY DEF Without
<1>4. \A i \in gone : i \notin Ids(ms)
  BY DEF Ids, Without
<1>5. \A p \in th.msgs : p[2] \in Statuses
  BY <1>1
<1>6. \A p \in ms : /\ p = <<p[1], p[2]>> /\ p[1] \in Msgs /\ p[2] \in Statuses
                    /\ p[2] \in StatusesOf(c, p[1])
  BY <1>1, <1>3, <1>5
<1>7. \A p, q \in ms : p[1] = q[1] => p[2] = q[2]
  BY <1>1, <1>3
<1>8. \A p \in ms : p \in th.msgs
  BY <1>3
<1>9. \A i \in gone : "absent" = "absent" /\ i \notin Ids(ms)
  BY <1>4
<1> QED
  BY <1>1, <1>2, <1>3, <1>6, <1>7, <1>8, <1>9, MessageStep

\* StoreCalls that leave the messages of a thread that is there alone.
LEMMA OtherFields ==
  ASSUME NEW c \in Threads, NEW th, GoodThread(c, th), NEW new, NEW s, NEW us,
         IsThread(new, s, us, th.msgs), s \in {"open", "archived"}, us \subseteq Contacts \cup {Me},
         th.state # "none", NEW v
  PROVE  ThreadStep(c, th, new, {}, v)
<1>1. /\ th.msgs \subseteq Msgs \X Statuses
      /\ \A p \in th.msgs : p = <<p[1], p[2]>> /\ p[1] \in Msgs /\ p[2] \in StatusesOf(c, p[1])
      /\ \A p, q \in th.msgs : p[1] = q[1] => p[2] = q[2]
  BY ThreadFields
<1>2. \A p \in th.msgs : /\ p = <<p[1], p[2]>> /\ p[1] \in Msgs /\ p[2] \in Statuses
                         /\ p[2] \in StatusesOf(c, p[1])
  BY <1>1
<1>3. {} \in SUBSET Msgs
  OBVIOUS
<1> QED
  BY <1>1, <1>2, <1>3, MessageStep

\* The thread of a chat that is only written back.
LEMMA SameThread ==
  ASSUME NEW c, NEW th, GoodThread(c, th), NEW v
  PROVE  ThreadStep(c, th, th, {}, v)
BY DEF ThreadStep

\* delete: all that was in the thread is absent.
LEMMA DeleteThread ==
  ASSUME NEW c \in Threads, NEW th
  PROVE  ThreadStep(c, th, NoThread, InThread(c), "absent")
<1>1. GoodThread(c, NoThread)
  BY DEF GoodThread, NoThread, ThreadType
<1>2. \A i : SoIn(NoThread, i, "absent")
  BY DEF SoIn, NoThread, Ids
<1> QED
  BY <1>1, <1>2 DEF ThreadStep

\* createGroup: a group begins that was not there.
LEMMA CreateThread ==
  ASSUME NEW c \in Groups, NEW th, GoodThread(c, th), th.state = "none",
         NEW new, IsThread(new, "open", {Me}, {})
  PROVE  ThreadStep(c, th, new, {c}, "present")
<1>1. new.state = "open" /\ new.members = {Me} /\ new.msgs = {}
  BY DEF IsThread
<1>2. GoodThread(c, new)
  BY <1>1 DEF IsThread, GoodThread, ThreadType
<1>3. SoIn(new, c, "present")
  BY <1>1 DEF SoIn
<1>4. ASSUME NEW i \in InThread(c) \ {c}, NEW w, SoIn(th, i, w)
      PROVE  SoIn(new, i, w)
  <2>1. i \notin Groups
    BY ClientStoreAssumption DEF InThread
  <2>2. th.msgs = {}
    BY ThreadFields
  <2> QED
    BY <1>1, <1>4, <2>1, <2>2 DEF SoIn, Ids
<1> QED
  BY <1>2, <1>3, <1>4 DEF ThreadStep

-----------------------------------------------------------------------------
(***************************************************************************)
(* ClientStore: one list                                                   *)
(***************************************************************************)

\* The items with no status to come: groups, and this user's messages to contacts, are created
\* once, by a call of their own.
Created == Groups \cup {m \in Sent : In[m] \in Contacts}

\* The call o is the one that creates i.
Creates(o, i) == o[2] \in {"createGroup", "saveMessage"} /\ o[3] = i

\* What the call o, which has read the lists d, may write.
Writes(d, o, l) ==
  /\ GoodList(o[1], l)
  /\ \A i \in About(o) : IsSo(l, i, Becomes(o))
  /\ \A i \in Items \ About(o) : KeyOf(i) = o[1] => \A v : IsSo(d[o[1]], i, v) => IsSo(l, i, v)
  /\ \A i \in Created : KeyOf(i) = o[1] /\ ~Creates(o, i) /\ IsSo(d[o[1]], i, "absent")
                          => IsSo(l, i, "absent")
  /\ \A x \in Contacts : /\ o[1] = "contacts" /\ x \notin d[o[1]] /\ x \in l
                              => o[2] = "addContact" /\ o[3] = x
                         /\ o[1] = "deleted" /\ x \in d[o[1]] /\ x \notin l
                              => o[2] = "unmarkContactDeleted" /\ o[3] = x

\* What o creates is not there yet.
ToCreate(d, o) == \A i \in Created : Creates(o, i) => IsSo(d[o[1]], i, "absent")

\* Where the items of a thread are kept.
LEMMA ThreadKeys ==
  ASSUME NEW i \in Groups \cup Msgs
  PROVE  /\ i \notin Contacts /\ Place(i) \in Threads /\ KeyOf(i) = Chats(Place(i))
         /\ i \in InThread(Place(i))
         /\ \A c \in Threads : i \in InThread(c) => Place(i) = c
         /\ i \in Items
         /\ Place(i) \in KeptUnder(KeyOf(i)) /\ KeyOf(i) \in {"chats", "groups"}
<1>1. CASE i \in Groups
  <2>1. i \notin Contacts /\ i \notin Msgs
    BY <1>1, ClientStoreAssumption
  <2> QED
    BY <1>1, <2>1 DEF Place, KeyOf, Chats, InThread, Threads, Items, KeptUnder
<1>2. CASE i \in Msgs
  <2>1. i \notin Contacts /\ i \notin Groups /\ In[i] \in Threads
    BY <1>2, ClientStoreAssumption
  <2>2. In[i] \notin Contacts => In[i] \in Groups
    BY <2>1 DEF Threads
  <2> QED
    BY <1>2, <2>1, <2>2 DEF Place, KeyOf, Chats, InThread, Items, KeptUnder
<1> QED
  BY <1>1, <1>2

\* The thread of c in good lists.
LEMMA DiskThread ==
  ASSUME NEW d, GoodDisk(d), NEW c \in Threads
  PROVE  /\ GoodThread(c, Thread(d, c)) /\ Thread(d, c) = d[Chats(c)][c]
         /\ DOMAIN d[Chats(c)] = KeptUnder(Chats(c)) /\ c \in KeptUnder(Chats(c))
         /\ d[Chats(c)] \in [KeptUnder(Chats(c)) -> ThreadType]
         /\ Chats(c) \in {"chats", "groups"}
         /\ \A e \in KeptUnder(Chats(c)) : GoodThread(e, d[Chats(c)][e]) /\ e \in Threads
<1>1. Chats(c) \in {"chats", "groups"} /\ Chats(c) \in Lists /\ c \in KeptUnder(Chats(c))
  BY DEF Chats, KeptUnder, Threads, Lists
<1>2. GoodList(Chats(c), d[Chats(c)])
  BY <1>1 DEF GoodDisk
<1>3. \A e \in KeptUnder(Chats(c)) : e \in Threads
  BY DEF KeptUnder, Threads
<1> QED
  BY <1>1, <1>2, <1>3 DEF GoodList, Thread

\* Storing one thread anew is as much of the list as the call is about.
LEMMA ThreadWrites ==
  ASSUME NEW d, GoodDisk(d), NEW c \in Threads, NEW new, NEW l,
         l = [d[Chats(c)] EXCEPT ![c] = new],
         NEW o, o[1] = Chats(c), About(o) \subseteq InThread(c),
         ThreadStep(c, Thread(d, c), new, About(o), Becomes(o)),
         \A i \in Created \cap About(o) :
            \/ Creates(o, i) \/ Becomes(o) = "absent" \/ ~SoIn(Thread(d, c), i, "absent")
  PROVE  Writes(d, o, l)
<1>1. /\ Thread(d, c) = d[Chats(c)][c]
      /\ DOMAIN d[Chats(c)] = KeptUnder(Chats(c)) /\ c \in KeptUnder(Chats(c))
      /\ d[Chats(c)] \in [KeptUnder(Chats(c)) -> ThreadType]
      /\ Chats(c) \in {"chats", "groups"}
      /\ \A e \in KeptUnder(Chats(c)) : GoodThread(e, d[Chats(c)][e]) /\ e \in Threads
  BY DiskThread
<1>2. /\ DOMAIN l = KeptUnder(Chats(c)) /\ l[c] = new
      /\ \A e \in KeptUnder(Chats(c)) : e # c => l[e] = d[Chats(c)][e]
  BY <1>1
<1>3. GoodThread(c, new)
  BY DEF ThreadStep
<1>4. GoodList(o[1], l)
  <2>1. \A e \in KeptUnder(Chats(c)) : GoodThread(e, l[e])
    BY <1>1, <1>2, <1>3
  <2>2. new \in ThreadType
    BY <1>3 DEF GoodThread
  <2>3. l \in [KeptUnder(Chats(c)) -> ThreadType]
    BY <1>1, <2>2
  <2> QED
    BY <1>1, <2>1, <2>3 DEF GoodList
<1>5. ASSUME NEW i \in Groups \cup Msgs, KeyOf(i) = o[1]
      PROVE  /\ i \notin Contacts /\ Place(i) \in KeptUnder(Chats(c))
             /\ i \in InThread(c) => Place(i) = c
             /\ i \notin InThread(c) => Place(i) # c
             /\ i \in Items
  BY <1>5, ThreadKeys
<1>6. ASSUME NEW i \in InThread(c)
      PROVE  i \in Groups \cup Msgs /\ i \notin Contacts /\ Place(i) = c
  <2>1. i \in Groups \cup Msgs
    BY DEF InThread
  <2> QED
    BY <2>1, ThreadKeys
<1>7. \A i \in About(o) : IsSo(l, i, Becomes(o))
  BY <1>2, <1>6 DEF IsSo, ThreadStep
<1>8. ASSUME NEW i \in Items \ About(o), KeyOf(i) = o[1], NEW v, IsSo(d[o[1]], i, v)
      PROVE  IsSo(l, i, v)
  <2>1. i \notin Contacts /\ i \in Groups \cup Msgs
    BY <1>1, <1>8 DEF KeyOf, Items
  <2>2. SoIn(d[o[1]][Place(i)], i, v)
    BY <1>8, <2>1 DEF IsSo
  <2>3. CASE i \in InThread(c)
    <3>1. Place(i) = c
      BY <1>6, <2>3
    <3> QED
      BY <1>1, <1>2, <2>1, <2>2, <2>3, <3>1 DEF IsSo, ThreadStep
  <2>4. CASE i \notin InThread(c)
    <3>1. Place(i) # c /\ Place(i) \in KeptUnder(Chats(c))
      BY <1>5, <1>8, <2>1, <2>4
    <3> QED
      BY <1>2, <2>1, <2>2, <3>1 DEF IsSo
  <2> QED
    BY <2>3, <2>4
<1>9. ASSUME NEW i \in Created, KeyOf(i) = o[1], ~Creates(o, i), IsSo(d[o[1]], i, "absent")
      PROVE  IsSo(l, i, "absent")
  <2>1. i \in Groups \cup Msgs
    BY DEF Created, Msgs
  <2>2. i \in Items /\ i \notin Contacts
    BY <1>5, <1>9, <2>1
  <2>3. CASE i \notin About(o)
    BY <1>8, <1>9, <2>2, <2>3
  <2>4. CASE i \in About(o)
    <3>1. Place(i) = c
      BY <1>6, <2>4
    <3>2. SoIn(Thread(d, c), i, "absent")
      BY <1>1, <1>9, <2>2, <3>1 DEF IsSo
    <3>3. Becomes(o) = "absent"
      BY <1>9, <2>4, <3>2
    <3> QED
      BY <1>7, <2>4, <3>3
  <2> QED
    BY <2>3, <2>4
<1>10. o[1] # "contacts" /\ o[1] # "deleted"
  BY <1>1
<1> QED
  BY <1>4, <1>7, <1>8, <1>9, <1>10 DEF Writes

\* Changing a field of a thread.
LEMMA FieldChange ==
  ASSUME NEW d, GoodDisk(d), NEW c \in Threads, NEW x
  PROVE  /\ \E new : /\ IsThread(new, Thread(d, c).state, Thread(d, c).members, x)
                     /\ ThreadWith(d, c, "msgs", x) = [d[Chats(c)] EXCEPT ![c] = new]
         /\ \E new : /\ IsThread(new, x, Thread(d, c).members, Thread(d, c).msgs)
                     /\ ThreadWith(d, c, "state", x) = [d[Chats(c)] EXCEPT ![c] = new]
         /\ \E new : /\ IsThread(new, Thread(d, c).state, x, Thread(d, c).msgs)
                     /\ ThreadWith(d, c, "members", x) = [d[Chats(c)] EXCEPT ![c] = new]
<1> DEFINE th == d[Chats(c)][c]
           A == {"none", "open", "archived"}
           B == SUBSET (Contacts \cup {Me})
           C == SUBSET (Msgs \X Statuses)
<1>1. /\ GoodThread(c, th) /\ Thread(d, c) = th
      /\ DOMAIN d[Chats(c)] = KeptUnder(Chats(c)) /\ c \in KeptUnder(Chats(c))
  BY DiskThread
<1>2. th \in [state : A, members : B, msgs : C]
  BY <1>1 DEF GoodThread, ThreadType
<1> HIDE DEF th, A, B, C
<1>3. ASSUME NEW r, r = [th EXCEPT !.msgs = x]
      PROVE  r = [state |-> th.state, members |-> th.members, msgs |-> x]
  BY <1>2, <1>3
<1>4. ASSUME NEW r, r = [th EXCEPT !.state = x]
      PROVE  r = [state |-> x, members |-> th.members, msgs |-> th.msgs]
  BY <1>2, <1>4
<1>5. ASSUME NEW r, r = [th EXCEPT !.members = x]
      PROVE  r = [state |-> th.state, members |-> x, msgs |-> th.msgs]
  BY <1>2, <1>5
<1>6. /\ ThreadWith(d, c, "msgs", x) = [d[Chats(c)] EXCEPT ![c] = [th EXCEPT !.msgs = x]]
      /\ ThreadWith(d, c, "state", x) = [d[Chats(c)] EXCEPT ![c] = [th EXCEPT !.state = x]]
      /\ ThreadWith(d, c, "members", x) = [d[Chats(c)] EXCEPT ![c] = [th EXCEPT !.members = x]]
  BY DEF ThreadWith, th
<1> QED
  BY <1>1, <1>3, <1>4, <1>5, <1>6 DEF IsThread

-----------------------------------------------------------------------------
(***************************************************************************)
(* ClientStore: what each storage function writes                          *)
(***************************************************************************)

\* The contacts and the tombstones.
LEMMA ContactWrites ==
  ASSUME NEW d, GoodDisk(d), NEW o, GoodCall(o), NEW l,
         \/ o[2] = "unmarkContactDeleted" /\ l = d["deleted"] \ {o[3]}
         \/ o[2] = "markContactDeleted" /\ l = d["deleted"] \cup {o[3]}
         \/ o[2] = "addContact" /\ l = d["contacts"] \cup {o[3]}
         \/ o[2] = "updateContact" /\ l = d["contacts"]
         \/ o[2] = "removeContact" /\ l = d["contacts"] \ {o[3]}
  PROVE  Writes(d, o, l)
<1>1. d["contacts"] \subseteq Contacts /\ d["deleted"] \subseteq Contacts
  BY DEF GoodDisk, GoodList, Lists
<1>2. o[3] \in Contacts /\ o[1] = IF o[2] \in {"unmarkContactDeleted", "markContactDeleted"}
                                  THEN "deleted" ELSE "contacts"
  BY DEF GoodCall
<1>3. l \subseteq Contacts
  BY <1>1, <1>2
<1>4. GoodList(o[1], l)
  BY <1>2, <1>3 DEF GoodList
<1>5. \A i \in Items : KeyOf(i) = o[1] => i \in Contacts /\ o[1] = "contacts"
  BY <1>2 DEF KeyOf, Chats
<1>6. \A i \in About(o) : i = o[3] /\ o[2] \in {"addContact", "removeContact"}
  BY DEF About
<1>7. \A i \in About(o) : IsSo(l, i, Becomes(o))
  BY <1>2, <1>6 DEF IsSo, Becomes
<1>8. ASSUME NEW i \in Items \ About(o), KeyOf(i) = o[1], NEW v, IsSo(d[o[1]], i, v)
      PROVE  IsSo(l, i, v)
  <2>1. i \in Contacts /\ o[1] = "contacts"
    BY <1>5, <1>8
  <2>2. o[2] \in {"addContact", "removeContact"} => i # o[3]
    BY <1>8 DEF About
  <2>3. i \in l <=> i \in d["contacts"]
    BY <1>2, <2>1, <2>2
  <2> QED
    BY <1>8, <2>1, <2>3 DEF IsSo
<1>9. \A i \in Created : KeyOf(i) # o[1]
  <2>1. \A i \in Created : i \in Items /\ i \notin Contacts
    BY ClientStoreAssumption DEF Created, Items, Msgs
  <2> QED
    BY <1>5, <2>1
<1>10. \A x \in Contacts : /\ o[1] = "contacts" /\ x \notin d[o[1]] /\ x \in l
                                => o[2] = "addContact" /\ o[3] = x
                           /\ o[1] = "deleted" /\ x \in d[o[1]] /\ x \notin l
                                => o[2] = "unmarkContactDeleted" /\ o[3] = x
  BY <1>2
<1> QED
  BY <1>4, <1>7, <1>8, <1>9, <1>10 DEF Writes

\* saveMessage.
LEMMA SaveWrites ==
  ASSUME NEW d, GoodDisk(d), NEW o, GoodCall(o), ToCreate(d, o), o[2] = "saveMessage", NEW l,
         l = [d["chats"] EXCEPT ![In[o[3]]] =
                [Thread(d, In[o[3]]) EXCEPT
                   !.state = IF @ = "none" THEN "open" ELSE @,
                   !.msgs = IF o[3] \in Ids(@) THEN @ ELSE @ \cup {<<o[3], o[4]>>}]]
  PROVE  Writes(d, o, l)
<1> DEFINE m == o[3]
           c == In[m]
           th == Thread(d, c)
           s == IF th.state = "none" THEN "open" ELSE th.state
           ms == IF m \in Ids(th.msgs) THEN th.msgs ELSE th.msgs \cup {<<m, o[4]>>}
<1>1. /\ o[1] = "chats" /\ m \in Msgs /\ c \in Contacts
      /\ o[4] = IF m \in Received THEN "received" ELSE "sending"
  BY DEF GoodCall
<1>2. /\ c \in Threads /\ Chats(c) = "chats" /\ m \in InThread(c)
      /\ m \notin Contacts /\ m \notin Groups
  BY <1>1, ClientStoreAssumption DEF Threads, Chats, InThread
<1>3. GoodThread(c, th) /\ th = d["chats"][c]
  <2> HIDE DEF c
  <2> QED
    BY <1>2, DiskThread
<1>4. PICK new : new = [th EXCEPT !.state = s, !.msgs = ms]
  OBVIOUS
<1>5. l = [d["chats"] EXCEPT ![c] = new]
  BY <1>4
<1>6. IsThread(new, s, th.members, ms)
  <2>1. th \in ThreadType
    BY <1>3 DEF GoodThread
  <2> HIDE DEF s, ms, th
  <2> QED
    BY <1>4, <2>1 DEF ThreadType, IsThread
<1>7. m \in Sent => m \notin Ids(th.msgs)
  <2> SUFFICES ASSUME m \in Sent
               PROVE  m \notin Ids(th.msgs)
    OBVIOUS
  <2>1. m \in Created /\ Creates(o, m)
    BY <1>1 DEF Created, Creates
  <2>2. IsSo(d["chats"], m, "absent")
    BY <1>1, <2>1 DEF ToCreate
  <2>3. SoIn(th, m, "absent")
    BY <1>2, <1>3, <2>2 DEF IsSo, Place
  <2>4. <<m, "absent">>[1] = m /\ <<m, "absent">>[2] = "absent"
    OBVIOUS
  <2>5. <<m, "absent">> \notin th.msgs
    BY <1>3, <2>4 DEF GoodThread, StatusesOf
  <2> QED
    BY <1>2, <2>3, <2>5 DEF SoIn
<1>8. ThreadStep(c, th, new, {m}, o[4])
  <2> HIDE DEF th, c, m
  <2> QED
    BY <1>1, <1>3, <1>6, <1>7, SaveThread
<1>9. About(o) = {m} /\ Becomes(o) = o[4] /\ Creates(o, m)
  BY DEF About, Becomes, Creates
<1>10. \A i \in Created \cap About(o) :
            Creates(o, i) \/ Becomes(o) = "absent" \/ ~SoIn(Thread(d, c), i, "absent")
  BY <1>9
<1> HIDE DEF th, c, m
<1>11. ThreadStep(c, Thread(d, c), new, About(o), Becomes(o)) /\ About(o) \subseteq InThread(c)
  BY <1>2, <1>8, <1>9 DEF th
<1> QED
  BY <1>1, <1>2, <1>5, <1>10, <1>11, ThreadWrites

\* saveGroupMessage.
LEMMA SaveGroupWrites ==
  ASSUME NEW d, GoodDisk(d), NEW o, GoodCall(o), o[2] = "saveGroupMessage",
         ~NoSuch(d, In[o[3]]), NEW l,
         l = ThreadWith(d, In[o[3]], "msgs", Thread(d, In[o[3]]).msgs \cup {<<o[3], o[4]>>})
  PROVE  Writes(d, o, l)
<1> DEFINE m == o[3]
           c == In[m]
           th == Thread(d, c)
           ms == th.msgs \cup {<<m, o[4]>>}
<1>1. /\ o[1] = "groups" /\ m \in Msgs /\ c \in Groups
      /\ o[4] = IF m \in Received THEN "received" ELSE "sent"
  BY DEF GoodCall
<1>2. c \in Threads /\ Chats(c) = "groups" /\ m \in InThread(c)
  BY <1>1, ClientStoreAssumption DEF Threads, Chats, InThread
<1>3. m \notin Created
  BY <1>1, ClientStoreAssumption DEF Created
<1>4. About(o) = {m} /\ Becomes(o) = o[4]
  BY DEF About, Becomes
<1>5. th.state # "none"
  BY DEF NoSuch
<1> HIDE DEF c, m, th, ms
<1>6. GoodThread(c, th)
  BY <1>2, DiskThread DEF th
<1>7. PICK new : /\ IsThread(new, th.state, th.members, ms)
                 /\ ThreadWith(d, c, "msgs", ms) = [d[Chats(c)] EXCEPT ![c] = new]
  BY <1>2, FieldChange DEF th
<1>8. l = [d[Chats(c)] EXCEPT ![c] = new]
  BY <1>7 DEF c, m, th, ms
<1>9. ThreadStep(c, th, new, {m}, o[4])
  BY <1>1, <1>5, <1>6, <1>7, SaveGroupThread DEF ms
<1>10. ThreadStep(c, Thread(d, c), new, About(o), Becomes(o)) /\ About(o) \subseteq InThread(c)
  BY <1>2, <1>4, <1>9 DEF th
<1>11. \A i \in Created \cap About(o) :
            Creates(o, i) \/ Becomes(o) = "absent" \/ ~SoIn(Thread(d, c), i, "absent")
  BY <1>3, <1>4
<1> QED
  BY <1>1, <1>2, <1>8, <1>10, <1>11, ThreadWrites

\* updateMessageStatus.
LEMMA StatusWrites ==
  ASSUME NEW d, GoodDisk(d), NEW o, GoodCall(o), o[2] = "updateMessageStatus",
         o[3] \in Ids(Thread(d, In[o[3]]).msgs), NEW l,
         l = ThreadWith(d, In[o[3]], "msgs",
                        Without(Thread(d, In[o[3]]).msgs, {o[3]}) \cup {<<o[3], o[4]>>})
  PROVE  Writes(d, o, l)
<1> DEFINE m == o[3]
           c == In[m]
           th == Thread(d, c)
           ms == Without(th.msgs, {m}) \cup {<<m, o[4]>>}
<1>1. o[1] = "chats" /\ m \in Sent /\ c \in Contacts /\ o[4] = "sent"
  BY DEF GoodCall
<1>2. c \in Threads /\ Chats(c) = "chats" /\ m \in InThread(c) /\ m \notin Groups
  BY <1>1, ClientStoreAssumption DEF Threads, Chats, InThread, Msgs
<1>3. About(o) = {m} /\ Becomes(o) = o[4]
  BY DEF About, Becomes
<1>4. m \in Ids(th.msgs)
  OBVIOUS
<1> HIDE DEF c, m, th, ms
<1>5. GoodThread(c, th)
  BY <1>2, DiskThread DEF th
<1>6. PICK new : /\ IsThread(new, th.state, th.members, ms)
                 /\ ThreadWith(d, c, "msgs", ms) = [d[Chats(c)] EXCEPT ![c] = new]
  BY <1>2, FieldChange DEF th
<1>7. l = [d[Chats(c)] EXCEPT ![c] = new]
  BY <1>6 DEF c, m, th, ms
<1>8. ThreadStep(c, th, new, {m}, o[4])
  BY <1>1, <1>4, <1>5, <1>6, StatusThread DEF ms
<1>9. ThreadStep(c, Thread(d, c), new, About(o), Becomes(o)) /\ About(o) \subseteq InThread(c)
  BY <1>2, <1>3, <1>8 DEF th
<1>10. ~SoIn(th, m, "absent")
  <2>1. <<m, "absent">>[1] = m /\ <<m, "absent">>[2] = "absent"
    OBVIOUS
  <2>2. <<m, "absent">> \notin th.msgs
    BY <1>5, <2>1 DEF GoodThread, StatusesOf
  <2> QED
    BY <1>2, <1>4, <2>2 DEF SoIn
<1>11. \A i \in Created \cap About(o) :
            Creates(o, i) \/ Becomes(o) = "absent" \/ ~SoIn(Thread(d, c), i, "absent")
  BY <1>3, <1>10 DEF th
<1> QED
  BY <1>1, <1>2, <1>7, <1>9, <1>11, ThreadWrites

\* deleteMessage and cleanupExpiredMessages.
LEMMA WithoutWrites ==
  ASSUME NEW d, GoodDisk(d), NEW o, GoodCall(o), NEW c, NEW gone, NEW l,
         \/ o[2] = "deleteMessage" /\ c = In[o[3]] /\ gone = {o[3]}
         \/ o[2] = "cleanupExpired" /\ c = o[3] /\ gone = o[4],
         l = ThreadWith(d, c, "msgs", Without(Thread(d, c).msgs, gone))
  PROVE  Writes(d, o, l)
<1> DEFINE th == Thread(d, c)
           ms == Without(th.msgs, gone)
<1>1. c \in Threads /\ o[1] = Chats(c) /\ gone \subseteq InThread(c) /\ gone \subseteq Msgs
  BY DEF GoodCall, Threads, Chats, InThread
<1>2. About(o) = gone /\ Becomes(o) = "absent"
  BY DEF About, Becomes
<1> HIDE DEF th, ms
<1>3. GoodThread(c, th)
  BY <1>1, DiskThread DEF th
<1>4. PICK new : /\ IsThread(new, th.state, th.members, ms)
                 /\ ThreadWith(d, c, "msgs", ms) = [d[Chats(c)] EXCEPT ![c] = new]
  BY <1>1, FieldChange DEF th
<1>5. l = [d[Chats(c)] EXCEPT ![c] = new]
  BY <1>4 DEF th, ms
<1>6. ThreadStep(c, th, new, gone, "absent")
  BY <1>1, <1>3, <1>4, WithoutThread DEF ms
<1>7. ThreadStep(c, Thread(d, c), new, About(o), Becomes(o)) /\ About(o) \subseteq InThread(c)
  BY <1>1, <1>2, <1>6 DEF th
<1> QED
  BY <1>1, <1>2, <1>5, <1>7, ThreadWrites

\* archiveThread and unarchiveThread.
LEMMA StateWrites ==
  ASSUME NEW d, GoodDisk(d), NEW o, GoodCall(o), ~NoSuch(d, o[3]), NEW s, NEW l,
         \/ o[2] = "archive" /\ s = "archived"
         \/ o[2] = "unarchive" /\ s = "open",
         l = ThreadWith(d, o[3], "state", s)
  PROVE  Writes(d, o, l)
<1> DEFINE c == o[3]
           th == Thread(d, c)
<1>1. c \in Threads /\ o[1] = Chats(c) /\ th.state # "none" /\ s \in {"open", "archived"}
  BY DEF GoodCall, NoSuch
<1>2. About(o) = {} /\ l = ThreadWith(d, c, "state", s)
  BY DEF About
<1> HIDE DEF c, th
<1>3. GoodThread(c, th)
  BY <1>1, DiskThread DEF th
<1>4. PICK new : /\ IsThread(new, s, th.members, th.msgs)
                 /\ ThreadWith(d, c, "state", s) = [d[Chats(c)] EXCEPT ![c] = new]
  BY <1>1, FieldChange DEF th
<1>5. th.members \subseteq Contacts \cup {Me}
  BY <1>3, ThreadFields
<1>6. ThreadStep(c, th, new, {}, Becomes(o))
  BY <1>1, <1>3, <1>4, <1>5, OtherFields
<1>7. ThreadStep(c, Thread(d, c), new, About(o), Becomes(o)) /\ About(o) \subseteq InThread(c)
  BY <1>2, <1>6 DEF th
<1> QED
  BY <1>1, <1>2, <1>4, <1>7, ThreadWrites

\* addGroupMember and removeGroupMember.
LEMMA MemberWrites ==
  ASSUME NEW d, GoodDisk(d), NEW o, GoodCall(o), ~NoSuch(d, o[3]), NEW us, NEW l,
         \/ o[2] = "addGroupMember" /\ us = Thread(d, o[3]).members \cup {o[4]}
         \/ o[2] = "removeGroupMember" /\ us = Thread(d, o[3]).members \ {o[4]},
         l = ThreadWith(d, o[3], "members", us)
  PROVE  Writes(d, o, l)
<1> DEFINE c == o[3]
           th == Thread(d, c)
<1>1. c \in Groups /\ o[1] = "groups" /\ th.state # "none" /\ o[4] \in Contacts \cup {Me}
  BY DEF GoodCall, NoSuch
<1>2. About(o) = {} /\ l = ThreadWith(d, c, "members", us)
  BY DEF About
<1>3. us \subseteq th.members \cup {o[4]}
  OBVIOUS
<1> HIDE DEF c, th
<1>4. c \in Threads /\ Chats(c) = "groups"
  BY <1>1, ClientStoreAssumption DEF Threads, Chats
<1>5. GoodThread(c, th)
  BY <1>4, DiskThread DEF th
<1>6. PICK new : /\ IsThread(new, th.state, us, th.msgs)
                 /\ ThreadWith(d, c, "members", us) = [d[Chats(c)] EXCEPT ![c] = new]
  BY <1>4, FieldChange DEF th
<1>7. th.members \subseteq Contacts \cup {Me} /\ th.state \in {"open", "archived"}
  BY <1>1, <1>5, ThreadFields
<1>8. us \subseteq Contacts \cup {Me}
  BY <1>1, <1>3, <1>7
<1>9. ThreadStep(c, th, new, {}, Becomes(o))
  BY <1>1, <1>4, <1>5, <1>6, <1>7, <1>8, OtherFields
<1>10. ThreadStep(c, Thread(d, c), new, About(o), Becomes(o)) /\ About(o) \subseteq InThread(c)
  BY <1>2, <1>9 DEF th
<1> QED
  BY <1>1, <1>2, <1>4, <1>6, <1>10, ThreadWrites

\* markChatAsRead writes the chats as they were read.
LEMMA MarkReadWrites ==
  ASSUME NEW d, GoodDisk(d), NEW o, GoodCall(o), o[2] = "markChatAsRead", NEW l, l = d["chats"]
  PROVE  Writes(d, o, l)
<1> DEFINE c == o[3]
           th == Thread(d, c)
<1>1. c \in Threads /\ o[1] = "chats" /\ Chats(c) = "chats"
  BY DEF GoodCall, Threads, Chats
<1>2. About(o) = {}
  BY DEF About
<1> HIDE DEF c
<1>3. GoodThread(c, th) /\ th = d["chats"][c] /\ d["chats"] \in [KeptUnder("chats") -> ThreadType]
      /\ c \in KeptUnder("chats") /\ \A e \in KeptUnder("chats") : GoodThread(e, d["chats"][e])
  BY <1>1, DiskThread
<1>4. \A i \in Items : KeyOf(i) = o[1] => \A v : IsSo(d[o[1]], i, v) => IsSo(l, i, v)
  BY <1>1
<1>5. GoodList(o[1], l)
  BY <1>1, <1>3 DEF GoodList
<1>6. \A i \in Created : KeyOf(i) = o[1] /\ IsSo(d[o[1]], i, "absent") => IsSo(l, i, "absent")
  BY <1>1
<1> QED
  BY <1>1, <1>2, <1>4, <1>5, <1>6 DEF Writes

\* deleteThread.
LEMMA DeleteWrites ==
  ASSUME NEW d, GoodDisk(d), NEW o, GoodCall(o), o[2] = "delete", NEW l,
         l = [d[Chats(o[3])] EXCEPT ![o[3]] = NoThread]
  PROVE  Writes(d, o, l)
<1> DEFINE c == o[3]
<1>1. c \in Threads /\ o[1] = Chats(c)
  BY DEF GoodCall
<1>2. About(o) = InThread(c) /\ Becomes(o) = "absent" /\ l = [d[Chats(c)] EXCEPT ![c] = NoThread]
  BY DEF About, Becomes
<1> HIDE DEF c
<1>3. ThreadStep(c, Thread(d, c), NoThread, About(o), Becomes(o))
  BY <1>1, <1>2, DeleteThread
<1> QED
  BY <1>1, <1>2, <1>3, ThreadWrites

\* createGroup.
LEMMA CreateWrites ==
  ASSUME NEW d, GoodDisk(d), NEW o, GoodCall(o), ToCreate(d, o), o[2] = "createGroup", NEW l,
         l = [d["groups"] EXCEPT ![o[3]] = [state |-> "open", members |-> {Me}, msgs |-> {}]]
  PROVE  Writes(d, o, l)
<1> DEFINE c == o[3]
           th == Thread(d, c)
<1>1. c \in Groups /\ o[1] = "groups"
  BY DEF GoodCall
<1>2. c \in Threads /\ Chats(c) = "groups" /\ c \notin Contacts /\ c \in InThread(c)
  BY <1>1, ClientStoreAssumption DEF Threads, Chats, InThread
<1>3. About(o) = {c} /\ Becomes(o) = "present" /\ Creates(o, c) /\ c \in Created
  BY <1>1 DEF About, Becomes, Creates, Created
<1>4. IsSo(d["groups"], c, "absent")
  BY <1>1, <1>3 DEF ToCreate
<1> HIDE DEF c
<1>5. GoodThread(c, th) /\ th = d["groups"][c]
  BY <1>2, DiskThread
<1>6. th.state = "none"
  BY <1>1, <1>2, <1>4, <1>5 DEF IsSo, SoIn, Place
<1>7. PICK new : IsThread(new, "open", {Me}, {})
  BY DEF IsThread
<1>8. l = [d["groups"] EXCEPT ![c] = new]
  BY <1>7 DEF IsThread, c
<1> HIDE DEF th
<1>9. ThreadStep(c, th, new, {c}, "present")
  BY <1>1, <1>5, <1>6, <1>7, CreateThread
<1>10. ThreadStep(c, Thread(d, c), new, About(o), Becomes(o)) /\ About(o) \subseteq InThread(c)
  BY <1>2, <1>3, <1>9 DEF th
<1>11. \A i \in Created \cap About(o) :
            Creates(o, i) \/ Becomes(o) = "absent" \/ ~SoIn(Thread(d, c), i, "absent")
  BY <1>3
<1> QED
  BY <1>1, <1>2, <1>8, <1>10, <1>11, ThreadWrites
\* A pull goes on with calls in its place: it compares its contacts with the tombstones, or adds
\* contacts none of which has one.
Pulled(d, o, calls) ==
  \/ calls = <<>>
  \/ /\ o[2] = "pullReadsContacts"
     /\ \E xs \in SUBSET Contacts : calls = <<<<"deleted", "pullReadsDeleted", xs>>>>
  \/ /\ o[2] = "pullReadsDeleted"
     /\ \E xs \in SUBSET Contacts : xs \cap d["deleted"] = {} /\ calls = AddsOfAll(xs)

\* A read that is over or goes on to a write.
LEMMA ReadGives ==
  ASSUME NEW t, NEW d, NEW o, NEW skip, NEW list, Read(t, skip, list), ~skip => Writes(d, o, list)
  PROVE  \/ todo' = [todo EXCEPT ![t] = Tail(@)] /\ out' = out
         \/ \E l : todo' = todo /\ out' = [out EXCEPT ![t] = l] /\ Writes(d, o, l)
BY DEF Read

\* What a call that finds the lists d does: it is over, or it holds what it may write, or it is a
\* pull.
LEMMA ReadEffect ==
  ASSUME NEW t, NEW d, GoodDisk(d), NEW o, GoodCall(o), ToCreate(d, o), Reads(t, d, o)
  PROVE  \/ todo' = [todo EXCEPT ![t] = Tail(@)] /\ out' = out
         \/ \E l : todo' = todo /\ out' = [out EXCEPT ![t] = l] /\ Writes(d, o, l)
         \/ /\ o[2] \in {"pullReadsContacts", "pullReadsDeleted"}
            /\ \E calls : /\ todo' = [todo EXCEPT ![t] = calls \o Tail(@)] /\ out' = out
                          /\ Pulled(d, o, calls)
<1>1. CASE o[2] = "unmarkContactDeleted" /\ unmarkContactDeleted(t, d, o[3])
  <2>1. Read(t, o[3] \notin d.deleted, d.deleted \ {o[3]})
    BY <1>1 DEF unmarkContactDeleted
  <2>2. Writes(d, o, d.deleted \ {o[3]})
    BY <1>1, ContactWrites
  <2> QED
    BY <2>1, <2>2, ReadGives
<1>2. CASE o[2] = "markContactDeleted" /\ markContactDeleted(t, d, o[3])
  <2>1. Read(t, FALSE, d.deleted \cup {o[3]})
    BY <1>2 DEF markContactDeleted
  <2>2. Writes(d, o, d.deleted \cup {o[3]})
    BY <1>2, ContactWrites
  <2> QED
    BY <2>1, <2>2, ReadGives
<1>3. CASE o[2] = "addContact" /\ addContact(t, d, o[3])
  <2>1. Read(t, o[3] \in d.contacts, d.contacts \cup {o[3]})
    BY <1>3 DEF addContact
  <2>2. Writes(d, o, d.contacts \cup {o[3]})
    BY <1>3, ContactWrites
  <2> QED
    BY <2>1, <2>2, ReadGives
<1>4. CASE o[2] = "updateContact" /\ updateContact(t, d, o[3])
  <2>1. Read(t, o[3] \notin d.contacts, d.contacts)
    BY <1>4 DEF updateContact
  <2>2. Writes(d, o, d.contacts)
    BY <1>4, ContactWrites
  <2> QED
    BY <2>1, <2>2, ReadGives
<1>5. CASE o[2] = "removeContact" /\ removeContact(t, d, o[3])
  <2>1. Read(t, FALSE, d.contacts \ {o[3]})
    BY <1>5 DEF removeContact
  <2>2. Writes(d, o, d.contacts \ {o[3]})
    BY <1>5, ContactWrites
  <2> QED
    BY <2>1, <2>2, ReadGives
<1>6. CASE o[2] = "pullReadsContacts" /\ pullReadsContacts(t, d)
  <2>1. PICK remote \in SUBSET Contacts :
          Instead(t, IF remote \subseteq d.contacts THEN <<>>
                     ELSE <<<<"deleted", "pullReadsDeleted", remote \ d.contacts>>>>)
    BY <1>6 DEF pullReadsContacts
  <2> DEFINE calls == IF remote \subseteq d.contacts THEN <<>>
                      ELSE <<<<"deleted", "pullReadsDeleted", remote \ d.contacts>>>>
  <2>2. todo' = [todo EXCEPT ![t] = calls \o Tail(@)] /\ out' = out
    BY <2>1 DEF Instead
  <2>3. Pulled(d, o, calls)
    <3>1. remote \ d.contacts \in SUBSET Contacts
      OBVIOUS
    <3> QED
      BY <1>6, <3>1 DEF Pulled
  <2> HIDE DEF calls
  <2> QED
    BY <1>6, <2>2, <2>3
<1>7. CASE o[2] = "pullReadsDeleted" /\ pullReadsDeleted(t, d, o[3])
  <2> DEFINE xs == o[3] \ d.deleted
             calls == AddsOfAll(xs)
  <2>1. todo' = [todo EXCEPT ![t] = calls \o Tail(@)] /\ out' = out
    BY <1>7 DEF pullReadsDeleted, Instead
  <2>2. xs \in SUBSET Contacts /\ xs \cap d["deleted"] = {}
    BY <1>7 DEF GoodCall
  <2> HIDE DEF xs
  <2>3. Pulled(d, o, calls)
    BY <1>7, <2>2 DEF Pulled
  <2> HIDE DEF calls
  <2> QED
    BY <1>7, <2>1, <2>3
<1>8. CASE o[2] = "saveMessage" /\ saveMessage(t, d, o[3], o[4])
  <2>1. PICK l : l = [d["chats"] EXCEPT ![In[o[3]]] =
                        [Thread(d, In[o[3]]) EXCEPT
                           !.state = IF @ = "none" THEN "open" ELSE @,
                           !.msgs = IF o[3] \in Ids(@) THEN @ ELSE @ \cup {<<o[3], o[4]>>}]]
    OBVIOUS
  <2>2. Read(t, FALSE, l)
    BY <1>8, <2>1 DEF saveMessage
  <2>3. Writes(d, o, l)
    BY <1>8, <2>1, SaveWrites
  <2> QED
    BY <2>2, <2>3, ReadGives
<1>9. CASE o[2] = "saveGroupMessage" /\ saveGroupMessage(t, d, o[3], o[4])
  <2>1. PICK l : l = ThreadWith(d, In[o[3]], "msgs", Thread(d, In[o[3]]).msgs \cup {<<o[3], o[4]>>})
    OBVIOUS
  <2>2. Read(t, NoSuch(d, In[o[3]]), l)
    BY <1>9, <2>1 DEF saveGroupMessage
  <2>3. ~NoSuch(d, In[o[3]]) => Writes(d, o, l)
    BY <1>9, <2>1, SaveGroupWrites
  <2> QED
    BY <2>2, <2>3, ReadGives
<1>10. CASE o[2] = "updateMessageStatus" /\ updateMessageStatus(t, d, o[3], o[4])
  <2> DEFINE skip == o[3] \notin Ids(Thread(d, In[o[3]]).msgs)
  <2>1. PICK l : l = ThreadWith(d, In[o[3]], "msgs",
                                Without(Thread(d, In[o[3]]).msgs, {o[3]}) \cup {<<o[3], o[4]>>})
    OBVIOUS
  <2>2. Read(t, skip, l)
    BY <1>10, <2>1 DEF updateMessageStatus
  <2>3. ~skip => Writes(d, o, l)
    BY <1>10, <2>1, StatusWrites
  <2> HIDE DEF skip
  <2> QED
    BY <2>2, <2>3, ReadGives
<1>11. CASE o[2] = "markChatAsRead" /\ markChatAsRead(t, d, o[3])
  <2>1. Read(t, NoSuch(d, o[3]), d.chats)
    BY <1>11 DEF markChatAsRead
  <2>2. Writes(d, o, d.chats)
    BY <1>11, MarkReadWrites
  <2> QED
    BY <2>1, <2>2, ReadGives
<1>12. CASE o[2] = "archive" /\ archiveThread(t, d, o[3])
  <2>1. PICK l : l = ThreadWith(d, o[3], "state", "archived")
    OBVIOUS
  <2>2. Read(t, NoSuch(d, o[3]), l)
    BY <1>12, <2>1 DEF archiveThread
  <2>3. ~NoSuch(d, o[3]) => Writes(d, o, l)
    BY <1>12, <2>1, StateWrites
  <2> QED
    BY <2>2, <2>3, ReadGives
<1>13. CASE o[2] = "unarchive" /\ unarchiveThread(t, d, o[3])
  <2>1. PICK l : l = ThreadWith(d, o[3], "state", "open")
    OBVIOUS
  <2>2. Read(t, NoSuch(d, o[3]), l)
    BY <1>13, <2>1 DEF unarchiveThread
  <2>3. ~NoSuch(d, o[3]) => Writes(d, o, l)
    BY <1>13, <2>1, StateWrites
  <2> QED
    BY <2>2, <2>3, ReadGives
<1>14. CASE o[2] = "delete" /\ deleteThread(t, d, o[3])
  <2>1. PICK l : l = [d[Chats(o[3])] EXCEPT ![o[3]] = NoThread]
    OBVIOUS
  <2>2. Read(t, FALSE, l)
    BY <1>14, <2>1 DEF deleteThread
  <2>3. Writes(d, o, l)
    BY <1>14, <2>1, DeleteWrites
  <2> QED
    BY <2>2, <2>3, ReadGives
<1>15. CASE o[2] = "deleteMessage" /\ deleteMessage(t, d, o[3])
  <2>1. PICK l : l = ThreadWith(d, In[o[3]], "msgs", Without(Thread(d, In[o[3]]).msgs, {o[3]}))
    OBVIOUS
  <2>2. Read(t, NoSuch(d, In[o[3]]), l)
    BY <1>15, <2>1 DEF deleteMessage
  <2>3. Writes(d, o, l)
    BY <1>15, <2>1, WithoutWrites
  <2> QED
    BY <2>2, <2>3, ReadGives
<1>16. CASE o[2] = "cleanupExpired" /\ cleanupExpiredMessages(t, d, o[3], o[4])
  <2> DEFINE skip == o[4] \cap Ids(Thread(d, o[3]).msgs) = {}
  <2>1. PICK l : l = ThreadWith(d, o[3], "msgs", Without(Thread(d, o[3]).msgs, o[4]))
    OBVIOUS
  <2>2. Read(t, skip, l)
    BY <1>16, <2>1 DEF cleanupExpiredMessages
  <2>3. Writes(d, o, l)
    BY <1>16, <2>1, WithoutWrites
  <2> HIDE DEF skip
  <2> QED
    BY <2>2, <2>3, ReadGives
<1>17. CASE o[2] = "createGroup" /\ createGroup(t, d, o[3])
  <2>1. PICK l : l = [d["groups"] EXCEPT ![o[3]] =
                        [state |-> "open", members |-> {Me}, msgs |-> {}]]
    OBVIOUS
  <2>2. Read(t, FALSE, l)
    BY <1>17, <2>1 DEF createGroup
  <2>3. Writes(d, o, l)
    BY <1>17, <2>1, CreateWrites
  <2> QED
    BY <2>2, <2>3, ReadGives
<1>18. CASE o[2] = "addGroupMember" /\ addGroupMember(t, d, o[3], o[4])
  <2> DEFINE skip == NoSuch(d, o[3]) \/ o[4] \in Thread(d, o[3]).members
  <2>1. PICK l : l = ThreadWith(d, o[3], "members", Thread(d, o[3]).members \cup {o[4]})
    OBVIOUS
  <2>2. Read(t, skip, l)
    BY <1>18, <2>1 DEF addGroupMember
  <2>3. ~skip => Writes(d, o, l)
    BY <1>18, <2>1, MemberWrites
  <2> HIDE DEF skip
  <2> QED
    BY <2>2, <2>3, ReadGives
<1>19. CASE o[2] = "removeGroupMember" /\ removeGroupMember(t, d, o[3], o[4])
  <2>1. PICK l : l = ThreadWith(d, o[3], "members", Thread(d, o[3]).members \ {o[4]})
    OBVIOUS
  <2>2. Read(t, NoSuch(d, o[3]), l)
    BY <1>19, <2>1 DEF removeGroupMember
  <2>3. ~NoSuch(d, o[3]) => Writes(d, o, l)
    BY <1>19, <2>1, MemberWrites
  <2> QED
    BY <2>2, <2>3, ReadGives
<1> QED
  BY <1>1, <1>2, <1>3, <1>4, <1>5, <1>6, <1>7, <1>8, <1>9, <1>10, <1>11, <1>12, <1>13, <1>14,
     <1>15, <1>16, <1>17, <1>18, <1>19 DEF Reads
-----------------------------------------------------------------------------
(***************************************************************************)
(* ClientStore: the calls of a task                                        *)
(***************************************************************************)

\* What a call may be about.
Values == Items \cup {Me} \cup Statuses \cup SUBSET Items

\* The names of the calls.
Ops ==
  {"unmarkContactDeleted", "markContactDeleted", "addContact", "updateContact", "removeContact",
   "pullReadsContacts", "pullReadsDeleted", "saveMessage", "saveGroupMessage",
   "updateMessageStatus", "markChatAsRead", "archive", "unarchive", "delete", "deleteMessage",
   "cleanupExpired", "createGroup", "addGroupMember", "removeGroupMember"}

\* A list to read and write, a function, and what it is called with.
StoreCalls ==
  (Lists \X Ops) \cup (Lists \X Ops \X Values) \cup (Lists \X Ops \X Values \X Values)

\* The calls of pullContactsFromServer, which write nothing themselves.
Pulls == {"pullReadsContacts", "pullReadsDeleted"}

\* A tombstone is taken away only for the contact that is added next, a contact is removed with
\* the last call, a pull is alone, and what is created is created with the first call.
InPlace(q, k) ==
  /\ GoodCall(q[k])
  /\ q[k][2] = "unmarkContactDeleted"
        => k < Len(q) /\ q[k + 1][2] = "addContact" /\ q[k + 1][3] = q[k][3]
  /\ q[k][2] = "removeContact" => k = Len(q)
  /\ q[k][2] \in Pulls => Len(q) = 1
  /\ \A i \in Created : Creates(q[k], i) => k = 1

\* The calls a task has still to make.
Line(q) == q \in Seq(StoreCalls) /\ \A k \in 1..Len(q) : InPlace(q, k)

\* The calls q create the item i.
Makes(q, i) == \E k \in 1..Len(q) : Creates(q[k], i)

\* The calls q add the contact x.
AddsTo(q, x) ==
  \E k \in 1..Len(q) : q[k][2] \in {"addContact", "unmarkContactDeleted"} /\ q[k][3] = x

\* The current call of a task.
LEMMA CurrentCall ==
  ASSUME NEW q, Line(q), q # <<>>
  PROVE  /\ Head(q) = q[1] /\ GoodCall(q[1]) /\ Len(q) \in Nat \ {0} /\ 1 \in 1..Len(q)
         /\ q[1][2] = "removeContact" => Tail(q) = <<>>
         /\ q[1][2] \in Pulls => Tail(q) = <<>>
<1>1. q \in Seq(StoreCalls)
  BY DEF Line
<1>2. Head(q) = q[1] /\ Len(q) \in Nat \ {0} /\ (Tail(q) = <<>> <=> Len(q) = 1)
  BY <1>1, Rest
<1>3. InPlace(q, 1)
  BY <1>2 DEF Line
<1> QED
  BY <1>2, <1>3 DEF InPlace

\* The calls after the current one.
LEMMA NextCalls ==
  ASSUME NEW q, Line(q), q # <<>>
  PROVE  /\ Line(Tail(q))
         /\ \A i \in Created : ~Makes(Tail(q), i)
         /\ \A x : AddsTo(Tail(q), x) => AddsTo(q, x)
<1> DEFINE r == Tail(q)
<1>1. q \in Seq(StoreCalls)
  BY DEF Line
<1>2. /\ r \in Seq(StoreCalls) /\ Len(q) \in Nat \ {0} /\ Len(r) = Len(q) - 1
      /\ \A i \in 1..(Len(q) - 1) : r[i] = q[i + 1]
  BY <1>1, Rest
<1> HIDE DEF r
<1>3. ASSUME NEW k \in 1..Len(r)
      PROVE  InPlace(q, k + 1) /\ k + 1 \in 1..Len(q) /\ r[k] = q[k + 1]
  BY <1>2 DEF Line
<1>4. ASSUME NEW k \in 1..Len(r)
      PROVE  InPlace(r, k)
  <2>1. InPlace(q, k + 1) /\ r[k] = q[k + 1] /\ k \in Nat \ {0} /\ k + 1 <= Len(q)
    BY <1>2, <1>3
  <2>2. k + 1 < Len(q) => r[k + 1] = q[(k + 1) + 1]
    BY <1>2, <2>1
  <2>3. \A i \in Created : ~Creates(q[k + 1], i)
    BY <2>1 DEF InPlace
  <2> QED
    BY <1>2, <2>1, <2>2, <2>3 DEF InPlace
<1>5. \A i \in Created : ~Makes(r, i)
  BY <1>2, <1>3 DEF Makes, InPlace
<1>6. \A x : AddsTo(r, x) => AddsTo(q, x)
  BY <1>3 DEF AddsTo
<1> QED
  BY <1>2, <1>4, <1>5, <1>6 DEF Line, r

\* No calls.
LEMMA NoCalls ==
  Line(<<>>) /\ \A x : ~Makes(<<>>, x) /\ ~AddsTo(<<>>, x)
<1>1. <<>> \in Seq(StoreCalls) /\ Len(<<>>) = 0
  BY EmptySeq
<1> QED
  BY <1>1 DEF Line, Makes, AddsTo

\* One call.
LEMMA OneCall ==
  ASSUME NEW o \in StoreCalls, GoodCall(o), o[2] # "unmarkContactDeleted", NEW q, q = <<o>>
  PROVE  /\ Line(q) /\ \A i : Makes(q, i) <=> Creates(o, i)
         /\ \A x : AddsTo(q, x) => o[2] = "addContact"
<1>1. q \in Seq(StoreCalls) /\ Len(q) = 1 /\ q[1] = o
  OBVIOUS
<1>2. \A k \in 1..Len(q) : k = 1
  BY <1>1
<1>3. InPlace(q, 1)
  BY <1>1 DEF InPlace
<1> QED
  BY <1>1, <1>2, <1>3 DEF Line, Makes, AddsTo

\* Two calls of which the second creates nothing.
LEMMA TwoCalls ==
  ASSUME NEW o \in StoreCalls, GoodCall(o), NEW p \in StoreCalls, GoodCall(p), NEW q, q = <<o, p>>,
         o[2] \notin Pulls, p[2] \notin Pulls, o[2] # "removeContact",
         p[2] # "unmarkContactDeleted", \A i \in Created : ~Creates(p, i),
         o[2] = "unmarkContactDeleted" => p[2] = "addContact" /\ p[3] = o[3]
  PROVE  /\ Line(q) /\ \A i \in Created : Makes(q, i) <=> Creates(o, i)
         /\ \A x : AddsTo(q, x) => \/ o[2] \in {"addContact", "unmarkContactDeleted"} /\ o[3] = x
                                   \/ p[2] = "addContact" /\ p[3] = x
<1>1. q \in Seq(StoreCalls) /\ Len(q) = 2 /\ q[1] = o /\ q[2] = p
  OBVIOUS
<1>2. \A k \in 1..Len(q) : k = 1 \/ k = 2
  BY <1>1
<1>3. InPlace(q, 1)
  BY <1>1 DEF InPlace
<1>4. InPlace(q, 2)
  BY <1>1 DEF InPlace
<1>5. 1 \in 1..Len(q)
  BY <1>1
<1> QED
  BY <1>1, <1>2, <1>3, <1>4, <1>5 DEF Line, Makes, AddsTo
\* The sequence of a finite set.
LEMMA SetSequence ==
  ASSUME NEW S, IsFiniteSet(S)
  PROVE  SetToSeq(S) \in Seq(S)
<1>1. PICK n \in Nat : ExistsBijection(1..n, S)
  BY FS_NatBijection
<1>2. Cardinality(S) = n
  BY <1>1, FS_CountingElements
<1>3. \E f \in [1..n -> S] : IsInjective(f)
  BY <1>1 DEF ExistsBijection, Bijection, Injection
<1>4. SetToSeq(S) \in [1..n -> S]
  BY <1>2, <1>3 DEF SetToSeq
<1> QED
  BY <1>4

\* A pull adds its contacts one after the other, as a handler that adds one.
LEMMA AddsOfAllLine ==
  ASSUME NEW xs \in SUBSET Contacts, NEW q, q = AddsOfAll(xs)
  PROVE  /\ Line(q) /\ \A i \in Created : ~Makes(q, i)
         /\ \A x : AddsTo(q, x) => x \in xs
<1> DEFINE seq == SetToSeq(xs)
           n == Len(seq)
           f(k) == Adds(seq[(k + 1) \div 2])[IF k % 2 = 1 THEN 1 ELSE 2]
<1>1. IsFiniteSet(xs)
  BY FS_Subset, ClientStoreAssumption
<1>2. seq \in Seq(xs)
  BY <1>1, SetSequence
<1>3. n \in Nat /\ \A j \in 1..n : seq[j] \in xs
  BY <1>2, SeqDomain
<1>4. q = [k \in 1..(2 * n) |-> f(k)]
  BY DEF AddsOfAll
<1> HIDE DEF seq, n
<1>5. ASSUME NEW k \in 1..(2 * n)
      PROVE  /\ (k + 1) \div 2 \in 1..n
             /\ k % 2 = 1 => f(k) = <<"deleted", "unmarkContactDeleted", seq[(k + 1) \div 2]>>
             /\ k % 2 # 1 => f(k) = <<"contacts", "addContact", seq[(k + 1) \div 2]>>
             /\ k % 2 = 1 => /\ k < 2 * n /\ (k + 1) % 2 # 1
                             /\ ((k + 1) + 1) \div 2 = (k + 1) \div 2
  <2>1. (k + 1) \div 2 \in 1..n
    BY <1>3
  <2>2. k % 2 = 1 => k < 2 * n /\ (k + 1) % 2 # 1 /\ ((k + 1) + 1) \div 2 = (k + 1) \div 2
    BY <1>3
  <2> QED
    BY <2>1, <2>2 DEF Adds
<1> HIDE DEF f
<1>6. ASSUME NEW k \in 1..(2 * n)
      PROVE  \E x \in xs : \/ /\ f(k) = <<"deleted", "unmarkContactDeleted", x>>
                              /\ k < 2 * n /\ f(k + 1) = <<"contacts", "addContact", x>>
                           \/ f(k) = <<"contacts", "addContact", x>>
  <2>1. seq[(k + 1) \div 2] \in xs
    BY <1>3, <1>5
  <2>2. CASE k % 2 = 1
    <3>1. /\ f(k) = <<"deleted", "unmarkContactDeleted", seq[(k + 1) \div 2]>>
          /\ k < 2 * n /\ (k + 1) % 2 # 1 /\ ((k + 1) + 1) \div 2 = (k + 1) \div 2
      BY <1>5, <2>2
    <3>2. k + 1 \in 1..(2 * n)
      BY <1>3, <3>1
    <3>3. f(k + 1) = <<"contacts", "addContact", seq[((k + 1) + 1) \div 2]>>
      BY <1>5, <3>1, <3>2
    <3> QED
      BY <2>1, <3>1, <3>3
  <2>3. CASE k % 2 # 1
    BY <1>5, <2>1, <2>3
  <2> QED
    BY <2>2, <2>3
<1>7. \A x \in xs : /\ <<"deleted", "unmarkContactDeleted", x>> \in StoreCalls
                    /\ <<"contacts", "addContact", x>> \in StoreCalls
  <2>1. \A x \in xs : x \in Values
    BY DEF Values, Items
  <2> QED
    BY <2>1 DEF StoreCalls, Lists, Ops
<1>8. \A k \in 1..(2 * n) : f(k) \in StoreCalls
  BY <1>6, <1>7
<1>9. q \in Seq(StoreCalls) /\ Len(q) = 2 * n /\ DOMAIN q = 1..(2 * n)
  <2>1. 2 * n \in Nat /\ q \in [1..(2 * n) -> StoreCalls]
    BY <1>3, <1>4, <1>8
  <2> QED
    BY <2>1
<1>10. ASSUME NEW k \in 1..Len(q)
       PROVE  \E x \in xs : \/ /\ q[k] = <<"deleted", "unmarkContactDeleted", x>>
                               /\ k < Len(q) /\ q[k + 1] = <<"contacts", "addContact", x>>
                            \/ q[k] = <<"contacts", "addContact", x>>
  <2>1. k \in 1..(2 * n) /\ q[k] = f(k)
    BY <1>4, <1>9
  <2>2. k < 2 * n => q[k + 1] = f(k + 1)
    BY <1>3, <1>4, <2>1
  <2> QED
    BY <1>6, <1>9, <2>1, <2>2
<1>11. ASSUME NEW k \in 1..Len(q)
       PROVE  /\ InPlace(q, k) /\ \A i : ~Creates(q[k], i)
              /\ q[k][3] \in xs
  <2>1. PICK x \in xs : \/ /\ q[k] = <<"deleted", "unmarkContactDeleted", x>>
                           /\ k < Len(q) /\ q[k + 1] = <<"contacts", "addContact", x>>
                        \/ q[k] = <<"contacts", "addContact", x>>
    BY <1>10
  <2>2. x \in Contacts
    OBVIOUS
  <2>3. \A i : ~Creates(q[k], i)
    BY <2>1 DEF Creates
  <2>4. GoodCall(q[k])
    BY <2>1, <2>2 DEF GoodCall
  <2> QED
    BY <2>1, <2>3, <2>4 DEF InPlace, Pulls
<1> QED
  BY <1>9, <1>11 DEF Line, Makes, AddsTo

\* What a pull puts in its place.
LEMMA PulledLine ==
  ASSUME NEW d, NEW o, NEW q, Pulled(d, o, q)
  PROVE  /\ Line(q) /\ \A i \in Created : ~Makes(q, i)
         /\ \A x : AddsTo(q, x) => o[2] = "pullReadsDeleted" /\ x \notin d["deleted"]
<1>1. CASE q = <<>>
  BY <1>1, NoCalls
<1>2. CASE /\ o[2] = "pullReadsContacts"
           /\ \E xs \in SUBSET Contacts : q = <<<<"deleted", "pullReadsDeleted", xs>>>>
  <2>1. PICK xs \in SUBSET Contacts : q = <<<<"deleted", "pullReadsDeleted", xs>>>>
    BY <1>2
  <2>2. PICK p : p = <<"deleted", "pullReadsDeleted", xs>>
    OBVIOUS
  <2>3. p \in StoreCalls
    <3>1. xs \in Values
      BY DEF Values, Items
    <3> QED
      BY <2>2, <3>1 DEF StoreCalls, Lists, Ops
  <2>4. GoodCall(p) /\ p[2] = "pullReadsDeleted" /\ q = <<p>>
    BY <2>1, <2>2 DEF GoodCall
  <2>5. \A i : ~Creates(p, i)
    BY <2>4 DEF Creates
  <2> QED
    BY <2>3, <2>4, <2>5, OneCall
<1>3. CASE /\ o[2] = "pullReadsDeleted"
           /\ \E xs \in SUBSET Contacts : xs \cap d["deleted"] = {} /\ q = AddsOfAll(xs)
  <2>1. PICK xs \in SUBSET Contacts : xs \cap d["deleted"] = {} /\ q = AddsOfAll(xs)
    BY <1>3
  <2>2. Line(q) /\ (\A i \in Created : ~Makes(q, i)) /\ \A x : AddsTo(q, x) => x \in xs
    BY <2>1, AddsOfAllLine
  <2> QED
    BY <1>3, <2>1, <2>2
<1> QED
  BY <1>1, <1>2, <1>3 DEF Pulled
-----------------------------------------------------------------------------
(***************************************************************************)
(* ClientStore: the invariant                                              *)
(***************************************************************************)

\* Task t has read a list and not yet written it.
Holds(t) == out[t] # NoWrite

\* A list l that the call o will write has what o is about as o wants it, and what the items in f
\* were meant to be.
HeldAs(o, l, f, w) ==
  /\ GoodList(o[1], l)
  /\ \A i \in About(o) : IsSo(l, i, Becomes(o))
  /\ \A i \in f \ About(o) : KeyOf(i) = o[1] => IsSo(l, i, w[i])

\* Item i is nowhere: not on the disk, nor in a list that will be written there.
Nowhere(i) ==
  /\ IsSo(disk[KeyOf(i)], i, "absent")
  /\ \A u \in Tasks : Holds(u) /\ todo[u][1][1] = KeyOf(i) => IsSo(out[u], i, "absent")

\* The types of everything but the lists.
StoreTypes ==
  /\ DOMAIN todo = Tasks /\ DOMAIN out = Tasks
  /\ last \in [Items -> Statuses] /\ firm \subseteq Items /\ removed \subseteq Contacts
  /\ starts \in 0..MaxStarts /\ failures \in 0..MaxFailures

\* The calls of every task are in place, and only a task with a call holds a list.
LineInv == \A t \in Tasks : Line(todo[t]) /\ (Holds(t) => todo[t] # <<>>)

\* What the firm items were last meant to be is so on the disk and in every list on its way there.
FirmInv ==
  /\ GoodDisk(disk)
  /\ \A i \in firm : IsSo(disk[KeyOf(i)], i, last[i])
  /\ \A t \in Tasks : Holds(t) => HeldAs(todo[t][1], out[t], firm, last)

\* An item that is created once is nowhere until the call that creates it has read.
OnceInv ==
  \A i \in Created :
    /\ i \notin used => Nowhere(i) /\ \A t \in Tasks : ~Makes(todo[t], i)
    /\ \A t \in Tasks : Makes(todo[t], i) => /\ \A u \in Tasks \ {t} : ~Makes(todo[u], i)
                                             /\ ~Holds(t) => Nowhere(i)

\* A contact that is removed for good is in no list that will be written, and no task adds it.
RemovedInv ==
  \A x \in removed :
    /\ x \notin disk["contacts"] /\ x \in disk["deleted"]
    /\ \A t \in Tasks : /\ ~AddsTo(todo[t], x)
                        /\ Holds(t) /\ todo[t][1][1] = "contacts" => x \notin out[t]
                        /\ Holds(t) /\ todo[t][1][1] = "deleted" => x \in out[t]

\* Everything the three properties rest on.
StoreInv == StoreTypes /\ LineInv /\ FirmInv /\ OnceInv /\ RemovedInv

-----------------------------------------------------------------------------
(***************************************************************************)
(* ClientStore: the steps                                                  *)
(***************************************************************************)

\* A task that holds nothing goes on with other calls: a handler starts, a call is over after its
\* read, a pull adds what it found.
LEMMA CallsKeep ==
  ASSUME StoreInv, NEW t \in Tasks, ~Holds(t), NEW q, Line(q), todo' = [todo EXCEPT ![t] = q],
         out' = out, disk' = disk, last' = last,
         firm' \subseteq firm, removed' \subseteq removed, used \subseteq used',
         starts' \in 0..MaxStarts, failures' \in 0..MaxFailures,
         \A i \in Created : Makes(q, i) => i \notin used /\ i \in used',
         \A x \in removed' : AddsTo(q, x) => AddsTo(todo[t], x)
  PROVE  StoreInv'
<1>1. DOMAIN todo = Tasks /\ DOMAIN out = Tasks
  BY DEF StoreInv, StoreTypes
<1>2. /\ todo'[t] = q /\ out'[t] = NoWrite
      /\ \A u \in Tasks \ {t} : todo'[u] = todo[u]
      /\ \A u \in Tasks : out'[u] = out[u]
      /\ \A u \in Tasks : out[u] # NoWrite => u # t /\ todo'[u] = todo[u]
      /\ DOMAIN todo' = Tasks
  BY <1>1 DEF Holds
<1>3. StoreTypes'
  BY <1>1, <1>2 DEF StoreInv, StoreTypes
<1>4. LineInv'
  BY <1>2 DEF StoreInv, LineInv, Holds
<1>5. FirmInv'
  <2>1. \A i \in firm' : IsSo(disk'[KeyOf(i)], i, last'[i])
    BY DEF StoreInv, FirmInv
  <2>2. ASSUME NEW u \in Tasks, out[u] # NoWrite
        PROVE  HeldAs(todo[u][1], out[u], firm', last)
    BY <2>2 DEF StoreInv, FirmInv, Holds, HeldAs
  <2> QED
    BY <1>2, <2>1, <2>2 DEF StoreInv, FirmInv, Holds
<1>6. ASSUME NEW i, Nowhere(i)
      PROVE  Nowhere(i)'
    BY <1>2, <1>6 DEF Nowhere, Holds
<1>7. OnceInv'
  <2> SUFFICES ASSUME NEW i \in Created
               PROVE  /\ i \notin used' => Nowhere(i)' /\ \A u \in Tasks : ~Makes(todo'[u], i)
                      /\ \A u \in Tasks : Makes(todo'[u], i) =>
                            /\ \A w \in Tasks \ {u} : ~Makes(todo'[w], i)
                            /\ ~Holds(u)' => Nowhere(i)'
    BY DEF OnceInv
  <2>1. /\ i \notin used => Nowhere(i) /\ \A u \in Tasks : ~Makes(todo[u], i)
        /\ \A u \in Tasks : Makes(todo[u], i) => /\ \A w \in Tasks \ {u} : ~Makes(todo[w], i)
                                                 /\ ~Holds(u) => Nowhere(i)
    BY DEF StoreInv, OnceInv
  <2>2. CASE Makes(q, i)
    <3>1. i \notin used /\ i \in used' /\ Nowhere(i)' /\ \A u \in Tasks : ~Makes(todo[u], i)
      BY <1>6, <2>1, <2>2
    <3> QED
      BY <1>2, <3>1
  <2>3. CASE ~Makes(q, i)
    <3>1. \A u \in Tasks : Makes(todo'[u], i) => u # t /\ Makes(todo[u], i)
      BY <1>2, <2>3
    <3>2. \A u \in Tasks : Holds(u)' <=> Holds(u)
      BY <1>2 DEF Holds
    <3> QED
      BY <1>6, <2>1, <3>1, <3>2
  <2> QED
    BY <2>2, <2>3
<1>8. RemovedInv'
  BY <1>2 DEF StoreInv, RemovedInv, Holds
<1> QED
  BY <1>3, <1>4, <1>5, <1>7, <1>8 DEF StoreInv

\* Lists with nothing in them.
LEMMA EmptyLists ==
  /\ GoodDisk(Empty)
  /\ \A i \in Items : IsSo(Empty[KeyOf(i)], i, "absent")
<1>1. \A c : GoodThread(c, NoThread) /\ NoThread \in ThreadType
  BY DEF GoodThread, NoThread, ThreadType
<1>2. /\ Empty["contacts"] = {} /\ Empty["deleted"] = {}
      /\ Empty["chats"] = [c \in Contacts |-> NoThread]
      /\ Empty["groups"] = [g \in Groups |-> NoThread]
      /\ DOMAIN Empty = Lists
  BY DEF Empty, Lists
<1>3. GoodDisk(Empty)
  BY <1>1, <1>2 DEF GoodDisk, GoodList, Lists, KeptUnder
<1>4. ASSUME NEW i \in Items
      PROVE  IsSo(Empty[KeyOf(i)], i, "absent")
  <2>1. CASE i \in Contacts
    BY <1>2, <2>1 DEF KeyOf, IsSo
  <2>2. CASE i \notin Contacts
    <3>1. i \in Groups \cup Msgs
      BY <2>2 DEF Items
    <3>2. Place(i) \in KeptUnder(KeyOf(i)) /\ KeyOf(i) \in {"chats", "groups"}
      BY <3>1, ThreadKeys
    <3>3. Empty[KeyOf(i)][Place(i)] = NoThread
      BY <1>2, <3>2 DEF KeptUnder
    <3>4. SoIn(NoThread, i, "absent")
      BY DEF SoIn, NoThread, Ids
    <3> QED
      BY <2>2, <3>3, <3>4 DEF IsSo
  <2> QED
    BY <2>1, <2>2
<1> QED
  BY <1>3, <1>4

\* What is created once is an item.
LEMMA CreatedItems == Created \subseteq Items
BY DEF Created, Items, Msgs

\* What a call finds when it reads: what is on the disk, or an empty list if the read fails.
LEMMA Finds ==
  ASSUME StoreInv, NEW t \in Tasks, todo[t] # <<>>, NEW o, o = todo[t][1], NEW d,
         \/ d = disk /\ firm' = firm /\ removed' = removed
         \/ /\ d = [disk EXCEPT ![o[1]] = Empty[o[1]]]
            /\ firm' = {i \in firm : KeyOf(i) # o[1]}
            /\ removed' = IF o[1] \in {"contacts", "deleted"} THEN {} ELSE removed
  PROVE  /\ GoodDisk(d) /\ GoodCall(o) /\ Head(todo[t]) = o
         /\ firm' \subseteq firm /\ removed' \subseteq removed
         /\ \A i \in firm' : KeyOf(i) = o[1] => IsSo(d[o[1]], i, last[i])
         /\ \A i \in Created : KeyOf(i) = o[1] /\ IsSo(disk[o[1]], i, "absent")
                                 => IsSo(d[o[1]], i, "absent")
         /\ \A x \in removed' : /\ o[1] = "contacts" => x \notin d["contacts"]
                                /\ o[1] = "deleted" => x \in d["deleted"]
<1>1. GoodCall(o) /\ Head(todo[t]) = o
  BY CurrentCall DEF StoreInv, LineInv
<1>2. o[1] \in Lists
  BY <1>1 DEF GoodCall, Lists, Chats
<1>3. /\ GoodDisk(disk) /\ \A i \in firm : IsSo(disk[KeyOf(i)], i, last[i])
      /\ \A x \in removed : x \notin disk["contacts"] /\ x \in disk["deleted"]
  BY DEF StoreInv, FirmInv, RemovedInv
<1>4. CASE d = disk /\ firm' = firm /\ removed' = removed
  BY <1>1, <1>3, <1>4
<1>5. CASE /\ d = [disk EXCEPT ![o[1]] = Empty[o[1]]]
           /\ firm' = {i \in firm : KeyOf(i) # o[1]}
           /\ removed' = IF o[1] \in {"contacts", "deleted"} THEN {} ELSE removed
  <2>1. /\ DOMAIN d = Lists /\ d[o[1]] = Empty[o[1]]
        /\ \A key \in Lists : key # o[1] => d[key] = disk[key]
    BY <1>2, <1>3, <1>5 DEF GoodDisk
  <2>2. GoodList(o[1], Empty[o[1]])
    BY <1>2, EmptyLists DEF GoodDisk
  <2>3. GoodDisk(d)
    BY <1>3, <2>1, <2>2 DEF GoodDisk
  <2>4. \A i \in Created : KeyOf(i) = o[1] => IsSo(d[o[1]], i, "absent")
    BY <2>1, EmptyLists, CreatedItems
  <2>5. removed' \subseteq removed /\ (removed' # {} => o[1] # "contacts" /\ o[1] # "deleted")
    BY <1>5
  <2>6. firm' \subseteq firm /\ \A i \in firm' : KeyOf(i) # o[1]
    BY <1>5
  <2> QED
    BY <1>1, <2>3, <2>4, <2>5, <2>6
<1> QED
  BY <1>4, <1>5

\* A call creates only what is not there.
LEMMA CreatesNew ==
  ASSUME StoreInv, NEW t \in Tasks, todo[t] # <<>>, ~Holds(t), NEW o, o = todo[t][1],
         NEW i \in Created, Creates(o, i)
  PROVE  /\ Nowhere(i) /\ i \in used /\ KeyOf(i) = o[1]
         /\ \A u \in Tasks \ {t} : ~Makes(todo[u], i)
<1>1. 1 \in 1..Len(todo[t]) /\ GoodCall(o)
  BY CurrentCall DEF StoreInv, LineInv
<1>2. Makes(todo[t], i)
  BY <1>1 DEF Makes
<1>3. KeyOf(i) = o[1]
  BY <1>1, ClientStoreAssumption DEF Creates, GoodCall, KeyOf, Chats, Created, Msgs
<1> QED
  BY <1>2, <1>3 DEF StoreInv, OnceInv
\* A call has read its list and holds what it will write.
LEMMA HoldKeeps ==
  ASSUME StoreInv, NEW t \in Tasks, todo[t] # <<>>, ~Holds(t), NEW o, o = todo[t][1],
         NEW d, NEW l, Writes(d, o, l), todo' = todo, out' = [out EXCEPT ![t] = l],
         disk' = disk, last' = last, used' = used, starts' = starts,
         firm' \subseteq firm, removed' \subseteq removed, failures' \in 0..MaxFailures,
         \A i \in firm' : KeyOf(i) = o[1] => IsSo(d[o[1]], i, last[i]),
         \A i \in Created : KeyOf(i) = o[1] /\ IsSo(disk[o[1]], i, "absent")
                              => IsSo(d[o[1]], i, "absent"),
         \A x \in removed' : /\ o[1] = "contacts" => x \notin d["contacts"]
                             /\ o[1] = "deleted" => x \in d["deleted"]
  PROVE  StoreInv'
<1>1. DOMAIN out = Tasks /\ firm \subseteq Items /\ removed \subseteq Contacts
  BY DEF StoreInv, StoreTypes
<1>2. out'[t] = l /\ (\A u \in Tasks \ {t} : out'[u] = out[u]) /\ DOMAIN out' = Tasks
  BY <1>1
<1>3. StoreTypes'
  BY <1>1, <1>2 DEF StoreInv, StoreTypes
<1>4. LineInv'
  BY <1>2 DEF StoreInv, LineInv, Holds
<1>5. FirmInv'
  <2>1. HeldAs(o, l, firm', last)
    <3>1. GoodList(o[1], l) /\ \A i \in About(o) : IsSo(l, i, Becomes(o))
      BY DEF Writes
    <3>2. \A i \in firm' \ About(o) : KeyOf(i) = o[1] => IsSo(l, i, last[i])
      BY <1>1 DEF Writes
    <3> QED
      BY <3>1, <3>2 DEF HeldAs
  <2>2. ASSUME NEW u \in Tasks \ {t}, out[u] # NoWrite
        PROVE  HeldAs(todo[u][1], out[u], firm', last)
    BY <2>2 DEF StoreInv, FirmInv, Holds, HeldAs
  <2>3. \A u \in Tasks : out'[u] # NoWrite => HeldAs(todo[u][1], out'[u], firm', last)
    BY <1>2, <2>1, <2>2
  <2>4. GoodDisk(disk) /\ \A i \in firm' : IsSo(disk[KeyOf(i)], i, last[i])
    BY DEF StoreInv, FirmInv
  <2> QED
    BY <2>3, <2>4 DEF FirmInv, Holds
<1>6. ASSUME NEW i \in Created, Nowhere(i), ~Creates(o, i)
      PROVE  Nowhere(i)'
  <2>1. o[1] = KeyOf(i) => IsSo(l, i, "absent")
    BY <1>6 DEF Nowhere, Writes
  <2> QED
    BY <1>2, <1>6, <2>1 DEF Nowhere, Holds
<1>7. OnceInv'
  <2> SUFFICES ASSUME NEW i \in Created
               PROVE  /\ i \notin used => Nowhere(i)' /\ \A u \in Tasks : ~Makes(todo[u], i)
                      /\ \A u \in Tasks : Makes(todo[u], i) =>
                            /\ \A w \in Tasks \ {u} : ~Makes(todo[w], i)
                            /\ ~Holds(u)' => Nowhere(i)'
    BY DEF OnceInv
  <2>1. /\ i \notin used => Nowhere(i) /\ \A u \in Tasks : ~Makes(todo[u], i)
        /\ \A u \in Tasks : Makes(todo[u], i) => /\ \A w \in Tasks \ {u} : ~Makes(todo[w], i)
                                                 /\ ~Holds(u) => Nowhere(i)
    BY DEF StoreInv, OnceInv
  <2>2. \A u \in Tasks : ~Holds(u)' => u = t \/ ~Holds(u)
    BY <1>2 DEF Holds
  <2>3. CASE Creates(o, i)
    <3>1. i \in used /\ \A u \in Tasks \ {t} : ~Makes(todo[u], i)
      BY <2>3, CreatesNew
    <3>2. Holds(t)' \/ l = NoWrite
      BY <1>2 DEF Holds
    <3>3. l = NoWrite => Nowhere(i)'
      <4>1. Nowhere(i)
        BY <2>3, CreatesNew
      <4> QED
        BY <1>2, <4>1 DEF Nowhere, Holds
    <3> QED
      BY <2>1, <3>1, <3>2, <3>3
  <2>4. CASE ~Creates(o, i)
    <3>1. Nowhere(i) => Nowhere(i)'
      BY <1>6, <2>4
    <3>2. Makes(todo[t], i) => ~Holds(t)
      OBVIOUS
    <3> QED
      BY <2>1, <2>2, <3>1, <3>2
  <2> QED
    BY <2>3, <2>4
<1>8. RemovedInv'
  <2> SUFFICES ASSUME NEW x \in removed'
               PROVE  /\ x \notin disk["contacts"] /\ x \in disk["deleted"]
                      /\ \A u \in Tasks :
                            /\ ~AddsTo(todo[u], x)
                            /\ out'[u] # NoWrite /\ todo[u][1][1] = "contacts" => x \notin out'[u]
                            /\ out'[u] # NoWrite /\ todo[u][1][1] = "deleted" => x \in out'[u]
    BY DEF RemovedInv, Holds
  <2>1. /\ x \notin disk["contacts"] /\ x \in disk["deleted"]
        /\ \A u \in Tasks : /\ ~AddsTo(todo[u], x)
                            /\ out[u] # NoWrite /\ todo[u][1][1] = "contacts" => x \notin out[u]
                            /\ out[u] # NoWrite /\ todo[u][1][1] = "deleted" => x \in out[u]
    BY DEF StoreInv, RemovedInv, Holds
  <2>2. 1 \in 1..Len(todo[t])
    BY CurrentCall DEF StoreInv, LineInv
  <2>3. ~(o[2] \in {"addContact", "unmarkContactDeleted"} /\ o[3] = x)
    BY <2>1, <2>2 DEF AddsTo
  <2>4. x \in Contacts
    BY <1>1
  <2>5. o[1] = "contacts" => x \notin l
    BY <2>3, <2>4 DEF Writes
  <2>6. o[1] = "deleted" => x \in l
    BY <2>3, <2>4 DEF Writes
  <2> QED
    BY <1>2, <2>1, <2>5, <2>6
<1> QED
  BY <1>3, <1>4, <1>5, <1>7, <1>8 DEF StoreInv

\* getItem: the call is over, holds its list, or is a pull that goes on.
LEMMA GetItemKeeps ==
  ASSUME StoreInv, NEW t \in Tasks, GetItem(t)
  PROVE  StoreInv'
<1>1. /\ todo[t] # <<>> /\ ~Holds(t)
      /\ disk' = disk /\ starts' = starts /\ used' = used /\ last' = last
  BY DEF GetItem, Holds
<1>2. PICK o : o = todo[t][1]
  OBVIOUS
<1>3. DOMAIN todo = Tasks /\ starts \in 0..MaxStarts /\ failures \in 0..MaxFailures
  BY DEF StoreInv, StoreTypes
<1>4. Line(todo[t]) /\ Head(todo[t]) = o
  BY <1>1, <1>2, CurrentCall DEF StoreInv, LineInv
<1>5. \E d : /\ Reads(t, d, o) /\ failures' \in 0..MaxFailures
             /\ \/ d = disk /\ firm' = firm /\ removed' = removed
                \/ /\ d = [disk EXCEPT ![o[1]] = Empty[o[1]]]
                   /\ firm' = {i \in firm : KeyOf(i) # o[1]}
                   /\ removed' = IF o[1] \in {"contacts", "deleted"} THEN {} ELSE removed
  <2>1. CASE Reads(t, disk, o) /\ UNCHANGED <<failures, firm, removed>>
    BY <1>3, <2>1
  <2>2. CASE /\ failures < MaxFailures /\ failures' = failures + 1
             /\ Reads(t, [disk EXCEPT ![o[1]] = Empty[o[1]]], o)
             /\ firm' = {i \in firm : KeyOf(i) # o[1]}
             /\ removed' = IF o[1] \in {"contacts", "deleted"} THEN {} ELSE removed
    <3>1. failures' \in 0..MaxFailures
      BY <1>3, <2>2, ClientStoreAssumption
    <3> QED
      BY <2>2, <3>1
  <2> QED
    BY <1>4, <2>1, <2>2 DEF GetItem
<1>6. PICK d : /\ Reads(t, d, o) /\ failures' \in 0..MaxFailures
               /\ \/ d = disk /\ firm' = firm /\ removed' = removed
                  \/ /\ d = [disk EXCEPT ![o[1]] = Empty[o[1]]]
                     /\ firm' = {i \in firm : KeyOf(i) # o[1]}
                     /\ removed' = IF o[1] \in {"contacts", "deleted"} THEN {} ELSE removed
  BY <1>5
<1>7. /\ GoodDisk(d) /\ GoodCall(o)
      /\ firm' \subseteq firm /\ removed' \subseteq removed
      /\ \A i \in firm' : KeyOf(i) = o[1] => IsSo(d[o[1]], i, last[i])
      /\ \A i \in Created : KeyOf(i) = o[1] /\ IsSo(disk[o[1]], i, "absent")
                              => IsSo(d[o[1]], i, "absent")
      /\ \A x \in removed' : /\ o[1] = "contacts" => x \notin d["contacts"]
                             /\ o[1] = "deleted" => x \in d["deleted"]
  BY <1>1, <1>2, <1>6, Finds
<1>8. ToCreate(d, o)
  <2> SUFFICES ASSUME NEW i \in Created, Creates(o, i)
               PROVE  IsSo(d[o[1]], i, "absent")
    BY DEF ToCreate
  <2>1. Nowhere(i) /\ KeyOf(i) = o[1]
    BY <1>1, <1>2, CreatesNew
  <2> QED
    BY <1>7, <2>1 DEF Nowhere
<1>9. \/ todo' = [todo EXCEPT ![t] = Tail(@)] /\ out' = out
      \/ \E l : todo' = todo /\ out' = [out EXCEPT ![t] = l] /\ Writes(d, o, l)
      \/ /\ o[2] \in {"pullReadsContacts", "pullReadsDeleted"}
         /\ \E calls : /\ todo' = [todo EXCEPT ![t] = calls \o Tail(@)] /\ out' = out
                       /\ Pulled(d, o, calls)
  BY <1>6, <1>7, <1>8, ReadEffect
<1>10. CASE todo' = [todo EXCEPT ![t] = Tail(@)] /\ out' = out
  <2>1. PICK q : q = Tail(todo[t])
    OBVIOUS
  <2>2. todo' = [todo EXCEPT ![t] = q]
    BY <1>10, <2>1
  <2>3. /\ Line(q) /\ \A i \in Created : ~Makes(q, i)
        /\ \A x : AddsTo(q, x) => AddsTo(todo[t], x)
    BY <1>1, <1>4, <2>1, NextCalls
  <2> QED
    BY <1>1, <1>3, <1>6, <1>7, <1>10, <2>2, <2>3, CallsKeep
<1>11. CASE \E l : todo' = todo /\ out' = [out EXCEPT ![t] = l] /\ Writes(d, o, l)
  <2>1. PICK l : todo' = todo /\ out' = [out EXCEPT ![t] = l] /\ Writes(d, o, l)
    BY <1>11
  <2> QED
    BY <1>1, <1>2, <1>6, <1>7, <2>1, HoldKeeps
<1>12. CASE /\ o[2] \in {"pullReadsContacts", "pullReadsDeleted"}
            /\ \E calls : /\ todo' = [todo EXCEPT ![t] = calls \o Tail(@)] /\ out' = out
                          /\ Pulled(d, o, calls)
  <2>1. PICK calls : /\ todo' = [todo EXCEPT ![t] = calls \o Tail(@)] /\ out' = out
                     /\ Pulled(d, o, calls)
    BY <1>12
  <2>2. Tail(todo[t]) = <<>>
    BY <1>1, <1>2, <1>4, <1>12, CurrentCall DEF Pulls
  <2>3. /\ Line(calls) /\ \A i \in Created : ~Makes(calls, i)
        /\ \A x : AddsTo(calls, x) => o[2] = "pullReadsDeleted" /\ x \notin d["deleted"]
    BY <2>1, PulledLine
  <2>4. calls \o <<>> = calls
    BY <2>3, ConcatEmptySeq DEF Line
  <2>5. todo' = [todo EXCEPT ![t] = calls]
    BY <2>1, <2>2, <2>4
  <2>6. \A x \in removed' : ~AddsTo(calls, x)
    <3>1. o[2] = "pullReadsDeleted" => o[1] = "deleted"
      BY <1>7 DEF GoodCall
    <3> QED
      BY <1>7, <2>3, <3>1
  <2> QED
    BY <1>1, <1>3, <1>6, <1>7, <2>1, <2>3, <2>5, <2>6, CallsKeep
<1> QED
  BY <1>9, <1>10, <1>11, <1>12
\* A call is about items of the list it writes, and leaves them in a state there is.
LEMMA AboutList ==
  ASSUME NEW o, GoodCall(o)
  PROVE  /\ \A i \in About(o) : i \in Items /\ KeyOf(i) = o[1]
         /\ About(o) # {} => Becomes(o) \in Statuses
         /\ o[1] \in Lists
<1>1. ASSUME NEW i \in About(o)
      PROVE  i \in Items /\ KeyOf(i) = o[1] /\ Becomes(o) \in Statuses
  <2>1. CASE o[2] = "delete"
    <3>1. i \in InThread(o[3]) /\ o[3] \in Threads /\ o[1] = Chats(o[3]) /\ Becomes(o) = "absent"
      BY <2>1 DEF About, GoodCall, Becomes
    <3>2. i \in Groups \cup Msgs
      BY <3>1 DEF InThread
    <3> QED
      BY <3>1, <3>2, ThreadKeys DEF Statuses
  <2>2. CASE o[2] = "cleanupExpired"
    <3>1. /\ i \in Msgs /\ In[i] = o[3] /\ o[3] \in Threads /\ o[1] = Chats(o[3])
          /\ Becomes(o) = "absent"
      BY <2>2 DEF About, GoodCall, Becomes
    <3>2. i \in InThread(o[3])
      BY <3>1 DEF InThread
    <3> QED
      BY <3>1, <3>2, ThreadKeys DEF Statuses
  <2>3. CASE o[2] \in {"addContact", "removeContact"}
    <3>1. i = o[3] /\ i \in Contacts /\ o[1] = "contacts"
      BY <2>3 DEF About, GoodCall
    <3> QED
      BY <2>3, <3>1 DEF KeyOf, Items, Becomes, Statuses
  <2>4. CASE o[2] = "createGroup"
    <3>1. i = o[3] /\ i \in Groups /\ o[1] = "groups"
      BY <2>4 DEF About, GoodCall
    <3>2. i \notin Contacts
      BY <3>1, ClientStoreAssumption
    <3> QED
      BY <2>4, <3>1, <3>2 DEF KeyOf, Items, Becomes, Statuses
  <2>5. CASE o[2] \in {"saveMessage", "updateMessageStatus", "deleteMessage"}
    <3>1. i = o[3] /\ i \in Msgs /\ In[i] \in Contacts /\ o[1] = "chats"
      BY <2>5 DEF About, GoodCall, Msgs
    <3>2. i \notin Contacts /\ i \notin Groups
      BY <3>1, ClientStoreAssumption
    <3>3. Becomes(o) \in Statuses
      BY <2>5 DEF Becomes, GoodCall, Statuses
    <3> QED
      BY <3>1, <3>2, <3>3 DEF KeyOf, Items, Chats
  <2>6. CASE o[2] = "saveGroupMessage"
    <3>1. i = o[3] /\ i \in Msgs /\ In[i] \in Groups /\ o[1] = "groups"
      BY <2>6 DEF About, GoodCall
    <3>2. i \notin Contacts /\ i \notin Groups /\ In[i] \notin Contacts
      BY <3>1, ClientStoreAssumption
    <3>3. Becomes(o) \in Statuses
      BY <2>6 DEF Becomes, GoodCall, Statuses
    <3> QED
      BY <3>1, <3>2, <3>3 DEF KeyOf, Items, Chats
  <2> QED
    BY <2>1, <2>2, <2>3, <2>4, <2>5, <2>6 DEF About
<1>2. o[1] \in Lists
  BY DEF GoodCall, Lists, Chats
<1> QED
  BY <1>1, <1>2

\* setItem: what the call is about is firm if no other call holds the list.
LEMMA SetItemKeeps ==
  ASSUME StoreInv, NEW t \in Tasks, SetItem(t)
  PROVE  StoreInv'
<1>1. Holds(t) /\ todo[t] # <<>> /\ Line(todo[t])
  BY DEF SetItem, Holds, StoreInv, LineInv
<1>2. PICK o : o = todo[t][1]
  OBVIOUS
<1>3. PICK q : q = Tail(todo[t])
  OBVIOUS
<1>4. /\ Head(todo[t]) = o /\ GoodCall(o) /\ 1 \in 1..Len(todo[t])
      /\ o[2] = "removeContact" => q = <<>>
  BY <1>1, <1>2, <1>3, CurrentCall
<1>5. /\ Line(q) /\ \A i \in Created : ~Makes(q, i)
      /\ \A x : AddsTo(q, x) => AddsTo(todo[t], x)
  BY <1>1, <1>3, NextCalls
<1>6. PICK l : l = out[t]
  OBVIOUS
<1>7. /\ disk' = [disk EXCEPT ![o[1]] = l]
      /\ out' = [out EXCEPT ![t] = NoWrite]
      /\ todo' = [todo EXCEPT ![t] = q]
      /\ last' = [i \in Items |-> IF i \in About(o) THEN Becomes(o) ELSE last[i]]
      /\ firm' = IF HeldByOther(t, o[1]) THEN firm \ About(o) ELSE firm \cup About(o)
      /\ removed' = IF /\ o[2] = "removeContact" /\ o[3] \in disk.deleted
                       /\ ~HeldByOther(t, "contacts") /\ ~HeldByOther(t, "deleted")
                       /\ ~AddedByOther(t, o[3])
                    THEN removed \cup {o[3]} ELSE removed
      /\ starts' = starts /\ used' = used /\ failures' = failures
  BY <1>3, <1>4, <1>6 DEF SetItem
<1>8. /\ \A i \in About(o) : i \in Items /\ KeyOf(i) = o[1]
      /\ About(o) # {} => Becomes(o) \in Statuses
      /\ o[1] \in Lists
  BY <1>4, AboutList
<1>9. /\ DOMAIN todo = Tasks /\ DOMAIN out = Tasks
      /\ last \in [Items -> Statuses] /\ firm \subseteq Items /\ removed \subseteq Contacts
  BY DEF StoreInv, StoreTypes
<1>10. /\ todo'[t] = q /\ out'[t] = NoWrite
       /\ \A u \in Tasks \ {t} : todo'[u] = todo[u] /\ out'[u] = out[u]
       /\ DOMAIN todo' = Tasks /\ DOMAIN out' = Tasks
       /\ \A u \in Tasks : out'[u] # NoWrite => u # t /\ out[u] # NoWrite
  BY <1>7, <1>9
<1>11. \A u \in Tasks : out[u] # NoWrite => Head(todo[u]) = todo[u][1]
  BY CurrentCall DEF StoreInv, LineInv, Holds
<1>12. \A key : HeldByOther(t, key)
                  <=> \E u \in Tasks \ {t} : out[u] # NoWrite /\ todo[u][1][1] = key
  BY <1>11 DEF HeldByOther
<1>13. /\ GoodDisk(disk) /\ \A i \in firm : IsSo(disk[KeyOf(i)], i, last[i])
       /\ \A u \in Tasks : out[u] # NoWrite => HeldAs(todo[u][1], out[u], firm, last)
  BY DEF StoreInv, FirmInv, Holds
<1>14. HeldAs(o, l, firm, last)
  BY <1>1, <1>2, <1>6, <1>13 DEF Holds
<1>15. /\ DOMAIN disk' = Lists /\ disk'[o[1]] = l
       /\ \A key \in Lists : key # o[1] => disk'[key] = disk[key]
  BY <1>7, <1>8, <1>13 DEF GoodDisk
<1>16. StoreTypes'
  <2>1. last' \in [Items -> Statuses]
    BY <1>7, <1>8, <1>9
  <2>2. firm' \subseteq Items
    BY <1>7, <1>8, <1>9
  <2>3. o[2] = "removeContact" => o[3] \in Contacts
    BY <1>4 DEF GoodCall
  <2>4. removed' \subseteq Contacts
    BY <1>7, <1>9, <2>3
  <2> QED
    BY <1>7, <1>10, <2>1, <2>2, <2>4 DEF StoreInv, StoreTypes
<1>17. LineInv'
  BY <1>5, <1>10 DEF StoreInv, LineInv, Holds
<1>18. \A i \in Items : KeyOf(i) \in Lists
  BY DEF KeyOf, Chats, Lists
<1>19. \A i \in Items : last'[i] = IF i \in About(o) THEN Becomes(o) ELSE last[i]
  BY <1>7
<1>20. FirmInv'
  <2>1. GoodDisk(disk')
    BY <1>13, <1>14, <1>15 DEF GoodDisk, HeldAs
  <2>2. ASSUME NEW i \in firm'
        PROVE  IsSo(disk'[KeyOf(i)], i, last'[i])
    <3>1. i \in Items /\ (i \in firm \/ i \in About(o))
      BY <1>7, <1>8, <1>9
    <3>2. CASE i \in About(o)
      <4>1. KeyOf(i) = o[1] /\ last'[i] = Becomes(o) /\ IsSo(l, i, Becomes(o))
        BY <1>8, <1>14, <1>19, <3>1, <3>2 DEF HeldAs
      <4> QED
        BY <1>15, <4>1
    <3>3. CASE i \notin About(o)
      <4>1. i \in firm /\ last'[i] = last[i]
        BY <1>19, <3>1, <3>3
      <4>2. CASE KeyOf(i) = o[1]
        <5>1. IsSo(l, i, last[i])
          BY <1>14, <3>3, <4>1, <4>2 DEF HeldAs
        <5> QED
          BY <1>15, <4>1, <4>2, <5>1
      <4>3. CASE KeyOf(i) # o[1]
        <5>1. disk'[KeyOf(i)] = disk[KeyOf(i)] /\ IsSo(disk[KeyOf(i)], i, last[i])
          BY <1>13, <1>15, <1>18, <3>1, <4>1, <4>3
        <5> QED
          BY <4>1, <5>1
      <4> QED
        BY <4>2, <4>3
    <3> QED
      BY <3>2, <3>3
  <2>3. ASSUME NEW u \in Tasks \ {t}, out[u] # NoWrite
        PROVE  HeldAs(todo[u][1], out[u], firm', last')
    <3>1. HeldAs(todo[u][1], out[u], firm, last)
      BY <1>13, <2>3
    <3>2. ASSUME NEW i \in firm' \ About(todo[u][1]), KeyOf(i) = todo[u][1][1]
          PROVE  IsSo(out[u], i, last'[i])
      <4>1. i \notin About(o)
        <5>1. i \in About(o) => KeyOf(i) = o[1] /\ HeldByOther(t, o[1])
          BY <1>8, <1>12, <2>3, <3>2
        <5> QED
          BY <1>7, <5>1
      <4>2. i \in firm /\ last'[i] = last[i]
        BY <1>7, <1>9, <1>19, <4>1
      <4> QED
        BY <3>1, <3>2, <4>2 DEF HeldAs
    <3> QED
      BY <3>1, <3>2 DEF HeldAs
  <2> QED
    BY <1>10, <2>1, <2>2, <2>3 DEF FirmInv, Holds
<1>21. ASSUME NEW i \in Created, Nowhere(i)
       PROVE  Nowhere(i)'
  <2>1. i \in Items
    BY DEF Created, Items, Msgs
  <2>2. KeyOf(i) = o[1] => IsSo(l, i, "absent")
    BY <1>1, <1>2, <1>6, <1>21 DEF Nowhere
  <2>3. IsSo(disk'[KeyOf(i)], i, "absent")
    BY <1>15, <1>18, <1>21, <2>1, <2>2 DEF Nowhere
  <2> QED
    BY <1>10, <1>21, <2>3 DEF Nowhere, Holds
<1>22. OnceInv'
  <2> SUFFICES ASSUME NEW i \in Created
               PROVE  /\ i \notin used' => Nowhere(i)' /\ \A u \in Tasks : ~Makes(todo'[u], i)
                      /\ \A u \in Tasks : Makes(todo'[u], i) =>
                            /\ \A w \in Tasks \ {u} : ~Makes(todo'[w], i)
                            /\ ~Holds(u)' => Nowhere(i)'
    BY DEF OnceInv
  <2>1. /\ i \notin used => Nowhere(i) /\ \A u \in Tasks : ~Makes(todo[u], i)
        /\ \A u \in Tasks : Makes(todo[u], i) => /\ \A w \in Tasks \ {u} : ~Makes(todo[w], i)
                                                 /\ ~Holds(u) => Nowhere(i)
    BY DEF StoreInv, OnceInv
  <2>2. \A u \in Tasks : Makes(todo'[u], i) => u # t /\ Makes(todo[u], i)
    BY <1>5, <1>10
  <2>3. \A u \in Tasks \ {t} : Holds(u)' <=> Holds(u)
    BY <1>10 DEF Holds
  <2> QED
    BY <1>7, <1>21, <2>1, <2>2, <2>3
<1>23. RemovedInv'
  <2> SUFFICES ASSUME NEW x \in removed'
               PROVE  /\ x \notin disk'["contacts"] /\ x \in disk'["deleted"]
                      /\ \A u \in Tasks :
                            /\ ~AddsTo(todo'[u], x)
                            /\ out'[u] # NoWrite /\ todo'[u][1][1] = "contacts" => x \notin out'[u]
                            /\ out'[u] # NoWrite /\ todo'[u][1][1] = "deleted" => x \in out'[u]
    BY DEF RemovedInv, Holds
  <2>1. CASE x \in removed
    <3>1. /\ x \notin disk["contacts"] /\ x \in disk["deleted"]
          /\ \A u \in Tasks : /\ ~AddsTo(todo[u], x)
                              /\ out[u] # NoWrite /\ todo[u][1][1] = "contacts" => x \notin out[u]
                              /\ out[u] # NoWrite /\ todo[u][1][1] = "deleted" => x \in out[u]
      BY <2>1 DEF StoreInv, RemovedInv, Holds
    <3>2. /\ o[1] = "contacts" => x \notin l
          /\ o[1] = "deleted" => x \in l
      BY <1>1, <1>2, <1>6, <3>1 DEF Holds
    <3>3. x \notin disk'["contacts"] /\ x \in disk'["deleted"]
      BY <1>15, <3>1, <3>2 DEF Lists
    <3>4. \A u \in Tasks : ~AddsTo(todo'[u], x)
      BY <1>5, <1>10, <3>1
    <3> QED
      BY <1>10, <3>1, <3>3, <3>4
  <2>2. CASE x \notin removed
    <3>1. /\ o[2] = "removeContact" /\ x = o[3] /\ x \in disk["deleted"]
          /\ ~HeldByOther(t, "contacts") /\ ~HeldByOther(t, "deleted") /\ ~AddedByOther(t, x)
      BY <1>7, <2>2
    <3>2. o[1] = "contacts" /\ x \in Contacts /\ About(o) = {x} /\ Becomes(o) = "absent"
      BY <1>4, <3>1 DEF GoodCall, About, Becomes
    <3>3. x \notin l
      BY <1>14, <3>2 DEF HeldAs, IsSo
    <3>4. x \notin disk'["contacts"] /\ x \in disk'["deleted"]
      BY <1>15, <3>1, <3>2, <3>3 DEF Lists
    <3>5. ASSUME NEW u \in Tasks \ {t}
          PROVE  ~AddsTo(todo[u], x)
      <4>1. Line(todo[u])
        BY DEF StoreInv, LineInv
      <4>2. todo[u] \in Seq(StoreCalls) /\ DOMAIN todo[u] = 1..Len(todo[u]) /\ Len(todo[u]) \in Nat
        BY <4>1, SeqDomain DEF Line
      <4>3. \A k \in 1..Len(todo[u]) : ~(todo[u][k][2] = "addContact" /\ todo[u][k][3] = x)
        BY <3>1, <4>2 DEF AddedByOther
      <4>4. ASSUME NEW k \in 1..Len(todo[u]),
                   todo[u][k][2] = "unmarkContactDeleted" /\ todo[u][k][3] = x
            PROVE  FALSE
        <5>1. k < Len(todo[u]) /\ todo[u][k + 1][2] = "addContact" /\ todo[u][k + 1][3] = x
          BY <4>1, <4>4 DEF Line, InPlace
        <5>2. k + 1 \in 1..Len(todo[u])
          BY <4>2, <5>1
        <5> QED
          BY <4>3, <5>1, <5>2
      <4> QED
        BY <4>3, <4>4 DEF AddsTo
    <3>6. ~AddsTo(todo'[t], x)
      BY <1>4, <1>10, <3>1, NoCalls
    <3>7. \A u \in Tasks \ {t} : out[u] # NoWrite => /\ todo[u][1][1] # "contacts"
                                                     /\ todo[u][1][1] # "deleted"
      BY <1>12, <3>1
    <3> QED
      BY <1>10, <3>4, <3>5, <3>6, <3>7
  <2> QED
    BY <2>1, <2>2
<1> QED
  BY <1>16, <1>17, <1>20, <1>22, <1>23 DEF StoreInv
\* The shapes of calls.
LEMMA CallShapes ==
  ASSUME NEW key \in Lists, NEW op \in Ops, NEW a \in Values, NEW b \in Values
  PROVE  /\ <<key, op>> \in StoreCalls /\ <<key, op, a>> \in StoreCalls
         /\ <<key, op, a, b>> \in StoreCalls
BY DEF StoreCalls

\* A handler starts.
LEMMA StartKeeps ==
  ASSUME StoreInv, NEW q, Line(q), NEW ids, Start(q, ids), removed' \subseteq removed,
         \A i \in Created : Makes(q, i) => i \in ids,
         \A x \in removed' : ~AddsTo(q, x)
  PROVE  StoreInv'
<1>1. PICK t \in Tasks : /\ Idle(t) /\ starts < MaxStarts
                         /\ ids \cap used = {}
                         /\ todo' = [todo EXCEPT ![t] = q]
                         /\ used' = used \cup ids
                         /\ starts' = starts + 1
                         /\ UNCHANGED <<disk, out, last, firm, failures>>
  BY DEF Start
<1>2. ~Holds(t)
  BY <1>1 DEF StoreInv, LineInv, Idle
<1>3. starts' \in 0..MaxStarts /\ failures' \in 0..MaxFailures
  BY <1>1, ClientStoreAssumption DEF StoreInv, StoreTypes
<1>4. used \subseteq used' /\ \A i \in Created : Makes(q, i) => i \notin used /\ i \in used'
  BY <1>1
<1>5. out' = out /\ disk' = disk /\ last' = last /\ firm' = firm
  BY <1>1
<1> QED
  BY <1>1, <1>2, <1>3, <1>4, <1>5, CallsKeep

\* A handler that makes one call.
LEMMA OneCallKeeps ==
  ASSUME StoreInv, NEW o \in StoreCalls, GoodCall(o), NEW ids, Start(<<o>>, ids), Stays,
         o[2] # "unmarkContactDeleted", o[2] # "addContact",
         \A i \in Created : Creates(o, i) => i \in ids
  PROVE  StoreInv'
<1>1. PICK q : q = <<o>>
  OBVIOUS
<1>2. Line(q) /\ (\A i : Makes(q, i) <=> Creates(o, i)) /\ \A x : ~AddsTo(q, x)
  BY <1>1, OneCall
<1>3. removed' \subseteq removed /\ Start(q, ids)
  BY <1>1 DEF Stays
<1> QED
  BY <1>2, <1>3, StartKeeps

\* addContact takes the tombstone away first, and ends the removal.
LEMMA AddContactKeeps ==
  ASSUME StoreInv, NEW x \in Contacts, AddContact(x)
  PROVE  StoreInv'
<1>1. PICK o : o = <<"deleted", "unmarkContactDeleted", x>>
  OBVIOUS
<1>2. PICK p : p = <<"contacts", "addContact", x>>
  OBVIOUS
<1>3. PICK q : q = <<o, p>>
  OBVIOUS
<1>4. Start(q, {}) /\ removed' = removed \ {x}
  BY <1>1, <1>2, <1>3 DEF AddContact, Adds
<1>5. o \in StoreCalls /\ p \in StoreCalls
  <2>1. x \in Values
    BY DEF Values, Items
  <2> QED
    BY <1>1, <1>2, <2>1, CallShapes DEF Lists, Ops
<1>6. /\ GoodCall(o) /\ GoodCall(p) /\ \A i : ~Creates(o, i) /\ ~Creates(p, i)
      /\ o[2] = "unmarkContactDeleted" /\ p[2] = "addContact" /\ o[3] = x /\ p[3] = x
  BY <1>1, <1>2 DEF GoodCall, Creates
<1>7. /\ Line(q) /\ \A i \in Created : ~Makes(q, i)
      /\ \A y : AddsTo(q, y) => y = x
  <2>1. o[2] \notin Pulls /\ p[2] \notin Pulls
    BY <1>6 DEF Pulls
  <2> QED
    BY <1>3, <1>5, <1>6, <2>1, TwoCalls
<1> QED
  BY <1>4, <1>7, StartKeeps

\* updateContact changes a contact that is there.
LEMMA UpdateContactKeeps ==
  ASSUME StoreInv, NEW x \in Contacts, UpdateContact(x)
  PROVE  StoreInv'
<1>1. PICK o : o = <<"contacts", "updateContact", x>>
  OBVIOUS
<1>2. Start(<<o>>, {}) /\ Stays
  BY <1>1 DEF UpdateContact
<1>3. o \in StoreCalls
  BY <1>1, CallShapes DEF Lists, Ops, Values, Items
<1>4. GoodCall(o) /\ o[2] = "updateContact" /\ \A i : ~Creates(o, i)
  BY <1>1 DEF GoodCall, Creates
<1> QED
  BY <1>2, <1>3, <1>4, OneCallKeeps

\* deleteContactAndChat marks the contact before it removes it.
LEMMA RemoveContactKeeps ==
  ASSUME StoreInv, NEW x \in Contacts, RemoveContact(x)
  PROVE  StoreInv'
<1>1. PICK o : o = <<"chats", "delete", x>>
  OBVIOUS
<1>2. PICK p : p = <<"deleted", "markContactDeleted", x>>
  OBVIOUS
<1>3. PICK r : r = <<"contacts", "removeContact", x>>
  OBVIOUS
<1>4. PICK q : q = <<o, p, r>>
  OBVIOUS
<1>5. Start(q, {}) /\ removed' = removed
  BY <1>1, <1>2, <1>3, <1>4 DEF RemoveContact, Stays
<1>6. o \in StoreCalls /\ p \in StoreCalls /\ r \in StoreCalls
  <2>1. x \in Values
    BY DEF Values, Items
  <2> QED
    BY <1>1, <1>2, <1>3, <2>1, CallShapes DEF Lists, Ops
<1>7. GoodCall(o) /\ GoodCall(p) /\ GoodCall(r)
  BY <1>1, <1>2, <1>3 DEF GoodCall, Threads, Chats
<1>8. q \in Seq(StoreCalls) /\ Len(q) = 3 /\ q[1] = o /\ q[2] = p /\ q[3] = r
  BY <1>4, <1>6
<1>9. \A k \in 1..Len(q) : k = 1 \/ k = 2 \/ k = 3
  BY <1>8
<1>10. ASSUME NEW k \in 1..Len(q)
       PROVE  /\ InPlace(q, k) /\ q[k][2] \notin {"addContact", "unmarkContactDeleted"}
              /\ \A i : ~Creates(q[k], i)
  <2>1. /\ GoodCall(q[k]) /\ q[k][2] \in {"delete", "markContactDeleted", "removeContact"}
        /\ q[k][2] = "removeContact" => k = Len(q)
    <3>1. o[2] = "delete" /\ p[2] = "markContactDeleted" /\ r[2] = "removeContact"
      BY <1>1, <1>2, <1>3
    <3>2. CASE k = 1
      BY <1>7, <1>8, <3>1, <3>2
    <3>3. CASE k = 2
      BY <1>7, <1>8, <3>1, <3>3
    <3>4. CASE k = 3
      BY <1>7, <1>8, <3>1, <3>4
    <3> QED
      BY <1>9, <3>2, <3>3, <3>4
  <2>2. \A i : ~Creates(q[k], i)
    BY <2>1 DEF Creates
  <2> QED
    BY <2>1, <2>2 DEF InPlace, Pulls
<1>11. Line(q) /\ \A x1 : ~Makes(q, x1) /\ ~AddsTo(q, x1)
  BY <1>8, <1>10 DEF Line, Makes, AddsTo
<1> QED
  BY <1>5, <1>11, StartKeeps

\* syncContacts begins with the contacts on the device.
LEMMA SyncContactsKeeps ==
  ASSUME StoreInv, SyncContacts
  PROVE  StoreInv'
<1>1. PICK o : o = <<"contacts", "pullReadsContacts">>
  OBVIOUS
<1>2. Start(<<o>>, {}) /\ Stays
  BY <1>1 DEF SyncContacts
<1>3. o \in StoreCalls
  BY <1>1 DEF Lists, Ops, StoreCalls
<1>4. GoodCall(o) /\ o[2] = "pullReadsContacts" /\ \A i : ~Creates(o, i)
  BY <1>1 DEF GoodCall, Creates
<1> QED
  BY <1>2, <1>3, <1>4, OneCallKeeps

\* Where the threads of messages are.
LEMMA Places ==
  /\ \A m \in Msgs : /\ m \notin Contacts /\ m \notin Groups /\ m \in Values
                     /\ In[m] \in Contacts \/ In[m] \in Groups
  /\ \A c \in Threads : c \in Values /\ Chats(c) \in Lists
  /\ Talks \subseteq Threads
  /\ Received \subseteq Msgs /\ Sent \subseteq Msgs /\ Received \cap Sent = {}
  /\ Contacts \cap Groups = {}
  /\ {"sending", "sent", "received"} \subseteq Values
BY ClientStoreAssumption DEF Values, Items, Threads, Chats, Lists, Talks, Msgs, Statuses

\* A message of another user is saved in its chat or group.
LEMMA ReceiveMessageKeeps ==
  ASSUME StoreInv, NEW m \in Msgs, ReceiveMessage(m)
  PROVE  StoreInv'
<1>1. m \in Received /\ m \in Values /\ m \notin Created /\ "received" \in Values
  BY Places DEF ReceiveMessage, Created
<1>2. CASE In[m] \in Contacts
  <2>1. PICK o : o = <<"chats", "saveMessage", m, "received">>
    OBVIOUS
  <2>2. Start(<<o>>, {}) /\ Stays
    BY <1>2, <2>1 DEF ReceiveMessage
  <2>3. o \in StoreCalls
    BY <1>1, <2>1, CallShapes DEF Lists, Ops
  <2>4. GoodCall(o) /\ o[2] = "saveMessage" /\ \A i \in Created : ~Creates(o, i)
    BY <1>1, <1>2, <2>1 DEF GoodCall, Creates
  <2> QED
    BY <2>2, <2>3, <2>4, OneCallKeeps
<1>3. CASE In[m] \notin Contacts
  <2>1. PICK o : o = <<"groups", "saveGroupMessage", m, "received">>
    OBVIOUS
  <2>2. Start(<<o>>, {m}) /\ Stays
    BY <1>3, <2>1 DEF ReceiveMessage
  <2>3. o \in StoreCalls
    BY <1>1, <2>1, CallShapes DEF Lists, Ops
  <2>4. GoodCall(o) /\ o[2] = "saveGroupMessage" /\ \A i \in Created : ~Creates(o, i)
    BY <1>1, <1>3, <2>1, Places DEF GoodCall, Creates
  <2> QED
    BY <2>2, <2>3, <2>4, OneCallKeeps
<1> QED
  BY <1>2, <1>3

\* A message of this user is saved, with an id of its own, before its status changes.
LEMMA SendMessageKeeps ==
  ASSUME StoreInv, NEW m \in Msgs, NEW taken \in BOOLEAN, SendMessage(m, taken)
  PROVE  StoreInv'
<1>1. /\ m \in Sent /\ m \notin Received /\ m \in Values /\ "sending" \in Values
      /\ "sent" \in Values
  BY Places DEF SendMessage
<1>2. CASE In[m] \in Contacts
  <2>1. PICK o : o = <<"chats", "saveMessage", m, "sending">>
    OBVIOUS
  <2>2. PICK p : p = <<"chats", "updateMessageStatus", m, "sent">>
    OBVIOUS
  <2>3. Stays /\ (Start(<<o, p>>, {m}) \/ Start(<<o>>, {m}))
    BY <1>2, <2>1, <2>2 DEF SendMessage
  <2>4. o \in StoreCalls /\ p \in StoreCalls
    BY <1>1, <2>1, <2>2, CallShapes DEF Lists, Ops
  <2>5. /\ GoodCall(o) /\ GoodCall(p) /\ o[2] = "saveMessage" /\ p[2] = "updateMessageStatus"
        /\ \A i : Creates(o, i) <=> i = m
        /\ \A i : ~Creates(p, i)
    BY <1>1, <1>2, <2>1, <2>2 DEF GoodCall, Creates
  <2>6. CASE Start(<<o, p>>, {m})
    <3>1. PICK q : q = <<o, p>>
      OBVIOUS
    <3>2. o[2] \notin Pulls /\ p[2] \notin Pulls
      BY <2>5 DEF Pulls
    <3>3. /\ Line(q) /\ \A i \in Created : Makes(q, i) <=> Creates(o, i)
          /\ \A x : ~AddsTo(q, x)
      BY <2>4, <2>5, <3>1, <3>2, TwoCalls
    <3>4. removed' \subseteq removed /\ Start(q, {m})
      BY <2>3, <2>6, <3>1 DEF Stays
    <3> QED
      BY <2>5, <3>3, <3>4, StartKeeps
  <2>7. CASE Start(<<o>>, {m})
    BY <2>3, <2>4, <2>5, <2>7, OneCallKeeps
  <2> QED
    BY <2>3, <2>6, <2>7
<1>3. CASE In[m] \notin Contacts
  <2>1. PICK o : o = <<"groups", "saveGroupMessage", m, "sent">>
    OBVIOUS
  <2>2. Start(<<o>>, {m}) /\ Stays
    BY <1>3, <2>1 DEF SendMessage
  <2>3. o \in StoreCalls
    BY <1>1, <2>1, CallShapes DEF Lists, Ops
  <2>4. GoodCall(o) /\ o[2] = "saveGroupMessage" /\ \A i : ~Creates(o, i)
    BY <1>1, <1>3, <2>1, Places DEF GoodCall, Creates
  <2> QED
    BY <2>2, <2>3, <2>4, OneCallKeeps
<1> QED
  BY <1>2, <1>3

\* deleteMessage is made for a message of a chat.
LEMMA DeleteMessageKeeps ==
  ASSUME StoreInv, NEW m \in Msgs, DeleteMessage(m)
  PROVE  StoreInv'
<1>1. PICK o : o = <<"chats", "deleteMessage", m>>
  OBVIOUS
<1>2. Start(<<o>>, {}) /\ Stays /\ In[m] \in Contacts
  BY <1>1 DEF DeleteMessage
<1>3. o \in StoreCalls
  BY <1>1, Places, CallShapes DEF Lists, Ops
<1>4. GoodCall(o) /\ o[2] = "deleteMessage" /\ \A i : ~Creates(o, i)
  BY <1>1, <1>2 DEF GoodCall, Creates
<1> QED
  BY <1>2, <1>3, <1>4, OneCallKeeps

\* The cleanup of a thread is about messages of that thread.
LEMMA OpenThreadKeeps ==
  ASSUME StoreInv, NEW c \in Talks, NEW ms \in SUBSET Expiring, OpenThread(c, ms)
  PROVE  StoreInv'
<1>1. c \in Threads /\ c \in Values /\ Chats(c) \in Lists
  BY Places
<1>2. ms \subseteq {m \in Msgs : In[m] = c} /\ ms \in Values
  <2>1. Expiring \subseteq Msgs
    BY ClientStoreAssumption DEF Msgs
  <2> QED
    BY <2>1 DEF OpenThread, Values, Items
<1>3. PICK o : o = <<Chats(c), "cleanupExpired", c, ms>>
  OBVIOUS
<1>4. PICK p : p = <<"chats", "markChatAsRead", c>>
  OBVIOUS
<1>5. Stays /\ ((c \in Contacts /\ Start(<<o, p>>, {})) \/ Start(<<o>>, {}))
  BY <1>3, <1>4 DEF OpenThread
<1>6. o \in StoreCalls /\ p \in StoreCalls
  BY <1>1, <1>2, <1>3, <1>4, CallShapes DEF Lists, Ops
<1>7. /\ GoodCall(o) /\ o[2] = "cleanupExpired" /\ p[2] = "markChatAsRead"
      /\ c \in Contacts => GoodCall(p)
      /\ \A i : ~Creates(o, i) /\ ~Creates(p, i)
  BY <1>1, <1>2, <1>3, <1>4 DEF GoodCall, Creates
<1>8. CASE c \in Contacts /\ Start(<<o, p>>, {})
  <2>1. PICK q : q = <<o, p>>
    OBVIOUS
  <2>2. o[2] \notin Pulls /\ p[2] \notin Pulls
    BY <1>7 DEF Pulls
  <2>3. /\ Line(q) /\ \A i \in Created : ~Makes(q, i)
        /\ \A x : ~AddsTo(q, x)
    BY <1>6, <1>7, <1>8, <2>1, <2>2, TwoCalls
  <2>4. removed' \subseteq removed /\ Start(q, {})
    BY <1>5, <1>8, <2>1 DEF Stays
  <2> QED
    BY <2>3, <2>4, StartKeeps
<1>9. CASE Start(<<o>>, {})
  BY <1>5, <1>6, <1>7, <1>9, OneCallKeeps
<1> QED
  BY <1>5, <1>8, <1>9

\* Archiving, unarchiving and deleting are about one thread.
LEMMA ChangeThreadKeeps ==
  ASSUME StoreInv, NEW c \in Talks, NEW op \in {"archive", "unarchive", "delete"},
         ChangeThread(c, op)
  PROVE  StoreInv'
<1>1. c \in Threads /\ c \in Values /\ Chats(c) \in Lists
  BY Places
<1>2. PICK o : o = <<Chats(c), op, c>>
  OBVIOUS
<1>3. Start(<<o>>, {}) /\ Stays
  BY <1>2 DEF ChangeThread
<1>4. o \in StoreCalls
  <2>1. op \in Ops
    BY DEF Ops
  <2> QED
    BY <1>1, <1>2, <2>1, CallShapes
<1>5. GoodCall(o) /\ o[2] = op /\ \A i : ~Creates(o, i)
  BY <1>1, <1>2 DEF GoodCall, Creates
<1> QED
  BY <1>3, <1>4, <1>5, OneCallKeeps

\* A group is created, with an id of its own, before its members are added.
LEMMA CreateGroupKeeps ==
  ASSUME StoreInv, NEW g \in Groups, NEW us \in SUBSET Contacts, CreateGroup(g, us)
  PROVE  StoreInv'
<1> DEFINE seq == SetToSeq(us)
           r == [i \in DOMAIN seq |-> <<"groups", "addGroupMember", g, seq[i]>>]
<1>1. PICK o : o = <<"groups", "createGroup", g>>
  OBVIOUS
<1>2. PICK q : q = <<o>> \o r
  OBVIOUS
<1>3. Start(q, {g}) /\ removed' = removed
  BY <1>1, <1>2 DEF CreateGroup, Stays
<1>4. g \in Values /\ \A u \in Contacts : u \in Values
  BY DEF Values, Items
<1>5. seq \in Seq(us)
  <2>1. IsFiniteSet(us)
    BY FS_Subset, ClientStoreAssumption
  <2> QED
    BY <2>1, SetSequence
<1> HIDE DEF seq
<1>6. Len(seq) \in Nat /\ DOMAIN seq = 1..Len(seq) /\ \A i \in 1..Len(seq) : seq[i] \in us
  BY <1>5, SeqDomain
<1>7. \A i \in 1..Len(seq) : r[i] = <<"groups", "addGroupMember", g, seq[i]>> /\ r[i] \in StoreCalls
  <2>1. ASSUME NEW i \in 1..Len(seq)
        PROVE  <<"groups", "addGroupMember", g, seq[i]>> \in StoreCalls
    <3>1. seq[i] \in Values
      BY <1>4, <1>6
    <3> QED
      BY <1>4, <3>1, CallShapes DEF Lists, Ops
  <2> QED
    BY <1>6, <2>1
<1>8. r \in Seq(StoreCalls) /\ Len(r) = Len(seq)
  <2>1. r \in [1..Len(seq) -> StoreCalls]
    BY <1>6, <1>7
  <2> HIDE DEF r
  <2> QED
    BY <1>6, <2>1
<1> HIDE DEF r
<1>9. o \in StoreCalls
  BY <1>1, <1>4, CallShapes DEF Lists, Ops
<1>10. /\ q \in Seq(StoreCalls) /\ Len(q) = 1 + Len(seq)
       /\ q[1] = o /\ \A k \in 1..Len(q) : k # 1 => k - 1 \in 1..Len(seq) /\ q[k] = r[k - 1]
  <2>1. <<o>> \in Seq(StoreCalls) /\ Len(<<o>>) = 1 /\ <<o>>[1] = o
    BY <1>9
  <2>2. /\ q \in Seq(StoreCalls) /\ Len(q) = 1 + Len(seq)
        /\ \A k \in 1..(1 + Len(seq)) : q[k] = IF k <= 1 THEN <<o>>[k] ELSE r[k - 1]
    BY <1>2, <1>8, <2>1, ConcatProperties
  <2> QED
    BY <1>6, <2>1, <2>2
<1>11. ASSUME NEW k \in 1..Len(q), k # 1
       PROVE  /\ GoodCall(q[k]) /\ q[k][2] = "addGroupMember"
              /\ \A i : ~Creates(q[k], i)
  <2>1. k - 1 \in 1..Len(seq) /\ q[k] = <<"groups", "addGroupMember", g, seq[k - 1]>>
    BY <1>7, <1>10, <1>11
  <2>2. seq[k - 1] \in Contacts
    BY <1>6, <2>1
  <2> QED
    BY <2>1, <2>2 DEF GoodCall, Creates
<1>12. GoodCall(o) /\ o[2] = "createGroup" /\ \A i : Creates(o, i) <=> i = g
  BY <1>1 DEF GoodCall, Creates
<1>13. \A k \in 1..Len(q) :
         /\ InPlace(q, k) /\ q[k][2] \notin {"addContact", "unmarkContactDeleted"}
         /\ \A i : Creates(q[k], i) => i = g
  BY <1>10, <1>11, <1>12 DEF InPlace, Pulls
<1>14. Line(q) /\ (\A i : Makes(q, i) => i = g) /\ \A x : ~AddsTo(q, x)
  BY <1>10, <1>13 DEF Line, Makes, AddsTo
<1> QED
  BY <1>3, <1>14, StartKeeps

\* Leaving a group takes this user from its members.
LEMMA LeaveGroupKeeps ==
  ASSUME StoreInv, NEW g \in Groups, LeaveGroup(g)
  PROVE  StoreInv'
<1>1. PICK o : o = <<"groups", "removeGroupMember", g, Me>>
  OBVIOUS
<1>2. Start(<<o>>, {}) /\ Stays
  BY <1>1 DEF LeaveGroup
<1>3. o \in StoreCalls
  BY <1>1, CallShapes DEF Lists, Ops, Values, Items
<1>4. GoodCall(o) /\ o[2] = "removeGroupMember" /\ \A i : ~Creates(o, i)
  BY <1>1 DEF GoodCall, Creates
<1> QED
  BY <1>2, <1>3, <1>4, OneCallKeeps
\* clearAllData: what was held before it is not firm any more.
LEMMA ClearAllDataKeeps ==
  ASSUME StoreInv, ClearAllData
  PROVE  StoreInv'
<1>1. /\ disk' = Empty /\ last' = [i \in Items |-> "absent"]
      /\ firm' = {i \in Items : \A t \in Tasks : out[t] = NoWrite}
      /\ removed' = {} /\ starts' \in 0..MaxStarts
      /\ todo' = todo /\ out' = out /\ used' = used /\ failures' = failures
  BY ClientStoreAssumption DEF ClearAllData, StoreInv, StoreTypes
<1>2. StoreTypes'
  BY <1>1 DEF StoreInv, StoreTypes, Statuses
<1>3. LineInv'
  BY <1>1 DEF StoreInv, LineInv, Holds
<1>4. FirmInv'
  <2>1. \A i \in firm' : i \in Items /\ last'[i] = "absent"
    BY <1>1
  <2>2. \A i \in firm' : IsSo(disk'[KeyOf(i)], i, last'[i])
    BY <1>1, <2>1, EmptyLists
  <2>3. ASSUME NEW t \in Tasks, out[t] # NoWrite
        PROVE  HeldAs(todo[t][1], out[t], firm', last')
    <3>1. firm' = {}
      BY <1>1, <2>3
    <3> QED
      BY <2>3, <3>1 DEF StoreInv, FirmInv, Holds, HeldAs
  <2> QED
    BY <1>1, <2>2, <2>3, EmptyLists DEF FirmInv, Holds
<1>5. \A i \in Created : Nowhere(i) => Nowhere(i)'
  BY <1>1, EmptyLists, CreatedItems DEF Nowhere, Holds
<1>6. OnceInv'
  <2>1. \A t \in Tasks : Holds(t)' <=> Holds(t)
    BY <1>1 DEF Holds
  <2> QED
    BY <1>1, <1>5, <2>1 DEF StoreInv, OnceInv
<1>7. RemovedInv'
  BY <1>1 DEF RemovedInv
<1> QED
  BY <1>2, <1>3, <1>4, <1>6, <1>7 DEF StoreInv

\* The end of the app: nothing is held and no call is left.
LEMMA KillKeeps ==
  ASSUME StoreInv, Kill
  PROVE  StoreInv'
<1>1. /\ todo' = [t \in Tasks |-> <<>>] /\ out' = [t \in Tasks |-> NoWrite]
      /\ disk' = disk /\ last' = last /\ firm' = firm /\ removed' = removed
      /\ starts' = starts /\ used' = used /\ failures' = failures
  BY DEF Kill
<1>2. StoreTypes'
  BY <1>1 DEF StoreInv, StoreTypes
<1>3. LineInv'
  BY <1>1, NoCalls DEF LineInv, Holds
<1>4. FirmInv'
  BY <1>1 DEF StoreInv, FirmInv, Holds
<1>5. \A i : Nowhere(i) => Nowhere(i)'
  BY <1>1 DEF Nowhere, Holds
<1>6. OnceInv'
  BY <1>1, <1>5, NoCalls DEF StoreInv, OnceInv
<1>7. RemovedInv'
  BY <1>1, NoCalls DEF StoreInv, RemovedInv, Holds
<1> QED
  BY <1>2, <1>3, <1>4, <1>6, <1>7 DEF StoreInv

\* The invariant before the first handler.
LEMMA InitStore == Init => StoreInv
<1> SUFFICES ASSUME Init
             PROVE  StoreInv
  OBVIOUS
<1>1. StoreTypes
  BY ClientStoreAssumption DEF Init, StoreTypes, Statuses
<1>2. LineInv
  BY NoCalls DEF Init, LineInv, Holds
<1>3. \A t \in Tasks : ~Holds(t)
  BY DEF Init, Holds
<1>4. FirmInv
  BY <1>3, EmptyLists DEF Init, FirmInv
<1>5. OnceInv
  BY <1>3, EmptyLists, CreatedItems, NoCalls DEF Init, OnceInv, Nowhere
<1>6. RemovedInv
  BY DEF Init, RemovedInv
<1> QED
  BY <1>1, <1>2, <1>4, <1>5, <1>6 DEF StoreInv

\* Every step keeps it.
LEMMA StoreStep == StoreInv /\ [Next]_vars => StoreInv'
<1> SUFFICES ASSUME StoreInv, [Next]_vars
             PROVE  StoreInv'
  OBVIOUS
<1>1. ASSUME NEW t \in Tasks, GetItem(t)
      PROVE  StoreInv'
  BY <1>1, GetItemKeeps
<1>2. ASSUME NEW t \in Tasks, SetItem(t)
      PROVE  StoreInv'
  BY <1>2, SetItemKeeps
<1>3. ASSUME NEW x \in Contacts, AddContact(x) \/ UpdateContact(x) \/ RemoveContact(x)
      PROVE  StoreInv'
  BY <1>3, AddContactKeeps, UpdateContactKeeps, RemoveContactKeeps
<1>4. CASE SyncContacts
  BY <1>4, SyncContactsKeeps
<1>5. ASSUME NEW m \in Msgs, ReceiveMessage(m) \/ DeleteMessage(m)
      PROVE  StoreInv'
  BY <1>5, ReceiveMessageKeeps, DeleteMessageKeeps
<1>6. ASSUME NEW m \in Msgs, NEW taken \in BOOLEAN, SendMessage(m, taken)
      PROVE  StoreInv'
  BY <1>6, SendMessageKeeps
<1>7. ASSUME NEW c \in Talks, NEW ms \in SUBSET Expiring, OpenThread(c, ms)
      PROVE  StoreInv'
  BY <1>7, OpenThreadKeeps
<1>8. ASSUME NEW c \in Talks, NEW op \in {"archive", "unarchive", "delete"}, ChangeThread(c, op)
      PROVE  StoreInv'
  BY <1>8, ChangeThreadKeeps
<1>9. ASSUME NEW g \in Groups, NEW us \in SUBSET Contacts, CreateGroup(g, us)
      PROVE  StoreInv'
  BY <1>9, CreateGroupKeeps
<1>10. ASSUME NEW g \in Groups, LeaveGroup(g)
       PROVE  StoreInv'
  BY <1>10, LeaveGroupKeeps
<1>11. CASE ClearAllData
  BY <1>11, ClearAllDataKeeps
<1>12. CASE Kill
  BY <1>12, KillKeeps
<1>13. CASE UNCHANGED vars
  BY <1>13 DEF vars, StoreInv, StoreTypes, LineInv, FirmInv, OnceInv, RemovedInv, Holds, Nowhere
<1> QED
  BY <1>1, <1>2, <1>3, <1>4, <1>5, <1>6, <1>7, <1>8, <1>9, <1>10, <1>11, <1>12, <1>13 DEF Next

\* What is so on the disk is shown.
LEMMA ShowsDisk ==
  ASSUME GoodDisk(disk), NEW i \in Items, NEW v, IsSo(disk[KeyOf(i)], i, v)
  PROVE  Shown(i) = v
<1>1. CASE i \in Contacts
  BY <1>1 DEF IsSo, Shown, KeyOf
<1>2. CASE i \notin Contacts
  <2>1. i \in Groups \cup Msgs
    BY <1>2 DEF Items
  <2>2. Place(i) \in Threads /\ KeyOf(i) = Chats(Place(i))
    BY <2>1, ThreadKeys
  <2>3. /\ GoodThread(Place(i), Thread(disk, Place(i)))
        /\ Thread(disk, Place(i)) = disk[KeyOf(i)][Place(i)]
    BY <2>2, DiskThread
  <2>4. SoIn(Thread(disk, Place(i)), i, v)
    BY <1>2, <2>3 DEF IsSo
  <2>5. CASE i \in Groups
    BY <1>2, <2>4, <2>5 DEF SoIn, Shown, NoSuch, Place
  <2>6. CASE i \notin Groups
    <3> DEFINE p == {q \in Thread(disk, In[i]).msgs : q[1] = i}
    <3>1. Shown(i) = IF p = {} THEN "absent" ELSE (CHOOSE q \in p : TRUE)[2]
      BY <1>2, <2>6 DEF Shown
    <3>2. Place(i) = In[i]
      BY <2>6 DEF Place
    <3>3. i \in Ids(Thread(disk, In[i]).msgs) <=> p # {}
      BY DEF Ids
    <3>4. \A q \in p : q \in Thread(disk, In[i]).msgs /\ q[1] = i
      OBVIOUS
    <3>5. <<i, v>> \in Thread(disk, In[i]).msgs => \A q \in p : q[2] = v
      <4>1. <<i, v>>[1] = i /\ <<i, v>>[2] = v
        OBVIOUS
      <4> QED
        BY <2>3, <3>2, <3>4, <4>1 DEF GoodThread
    <3> HIDE DEF p
    <3>6. p # {} => (CHOOSE q \in p : TRUE) \in p
      OBVIOUS
    <3> QED
      BY <2>4, <2>6, <3>1, <3>2, <3>3, <3>5, <3>6 DEF SoIn
  <2> QED
    BY <2>5, <2>6
<1> QED
  BY <1>1, <1>2

\* The properties follow from it.
LEMMA StoreFacts == StoreInv => TypeOK /\ ChangesLast /\ RemovalHolds
<1> SUFFICES ASSUME StoreInv
             PROVE  TypeOK /\ ChangesLast /\ RemovalHolds
  OBVIOUS
<1>1. GoodDisk(disk) /\ StoreTypes
  BY DEF StoreInv, FirmInv
<1>2. ChangesLast
  BY <1>1, ShowsDisk DEF StoreInv, FirmInv, StoreTypes, ChangesLast
<1>3. RemovalHolds
  BY DEF StoreInv, RemovedInv, RemovalHolds
<1>4. DOMAIN disk = DOMAIN Empty
  BY <1>1, EmptyLists DEF GoodDisk
<1>5. /\ disk.contacts \subseteq Contacts /\ disk.deleted \subseteq Contacts
      /\ disk.chats \in [Contacts -> ThreadType] /\ disk.groups \in [Groups -> ThreadType]
  BY <1>1 DEF GoodDisk, GoodList, Lists, KeptUnder
<1>6. \A c \in Threads : NoSuch(disk, c) => Thread(disk, c) = NoThread
  BY <1>1, DiskThread DEF NoSuch, GoodThread
<1>7. \A t \in Tasks : Idle(t) => out[t] = NoWrite
  BY DEF StoreInv, LineInv, Idle, Holds
<1> QED
  BY <1>1, <1>2, <1>3, <1>4, <1>5, <1>6, <1>7 DEF TypeOK, StoreTypes

\* The invariant, for the theorems below.
LEMMA StoreInvariant == Spec => []StoreInv
BY InitStore, StoreStep, PTL DEF Spec

\* The lists on the device and the lists that calls will write have their types, a chat or group
\* that is not there is empty, and only a call that is being made holds a list.
THEOREM StoreTypeOK == Spec => []TypeOK
<1>1. StoreInv => TypeOK
  BY StoreFacts
<1> QED
  BY <1>1, StoreInvariant, PTL

\* What the last call about a contact, group or message meant it to be lasts as long as no other
\* call held an older list then and no read of that list fails.
THEOREM ChangesAlwaysLast == Spec => []ChangesLast
<1>1. StoreInv => ChangesLast
  BY StoreFacts
<1> QED
  BY <1>1, StoreInvariant, PTL

\* A contact that was deleted while nobody else was changing the contacts stays away and keeps its
\* tombstone until it is added again.
THEOREM RemovalAlwaysHolds == Spec => []RemovalHolds
<1>1. StoreInv => RemovalHolds
  BY StoreFacts
<1> QED
  BY <1>1, StoreInvariant, PTL

-----------------------------------------------------------------------------
(***************************************************************************)
(* DesktopTor: the inductive invariant                                     *)
(***************************************************************************)

\* A call of tor:enable or tor:disable.
Calls == [kind : {"enable", "disable"},
          pc : {"check", "download", "boot", "proxy", "ok", "failed", "done", "past"},
          screen : {"settings", "onboarding", "none"},
          proc : {"none", "running", "killed", "gone"}, said : BOOLEAN]

\* The stored torSettings.
Settings == [enabled : BOOLEAN, status : {"disconnected", "connecting", "connected", "error"}]

\* The variables ShownIsSo is about have their types.
Types ==
  /\ call \in Seq(Calls) /\ waiting \in Seq(Nat)
  /\ proxy \in {"direct", "tor"} /\ torEnabled \in BOOLEAN
  /\ settings \in Settings /\ onboarded \in BOOLEAN /\ listening \in BOOLEAN
  /\ clean \in BOOLEAN /\ heard \in BOOLEAN

\* Only a call to enable looks for a Tor, downloads one or waits for it.
KindInv == \A i \in DOMAIN call : call[i].pc \in {"check", "download", "boot"}
                                    => call[i].kind = "enable"

\* What waits for setProxy is calls that are there for it, each once.
WaitInv ==
  /\ \A k \in DOMAIN waiting : waiting[k] \in DOMAIN call /\ call[waiting[k]].pc = "proxy"
  /\ \A k, l \in DOMAIN waiting : waiting[k] = waiting[l] => k = l

\* torEnabled is what the proxy is when nobody waits for it; otherwise the proxy is what the call
\* that waits last wants.
ProxyInv ==
  /\ waiting = <<>> => (torEnabled <=> proxy = "tor")
  /\ waiting # <<>> => (proxy = "tor" <=> call[waiting[Len(waiting)]].kind = "enable")

\* The last call that was made.
LastCall == call[Len(call)]

\* The calls of an earlier app come before those of the present one.
PastInv == \A i, j \in DOMAIN call : i < j /\ call[j].pc = "past" => call[i].pc = "past"

\* The present app has had no call.
None == Len(call) = 0 \/ LastCall.pc = "past"

\* The onboarding waits for its call, so that this is the last one; the settings screen, which
\* listens, is shown afterwards.
OnboardInv ==
  /\ \A i \in DOMAIN call : call[i].screen = "onboarding" /\ call[i].pc \notin {"done", "past"}
                              => i = Len(call) /\ ~onboarded
  /\ ~onboarded => ~listening

\* An app without a call has the proxy off; otherwise, if the last call began alone, no other
\* one is pending and the settings are what that call wanted.
CleanInv ==
  /\ None => ~torEnabled /\ proxy = "direct" /\ ~heard
  /\ clean /\ ~None =>
      /\ \A j \in DOMAIN call : j # Len(call) => ~Pending(j)
      /\ settings.enabled <=> LastCall.kind = "enable"
      /\ LastCall.kind = "disable" => proxy = "direct"

\* If it is a call to enable Tor and the window that made it is there, the screen shows
\* "connected" after its answer only if Tor is on.
HeardInv ==
  clean /\ heard /\ ~None /\ LastCall.kind = "enable" =>
    /\ LastCall.pc = "ok" => torEnabled
    /\ LastCall.pc = "done" => ~listening /\ (settings.status = "connected" => torEnabled)
    /\ LastCall.pc # "done" => /\ LastCall.screen # "none"
                               /\ LastCall.screen = "onboarding" => settings.status # "connected"

\* Everything ShownIsSo rests on.
ShownInv ==
  /\ Types /\ KindInv /\ WaitInv /\ ProxyInv
  /\ PastInv /\ OnboardInv /\ CleanInv /\ HeardInv

-----------------------------------------------------------------------------
(***************************************************************************)
(* DesktopTor: the steps, by what they do to a call                        *)
(***************************************************************************)

\* The calls stay, for what they are.
Keeps ==
  /\ call' \in Seq(Calls) /\ Len(call') = Len(call) /\ DOMAIN call' = DOMAIN call
  /\ \A j \in DOMAIN call : call'[j].kind = call[j].kind

\* An event of Tor changes the settings only while the settings screen listens, and then only
\* what it shows of the connection.
Tells ==
  /\ settings' \in Settings /\ settings'.enabled = settings.enabled
  /\ settings' = settings \/ listening

\* A call to enable goes on before it comes to the proxy, or fails there.
Proceeds ==
  /\ Keeps /\ Tells
  /\ \A j \in DOMAIN call :
       /\ call'[j].screen = call[j].screen
       /\ \/ call'[j].pc = call[j].pc
          \/ /\ call[j].pc \in {"check", "download", "boot"}
             /\ call'[j].pc \in {"download", "boot", "failed"}
  /\ UNCHANGED <<waiting, proxy, torEnabled, onboarded, listening, clean, heard>>

\* Call i comes to the proxy.
ComesToProxy(i) ==
  /\ Keeps /\ Tells
  /\ i \in DOMAIN call /\ call[i].pc \in {"check", "boot"} /\ call'[i].pc = "proxy"
  /\ \A j \in DOMAIN call :
       call'[j].screen = call[j].screen /\ (j # i => call'[j].pc = call[j].pc)
  /\ proxy' = "tor" /\ waiting' = Append(waiting, i)
  /\ UNCHANGED <<torEnabled, onboarded, listening, clean, heard>>

\* Call i has its answer: the settings screen learns of a failure, the onboarding of success.
Answers(i) ==
  /\ Keeps /\ settings' \in Settings /\ settings'.enabled = settings.enabled
  /\ i \in DOMAIN call /\ call[i].pc \in {"ok", "failed"} /\ call'[i].pc = "done"
  /\ \A j \in DOMAIN call :
       call'[j].screen = call[j].screen /\ (j # i => call'[j].pc = call[j].pc)
  /\ onboarded' \in BOOLEAN /\ (onboarded => onboarded')
  /\ listening' = FALSE \/ (call[i].kind # "enable" /\ listening' = listening)
  /\ \/ /\ call[i].pc = "ok"
        /\ \/ settings' = settings /\ onboarded' = onboarded
           \/ call[i].screen = "onboarding"
     \/ /\ call[i].pc = "failed" /\ onboarded' = onboarded
        /\ IF call[i].screen = "settings" THEN settings'.status = "error" ELSE settings' = settings
  /\ UNCHANGED <<waiting, proxy, torEnabled, clean, heard>>

\* A screen calls tor:enable.
Enables(screen) ==
  /\ \E c \in Calls : /\ c.kind = "enable" /\ c.pc = "check" /\ c.screen = screen
                      /\ call' = Append(call, c)
  /\ settings' = [enabled |-> TRUE, status |-> "connecting"]
  /\ clean' = (\A j \in DOMAIN call : ~Pending(j)) /\ heard' = TRUE
  /\ IF screen = "settings" THEN onboarded /\ listening' = TRUE
     ELSE /\ screen = "onboarding" /\ ~onboarded /\ listening' = listening
          /\ \A j \in DOMAIN call : call[j].screen = "onboarding" => call[j].pc \in {"done", "past"}
  /\ UNCHANGED <<waiting, proxy, torEnabled, onboarded>>

\* The settings screen calls tor:disable.
Disables ==
  /\ \E c \in Calls : /\ c.kind = "disable" /\ c.pc = "proxy" /\ c.screen = "settings"
                      /\ call' = Append(call, c)
  /\ settings' = Off /\ proxy' = "direct" /\ waiting' = Append(waiting, Len(call) + 1)
  /\ clean' = (\A j \in DOMAIN call : ~Pending(j)) /\ heard' = TRUE
  /\ onboarded /\ UNCHANGED <<torEnabled, onboarded, listening>>

\* The proxy answers the call that waits first.
ProxyAnswers ==
  /\ Keeps /\ waiting # <<>> /\ waiting' = Tail(waiting)
  /\ call'[waiting[1]].pc = "ok"
  /\ \A j \in DOMAIN call :
       call'[j].screen = call[j].screen /\ (j # waiting[1] => call'[j].pc = call[j].pc)
  /\ torEnabled' = (call[waiting[1]].kind = "enable")
  /\ UNCHANGED <<proxy, settings, onboarded, listening, clean, heard>>

\* The window is there anew.
Reloads ==
  /\ Keeps
  /\ \A j \in DOMAIN call :
       /\ call'[j].screen = "none"
       /\ call'[j].pc = IF call[j].pc \in {"ok", "failed"} THEN "done" ELSE call[j].pc
  /\ listening' = FALSE
  /\ \/ settings' = settings /\ onboarded' = onboarded /\ clean' = clean
        /\ heard' = (heard /\ Quiet)
     \/ settings' = Off /\ onboarded' = FALSE /\ clean' = FALSE /\ heard' = heard
  /\ UNCHANGED <<waiting, proxy, torEnabled>>

\* The app is there anew.
Restarts ==
  /\ Keeps /\ \A j \in DOMAIN call : call'[j].pc = "past"
  /\ proxy' = "direct" /\ torEnabled' = FALSE /\ waiting' = <<>>
  /\ listening' = FALSE /\ clean' = TRUE /\ heard' = FALSE
  /\ UNCHANGED <<settings, onboarded>>

-----------------------------------------------------------------------------
(***************************************************************************)
(* DesktopTor: each of them keeps the invariant                            *)
(***************************************************************************)

\* What the types of the calls say of one of them.
LEMMA CallTypes ==
  ASSUME Types
  PROVE  /\ Len(call) \in Nat /\ DOMAIN call = 1..Len(call) /\ call \in [DOMAIN call -> Calls]
         /\ \A i \in 1..Len(call) : call[i] \in Calls
         /\ \A i \in DOMAIN call : call[i] \in Calls
         /\ Len(waiting) \in Nat /\ DOMAIN waiting = 1..Len(waiting)
         /\ \A k \in 1..Len(waiting) : waiting[k] \in Nat
         /\ waiting = <<>> <=> Len(waiting) = 0
<1>1. call \in Seq(Calls) /\ waiting \in Seq(Nat)
  BY DEF Types
<1> HIDE DEF Types, Calls
<1>2. /\ Len(call) \in Nat /\ DOMAIN call = 1..Len(call)
      /\ \A i \in 1..Len(call) : call[i] \in Calls
      /\ call \in [DOMAIN call -> Calls]
  BY <1>1, SeqDomain
<1> QED
  BY <1>1, <1>2, SeqDomain

\* An app without a call has nothing that waits for the proxy.
LEMMA NoneWaits ==
  ASSUME ShownInv, None
  PROVE  waiting = <<>>
<1>1. DOMAIN call = 1..Len(call) /\ Len(call) \in Nat
  BY CallTypes DEF ShownInv
<1>2. \A i \in DOMAIN call : call[i].pc = "past"
  BY <1>1 DEF ShownInv, PastInv, None, LastCall
<1>3. \A k \in DOMAIN waiting : FALSE
  BY <1>2 DEF ShownInv, WaitInv
<1> QED
  BY <1>3, CallTypes DEF ShownInv

\* A call to enable goes on.
LEMMA ProceedsKeeps ==
  ASSUME ShownInv, Proceeds
  PROVE  ShownInv'
<1> USE DEF Proceeds, Keeps, Tells
<1>1. DOMAIN call = 1..Len(call) /\ Len(call) \in Nat /\ Len(waiting) \in Nat
      /\ DOMAIN waiting = 1..Len(waiting) /\ (waiting = <<>> <=> Len(waiting) = 0)
  BY CallTypes DEF ShownInv
<1>2. Types'
  BY DEF ShownInv, Types
<1>3. KindInv'
  BY DEF ShownInv, KindInv
<1>4. WaitInv'
  BY DEF ShownInv, WaitInv
<1>5. ProxyInv'
  BY <1>1 DEF ShownInv, ProxyInv, WaitInv
<1>6. PastInv'
  BY <1>1 DEF ShownInv, PastInv
<1>7. OnboardInv'
  BY <1>1 DEF ShownInv, OnboardInv
<1>8. None' <=> None
  BY <1>1 DEF None, LastCall
<1>9. CleanInv'
  BY <1>1, <1>8 DEF ShownInv, CleanInv, LastCall, None, Pending
<1>10. HeardInv'
  BY <1>1, <1>8 DEF ShownInv, HeardInv, LastCall, None, OnboardInv
<1> QED
  BY <1>2, <1>3, <1>4, <1>5, <1>6, <1>7, <1>9, <1>10 DEF ShownInv

\* Call i comes to the proxy.
LEMMA ComesToProxyKeeps ==
  ASSUME ShownInv, NEW i, ComesToProxy(i)
  PROVE  ShownInv'
<1> USE DEF ComesToProxy, Keeps, Tells
<1>1. DOMAIN call = 1..Len(call) /\ Len(call) \in Nat /\ Len(waiting) \in Nat
      /\ DOMAIN waiting = 1..Len(waiting) /\ (waiting = <<>> <=> Len(waiting) = 0)
  BY CallTypes DEF ShownInv
<1>2. /\ waiting' \in Seq(Nat) /\ Len(waiting') = Len(waiting) + 1
      /\ DOMAIN waiting' = 1..(Len(waiting) + 1) /\ waiting' # <<>>
      /\ \A k \in 1..Len(waiting) : waiting'[k] = waiting[k]
      /\ waiting'[Len(waiting) + 1] = i
      /\ call[i].kind = "enable"
  <2>1. i \in Nat /\ waiting \in Seq(Nat)
    BY <1>1 DEF ShownInv, Types
  <2>2. call[i].kind = "enable"
    BY DEF ShownInv, KindInv
  <2> HIDE DEF ShownInv
  <2> QED
    BY <2>1, <2>2, Appended
<1>3. Types'
  BY <1>1, <1>2 DEF ShownInv, Types
<1>4. KindInv'
  BY <1>1, <1>2 DEF ShownInv, KindInv
<1>5. WaitInv'
  <2>1. \A k \in 1..Len(waiting) : /\ waiting[k] \in DOMAIN call /\ call[waiting[k]].pc = "proxy"
                                  /\ waiting[k] # i
    BY <1>1 DEF ShownInv, WaitInv
  <2>2. \A k, l \in 1..Len(waiting) : waiting[k] = waiting[l] => k = l
    BY <1>1 DEF ShownInv, WaitInv
  <2>3. \A k \in DOMAIN waiting' : waiting'[k] \in DOMAIN call' /\ call'[waiting'[k]].pc = "proxy"
    <3> SUFFICES ASSUME NEW k \in DOMAIN waiting'
                 PROVE  waiting'[k] \in DOMAIN call /\ call'[waiting'[k]].pc = "proxy"
      OBVIOUS
    <3>1. k \in 1..Len(waiting) \/ k = Len(waiting) + 1
      BY <1>1, <1>2
    <3>2. CASE k \in 1..Len(waiting)
      <4>1. waiting'[k] = waiting[k]
        BY <1>2, <3>2
      <4> QED
        BY <2>1, <3>2, <4>1
    <3>3. CASE k = Len(waiting) + 1
      BY <1>2, <3>3
    <3> QED
      BY <3>1, <3>2, <3>3
  <2>4. \A k, l \in DOMAIN waiting' : waiting'[k] = waiting'[l] => k = l
    BY <1>1, <1>2, <2>1, <2>2
  <2> QED
    BY <2>3, <2>4 DEF WaitInv
<1>6. ProxyInv'
  BY <1>1, <1>2 DEF ShownInv, ProxyInv, WaitInv
<1>7. PastInv'
  BY <1>1, <1>2 DEF ShownInv, PastInv
<1>8. OnboardInv'
  BY <1>1, <1>2 DEF ShownInv, OnboardInv
<1>9. (None' <=> None) /\ ~None
  BY <1>1, <1>2 DEF None, LastCall, ShownInv, PastInv
<1>10. CleanInv'
  <2>1. Pending(i)
    BY DEF Pending
  <2>2. clean => /\ i = Len(call) /\ \A j \in DOMAIN call : j # Len(call) => ~Pending(j)
                 /\ settings.enabled <=> LastCall.kind = "enable"
    BY <1>9, <2>1 DEF ShownInv, CleanInv
  <2>3. clean => \A j \in DOMAIN call' : j # Len(call') => ~Pending(j)'
    BY <2>2 DEF Pending
  <2>4. clean => LastCall'.kind = "enable" /\ LastCall.kind = "enable"
    BY <1>1, <1>2, <2>2 DEF LastCall
  <2> QED
    BY <1>9, <2>2, <2>3, <2>4 DEF CleanInv
<1>11. HeardInv'
  BY <1>1, <1>2, <1>9 DEF ShownInv, HeardInv, LastCall, None, OnboardInv
<1> QED
  BY <1>3, <1>4, <1>5, <1>6, <1>7, <1>8, <1>10, <1>11 DEF ShownInv

\* Call i has its answer.
LEMMA AnswersKeeps ==
  ASSUME ShownInv, NEW i, Answers(i)
  PROVE  ShownInv'
<1> USE DEF Answers, Keeps
<1>1. DOMAIN call = 1..Len(call) /\ Len(call) \in Nat /\ Len(waiting) \in Nat
      /\ DOMAIN waiting = 1..Len(waiting) /\ (waiting = <<>> <=> Len(waiting) = 0)
  BY CallTypes DEF ShownInv
<1>2. TRUE
  OBVIOUS
<1>3. Types'
  BY <1>1, <1>2 DEF ShownInv, Types
<1>4. KindInv'
  BY <1>1, <1>2 DEF ShownInv, KindInv
<1>5. WaitInv'
  BY <1>1, <1>2 DEF ShownInv, WaitInv
<1>6. ProxyInv'
  BY <1>1, <1>2 DEF ShownInv, ProxyInv, WaitInv
<1>7. PastInv'
  BY <1>1, <1>2 DEF ShownInv, PastInv
<1>8. OnboardInv'
  BY <1>1, <1>2 DEF ShownInv, OnboardInv
<1>9. None' <=> None
  BY <1>1, <1>2 DEF None, LastCall
<1>10. CleanInv'
  BY <1>1, <1>2, <1>9 DEF ShownInv, CleanInv, LastCall, None, Pending
<1>11. HeardInv'
  <2> DEFINE L == Len(call)
  <2> SUFFICES ASSUME clean, heard, ~None, LastCall.kind = "enable"
               PROVE  /\ LastCall'.pc = "ok" => torEnabled
                      /\ LastCall'.pc = "done"
                            => ~listening' /\ (settings'.status = "connected" => torEnabled)
                      /\ LastCall'.pc # "done" => /\ LastCall'.screen # "none"
                                                  /\ LastCall'.screen = "onboarding"
                                                       => settings'.status # "connected"
    BY <1>1, <1>9 DEF HeardInv, LastCall, None
  <2>1. L \in DOMAIN call /\ call[L].kind = "enable"
    BY <1>1 DEF None, LastCall
  <2>2. /\ call[L].pc = "ok" => torEnabled
        /\ call[L].pc = "done" => ~listening /\ (settings.status = "connected" => torEnabled)
        /\ call[L].pc # "done" => /\ call[L].screen # "none"
                                  /\ call[L].screen = "onboarding" => settings.status # "connected"
    BY DEF ShownInv, HeardInv, LastCall
  <2>3. call[L].screen \in {"settings", "onboarding", "none"}
    BY <1>1, <2>1, CallTypes DEF ShownInv, Calls
  <2>4. CASE i = L
    BY <2>1, <2>2, <2>3, <2>4 DEF LastCall
  <2>5. CASE i # L
    <3>1. call[i].screen # "onboarding"
      BY <2>5 DEF ShownInv, OnboardInv
    <3> QED
      BY <2>1, <2>2, <2>5, <3>1 DEF LastCall
  <2> QED
    BY <2>4, <2>5
<1> QED
  BY <1>3, <1>4, <1>5, <1>6, <1>7, <1>8, <1>10, <1>11 DEF ShownInv

\* The proxy answers.
LEMMA ProxyAnswersKeeps ==
  ASSUME ShownInv, ProxyAnswers
  PROVE  ShownInv'
<1> USE DEF ProxyAnswers, Keeps
<1>1. DOMAIN call = 1..Len(call) /\ Len(call) \in Nat /\ Len(waiting) \in Nat
      /\ DOMAIN waiting = 1..Len(waiting) /\ (waiting = <<>> <=> Len(waiting) = 0)
  BY CallTypes DEF ShownInv
<1>2. /\ waiting' \in Seq(Nat) /\ Len(waiting) \in Nat \ {0} /\ Len(waiting') = Len(waiting) - 1
      /\ DOMAIN waiting' = 1..(Len(waiting) - 1)
      /\ \A k \in 1..(Len(waiting) - 1) : waiting'[k] = waiting[k + 1]
      /\ waiting' = <<>> <=> Len(waiting) = 1
      /\ ~None
      /\ waiting[1] \in DOMAIN call /\ call[waiting[1]].pc = "proxy"
  <2>1. waiting \in Seq(Nat)
    BY DEF ShownInv, Types
  <2>2. ~None
    BY NoneWaits
  <2>3. waiting[1] \in DOMAIN call /\ call[waiting[1]].pc = "proxy"
    BY <1>1 DEF ShownInv, WaitInv
  <2> HIDE DEF ShownInv
  <2> QED
    BY <2>1, <2>2, <2>3, Rest
<1>3. PICK i \in DOMAIN call : i = waiting[1]
  BY <1>2
<1>4. /\ call[i].pc = "proxy" /\ call'[i].pc = "ok" /\ torEnabled' = (call[i].kind = "enable")
      /\ \A j \in DOMAIN call :
           /\ call'[j].screen = call[j].screen
           /\ j # i => call'[j].pc = call[j].pc
  BY <1>2, <1>3
<1>5. Types'
  BY <1>1, <1>2 DEF ShownInv, Types
<1>16. /\ call' \in Seq(Calls) /\ Len(call') = Len(call) /\ DOMAIN call' = DOMAIN call
       /\ \A j \in DOMAIN call : call'[j].kind = call[j].kind
  OBVIOUS
<1>17. UNCHANGED <<proxy, settings, onboarded, listening, clean, heard>>
  OBVIOUS
<1>18. waiting # <<>> /\ Len(waiting) \in DOMAIN waiting
  BY <1>1, <1>2
<1> HIDE DEF ProxyAnswers, Keeps
<1>6. KindInv'
  BY <1>16, <1>17, <1>1, <1>4 DEF ShownInv, KindInv
<1>7. WaitInv'
  <2>1. \A k \in 1..Len(waiting) : waiting[k] \in DOMAIN call /\ call[waiting[k]].pc = "proxy"
    BY <1>16, <1>17, <1>1 DEF ShownInv, WaitInv
  <2>2. \A k, l \in 1..Len(waiting) : waiting[k] = waiting[l] => k = l
    BY <1>16, <1>17, <1>1 DEF ShownInv, WaitInv
  <2>3. ASSUME NEW k \in DOMAIN waiting'
        PROVE  waiting'[k] \in DOMAIN call' /\ call'[waiting'[k]].pc = "proxy"
    <3>1. k \in Nat /\ k + 1 \in 1..Len(waiting) /\ 1 \in 1..Len(waiting) /\ k + 1 # 1
      BY <1>16, <1>17, <1>1, <1>2
    <3>2. waiting[k + 1] # i
      BY <1>16, <1>17, <1>3, <2>2, <3>1
    <3> QED
      BY <1>16, <1>17, <1>1, <1>2, <1>4, <2>1, <3>1, <3>2
  <2>4. ASSUME NEW k \in DOMAIN waiting', NEW l \in DOMAIN waiting', waiting'[k] = waiting'[l]
        PROVE  k = l
    <3>1. k \in Nat /\ l \in Nat /\ k + 1 \in 1..Len(waiting) /\ l + 1 \in 1..Len(waiting)
      BY <1>1, <1>2
    <3>2. waiting'[k] = waiting[k + 1] /\ waiting'[l] = waiting[l + 1]
      BY <1>2
    <3>3. k + 1 = l + 1
      BY <2>2, <2>4, <3>1, <3>2
    <3> QED
      BY <3>1, <3>3
  <2> QED
    BY <1>16, <1>17, <2>3, <2>4 DEF WaitInv
<1>8. ProxyInv'
  <2>1. proxy = "tor" <=> call[waiting[Len(waiting)]].kind = "enable"
    BY <1>18 DEF ShownInv, ProxyInv
  <2>2. waiting[Len(waiting)] \in DOMAIN call
    BY <1>18 DEF ShownInv, WaitInv
  <2>3. CASE Len(waiting) = 1
    BY <1>16, <1>17, <1>2, <1>3, <1>4, <2>1, <2>3 DEF ProxyInv
  <2>4. CASE Len(waiting) # 1
    <3>1. waiting' # <<>> /\ Len(waiting') \in 1..(Len(waiting) - 1)
          /\ Len(waiting') + 1 = Len(waiting)
      BY <1>16, <1>17, <1>2, <2>4
    <3>2. waiting'[Len(waiting')] = waiting[Len(waiting)]
      BY <1>16, <1>17, <1>2, <3>1
    <3> QED
      BY <1>16, <1>17, <2>1, <2>2, <3>1, <3>2 DEF ProxyInv
  <2> QED
    BY <1>16, <1>17, <2>3, <2>4
<1>9. PastInv'
  BY <1>16, <1>17, <1>1, <1>4 DEF ShownInv, PastInv
<1>10. OnboardInv'
  BY <1>16, <1>17, <1>1, <1>4 DEF ShownInv, OnboardInv
<1>11. ~None'
  BY <1>16, <1>17, <1>1, <1>2, <1>4 DEF None, LastCall
<1>12. Pending(i) /\ i \in 1..Len(call)
  BY <1>16, <1>17, <1>1, <1>4 DEF Pending
<1>13. clean => i = Len(call)
  BY <1>16, <1>17, <1>2, <1>12 DEF ShownInv, CleanInv
<1>14. CleanInv'
  <2>1. clean => \A j \in DOMAIN call' : j # Len(call') => ~Pending(j)'
    BY <1>16, <1>17, <1>1, <1>2, <1>4 DEF ShownInv, CleanInv, Pending
  <2>2. LastCall'.kind = LastCall.kind
    BY <1>16, <1>17, <1>1, <1>12 DEF LastCall
  <2> QED
    BY <1>16, <1>17, <1>2, <1>11, <2>1, <2>2 DEF ShownInv, CleanInv
<1>15. HeardInv'
  BY <1>16, <1>17, <1>1, <1>2, <1>4, <1>13 DEF ShownInv, HeardInv, LastCall
<1> QED
  BY <1>5, <1>6, <1>7, <1>8, <1>9, <1>10, <1>14, <1>15 DEF ShownInv

\* The window is there anew.
LEMMA ReloadsKeeps ==
  ASSUME ShownInv, Reloads
  PROVE  ShownInv'
<1> USE DEF Reloads, Keeps
<1>1. DOMAIN call = 1..Len(call) /\ Len(call) \in Nat /\ Len(waiting) \in Nat
      /\ DOMAIN waiting = 1..Len(waiting) /\ (waiting = <<>> <=> Len(waiting) = 0)
  BY CallTypes DEF ShownInv
<1>2. Off \in Settings /\ Off.enabled = FALSE
  BY DEF Off, Settings
<1>3. Types'
  BY <1>1, <1>2 DEF ShownInv, Types
<1>4. KindInv'
  BY <1>1, <1>2 DEF ShownInv, KindInv
<1>5. WaitInv'
  BY <1>1, <1>2 DEF ShownInv, WaitInv
<1>6. ProxyInv'
  BY <1>1, <1>2 DEF ShownInv, ProxyInv, WaitInv
<1>7. PastInv'
  BY <1>1, <1>2 DEF ShownInv, PastInv
<1>8. OnboardInv'
  BY <1>1, <1>2 DEF ShownInv, OnboardInv
<1>9. None' <=> None
  BY <1>1, <1>2 DEF None, LastCall, ShownInv, Types, Calls
<1>10. CleanInv'
  <2>1. \A j \in DOMAIN call : Pending(j) <=> Pending(j)'
    BY DEF Pending
  <2>2. ~None => LastCall'.kind = LastCall.kind
    BY <1>1 DEF None, LastCall
  <2>3. CASE UNCHANGED <<settings, clean>> /\ heard' = (heard /\ Quiet)
    BY <1>9, <2>1, <2>2, <2>3 DEF ShownInv, CleanInv
  <2>4. CASE clean' = FALSE /\ heard' = heard
    BY <1>9, <2>4 DEF ShownInv, CleanInv
  <2> QED
    BY <2>3, <2>4
<1>11. HeardInv'
  <2> SUFFICES ASSUME clean, clean', heard', ~None, LastCall'.kind = "enable"
               PROVE  /\ LastCall'.pc = "ok" => torEnabled
                      /\ LastCall'.pc = "done"
                            => ~listening' /\ (settings'.status = "connected" => torEnabled)
                      /\ LastCall'.pc # "done" => /\ LastCall'.screen # "none"
                                                  /\ LastCall'.screen = "onboarding"
                                                       => settings'.status # "connected"
    BY <1>9 DEF HeardInv
  <2>1. heard /\ Quiet /\ settings' = settings
    OBVIOUS
  <2>2. Len(call) \in DOMAIN call
    BY <1>1 DEF None
  <2>3. call[Len(call)].pc = "done" /\ call[Len(call)].kind = "enable"
    BY <2>1, <2>2 DEF Quiet, None, LastCall
  <2>4. settings.status = "connected" => torEnabled
    BY <2>1, <2>3 DEF ShownInv, HeardInv, LastCall
  <2> QED
    BY <2>1, <2>2, <2>3, <2>4 DEF LastCall
<1> QED
  BY <1>3, <1>4, <1>5, <1>6, <1>7, <1>8, <1>10, <1>11 DEF ShownInv

\* The app is there anew.
LEMMA RestartsKeeps ==
  ASSUME ShownInv, Restarts
  PROVE  ShownInv'
<1> USE DEF Restarts, Keeps
<1>1. DOMAIN call = 1..Len(call) /\ Len(call) \in Nat /\ Len(waiting) \in Nat
      /\ DOMAIN waiting = 1..Len(waiting) /\ (waiting = <<>> <=> Len(waiting) = 0)
  BY CallTypes DEF ShownInv
<1>2. waiting' \in Seq(Nat) /\ DOMAIN waiting' = {}
  BY EmptySeq
<1>3. Types'
  BY <1>1, <1>2 DEF ShownInv, Types
<1>4. KindInv'
  BY <1>1, <1>2 DEF ShownInv, KindInv
<1>5. WaitInv'
  BY <1>1, <1>2 DEF ShownInv, WaitInv
<1>6. ProxyInv'
  BY <1>1, <1>2 DEF ShownInv, ProxyInv, WaitInv
<1>7. PastInv'
  BY <1>1, <1>2 DEF ShownInv, PastInv
<1>8. OnboardInv'
  BY <1>1, <1>2 DEF ShownInv, OnboardInv
<1>9. None'
  BY <1>1, <1>2 DEF None, LastCall
<1>10. CleanInv'
  BY <1>1, <1>2, <1>9 DEF ShownInv, CleanInv, LastCall, None, Pending
<1>11. HeardInv'
  BY <1>1, <1>2, <1>9 DEF ShownInv, HeardInv, LastCall, None, OnboardInv
<1> QED
  BY <1>3, <1>4, <1>5, <1>6, <1>7, <1>8, <1>10, <1>11 DEF ShownInv

-----------------------------------------------------------------------------
(***************************************************************************)
(* DesktopTor: what the actions do                                         *)
(***************************************************************************)

\* A step that changes calls but makes none.
LEMMA Kept ==
  ASSUME ShownInv, call' \in [DOMAIN call -> Calls],
         \A j \in DOMAIN call : call'[j].kind = call[j].kind
  PROVE  Keeps
<1>1. call \in Seq(Calls)
  BY DEF ShownInv, Types
<1> HIDE DEF Calls, ShownInv
<1>2. call' \in Seq(Calls) /\ Len(call') = Len(call) /\ DOMAIN call' = DOMAIN call
  BY <1>1, SameLength
<1> QED
  BY <1>2 DEF Keeps

\* One call is changed, in what it does or in its process.
LEMMA Changed ==
  ASSUME ShownInv, NEW i \in DOMAIN call, NEW c \in Calls,
         c.kind = call[i].kind, c.screen = call[i].screen,
         call' = [call EXCEPT ![i] = c]
  PROVE  /\ Keeps /\ call'[i] = c
         /\ \A j \in DOMAIN call : call'[j].screen = call[j].screen /\ (j # i => call'[j] = call[j])
<1>1. call \in [DOMAIN call -> Calls]
  BY CallTypes DEF ShownInv
<1> HIDE DEF Calls
<1>2. /\ call' \in [DOMAIN call -> Calls] /\ call'[i] = c
      /\ \A j \in DOMAIN call : j # i => call'[j] = call[j]
  BY <1>1
<1>3. \A j \in DOMAIN call : call'[j].kind = call[j].kind
  BY <1>2
<1> QED
  BY <1>2, <1>3, Kept

\* One call moves on.
LEMMA Moved ==
  ASSUME ShownInv, NEW i \in DOMAIN call,
         NEW pc \in {"download", "boot", "proxy", "ok", "failed", "done"},
         call' = At(i, pc)
  PROVE  /\ Keeps /\ call'[i].pc = pc
         /\ \A j \in DOMAIN call :
              /\ call'[j].screen = call[j].screen
              /\ j # i => call'[j].pc = call[j].pc
<1> DEFINE c == [call[i] EXCEPT !.pc = pc]
<1>1. call[i] \in Calls
  BY CallTypes DEF ShownInv
<1>2. c \in Calls /\ c.kind = call[i].kind /\ c.screen = call[i].screen /\ c.pc = pc
  BY <1>1 DEF Calls
<1>3. call' = [call EXCEPT ![i] = c]
  BY DEF At
<1> HIDE DEF c
<1> QED
  BY <1>2, <1>3, Changed

\* One call moves on with its process.
LEMMA MovedBoth ==
  ASSUME ShownInv, NEW i \in DOMAIN call, NEW pc \in {"boot", "failed"},
         NEW proc \in {"none", "running", "killed", "gone"},
         call' = [call EXCEPT ![i].pc = pc, ![i].proc = proc]
  PROVE  /\ Keeps /\ call'[i].pc = pc
         /\ \A j \in DOMAIN call :
              /\ call'[j].screen = call[j].screen
              /\ j # i => call'[j].pc = call[j].pc
<1> DEFINE c == [call[i] EXCEPT !.pc = pc, !.proc = proc]
<1>1. call[i] \in Calls /\ call \in [DOMAIN call -> Calls]
  BY CallTypes DEF ShownInv
<1>2. c \in Calls /\ c.kind = call[i].kind /\ c.screen = call[i].screen /\ c.pc = pc
  BY <1>1 DEF Calls
<1>3. call' = [call EXCEPT ![i] = c]
  BY <1>1
<1> HIDE DEF c
<1> QED
  BY <1>2, <1>3, Changed

\* What the listener of the settings screen may store.
LEMMA ToldTells ==
  ASSUME ShownInv, NEW stage, Told(stage)
  PROVE  Tells
BY DEF ShownInv, Types, Settings, Told, Tells

\* A new call is a call.
LEMMA Begins ==
  ASSUME ShownInv, NEW kind \in {"enable", "disable"}, NEW pc \in {"check", "proxy"},
         NEW screen \in {"settings", "onboarding"}, Begin(kind, pc, screen)
  PROVE  /\ \E c \in Calls : /\ c.kind = kind /\ c.pc = pc /\ c.screen = screen
                             /\ call' = Append(call, c)
         /\ Len(call') = Len(call) + 1
         /\ clean' = (\A j \in DOMAIN call : ~Pending(j)) /\ heard' = TRUE
<1> DEFINE c == [kind |-> kind, pc |-> pc, screen |-> screen, proc |-> "none", said |-> FALSE]
<1>1. c \in Calls /\ c.kind = kind /\ c.pc = pc /\ c.screen = screen
  BY DEF Calls
<1>2. call' = Append(call, c) /\ clean' = (\A j \in DOMAIN call : ~Pending(j)) /\ heard' = TRUE
  BY DEF Begin
<1>3. Len(call') = Len(call) + 1
  BY <1>1, <1>2, AppendProperties DEF ShownInv, Types
<1> QED
  BY <1>1, <1>2, <1>3

\* The way of a call to enable up to the proxy, and the events of its process.
LEMMA Proceeding ==
  ASSUME ShownInv, NEW i \in DOMAIN call,
         \/ Download(i) \/ DownloadEnds(i) \/ Spawn(i) \/ SpawnError(i) \/ Timeout(i)
         \/ Bind(i) \/ Bootstrapping(i) \/ (\E success \in BOOLEAN : Exit(i, success))
         \/ Bootstrapped(i) /\ call[i].pc # "boot"
  PROVE  Proceeds
<1>1. call \in [DOMAIN call -> Calls] /\ call[i] \in Calls /\ settings \in Settings
      /\ call[i].proc \in {"none", "running", "killed", "gone"}
  BY CallTypes DEF ShownInv, Types, Calls
<1>2. UNCHANGED call => Keeps
  BY <1>1, Kept
<1>3. UNCHANGED settings => Tells
  BY <1>1 DEF Tells
<1>4. CASE Download(i)
  <2>1. call' = At(i, "download") /\ call[i].pc = "check"
    BY <1>4 DEF Download
  <2>2. UNCHANGED <<settings, waiting, proxy, torEnabled, onboarded, listening, clean, heard>>
    BY <1>4 DEF Download, mainVars, windowVars
  <2> QED
    BY <1>3, <2>1, <2>2, Moved DEF Proceeds
<1>5. CASE DownloadEnds(i)
  <2>1. call' = At(i, "failed") /\ call[i].pc = "download"
    BY <1>5 DEF DownloadEnds
  <2>2. UNCHANGED <<settings, waiting, proxy, torEnabled, onboarded, listening, clean, heard>>
    BY <1>5 DEF DownloadEnds, mainVars, windowVars
  <2> QED
    BY <1>3, <2>1, <2>2, Moved DEF Proceeds
<1>6. CASE Spawn(i)
  <2>1. call' = [call EXCEPT ![i].pc = "boot", ![i].proc = "running"] /\ call[i].pc = "check"
    BY <1>6 DEF Spawn
  <2>2. UNCHANGED <<settings, waiting, proxy, torEnabled, onboarded, listening, clean, heard>>
    BY <1>6 DEF Spawn, windowVars
  <2> QED
    BY <1>3, <2>1, <2>2, MovedBoth DEF Proceeds
<1>7. CASE SpawnError(i)
  <2>1. call' = [call EXCEPT ![i].pc = "failed", ![i].proc = "gone"] /\ call[i].pc = "boot"
    BY <1>7 DEF SpawnError
  <2>2. /\ UNCHANGED <<waiting, proxy, torEnabled, onboarded, listening, clean, heard>>
        /\ Told("error")
    BY <1>7 DEF SpawnError, mainVars
  <2>3. Tells
    BY <2>2, ToldTells
  <2> QED
    BY <2>1, <2>2, <2>3, MovedBoth DEF Proceeds
<1>8. CASE Timeout(i)
  <2> DEFINE proc == IF call[i].proc = "running" THEN "killed" ELSE call[i].proc
  <2>1. call' = [call EXCEPT ![i].pc = "failed", ![i].proc = proc] /\ call[i].pc = "boot"
    BY <1>1, <1>8 DEF Timeout
  <2>2. UNCHANGED <<settings, waiting, proxy, torEnabled, onboarded, listening, clean, heard>>
    BY <1>8 DEF Timeout, mainVars, windowVars
  <2>3. proc \in {"none", "running", "killed", "gone"}
    BY <1>1
  <2> HIDE DEF proc
  <2> QED
    BY <1>3, <2>1, <2>2, <2>3, MovedBoth DEF Proceeds
<1>9. CASE Bind(i) \/ Bootstrapping(i)
  <2>1. UNCHANGED <<call, settings, waiting, proxy, torEnabled, onboarded, listening, clean, heard>>
    BY <1>9 DEF Bind, Bootstrapping, mainVars, windowVars
  <2> QED
    BY <1>2, <1>3, <2>1 DEF Proceeds
<1>10. ASSUME NEW success \in BOOLEAN, Exit(i, success)
       PROVE  Proceeds
  <2> DEFINE fails == ~success /\ ~full /\ call[i].pc # "past"
             pc == IF fails /\ call[i].pc = "boot" THEN "failed" ELSE call[i].pc
             c == [call[i] EXCEPT !.proc = "gone", !.pc = pc]
  <2>1. call' = [call EXCEPT ![i] = c]
    BY <1>1, <1>10 DEF Exit
  <2>2. pc = call[i].pc \/ (call[i].pc = "boot" /\ pc = "failed")
    OBVIOUS
  <2>3. c \in Calls /\ c.kind = call[i].kind /\ c.screen = call[i].screen /\ c.pc = pc
    BY <1>1, <2>2 DEF Calls
  <2>4. UNCHANGED settings \/ Told("error")
    BY <1>10 DEF Exit
  <2>5. UNCHANGED <<waiting, proxy, torEnabled, onboarded, listening, clean, heard>>
    BY <1>10 DEF Exit
  <2> HIDE DEF c, pc, fails
  <2>6. /\ Keeps /\ call'[i] = c
        /\ \A j \in DOMAIN call : call'[j].screen = call[j].screen /\ (j # i => call'[j] = call[j])
    BY <2>1, <2>3, Changed
  <2>7. Tells
    BY <1>3, <2>4, ToldTells
  <2> QED
    BY <2>2, <2>3, <2>5, <2>6, <2>7 DEF Proceeds
<1>11. CASE Bootstrapped(i) /\ call[i].pc # "boot"
  <2> DEFINE c == [call[i] EXCEPT !.said = TRUE]
  <2>1. call' = [call EXCEPT ![i] = c] /\ UNCHANGED <<proxy, waiting>>
    BY <1>1, <1>11 DEF Bootstrapped
  <2>2. c \in Calls /\ c.kind = call[i].kind /\ c.screen = call[i].screen /\ c.pc = call[i].pc
    BY <1>1 DEF Calls
  <2>3. UNCHANGED <<torEnabled, onboarded, listening, clean, heard>> /\ Told("ready")
    BY <1>11 DEF Bootstrapped
  <2> HIDE DEF c
  <2>4. /\ Keeps /\ call'[i] = c
        /\ \A j \in DOMAIN call : call'[j].screen = call[j].screen /\ (j # i => call'[j] = call[j])
    BY <2>1, <2>2, Changed
  <2>5. Tells
    BY <2>3, ToldTells
  <2> QED
    BY <2>1, <2>2, <2>3, <2>4, <2>5 DEF Proceeds
<1> QED
  BY <1>4, <1>5, <1>6, <1>7, <1>8, <1>9, <1>10, <1>11

\* Another Tor, and steps that change nothing.
LEMMA Elsewhere ==
  ASSUME ShownInv, SystemTor \/ UNCHANGED desktopVars
  PROVE  Proceeds
<1>1. UNCHANGED <<call, settings, waiting, proxy, torEnabled, onboarded, listening, clean, heard>>
  BY DEF SystemTor, desktopVars, mainVars, windowVars
<1>2. Keeps
  BY <1>1, Kept, CallTypes DEF ShownInv
<1>3. Tells
  BY <1>1 DEF ShownInv, Types, Tells
<1> QED
  BY <1>1, <1>2, <1>3 DEF Proceeds

\* A port that somebody listens on.
LEMMA PortOpening ==
  ASSUME ShownInv, NEW i \in DOMAIN call, PortOpen(i)
  PROVE  ComesToProxy(i)
<1>1. proxy' = "tor" /\ waiting' = Append(waiting, i) /\ Told("ready")
      /\ call[i].pc = "check" /\ call' = At(i, "proxy")
      /\ UNCHANGED <<torEnabled, onboarded, listening, clean, heard>>
  BY DEF PortOpen, AwaitProxy
<1>2. Tells
  BY <1>1, ToldTells
<1> QED
  BY <1>1, <1>2, Moved DEF ComesToProxy

\* A process that is ready while its call waits for it.
LEMMA Booting ==
  ASSUME ShownInv, NEW i \in DOMAIN call, Bootstrapped(i), call[i].pc = "boot"
  PROVE  ComesToProxy(i)
<1> DEFINE c == [call[i] EXCEPT !.said = TRUE, !.pc = "proxy"]
<1>1. call \in [DOMAIN call -> Calls] /\ call[i] \in Calls
  BY CallTypes DEF ShownInv
<1>2. proxy' = "tor" /\ waiting' = Append(waiting, i) /\ Told("ready")
      /\ UNCHANGED <<torEnabled, onboarded, listening, clean, heard>>
  BY DEF Bootstrapped, AwaitProxy
<1>3. Tells
  BY <1>2, ToldTells
<1>4. call' = [call EXCEPT ![i] = c]
  BY <1>1 DEF Bootstrapped
<1>5. c \in Calls /\ c.kind = call[i].kind /\ c.screen = call[i].screen /\ c.pc = "proxy"
  BY <1>1 DEF Calls
<1> HIDE DEF c
<1>6. /\ Keeps /\ call'[i] = c
      /\ \A j \in DOMAIN call : call'[j].screen = call[j].screen /\ (j # i => call'[j] = call[j])
  BY <1>4, <1>5, Changed
<1> QED
  BY <1>2, <1>3, <1>5, <1>6 DEF ComesToProxy

\* The screens that ask for Tor.
LEMMA Enabling ==
  ASSUME ShownInv, ToggleOn \/ FinishWithTor
  PROVE  \E screen \in {"settings", "onboarding"} : Enables(screen)
<1>1. CASE ToggleOn
  <2>1. Enables("settings")
    BY <1>1, Begins DEF ToggleOn, Enables, mainVars
  <2> QED
    BY <2>1
<1>2. CASE FinishWithTor
  <2>1. Enables("onboarding")
    BY <1>2, Begins DEF FinishWithTor, Enables, mainVars
  <2> QED
    BY <2>1
<1> QED
  BY <1>1, <1>2

\* The screen that ends it.
LEMMA Disabling ==
  ASSUME ShownInv, ToggleOff
  PROVE  Disables
BY Begins DEF ToggleOff, Disables

\* The screens that have their answer.
LEMMA Answering ==
  ASSUME ShownInv, NEW i \in DOMAIN call, Answer(i) \/ OnboardingVerified(i)
  PROVE  Answers(i)
<1>1. call' = At(i, "done") /\ UNCHANGED <<waiting, proxy, torEnabled, clean, heard>>
      /\ call[i].pc \in {"ok", "failed"}
  BY DEF Answer, OnboardingVerified, mainVars
<1>2. settings \in Settings /\ onboarded \in BOOLEAN /\ call[i] \in Calls
  BY CallTypes DEF ShownInv, Types
<1>3. settings' \in Settings /\ settings'.enabled = settings.enabled
  BY <1>2 DEF Answer, OnboardingVerified, Settings
<1>4. CASE Answer(i)
  <2>1. settings' = settings \/ (settings' = [settings EXCEPT !.status = "error"]
                                 /\ call[i].screen = "settings" /\ call[i].pc = "failed")
    BY <1>4 DEF Answer
  <2>2. settings' = settings \/ (settings'.status = "error" /\ call[i].screen = "settings"
                                 /\ call[i].pc = "failed")
    BY <1>2, <2>1 DEF Settings
  <2>3. call[i].screen = "settings" /\ call[i].pc = "failed" => settings'.status = "error"
    BY <1>2, <1>4 DEF Settings, Answer
  <2> QED
    BY <1>1, <1>2, <1>3, <1>4, <2>2, <2>3, Moved DEF Answers, Answer
<1>5. CASE OnboardingVerified(i)
  <2>1. /\ call[i].pc = "ok" /\ call[i].screen = "onboarding"
        /\ onboarded' = TRUE /\ listening' = FALSE
    BY <1>5 DEF OnboardingVerified
  <2> QED
    BY <1>1, <1>3, <2>1, Moved DEF Answers
<1> QED
  BY <1>4, <1>5

\* What a new call leaves of the others.
LEMMA AppendedCall ==
  ASSUME ShownInv, NEW c \in Calls, call' = Append(call, c)
  PROVE  /\ call' \in Seq(Calls) /\ Len(call) \in Nat /\ Len(call') = Len(call) + 1
         /\ DOMAIN call = 1..Len(call) /\ DOMAIN call' = 1..(Len(call) + 1)
         /\ \A j \in 1..Len(call) : call'[j] = call[j]
         /\ call'[Len(call) + 1] = c
         /\ LastCall' = c
<1>1. call \in Seq(Calls) /\ Len(call) \in Nat /\ DOMAIN call = 1..Len(call)
  BY CallTypes DEF ShownInv, Types
<1> HIDE DEF Calls, ShownInv
<1> QED
  BY <1>1, Appended DEF LastCall

\* A screen calls tor:enable.
LEMMA EnablesKeeps ==
  ASSUME ShownInv, NEW screen \in {"settings", "onboarding"}, Enables(screen)
  PROVE  ShownInv'
<1>1. PICK c \in Calls : /\ c.kind = "enable" /\ c.pc = "check" /\ c.screen = screen
                         /\ call' = Append(call, c)
  BY DEF Enables
<1>2. /\ call' \in Seq(Calls) /\ Len(call) \in Nat /\ Len(call') = Len(call) + 1
      /\ DOMAIN call = 1..Len(call) /\ DOMAIN call' = 1..(Len(call) + 1)
      /\ \A j \in 1..Len(call) : call'[j] = call[j]
      /\ call'[Len(call) + 1] = c
      /\ LastCall' = c
  BY <1>1, AppendedCall
<1>3. /\ settings' = [enabled |-> TRUE, status |-> "connecting"]
      /\ clean' = (\A j \in DOMAIN call : ~Pending(j)) /\ heard' = TRUE
      /\ UNCHANGED <<waiting, proxy, torEnabled, onboarded>>
      /\ listening' \in BOOLEAN /\ (~onboarded => listening' = listening)
      /\ screen = "settings" => onboarded
      /\ screen = "onboarding" => ~onboarded
      /\ \A j \in DOMAIN call : call[j].screen = "onboarding"
              => call[j].pc \in {"done", "past"} \/ onboarded
  BY DEF Enables, ShownInv, Types
<1>4. Types'
  BY <1>2, <1>3 DEF ShownInv, Types, Settings
<1>5. KindInv'
  BY <1>1, <1>2 DEF ShownInv, KindInv
<1>6. \A k \in DOMAIN waiting : waiting[k] \in 1..Len(call) /\ call'[waiting[k]] = call[waiting[k]]
  BY <1>2 DEF ShownInv, WaitInv
<1>7. WaitInv'
  BY <1>2, <1>3, <1>6 DEF ShownInv, WaitInv
<1>8. ProxyInv'
  <2>1. waiting # <<>> => Len(waiting) \in DOMAIN waiting
    BY CallTypes DEF ShownInv
  <2> QED
    BY <1>3, <1>6, <2>1 DEF ShownInv, ProxyInv
<1>9. PastInv'
  BY <1>1, <1>2 DEF ShownInv, PastInv
<1>10. OnboardInv'
  <2>1. ASSUME NEW j \in DOMAIN call', call'[j].screen = "onboarding",
               call'[j].pc \notin {"done", "past"}
        PROVE  j = Len(call') /\ ~onboarded'
    <3>1. CASE j = Len(call) + 1
      BY <1>1, <1>2, <1>3, <2>1, <3>1
    <3>2. CASE j # Len(call) + 1
      BY <1>2, <1>3, <2>1, <3>2 DEF ShownInv, OnboardInv
    <3> QED
      BY <3>1, <3>2
  <2>2. ~onboarded' => ~listening'
    BY <1>3 DEF ShownInv, OnboardInv
  <2> QED
    BY <2>1, <2>2 DEF OnboardInv
<1>11. ~None'
  BY <1>1, <1>2 DEF None
<1>12. CleanInv'
  <2>1. ASSUME clean', NEW j \in DOMAIN call', j # Len(call')
        PROVE  ~Pending(j)'
    <3>1. j \in 1..Len(call)
      BY <1>2, <2>1
    <3>2. ~Pending(j) /\ call'[j] = call[j]
      BY <1>2, <1>3, <2>1, <3>1
    <3> QED
      BY <3>2 DEF Pending
  <2> QED
    BY <1>1, <1>2, <1>3, <1>11, <2>1 DEF CleanInv
<1>13. HeardInv'
  BY <1>1, <1>2, <1>3 DEF HeardInv
<1> QED
  BY <1>4, <1>5, <1>7, <1>8, <1>9, <1>10, <1>12, <1>13 DEF ShownInv

\* The settings screen calls tor:disable.
LEMMA DisablesKeeps ==
  ASSUME ShownInv, Disables
  PROVE  ShownInv'
<1>1. PICK c \in Calls : /\ c.kind = "disable" /\ c.pc = "proxy" /\ c.screen = "settings"
                         /\ call' = Append(call, c)
  BY DEF Disables
<1>2. /\ call' \in Seq(Calls) /\ Len(call) \in Nat /\ Len(call') = Len(call) + 1
      /\ DOMAIN call = 1..Len(call) /\ DOMAIN call' = 1..(Len(call) + 1)
      /\ \A j \in 1..Len(call) : call'[j] = call[j]
      /\ call'[Len(call) + 1] = c
      /\ LastCall' = c
  BY <1>1, AppendedCall
<1>3. /\ settings' = Off /\ proxy' = "direct" /\ waiting' = Append(waiting, Len(call) + 1)
      /\ clean' = (\A j \in DOMAIN call : ~Pending(j)) /\ heard' = TRUE
      /\ onboarded /\ UNCHANGED <<torEnabled, onboarded, listening>>
  BY DEF Disables
<1>4. /\ waiting' \in Seq(Nat) /\ Len(waiting) \in Nat /\ Len(waiting') = Len(waiting) + 1
      /\ DOMAIN waiting = 1..Len(waiting)
      /\ DOMAIN waiting' = 1..(Len(waiting) + 1) /\ waiting' # <<>>
      /\ \A k \in 1..Len(waiting) : waiting'[k] = waiting[k]
      /\ waiting'[Len(waiting) + 1] = Len(call) + 1
  <2>1. waiting \in Seq(Nat) /\ Len(call) + 1 \in Nat
    BY <1>2 DEF ShownInv, Types
  <2>2. Len(waiting) \in Nat /\ DOMAIN waiting = 1..Len(waiting)
    BY CallTypes DEF ShownInv
  <2> HIDE DEF ShownInv, Disables
  <2> QED
    BY <1>3, <2>1, <2>2, Appended
<1>5. Types'
  BY <1>2, <1>3, <1>4 DEF ShownInv, Types, Settings, Off
<1>6. KindInv'
  BY <1>1, <1>2 DEF ShownInv, KindInv
<1>7. WaitInv'
  <2>1. \A k \in 1..Len(waiting) : waiting[k] \in 1..Len(call) /\ call[waiting[k]].pc = "proxy"
    BY <1>2, <1>4 DEF ShownInv, WaitInv
  <2>2. \A k, l \in 1..Len(waiting) : waiting[k] = waiting[l] => k = l
    BY <1>4 DEF ShownInv, WaitInv
  <2>3. ASSUME NEW k \in DOMAIN waiting'
        PROVE  waiting'[k] \in DOMAIN call' /\ call'[waiting'[k]].pc = "proxy"
    <3>1. k \in 1..Len(waiting) \/ k = Len(waiting) + 1
      BY <1>4
    <3>2. CASE k \in 1..Len(waiting)
      BY <1>2, <1>4, <2>1, <3>2
    <3>3. CASE k = Len(waiting) + 1
      BY <1>1, <1>2, <1>4, <3>3
    <3> QED
      BY <3>1, <3>2, <3>3
  <2>4. \A k, l \in DOMAIN waiting' : waiting'[k] = waiting'[l] => k = l
    BY <1>2, <1>4, <2>1, <2>2
  <2> QED
    BY <2>3, <2>4 DEF WaitInv
<1>8. ProxyInv'
  BY <1>1, <1>2, <1>3, <1>4 DEF ProxyInv
<1>9. PastInv'
  BY <1>1, <1>2 DEF ShownInv, PastInv
<1>10. OnboardInv'
  BY <1>1, <1>2, <1>3 DEF ShownInv, OnboardInv
<1>11. ~None'
  BY <1>1, <1>2 DEF None
<1>12. CleanInv'
  <2>1. ASSUME clean', NEW j \in DOMAIN call', j # Len(call')
        PROVE  ~Pending(j)'
    <3>1. j \in 1..Len(call)
      BY <1>2, <2>1
    <3>2. ~Pending(j) /\ call'[j] = call[j]
      BY <1>2, <1>3, <2>1, <3>1
    <3> QED
      BY <3>2 DEF Pending
  <2> QED
    BY <1>1, <1>2, <1>3, <1>11, <2>1 DEF CleanInv, Off
<1>13. HeardInv'
  BY <1>1, <1>2, <1>3 DEF HeardInv
<1> QED
  BY <1>5, <1>6, <1>7, <1>8, <1>9, <1>10, <1>12, <1>13 DEF ShownInv

\* The onboarding ends without Tor.
LEMMA FinishWithoutKeeps ==
  ASSUME ShownInv, FinishWithout
  PROVE  ShownInv'
<1> USE DEF FinishWithout, mainVars
<1>1. Types' /\ KindInv' /\ WaitInv' /\ ProxyInv' /\ PastInv'
  BY DEF ShownInv, Types, KindInv, WaitInv, ProxyInv, PastInv
<1>2. OnboardInv'
  BY DEF OnboardInv
<1>3. CleanInv' /\ HeardInv'
  BY DEF ShownInv, CleanInv, HeardInv, None, LastCall, Pending
<1> QED
  BY <1>1, <1>2, <1>3 DEF ShownInv

\* stopTor touches only a process.
LEMMA StoppedCalls ==
  ASSUME NEW calls \in [DOMAIN call -> Calls]
  PROVE  /\ Stopped(calls) \in [DOMAIN call -> Calls]
         /\ \A j \in DOMAIN call :
              /\ Stopped(calls)[j].kind = calls[j].kind /\ Stopped(calls)[j].pc = calls[j].pc
              /\ Stopped(calls)[j].screen = calls[j].screen
BY DEF Stopped, Calls

\* The answer of setProxy.
LEMMA ProxyAnswering ==
  ASSUME ShownInv, ProxySet
  PROVE  ProxyAnswers
<1>1. waiting # <<>> /\ waiting' = Tail(waiting) /\ waiting \in Seq(Nat)
  BY DEF ProxySet, ShownInv, Types
<1>2. PICK i \in DOMAIN call : i = waiting[1] /\ i = Head(waiting) /\ call[i].pc = "proxy"
  <2>1. Head(waiting) = waiting[1] /\ Len(waiting) \in Nat \ {0} /\ DOMAIN waiting = 1..Len(waiting)
    <3> HIDE DEF ShownInv
    <3> QED
      BY <1>1, Rest, SeqDomain
  <2>2. 1 \in DOMAIN waiting
    BY <2>1
  <2> QED
    BY <2>1, <2>2 DEF ShownInv, WaitInv
<1>3. call \in [DOMAIN call -> Calls] /\ call[i] \in Calls
  BY CallTypes DEF ShownInv
<1>4. At(i, "ok") \in [DOMAIN call -> Calls] /\ At(i, "ok")[i].pc = "ok"
      /\ \A j \in DOMAIN call :
           /\ At(i, "ok")[j].kind = call[j].kind /\ At(i, "ok")[j].screen = call[j].screen
           /\ j # i => At(i, "ok")[j].pc = call[j].pc
  BY <1>3 DEF At, Calls
<1>5. /\ call' = At(i, "ok") \/ call' = Stopped(At(i, "ok"))
      /\ torEnabled' = (call[i].kind = "enable")
      /\ UNCHANGED <<proxy, settings, onboarded, listening, clean, heard>>
  BY <1>2 DEF ProxySet, windowVars
<1>6. /\ call' \in [DOMAIN call -> Calls] /\ call'[i].pc = "ok"
      /\ \A j \in DOMAIN call :
           /\ call'[j].kind = call[j].kind /\ call'[j].screen = call[j].screen
           /\ j # i => call'[j].pc = call[j].pc
  <2> HIDE DEF ProxySet, ShownInv
  <2> QED
    BY <1>4, <1>5, StoppedCalls
<1>7. Keeps
  BY <1>6, Kept
<1> QED
  BY <1>1, <1>2, <1>5, <1>6, <1>7 DEF ProxyAnswers

\* The window is loaded or opened anew.
LEMMA Reloading ==
  ASSUME ShownInv, Reload \/ ResetIdentity \/ Reopen
  PROVE  Reloads
<1>1. call \in [DOMAIN call -> Calls]
  BY CallTypes DEF ShownInv
<1>2. /\ Unheard \in [DOMAIN call -> Calls]
      /\ \A j \in DOMAIN call :
           /\ Unheard[j].kind = call[j].kind /\ Unheard[j].screen = "none"
           /\ Unheard[j].pc = IF call[j].pc \in {"ok", "failed"} THEN "done" ELSE call[j].pc
  BY <1>1 DEF Unheard, Calls
<1>3. call' = Unheard \/ call' = Stopped(Unheard)
  BY DEF Reload, ResetIdentity, Reopen
<1>4. /\ call' \in [DOMAIN call -> Calls]
      /\ \A j \in DOMAIN call :
           /\ call'[j].kind = call[j].kind /\ call'[j].screen = "none"
           /\ call'[j].pc = IF call[j].pc \in {"ok", "failed"} THEN "done" ELSE call[j].pc
  <2> HIDE DEF ShownInv
  <2> QED
    BY <1>2, <1>3, StoppedCalls
<1>5. Keeps
  BY <1>4, Kept
<1>6. UNCHANGED <<waiting, proxy, torEnabled>> /\ listening' = FALSE
  BY DEF Reload, ResetIdentity, Reopen, mainVars
<1>7. \/ settings' = settings /\ onboarded' = onboarded /\ clean' = clean
         /\ heard' = (heard /\ Quiet)
      \/ settings' = Off /\ onboarded' = FALSE /\ clean' = FALSE /\ heard' = heard
  BY DEF Reload, ResetIdentity, Reopen
<1> QED
  BY <1>4, <1>5, <1>6, <1>7 DEF Reloads

\* The app is started anew.
LEMMA Restarting ==
  ASSUME ShownInv, NEW orderly \in BOOLEAN, Restart(orderly)
  PROVE  Restarts
<1>1. call \in [DOMAIN call -> Calls]
  BY CallTypes DEF ShownInv
<1> DEFINE left == IF orderly THEN Stopped(call) ELSE call
<1>2. left \in [DOMAIN call -> Calls] /\ \A j \in DOMAIN call : left[j].kind = call[j].kind
  BY <1>1, StoppedCalls
<1>3. call' = [i \in DOMAIN call |-> [left[i] EXCEPT !.pc = "past"]]
  BY DEF Restart
<1> HIDE DEF left
<1>4. /\ call' \in [DOMAIN call -> Calls]
      /\ \A j \in DOMAIN call : call'[j].kind = call[j].kind /\ call'[j].pc = "past"
  BY <1>2, <1>3 DEF Calls
<1>5. Keeps
  BY <1>4, Kept
<1> QED
  BY <1>4, <1>5 DEF Restart, Restarts

\* Every step keeps the invariant.
LEMMA ShownStep ==
  ASSUME ShownInv, [DesktopNext]_desktopVars
  PROVE  ShownInv'
<1>1. CASE ToggleOn \/ FinishWithTor
  BY <1>1, Enabling, EnablesKeeps
<1>2. CASE ToggleOff
  BY <1>2, Disabling, DisablesKeeps
<1>3. ASSUME NEW i \in DOMAIN call, Answer(i) \/ OnboardingVerified(i)
      PROVE  ShownInv'
  BY <1>3, Answering, AnswersKeeps
<1>6. CASE FinishWithout
  BY <1>6, FinishWithoutKeeps
<1>7. CASE SystemTor \/ UNCHANGED desktopVars
  BY <1>7, Elsewhere, ProceedsKeeps
<1>8. CASE ProxySet
  BY <1>8, ProxyAnswering, ProxyAnswersKeeps
<1>9. CASE Reload \/ ResetIdentity \/ Reopen
  BY <1>9, Reloading, ReloadsKeeps
<1>10. ASSUME NEW orderly \in BOOLEAN, Restart(orderly)
       PROVE  ShownInv'
  BY <1>10, Restarting, RestartsKeeps
<1>11. ASSUME NEW i \in DOMAIN call,
              \/ Answer(i) \/ OnboardingVerified(i)
              \/ PortOpen(i) \/ Download(i) \/ DownloadEnds(i)
              \/ Spawn(i) \/ SpawnError(i) \/ Bootstrapping(i) \/ Bootstrapped(i) \/ Timeout(i)
              \/ Bind(i)
              \/ \E success \in BOOLEAN : Exit(i, success)
       PROVE  ShownInv'
  <2>3. CASE Answer(i) \/ OnboardingVerified(i)
    BY <1>3, <2>3
  <2>4. CASE Bootstrapped(i)
    <3>1. CASE call[i].pc = "boot"
      BY <2>4, <3>1, Booting, ComesToProxyKeeps
    <3>2. CASE call[i].pc # "boot"
      BY <2>4, <3>2, Proceeding, ProceedsKeeps
    <3> QED
      BY <3>1, <3>2
  <2>5. CASE PortOpen(i)
    <3>1. ComesToProxy(i)
      BY <2>5, PortOpening
    <3> QED
      BY <3>1, ComesToProxyKeeps
  <2>6. CASE \/ Download(i) \/ DownloadEnds(i) \/ Spawn(i) \/ SpawnError(i) \/ Timeout(i) \/ Bind(i)
             \/ Bootstrapping(i) \/ \E success \in BOOLEAN : Exit(i, success)
    <3>1. Proceeds
      BY <2>6, Proceeding
    <3> QED
      BY <3>1, ProceedsKeeps
  <2> QED
    BY <1>11, <2>3, <2>4, <2>5, <2>6
<1> HIDE DEF ShownInv
<1> QED
  BY <1>1, <1>2, <1>6, <1>7, <1>8, <1>9, <1>10, <1>11 DEF DesktopNext

\* The app as it is first started.
LEMMA ShownInit ==
  ASSUME DesktopInit
  PROVE  ShownInv
<1>1. call = <<>> /\ waiting = <<>> /\ Len(call) = 0
  BY DEF DesktopInit
<1>2. DOMAIN call = {} /\ DOMAIN waiting = {} /\ call \in Seq(Calls) /\ waiting \in Seq(Nat)
  BY <1>1, EmptySeq
<1> QED
  BY <1>1, <1>2 DEF DesktopInit, ShownInv, Types, KindInv, WaitInv, ProxyInv, PastInv, OnboardInv,
     CleanInv,
                    HeardInv, None, LastCall, Off, Settings

\* The invariant says what the property says.
LEMMA ShownFollows ==
  ASSUME ShownInv
  PROVE  ShownIsSo
<1>1. DOMAIN call = 1..Len(call) /\ Len(call) \in Nat /\ Len(waiting) \in Nat
      /\ DOMAIN waiting = 1..Len(waiting) /\ (waiting = <<>> <=> Len(waiting) = 0)
      /\ \A i \in DOMAIN call : call[i] \in Calls
  BY CallTypes DEF ShownInv
<1>2. torEnabled => \/ proxy = "tor"
                    \/ \E k \in DOMAIN waiting : call[waiting[k]].kind = "disable"
  <2>1. CASE waiting = <<>>
    BY <2>1 DEF ShownInv, ProxyInv
  <2>2. CASE waiting # <<>>
    <3>1. Len(waiting) \in DOMAIN waiting
      BY <1>1, <2>2
    <3>2. call[waiting[Len(waiting)]].kind \in {"enable", "disable"}
      BY <1>1, <3>1 DEF ShownInv, WaitInv, Calls
    <3> QED
      BY <2>2, <3>1, <3>2 DEF ShownInv, ProxyInv
  <2> QED
    BY <2>1, <2>2
<1>3. Quiet => waiting = <<>>
  BY <1>1 DEF Quiet, ShownInv, WaitInv
<1>4. Quiet /\ ~None => Len(call) \in DOMAIN call /\ LastCall.pc = "done"
  BY <1>1 DEF Quiet, None, LastCall
<1>5. Quiet /\ clean /\ settings.enabled /\ settings.status = "connected" => torEnabled \/ ~heard
  BY <1>4 DEF ShownInv, CleanInv, HeardInv
<1>6. Quiet /\ clean /\ ~settings.enabled => ~torEnabled /\ proxy = "direct"
  <2>1. ~None => LastCall.kind \in {"enable", "disable"}
    BY <1>1 DEF None, LastCall, Calls
  <2> QED
    BY <1>3, <2>1 DEF ShownInv, CleanInv, ProxyInv
<1> QED
  BY <1>2, <1>5, <1>6 DEF ShownIsSo

\* What the user is shown is so.  The main process has Tor on only while all traffic goes through
\* the proxy or a later call is just undoing it; "connected" is shown only while it has it on, and
\* off only once the proxy is gone: for any number of calls and restarts.
THEOREM ShownAlways == DesktopSpec => []ShownIsSo
<1>1. DesktopInit => ShownInv
  BY ShownInit
<1>2. ShownInv /\ [DesktopNext]_desktopVars => ShownInv'
  BY ShownStep
<1>3. ShownInv => ShownIsSo
  BY ShownFollows
<1> QED
  BY <1>1, <1>2, <1>3, PTL DEF DesktopSpec

-----------------------------------------------------------------------------
(***************************************************************************)
(* DesktopTor: the processes                                               *)
(***************************************************************************)

\* Two processes that are there at once are both known to have been: a spawn beside a process
\* puts all of them into crossed, and no process comes but by a spawn.
ProcInv == \A p, q \in DOMAIN call : p # q /\ Alive(p) /\ Alive(q) => p \in crossed /\ q \in crossed

\* What StopFindsTor rests on; ShownInv for the types of the calls.
StopInv == ShownInv /\ ProcInv /\ StopFindsTor

\* What a step leaves of the processes: no new ones, and torProcess is left alone, or cleared
\* while those that were running end or are in crossed.
Ends ==
  /\ DOMAIN call' = DOMAIN call /\ crossed \subseteq crossed'
  /\ \A p \in DOMAIN call :
       \/ call'[p].proc = call[p].proc
       \/ Alive(p) /\ call'[p].proc = "gone"
       \/ call[p].proc = "running" /\ call'[p].proc = "killed"
  /\ \A p \in DOMAIN call \ crossed' :
       call'[p].proc = "running" /\ call[p].proc = "running" /\ torProcess = p => torProcess' = p

\* Such a step keeps the invariant.
LEMMA EndsKeeps ==
  ASSUME ProcInv, StopFindsTor, Ends
  PROVE  ProcInv' /\ StopFindsTor'
<1>1. \A p \in DOMAIN call : Alive(p)' => Alive(p)
  BY DEF Ends, Alive
<1>2. \A p \in DOMAIN call : call'[p].proc = "running" => call[p].proc = "running"
  BY DEF Ends
<1>3. ProcInv'
  BY <1>1 DEF Ends, ProcInv
<1>4. StopFindsTor'
  BY <1>2 DEF Ends, StopFindsTor
<1> QED
  BY <1>3, <1>4

\* Moving a call on leaves its process alone.
LEMMA AtProc ==
  ASSUME ShownInv, NEW i \in DOMAIN call, NEW pc, call' = At(i, pc)
  PROVE  DOMAIN call' = DOMAIN call /\ \A p \in DOMAIN call : call'[p].proc = call[p].proc
<1>1. call \in [DOMAIN call -> Calls]
  BY CallTypes DEF ShownInv
<1> QED
  BY <1>1 DEF At, Calls

\* What stopTor does to the processes.
LEMMA StoppedProc ==
  ASSUME NEW calls \in [DOMAIN call -> Calls]
  PROVE  /\ DOMAIN Stopped(calls) = DOMAIN call
         /\ \A p \in DOMAIN call :
              Stopped(calls)[p].proc = IF p = torProcess /\ calls[p].proc = "running"
                                       THEN "killed" ELSE calls[p].proc
BY DEF Stopped, Calls

\* A step that leaves processes and torProcess alone.
LEMMA Untouched ==
  ASSUME DOMAIN call' = DOMAIN call, \A p \in DOMAIN call : call'[p].proc = call[p].proc,
         UNCHANGED <<torProcess, crossed>>
  PROVE  Ends
BY DEF Ends

\* The events of a call and of its process.
LEMMA ProcessEvents ==
  ASSUME StopInv, NEW i \in DOMAIN call,
         \/ Answer(i) \/ OnboardingVerified(i) \/ PortOpen(i) \/ Download(i) \/ DownloadEnds(i)
         \/ SpawnError(i) \/ Bootstrapping(i) \/ Bootstrapped(i) \/ Timeout(i) \/ Bind(i)
         \/ \E success \in BOOLEAN : Exit(i, success)
  PROVE  Ends
<1>1. call \in [DOMAIN call -> Calls] /\ call[i] \in Calls /\ ShownInv
  BY CallTypes DEF StopInv, ShownInv
<1>2. CASE Answer(i) \/ OnboardingVerified(i)
  <2>1. call' = At(i, "done") /\ UNCHANGED <<torProcess, crossed>>
    BY <1>2 DEF Answer, OnboardingVerified, mainVars, torVars
  <2> QED
    BY <1>1, <2>1, AtProc, Untouched
<1>3. CASE PortOpen(i)
  <2>1. call' = At(i, "proxy") /\ UNCHANGED <<torProcess, crossed>>
    BY <1>3 DEF PortOpen, torVars
  <2> QED
    BY <1>1, <2>1, AtProc, Untouched
<1>4. CASE Download(i)
  <2>1. call' = At(i, "download") /\ UNCHANGED <<torProcess, crossed>>
    BY <1>4 DEF Download, mainVars, torVars
  <2> QED
    BY <1>1, <2>1, AtProc, Untouched
<1>5. CASE DownloadEnds(i)
  <2>1. call' = At(i, "failed") /\ UNCHANGED <<torProcess, crossed>>
    BY <1>5 DEF DownloadEnds, mainVars, torVars
  <2> QED
    BY <1>1, <2>1, AtProc, Untouched
<1>6. CASE SpawnError(i)
  <2>1. /\ call' = [call EXCEPT ![i].pc = "failed", ![i].proc = "gone"] /\ call[i].proc = "running"
        /\ UNCHANGED <<torProcess, crossed>>
    BY <1>6 DEF SpawnError, mainVars, torVars
  <2>2. /\ DOMAIN call' = DOMAIN call /\ call'[i].proc = "gone"
        /\ \A p \in DOMAIN call : p # i => call'[p].proc = call[p].proc
    BY <1>1, <2>1 DEF Calls
  <2> QED
    BY <2>1, <2>2 DEF Ends, Alive
<1>7. CASE Bootstrapped(i)
  <2>1. /\ \/ call' = [call EXCEPT ![i].said = TRUE, ![i].pc = "proxy"]
           \/ call' = [call EXCEPT ![i].said = TRUE]
        /\ UNCHANGED <<torProcess, crossed>>
    BY <1>7 DEF Bootstrapped, torVars
  <2>2. DOMAIN call' = DOMAIN call /\ \A p \in DOMAIN call : call'[p].proc = call[p].proc
    BY <1>1, <2>1 DEF Calls
  <2> QED
    BY <2>1, <2>2, Untouched
<1>8. CASE Timeout(i)
  <2> DEFINE proc == IF call[i].proc = "running" THEN "killed" ELSE call[i].proc
  <2>1. /\ call' = [call EXCEPT ![i].pc = "failed", ![i].proc = proc]
        /\ UNCHANGED <<torProcess, crossed>>
    BY <1>1, <1>8 DEF Timeout, mainVars, torVars
  <2>2. /\ DOMAIN call' = DOMAIN call /\ call'[i].proc = proc
        /\ \A p \in DOMAIN call : p # i => call'[p].proc = call[p].proc
    BY <1>1, <2>1 DEF Calls
  <2> QED
    BY <2>1, <2>2 DEF Ends
<1>9. CASE Bind(i) \/ Bootstrapping(i)
  <2>1. UNCHANGED <<call, torProcess, crossed>>
    BY <1>9 DEF Bind, Bootstrapping, mainVars, torVars
  <2> QED
    BY <2>1, Untouched
<1>10. ASSUME NEW success \in BOOLEAN, Exit(i, success)
       PROVE  Ends
  <2>1. /\ DOMAIN call' = DOMAIN call /\ call'[i].proc = "gone"
        /\ \A p \in DOMAIN call : p # i => call'[p].proc = call[p].proc
    BY <1>1, <1>10 DEF Exit, Calls
  <2>2. Alive(i) /\ crossed' = crossed
    BY <1>10 DEF Exit
  <2>3. ASSUME NEW p \in DOMAIN call \ crossed', call'[p].proc = "running", call[p].proc = "running"
        PROVE  FALSE
    BY <2>1, <2>2, <2>3 DEF StopInv, ProcInv, Alive
  <2> QED
    BY <2>1, <2>2, <2>3 DEF Ends
<1> QED
  BY <1>2, <1>3, <1>4, <1>5, <1>6, <1>7, <1>8, <1>9, <1>10

\* The proxy that answers, the window that is loaded anew, and what does not concern a call.
LEMMA OtherEvents ==
  ASSUME StopInv,
         \/ ProxySet \/ Reload \/ ResetIdentity \/ Reopen
         \/ FinishWithout \/ SystemTor \/ UNCHANGED desktopVars
  PROVE  Ends
<1>1. call \in [DOMAIN call -> Calls] /\ ShownInv
  BY CallTypes DEF StopInv, ShownInv
<1>2. /\ Unheard \in [DOMAIN call -> Calls]
      /\ \A j \in DOMAIN call : Unheard[j].proc = call[j].proc
  BY <1>1 DEF Unheard, Calls
<1>3. CASE ProxySet
  <2>1. PICK i \in DOMAIN call : i = Head(waiting)
    <3>1. waiting \in Seq(Nat) /\ waiting # <<>>
      BY <1>1, <1>3 DEF ProxySet, ShownInv, Types
    <3>2. /\ Head(waiting) = waiting[1] /\ Len(waiting) \in Nat \ {0}
          /\ DOMAIN waiting = 1..Len(waiting)
      BY <3>1, Rest, SeqDomain
    <3>3. 1 \in DOMAIN waiting
      BY <3>2
    <3> QED
      BY <1>1, <3>2, <3>3 DEF ShownInv, WaitInv
  <2>2. At(i, "ok") \in [DOMAIN call -> Calls]
        /\ \A j \in DOMAIN call : At(i, "ok")[j].proc = call[j].proc
    BY <1>1 DEF At, Calls
  <2>3. /\ \/ call' = At(i, "ok") /\ torProcess' = torProcess
           \/ call' = Stopped(At(i, "ok"))
        /\ crossed' = crossed
    BY <1>3, <2>1 DEF ProxySet, torVars
  <2>4. CASE call' = At(i, "ok") /\ torProcess' = torProcess
    BY <2>2, <2>3, <2>4, Untouched
  <2>5. CASE call' = Stopped(At(i, "ok"))
    <3>1. /\ DOMAIN call' = DOMAIN call
          /\ \A p \in DOMAIN call :
               call'[p].proc = IF p = torProcess /\ call[p].proc = "running"
                               THEN "killed" ELSE call[p].proc
      BY <2>2, <2>5, StoppedProc
    <3> QED
      BY <2>3, <3>1 DEF Ends
  <2> QED
    BY <2>3, <2>4, <2>5
<1>4. CASE Reload \/ ResetIdentity
  <2>1. call' = Unheard /\ UNCHANGED <<torProcess, crossed>>
    BY <1>4 DEF Reload, ResetIdentity, mainVars, torVars
  <2> QED
    BY <1>2, <2>1, Untouched
<1>5. CASE Reopen
  <2>1. call' = Stopped(Unheard) /\ crossed' = crossed
    BY <1>5 DEF Reopen, torVars
  <2>2. /\ DOMAIN call' = DOMAIN call
        /\ \A p \in DOMAIN call :
             call'[p].proc = IF p = torProcess /\ call[p].proc = "running"
                             THEN "killed" ELSE call[p].proc
    BY <1>2, <2>1, StoppedProc
  <2> QED
    BY <2>1, <2>2 DEF Ends
<1>6. CASE FinishWithout \/ SystemTor \/ UNCHANGED desktopVars
  <2>1. UNCHANGED <<call, torProcess, crossed>>
    BY <1>6 DEF FinishWithout, SystemTor, desktopVars, mainVars, torVars
  <2> QED
    BY <2>1, Untouched
<1> QED
  BY <1>3, <1>4, <1>5, <1>6

\* The app that ends leaves the process it had, told to end or known for one without an app.
LEMMA RestartEnds ==
  ASSUME StopInv, NEW orderly \in BOOLEAN, Restart(orderly)
  PROVE  Ends
<1>1. call \in [DOMAIN call -> Calls]
  BY CallTypes DEF StopInv, ShownInv
<1> DEFINE left == IF orderly THEN Stopped(call) ELSE call
<1>2. left \in [DOMAIN call -> Calls]
  BY <1>1, StoppedCalls
<1>3. \A p \in DOMAIN call : left[p].proc = call[p].proc
                               \/ (call[p].proc = "running" /\ left[p].proc = "killed")
  BY <1>1, StoppedProc
<1>4. /\ call' = [i \in DOMAIN call |-> [left[i] EXCEPT !.pc = "past"]]
      /\ crossed' = crossed \cup {p \in DOMAIN call : left[p].proc = "running"}
  BY DEF Restart
<1> HIDE DEF left
<1>5. DOMAIN call' = DOMAIN call /\ \A p \in DOMAIN call : call'[p].proc = left[p].proc
  BY <1>2, <1>4 DEF Calls
<1>6. \A p \in DOMAIN call \ crossed' : call'[p].proc # "running"
  BY <1>4, <1>5
<1> QED
  BY <1>3, <1>4, <1>5, <1>6 DEF Ends

\* A process that is started becomes the one torProcess refers to; the others are known to be
\* beside it.
LEMMA SpawnKeeps ==
  ASSUME StopInv, NEW i \in DOMAIN call, Spawn(i)
  PROVE  ProcInv' /\ StopFindsTor'
<1>1. call \in [DOMAIN call -> Calls]
  BY CallTypes DEF StopInv, ShownInv
<1> DEFINE beside == {q \in DOMAIN call : Alive(q)}
<1>2. /\ call' = [call EXCEPT ![i].pc = "boot", ![i].proc = "running"]
      /\ torProcess' = i
      /\ crossed' = IF beside = {} THEN crossed ELSE crossed \cup beside \cup {i}
  BY DEF Spawn
<1>3. /\ DOMAIN call' = DOMAIN call
      /\ \A p \in DOMAIN call : p # i => call'[p].proc = call[p].proc
  BY <1>1, <1>2 DEF Calls
<1>4. \A p \in DOMAIN call : p # i /\ Alive(p)' => p \in beside
  BY <1>3 DEF Alive
<1>5. \A p \in DOMAIN call : p # i /\ Alive(p)' => p \in crossed' /\ i \in crossed'
  BY <1>2, <1>4
<1>6. ProcInv'
  BY <1>3, <1>5 DEF ProcInv
<1>7. \A p \in DOMAIN call' \ crossed' : call'[p].proc = "running" => p = i
  BY <1>3, <1>5 DEF Alive
<1>8. StopFindsTor'
  BY <1>2, <1>7 DEF StopFindsTor
<1> QED
  BY <1>6, <1>8

\* A new call has no process yet.
LEMMA BeginKeeps ==
  ASSUME StopInv, ToggleOn \/ ToggleOff \/ FinishWithTor
  PROVE  ProcInv' /\ StopFindsTor'
<1>1. PICK kind \in {"enable", "disable"}, pc \in {"check", "proxy"},
           screen \in {"settings", "onboarding"} :
        Begin(kind, pc, screen)
  BY DEF ToggleOn, ToggleOff, FinishWithTor
<1> DEFINE c == [kind |-> kind, pc |-> pc, screen |-> screen, proc |-> "none", said |-> FALSE]
<1>2. c \in Calls /\ c.proc = "none"
  BY DEF Calls
<1>3. call' = Append(call, c)
  BY <1>1 DEF Begin
<1>4. UNCHANGED <<torProcess, crossed>>
  BY DEF ToggleOn, ToggleOff, FinishWithTor, mainVars, torVars
<1> HIDE DEF c
<1>5. /\ DOMAIN call = 1..Len(call) /\ DOMAIN call' = 1..(Len(call) + 1) /\ Len(call) \in Nat
      /\ \A j \in 1..Len(call) : call'[j] = call[j]
      /\ call'[Len(call) + 1] = c
  BY <1>2, <1>3, AppendedCall DEF StopInv
<1>6. \A p \in DOMAIN call' : call'[p].proc \in {"running", "killed"}
                                => p \in DOMAIN call /\ call'[p].proc = call[p].proc
  BY <1>2, <1>5
<1>7. ProcInv'
  BY <1>4, <1>6 DEF StopInv, ProcInv, Alive
<1>8. StopFindsTor'
  BY <1>4, <1>6 DEF StopInv, StopFindsTor
<1> QED
  BY <1>7, <1>8

\* Every step keeps the invariant.
LEMMA StopStep ==
  ASSUME StopInv, [DesktopNext]_desktopVars
  PROVE  StopInv'
<1>1. ShownInv'
  BY ShownStep DEF StopInv
<1>2. Ends => ProcInv' /\ StopFindsTor'
  BY EndsKeeps DEF StopInv
<1>3. CASE ToggleOn \/ ToggleOff \/ FinishWithTor
  BY <1>1, <1>3, BeginKeeps DEF StopInv
<1>4. CASE \/ ProxySet \/ Reload \/ ResetIdentity \/ Reopen
           \/ FinishWithout \/ SystemTor \/ UNCHANGED desktopVars
  BY <1>1, <1>2, <1>4, OtherEvents DEF StopInv
<1>5. ASSUME NEW orderly \in BOOLEAN, Restart(orderly)
      PROVE  StopInv'
  <2>1. Ends
    BY <1>5, RestartEnds
  <2> QED
    BY <1>1, <1>2, <2>1 DEF StopInv
<1>6. ASSUME NEW i \in DOMAIN call,
             \/ Answer(i) \/ OnboardingVerified(i)
             \/ PortOpen(i) \/ Download(i) \/ DownloadEnds(i)
             \/ Spawn(i) \/ SpawnError(i) \/ Bootstrapping(i) \/ Bootstrapped(i) \/ Timeout(i)
             \/ Bind(i) \/ \E success \in BOOLEAN : Exit(i, success)
      PROVE  StopInv'
  <2>1. CASE Spawn(i)
    BY <1>1, <2>1, SpawnKeeps DEF StopInv
  <2>2. CASE \/ Answer(i) \/ OnboardingVerified(i) \/ PortOpen(i) \/ Download(i) \/ DownloadEnds(i)
             \/ SpawnError(i) \/ Bootstrapping(i) \/ Bootstrapped(i) \/ Timeout(i) \/ Bind(i)
             \/ \E success \in BOOLEAN : Exit(i, success)
    <3>1. Ends
      BY <2>2, ProcessEvents
    <3> QED
      BY <1>1, <1>2, <3>1 DEF StopInv
  <2> QED
    BY <1>6, <2>1, <2>2
<1> QED
  BY <1>3, <1>4, <1>5, <1>6 DEF DesktopNext

\* tor:disable and the end of the app find the process to kill: one that nobody has told to end
\* is the one torProcess refers to, unless it was there beside another one or without an app.
THEOREM StopAlwaysFinds == DesktopSpec => []StopFindsTor
<1>1. DesktopInit => StopInv
  <2>1. ASSUME DesktopInit PROVE DOMAIN call = {}
    BY <2>1, EmptySeq DEF DesktopInit
  <2> QED
    BY <2>1, ShownInit DEF StopInv, ProcInv, StopFindsTor
<1>2. StopInv /\ [DesktopNext]_desktopVars => StopInv'
  BY StopStep
<1>3. StopInv => StopFindsTor
  BY DEF StopInv
<1> QED
  BY <1>1, <1>2, <1>3, PTL DEF DesktopSpec
=============================================================================
