---------------------------- MODULE ClientStore ----------------------------
(***************************************************************************)
(* What a client keeps on the device (client/lib/storage.ts) and the       *)
(* handlers and screens that change it.                                    *)
(*                                                                         *)
(* Contacts, tombstones of deleted contacts, chats and groups are four     *)
(* lists under four keys of AsyncStorage.  Each storage function reads a   *)
(* whole list, awaits, and writes the whole list back, and nothing keeps   *)
(* two handlers from doing so at once.  A handler is a task: a sequence of *)
(* calls, each of them a read that computes the new list and, later, the   *)
(* write that stores it.  Every process of the client may end at any step. *)
(*                                                                         *)
(* A list holds what the properties tell apart: who is a contact, the      *)
(* messages of a chat with their status, the members of a group.  An       *)
(* update of other fields writes the list as it was read.  A check that a  *)
(* handler makes long before its call (the contact is not there yet, its   *)
(* key is missing) guards nothing by then and is left out; so is what is   *)
(* sent to a server after the last call.                                   *)
(***************************************************************************)
EXTENDS Naturals, Sequences, FiniteSets, SequencesExt

CONSTANTS
  Contacts, Groups,
  Received,      \* messages others send
  Sent,          \* messages of this user
  In,            \* In[m]: the contact or group of message m
  Expiring,      \* those of them that carry an expiry time
  Tasks,         \* bound: how many handlers run at once
  MaxStarts,     \* bound: how many handlers run
  MaxFailures,   \* bound: how many reads fail
  Me, NoWrite

Msgs == Received \cup Sent
Threads == Contacts \cup Groups
Talks == {In[m] : m \in Msgs}     \* bound: the threads whose screens are used
Items == Contacts \cup Groups \cup Msgs

ASSUME ClientStoreAssumption ==
  /\ Contacts \cap Groups = {} /\ Contacts \cap Msgs = {} /\ Groups \cap Msgs = {}
  /\ In \in [Msgs -> Threads]
  /\ Received \cap Sent = {}
  /\ Expiring \subseteq Sent
  /\ MaxStarts \in Nat /\ MaxFailures \in Nat
  /\ Me \notin Contacts /\ IsFiniteSet(Contacts)

VARIABLES
  disk,      \* the four lists
  todo,      \* todo[t]: the calls task t has still to make, the current one first
  out,       \* out[t]: the list the current call of t will write, NoWrite before its read
  starts,    \* how many handlers have run
  used,      \* the ids given to messages of this user, to groups and to group messages
  failures,  \* how many reads have failed
  last,      \* history: last[i], what the last call about item i meant it to be
  firm,      \* history: the items nobody held an older list of when that call wrote
  removed    \* history: the contacts the user has deleted for good and nobody adds again

vars == <<disk, todo, out, starts, used, failures, last, firm, removed>>

NoThread == [state |-> "none", members |-> {}, msgs |-> {}]
Empty == [contacts |-> {}, deleted |-> {},
          chats  |-> [c \in Contacts |-> NoThread],
          groups |-> [g \in Groups |-> NoThread]]

Init ==
  /\ disk = Empty
  /\ todo = [t \in Tasks |-> <<>>]
  /\ out = [t \in Tasks |-> NoWrite]
  /\ starts = 0
  /\ used = {}
  /\ failures = 0
  /\ last = [i \in Items |-> "absent"]
  /\ firm = Items
  /\ removed = {}

-----------------------------------------------------------------------------
(* The storage functions: what a call that finds d on the disk will write. *)

\* getItem has returned; the call ends here if skip, otherwise it goes on to write list.
Read(t, skip, list) ==
  \/ skip /\ todo' = [todo EXCEPT ![t] = Tail(@)] /\ out' = out
  \/ ~skip /\ out' = [out EXCEPT ![t] = list] /\ todo' = todo

unmarkContactDeleted(t, d, x) == Read(t, x \notin d.deleted, d.deleted \ {x})

markContactDeleted(t, d, x) == Read(t, FALSE, d.deleted \cup {x})

addContact(t, d, x) == Read(t, x \in d.contacts, d.contacts \cup {x})

updateContact(t, d, x) == Read(t, x \notin d.contacts, d.contacts)

removeContact(t, d, x) == Read(t, FALSE, d.contacts \ {x})

Chats(c) == IF c \in Contacts THEN "chats" ELSE "groups"
Thread(d, c) == d[Chats(c)][c]
ThreadWith(d, c, field, value) == [d[Chats(c)] EXCEPT ![c][field] = value]
NoSuch(d, c) == Thread(d, c).state = "none"

Ids(msgs) == {p[1] : p \in msgs}
Without(msgs, ms) == {p \in msgs : p[1] \notin ms}

\* (faulty: a chat that is archived begins anew)
saveInNewChat(t, d, m, st) ==
  LET c == Thread(d, In[m]) IN
  Read(t, FALSE,
       [d.chats EXCEPT ![In[m]] =
          [c EXCEPT !.state = "open",
                    !.msgs = IF c.state = "archived" THEN {<<m, st>>} ELSE @ \cup {<<m, st>>}]])

\* A chat begins with its first message and takes no id twice.
saveMessage(t, d, m, st) ==
  LET c == Thread(d, In[m]) IN
  Read(t, FALSE,
       [d.chats EXCEPT ![In[m]] =
          [c EXCEPT !.state = IF @ = "none" THEN "open" ELSE @,
                    !.msgs = IF m \in Ids(@) THEN @ ELSE @ \cup {<<m, st>>}]])

\* (faulty: a group that is not there is not noticed)
saveForAnyGroup(t, d, m, st) ==
  Read(t, FALSE, ThreadWith(d, In[m], "msgs", Thread(d, In[m]).msgs \cup {<<m, st>>}))

saveGroupMessage(t, d, m, st) ==
  Read(t, NoSuch(d, In[m]), ThreadWith(d, In[m], "msgs", Thread(d, In[m]).msgs \cup {<<m, st>>}))

updateMessageStatus(t, d, m, st) ==
  LET msgs == Thread(d, In[m]).msgs IN
  Read(t, m \notin Ids(msgs), ThreadWith(d, In[m], "msgs", Without(msgs, {m}) \cup {<<m, st>>}))

markChatAsRead(t, d, c) == Read(t, NoSuch(d, c), d.chats)

archiveThread(t, d, c)   == Read(t, NoSuch(d, c), ThreadWith(d, c, "state", "archived"))
unarchiveThread(t, d, c) == Read(t, NoSuch(d, c), ThreadWith(d, c, "state", "open"))

deleteThread(t, d, c) == Read(t, FALSE, [d[Chats(c)] EXCEPT ![c] = NoThread])

deleteMessage(t, d, m) ==
  Read(t, NoSuch(d, In[m]), ThreadWith(d, In[m], "msgs", Without(Thread(d, In[m]).msgs, {m})))

\* The messages ms are those whose time was up when the call began.
cleanupExpiredMessages(t, d, c, ms) ==
  Read(t, ms \cap Ids(Thread(d, c).msgs) = {},
       ThreadWith(d, c, "msgs", Without(Thread(d, c).msgs, ms)))

createGroup(t, d, g) ==
  Read(t, FALSE, [d.groups EXCEPT ![g] = [state |-> "open", members |-> {Me}, msgs |-> {}]])

addGroupMember(t, d, g, u) ==
  Read(t, NoSuch(d, g) \/ u \in Thread(d, g).members,
       ThreadWith(d, g, "members", Thread(d, g).members \cup {u}))

removeGroupMember(t, d, g, u) ==
  Read(t, NoSuch(d, g), ThreadWith(d, g, "members", Thread(d, g).members \ {u}))

\* The calls of an addContact that is called for.
Adds(x) == <<<<"deleted", "unmarkContactDeleted", x>>, <<"contacts", "addContact", x>>>>

\* t goes on with calls in the place of its current one.
Instead(t, calls) == todo' = [todo EXCEPT ![t] = calls \o Tail(@)] /\ out' = out

\* pullContactsFromServer compares what the server sent with the contacts on the device.
pullReadsContacts(t, d) ==
  \E remote \in SUBSET Contacts :
    Instead(t, IF remote \subseteq d.contacts THEN <<>>
               ELSE <<<<"deleted", "pullReadsDeleted", remote \ d.contacts>>>>)

\* The calls that add xs, one contact after the other.
AddsOfAll(xs) ==
  LET seq == SetToSeq(xs)
  IN [k \in 1..(2 * Len(seq)) |-> Adds(seq[(k + 1) \div 2])[IF k % 2 = 1 THEN 1 ELSE 2]]

\* (faulty: tombstones are not looked at)
pullAddsAll(t, d, xs) == Instead(t, AddsOfAll(xs))

\* ... and with the tombstones, and adds the others.
pullReadsDeleted(t, d, xs) == Instead(t, AddsOfAll(xs \ d.deleted))

\* The current call of t reads its list; o is that call.
Reads(t, d, o) ==
  \/ o[2] = "unmarkContactDeleted" /\ unmarkContactDeleted(t, d, o[3])
  \/ o[2] = "markContactDeleted" /\ markContactDeleted(t, d, o[3])
  \/ o[2] = "addContact" /\ addContact(t, d, o[3])
  \/ o[2] = "updateContact" /\ updateContact(t, d, o[3])
  \/ o[2] = "removeContact" /\ removeContact(t, d, o[3])
  \/ o[2] = "pullReadsContacts" /\ pullReadsContacts(t, d)
  \/ o[2] = "pullReadsDeleted" /\ pullReadsDeleted(t, d, o[3])
  \/ o[2] = "saveMessage" /\ saveMessage(t, d, o[3], o[4])
  \/ o[2] = "saveGroupMessage" /\ saveGroupMessage(t, d, o[3], o[4])
  \/ o[2] = "updateMessageStatus" /\ updateMessageStatus(t, d, o[3], o[4])
  \/ o[2] = "markChatAsRead" /\ markChatAsRead(t, d, o[3])
  \/ o[2] = "archive" /\ archiveThread(t, d, o[3])
  \/ o[2] = "unarchive" /\ unarchiveThread(t, d, o[3])
  \/ o[2] = "delete" /\ deleteThread(t, d, o[3])
  \/ o[2] = "deleteMessage" /\ deleteMessage(t, d, o[3])
  \/ o[2] = "cleanupExpired" /\ cleanupExpiredMessages(t, d, o[3], o[4])
  \/ o[2] = "createGroup" /\ createGroup(t, d, o[3])
  \/ o[2] = "addGroupMember" /\ addGroupMember(t, d, o[3], o[4])
  \/ o[2] = "removeGroupMember" /\ removeGroupMember(t, d, o[3], o[4])

\* The list an item is in.
KeyOf(i) ==
  IF i \in Contacts THEN "contacts"
  ELSE IF i \in Groups THEN "groups" ELSE Chats(In[i])

\* A read that fails is taken for an empty list, so that what was there is given up.
GetItem(t) ==
  LET o == Head(todo[t]) IN
  /\ todo[t] # <<>> /\ out[t] = NoWrite
  /\ \/ Reads(t, disk, o) /\ UNCHANGED <<failures, firm, removed>>
     \/ /\ failures < MaxFailures /\ failures' = failures + 1
        /\ Reads(t, [disk EXCEPT ![o[1]] = Empty[o[1]]], o)
        /\ firm' = {i \in firm : KeyOf(i) # o[1]}
        /\ removed' = IF o[1] \in {"contacts", "deleted"} THEN {} ELSE removed
  /\ UNCHANGED <<disk, starts, used, last>>

\* The items in thread c, and c itself if it is a group.
InThread(c) == {m \in Msgs : In[m] = c} \cup ({c} \cap Groups)

\* What the call o promises: the items it is about, and what they are from then on.
About(o) ==
  IF o[2] = "delete" THEN InThread(o[3])
  ELSE IF o[2] = "cleanupExpired" THEN o[4]
  ELSE IF o[2] \in {"addContact", "removeContact", "createGroup", "saveMessage", "saveGroupMessage",
                    "updateMessageStatus", "deleteMessage"}
       THEN {o[3]} ELSE {}

Becomes(o) ==
  IF o[2] \in {"addContact", "createGroup"} THEN "present"
  ELSE IF o[2] \in {"saveMessage", "saveGroupMessage", "updateMessageStatus"} THEN o[4]
  ELSE "absent"

\* Another task than t has read key and not yet written it.
HeldByOther(t, key) == \E u \in Tasks \ {t} : out[u] # NoWrite /\ Head(todo[u])[1] = key

\* A task other than t is about to add x.
AddedByOther(t, x) ==
  \E u \in Tasks \ {t} : \E k \in DOMAIN todo[u] : todo[u][k][2] = "addContact" /\ todo[u][k][3] = x

\* setItem stores the list computed at the read.
SetItem(t) ==
  LET o == Head(todo[t]) IN
  /\ out[t] # NoWrite
  /\ disk' = [disk EXCEPT ![o[1]] = out[t]]
  /\ out' = [out EXCEPT ![t] = NoWrite]
  /\ todo' = [todo EXCEPT ![t] = Tail(@)]
  /\ last' = [i \in Items |-> IF i \in About(o) THEN Becomes(o) ELSE last[i]]
  /\ firm' = IF HeldByOther(t, o[1]) THEN firm \ About(o) ELSE firm \cup About(o)
  /\ removed' = IF /\ o[2] = "removeContact"
                   /\ o[3] \in disk.deleted
                   /\ ~HeldByOther(t, "contacts") /\ ~HeldByOther(t, "deleted")
                   /\ ~AddedByOther(t, o[3])
                THEN removed \cup {o[3]} ELSE removed
  /\ UNCHANGED <<starts, used, failures>>

-----------------------------------------------------------------------------
(* The handlers of the app and the screens                                 *)

Idle(t) == todo[t] = <<>>

\* A handler starts and will make calls, with the new ids in ids.
Start(calls, ids) ==
  \E t \in Tasks :
    /\ Idle(t) /\ starts < MaxStarts
    /\ ids \cap used = {}
    /\ todo' = [todo EXCEPT ![t] = calls]
    /\ used' = used \cup ids
    /\ starts' = starts + 1
    /\ UNCHANGED <<disk, out, last, firm, failures>>

Stays == UNCHANGED removed

\* The user adds a contact by its id or a QR code, or a peer says it added this user.
AddContact(x) ==
  /\ Start(Adds(x), {})
  /\ removed' = removed \ {x}

\* A public key arrives for a contact that had none, or a changed key is accepted.
UpdateContact(x) == Start(<<<<"contacts", "updateContact", x>>>>, {}) /\ Stays

\* deleteContactAndChat
RemoveContact(x) ==
  /\ Start(<<<<"chats", "delete", x>>, <<"deleted", "markContactDeleted", x>>,
             <<"contacts", "removeContact", x>>>>, {})
  /\ Stays

\* syncContacts, when the server could be reached.
SyncContacts == Start(<<<<"contacts", "pullReadsContacts">>>>, {}) /\ Stays

\* A message comes in; the relay may deliver it again.  The group's screen gives what it gets a new
\* id each time, so that a group message that came twice is two messages.
ReceiveMessage(m) ==
  /\ m \in Received
  /\ IF In[m] \in Contacts THEN Start(<<<<"chats", "saveMessage", m, "received">>>>, {})
                           ELSE Start(<<<<"groups", "saveGroupMessage", m, "received">>>>, {m})
  /\ Stays

\* The user sends; "sent" follows when the relay or a peer takes the message.
SendMessage(m, taken) ==
  /\ m \in Sent
  /\ LET save == <<"chats", "saveMessage", m, "sending">>
         status == <<"chats", "updateMessageStatus", m, "sent">>
     IN IF In[m] \in Contacts THEN Start(IF taken THEN <<save, status>> ELSE <<save>>, {m})
        ELSE taken /\ Start(<<<<"groups", "saveGroupMessage", m, "sent">>>>, {m})
  /\ Stays

DeleteMessage(m) ==
  /\ m \in used \cup Received /\ In[m] \in Contacts
  /\ Start(<<<<"chats", "deleteMessage", m>>>>, {})
  /\ Stays

\* The screen of a chat or group: what has expired goes, when it opens and every 5 s after.
OpenThread(c, ms) ==
  /\ ms \subseteq {m \in Expiring \cap used : In[m] = c}
  /\ LET clean == <<Chats(c), "cleanupExpired", c, ms>>
     IN \/ c \in Contacts /\ Start(<<clean, <<"chats", "markChatAsRead", c>>>>, {})
        \/ ms # {} /\ Start(<<clean>>, {})
  /\ Stays

\* Archiving, unarchiving or deleting a chat or group.
ChangeThread(c, op) == Start(<<<<Chats(c), op, c>>>>, {}) /\ Stays

CreateGroup(g, us) ==
  LET seq == SetToSeq(us)
  IN /\ Start(<<<<"groups", "createGroup", g>>>>
              \o [i \in DOMAIN seq |-> <<"groups", "addGroupMember", g, seq[i]>>], {g})
     /\ Stays

LeaveGroup(g) ==
  /\ g \in used
  /\ Start(<<<<"groups", "removeGroupMember", g, Me>>>>, {})
  /\ Stays

\* clearAllData: all keys at once; what runs goes on.
ClearAllData ==
  /\ starts < MaxStarts /\ starts' = starts + 1
  /\ disk' = Empty
  /\ last' = [i \in Items |-> "absent"]
  /\ firm' = {i \in Items : \A t \in Tasks : out[t] = NoWrite}
  /\ removed' = {}
  /\ UNCHANGED <<todo, out, used, failures>>

\* The app ends, or reloads.
Kill ==
  /\ \E t \in Tasks : ~Idle(t)
  /\ todo' = [t \in Tasks |-> <<>>]
  /\ out' = [t \in Tasks |-> NoWrite]
  /\ UNCHANGED <<disk, starts, used, last, firm, removed, failures>>

Next ==
  \/ \E t \in Tasks : GetItem(t) \/ SetItem(t)
  \/ \E x \in Contacts : AddContact(x) \/ UpdateContact(x) \/ RemoveContact(x)
  \/ SyncContacts
  \/ \E m \in Msgs : \/ ReceiveMessage(m) \/ DeleteMessage(m)
                     \/ \E taken \in BOOLEAN : SendMessage(m, taken)
  \/ \E c \in Talks, ms \in SUBSET Expiring : OpenThread(c, ms)
  \/ \E c \in Talks, op \in {"archive", "unarchive", "delete"} : ChangeThread(c, op)
  \/ \E g \in Groups, us \in SUBSET Contacts : CreateGroup(g, us)
  \/ \E g \in Groups : LeaveGroup(g)
  \/ ClearAllData
  \/ Kill

Spec == Init /\ [][Next]_vars

-----------------------------------------------------------------------------
(* Properties                                                              *)

Statuses == {"absent", "present", "sending", "sent", "received"}
ThreadType == [state : {"none", "open", "archived"}, members : SUBSET (Contacts \cup {Me}),
               msgs : SUBSET (Msgs \X Statuses)]

\* Lists, tasks and histories have their types; a chat that is not there is empty, and a list
\* is only held by a task that has a call to make.
TypeOK ==
  /\ DOMAIN disk = DOMAIN Empty
  /\ disk.contacts \subseteq Contacts /\ disk.deleted \subseteq Contacts
  /\ disk.chats \in [Contacts -> ThreadType] /\ disk.groups \in [Groups -> ThreadType]
  /\ \A c \in Threads : NoSuch(disk, c) => Thread(disk, c) = NoThread
  /\ \A t \in Tasks : Idle(t) => out[t] = NoWrite
  /\ last \in [Items -> Statuses] /\ firm \subseteq Items
  /\ removed \subseteq Contacts /\ starts \in 0..MaxStarts /\ failures \in 0..MaxFailures

\* What the device says of item i.
Shown(i) ==
  IF i \in Contacts THEN IF i \in disk.contacts THEN "present" ELSE "absent"
  ELSE IF i \in Groups THEN IF NoSuch(disk, i) THEN "absent" ELSE "present"
  ELSE LET p == {q \in Thread(disk, In[i]).msgs : q[1] = i}
       IN IF p = {} THEN "absent" ELSE (CHOOSE q \in p : TRUE)[2]

\* What a call did to a contact, group or message lasts, through restarts and whatever other
\* calls do to the same list later, until a call about that item changes it: only a call that
\* had read the list before and wrote it after can undo it (saveMessage, updateMessageStatus,
\* addContact and the others write whole lists back), or one whose read of it failed.
ChangesLast == \A i \in firm : Shown(i) = last[i]

\* A contact the user has deleted while nobody else was changing the contacts does not come
\* back with the list of another device, however syncs, updates and additions of other
\* contacts overlap: the tombstone stays until somebody adds the contact again.
RemovalHolds == \A x \in removed : x \notin disk.contacts /\ x \in disk.deleted
=============================================================================
