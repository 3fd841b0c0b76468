----------------------------- MODULE FileStore -----------------------------
(***************************************************************************)
(* Shared files of the three relays: the Go relay ("go": router.go,        *)
(* files.go and memory.go), the Node relay ("node": server/routes.ts) and  *)
(* the first Go relay ("first": server-go/server.go).                      *)
(*                                                                         *)
(* net/http runs every request in a goroutine of its own.  The store of    *)
(* the Go relay locks each operation, but a download is two of them: it    *)
(* reads the record and later writes it back with its own count, so that   *)
(* downloads interleave.  The other two count in one step, the event loop  *)
(* of the Node relay in one turn, the first Go relay under one lock.       *)
(***************************************************************************)
EXTENDS Integers, FiniteSets

CONSTANTS
  Files,      \* file ids; Upload draws a fresh one each time
  Requests,   \* GET requests; each is made once
  MaxOf,      \* MaxOf[f]: SharedFile.MaxDownloads
  MaxFilesInMemory,   \* MAX_FILES_IN_MEMORY of the Node relay
  NoFile

ASSUME FilesAssumption ==
  /\ MaxOf \in [Files -> Nat]
  /\ MaxFilesInMemory \in Nat
  /\ NoFile \notin Nat

VARIABLES
  relay,      \* which of the three it is
  files,      \* files[f]: the DownloadCount in the relay's memory, or NoFile
  uploaded,   \* the ids that Upload has returned
  past,       \* the files whose ExpiresAt has passed
  pc,         \* pc[r]: "new", "update" or "delete" (the store call to come), "done"
  wants,      \* wants[r]: the file request r is for
  snap,       \* snap[r]: the DownloadCount request r read
  served,     \* history: served[f], the responses that carried the data of f
  raced       \* history: the files some download wrote back over a newer record

filesVars == <<relay, files, uploaded, past, pc, wants, snap, served, raced>>

FilesInit ==
  /\ relay \in {"go", "node", "first"}
  /\ files = [f \in Files |-> NoFile]
  /\ uploaded = {}
  /\ past = {}
  /\ pc = [r \in Requests |-> "new"]
  /\ wants \in [Requests -> Files]
  /\ snap = [r \in Requests |-> 0]
  /\ served = [f \in Files |-> 0]
  /\ raced = {}

\* Service.Upload of data that is not too large.
Upload(f) ==
  /\ f \notin uploaded
  /\ files' = [files EXCEPT ![f] = 0]
  /\ uploaded' = uploaded \cup {f}
  /\ UNCHANGED <<relay, past, pc, wants, snap, served, raced>>

GoUpload(f) == relay = "go" /\ Upload(f)

FirstUpload(f) == relay = "first" /\ Upload(f)

\* Without room for one more: 503.
NodeUpload(f) ==
  /\ relay = "node"
  /\ Cardinality({g \in Files : files[g] # NoFile}) < MaxFilesInMemory
  /\ Upload(f)

\* Time passes the file's ExpiresAt.
Expire(f) ==
  /\ f \in uploaded \ past
  /\ past' = past \cup {f}
  /\ UNCHANGED <<relay, files, uploaded, pc, wants, snap, served, raced>>

\* What a request does with the record it has read: 404, 410, /info, or the data.  ExpiresAt
\* is not looked at.
AfterRead(f, infoOnly) ==
  IF files[f] = NoFile THEN "done"
  ELSE IF files[f] >= MaxOf[f] THEN "delete"
  ELSE IF infoOnly THEN "done" ELSE "update"

\* store.GetFile
Read(r, infoOnly) ==
  LET f == wants[r]
  IN  /\ relay = "go" /\ pc[r] = "new"
      /\ pc' = [pc EXCEPT ![r] = AfterRead(f, infoOnly)]
      /\ snap' = [snap EXCEPT ![r] = IF files[f] = NoFile THEN 0 ELSE files[f]]
      /\ UNCHANGED <<relay, files, uploaded, past, wants, served, raced>>

\* (faulty: the count is not written back)
UpdateForgotten(r) ==
  LET f == wants[r]
  IN  /\ pc[r] = "update"
      /\ served' = [served EXCEPT ![f] = @ + 1]
      /\ pc' = [pc EXCEPT ![r] = "done"]
      /\ UNCHANGED <<relay, files, uploaded, past, wants, snap, raced>>

\* file.DownloadCount++, store.UpdateFile and the response with the data.  UpdateFile puts
\* the record in whether or not it is still there.
Update(r) ==
  LET f == wants[r]
  IN  /\ pc[r] = "update"
      /\ files' = [files EXCEPT ![f] = snap[r] + 1]
      /\ served' = [served EXCEPT ![f] = @ + 1]
      /\ raced' = IF files[f] = snap[r] THEN raced ELSE raced \cup {f}
      /\ pc' = [pc EXCEPT ![r] = "done"]
      /\ UNCHANGED <<relay, uploaded, past, wants, snap>>

\* store.DeleteFile and the 410 response.
Delete(r) ==
  /\ pc[r] = "delete"
  /\ files' = [files EXCEPT ![wants[r]] = NoFile]
  /\ pc' = [pc EXCEPT ![r] = "done"]
  /\ UNCHANGED <<relay, uploaded, past, wants, snap, served, raced>>

\* A request of which nothing is left to do but what AfterRead says, at once.
AtOnce(r, infoOnly) ==
  LET f == wants[r]
      next == AfterRead(f, infoOnly)
  IN  /\ pc[r] = "new"
      /\ pc' = [pc EXCEPT ![r] = "done"]
      /\ files' = [files EXCEPT ![f] = IF next = "update" THEN @ + 1
                                        ELSE IF next = "delete" THEN NoFile ELSE @]
      /\ served' = [served EXCEPT ![f] = IF next = "update" THEN @ + 1 ELSE @]
      /\ UNCHANGED <<relay, uploaded, past, wants, snap, raced>>

NodeDownload(r) == relay = "node" /\ AtOnce(r, FALSE)

\* /info of the Node relay does not look at the count.
NodeInfo(r) ==
  /\ relay = "node" /\ pc[r] = "new"
  /\ pc' = [pc EXCEPT ![r] = "done"]
  /\ UNCHANGED <<relay, files, uploaded, past, wants, snap, served, raced>>

FirstDownload(r, infoOnly) == relay = "first" /\ AtOnce(r, infoOnly)

\* (faulty: an expired file is kept while it has downloads left)
SpentUsed(f) == files[f] # NoFile /\ files[f] >= MaxOf[f]

\* (faulty: a file goes one download early)
SpentEarly(f) == files[f] # NoFile /\ (f \in past \/ files[f] + 1 >= MaxOf[f])

\* The record of a file that is expired or used up.
Spent(f) == files[f] # NoFile /\ (f \in past \/ files[f] >= MaxOf[f])

\* The part of the relay's timer that is about files (of the Go relay: Memory.Cleanup).
Cleanup ==
  /\ files' = [f \in Files |-> IF Spent(f) THEN NoFile ELSE files[f]]
  /\ UNCHANGED <<relay, uploaded, past, pc, wants, snap, served, raced>>

Serve(r) == Update(r) \/ Delete(r)

FilesNext ==
  \/ \E f \in Files : GoUpload(f) \/ NodeUpload(f) \/ FirstUpload(f) \/ Expire(f)
  \/ \E r \in Requests :
       \/ \E infoOnly \in BOOLEAN : Read(r, infoOnly) \/ FirstDownload(r, infoOnly)
       \/ NodeDownload(r) \/ NodeInfo(r)
       \/ Serve(r)
  \/ Cleanup

FilesSpec == FilesInit /\ [][FilesNext]_filesVars

\* The timer fires every minute or quarter of an hour, and a request that was read is
\* answered.
FairSpec == FilesSpec /\ WF_filesVars(Cleanup) /\ \A r \in Requests : WF_filesVars(Serve(r))

-----------------------------------------------------------------------------
(* Properties                                                              *)

\* Every variable has its shape.
FilesTypeOK ==
  /\ relay \in {"go", "node", "first"}
  /\ files \in [Files -> Nat \cup {NoFile}]
  /\ uploaded \in SUBSET Files
  /\ past \in SUBSET uploaded
  /\ pc \in [Requests -> {"new", "update", "delete", "done"}]
  /\ wants \in [Requests -> Files]
  /\ snap \in [Requests -> Nat]
  /\ served \in [Files -> Nat]
  /\ raced \in SUBSET Files

\* However downloads overlap, the count in the store never exceeds the limit: no response
\* reports a negative remainingDownloads.
CountWithinLimit ==
  \A f \in Files : files[f] # NoFile => files[f] <= MaxOf[f]

\* A file is handed out at most MaxDownloads times ("Maximum downloads per shared file",
\* DOCKER.md:68), unless it is the Go relay's and a download wrote back over a record that had
\* changed since it was read.
LimitUnlessRaced ==
  \A f \in Files : served[f] <= MaxOf[f] \/ (relay = "go" /\ f \in raced)

\* No overlap of downloads, deletions and ticks makes a file go early: it is there until it
\* expires or has been handed out as often as its uploader allowed.
AvailableUntilUsed ==
  \A f \in uploaded \ past : served[f] < MaxOf[f] => files[f] # NoFile

\* An expired file is collected, also when a late download put it back after a collection.
ExpiredGoes ==
  \A f \in Files : f \in past ~> files[f] = NoFile
=============================================================================
