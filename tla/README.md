# CipherNode in TLA+

Formal models of CipherNode, a messenger without accounts: clients encrypt, a
relay forwards, and two clients may talk directly over WebRTC. The modules are
written from the source; every definition that models code is listed in
`PROJECT.json` ("map") with its lines. Paths below are relative to the
repository.

- [The system](#the-system)
- [Modules](#modules)
- [Runs](#runs)
- [Proofs](#proofs)
- [What the checks found](#what-the-checks-found)
- [Not modelled](#not-modelled)
- [Plan](#plan)

To check a model, `tlc -workers 2 -config RelayHub.cfg MC_RelayHub.tla`;
to check the proofs, `tlapm RelayHub_proofs.tla`.

## The system

### Go relay (`server/go`): the backend the README names

| Part | State | Operations | What must be right |
|---|---|---|---|
| Hub, `internal/ws/hub.go` | `clients` (user id to connection) under a RWMutex; per connection `userID` and a channel of 32 frames | `ServeWS`, `readLoop`, `writeLoop`, `close`, `handle` and its handlers, `to`, `broadcast`, `Run` | a message exists once and reaches only its recipient; the newest connection of a user stays reachable; nobody waits for a slow client |
| Store, `internal/storage/memory.go` | `pending`, `pendingContacts`, `groups`, `files`, keys, contact backups under one RWMutex | one locked call each; `Cleanup` every minute | what is queued is delivered at the next register or expires |
| Groups, hub and store | the member slice of a group | `group:create`, `join`, `leave`, `message`, and `register` | the fan-out reaches each member once |
| Gate, `internal/security`, `internal/ratelimit` | `seen` nonces, `hits` per connection | `Check`, `Allow` | no signed frame is handled twice; a bounded rate, and no refusal without cause |
| Files, `internal/http/router.go`, `internal/files` | a record per file with `DownloadCount` and `ExpiresAt` | upload, download, info, `Cleanup` | the download limit; no early and no missing deletion |
| Configuration, process, other routes | environment, HTTP server | `Load`, start, shutdown | (single reads and writes) |

Every connection has a **reader** goroutine, which runs one handler after the
other, and a **writer** goroutine, which empties the channel. Handlers of
different connections meet in the hub's map, in the store and in each other's
channels; each HTTP request is a goroutine too, and `Run` cleans up on a ticker.
What is hard: a handler looks something up, releases the lock and acts on it; a
send on a closed channel panics and unwinds a handler half-way; full channels
drop; the network goes away without notice; slices are shared outside the lock;
the time is read before the lock. Nothing is persistent, so a crash is a return
to the initial state.

### Node relay (`server/routes.ts`)

The older relay on Socket.IO, with the same events plus **anonymous matching**
(`matchingQueue`, `matchSessions`, `userToSession`). It is one event loop: each
handler is atomic, and the difficulty is in sequences: a duplicate id after a
message was dropped, a queue at its limit of 500, a socket with two user ids, a
reconnect before the old socket's `disconnect`, timers that remove what handlers
still refer to.

### First Go relay (`server-go`)

The predecessor of the Go relay, with a scanner that blacklists addresses and
node ids. Every map has a lock of its own, a verdict starts callbacks that take
users out of the map while readers put others in, and the close of a connection
deletes the user's entry without the identity check the later relay has.

### Clients

| Part | State | What is hard |
|---|---|---|
| Transport, `client/lib/socket.ts` | transport state, the global socket, health | `initSocket` and its handlers wait in the middle; late events of older sockets |
| Peer-to-peer, `client/lib/webrtc-channel.ts`, `webrtc-p2p.ts` | `peers`, one state and handshake flag each | simultaneous dialling, timeouts of abandoned connections, fall-back to the relay |
| Storage, `client/lib/storage.ts`, `App.tsx` | contact, chat and group lists in AsyncStorage, tombstones | read, wait, write back; a server copy that is merged in |
| Desktop Tor, `electron/tor-manager.ts`, `main.ts`, and the two screens that ask for it | Tor process, proxy, stored settings | calls overlap, and the process ends when it likes; window, app and Tor restart separately |
| Other parts of the shells, `electron`, `apps/desktop` | OnionShare sessions, the sidecar | (calls of external programs) |
| Cryptography, steganography, links | none | pure computation |

The parts interact as follows. A client's transport opens a WebSocket and
registers; the relay's gate admits each frame and the hub's handler forwards it
to a channel or queues it in the store; the next register empties the queue. The
same events carry the signals with which two clients set up WebRTC, after which
the client closes its relay socket. Shared files go over HTTP to the store; the
hub announces them and its ticker collects them.

## Modules

### `StoreForward`: what a relay promises

For each message a `stage`: fresh, in transit, stored, received or gone, and the
number of times a client received it. A message is in one stage at a time; it is
received only out of transit, so at most once, and stays received; only a
storable message is ever stored; what is gone stays gone.

### `RelayHub`: the hub over its store

| Model | Code |
|---|---|
| `phase[c]`, `hand`, `target`, `todo` | where the reader goroutine stands, and its local variables: the message it relays, `target` of `to()`, the slice it popped |
| `owner[c]` | `Client.userID` |
| `up`, `writing`, `closed`, `buf` | the network, the writer goroutine, `close(c.send)`, the channel |
| `clients`, `pending`, `contacts` | `Hub.clients`, `Memory.pending`, `Memory.pendingContacts` |
| `sent`, `kept`, `got`, `claimed` | history for the properties; no action reads `kept` or `got`; `sent` keeps a frame from being sent twice and `claimed` is only recorded |

A step is one access to shared state: a locked section, one channel operation, or
one frame written. So `register` is `Register`, `Announce`, `PopContacts`, `Give`
for each notice, `PopMessages`, `Give` for each message; and `directMessage` is
`Receive` (the lookup), then `Deliver`, or `Store`. Between any two of them any
other goroutine may run. `Unlist` and `CloseChannel` are the two halves of
`close`, which run after a failed read and after a panic. A panic
(`DeliverPanics`, `AnnouncePanics`) unwinds the handler into `close`; net/http
recovers from it. `Disconnect` is the network; nobody notices until the reader
fails or the writer writes. `Cleanup` may remove any of what is queued: message
ages are abstracted to "may have outlived MessageTTL". `Write` is a frame the client
takes, whenever it does, and `WriteLost` one that is written after the client has gone.

What a frame carries is abstracted to its kind: `store` (message), `live`
(`p2pOnly` messages, `file:share`, `webrtc:*`, `p2p:file-offer`: dropped when
nobody is there) and `contact` (`contact:add`, merged per sender and
acknowledged). Replies and announcements are `Ctl`: they use up room in a
channel, and nothing else distinguishes them. A sent frame is followed from then
on, so a client that sends the same content again sends another frame. A sender
writes its own user id into a frame, or the id it registered under.

### `GroupFanout`: groups

`GetGroup` returns a slice, and `groupMessage` walks it without the lock while
`RemoveGroupMember` moves members inside the same array. So the module models
the array (`cells`, with the capacity behind the slice's `len`), the running
removal (`leaver`, `readAt`, `writeAt`: one turn of its loop is one step), and
for each message its own view: `sharing` while its slice is in the group's array,
`older` once the group has moved to another. The race is a data race in Go's
sense; user ids have equal lengths, so a torn string is still one of the ids the
position has held, and a read returns the current one. Delivery to one member is
one step.

### `FileStore`: shared files of the three relays

`relay` says which one. On the Go relay `Read` is `GetFile` and the decision on what
was read; `Update` or `Delete` is the second store call, and `snap` the handler's
copy of the record. The Node relay (one turn of its event loop) and the first Go
relay (one lock) decide and count at once: `AtOnce`, with `Spent` for when each of
them deletes. The Node relay refuses an upload without room (`NodeUpload`,
`MaxFilesInMemory`). Time is abstracted to "ExpiresAt has passed" (`past`). Each
request is for one file, made once.

### `EnvelopeGate`: limiter and replay protector

`Pass` is the limiter and the part of `Check` before the lock, with the clock it
read in `at`; `Check` is the locked section, and runs with that older time. `Tick`
advances the clock; a goroutine stands at the lock for at most `Stall`.
`TtlAssumption`, `Ttl >= 2 * Skew + Stall`, is what the deployment must keep:
the defaults (1 h, 5 min) do, and the configuration does not enforce it.
Stamp 0 stands for an envelope without nonce or timestamp, which `Check` accepts
unseen.

### `Matching`: anonymous matching of the Node relay

| Module | Code |
|---|---|
| `matchingQueue`, `matchSessions`, `userToSession`, `connectedUsers` | the maps of the same name in `server/routes.ts`; a session is the empty set or the set of one record |
| `aged` | whose `joinedAt` is past the limit of the minute timer |
| `link`, `requests`, `events`, `current` | Socket.IO: each socket in order both ways; what was on its way to the client is lost when the socket breaks; `broken` until the relay notices |
| `greeting` | the client's connect handler, between its `await` and `register` |
| `status`, `sessionId` | the state of `MatchingScreen` |
| `pressed` | history: who pressed Connect for which session |

Each relay handler is one step, as in the event loop, and so is each event the
screen takes and each button. A client gets a new socket while the relay still
takes the old one for open, so that `Disconnect` may come after the next
`Register`, and requests of a broken socket may still be handled.

### `NodeRelay`: users, messages and groups of the Node relay

| Model | Code (`server/routes.ts`) |
|---|---|
| `connectedUsers`, `pendingMessages`, `deliveredMessageIds`, `groups` | the maps of the same name; `NoGroup` where `groups` has no entry |
| `rooms` | the Socket.IO rooms a socket has joined |
| `link` | a socket; `broken` until the relay notices |
| `got`, `sends`, `forgotten`, `claimed`, `listed` | history: copies received, frames sent, ids lost, ids a socket registered under, who registered with a group since the relay started |

Each handler is one step: `Register` with its rejoin of groups and its flush, `Frame`
(`message`, `group:message`, `file:share` and the signals, by `Kind`), `GroupCreate`,
which sets the list whatever it was, `GroupJoin`, `GroupLeave`, `Disconnect`, the two
timers and `Restart`, which empties every map while the clients stay. What is emitted to
a broken socket is lost.

### `ScannedRelay`: the first Go relay

| Model | Code (`server-go`) |
|---|---|
| `connectedUsers`, `pendingMessages`, `deliveredMessageIds`, `groups` | the relay's maps, each under its own lock |
| `blacklist` | `blacklistedIPs` and `blacklistedNodes` |
| `reader[c]`, `userID[c]` | where the reader goroutine of a connection stands, with what it holds; `ClientConn.UserID` |
| `scan[c]`, `calls` | the scan goroutine; the running disconnect callbacks |
| `latest`, `taken`, `slipped` | history: who registered last, entries taken by another connection's close, connections condemned between check and insertion |

A step is what happens under one lock, or one write to a connection. `Register` is
followed by `Name`, `List`, `Pop` and a `Flush` for each message; an event by `Take`,
then `Look` and `Send` or `Queue` for each recipient. `Scan` and `ScanNode` are the two
verdicts, `Disconnect` a callback, `Finish` the deferred close.

### `ClientLink`: transport and peers of one client

`c` holds the module variables of `client/lib/socket.ts` and `webrtc-channel.ts`; each
operator on it is one function run to its end or its first `await` (`initSocket`,
`failed` for `reportTransportState`, `clearPeer`, ...), and each action one event: a
socket connects or is lost, a handler goes on after its `await`, a connection makes
progress, breaks or times out, a chat is opened, a mode is chosen. Sockets and
connections keep their late events after they were replaced. A plain WebSocket that
fails tells its handlers first while it still takes itself for connected (`onerror`),
then once more; a connection's end is told by several events, each of which runs
`markFailed`; and a dial may be rejected while it waits (`Rejected`). `c.webrtc` is
whether WebRTC can be used: never in the native apps, elsewhere unless Tor was on when
the settings were read last (`LooksAtTor`). The relay is up as it likes; `kind` is
Socket.IO or the Go relay's plain WebSocket. A peer is whoever speaks the channel
protocol.

### `ClientStore`: the lists a client keeps

`disk` is AsyncStorage with contacts, tombstones, chats and groups. A handler is a
task, `todo[t]` the calls it has still to make and `out[t]` what the current one will
write: `GetItem` is the read with the computation after it, `SetItem` the write. The
functions of `client/lib/storage.ts` are operators of the same names; `ReceiveMessage`,
`SyncContacts`, `SendMessage`, ... are the handlers of `App.tsx` and of the screens. A
read may fail, which the code takes for an empty list, and `Kill` ends the app
between any two steps.

### `DesktopTor`: Tor on the Electron desktop

| Model | Code |
|---|---|
| `torProcess`, `full`, `torEnabled`, `proxy` | `torProcess`, `bootstrapProgress` (100 or not), `torEnabled` of `main.ts`, the session's proxy |
| `call[i]` | a call of `tor:enable` or `tor:disable`: where its handler stands, the screen that awaits it, the process it started |
| `waiting` | the calls that await `setProxy` |
| `settings`, `onboarded`, `listening` | the stored `torSettings` and onboarding flag; whether the settings screen listens to `tor:status-update` |
| `port`, `binary` | who listens on the SOCKS port; whether there is a Tor to start |
| `clean`, `heard`, `crossed` | history: see `ShownIsSo` and `StopFindsTor` |

The screens' handlers up to their call are `ToggleOn`, `ToggleOff`, `FinishWithTor` and
`FinishWithout`; `PortOpen`, `Spawn`, `Download` are `startTor` after the look at the
port; `Bootstrapping` (progress below 100 %), `Bootstrapped`, `SpawnError`, `Timeout`,
`Exit` are its handlers, which run whatever has become of the call. `Reload`,
`ResetIdentity`, `Reopen` (macOS: the last window is closed and another opened) and
`Restart` end window or app.

### `MC_*` and `*_proofs`

There is an `MC_` module for each module above but `StoreForward`; they give the constants
their values for TLC. The `_proofs` modules hold the theorems; `GateAndFiles_proofs`
(`EnvelopeGate`, `FileStore`) and `Client_proofs` (`ClientStore`, `DesktopTor`) each hold
those of two components that share nothing, which is why `FileStore` and `DesktopTor`
call their specifications `FilesSpec` and `DesktopSpec`. Operators marked
`(faulty: ...)` are altered versions of the operator after them; each is a
bug the properties must find, and none is used in a specification.

## Runs

| Run | Checks | Instance | Why it is enough |
|---|---|---|---|
| `hub` (`RelayHub.cfg`) | `RegisteredOpen`, `Confined`, `SenderOrder`, `NewestWins`, `LossNeedsCause`, and `Mailbox`, the refinement of `StoreForward` | one connection of a, one that registers as a, b or both in turn; two messages from b to a, of one kind and so interchangeable; channels of one slot; 1.0 million states | two connections are what a hand-over needs: old entry, new entry, a lookup of either, close and panic in every order. Order needs two messages of one sender; one slot makes every emit race with the writer and with dropping; the second id produces stale entries and sends on closed channels |
| `hub_live` (`RelayHub_live.cfg`) | `NoDuplicate`, `Mailbox`, `HandlerReturns`, `TransitEnds` | one connection each, two contact notices, one slot, fair goroutines, clients that may stop reading; 0.2 million states | two notices of one sender merge; one slot is full at once, so whoever would wait does, and a client that stops reading stalls its writer at the first frame |
| `groups` | `TypeOK`, `ListAgrees`, `OnlyMembers`, `CompleteUnlessDisturbed` | three users, one message, lists of two and three members, up to one spare cell; 84 thousand states | three members are the least with which a removal in front of the walker moves one past it; joins fill the spare cell and then outgrow the array |
| `files` | `LimitUnlessRaced`, `AvailableUntilUsed`, `ExpiredGoes` | files with limits 1 and 2, four requests, each of the three relays | four requests overlap two updates of a file with one deletion and one late update |
| `gate` | `TypeOK`, `HandledOnce`, `RateExact` | two connections, two nonces, skew 1, stall 1, ttl 3, limit 2 in a window of 3, time up to 7; 1.0 million states | the shortest ttl allowed; time for a frame to be accepted at both ends of its skew, its nonce to be swept and a window to pass twice; the second nonce lets one connection sweep while another stands at the lock with a copy of the first |
| `matching` | `TypeOK`, `MapsAgree`, `ConnectedByBoth`, `EndsAreTold` | two users, one session, three sockets together; a client sends when nothing is under way on its socket; 1.0 million states | a pairing takes two; the third socket is a reconnect of either before or after the relay noticed the break. What crosses on the way still crosses: a request sent before an event is handled after it, and the relay's events pile up without a bound of their own. One session id is enough for its whole life, and the users start, cancel and wait on after it |
| `node` | `QueuedMeansAbsent`, `EntriesLeadSomewhere`, `OnceWhileRemembered`, `FanoutComplete` | two users, a socket of b and one that may be a's, b's or both's; a message sent twice, a group message, a file link, a signal, two frames in a run; a queue of one; one restart; 0.8 million states | the second socket is a reconnect, a second id, and a stale entry; a queue of one is full at once; the restart makes members come back in every order |
| `scanned` | `MessagesOnce`, `EntriesLead`, `VerdictHolds` | two users, a device each of b and of a-or-b at two addresses, one condemned; a message sent twice, a group message, a signal, two of them in a run; 1.6 million states | a flush, a sender between its look and its queueing, a close and a verdict can all be under way for the same user |
| `link` | `TypeOK`, `HealthTracks`, `NotStranded` | two peers (interchangeable), two sockets, two connections, one waiting handler, both kinds of relay, with and without WebRTC; 0.9 million states | the current and a replaced socket, and the same for a peer's connection or two peers at once |
| `store` | `TypeOK`, `ChangesLast`, `RemovalHolds` | two contacts, one group, three messages, three handlers, one failed read; 0.5 million states | a stale write needs two handlers, and a third to change what it undoes |
| `desktop_tor` | `ShownIsSo`, `StopFindsTor`, `CallsReturn` | three calls, one restart or reload, with and without a Tor of the machine and a binary; 0.6 million states | two calls overlap and a third begins alone after them, or a process outlives the call and the app that started it |
| `matching_waits` | `WaitsAfterAccepting`, violated | two users, two sockets | see below |

All runs check for deadlock, but three in which a bound ends every behaviour: the
handlers of `store`, the connections of `scanned`, each opened once, and the calls of
`desktop_tor` are used up in the end.

Bounds: a connection is opened once, a frame is sent once (`RelayHub`); a request
is made once (`FileStore`); the clock ends at `Horizon` (`EnvelopeGate`); only
`Movers` join and leave by frames of their own, and a decoded list has at most
`Slack` spare cells (`GroupFanout`). A connection may register any number of
times. In `Matching` a session id is used once, as in the code, and `Sessions`,
`MaxSockets` and `MaxUnderWay` bound the ids, the sockets and what clients send
ahead. `MaxSends`, `MaxFrames`, `MaxEvents`, `MaxRestarts` bound what is sent and how
often the relay restarts (`NodeRelay`, `ScannedRelay`); `MaxSockets`, `MaxConns` and
`MaxAwaits` what a client opens and has waiting (`ClientLink`); `Tasks`, `MaxStarts` and
`MaxFailures` its handlers (`ClientStore`); `MaxCalls` and `MaxRestarts` those of
`DesktopTor`.

### Properties

`RelayHub`: `Mailbox` is the refinement of `StoreForward`: stage and receipts are
computed from where the message is. It says that no interleaving of lookup,
emit, store, pop, flush, panic and clean-up brings a message back that was lost or
received, delivers it twice, or keeps a live one. `NoDuplicate` looks at all
places at once. `SenderOrder` states how far the relay keeps a sender's order:
messages reach a connection as they were sent, except that one which had to be
stored may be overtaken by one that had not, or by a stored one of another kind
(register flushes notices first), sender or recipient. `LossNeedsCause` is the
complement: a message for storage gets lost only when the connection it was bound for
was full, broken or being closed, when its time ran out, or when a later notice of
its sender to its recipient replaced it. `TransitEnds` says where a message may stay for
ever: nowhere but in the channel of a client that stays connected and does not read,
and then in one place of it; every other one is received, stored or lost in the end.

`GroupFanout`: `CompleteUnlessDisturbed` is what the aliased array leaves of "every
member gets the message once", in the order of the list: it holds for every fan-out
during which nobody leaves, also when members join or the group is created anew. A
leave during the fan-out can make it skip a member or reach one twice.

`Matching`: `MapsAgree` relates the three maps that six handlers
and the timer change: nobody is in two sessions, nobody is refused for a session
that is gone, nobody is matched while waiting. `ConnectedByBoth` goes back from
the relay's `connected` to buttons pressed, across late requests and reconnects.
`EndsAreTold` says that no screen keeps a partner whose session was ended by
anybody but the timer, as long as the socket the session was found on is still
the user's; with a new socket the notices get lost (a hazard, not a property).

`FileStore`: the lost update of two downloads is confined: a file that was not
raced for keeps its limit (`LimitUnlessRaced`), none goes early
(`AvailableUntilUsed`), and one that a late `UpdateFile` puts back is collected again
(`ExpiredGoes`). That the stored count itself never passes the limit is proved
(`CountsAreWithinLimits`).

`NodeRelay`: `QueuedMeansAbsent` says that nothing is left waiting for a user who is
registered, in whatever order frames, a second id, breaks and returns come.
`EntriesLeadSomewhere` delimits the entries that `disconnect` forgets: only a socket
with two ids leaves one. `OnceWhileRemembered` counts copies wherever they are, against
the times the relay forgot the id; it is about messages and group messages, since
`file:share` and the signals have no such check (each is sent once here).
`FanoutComplete` is an action property about the moment a group message is first
handled, over all ways in which a group comes back after a restart.

`ScannedRelay`: `MessagesOnce` counts the copies of an event in the queue, with the
clients and in the hands of every reader. `EntriesLead` states what the close without
identity check leaves of "who registered last is found". `VerdictHolds`: a verdict
reaches every connection it is about, except one that had passed the check and was not
yet in the map.

`ClientLink`: `HealthTracks` relates `relayHealthy`, which decides the way of every
message, to the sockets there are, and says that the relay knows the client or will;
what exactly holds depends on whether two calls of `initSocket` overlapped.
`NotStranded`: a client that hung up the relay for a peer never ends with neither, in any
order of failures, timeouts and late events: it tries the relay, or has a direct
connection whose channel is open.

`ClientStore`: `ChangesLast` says what the read-await-write functions still guarantee: a
change is undone only by a call that had read the list before and wrote it after, or
whose read failed; otherwise it lasts, through restarts too. `RemovalHolds`: a contact
deleted while nobody else changed the contacts does not come back with the list of
another device.

`DesktopTor`: `ShownIsSo` relates what the screen shows, the main process's flag and the
proxy, once the calls have ended, except after a call made while another ran, after a
window that missed an answer, and after a start of the app, which enables nothing.
`StopFindsTor`: the process that stopping would kill is the one that runs, unless two ran
side by side. `CallsReturn`: a call to enable ends, however its process does.

### Fairness

`RelayHub`: weak fairness of each connection's `Handler` (the steps of a handler or
close that has begun) and of `WriteLost`, a write to a client that is gone. Go's
scheduler runs every goroutine that can run; a `sync.RWMutex` does not starve a waiter;
the channel operations of handlers never block. `Handler` includes the close after a
disconnect: the reader's `ReadMessage` fails once the network is gone and nothing else
keeps it. No fairness is assumed for clients, the network or the ticker: a connected
client may send nothing for ever, and may stop reading, so `Write` is not fair.
`WriteJSON` (hub.go:129) has no deadline: the writer of such a client stands still until
the connection breaks. `FileStore`: weak fairness of `Cleanup` (the relays' timers) and
of the second half of a request. `DesktopTor`: weak fairness of the look at the port
(its socket has a timeout of 2 s), of the bootstrap timer and of `setProxy`; none for
Tor, the user or the download. The other modules have safety properties only.

## Proofs

For every number of users, groups, connections, sockets, messages, files, requests and
nonces, and every bound:

| Theorem | States | Argument |
|---|---|---|
| `TypeCorrect` (`RelayHub_proofs`) | `[](TypeOK /\ PhaseOK)` | `PhaseOK` says what a phase implies: a connection in `emit` or `store` holds a message, one that emits has a target, one that gives has something left, so that `Head` and `Tail` stay within their domain. One lemma per group of actions |
| `RegisteredConnectionsAreOpen` | `[]RegisteredOpen` | strengthened to: a connection that is unlisted or gone is in no entry under its own id, and only gone connections are closed |
| `TheNewestConnectionStays` | `NewestWins` | an action property, from the type invariant |
| `MessagesAreConfined` | `[](Confined /\ RightQueue)` | `Confined` is not inductive. Needed as well (`ConfineInv`): queues hold only messages for their user, an entry of the map is a connection that claimed the id, a target has claimed its message's destination, and so has a connection that is popping |
| `NothingIsDuplicated` | `[]NoDuplicate` | `HubInv`, with `PlaceInv`: the set `Where[m]` of places a message is in has one member at most, queues hold it once, and a handler holds what it should. Each step moves some messages from one place to another, or loses them, and leaves the rest: one lemma of effect per action, from which the invariant and the next two theorems follow |
| `RelayStoresAndForwards` | `Mailbox` | the refinement of `StoreForward`: the stage of a message is a function of its place (`StageFacts`), so each effect is a step of `StoreForward`, several of its messages at once included, or a stutter |
| `LossesHaveCauses` | `LossNeedsCause` | an action property, from the same effects: the places a message can be lost at are those with a cause |
| `OrderIsKept` | `[]SenderOrder` | `OrderInv` follows the order along the way: what a connection has received, holds in its channel, and has yet to give are one line (`LineIsConcatenation`); what waits in a queue keeps the order of its flow; what is in a handler's hand was sent last by its connection |
| `FileTypes`, `CountsAreWithinLimits`, `OnlyRacesExceedTheLimit`, `FilesStayAvailable` (`GateAndFiles_proofs`) | the four invariants | one inductive invariant: a request about to update read a count below the limit; for a file that is not raced the count equals what was served |
| `TypeCorrect`, `TheListIsTheGroup`, `OnlyMembersAreReached`, `UndisturbedFanoutsAreComplete` (`GroupFanout_proofs`) | `[]TypeOK`, `[]ListAgrees`, `[]OnlyMembers`, `[]CompleteUnlessDisturbed` | one inductive invariant, `GroupInv`: in the middle of a removal the list is its compacted front, a gap and the rest (`RemovalInv`); a walker's array either is the list's or was left behind by an append that outgrew it; every cell a walker may read holds who was in the group when it began or joined since, and, undisturbed, the array in front of it is the one it began with |
| `TypeCorrect`, `TheMapsAgree`, `BothHavePressed` (`Matching_proofs`) | `[]TypeOK`, `[]MapsAgree`, `[]ConnectedByBoth` | one inductive invariant, `MatchInv`, of what is under way as well: what names a session on a screen, in a request or in an event belongs to one of its two users and to a socket no older than the one it was found on (`Knows`), and an acceptance in the record or on its way was preceded by the button (`PressInv`) |
| `BothAreTold` | `EndsAreTold` | an action property: `MatchInv` makes the partner that the ending handler looks up the session's other user, and the socket the one of the map |
| `TypeCorrect` (`NodeRelay_proofs`) | `[]TypeOK` | one step per action |
| `NothingWaitsForThePresent`, `EntriesLead` | `[]QueuedMeansAbsent`, `[]EntriesLeadSomewhere` | both are inductive with the type: every way into `connectedUsers` empties the queue, and only an absent user's queue grows |
| `CopiesAreBounded` | `[]OnceWhileRemembered` | strengthened with `Allowance`: as long as the id is not remembered there is one copy less; the lemmas say how appending to and flushing a queue change the count of a message in it |
| `FanoutsAreComplete` | `FanoutComplete` | an action property, from `listed[g] \subseteq groups[g]` |
| `TypeCorrect` (`ScannedRelay_proofs`) | `[]TypeOK` | with what each place of a reader implies (`ReaderOK`) |
| `EntriesAreKept`, `VerdictsHold` | `[]EntriesLead`, `[]VerdictHolds` | one inductive invariant, which adds: a connection that was never opened is in no map, and what a running callback is about is blacklisted |
| `NobodyHasTwo` | `[]MessagesOnce` | `CopyInv`: there are at most as many copies as were allowed, where an id in memory counts as one and each removal of it as one more. A step moves one reader, so it is enough that this reader, the queue and the client together gain no copy (`Enough`); one lemma per action. Needed as well: nobody is about to send to the sender who is skipped, and lists name nobody twice |
| `NoReplay` (`GateAndFiles_proofs`) | `[]HandledOnce` | a handled frame's nonce is either still in `seen`, recorded no earlier than its stamp minus the skew, or the frame is out of the skew of every clock reading to come; uses `TtlAssumption` |
| `TheRateIsExact`, `TypeCorrect` | `[]RateExact`, `[]TypeOK` | `RateInv`: the limiter's list is a suffix of the ascending times at which frames passed, and the ones it dropped are out of the window for good; so a full list is `Limit` frames within the window, and the frame before them is not |
| `TypeCorrect`, `TheRelayIsAsBelieved`, `NobodyIsStranded` (`ClientLink_proofs`) | `[]TypeOK`, `[]HealthTracks`, `[]NotStranded` | one inductive invariant, `LinkInv`, in parts, since the client's functions call each other where it does not hold: a lemma per function says which parts it needs and gives. Needed as well: a Socket.IO socket is never half closed; unless calls of `initSocket` overlapped one waits at most, and then no socket tries; in the states `relay` and `p2p_failed` the client does try the relay (`Falls`), so that only the other two lean on a peer |
| `StoreTypeOK`, `ChangesAlwaysLast`, `RemovalAlwaysHolds` (`Client_proofs`) | `[]TypeOK`, `[]ChangesLast`, `[]RemovalHolds` | one inductive invariant, `StoreInv`. None of the three is inductive, because a list that was read is written later. Needed as well (`FirmInv`): what is firm is so in every list a task holds too, unless the task's own call is about that item; `OnceInv`: a message or group that is created once is nowhere, and in nobody's calls, before the call that creates it has read; `RemovedInv`: no task holds a list with a removed contact, or without its tombstone, or has a call left that adds it; `LineInv`: the calls of a task are in the order in which the handlers queue them. `ReadEffect` says what a read can make a task hold, from one lemma per function of `storage.ts` (`SaveWrites`, ...): the list it read, changed for the items the call is about |
| `ShownAlways`, `StopAlwaysFinds` (`Client_proofs`) | `[]ShownIsSo`, `[]StopFindsTor` | `ShownInv`: the proxy is what the last of the calls waiting for `setProxy` wants, and `torEnabled` agrees with it when nobody waits (`ProxyInv`); if the last call began alone it is the only one pending and the stored setting is what it wanted (`CleanInv`); whoever has heard the answer shows it only while it is true (`HeardInv`); and the onboarding, which is there once, waits for its call (`OnboardInv`). `ProcInv`: two processes that are there at once have both been recorded as such. The steps are first sorted by what they do to a call, a window and a process (`Keeps`, `Tells`, `Proceeds`, ...), so that each part is argued once per kind of step |

Where an invariant had to be strengthened, TLC checked the strengthening on the run's
instance too (of `StoreInv`, the parts that are not about types).

Assumptions: `ConstantsAssumption`, `FilesAssumption`, `GroupAssumption`,
`MatchingAssumption`, `GateAssumption`, `TtlAssumption` (for `NoReplay` only),
`NodeRelayAssumption`, `ScannedRelayAssumption` and `ListsAssumption` (for
`NobodyHasTwo` only: a client lists itself and contacts it selected, each once; from a
list that named somebody twice the relay would send twice), and `ClientStoreAssumption`,
by which a contact, a group and a message are different things and contacts are finitely
many; the proofs about `ClientLink` and `DesktopTor` need none. TLC evaluates each on
every run of its module. `RelayHub`'s, `FileStore`'s, `NodeRelay`'s and `ScannedRelay`'s
type invariants are proved and no run repeats them.

Every invariant and every action property of the passing runs is a theorem, and so is
the refinement. Only model-checked are the liveness properties (`HandlerReturns`,
`TransitEnds`, `ExpiredGoes`, `CallsReturn`), which are out of the prover's reach under
fairness, as is ENABLED; and `WaitsAfterAccepting`, which does not hold. Out of reach as
well is induction over data: what `SelectSeq` and `Subsequences` compute is used through
their type only, and `ClientStore` says of each item at once what the code's loops make
of a list. No module declares a RECURSIVE operator.

## What the checks found

One run ends in a counterexample. `matching_waits`: the first of two matched users to
press Connect puts the other one's screen into "Waiting for partner to accept..."
(MatchingScreen.tsx:170, 895), without the buttons. The relay waits for the other's
acceptance (routes.ts:855), which can no longer be given: unless both press before the
notice arrives they never get connected, and the relay's ten-minute timer, which
tells nobody, ends it.

The other observations are behaviours that the models have too, and that the
properties leave out by name:

- *Go relay.* A contact notice can wait while its recipient is online, against the
  comment over `contactAdd` (hub.go:249): `contactAdd` finds nobody (276), the recipient
  registers and empties its queue (230), then the notice is queued (277). Overlapping
  downloads read the same count (router.go:94), so that a file is handed out more
  often than "Maximum downloads per shared file" (DOCKER.md:68) allows.
- *Node relay.* The id of a message is remembered (routes.ts:505) before the message is
  queued; when the queue is full (524) or the message `p2pOnly` (540), it is dropped, and
  the client's retry is taken for a duplicate. A socket with two ids leaves an entry
  behind (756).
- *First Go relay.* The close of an old connection takes out whoever holds the user's
  entry (server.go:620).
- *Client transport.* The events `webrtc:channel:*` are routed by no relay, and in those
  that come over Nostr `peerId` is the recipient's own id, so that between two clients
  of this repository no channel gets ready; `ClientLink` takes a peer that answers with
  the id the code compares with. With the Go relay's WebSocket nothing opens a lost
  connection again but a failed dial or the user. A connection that was abandoned
  (webrtc-channel.ts:116) can still get ready, and the relay is hung up for it. A late
  close of a replaced WebSocket clears `relayHealthy` while the new one is up. A dial
  that is rejected (webrtc-channel.ts:281, 331) leaves its entry "connecting" without a
  timer, and later dials to that peer return at once (249, 304). `activateP2PMode` does
  not cut the relay, as its comment says (socket.ts:280), and `p2p_failed` may stay
  while the relay is healthy. Nothing calls `leaveGroup` (socket.ts:701): who leaves a
  group on the screen stays a member on the relay.
- *Client storage.* Messages that arrive together may overwrite each other: the "Global
  mesaj handler" (App.tsx:158) does not wait for the save before. A failed read counts as
  an empty list (storage.ts:219), and the next save stores it. A wipe can be undone by a
  write that was under way.
- *Desktop Tor.* After a restart of the app the stored setting says that Tor is on and
  socket.ts:503 reports `tor_connected`, but nothing calls `tor:enable`, so the session has
  no proxy. A disable during another call's look at the port ends with Tor on and the
  switch off. Overlapping starts leave a Tor that nothing stops. A downloaded Tor is not
  where `getTorBinaryPath` looks, so that call fails. `tor:verify` (main.ts:260) uses
  Node's `https`, not the session's proxy, and the onboarding takes its answer for the
  truth. `socket.ts` reads the Tor setting only when it opens a connection, and the switch
  does not open one on the desktop: WebRTC stays available meanwhile, against README.md:72
  and THREAT_MODEL.md:59.

## Not modelled

The models cover the parts whose difficulty is in the order of events. Most of the
repository's lines are not of that kind: the screens' rendering and styles, the
configuration pages, cryptography, statistics and payments, packaging. Mapping them
would mean modelling what no property could be about.

- Sizes, formats, encryption and what payloads say: no property depends on them.
- `user:lookup` results, public keys, contact backups, metrics, the HTTP rate limiters,
  the update page: single locked accesses of values that no other operation relates to.
  A lookup is a `Reply`.
- Shutdown: `Hub.Close` closes the listed connections, which is `Disconnect` of each.
- The first Go relay's answer to a ping (server.go:646). It is the one write to a registered
  connection without the lock of the connection, so it can meet a write of another reader;
  gorilla/websocket panics when it notices two writers, and the reader runs in a goroutine
  that nothing recovers (582). The Socket.IO client of this repository (version 4) answers
  pings and sends none, so the model leaves the end of the process out.
- `matching:message` and `matching:file_share`, which change no state of the relay.
- The panic of a handler in the middle of a group fan-out (see the plan).
- File transfer and calls over WebRTC (`webrtc-p2p.ts`). A transfer is offered only if
  `isP2PReady` (69), which between two clients of this repository it never is. What the
  code shows: `onbufferedamountlow` (187) is never cleared, so two loops of `sendNext` can
  run at once.
- OnionShare (`electron/onion-share.ts`): no code of the client calls it. `app:reset`: its
  dialog is an `Alert`, which does nothing on the web build that Electron shows.
- Nostr signalling's own queueing, acknowledgements of single messages, updates of a
  group's name, settings and identity: single values, written as they are.
- Window, updater, biometric lock, WebTorrent and the Tauri sidecar: calls of external
  programs.

## Plan

What would come next, in this order:

1. A group message over `RelayHub`'s steps, with the panic in the middle.
2. Two `ClientLink`s with a relay between them, so that the direct channel's other end
   follows the code as well.
3. Liveness of `Matching`'s timer: everybody is released in the end.
