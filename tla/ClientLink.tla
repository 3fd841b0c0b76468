----------------------------- MODULE ClientLink -----------------------------
(***************************************************************************)
(* How a client reaches others (client/lib/socket.ts and                   *)
(* client/lib/webrtc-channel.ts): its socket to a relay, its direct        *)
(* channels to peers, and the transport state that chooses between them.   *)
(*                                                                         *)
(* The client is one event loop over module-level variables; what is hard  *)
(* is that its functions call each other through listeners, wait in the    *)
(* middle, and are called by handlers of sockets and connections that were *)
(* replaced long ago.  State c holds the variables, each operator on it is *)
(* one function, run to its end or to its first await, and each action is  *)
(* one event.  The relay is up or not as it likes; Socket.IO ("io") opens  *)
(* a lost connection again, the WebSocket of the Go relay ("ws") does not. *)
(* A peer is whoever speaks the channel protocol.                          *)
(***************************************************************************)
EXTENDS Naturals, Sequences

CONSTANTS
  Peers,         \* the contacts with a Nostr key
  MaxSockets,    \* bound: how many sockets are opened
  MaxConns,      \* bound: how many peer connections are made
  MaxAwaits,     \* bound: how many connect handlers, and calls of reconnectWithTor, wait
  NoPeer

ASSUME ClientLinkAssumption ==
  /\ MaxSockets \in Nat /\ MaxConns \in Nat /\ MaxAwaits \in Nat
  /\ NoPeer \notin Peers

VARIABLES
  kind,    \* "io" or "ws": which relay the client talks to
  chat,    \* the contact whose chat is open, NoPeer if none
  c        \* the client

vars == <<kind, chat, c>>

(***************************************************************************)
(* c.link[s], the state of socket s: "trying", "up", "lost" (by a ws, for  *)
(* good), "closing" (a ws that has yet to say so) or "closed".             *)
(* c.conns[k], peer connection k: whose it is, its state, whether the      *)
(* channel and the connection are there, whether the peer has said hello,  *)
(* its timer, and whether it was closed.                                   *)
(***************************************************************************)
Init ==
  /\ kind \in {"io", "ws"}
  /\ chat = NoPeer
  /\ \E w \in {"none", "on"} : c =
         [link       |-> <<>>,
          socket     |-> 0,          \* the current socket, 0 if null
          registered |-> {},         \* the sockets the relay knows the user by
          buffered   |-> {},         \* those that will say so once they are up
          user       |-> FALSE,      \* currentUserId is set
          healthy    |-> FALSE,      \* relayHealthy
          state      |-> "relay",    \* transportState
          webrtc     |-> w,          \* "on", "off" while Tor is, or "none" in the native apps
          inits      |-> 0,          \* calls of initSocket that await the Tor settings
          tors       |-> 0,          \* calls of reconnectWithTor that do
          registers  |-> 0,          \* connect handlers that await the groups
          conns      |-> <<>>,
          peers      |-> [p \in Peers |-> 0],
          overlapped |-> FALSE]      \* history: two calls of initSocket overlapped

Step(d) ==
  /\ Len(d.link) + d.inits <= MaxSockets /\ Len(d.conns) <= MaxConns
  /\ d.registers + d.tors <= MaxAwaits
  /\ c' = d
  /\ UNCHANGED kind

-----------------------------------------------------------------------------
(* The functions                                                           *)

\* socket?.connected
Up(d) == d.socket > 0 /\ d.link[d.socket] = "up"

\* socket.disconnect(), apart from its event.
Shut(d) ==
  IF d.socket = 0 \/ d.link[d.socket] \notin {"trying", "up"} THEN d
  ELSE [d EXCEPT !.link[d.socket] = IF kind = "io" THEN "closed" ELSE "closing",
                 !.registered = @ \ {d.socket}, !.buffered = @ \ {d.socket}]

\* initSocket after its first check, up to its await.
Begin(d) ==
  [Shut(d) EXCEPT !.user = TRUE, !.inits = @ + 1, !.overlapped = @ \/ d.inits > 0]

\* (faulty: the relay is not tried again)
failedOnly(d) == [d EXCEPT !.state = "p2p_failed"]

\* reportTransportState("p2p_failed"): without a relay, try it again.
failed(d) ==
  IF d.state \in {"p2p_ready", "p2p_connecting"} /\ ~Up(d) /\ d.user
  THEN Begin([d EXCEPT !.state = "p2p_failed"])
  ELSE [d EXCEPT !.state = "p2p_failed"]

isPeerConnected(d, p) ==
  /\ d.peers[p] > 0
  /\ LET k == d.conns[d.peers[p]]
     IN k.state = "connected" /\ k.hello /\ k.channel = "open" /\ k.pc = "connected"

\* connectToPeer and acceptPeerConnection, up to their first await.
connectToPeer(d, p) ==
  IF d.webrtc # "on" THEN failed(d)
  ELSE IF \/ isPeerConnected(d, p)
          \/ d.peers[p] > 0 /\ d.conns[d.peers[p]].state = "connecting"
  THEN d
  ELSE [d EXCEPT !.state = "p2p_connecting",
                 !.conns = Append(@, [of |-> p, state |-> "connecting", channel |-> "new",
                                      pc |-> "new", hello |-> FALSE, timer |-> "awaited",
                                      closed |-> FALSE]),
                 !.peers[p] = Len(d.conns) + 1]

\* setRelayHealth(false): the open chat prepares a direct channel.
unhealthy(d) ==
  LET told == [d EXCEPT !.healthy = FALSE]
      dialed == IF chat = NoPeer THEN told ELSE connectToPeer(told, chat)
  IN IF ~d.healthy THEN d
     ELSE IF dialed.state = "p2p_ready" THEN dialed ELSE failed(dialed)

\* setRelayHealth(true) and what else a socket's connect handler does before its await.
healthy(d) ==
  [d EXCEPT !.healthy = TRUE,
            !.state = IF @ \in {"p2p_ready", "p2p_connecting"} THEN @ ELSE "relay",
            !.registers = @ + 1]

\* socket.disconnect(): Socket.IO tells the handlers at once.
Hangup(d) == IF kind = "io" /\ Up(d) THEN unhealthy(Shut(d)) ELSE Shut(d)

\* (faulty: the socket there is stays)
initBeside(d) == IF Up(d) /\ d.user THEN d ELSE [d EXCEPT !.user = TRUE, !.inits = @ + 1]

initSocket(d) == IF Up(d) /\ d.user THEN d ELSE Begin(Hangup(d))

disconnect(d) ==
  IF d.socket = 0 THEN d ELSE [Hangup(d) EXCEPT !.socket = 0, !.user = FALSE]

\* reportTransportState("p2p_ready"): the relay is not needed any more.
ready(d) ==
  IF d.state = "p2p_ready" THEN d
  ELSE LET e == [d EXCEPT !.state = "p2p_ready"] IN IF Up(e) THEN Hangup(e) ELSE e

tryMarkReady(d, k) ==
  IF d.conns[k].hello /\ d.conns[k].channel = "open" /\ d.conns[k].pc = "connected"
  THEN ready([d EXCEPT !.conns[k].state = "connected", !.conns[k].timer = "off"])
  ELSE d

\* (faulty: the map keeps what was closed)
clearPeerKeeps(d, p) == IF d.peers[p] = 0 THEN d ELSE [d EXCEPT !.conns[d.peers[p]].closed = TRUE]

\* pc.close(): the channel ends with the connection, and so does a dial that still waits.
Ended(k) ==
  [k EXCEPT !.closed = TRUE, !.channel = "closed", !.pc = "failed", !.timer = "off"]

\* The connection that stands for the peer goes, whichever it is.
clearPeer(d, p) ==
  IF d.peers[p] = 0 THEN d
  ELSE [d EXCEPT !.conns[d.peers[p]] = Ended(@), !.peers[p] = 0]

markFailed(d, k) ==
  LET e == [d EXCEPT !.conns[k].state = "failed", !.conns[k].hello = FALSE]
  IN clearPeer(IF e.state = "p2p_failed" THEN e ELSE failed(e), d.conns[k].of)

-----------------------------------------------------------------------------
(* The relay's socket                                                      *)

InitSocket == Step(initSocket(c)) /\ UNCHANGED chat

\* torEnabled is set from the stored settings, which say what the user has chosen last.
LooksAtTor(d) ==
  IF d.webrtc = "none" THEN {d} ELSE {[d EXCEPT !.webrtc = w] : w \in {"off", "on"}}

\* initSocket after its await: a new socket takes the place of the current one.
OpenSocket ==
  /\ c.inits > 0
  /\ \E d \in LooksAtTor(c) :
       Step([d EXCEPT !.inits = @ - 1, !.link = Append(@, "trying"), !.socket = Len(c.link) + 1])
  /\ UNCHANGED chat

\* The connect handler of socket s.
connected(d, s) ==
  healthy([d EXCEPT !.link[s] = "up",
                    !.registered = IF s \in d.buffered THEN @ \cup {s} ELSE @,
                    !.buffered = @ \ {s}])

Connect(s) == c.link[s] = "trying" /\ Step(connected(c, s)) /\ UNCHANGED chat

\* The rest of a connect handler: register on the socket that is current now.
Register ==
  /\ c.registers > 0
  /\ LET s == c.socket
         d == [c EXCEPT !.registers = @ - 1]
     IN IF Up(d) THEN Step([d EXCEPT !.registered = @ \cup {s}])
        ELSE IF s > 0 /\ d.link[s] = "trying" THEN Step([d EXCEPT !.buffered = @ \cup {s}])
        ELSE Step(d)
  /\ UNCHANGED chat

\* Socket s has no connection any more.
Gone(d, s) ==
  [d EXCEPT !.link[s] = IF kind = "io" THEN "trying" ELSE "lost",
            !.registered = @ \ {s},
            !.buffered = IF kind = "io" THEN @ ELSE @ \ {s}]

\* A connection is lost or refused, or a ws says it is closed: the handlers of s hear it.  A ws
\* that fails says so before it says that it is closed, while it still takes itself for connected.
Lose(s) ==
  /\ \/ c.link[s] \in {"trying", "up"} /\ Step(unhealthy(Gone(c, s)))
     \/ kind = "ws" /\ c.link[s] = "up" /\ Step(Gone(unhealthy(c), s))
     \/ c.link[s] = "closing" /\ Step(unhealthy([c EXCEPT !.link[s] = "closed"]))
  /\ UNCHANGED chat

ReconnectToServer == c.user /\ Step(initSocket(disconnect(c))) /\ UNCHANGED chat

ReconnectWithTor ==
  /\ \/ c.user /\ Step([disconnect(c) EXCEPT !.tors = @ + 1])
     \/ c.tors > 0 /\ \E d \in LooksAtTor(c) : Step(initSocket([d EXCEPT !.tors = @ - 1]))
  /\ UNCHANGED chat

ActivateP2PMode == Step([c EXCEPT !.state = "p2p_connecting"]) /\ UNCHANGED chat

DeactivateP2PMode ==
  LET d == [c EXCEPT !.state = "relay"]
  IN Step(IF c.user THEN initSocket(d) ELSE d) /\ UNCHANGED chat

-----------------------------------------------------------------------------
(* Peers                                                                   *)

\* The user opens another chat, or none.
OpenChat(p) == chat # p /\ chat' = p /\ UNCHANGED <<kind, c>>

\* A message is sent in the open chat without the relay, or its contact dials.
Dial == chat # NoPeer /\ Step(connectToPeer(c, chat)) /\ UNCHANGED chat

\* The await of a dial is over: the offer is out.
Offered(k) ==
  /\ c.conns[k].timer = "awaited"
  /\ Step([c EXCEPT !.conns[k].timer = "on"])
  /\ UNCHANGED chat

\* Or it is rejected, which nobody catches: the connection stays as it is, without a timer.
Rejected(k) ==
  /\ c.conns[k].timer = "awaited"
  /\ Step([c EXCEPT !.conns[k].timer = "never"])
  /\ UNCHANGED chat

\* The channel opens, the connection is made, the peer says hello: in any order.
Progress(k) ==
  /\ c.conns[k].timer \notin {"awaited", "never"} /\ ~c.conns[k].closed
  /\ \/ c.conns[k].channel = "new"
        /\ Step(tryMarkReady([c EXCEPT !.conns[k].channel = "open",
                                       !.conns[k].state = "handshaking"], k))
     \/ c.conns[k].pc = "new"
        /\ Step(tryMarkReady([c EXCEPT !.conns[k].pc = "connected"], k))
     \/ c.conns[k].channel = "open"
        /\ Step(tryMarkReady([c EXCEPT !.conns[k].hello = TRUE], k))
     \/ c.conns[k].channel = "open" /\ Step(markFailed(c, k))
  /\ UNCHANGED chat

\* The channel or the connection breaks, which several events tell: as many times as they like
\* to, and also after the connection was closed.
Break(k) ==
  /\ c.conns[k].timer \notin {"awaited", "never"}
  /\ Step(markFailed([c EXCEPT !.conns[k].channel = "closed", !.conns[k].pc = "failed"], k))
  /\ UNCHANGED chat

\* connectTimeout
Timeout(k) ==
  LET d == [c EXCEPT !.conns[k].timer = "off"]
  IN /\ c.conns[k].timer = "on"
     /\ Step(IF isPeerConnected(c, c.conns[k].of) THEN d ELSE markFailed(d, k))
     /\ UNCHANGED chat

Next ==
  \/ InitSocket \/ OpenSocket \/ Register \/ ReconnectToServer \/ ReconnectWithTor
  \/ ActivateP2PMode \/ DeactivateP2PMode \/ Dial
  \/ \E s \in DOMAIN c.link : Connect(s) \/ Lose(s)
  \/ \E p \in Peers \cup {NoPeer} : OpenChat(p)
  \/ \E k \in DOMAIN c.conns : Offered(k) \/ Rejected(k) \/ Progress(k) \/ Break(k) \/ Timeout(k)

Spec == Init /\ [][Next]_vars
-----------------------------------------------------------------------------
(* Properties                                                              *)

ConnType ==
  [of : Peers, state : {"connecting", "handshaking", "connected", "failed"},
   channel : {"new", "open", "closed"}, pc : {"new", "connected", "failed"},
   hello : BOOLEAN, timer : {"awaited", "never", "on", "off"}, closed : BOOLEAN]

\* The variables have their types, and the connection that stands for a peer is one of the
\* peer's that was not closed.
TypeOK ==
  /\ kind \in {"io", "ws"} /\ chat \in Peers \cup {NoPeer}
  /\ \A s \in DOMAIN c.link : c.link[s] \in {"trying", "up", "lost", "closing", "closed"}
  /\ c.socket \in 0..Len(c.link)
  /\ c.state \in {"relay", "p2p_connecting", "p2p_ready", "p2p_failed"}
  /\ c.webrtc \in {"none", "off", "on"}
  /\ \A k \in DOMAIN c.conns : c.conns[k] \in ConnType
  /\ \A p \in Peers : c.peers[p] > 0 => /\ c.conns[c.peers[p]].of = p
                                         /\ ~c.conns[c.peers[p]].closed

\* A client that is up on the relay is known to it, or a handler that will say so still runs,
\* whatever sockets and handlers were there before.
Announced == Up(c) => c.socket \in c.registered \/ c.registers > 0

\* What the client believes of the relay is so.  relayHealthy, on which every message's way
\* depends, is true only while some socket is up or has yet to report its end; and the relay
\* knows the client, or will.  Unless two calls of initSocket overlapped, there is one socket,
\* and with Socket.IO it is up exactly when relayHealthy says so.
HealthTracks ==
  /\ c.healthy => \E s \in DOMAIN c.link : c.link[s] \in {"up", "closing"}
  /\ Announced
  /\ ~c.overlapped =>
       /\ \A s \in DOMAIN c.link : c.link[s] \in {"trying", "up"} => s = c.socket
       /\ kind = "io" => (c.healthy <=> Up(c))

\* A connection whose end would make the client try the relay again.
LeadsOn(k) == ~k.closed /\ k.channel = "open"

\* A client that gave up the relay for a peer does not stay with neither: there is a socket
\* that tries, a call that will open one, or a peer connection, if only a forgotten one, whose
\* channel is open.  (A ws the relay has closed is left to the user.)
NotStranded ==
  c.user => \/ c.inits > 0 \/ c.tors > 0
            \/ c.socket > 0 /\ c.link[c.socket] \in {"trying", "up", "lost"}
            \/ \E k \in DOMAIN c.conns : LeadsOn(c.conns[k])
=============================================================================
