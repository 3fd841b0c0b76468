-------------------------- MODULE ClientLink_proofs --------------------------
(***************************************************************************)
(* Theorems about ClientLink, for any peers and any number of sockets,     *)
(* peer connections and waiting calls.                                     *)
(*                                                                         *)
(* A step of the client is a function of its state that is built from      *)
(* others, some of which are called where the invariant does not hold: so  *)
(* each lemma says what one function needs of a state and what it gives.   *)
(***************************************************************************)
EXTENDS ClientLink, TLAPS

-----------------------------------------------------------------------------
(* The inductive invariant                                                 *)

\* The states of a socket.
LinkStates == {"trying", "up", "lost", "closing", "closed"}
\* The states of the transport.
States == {"relay", "p2p_connecting", "p2p_ready", "p2p_failed"}

\* The type of a client.
Clients ==
  [link : Seq(LinkStates), socket : Nat, registered : SUBSET Nat, buffered : SUBSET Nat,
   user : BOOLEAN, healthy : BOOLEAN, state : States, webrtc : {"none", "off", "on"},
   inits : Nat, tors : Nat, registers : Nat,
   conns : Seq(ConnType), peers : [Peers -> Nat], overlapped : BOOLEAN]

\* The current socket is up or tries to be.
Trying(d) == d.socket > 0 /\ d.link[d.socket] \in {"trying", "up"}

\* The shape of a client of a relay of kind K: a Socket.IO socket closes at once.
Shape(K, d) ==
  /\ d \in Clients
  /\ d.socket <= Len(d.link)
  /\ K = "io" => \A s \in DOMAIN d.link : d.link[s] # "closing"
  /\ \A p \in Peers : d.peers[p] > 0 => /\ d.peers[p] <= Len(d.conns)
                                         /\ d.conns[d.peers[p]].of = p
                                         /\ ~d.conns[d.peers[p]].closed

\* The relay knows the client or will; and unless two calls of initSocket overlapped, there is
\* one socket, and none while a call is about to open one.
Sockets(d) ==
  /\ Up(d) => d.socket \in d.registered \/ d.registers > 0
  /\ ~d.overlapped => /\ \A s \in DOMAIN d.link : d.link[s] \in {"trying", "up"} => s = d.socket
                      /\ d.inits > 0 => d.inits = 1 /\ ~Trying(d)

\* relayHealthy is so.
Health(K, d) ==
  /\ d.healthy => \E s \in DOMAIN d.link : d.link[s] \in {"up", "closing"}
  /\ K = "io" /\ ~d.overlapped => (d.healthy <=> Up(d))

\* A client between two events, but for what keeps it from being stranded.
Good(K, d) == Shape(K, d) /\ Sockets(d) /\ Health(K, d)

\* The client tries the relay, or is about to.
Tries(d) ==
  \/ d.inits > 0 \/ d.tors > 0
  \/ d.socket > 0 /\ d.link[d.socket] \in {"trying", "up", "lost"}

\* Without a peer it does so.
Falls(d) == d.user /\ d.state \in {"relay", "p2p_failed"} => Tries(d)

\* And with one, some connection to a peer leads on otherwise.
Stays(d) ==
  /\ Falls(d)
  /\ d.user => Tries(d) \/ \E k \in DOMAIN d.conns : LeadsOn(d.conns[k])

\* The invariant.
LinkInv ==
  /\ kind \in {"io", "ws"} /\ chat \in Peers \cup {NoPeer}
  /\ Good(kind, c) /\ Stays(c)

\* LinkInv is stronger than the properties.
LEMMA LinkInvSuffices == LinkInv => TypeOK /\ HealthTracks /\ NotStranded
<1> SUFFICES ASSUME LinkInv PROVE TypeOK /\ HealthTracks /\ NotStranded
  OBVIOUS
<1> USE DEF LinkInv, Good
<1>1. c \in Clients
  BY DEF Shape
<1>2. /\ \A s \in DOMAIN c.link : c.link[s] \in LinkStates
      /\ \A k \in DOMAIN c.conns : c.conns[k] \in ConnType
      /\ c.socket \in 0..Len(c.link) /\ c.state \in States /\ c.webrtc \in {"none", "off", "on"}
  BY <1>1 DEF Clients, Shape
<1>3. TypeOK
  BY <1>2 DEF TypeOK, Shape, LinkStates, States
<1>4. HealthTracks
  BY DEF HealthTracks, Announced, Sockets, Health
<1>5. NotStranded
  BY DEF NotStranded, Stays, Tries
<1> QED
  BY <1>3, <1>4, <1>5

\* LinkInv before the first step.
LEMMA LinkInitially == Init => LinkInv
<1> SUFFICES ASSUME Init PROVE LinkInv
  OBVIOUS
<1>1. c \in Clients
  BY DEF Init, Clients, States
<1>2. /\ c.link = <<>> /\ c.socket = 0 /\ c.user = FALSE /\ c.healthy = FALSE /\ c.inits = 0
      /\ \A p \in Peers : c.peers[p] = 0
  BY DEF Init
<1>3. Len(c.link) = 0 /\ DOMAIN c.link = {}
  BY <1>2
<1>4. Good(kind, c)
  BY <1>1, <1>2, <1>3 DEF Good, Shape, Sockets, Health, Up
<1>5. Stays(c)
  BY <1>2 DEF Stays, Falls
<1> QED
  BY <1>4, <1>5 DEF Init, LinkInv

-----------------------------------------------------------------------------
(* The relay's socket                                                      *)

\* The fields of a client.
LEMMA Fields ==
  ASSUME NEW d \in Clients
  PROVE  /\ d.link \in Seq(LinkStates) /\ DOMAIN d.link = 1..Len(d.link) /\ Len(d.link) \in Nat
         /\ d.socket \in Nat /\ d.registered \in SUBSET Nat /\ d.buffered \in SUBSET Nat
         /\ d.user \in BOOLEAN /\ d.healthy \in BOOLEAN /\ d.overlapped \in BOOLEAN
         /\ d.state \in States
         /\ d.inits \in Nat /\ d.tors \in Nat /\ d.registers \in Nat
         /\ d.conns \in Seq(ConnType) /\ DOMAIN d.conns = 1..Len(d.conns) /\ Len(d.conns) \in Nat
         /\ d.peers \in [Peers -> Nat]
BY DEF Clients

\* e is d but for the relay's sockets.
OnlySockets(d, e) ==
  /\ e.socket = d.socket /\ e.user = d.user /\ e.healthy = d.healthy /\ e.state = d.state
  /\ e.inits = d.inits /\ e.tors = d.tors /\ e.registers = d.registers
  /\ e.conns = d.conns /\ e.peers = d.peers /\ e.overlapped = d.overlapped

\* Shut ends the current socket, and that only.
LEMMA ShutEffect ==
  ASSUME NEW d, Shape(kind, d)
  PROVE  /\ Shut(d) \in Clients
         /\ OnlySockets(d, Shut(d))
         /\ Len(Shut(d).link) = Len(d.link)
         /\ \A s \in DOMAIN d.link : s # d.socket => Shut(d).link[s] = d.link[s]
         /\ ~Trying(d) => Shut(d) = d
         /\ Trying(d) => Shut(d).link[d.socket] = IF kind = "io" THEN "closed" ELSE "closing"
<1> DEFINE gone == IF kind = "io" THEN "closed" ELSE "closing"
           e == [d EXCEPT !.link[d.socket] = gone,
                          !.registered = @ \ {d.socket}, !.buffered = @ \ {d.socket}]
<1>1. d \in Clients /\ d.socket <= Len(d.link)
  BY DEF Shape
<1>2. CASE Trying(d)
  <2>1. Shut(d) = e
    BY <1>2 DEF Shut, Trying
  <2>2. d.socket \in 1..Len(d.link) /\ d.link \in Seq(LinkStates)
    BY <1>1, <1>2, Fields DEF Trying
  <2> DEFINE l == [d.link EXCEPT ![d.socket] = gone]
  <2>3. /\ l \in Seq(LinkStates) /\ Len(l) = Len(d.link) /\ l[d.socket] = gone
        /\ \A s \in DOMAIN d.link : s # d.socket => l[s] = d.link[s]
    BY <2>2 DEF LinkStates
  <2> HIDE DEF gone
  <2>4. /\ e \in Clients
        /\ e.link = l
        /\ OnlySockets(d, e)
    <3>1. e = [d EXCEPT !.link = l, !.registered = d.registered \ {d.socket},
                        !.buffered = d.buffered \ {d.socket}]
      OBVIOUS
    <3> HIDE DEF l
    <3> QED
      BY <1>1, <2>3, <3>1 DEF Clients, OnlySockets
  <2> QED
    BY <1>2, <2>1, <2>3, <2>4 DEF gone
<1>3. CASE ~Trying(d)
  <2>1. d.socket \in Nat
    BY <1>1, Fields
  <2>2. Shut(d) = d
    BY <1>3, <2>1 DEF Shut, Trying
  <2> QED
    BY <1>1, <1>3, <2>2 DEF OnlySockets
<1> QED
  BY <1>2, <1>3

\* After Shut the client is as good as before, but that a Socket.IO client that was up still
\* believes it is.
LEMMA ShutKeeps ==
  ASSUME NEW d, Shape(kind, d), Sockets(d)
  PROVE  /\ Shape(kind, Shut(d)) /\ Sockets(Shut(d)) /\ ~Trying(Shut(d))
         /\ Health(kind, d) /\ ~(kind = "io" /\ Up(d)) => Health(kind, Shut(d))
<1> DEFINE e == Shut(d)
<1>1. /\ e \in Clients
      /\ OnlySockets(d, e)
      /\ Len(e.link) = Len(d.link)
      /\ \A s \in DOMAIN d.link : s # d.socket => e.link[s] = d.link[s]
      /\ ~Trying(d) => e = d
      /\ Trying(d) => e.link[d.socket] = IF kind = "io" THEN "closed" ELSE "closing"
  BY ShutEffect
<1> HIDE DEF e
<1>2. /\ d \in Clients /\ d.socket <= Len(d.link) /\ d.socket \in Nat
      /\ DOMAIN d.link = 1..Len(d.link) /\ DOMAIN e.link = 1..Len(d.link)
  BY <1>1, Fields DEF Shape
<1>3. e.socket = d.socket /\ ~Trying(e)
  BY <1>1 DEF OnlySockets, Trying
<1>4. ~Up(e)
  BY <1>3 DEF Up, Trying
<1>5. \A s \in DOMAIN e.link :
        e.link[s] = d.link[s] \/ e.link[s] = IF kind = "io" THEN "closed" ELSE "closing"
  BY <1>1, <1>2
<1>6. Shape(kind, e)
  BY <1>1, <1>2, <1>5 DEF Shape, OnlySockets
<1>7. Sockets(e)
  <2>1. ASSUME ~e.overlapped, NEW s \in DOMAIN e.link, e.link[s] \in {"trying", "up"}
        PROVE  s = e.socket
    BY <1>1, <1>2, <1>5, <2>1 DEF Sockets, OnlySockets
  <2>2. ~e.overlapped /\ e.inits > 0 => e.inits = 1
    BY <1>1 DEF Sockets, OnlySockets
  <2> QED
    BY <1>3, <1>4, <2>1, <2>2 DEF Sockets
<1>8. ASSUME Health(kind, d), ~(kind = "io" /\ Up(d)) PROVE Health(kind, e)
  <2>1. CASE ~Trying(d)
    BY <1>1, <1>8, <2>1
  <2>2. CASE Trying(d)
    <3>1. d.socket \in DOMAIN e.link
      BY <1>2, <2>2 DEF Trying
    <3>2. CASE kind = "io"
      <4>1. d.link[d.socket] # "up"
        BY <1>8, <2>2, <3>2 DEF Up, Trying
      <4>2. \A s \in DOMAIN d.link : d.link[s] \in {"up", "closing"} => e.link[s] = d.link[s]
        BY <1>1, <2>2, <4>1 DEF Trying
      <4> QED
        BY <1>1, <1>2, <1>4, <1>8, <3>2, <4>2 DEF Health, OnlySockets
    <3>3. CASE kind # "io"
      <4>1. e.link[d.socket] = "closing"
        BY <1>1, <2>2, <3>3
      <4> QED
        BY <3>1, <3>3, <4>1 DEF Health
    <3> QED
      BY <3>2, <3>3
  <2> QED
    BY <2>1, <2>2
<1> QED
  BY <1>3, <1>6, <1>7, <1>8 DEF e

\* A call of initSocket begins where the relay is not up, or only the WebSocket of the Go relay,
\* whose close is yet to come.
LEMMA BeginKeeps ==
  ASSUME NEW d, Good(kind, d), ~(kind = "io" /\ Up(d))
  PROVE  /\ Good(kind, Begin(d)) /\ Stays(Begin(d)) /\ Tries(Begin(d)) /\ ~Trying(Begin(d))
         /\ Begin(d).state = d.state /\ Begin(d).conns = d.conns /\ Begin(d).peers = d.peers
         /\ Begin(d).socket = d.socket /\ Begin(d).user = TRUE
         /\ Begin(d).healthy = d.healthy /\ Len(Begin(d).link) = Len(d.link)
<1> DEFINE e == Shut(d)
           f == Begin(d)
           n == e.inits + 1
           b == e.overlapped \/ d.inits > 0
<1>1. e \in Clients /\ OnlySockets(d, e) /\ Len(e.link) = Len(d.link)
  BY ShutEffect DEF Good
<1>2. Shape(kind, e) /\ Sockets(e) /\ ~Trying(e) /\ Health(kind, e)
  BY ShutKeeps DEF Good
<1>3. f = [e EXCEPT !.user = TRUE, !.inits = n, !.overlapped = b]
  BY DEF Begin
<1> HIDE DEF e, f
<1>4. b \in BOOLEAN /\ n \in Nat /\ n > 0
  BY <1>1, Fields
<1> HIDE DEF n, b
<1>5. /\ f \in Clients
      /\ f.link = e.link /\ f.socket = e.socket /\ f.registered = e.registered
      /\ f.registers = e.registers /\ f.healthy = e.healthy /\ f.state = e.state
      /\ f.conns = e.conns /\ f.peers = e.peers
      /\ f.user = TRUE /\ f.inits = n /\ f.overlapped = b
  BY <1>1, <1>3, <1>4 DEF Clients
<1>6. ~Trying(f) /\ (Up(f) <=> Up(e))
  BY <1>2, <1>5 DEF Trying, Up
<1>7. Shape(kind, f)
  BY <1>2, <1>5 DEF Shape
<1>8. ~f.overlapped => ~e.overlapped /\ f.inits = 1
  <2>1. d.inits \in Nat /\ e.inits = d.inits
    BY <1>1, Fields DEF Good, Shape, OnlySockets
  <2>2. ~b => ~e.overlapped /\ ~(d.inits > 0)
    BY DEF b
  <2>3. ~(d.inits > 0) => n = 1
    BY <2>1 DEF n
  <2> QED
    BY <1>5, <2>2, <2>3
<1>9. Sockets(f)
  BY <1>2, <1>5, <1>6, <1>8 DEF Sockets
<1>10. Health(kind, f)
  BY <1>2, <1>5, <1>6, <1>8 DEF Health
<1>11. Tries(f) /\ Stays(f)
  BY <1>4, <1>5 DEF Tries, Stays, Falls
<1> QED
  BY <1>1, <1>5, <1>6, <1>7, <1>9, <1>10, <1>11 DEF Good, OnlySockets, f

\* reportTransportState("p2p_failed") does not leave the client without both.
LEMMA FailedKeeps ==
  ASSUME NEW d, Good(kind, d)
  PROVE  /\ Good(kind, failed(d))
         /\ Falls(d) => Stays(failed(d)) /\ (failed(d).user => Tries(failed(d)))
         /\ failed(d).state = "p2p_failed" /\ failed(d).user = d.user
         /\ failed(d).conns = d.conns /\ failed(d).peers = d.peers /\ failed(d).socket = d.socket
         /\ failed(d).healthy = d.healthy /\ Len(failed(d).link) = Len(d.link)
         /\ ~Trying(d) => ~Trying(failed(d))
<1> DEFINE e == [d EXCEPT !.state = "p2p_failed"]
<1>1. d \in Clients
  BY DEF Good, Shape
<1>2. /\ e \in Clients
      /\ e.link = d.link /\ e.socket = d.socket /\ e.registered = d.registered
      /\ e.registers = d.registers /\ e.healthy = d.healthy /\ e.state = "p2p_failed"
      /\ e.conns = d.conns /\ e.peers = d.peers /\ e.user = d.user /\ e.inits = d.inits
      /\ e.overlapped = d.overlapped /\ e.tors = d.tors
  BY <1>1 DEF Clients, States
<1>3. failed(d) = IF d.state \in {"p2p_ready", "p2p_connecting"} /\ ~Up(d) /\ d.user
                  THEN Begin(e) ELSE e
  BY DEF failed
<1> HIDE DEF e
<1>4. (Up(e) <=> Up(d)) /\ (Trying(e) <=> Trying(d)) /\ (Tries(e) <=> Tries(d))
  BY <1>2 DEF Up, Trying, Tries
<1>5. Good(kind, e)
  BY <1>2, <1>4 DEF Good, Shape, Sockets, Health
<1>6. CASE d.state \in {"p2p_ready", "p2p_connecting"} /\ ~Up(d) /\ d.user
  <2>1. failed(d) = Begin(e) /\ ~(kind = "io" /\ Up(e))
    BY <1>3, <1>4, <1>6
  <2>2. /\ Good(kind, Begin(e)) /\ Stays(Begin(e)) /\ Tries(Begin(e)) /\ ~Trying(Begin(e))
        /\ Begin(e).state = e.state /\ Begin(e).conns = e.conns /\ Begin(e).peers = e.peers
        /\ Begin(e).socket = e.socket /\ Begin(e).user = TRUE
        /\ Begin(e).healthy = e.healthy /\ Len(Begin(e).link) = Len(e.link)
    BY <1>5, <2>1, BeginKeeps
  <2>3. d.user = TRUE
    BY <1>1, <1>6, Fields
  <2> QED
    BY <1>2, <2>1, <2>2, <2>3
<1>7. CASE ~(d.state \in {"p2p_ready", "p2p_connecting"} /\ ~Up(d) /\ d.user)
  <2>1. failed(d) = e
    BY <1>3, <1>7
  <2>2. Up(d) => Tries(d)
    BY DEF Up, Tries
  <2>3. Falls(d) /\ d.user => Tries(d)
    BY <1>1, <1>7, <2>2, Fields DEF Falls, States
  <2>4. Falls(d) => Stays(e) /\ (e.user => Tries(e))
    BY <1>2, <1>4, <2>3 DEF Stays, Falls
  <2> QED
    BY <1>2, <1>4, <1>5, <2>1, <2>4
<1> QED
  BY <1>6, <1>7

-----------------------------------------------------------------------------
(* Peers                                                                   *)

\* e is d but for its peer connections and the transport state.
OnlyPeers(d, e) ==
  /\ e.link = d.link /\ e.socket = d.socket /\ e.registered = d.registered
  /\ e.user = d.user /\ e.healthy = d.healthy /\ e.overlapped = d.overlapped
  /\ e.inits = d.inits /\ e.tors = d.tors /\ e.registers = d.registers

\* What is so of the relay stays so.
LEMMA PeersApart ==
  ASSUME NEW d, NEW e, OnlyPeers(d, e)
  PROVE  /\ Sockets(d) => Sockets(e)
         /\ Health(kind, d) => Health(kind, e)
         /\ Tries(e) <=> Tries(d)
         /\ Trying(e) <=> Trying(d)
         /\ Up(e) <=> Up(d)
<1>1. (Up(e) <=> Up(d)) /\ (Trying(e) <=> Trying(d))
  BY DEF OnlyPeers, Up, Trying
<1>2. Tries(e) <=> Tries(d)
  BY DEF OnlyPeers, Tries
<1>3. Sockets(d) => Sockets(e)
  BY <1>1 DEF OnlyPeers, Sockets
<1>4. Health(kind, d) => Health(kind, e)
  BY <1>1 DEF OnlyPeers, Health
<1> QED
  BY <1>1, <1>2, <1>3, <1>4

\* A dial adds a connection, fails for want of WebRTC, or does nothing.
LEMMA ConnectKeeps ==
  ASSUME NEW d, NEW p \in Peers, Good(kind, d)
  PROVE  /\ Good(kind, connectToPeer(d, p))
         /\ Falls(d) => Falls(connectToPeer(d, p))
         /\ Stays(d) => Stays(connectToPeer(d, p))
         /\ connectToPeer(d, p).socket = d.socket
         /\ connectToPeer(d, p).healthy = d.healthy
         /\ Len(connectToPeer(d, p).link) = Len(d.link)
         /\ ~Trying(d) => ~Trying(connectToPeer(d, p))
<1> DEFINE n == [of |-> p, state |-> "connecting", channel |-> "new", pc |-> "new",
                 hello |-> FALSE, timer |-> "awaited", closed |-> FALSE]
           cs == Append(d.conns, n)
           m == Len(d.conns) + 1
           ps == [d.peers EXCEPT ![p] = m]
           e == [d EXCEPT !.state = "p2p_connecting", !.conns = cs, !.peers = ps]
           f == connectToPeer(d, p)
<1>1. d.webrtc = "on" => f \in {d, e}
  BY DEF connectToPeer
<1>2. CASE f = d
  BY <1>2
<1>3. CASE f = e
  <2>1. /\ d \in Clients /\ d.conns \in Seq(ConnType) /\ DOMAIN d.conns = 1..Len(d.conns)
        /\ Len(d.conns) \in Nat /\ d.peers \in [Peers -> Nat]
    BY Fields DEF Good, Shape
  <2>2. n \in ConnType /\ n.of = p /\ n.closed = FALSE
    BY DEF ConnType
  <2> HIDE DEF n
  <2>3. /\ cs \in Seq(ConnType) /\ DOMAIN cs = 1..m /\ cs[m] = n /\ m \in Nat /\ Len(cs) = m
        /\ \A k \in DOMAIN d.conns : k \in DOMAIN cs /\ cs[k] = d.conns[k]
    BY <2>1, <2>2
  <2>4. /\ ps \in [Peers -> Nat] /\ ps[p] = m
        /\ \A q \in Peers : q # p => ps[q] = d.peers[q]
    BY <2>1, <2>3
  <2>6. Len(d.conns) < Len(cs)
    BY <2>1, <2>3
  <2> HIDE DEF cs, ps, m
  <2>7. /\ e \in Clients /\ e.state = "p2p_connecting" /\ e.conns = cs /\ e.peers = ps
        /\ OnlyPeers(d, e)
    BY <2>1, <2>3, <2>4 DEF Clients, States, OnlyPeers
  <2> HIDE DEF e
  <2>9. Shape(kind, e)
    <3>1. ASSUME NEW q \in Peers, e.peers[q] > 0
          PROVE  /\ e.peers[q] <= Len(e.conns) /\ e.conns[e.peers[q]].of = q
                 /\ ~e.conns[e.peers[q]].closed
      <4>1. CASE q = p
        BY <2>2, <2>3, <2>4, <2>7, <4>1
      <4>2. CASE q # p
        <5>1. d.peers[q] \in Nat /\ d.peers[q] > 0 /\ e.peers[q] = d.peers[q]
          BY <2>1, <2>4, <2>7, <3>1, <4>2
        <5>2. d.peers[q] \in DOMAIN d.conns
          BY <2>1, <5>1 DEF Good, Shape
        <5> QED
          BY <2>1, <2>3, <2>6, <2>7, <5>1, <5>2 DEF Good, Shape
      <4> QED
        BY <4>1, <4>2
    <3>2. e.socket <= Len(e.link) /\ (kind = "io" => \A s \in DOMAIN e.link : e.link[s] # "closing")
      BY <2>7 DEF Good, Shape, OnlyPeers
    <3> QED
      BY <2>7, <3>1, <3>2 DEF Shape
  <2>10. Good(kind, e) /\ (Tries(e) <=> Tries(d)) /\ (Trying(e) <=> Trying(d))
    BY <2>7, <2>9, PeersApart DEF Good
  <2>11. Falls(e)
    BY <2>7 DEF Falls
  <2>12. Stays(d) => Stays(e)
    BY <2>3, <2>7, <2>10, <2>11 DEF Stays, OnlyPeers
  <2> QED
    BY <1>3, <2>7, <2>10, <2>11, <2>12 DEF OnlyPeers
<1>4. CASE d.webrtc # "on"
  <2>1. f = failed(d)
    BY <1>4 DEF connectToPeer
  <2> HIDE DEF f
  <2>2. /\ Good(kind, f) /\ f.socket = d.socket /\ f.healthy = d.healthy
        /\ Len(f.link) = Len(d.link)
        /\ Falls(d) => Stays(f)
        /\ ~Trying(d) => ~Trying(f)
    BY <2>1, FailedKeeps
  <2> QED
    BY <2>2 DEF Stays, f
<1> QED
  BY <1>1, <1>2, <1>3, <1>4

\* d with another record for its peer connection k.
WithConn(d, k, n) == [d EXCEPT !.conns = [@ EXCEPT ![k] = n]]

\* The record may say anything but whose the connection is and whether it was closed.
LEMMA WithConnKeeps ==
  ASSUME NEW d, NEW k \in DOMAIN d.conns, NEW n \in ConnType, Good(kind, d),
         n.of = d.conns[k].of, n.closed = d.conns[k].closed
  PROVE  /\ Good(kind, WithConn(d, k, n))
         /\ OnlyPeers(d, WithConn(d, k, n))
         /\ WithConn(d, k, n).state = d.state
         /\ DOMAIN WithConn(d, k, n).conns = DOMAIN d.conns
         /\ WithConn(d, k, n).conns[k] = n
         /\ \A i \in DOMAIN d.conns : i # k => WithConn(d, k, n).conns[i] = d.conns[i]
         /\ Falls(d) => Falls(WithConn(d, k, n))
         /\ Stays(d) /\ (LeadsOn(d.conns[k]) => LeadsOn(n)) => Stays(WithConn(d, k, n))
<1> DEFINE cs == [d.conns EXCEPT ![k] = n]
           e == WithConn(d, k, n)
<1>1. /\ d \in Clients /\ d.conns \in Seq(ConnType) /\ DOMAIN d.conns = 1..Len(d.conns)
      /\ Len(d.conns) \in Nat /\ d.peers \in [Peers -> Nat]
  BY Fields DEF Good, Shape
<1>2. /\ cs \in Seq(ConnType) /\ DOMAIN cs = DOMAIN d.conns /\ Len(cs) = Len(d.conns) /\ cs[k] = n
      /\ \A i \in DOMAIN d.conns : i # k => cs[i] = d.conns[i]
  BY <1>1
<1> HIDE DEF cs
<1>3. /\ e \in Clients /\ e.conns = cs /\ e.peers = d.peers /\ e.state = d.state
      /\ OnlyPeers(d, e)
  <2>1. e = [d EXCEPT !.conns = cs]
    BY DEF WithConn, cs
  <2> HIDE DEF e
  <2> QED
    BY <1>1, <1>2, <2>1 DEF Clients, OnlyPeers
<1> HIDE DEF e
<1>4. Shape(kind, e)
  <2>1. \A i \in DOMAIN d.conns : cs[i].of = d.conns[i].of /\ cs[i].closed = d.conns[i].closed
    BY <1>2
  <2>2. ASSUME NEW q \in Peers, e.peers[q] > 0
        PROVE  /\ e.peers[q] <= Len(e.conns) /\ e.conns[e.peers[q]].of = q
               /\ ~e.conns[e.peers[q]].closed
    <3>1. d.peers[q] \in DOMAIN d.conns
      BY <1>1, <1>3, <2>2 DEF Good, Shape
    <3> QED
      BY <1>2, <1>3, <2>1, <2>2, <3>1 DEF Good, Shape
  <2>3. e.socket <= Len(e.link) /\ (kind = "io" => \A s \in DOMAIN e.link : e.link[s] # "closing")
    BY <1>3 DEF Good, Shape, OnlyPeers
  <2> QED
    BY <1>3, <2>2, <2>3 DEF Shape
<1>5. Good(kind, e) /\ (Tries(e) <=> Tries(d))
  BY <1>3, <1>4, PeersApart DEF Good
<1>6. Falls(d) => Falls(e)
  BY <1>3, <1>5 DEF Falls, OnlyPeers
<1>7. ASSUME Stays(d), LeadsOn(d.conns[k]) => LeadsOn(n) PROVE Stays(e)
  <2>1. \A i \in DOMAIN d.conns : LeadsOn(d.conns[i]) => LeadsOn(e.conns[i])
    BY <1>2, <1>3, <1>7
  <2> QED
    BY <1>2, <1>3, <1>5, <1>6, <1>7, <2>1 DEF Stays, OnlyPeers
<1> QED
  BY <1>2, <1>3, <1>5, <1>6, <1>7 DEF e

\* Forgetting a peer leaves the client as it was otherwise.
LEMMA ClearPeerKeeps ==
  ASSUME NEW d, NEW p \in Peers, Good(kind, d)
  PROVE  /\ Good(kind, clearPeer(d, p))
         /\ OnlyPeers(d, clearPeer(d, p)) /\ clearPeer(d, p).state = d.state
<1> DEFINE k == d.peers[p]
           n == Ended(d.conns[k])
           cs == [d.conns EXCEPT ![k] = n]
           ps == [d.peers EXCEPT ![p] = 0]
           f == clearPeer(d, p)
<1>1. /\ d \in Clients /\ d.conns \in Seq(ConnType) /\ DOMAIN d.conns = 1..Len(d.conns)
      /\ Len(d.conns) \in Nat /\ d.peers \in [Peers -> Nat]
  BY Fields DEF Good, Shape
<1>2. CASE d.peers[p] = 0
  <2>1. f = d /\ OnlyPeers(d, d)
    BY <1>2 DEF clearPeer, OnlyPeers
  <2> QED
    BY <2>1
<1>3. CASE d.peers[p] # 0
  <2>1. k \in DOMAIN d.conns /\ d.conns[k].of = p
    BY <1>1, <1>3 DEF Good, Shape
  <2>2. n \in ConnType /\ n.of = p
    <3> DEFINE b == TRUE
    <3>1. b \in BOOLEAN /\ d.conns[k] \in ConnType
      BY <1>1, <2>1
    <3>2. n = [d.conns[k] EXCEPT !.closed = b, !.channel = "closed", !.pc = "failed",
                                 !.timer = "off"]
      BY <3>1 DEF ConnType, Ended
    <3> HIDE DEF b, n
    <3> QED
      BY <2>1, <3>1, <3>2 DEF ConnType
  <2>3. /\ cs \in Seq(ConnType) /\ DOMAIN cs = DOMAIN d.conns /\ Len(cs) = Len(d.conns)
        /\ \A i \in DOMAIN d.conns : i # k => cs[i] = d.conns[i]
    BY <1>1, <2>1, <2>2
  <2>4. /\ ps \in [Peers -> Nat] /\ ps[p] = 0
        /\ \A q \in Peers : q # p => ps[q] = d.peers[q]
    BY <1>1
  <2>5. f = [d EXCEPT !.conns = cs, !.peers = ps]
    BY <1>1, <1>3, <2>1 DEF clearPeer
  <2> HIDE DEF cs, ps, f
  <2>6. /\ f \in Clients /\ f.conns = cs /\ f.peers = ps /\ f.state = d.state
        /\ OnlyPeers(d, f)
    BY <1>1, <2>3, <2>4, <2>5 DEF Clients, OnlyPeers
  <2>7. Shape(kind, f)
    <3>1. ASSUME NEW q \in Peers, f.peers[q] > 0
          PROVE  /\ f.peers[q] <= Len(f.conns) /\ f.conns[f.peers[q]].of = q
                 /\ ~f.conns[f.peers[q]].closed
      <4>1. q # p /\ d.peers[q] > 0 /\ f.peers[q] = d.peers[q]
        BY <2>4, <2>6, <3>1
      <4>2. /\ d.peers[q] \in DOMAIN d.conns /\ d.conns[d.peers[q]].of = q
            /\ ~d.conns[d.peers[q]].closed
        BY <1>1, <4>1 DEF Good, Shape
      <4>3. d.peers[q] # k
        BY <2>1, <4>1, <4>2
      <4> QED
        BY <1>1, <2>3, <2>6, <4>1, <4>2, <4>3
    <3>2. f.socket <= Len(f.link) /\ (kind = "io" => \A s \in DOMAIN f.link : f.link[s] # "closing")
      BY <2>6 DEF Good, Shape, OnlyPeers
    <3> QED
      BY <2>6, <3>1, <3>2 DEF Shape
  <2>8. Good(kind, f)
    BY <2>6, <2>7, PeersApart DEF Good
  <2> QED
    BY <2>6, <2>8 DEF f
<1> QED
  BY <1>2, <1>3

\* A peer connection that fails does not leave the client without both, unless it was.
LEMMA MarkFailedKeeps ==
  ASSUME NEW d, NEW k \in DOMAIN d.conns, Good(kind, d), Falls(d)
  PROVE  Good(kind, markFailed(d, k)) /\ Stays(markFailed(d, k))
<1> DEFINE n == [d.conns[k] EXCEPT !.state = "failed", !.hello = FALSE]
           e == WithConn(d, k, n)
           p == d.conns[k].of
           f == IF e.state = "p2p_failed" THEN e ELSE failed(e)
           g == clearPeer(f, p)
<1>1. d \in Clients /\ d.conns \in Seq(ConnType) /\ d.conns[k] \in ConnType
  BY Fields DEF Good, Shape
<1>2. n \in ConnType /\ n.of = d.conns[k].of /\ n.closed = d.conns[k].closed /\ p \in Peers
  BY <1>1 DEF ConnType
<1>3. e = [d EXCEPT !.conns[k].state = "failed", !.conns[k].hello = FALSE]
  <2> DEFINE b == FALSE
  <2>1. n = [d.conns[k] EXCEPT !.state = "failed", !.hello = b]
    OBVIOUS
  <2> HIDE DEF b, n
  <2>2. e = [d EXCEPT !.conns[k].state = "failed", !.conns[k].hello = b]
    BY <1>1, <2>1 DEF WithConn, Clients, ConnType
  <2> QED
    BY <2>2, Zenon DEF b
<1>4. markFailed(d, k) = g
  <2> DEFINE F(x) == clearPeer(IF x.state = "p2p_failed" THEN x ELSE failed(x), p)
             r == [d EXCEPT !.conns[k].state = "failed", !.conns[k].hello = FALSE]
  <2>1. g = F(e)
    OBVIOUS
  <2>2. e = r
    BY <1>3
  <2>3. markFailed(d, k) = F(r)
    BY DEF markFailed
  <2> HIDE DEF e, F, r
  <2> QED
    BY <2>1, <2>2, <2>3
<1> HIDE DEF n
<1>5. Good(kind, e) /\ Falls(e)
  BY <1>2, WithConnKeeps
<1> HIDE DEF e, p
<1>6. Good(kind, f) /\ f.state = "p2p_failed" /\ (f.user => Tries(f))
  <2>1. CASE e.state = "p2p_failed"
    BY <1>5, <2>1 DEF Falls
  <2>2. CASE e.state # "p2p_failed"
    BY <1>5, <2>2, FailedKeeps
  <2> QED
    BY <2>1, <2>2
<1> HIDE DEF f
<1>7. Good(kind, g) /\ OnlyPeers(f, g) /\ g.state = f.state
  BY <1>2, <1>6, ClearPeerKeeps
<1>8. Stays(g)
  BY <1>6, <1>7, PeersApart DEF Stays, Falls, OnlyPeers
<1> QED
  BY <1>4, <1>7, <1>8

-----------------------------------------------------------------------------
(* The relay is lost, or left                                              *)

\* The client hears that the relay is gone; where it believes that a relay is there, which its
\* sockets need not bear out any more.
LEMMA UnhealthyKeeps ==
  ASSUME NEW d \in Clients, Good(kind, [d EXCEPT !.healthy = FALSE]),
         chat \in Peers \cup {NoPeer}
  PROVE  /\ Good(kind, unhealthy(d))
         /\ Stays(d) => Stays(unhealthy(d))
         /\ ~Trying(d) => ~Trying(unhealthy(d))
         /\ unhealthy(d).socket = d.socket
         /\ unhealthy(d).healthy = FALSE /\ Len(unhealthy(d).link) = Len(d.link)
<1> DEFINE e == [d EXCEPT !.healthy = FALSE]
           f == IF chat = NoPeer THEN e ELSE connectToPeer(e, chat)
           g == unhealthy(d)
<1>1. g = IF ~d.healthy THEN d ELSE IF f.state = "p2p_ready" THEN f ELSE failed(f)
  BY DEF unhealthy
<1>2. /\ e \in Clients
      /\ e.link = d.link /\ e.socket = d.socket /\ e.user = d.user /\ e.state = d.state
      /\ e.inits = d.inits /\ e.tors = d.tors /\ e.conns = d.conns /\ e.healthy = FALSE
      /\ d.healthy = FALSE => e = d
  BY DEF Clients
<1>3. Good(kind, e)
  OBVIOUS
<1> HIDE DEF e, g
<1>4. /\ Tries(e) <=> Tries(d)
      /\ Trying(e) <=> Trying(d)
  BY <1>2 DEF Tries, Trying
<1>5. Stays(d) => Stays(e)
  BY <1>2, <1>4 DEF Falls, Stays
<1>6. CASE ~d.healthy
  <2>1. d.healthy = FALSE
    BY <1>6, Fields
  <2> QED
    BY <1>1, <1>2, <1>3, <1>6, <2>1 DEF g
<1>7. CASE d.healthy
  <2>1. /\ Good(kind, f) /\ (~Trying(e) => ~Trying(f)) /\ f.socket = e.socket
        /\ f.healthy = FALSE /\ Len(f.link) = Len(d.link)
        /\ Stays(e) => Stays(f)
    <3>1. CASE chat = NoPeer
      BY <1>2, <1>3, <1>5, <3>1
    <3>2. CASE chat # NoPeer
      <4>1. chat \in Peers
        BY <3>2
      <4> QED
        BY <1>2, <1>3, <1>5, <3>2, <4>1, ConnectKeeps
    <3> QED
      BY <3>1, <3>2
  <2> HIDE DEF f
  <2>2. CASE f.state = "p2p_ready"
    BY <1>1, <1>2, <1>4, <1>5, <1>7, <2>1, <2>2 DEF g
  <2>3. CASE f.state # "p2p_ready"
    <3>1. g = failed(f)
      BY <1>1, <1>7, <2>3
    <3>2. /\ Good(kind, failed(f)) /\ failed(f).socket = f.socket
          /\ Falls(f) => Stays(failed(f))
          /\ failed(f).healthy = f.healthy /\ Len(failed(f).link) = Len(f.link)
          /\ ~Trying(f) => ~Trying(failed(f))
      BY <2>1, FailedKeeps
    <3>3. Stays(d) => Falls(f)
      BY <1>5, <2>1 DEF Stays
    <3> QED
      BY <1>2, <1>4, <2>1, <3>1, <3>2, <3>3 DEF g
  <2> QED
    BY <2>2, <2>3
<1> QED
  BY <1>6, <1>7

\* The client hangs up.
LEMMA HangupKeeps ==
  ASSUME NEW d, Good(kind, d), chat \in Peers \cup {NoPeer}
  PROVE  /\ Good(kind, Hangup(d)) /\ ~Trying(Hangup(d)) /\ Hangup(d).socket = d.socket
         /\ d.state = "p2p_ready" /\ (\E k \in DOMAIN d.conns : LeadsOn(d.conns[k]))
            => Stays(Hangup(d))
<1> DEFINE e == Shut(d)
           f == [e EXCEPT !.healthy = FALSE]
<1>1. /\ e \in Clients /\ OnlySockets(d, e) /\ Shape(kind, e) /\ Sockets(e) /\ ~Trying(e)
      /\ Health(kind, d) /\ ~(kind = "io" /\ Up(d)) => Health(kind, e)
  BY ShutEffect, ShutKeeps DEF Good
<1>2. d.state = "p2p_ready" /\ (\E k \in DOMAIN d.conns : LeadsOn(d.conns[k])) => Stays(e)
  BY <1>1 DEF OnlySockets, Stays, Falls
<1>3. CASE kind = "io" /\ Up(d)
  <2>1. Hangup(d) = unhealthy(e)
    BY <1>3 DEF Hangup
  <2> HIDE DEF e
  <2>2. /\ f \in Clients
        /\ f.link = e.link /\ f.socket = e.socket /\ f.registered = e.registered
        /\ f.registers = e.registers /\ f.healthy = FALSE /\ f.conns = e.conns
        /\ f.peers = e.peers /\ f.inits = e.inits /\ f.overlapped = e.overlapped
    BY <1>1 DEF Clients
  <2> HIDE DEF f
  <2>3. (Up(f) <=> Up(e)) /\ (Trying(f) <=> Trying(e)) /\ ~Up(e)
    BY <1>1, <2>2 DEF Up, Trying
  <2>4. Good(kind, f)
    BY <1>1, <2>2, <2>3 DEF Good, Shape, Sockets, Health
  <2>5. /\ Good(kind, unhealthy(e))
        /\ Stays(e) => Stays(unhealthy(e))
        /\ ~Trying(e) => ~Trying(unhealthy(e))
        /\ unhealthy(e).socket = e.socket
    BY <1>1, <2>4, UnhealthyKeeps DEF f
  <2> QED
    BY <1>1, <1>2, <2>1, <2>5 DEF OnlySockets
<1>4. CASE ~(kind = "io" /\ Up(d))
  <2>1. Hangup(d) = e
    BY <1>4 DEF Hangup
  <2> QED
    BY <1>1, <1>2, <1>4, <2>1 DEF Good, OnlySockets
<1> QED
  BY <1>3, <1>4

\* initSocket finds the relay up or begins to try it.
LEMMA InitSocketKeeps ==
  ASSUME NEW d, Good(kind, d), chat \in Peers \cup {NoPeer}
  PROVE  Good(kind, initSocket(d)) /\ Stays(initSocket(d))
<1>1. CASE Up(d) /\ d.user
  <2>1. Tries(d)
    BY <1>1 DEF Up, Tries
  <2>2. initSocket(d) = d
    BY <1>1 DEF initSocket
  <2> QED
    BY <2>1, <2>2 DEF Stays, Falls
<1>2. CASE ~(Up(d) /\ d.user)
  <2> DEFINE e == Hangup(d)
  <2>1. initSocket(d) = Begin(e)
    BY <1>2 DEF initSocket
  <2>2. Good(kind, e) /\ ~Trying(e)
    BY HangupKeeps
  <2> HIDE DEF e
  <2>3. ~Up(e)
    BY <2>2 DEF Up, Trying
  <2> QED
    BY <2>1, <2>2, <2>3, BeginKeeps
<1> QED
  BY <1>1, <1>2

\* The client leaves the relay, and wants none.
LEMMA DisconnectKeeps ==
  ASSUME NEW d, Good(kind, d), Stays(d), chat \in Peers \cup {NoPeer}
  PROVE  Good(kind, disconnect(d)) /\ Stays(disconnect(d))
<1>1. CASE d.socket = 0
  BY <1>1 DEF disconnect
<1>2. CASE d.socket # 0
  <2> DEFINE e == Hangup(d)
             f == [e EXCEPT !.socket = 0, !.user = FALSE]
  <2>1. disconnect(d) = f
    BY <1>2 DEF disconnect
  <2>2. Good(kind, e) /\ ~Trying(e) /\ e.socket = d.socket
    BY HangupKeeps
  <2>3. d.socket \in Nat
    BY Fields DEF Good, Shape
  <2> HIDE DEF e
  <2>4. e \in Clients /\ ~Up(e) /\ e.socket > 0
    BY <1>2, <2>2, <2>3 DEF Good, Shape, Up, Trying
  <2>5. /\ f \in Clients
        /\ f.link = e.link /\ f.socket = 0 /\ f.registered = e.registered
        /\ f.registers = e.registers /\ f.healthy = e.healthy /\ f.conns = e.conns
        /\ f.peers = e.peers /\ f.inits = e.inits /\ f.overlapped = e.overlapped
        /\ f.user = FALSE
    BY <2>4 DEF Clients
  <2> HIDE DEF f
  <2>6. ~Up(f) /\ ~Trying(f)
    BY <2>5 DEF Up, Trying
  <2>7. Shape(kind, f)
    BY <2>2, <2>4, <2>5, Fields DEF Good, Shape
  <2>8. ~f.overlapped => \A s \in DOMAIN f.link : f.link[s] \notin {"trying", "up"}
    BY <2>2, <2>4, <2>5 DEF Good, Sockets, Trying
  <2>9. Sockets(f)
    BY <2>2, <2>5, <2>6, <2>8 DEF Good, Sockets
  <2>10. Health(kind, f)
    BY <2>2, <2>4, <2>5, <2>6 DEF Good, Health
  <2>11. Stays(f)
    BY <2>5 DEF Stays, Falls
  <2> QED
    BY <2>1, <2>7, <2>9, <2>10, <2>11 DEF Good
<1> QED
  BY <1>1, <1>2

\* A client with a peer gives up the relay.
LEMMA ReadyKeeps ==
  ASSUME NEW d, Good(kind, d), \E k \in DOMAIN d.conns : LeadsOn(d.conns[k]),
         chat \in Peers \cup {NoPeer}
  PROVE  Good(kind, ready(d)) /\ Stays(ready(d))
<1> DEFINE e == [d EXCEPT !.state = "p2p_ready"]
<1>1. d \in Clients
  BY DEF Good, Shape
<1>2. /\ e \in Clients
      /\ e.link = d.link /\ e.socket = d.socket /\ e.registered = d.registered
      /\ e.user = d.user /\ e.healthy = d.healthy /\ e.overlapped = d.overlapped
      /\ e.inits = d.inits /\ e.tors = d.tors /\ e.registers = d.registers
      /\ e.conns = d.conns /\ e.peers = d.peers /\ e.state = "p2p_ready"
  BY <1>1 DEF Clients, States
<1>3. ready(d) = IF d.state = "p2p_ready" THEN d ELSE IF Up(e) THEN Hangup(e) ELSE e
  BY DEF ready
<1> HIDE DEF e
<1>4. OnlyPeers(d, e) /\ Shape(kind, e)
  BY <1>2 DEF OnlyPeers, Good, Shape
<1>5. Good(kind, e)
  BY <1>4, PeersApart DEF Good
<1>6. Stays(e) /\ (d.state = "p2p_ready" => Stays(d))
  BY <1>2 DEF Stays, Falls
<1>7. Good(kind, Hangup(e)) /\ Stays(Hangup(e))
  BY <1>2, <1>5, HangupKeeps
<1> QED
  BY <1>3, <1>5, <1>6, <1>7

\* A connection that was not closed becomes ready, or nothing happens.
LEMMA TryMarkReadyKeeps ==
  ASSUME NEW d, NEW k \in DOMAIN d.conns, Good(kind, d), Stays(d), ~d.conns[k].closed,
         chat \in Peers \cup {NoPeer}
  PROVE  Good(kind, tryMarkReady(d, k)) /\ Stays(tryMarkReady(d, k))
<1> DEFINE n == [d.conns[k] EXCEPT !.state = "connected", !.timer = "off"]
           e == WithConn(d, k, n)
<1>1. d \in Clients /\ d.conns \in Seq(ConnType) /\ d.conns[k] \in ConnType
  BY Fields DEF Good, Shape
<1>2. n \in ConnType /\ n.of = d.conns[k].of /\ n.closed = d.conns[k].closed
      /\ n.channel = d.conns[k].channel
  BY <1>1 DEF ConnType
<1>3. e = [d EXCEPT !.conns[k].state = "connected", !.conns[k].timer = "off"]
  BY <1>1 DEF WithConn, Clients
<1>4. CASE d.conns[k].hello /\ d.conns[k].channel = "open" /\ d.conns[k].pc = "connected"
  <2>1. tryMarkReady(d, k) = ready(e)
    BY <1>3, <1>4 DEF tryMarkReady
  <2> HIDE DEF n
  <2>2. Good(kind, e) /\ k \in DOMAIN e.conns /\ e.conns[k] = n
    BY <1>2, WithConnKeeps
  <2> HIDE DEF e
  <2>3. LeadsOn(e.conns[k])
    BY <1>2, <1>4, <2>2 DEF LeadsOn
  <2> QED
    BY <2>1, <2>2, <2>3, ReadyKeeps
<1>5. CASE ~(d.conns[k].hello /\ d.conns[k].channel = "open" /\ d.conns[k].pc = "connected")
  BY <1>5 DEF tryMarkReady
<1> QED
  BY <1>4, <1>5

-----------------------------------------------------------------------------
(* The steps                                                               *)

\* A handler's step keeps the invariant if its function does.
LEMMA StepKeeps ==
  ASSUME NEW d, Step(d), LinkInv, Good(kind, d), Stays(d), chat' = chat
  PROVE  LinkInv'
<1>1. c' = d /\ kind' = kind
  BY DEF Step
<1>2. Good(kind, c') /\ Stays(c')
  BY <1>1
<1>3. Good(kind, c)'
  BY <1>1, <1>2 DEF Good, Shape, Sockets, Health, Up, Trying
<1>4. Stays(c)'
  BY <1>1, <1>2 DEF Stays, Falls, Tries
<1> QED
  BY <1>1, <1>3, <1>4 DEF LinkInv

\* What the lemmas of the functions need.
LEMMA LinkFacts ==
  ASSUME LinkInv
  PROVE  /\ Good(kind, c) /\ Stays(c) /\ Falls(c) /\ chat \in Peers \cup {NoPeer}
         /\ c \in Clients /\ kind \in {"io", "ws"}
BY DEF LinkInv, Good, Shape, Stays

\* Looking at Tor changes whether there is WebRTC and nothing else.
LEMMA LooksKeep ==
  ASSUME NEW d, Good(kind, d), NEW b \in LooksAtTor(d)
  PROVE  /\ Good(kind, b) /\ b \in Clients
         /\ b.link = d.link /\ b.inits = d.inits /\ b.tors = d.tors /\ b.state = d.state
<1>1. d \in Clients
  BY DEF Good, Shape
<1>2. PICK w \in {"none", "off", "on"} : b = [d EXCEPT !.webrtc = w]
  <2>1. CASE d.webrtc = "none"
    <3>1. b = d
      BY <2>1 DEF LooksAtTor
    <3>2. d = [d EXCEPT !.webrtc = "none"]
      BY <1>1, <2>1 DEF Clients
    <3> QED
      BY <3>1, <3>2
  <2>2. CASE d.webrtc # "none"
    BY <2>2 DEF LooksAtTor
  <2> QED
    BY <2>1, <2>2
<1>3. /\ b \in Clients
      /\ b.link = d.link /\ b.socket = d.socket /\ b.registered = d.registered
      /\ b.registers = d.registers /\ b.healthy = d.healthy /\ b.conns = d.conns
      /\ b.peers = d.peers /\ b.overlapped = d.overlapped /\ b.user = d.user
      /\ b.inits = d.inits /\ b.tors = d.tors /\ b.state = d.state
  BY <1>1, <1>2 DEF Clients
<1>4. Up(b) = Up(d) /\ Trying(b) = Trying(d)
  BY <1>3 DEF Up, Trying
<1>5. Shape(kind, b)
  BY <1>3 DEF Good, Shape
<1>6. Sockets(b) /\ Health(kind, b)
  BY <1>3, <1>4 DEF Good, Sockets, Health
<1> QED
  BY <1>3, <1>5, <1>6 DEF Good

\* A new socket replaces a current one that is not up; unless calls overlapped, there is no other.
LEMMA OpenSocketKeeps == ASSUME LinkInv, OpenSocket PROVE LinkInv'
<1>0. PICK b \in LooksAtTor(c) :
        Step([b EXCEPT !.inits = @ - 1, !.link = Append(@, "trying"), !.socket = Len(c.link) + 1])
  BY DEF OpenSocket
<1> DEFINE l == Append(b.link, "trying")
           m == Len(b.link) + 1
           n == b.inits - 1
           d == [b EXCEPT !.inits = @ - 1, !.link = Append(@, "trying"), !.socket = Len(c.link) + 1]
<1>1. /\ Good(kind, b) /\ b \in Clients
      /\ b.link \in Seq(LinkStates) /\ DOMAIN b.link = 1..Len(b.link) /\ Len(b.link) \in Nat
      /\ b.inits \in Nat /\ b.inits > 0 /\ b.link = c.link
  <2>1. /\ Good(kind, b) /\ b \in Clients /\ b.link = c.link /\ b.inits = c.inits
    BY <1>0, LinkFacts, LooksKeep
  <2> QED
    BY <2>1, Fields DEF OpenSocket
<1>2. /\ l \in Seq(LinkStates) /\ DOMAIN l = 1..m /\ Len(l) = m /\ l[m] = "trying"
      /\ \A s \in DOMAIN b.link : s \in DOMAIN l /\ l[s] = b.link[s] /\ s # m
      /\ \A s \in DOMAIN l : s # m => s \in DOMAIN b.link
  BY <1>1 DEF LinkStates
<1>3. m \in Nat /\ m > 0 /\ n \in Nat
  BY <1>1
<1>4. d = [b EXCEPT !.inits = n, !.link = l, !.socket = m]
  BY <1>1
<1>5. b.inits = 1 => n = 0
  BY <1>1
<1> HIDE DEF l, m, n
<1>6. /\ d \in Clients
      /\ d.link = l /\ d.socket = m /\ d.inits = n /\ d.registered = b.registered
      /\ d.registers = b.registers /\ d.healthy = b.healthy /\ d.conns = b.conns
      /\ d.peers = b.peers /\ d.overlapped = b.overlapped /\ d.user = b.user
  BY <1>1, <1>2, <1>3, <1>4 DEF Clients
<1>7. Step(d) /\ chat' = chat
  BY <1>0 DEF OpenSocket
<1> HIDE DEF d
<1>8. ~Up(d)
  BY <1>2, <1>6 DEF Up
<1>9. Shape(kind, d)
  BY <1>1, <1>2, <1>3, <1>6 DEF Good, Shape
<1>10. ~b.overlapped => b.inits = 1 /\ ~Trying(b) /\ ~Up(b)
  BY <1>1 DEF Good, Sockets, Up, Trying
<1>11. ASSUME ~b.overlapped, NEW s \in DOMAIN b.link PROVE b.link[s] \notin {"trying", "up"}
  BY <1>1, <1>10, <1>11 DEF Good, Sockets, Trying
<1>12. Sockets(d)
  <2>1. ASSUME ~d.overlapped, NEW s \in DOMAIN d.link, d.link[s] \in {"trying", "up"}
        PROVE  s = d.socket
    BY <1>2, <1>6, <1>11, <2>1
  <2>2. ~d.overlapped => ~(d.inits > 0)
    BY <1>5, <1>6, <1>10
  <2> QED
    BY <1>8, <2>1, <2>2 DEF Sockets
<1>13. Health(kind, d)
  BY <1>1, <1>2, <1>6, <1>8, <1>10 DEF Good, Health
<1>14. Stays(d)
  BY <1>2, <1>3, <1>6 DEF Stays, Falls, Tries
<1> QED
  BY <1>7, <1>9, <1>12, <1>13, <1>14, StepKeeps DEF Good

\* A socket comes up: the handler that runs on will register the user.
LEMMA ConnectStepKeeps == ASSUME LinkInv, NEW s \in DOMAIN c.link, Connect(s) PROVE LinkInv'
<1> DEFINE l == [c.link EXCEPT ![s] = "up"]
           r == IF s \in c.buffered THEN c.registered \cup {s} ELSE c.registered
           u == c.buffered \ {s}
           t == IF c.state \in {"p2p_ready", "p2p_connecting"} THEN c.state ELSE "relay"
           n == c.registers + 1
           b == TRUE
           d == connected(c, s)
<1>1. /\ Good(kind, c) /\ Stays(c) /\ Falls(c) /\ c \in Clients
      /\ c.link \in Seq(LinkStates) /\ DOMAIN c.link = 1..Len(c.link) /\ Len(c.link) \in Nat
      /\ c.registered \in SUBSET Nat /\ c.buffered \in SUBSET Nat /\ c.state \in States
      /\ c.registers \in Nat /\ c.socket \in Nat /\ s \in Nat /\ c.inits \in Nat
      /\ c.link[s] = "trying"
  BY LinkFacts, Fields DEF Connect
<1>2. /\ l \in Seq(LinkStates) /\ DOMAIN l = DOMAIN c.link /\ Len(l) = Len(c.link) /\ l[s] = "up"
      /\ \A i \in DOMAIN c.link : i # s => l[i] = c.link[i]
  BY <1>1 DEF LinkStates
<1>3. r \in SUBSET Nat /\ u \in SUBSET Nat /\ n \in Nat /\ n > 0 /\ b \in BOOLEAN
  BY <1>1
<1>4. t \in States /\ (t \in {"relay", "p2p_failed"} => c.state \in {"relay", "p2p_failed"})
  BY <1>1 DEF States
<1>5. d = [c EXCEPT !.link = l, !.registered = r, !.buffered = u, !.healthy = b, !.state = t,
                    !.registers = n]
  BY <1>1 DEF connected, healthy, Clients
<1>6. b = TRUE
  OBVIOUS
<1>7. Step(d) /\ chat' = chat
  BY DEF Connect
<1> HIDE DEF l, r, u, n, t, b, d
<1>8. /\ d \in Clients
      /\ d.link = l /\ d.socket = c.socket /\ d.inits = c.inits /\ d.registered = r
      /\ d.registers = n /\ d.healthy = b /\ d.conns = c.conns /\ d.state = t
      /\ d.peers = c.peers /\ d.overlapped = c.overlapped /\ d.user = c.user /\ d.tors = c.tors
  BY <1>1, <1>2, <1>3, <1>4, <1>5 DEF Clients
<1>9. Shape(kind, d)
  BY <1>1, <1>2, <1>8 DEF Good, Shape
<1>10. ~c.overlapped => s = c.socket /\ s > 0 /\ ~(c.inits > 0)
  BY <1>1 DEF Good, Sockets, Trying
<1>11. Sockets(d)
  BY <1>1, <1>2, <1>3, <1>8, <1>10 DEF Good, Sockets
<1>12. Health(kind, d)
  <2>1. s \in DOMAIN d.link /\ d.link[s] \in {"up", "closing"}
    BY <1>2, <1>8
  <2>2. ~d.overlapped => Up(d)
    BY <1>2, <1>8, <1>10 DEF Up
  <2> QED
    BY <1>6, <1>8, <2>1, <2>2 DEF Health
<1>13. Tries(c) => Tries(d)
  <2>1. c.socket > 0 => c.socket \in DOMAIN c.link
    BY <1>1 DEF Good, Shape
  <2> QED
    BY <1>1, <1>2, <1>8, <2>1 DEF Tries
<1>14. Stays(d)
  BY <1>1, <1>4, <1>8, <1>13 DEF Stays, Falls
<1> QED
  BY <1>7, <1>9, <1>11, <1>12, <1>14, StepKeeps DEF Good

\* The handler registers the user on the socket that is current then, or on none.
LEMMA RegisterKeeps == ASSUME LinkInv, Register PROVE LinkInv'
<1> DEFINE s == c.socket
           n == c.registers - 1
           d == [c EXCEPT !.registers = @ - 1]
           d1 == [d EXCEPT !.registered = @ \cup {s}]
           d2 == [d EXCEPT !.buffered = @ \cup {s}]
<1>1. /\ Good(kind, c) /\ Stays(c) /\ c \in Clients /\ s \in Nat
      /\ c.registers \in Nat /\ c.registers > 0
      /\ c.registered \in SUBSET Nat /\ c.buffered \in SUBSET Nat
  BY LinkFacts, Fields DEF Register
<1>2. n \in Nat /\ d = [c EXCEPT !.registers = n]
  BY <1>1
<1>3. /\ IF Up(d) THEN Step(d1)
         ELSE IF s > 0 /\ d.link[s] = "trying" THEN Step(d2) ELSE Step(d)
      /\ chat' = chat
  BY DEF Register
<1> HIDE DEF n, d
<1>4. /\ d \in Clients
      /\ d.link = c.link /\ d.socket = s /\ d.inits = c.inits /\ d.registered = c.registered
      /\ d.buffered = c.buffered
      /\ d.registers = n /\ d.healthy = c.healthy /\ d.conns = c.conns /\ d.state = c.state
      /\ d.peers = c.peers /\ d.overlapped = c.overlapped /\ d.user = c.user /\ d.tors = c.tors
  BY <1>1, <1>2 DEF Clients
<1>5. ASSUME NEW f \in Clients, f.link = c.link, f.socket = s, f.inits = c.inits,
             f.healthy = c.healthy, f.conns = c.conns, f.state = c.state, f.peers = c.peers,
             f.overlapped = c.overlapped, f.user = c.user, f.tors = c.tors,
             Up(f) => s \in f.registered
      PROVE  Good(kind, f) /\ Stays(f)
  <2>1. (Up(f) <=> Up(c)) /\ (Trying(f) <=> Trying(c)) /\ (Tries(f) <=> Tries(c))
    BY <1>5 DEF Up, Trying, Tries
  <2>2. Shape(kind, f)
    BY <1>1, <1>5 DEF Good, Shape
  <2>3. Sockets(f)
    BY <1>1, <1>5, <2>1 DEF Good, Sockets
  <2>4. Health(kind, f)
    BY <1>1, <1>5, <2>1 DEF Good, Health
  <2>5. Stays(f)
    BY <1>1, <1>5, <2>1 DEF Stays, Falls
  <2> QED
    BY <2>2, <2>3, <2>4, <2>5 DEF Good
<1>6. Up(d) <=> Up(c)
  BY <1>4 DEF Up
<1>7. CASE Up(d)
  <2>1. /\ d1 \in Clients
        /\ d1.link = d.link /\ d1.socket = d.socket /\ d1.inits = d.inits /\ s \in d1.registered
        /\ d1.healthy = d.healthy /\ d1.conns = d.conns /\ d1.state = d.state
        /\ d1.peers = d.peers /\ d1.overlapped = d.overlapped
        /\ d1.user = d.user /\ d1.tors = d.tors
    BY <1>1, <1>4 DEF Clients
  <2>2. Step(d1)
    BY <1>3, <1>7
  <2> HIDE DEF d1
  <2>3. Good(kind, d1) /\ Stays(d1)
    BY <1>4, <1>5, <2>1
  <2> QED
    BY <1>3, <2>2, <2>3, StepKeeps
<1>8. CASE ~Up(d)
  <2>1. /\ d2 \in Clients
        /\ d2.link = d.link /\ d2.socket = d.socket /\ d2.inits = d.inits
        /\ d2.healthy = d.healthy /\ d2.conns = d.conns /\ d2.state = d.state
        /\ d2.peers = d.peers /\ d2.overlapped = d.overlapped
        /\ d2.user = d.user /\ d2.tors = d.tors
    BY <1>1, <1>4 DEF Clients
  <2>2. Step(d) \/ Step(d2)
    BY <1>3, <1>8
  <2> HIDE DEF d2
  <2>3. ~Up(d2)
    BY <1>8, <2>1 DEF Up
  <2>4. Good(kind, d2) /\ Stays(d2) /\ Good(kind, d) /\ Stays(d)
    BY <1>4, <1>5, <1>8, <2>1, <2>3
  <2> QED
    BY <1>3, <2>2, <2>4, StepKeeps
<1> QED
  BY <1>7, <1>8

\* A ws that has told the client of an error is gone.
LEMMA GoneKeeps ==
  ASSUME NEW d, NEW s \in DOMAIN d.link, Good(kind, d), Stays(d), kind = "ws", d.healthy = FALSE
  PROVE  Good(kind, Gone(d, s)) /\ Stays(Gone(d, s))
<1> DEFINE l == [d.link EXCEPT ![s] = "lost"]
           r == d.registered \ {s}
           u == d.buffered \ {s}
           e == Gone(d, s)
<1>1. /\ d \in Clients /\ d.link \in Seq(LinkStates) /\ DOMAIN d.link = 1..Len(d.link)
      /\ Len(d.link) \in Nat /\ d.socket \in Nat
      /\ d.registered \in SUBSET Nat /\ d.buffered \in SUBSET Nat
  BY Fields DEF Good, Shape
<1>2. /\ l \in Seq(LinkStates) /\ DOMAIN l = DOMAIN d.link /\ Len(l) = Len(d.link) /\ l[s] = "lost"
      /\ \A i \in DOMAIN d.link : i # s => l[i] = d.link[i]
  BY <1>1 DEF LinkStates
<1>3. e = [d EXCEPT !.link = l, !.registered = r, !.buffered = u]
  BY <1>1 DEF Gone, Clients
<1>4. r \in SUBSET Nat /\ u \in SUBSET Nat /\ \A i \in d.registered : i # s => i \in r
  BY <1>1
<1> HIDE DEF l, r, u, e
<1>5. /\ e \in Clients
      /\ e.link = l /\ e.registered = r /\ e.socket = d.socket /\ e.inits = d.inits
      /\ e.registers = d.registers /\ e.healthy = d.healthy /\ e.conns = d.conns
      /\ e.state = d.state /\ e.peers = d.peers /\ e.overlapped = d.overlapped
      /\ e.user = d.user /\ e.tors = d.tors
  BY <1>1, <1>2, <1>3, <1>4 DEF Clients
<1>6. d.socket > 0 => d.socket \in DOMAIN d.link
  BY <1>1 DEF Good, Shape
<1>7. (Trying(e) => Trying(d)) /\ (Up(e) => Up(d) /\ d.socket # s) /\ (Tries(d) => Tries(e))
  BY <1>2, <1>5, <1>6 DEF Trying, Up, Tries
<1>8. Shape(kind, e)
  BY <1>1, <1>2, <1>5 DEF Good, Shape
<1>9. Sockets(e)
  <2>1. Up(e) => e.socket \in e.registered \/ e.registers > 0
    BY <1>4, <1>5, <1>7 DEF Good, Sockets
  <2>2. ASSUME ~e.overlapped, NEW i \in DOMAIN e.link, e.link[i] \in {"trying", "up"}
        PROVE  i = e.socket
    BY <1>2, <1>5, <2>2 DEF Good, Sockets
  <2> QED
    BY <1>5, <1>7, <2>1, <2>2 DEF Good, Sockets
<1>10. Health(kind, e)
  BY <1>5 DEF Health
<1>11. Stays(e)
  BY <1>5, <1>7 DEF Stays, Falls
<1> QED
  BY <1>8, <1>9, <1>10, <1>11 DEF Good, e

\* A socket of now or of long ago reports its end.
LEMMA LoseKeeps == ASSUME LinkInv, NEW s \in DOMAIN c.link, Lose(s) PROVE LinkInv'
<1>1. /\ Good(kind, c) /\ Stays(c) /\ Falls(c) /\ c \in Clients /\ kind \in {"io", "ws"}
      /\ c.link \in Seq(LinkStates) /\ DOMAIN c.link = 1..Len(c.link) /\ Len(c.link) \in Nat
      /\ c.registered \in SUBSET Nat /\ c.buffered \in SUBSET Nat /\ c.socket \in Nat
      /\ s \in Nat /\ chat \in Peers \cup {NoPeer}
  BY LinkFacts, Fields
\* Either way socket s changes, and the relay knows the client by it no more.
<1>2. ASSUME NEW v \in LinkStates, NEW r \in SUBSET Nat, NEW u \in SUBSET Nat, NEW d,
             d = [c EXCEPT !.link = [c.link EXCEPT ![s] = v], !.registered = r, !.buffered = u],
             c.registered \ {s} \subseteq r,
             v # "up", v = "trying" => c.link[s] \in {"trying", "up"},
             v # "closing", c.link[s] \in {"trying", "up"} => v \in {"trying", "lost"},
             c.link[s] \in {"trying", "up", "closing"},
             Step(unhealthy(d)), chat' = chat
      PROVE  LinkInv'
  <2> DEFINE l == [c.link EXCEPT ![s] = v]
             e == [d EXCEPT !.healthy = FALSE]
  <2>1. /\ l \in Seq(LinkStates) /\ DOMAIN l = DOMAIN c.link /\ Len(l) = Len(c.link) /\ l[s] = v
        /\ \A i \in DOMAIN c.link : i # s => l[i] = c.link[i]
    BY <1>1
  <2>2. d = [c EXCEPT !.link = l, !.registered = r, !.buffered = u]
    BY <1>2
  <2> HIDE DEF l
  <2>3. /\ d \in Clients
        /\ d.link = l /\ d.socket = c.socket /\ d.inits = c.inits /\ d.registered = r
        /\ d.registers = c.registers /\ d.healthy = c.healthy /\ d.conns = c.conns
        /\ d.state = c.state /\ d.peers = c.peers /\ d.overlapped = c.overlapped
        /\ d.user = c.user /\ d.tors = c.tors
    BY <1>1, <2>1, <2>2 DEF Clients
  <2>4. /\ e \in Clients
        /\ e.link = l /\ e.socket = c.socket /\ e.inits = c.inits /\ e.registered = r
        /\ e.registers = c.registers /\ e.healthy = FALSE /\ e.conns = c.conns
        /\ e.peers = c.peers /\ e.overlapped = c.overlapped
    BY <2>3 DEF Clients
  <2> HIDE DEF e
  <2>5. c.socket > 0 => c.socket \in DOMAIN c.link
    BY <1>1 DEF Good, Shape
  <2>6. (Trying(e) => Trying(c)) /\ (Up(e) => Up(c) /\ c.socket # s)
    BY <1>2, <2>1, <2>4, <2>5 DEF Trying, Up
  <2>7. Shape(kind, e)
    BY <1>1, <1>2, <2>1, <2>4 DEF Good, Shape
  <2>8. Sockets(e)
    <3>1. Up(e) => e.socket \in e.registered \/ e.registers > 0
      BY <1>1, <1>2, <2>4, <2>6 DEF Good, Sockets
    <3>2. ASSUME ~e.overlapped, NEW i \in DOMAIN e.link, e.link[i] \in {"trying", "up"}
          PROVE  i = e.socket
      BY <1>1, <1>2, <2>1, <2>4, <3>2 DEF Good, Sockets
    <3>3. ~e.overlapped /\ e.inits > 0 => e.inits = 1 /\ ~Trying(e)
      BY <1>1, <2>4, <2>6 DEF Good, Sockets
    <3> QED
      BY <3>1, <3>2, <3>3 DEF Sockets
  <2>9. kind = "io" /\ ~e.overlapped => ~Up(e)
    <3>1. kind = "io" => c.link[s] \in {"trying", "up"}
      BY <1>1, <1>2 DEF Good, Shape
    <3>2. kind = "io" /\ ~c.overlapped => s = c.socket
      BY <1>1, <3>1 DEF Good, Sockets
    <3> QED
      BY <2>4, <2>6, <3>2
  <2>10. Health(kind, e)
    BY <2>4, <2>9 DEF Health
  <2>11. Tries(c) => Tries(d)
    BY <1>2, <2>1, <2>3, <2>5 DEF Tries
  <2>12. Stays(d)
    BY <1>1, <2>3, <2>11 DEF Stays, Falls
  <2>13. Good(kind, unhealthy(d)) /\ Stays(unhealthy(d))
    BY <1>1, <2>3, <2>7, <2>8, <2>10, <2>12, UnhealthyKeeps DEF Good, e
  <2> QED
    BY <1>2, <2>13, StepKeeps
<1>3. CASE c.link[s] \in {"trying", "up"} /\ Step(unhealthy(Gone(c, s)))
  <2> DEFINE v == IF kind = "io" THEN "trying" ELSE "lost"
             r == c.registered \ {s}
             u == IF kind = "io" THEN c.buffered ELSE c.buffered \ {s}
             d == Gone(c, s)
  <2>1. v \in {"trying", "lost"} /\ v \in LinkStates /\ r \in SUBSET Nat /\ u \in SUBSET Nat
    BY <1>1 DEF LinkStates
  <2>2. Step(unhealthy(d)) /\ chat' = chat
    BY <1>3 DEF Lose
  <2>3. d = [c EXCEPT !.link = [c.link EXCEPT ![s] = v], !.registered = r, !.buffered = u]
    BY <1>1 DEF Gone, Clients
  <2>4. c.registered \ {s} \subseteq r
    OBVIOUS
  <2> HIDE DEF v, r, u, d
  <2> QED
    BY <1>2, <1>3, <2>1, <2>2, <2>3, <2>4
<1>4. CASE c.link[s] = "closing" /\ Step(unhealthy([c EXCEPT !.link[s] = "closed"]))
  <2> DEFINE d == [c EXCEPT !.link[s] = "closed"]
  <2>1. Step(unhealthy(d)) /\ chat' = chat
    BY <1>4 DEF Lose
  <2>2. d = [c EXCEPT !.link = [c.link EXCEPT ![s] = "closed"], !.registered = c.registered,
                      !.buffered = c.buffered]
    BY <1>1 DEF Clients
  <2>3. "closed" \in LinkStates
    BY DEF LinkStates
  <2> HIDE DEF d
  <2> QED
    BY <1>1, <1>2, <1>4, <2>1, <2>2, <2>3
<1>5. CASE kind = "ws" /\ c.link[s] = "up" /\ Step(Gone(unhealthy(c), s))
  <2> DEFINE d == unhealthy(c)
             e == [c EXCEPT !.healthy = FALSE]
  <2>1. chat' = chat /\ Step(Gone(d, s))
    BY <1>5 DEF Lose
  <2>2. /\ e \in Clients
        /\ e.link = c.link /\ e.socket = c.socket /\ e.inits = c.inits
        /\ e.registered = c.registered /\ e.registers = c.registers /\ e.healthy = FALSE
        /\ e.conns = c.conns /\ e.peers = c.peers /\ e.overlapped = c.overlapped
    BY <1>1 DEF Clients
  <2> HIDE DEF e
  <2>3. (Trying(e) <=> Trying(c)) /\ (Up(e) <=> Up(c))
    BY <2>2 DEF Trying, Up
  <2>4. Good(kind, e)
    BY <1>1, <1>5, <2>2, <2>3 DEF Good, Shape, Sockets, Health
  <2>5. Good(kind, d) /\ Stays(d) /\ d.healthy = FALSE /\ Len(d.link) = Len(c.link)
    BY <1>1, <2>4, UnhealthyKeeps DEF e
  <2> HIDE DEF d
  <2>6. s \in DOMAIN d.link
    BY <1>1, <2>5, Fields DEF Good, Shape
  <2>7. Good(kind, Gone(d, s)) /\ Stays(Gone(d, s))
    BY <1>5, <2>5, <2>6, GoneKeeps
  <2> QED
    BY <2>1, <2>7, StepKeeps
<1> QED
  BY <1>3, <1>4, <1>5 DEF Lose

\* d in another transport state and with other calls of reconnectWithTor that wait.
WithMode(d, st, n) == [d EXCEPT !.state = st, !.tors = n]

\* These say nothing of the sockets.
LEMMA WithModeKeeps ==
  ASSUME NEW d, Good(kind, d), NEW st \in States, NEW n \in Nat
  PROVE  /\ Good(kind, WithMode(d, st, n))
         /\ WithMode(d, st, n).user = d.user /\ WithMode(d, st, n).conns = d.conns
         /\ WithMode(d, st, n).inits = d.inits /\ WithMode(d, st, n).link = d.link
         /\ WithMode(d, st, n).socket = d.socket
         /\ WithMode(d, st, n).state = st /\ WithMode(d, st, n).tors = n
<1> DEFINE e == WithMode(d, st, n)
<1>1. d \in Clients
  BY DEF Good, Shape
<1>2. /\ e \in Clients /\ e.link = d.link /\ e.socket = d.socket /\ e.registered = d.registered
      /\ e.user = d.user /\ e.healthy = d.healthy /\ e.overlapped = d.overlapped
      /\ e.inits = d.inits /\ e.registers = d.registers /\ e.conns = d.conns
      /\ e.peers = d.peers /\ e.state = st /\ e.tors = n
  BY <1>1 DEF Clients, WithMode
<1> HIDE DEF e
<1>3. (Up(e) <=> Up(d)) /\ (Trying(e) <=> Trying(d))
  BY <1>2 DEF Up, Trying
<1>4. Good(kind, e)
  BY <1>2, <1>3 DEF Good, Shape, Sockets, Health
<1> QED
  BY <1>2, <1>4 DEF e

\* The user's calls that leave or try the relay.
LEMMA RelayStepsKeep ==
  ASSUME LinkInv,
         \/ InitSocket \/ ReconnectToServer \/ ReconnectWithTor \/ ActivateP2PMode
         \/ DeactivateP2PMode
  PROVE  LinkInv'
<1>1. /\ Good(kind, c) /\ Stays(c) /\ Falls(c) /\ c \in Clients /\ chat \in Peers \cup {NoPeer}
      /\ c.tors \in Nat /\ c.user \in BOOLEAN
  BY LinkFacts, Fields
<1>2. Good(kind, disconnect(c)) /\ Stays(disconnect(c))
  BY <1>1, DisconnectKeeps
<1>4. CASE InitSocket
  <2>1. Step(initSocket(c)) /\ chat' = chat
    BY <1>4 DEF InitSocket
  <2> QED
    BY <1>1, <2>1, InitSocketKeeps, StepKeeps
<1>5. CASE ReconnectToServer
  <2> DEFINE d == disconnect(c)
  <2>1. Step(initSocket(d)) /\ chat' = chat
    BY <1>5 DEF ReconnectToServer
  <2> HIDE DEF d
  <2>2. Good(kind, d)
    BY <1>2 DEF d
  <2> QED
    BY <1>1, <2>1, <2>2, InitSocketKeeps, StepKeeps
<1>6. CASE ReconnectWithTor
  <2>1. CASE Step([disconnect(c) EXCEPT !.tors = @ + 1])
    <3> DEFINE d == disconnect(c)
               n == d.tors + 1
               e == [d EXCEPT !.tors = @ + 1]
    <3>1. Step(e) /\ chat' = chat
      BY <1>6, <2>1 DEF ReconnectWithTor
    <3> HIDE DEF d
    <3>2. Good(kind, d) /\ Stays(d)
      BY <1>2 DEF d
    <3>3. d \in Clients /\ d.state \in States /\ n \in Nat
      BY <3>2, Fields DEF Good, Shape
    <3>4. n > 0
      BY <3>2, Fields DEF Good, Shape
    <3>5. e = WithMode(d, d.state, n)
      BY <3>3 DEF Clients, WithMode
    <3> HIDE DEF n, e
    <3>6. Good(kind, e) /\ e.tors = n
      BY <3>2, <3>3, <3>5, WithModeKeeps
    <3>7. Stays(e)
      BY <3>4, <3>6 DEF Stays, Falls, Tries
    <3> QED
      BY <3>1, <3>6, <3>7, StepKeeps
  <2>2. CASE c.tors > 0 /\ \E b \in LooksAtTor(c) : Step(initSocket([b EXCEPT !.tors = @ - 1]))
    <3>1. PICK b \in LooksAtTor(c) : Step(initSocket([b EXCEPT !.tors = @ - 1]))
      BY <2>2
    <3> DEFINE n == b.tors - 1
               e == [b EXCEPT !.tors = @ - 1]
    <3>2. Step(initSocket(e)) /\ chat' = chat
      BY <1>6, <3>1 DEF ReconnectWithTor
    <3>3. Good(kind, b) /\ b \in Clients /\ b.tors = c.tors /\ b.state = c.state
      BY <1>1, <3>1, LooksKeep
    <3>4. n \in Nat /\ b.state \in States
      BY <1>1, <2>2, <3>3, Fields
    <3>5. e = WithMode(b, b.state, n)
      BY <3>3 DEF Clients, WithMode
    <3> HIDE DEF n, e
    <3>6. Good(kind, e)
      BY <3>3, <3>4, <3>5, WithModeKeeps
    <3> QED
      BY <1>1, <3>2, <3>6, InitSocketKeeps, StepKeeps
  <2> QED
    BY <1>6, <2>1, <2>2 DEF ReconnectWithTor
<1>7. CASE ActivateP2PMode
  <2> DEFINE e == [c EXCEPT !.state = "p2p_connecting"]
  <2>1. Step(e) /\ chat' = chat
    BY <1>7 DEF ActivateP2PMode
  <2>2. e = WithMode(c, "p2p_connecting", c.tors) /\ "p2p_connecting" \in States
    BY <1>1 DEF Clients, States, WithMode
  <2> HIDE DEF e
  <2>3. /\ Good(kind, e) /\ e.user = c.user /\ e.state = "p2p_connecting" /\ e.tors = c.tors
        /\ e.conns = c.conns /\ e.inits = c.inits /\ e.link = c.link /\ e.socket = c.socket
    BY <1>1, <2>2, WithModeKeeps
  <2>4. Stays(e)
    BY <1>1, <2>3 DEF Stays, Falls, Tries
  <2> QED
    BY <2>1, <2>3, <2>4, StepKeeps
<1>8. CASE DeactivateP2PMode
  <2> DEFINE e == [c EXCEPT !.state = "relay"]
  <2>1. Step(IF c.user THEN initSocket(e) ELSE e) /\ chat' = chat
    BY <1>8 DEF DeactivateP2PMode
  <2>2. e = WithMode(c, "relay", c.tors) /\ "relay" \in States
    BY <1>1 DEF Clients, States, WithMode
  <2> HIDE DEF e
  <2>3. Good(kind, e) /\ e.user = c.user
    BY <1>1, <2>2, WithModeKeeps
  <2>4. CASE c.user
    BY <1>1, <2>1, <2>3, <2>4, InitSocketKeeps, StepKeeps
  <2>5. CASE ~c.user
    BY <2>1, <2>3, <2>5, StepKeeps DEF Stays, Falls
  <2> QED
    BY <2>4, <2>5
<1> QED
  BY <1>4, <1>5, <1>6, <1>7, <1>8

\* What happens to a peer connection, closed or not.
LEMMA ConnStepsKeep ==
  ASSUME LinkInv, NEW k \in DOMAIN c.conns,
         Offered(k) \/ Rejected(k) \/ Progress(k) \/ Break(k) \/ Timeout(k)
  PROVE  LinkInv'
<1>1. /\ Good(kind, c) /\ Stays(c) /\ Falls(c) /\ c \in Clients /\ chat \in Peers \cup {NoPeer}
      /\ c.conns \in Seq(ConnType) /\ c.conns[k] \in ConnType /\ c.peers \in [Peers -> Nat]
      /\ DOMAIN c.conns = 1..Len(c.conns)
  BY LinkFacts, Fields
<1> DEFINE old == c.conns[k]
\* A step sets fields of the connection and may go on.
<1>2. ASSUME NEW n \in ConnType, n.of = old.of, n.closed = old.closed, LeadsOn(old) => LeadsOn(n)
      PROVE  /\ Good(kind, WithConn(c, k, n)) /\ Stays(WithConn(c, k, n))
             /\ k \in DOMAIN WithConn(c, k, n).conns /\ WithConn(c, k, n).conns[k] = n
  BY <1>1, <1>2, WithConnKeeps
<1>3. ASSUME NEW n \in ConnType, n.of = old.of, n.closed = old.closed
      PROVE  /\ Good(kind, WithConn(c, k, n)) /\ Falls(WithConn(c, k, n))
             /\ k \in DOMAIN WithConn(c, k, n).conns
             /\ \A i \in DOMAIN c.conns : i # k => WithConn(c, k, n).conns[i] = c.conns[i]
             /\ DOMAIN WithConn(c, k, n).conns = DOMAIN c.conns
             /\ WithConn(c, k, n).conns[k] = n
             /\ OnlyPeers(c, WithConn(c, k, n))
  BY <1>1, <1>3, WithConnKeeps
<1>4. CASE Offered(k) \/ Rejected(k)
  <2>1. PICK t \in {"off", "on", "never"} : Step([c EXCEPT !.conns[k].timer = t])
    BY <1>4 DEF Offered, Rejected
  <2> DEFINE n == [old EXCEPT !.timer = t]
             d == [c EXCEPT !.conns[k].timer = t]
  <2>2. Step(d) /\ chat' = chat
    BY <1>4, <2>1 DEF Offered, Rejected
  <2>3. d = WithConn(c, k, n)
    BY <1>1 DEF WithConn, Clients
  <2> HIDE DEF d
  <2>4. n \in ConnType /\ n.of = old.of /\ n.closed = old.closed /\ n.channel = old.channel
    BY <1>1, <2>1 DEF ConnType
  <2>5. LeadsOn(old) => LeadsOn(n)
    BY <2>4 DEF LeadsOn
  <2> HIDE DEF n, old
  <2>6. Good(kind, d) /\ Stays(d)
    BY <1>2, <2>3, <2>4, <2>5
  <2> QED
    BY <2>2, <2>6, StepKeeps
<1>5. CASE Progress(k)
  <2>0. ~old.closed /\ chat' = chat
    BY <1>5 DEF Progress
  <2>1. ASSUME NEW n \in ConnType, n.of = old.of, n.closed = old.closed,
               LeadsOn(old) => LeadsOn(n), Step(tryMarkReady(WithConn(c, k, n), k))
        PROVE  LinkInv'
    <3> DEFINE d == WithConn(c, k, n)
    <3>1. Good(kind, d) /\ Stays(d) /\ k \in DOMAIN d.conns /\ d.conns[k] = n
      BY <1>2, <2>1
    <3>2. Step(tryMarkReady(d, k))
      BY <2>1
    <3> HIDE DEF d
    <3>3. Good(kind, tryMarkReady(d, k)) /\ Stays(tryMarkReady(d, k))
      BY <1>1, <2>0, <2>1, <3>1, TryMarkReadyKeeps
    <3> QED
      BY <2>0, <3>2, <3>3, StepKeeps
  <2>2. CASE old.channel = "new" /\ Step(tryMarkReady([c EXCEPT !.conns[k].channel = "open",
                                                           !.conns[k].state = "handshaking"], k))
    <3> DEFINE n == [old EXCEPT !.channel = "open", !.state = "handshaking"]
    <3>1. n \in ConnType /\ n.of = old.of /\ n.closed = old.closed /\ n.channel = "open"
      BY <1>1 DEF ConnType
    <3>2. WithConn(c, k, n) = [c EXCEPT !.conns[k].channel = "open",
                                        !.conns[k].state = "handshaking"]
      BY <1>1 DEF WithConn, Clients
    <3>3. LeadsOn(old) => LeadsOn(n)
      BY <2>0, <3>1 DEF LeadsOn
    <3> HIDE DEF n
    <3>4. Step(tryMarkReady(WithConn(c, k, n), k))
      BY <2>2, <3>2
    <3> QED
      BY <2>1, <3>1, <3>3, <3>4
  <2>3. CASE old.pc = "new" /\ Step(tryMarkReady([c EXCEPT !.conns[k].pc = "connected"], k))
    <3> DEFINE n == [old EXCEPT !.pc = "connected"]
    <3>1. /\ n \in ConnType /\ n.of = old.of /\ n.closed = old.closed
          /\ n.channel = old.channel /\ n.timer = old.timer
      BY <1>1 DEF ConnType
    <3>2. WithConn(c, k, n) = [c EXCEPT !.conns[k].pc = "connected"]
      BY <1>1 DEF WithConn, Clients
    <3>3. LeadsOn(old) => LeadsOn(n)
      BY <3>1 DEF LeadsOn
    <3> HIDE DEF n
    <3>4. Step(tryMarkReady(WithConn(c, k, n), k))
      BY <2>3, <3>2
    <3> QED
      BY <2>1, <3>1, <3>3, <3>4
  <2>4. CASE old.channel = "open" /\ Step(tryMarkReady([c EXCEPT !.conns[k].hello = TRUE], k))
    <3> DEFINE b == TRUE
               r == [c EXCEPT !.conns[k].hello = b]
               n == [old EXCEPT !.hello = b]
    <3>1. Step(tryMarkReady(r, k))
      BY <2>4
    <3>2. b \in BOOLEAN
      OBVIOUS
    <3> HIDE DEF b
    <3>3. /\ n \in ConnType /\ n.of = old.of /\ n.closed = old.closed
          /\ n.channel = old.channel /\ n.timer = old.timer
      BY <1>1, <3>2 DEF ConnType
    <3>4. WithConn(c, k, n) = r
      BY <1>1 DEF WithConn, Clients
    <3>5. LeadsOn(old) => LeadsOn(n)
      BY <3>3 DEF LeadsOn
    <3> HIDE DEF n, r
    <3>6. Step(tryMarkReady(WithConn(c, k, n), k))
      BY <3>1, <3>4
    <3> QED
      BY <2>1, <3>3, <3>5, <3>6
  <2>5. CASE Step(markFailed(c, k))
    BY <1>1, <2>0, <2>5, MarkFailedKeeps, StepKeeps
  <2> QED
    BY <1>5, <2>2, <2>3, <2>4, <2>5 DEF Progress
<1>6. CASE Break(k)
  <2> DEFINE n == [old EXCEPT !.channel = "closed", !.pc = "failed"]
             d == [c EXCEPT !.conns[k].channel = "closed", !.conns[k].pc = "failed"]
  <2>1. Step(markFailed(d, k)) /\ chat' = chat
    BY <1>6 DEF Break
  <2>2. n \in ConnType /\ n.of = old.of /\ n.closed = old.closed
    BY <1>1 DEF ConnType
  <2>3. d = WithConn(c, k, n)
    BY <1>1 DEF WithConn, Clients
  <2> HIDE DEF n, d, old
  <2>4. Good(kind, d) /\ Falls(d) /\ k \in DOMAIN d.conns
    BY <1>3, <2>2, <2>3
  <2> QED
    BY <2>1, <2>4, MarkFailedKeeps, StepKeeps
<1>7. CASE Timeout(k)
  <2> DEFINE n == [old EXCEPT !.timer = "off"]
             d == [c EXCEPT !.conns[k].timer = "off"]
             p == old.of
             i == c.peers[p]
  <2>1. Step(IF isPeerConnected(c, p) THEN d ELSE markFailed(d, k)) /\ chat' = chat
    BY <1>7 DEF Timeout
  <2>2. /\ n \in ConnType /\ n.of = old.of /\ n.closed = old.closed /\ n.channel = old.channel
        /\ p \in Peers
    BY <1>1 DEF ConnType
  <2>3. d = WithConn(c, k, n)
    BY <1>1 DEF WithConn, Clients
  <2> HIDE DEF n, d, old
  <2>4. /\ Good(kind, d) /\ Falls(d) /\ k \in DOMAIN d.conns
        /\ \A j \in DOMAIN c.conns : j # k => d.conns[j] = c.conns[j]
        /\ DOMAIN d.conns = DOMAIN c.conns /\ d.conns[k] = n
    BY <1>3, <2>2, <2>3
  <2>5. CASE isPeerConnected(c, p)
    <3>1. i \in DOMAIN c.conns /\ ~c.conns[i].closed /\ c.conns[i].channel = "open"
      BY <1>1, <2>2, <2>5 DEF isPeerConnected, Good, Shape
    <3>2. LeadsOn(d.conns[i])
      BY <2>2, <2>4, <3>1 DEF LeadsOn, old
    <3>3. Stays(d)
      BY <2>4, <3>1, <3>2 DEF Stays
    <3> QED
      BY <2>1, <2>4, <2>5, <3>3, StepKeeps
  <2>6. CASE ~isPeerConnected(c, p)
    BY <2>1, <2>4, <2>6, MarkFailedKeeps, StepKeeps
  <2> QED
    BY <2>5, <2>6
<1> QED
  BY <1>4, <1>5, <1>6, <1>7

\* Every step keeps the invariant.
LEMMA LinkStep == LinkInv /\ [Next]_vars => LinkInv'
<1> SUFFICES ASSUME LinkInv, [Next]_vars PROVE LinkInv'
  OBVIOUS
<1>1. /\ Good(kind, c) /\ Stays(c) /\ Falls(c) /\ chat \in Peers \cup {NoPeer}
  BY LinkFacts
<1>2. CASE InitSocket \/ ReconnectToServer \/ ReconnectWithTor \/ ActivateP2PMode
           \/ DeactivateP2PMode
  BY <1>2, RelayStepsKeep
<1>3. CASE OpenSocket
  BY <1>3, OpenSocketKeeps
<1>4. CASE Register
  BY <1>4, RegisterKeeps
<1>5. ASSUME NEW s \in DOMAIN c.link, Connect(s) \/ Lose(s) PROVE LinkInv'
  BY <1>5, ConnectStepKeeps, LoseKeeps
<1>6. ASSUME NEW k \in DOMAIN c.conns,
             Offered(k) \/ Rejected(k) \/ Progress(k) \/ Break(k) \/ Timeout(k)
      PROVE  LinkInv'
  BY <1>6, ConnStepsKeep
<1>7. CASE Dial
  <2> DEFINE d == connectToPeer(c, chat)
  <2>1. Step(d) /\ chat' = chat /\ chat \in Peers
    BY <1>1, <1>7 DEF Dial
  <2>2. Good(kind, d) /\ Stays(d)
    BY <1>1, <2>1, ConnectKeeps
  <2> HIDE DEF d
  <2> QED
    BY <2>1, <2>2, StepKeeps
<1>8. ASSUME NEW p \in Peers \cup {NoPeer}, OpenChat(p) PROVE LinkInv'
  <2>1. c' = c /\ kind' = kind /\ chat' \in Peers \cup {NoPeer}
    BY <1>8 DEF OpenChat
  <2>2. Good(kind, c)'
    BY <1>1, <2>1 DEF Good, Shape, Sockets, Health, Up, Trying
  <2>3. Stays(c)'
    BY <1>1, <2>1 DEF Stays, Falls, Tries
  <2> QED
    BY <2>1, <2>2, <2>3 DEF LinkInv
<1>9. CASE UNCHANGED vars
  <2>1. c' = c /\ kind' = kind /\ chat' = chat
    BY <1>9 DEF vars
  <2>2. Good(kind, c)'
    BY <1>1, <2>1 DEF Good, Shape, Sockets, Health, Up, Trying
  <2>3. Stays(c)'
    BY <1>1, <2>1 DEF Stays, Falls, Tries
  <2> QED
    BY <2>1, <2>2, <2>3 DEF LinkInv
<1> QED
  BY <1>2, <1>3, <1>4, <1>5, <1>6, <1>7, <1>8, <1>9 DEF Next

-----------------------------------------------------------------------------
(* The theorems                                                            *)

\* LinkInv holds of every client, whatever it hears and in what order.
THEOREM LinkInvariant == Spec => []LinkInv
<1>1. Init => LinkInv
  BY LinkInitially
<1>2. LinkInv /\ [Next]_vars => LinkInv'
  BY LinkStep
<1> QED
  BY <1>1, <1>2, PTL DEF Spec

\* The variables of socket.ts and of the peer channels have their types, and a peer's entry names
\* a connection to that peer that was not closed.
THEOREM TypeCorrect == Spec => []TypeOK
<1>1. LinkInv => TypeOK
  BY LinkInvSuffices
<1> QED
  BY <1>1, LinkInvariant, PTL

\* What the client believes of the relay is so: relayHealthy (setRelayHealth in socket.ts) is not
\* set by a relay long gone, and a client that is up is registered or about to be.
THEOREM TheRelayIsAsBelieved == Spec => []HealthTracks
<1>1. LinkInv => HealthTracks
  BY LinkInvSuffices
<1> QED
  BY <1>1, LinkInvariant, PTL

\* A client that gave up the relay for a peer (reportTransportState) always has a way back to one
\* of the two.
THEOREM NobodyIsStranded == Spec => []NotStranded
<1>1. LinkInv => NotStranded
  BY LinkInvSuffices
<1> QED
  BY <1>1, LinkInvariant, PTL

=============================================================================
