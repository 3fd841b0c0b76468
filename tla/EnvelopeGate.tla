---------------------------- MODULE EnvelopeGate ----------------------------
(***************************************************************************)
(* What a frame must pass before the Go relay handles it: the loop of      *)
(* readLoop (server/go/internal/ws/hub.go), the sliding-window Limiter of  *)
(* internal/ratelimit and the ReplayProtector of internal/security.        *)
(*                                                                         *)
(* All connections share one ReplayProtector.  Check reads the clock       *)
(* before it takes the lock, so a goroutine may sweep and record with a    *)
(* time that others have already left behind.  The limiter's entries are   *)
(* per connection (its key is RemoteAddr) and one goroutine uses each.     *)
(***************************************************************************)
EXTENDS Integers, Sequences, FiniteSets

CONSTANTS
  Conns,
  Nonces,
  Stamps,    \* Envelope.Timestamp; 0 stands for an envelope without nonce or timestamp
  Ttl,       \* REPLAY_TTL
  Skew,      \* TIMESTAMP_SKEW
  Stall,     \* how long a goroutine may stand between reading the clock and the lock
  Limit,     \* RATE_LIMIT_PER_MINUTE; 0 turns the limiter off
  Window,    \* the limiter's window, a minute
  Horizon,   \* bound of the clock
  Never      \* no time: the nonce is not in ReplayProtector.seen

ASSUME GateAssumption ==
  /\ Stamps \subseteq Nat
  /\ Ttl \in Nat /\ Skew \in Nat /\ Stall \in Nat
  /\ Limit \in Nat /\ Window \in Nat \ {0} /\ Horizon \in Nat
  /\ Never \notin Nat

\* REPLAY_TTL outlasts the timestamps accepted of a frame (1h and 5m by default).
ASSUME TtlAssumption == Ttl >= 2 * Skew + Stall

Frames == [nonce : Nonces, stamp : Stamps]

VARIABLES
  clock,
  hits,      \* hits[c]: Limiter.hits of connection c
  seen,      \* seen[n]: ReplayProtector.seen
  waiting,   \* waiting[c]: the frames (at most one) for which c stands at the lock of Check
  at,        \* at[c]: the time c read at the beginning of Check
  handled,   \* history: how often a signed frame was passed to handle()
  allowed    \* history: allowed[c], when the limiter let a frame of c pass

vars == <<clock, hits, seen, waiting, at, handled, allowed>>

Init ==
  /\ clock = 0
  /\ hits = [c \in Conns |-> <<>>]
  /\ seen = [n \in Nonces |-> Never]
  /\ waiting = [c \in Conns |-> {}]
  /\ at = [c \in Conns |-> 0]
  /\ handled = [f \in Frames |-> 0]
  /\ allowed = [c \in Conns |-> <<>>]

-----------------------------------------------------------------------------
(* ratelimit.Limiter                                                       *)

\* The hits of c that are still in the window: the last ones, since time only goes on.
Kept(c) ==
  LET recent == {i \in DOMAIN hits[c] : clock - hits[c][i] < Window}
  IN  SubSeq(hits[c], Len(hits[c]) - Cardinality(recent) + 1, Len(hits[c]))

\* (faulty: off by one)
AllowsOneMore(c) == Limit = 0 \/ Len(Kept(c)) <= Limit

Allows(c) == Limit = 0 \/ Len(Kept(c)) < Limit

\* (faulty: a refused frame counts as a hit)
RefuseCounts(c) ==
  /\ waiting[c] = {}
  /\ ~Allows(c)
  /\ hits' = [hits EXCEPT ![c] = Append(Tail(Kept(c)), clock)]
  /\ UNCHANGED <<clock, seen, waiting, at, handled, allowed>>

\* "rate limit exceeded"
Refuse(c) ==
  /\ waiting[c] = {}
  /\ ~Allows(c)
  /\ hits' = [hits EXCEPT ![c] = Kept(c)]
  /\ UNCHANGED <<clock, seen, waiting, at, handled, allowed>>

-----------------------------------------------------------------------------
(* security.ReplayProtector                                                *)

Unsigned(f) == f.stamp = 0

InSkew(f, now) == now - Skew <= f.stamp /\ f.stamp <= now + Skew

\* The limiter lets the frame pass.  Check then accepts it unseen (unsigned), refuses it for
\* its timestamp, or goes to the lock.
Pass(c, f) ==
  /\ waiting[c] = {}
  /\ Allows(c)
  /\ hits' = IF Limit = 0 THEN hits ELSE [hits EXCEPT ![c] = Append(Kept(c), clock)]
  /\ allowed' = [allowed EXCEPT ![c] = Append(@, clock)]
  /\ IF ~Unsigned(f) /\ InSkew(f, clock)
     THEN /\ waiting' = [waiting EXCEPT ![c] = {f}]
          /\ at' = [at EXCEPT ![c] = clock]
     ELSE UNCHANGED <<waiting, at>>
  /\ UNCHANGED <<clock, seen, handled>>

\* (faulty: an entry goes as soon as its age is the ttl)
SweptEarly(now) ==
  [n \in Nonces |-> IF seen[n] # Never /\ now - seen[n] >= Ttl THEN Never ELSE seen[n]]

\* What the sweep at the beginning of Check's locked section leaves.
Swept(now) ==
  [n \in Nonces |-> IF seen[n] # Never /\ now - seen[n] > Ttl THEN Never ELSE seen[n]]

\* Check's locked section: sweep, refuse a nonce that is left, otherwise record and handle.
Check(c) ==
  \E f \in waiting[c] :
    LET left == Swept(at[c])
    IN  /\ waiting' = [waiting EXCEPT ![c] = {}]
        /\ at' = [at EXCEPT ![c] = 0]
        /\ IF left[f.nonce] = Never
           THEN /\ seen' = [left EXCEPT ![f.nonce] = at[c]]
                /\ handled' = [handled EXCEPT ![f] = @ + 1]
           ELSE seen' = left /\ UNCHANGED handled
        /\ UNCHANGED <<clock, hits, allowed>>

\* Time passes, but no goroutine stands at the lock for longer than Stall.
Tick ==
  /\ clock < Horizon
  /\ \A c \in Conns : waiting[c] # {} => clock - at[c] < Stall
  /\ clock' = clock + 1
  /\ UNCHANGED <<hits, seen, waiting, at, handled, allowed>>

Next ==
  \/ \E c \in Conns :
       \/ Refuse(c)
       \/ \E f \in Frames : Pass(c, f)
       \/ Check(c)
  \/ Tick

Spec == Init /\ [][Next]_vars

-----------------------------------------------------------------------------
(* Properties                                                              *)

\* Every variable has its shape, and the limiter keeps at most Limit times per connection.
TypeOK ==
  /\ clock \in Nat
  /\ hits \in [Conns -> Seq(Nat)]
  /\ \A c \in Conns : Len(hits[c]) <= Limit
  /\ seen \in [Nonces -> Nat \cup {Never}]
  /\ waiting \in [Conns -> SUBSET Frames]
  /\ at \in [Conns -> Nat]
  /\ handled \in [Frames -> Nat]
  /\ allowed \in [Conns -> Seq(Nat)]

\* A signed frame is handled at most once, on whichever connections its copies arrive,
\* although sweeps run with stale times and a nonce is forgotten after Ttl: by then the
\* timestamp of every copy is out of the allowed skew.
HandledOnce ==
  \A f \in Frames : ~Unsigned(f) => handled[f] <= 1

\* The frames of c that the limiter let pass within the last Window.
RecentlyAllowed(c) == {i \in DOMAIN allowed[c] : clock - allowed[c][i] < Window}

\* The limiter forgets neither too early nor too late: in no interval of length Window does a
\* connection get more than Limit frames past it, and it refuses one only if Limit frames have
\* really passed within the last Window, however many were refused since.
RateExact ==
  \A c \in Conns :
    /\ Limit > 0 => Cardinality(RecentlyAllowed(c)) <= Limit
    /\ Cardinality(RecentlyAllowed(c)) < Limit => Allows(c)
=============================================================================
