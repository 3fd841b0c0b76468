------------------------ MODULE GateAndFiles_proofs ------------------------
(***************************************************************************)
(* Theorems about the two parts of the relays that stand on their own.     *)
(* EnvelopeGate: the replay protection and the rate limit, for any number  *)
(* of connections, nonces and timestamps, any limit and window, and any    *)
(* durations that satisfy TtlAssumption.  FileStore: the shared files of   *)
(* each of the relays, for any number of files, download limits and        *)
(* overlapping requests.                                                   *)
(***************************************************************************)
EXTENDS EnvelopeGate, FileStore, FiniteSetTheorems, WellFoundedInduction, TLAPS

-----------------------------------------------------------------------------
(* The replay protection                                                   *)

\* The types of what Check uses.
CheckTypes ==
  /\ clock \in Nat
  /\ seen \in [Nonces -> Nat \cup {Never}]
  /\ waiting \in [Conns -> SUBSET Frames]
  /\ at \in [Conns -> Nat]
  /\ handled \in [Frames -> Nat]

\* A frame at the lock was within the skew when the clock was read, and that is not longer
\* ago than Stall.
WaitingOK ==
  \A c \in Conns : \A f \in waiting[c] :
    /\ ~Unsigned(f)
    /\ f.stamp <= at[c] + Skew
    /\ at[c] <= f.stamp + Skew
    /\ at[c] <= clock
    /\ clock <= at[c] + Stall

\* No time is recorded that has not come yet.
SeenOK == \A n \in Nonces : seen[n] # Never => seen[n] <= clock

\* No copy of f can be at the lock any more.
Outdated(f) == clock > f.stamp + Skew + Stall

\* HandledOnce is not inductive: a frame that was handled is remembered by its nonce or too
\* old for every goroutine, whatever time that goroutine has read.
Remembered ==
  \A f \in Frames : ~Unsigned(f) /\ handled[f] > 0 =>
    \/ seen[f.nonce] # Never /\ f.stamp <= seen[f.nonce] + Skew
    \/ Outdated(f)

\* The inductive invariant of the replay protection.
GateInv == CheckTypes /\ WaitingOK /\ SeenOK /\ Remembered /\ HandledOnce

\* GateInv before the first step.
LEMMA GateInit == Init => GateInv
  BY GateAssumption DEF Init, GateInv, CheckTypes, WaitingOK, SeenOK, Remembered, HandledOnce,
     Frames

\* What a sweep forgets is outdated.
LEMMA SweepForgetsOutdated ==
  ASSUME GateInv, NEW now \in Nat, now <= clock,
         NEW f \in Frames, ~Unsigned(f), handled[f] > 0
  PROVE  \/ /\ Swept(now)[f.nonce] = seen[f.nonce]
            /\ seen[f.nonce] # Never
            /\ f.stamp <= seen[f.nonce] + Skew
         \/ Outdated(f)
<1> USE GateAssumption, TtlAssumption DEF GateInv, CheckTypes
<1>1. f.nonce \in Nonces /\ f.stamp \in Nat
  BY DEF Frames
<1>2. CASE Outdated(f)
  BY <1>2
<1>3. CASE seen[f.nonce] # Never /\ f.stamp <= seen[f.nonce] + Skew
  <2>1. seen[f.nonce] \in Nat
    BY <1>1, <1>3
  <2>2. CASE now - seen[f.nonce] > Ttl
    BY <1>1, <1>3, <2>1, <2>2 DEF Outdated
  <2>3. CASE ~(now - seen[f.nonce] > Ttl)
    BY <1>1, <1>3, <2>3 DEF Swept
  <2> QED
    BY <2>2, <2>3
<1> QED
  BY <1>2, <1>3 DEF Remembered

\* GateInv across the locked section of Check.
LEMMA CheckStep ==
  ASSUME GateInv, NEW c \in Conns, Check(c)
  PROVE  GateInv'
<1> USE GateAssumption DEF GateInv, CheckTypes
<1>1. PICK f \in waiting[c] :
        /\ waiting' = [waiting EXCEPT ![c] = {}]
        /\ at' = [at EXCEPT ![c] = 0]
        /\ clock' = clock
        /\ IF Swept(at[c])[f.nonce] = Never
           THEN /\ seen' = [Swept(at[c]) EXCEPT ![f.nonce] = at[c]]
                /\ handled' = [handled EXCEPT ![f] = @ + 1]
           ELSE seen' = Swept(at[c]) /\ handled' = handled
  BY DEF Check
<1>2. /\ f \in Frames /\ f.nonce \in Nonces /\ f.stamp \in Nat
      /\ ~Unsigned(f)
      /\ f.stamp <= at[c] + Skew
      /\ at[c] <= f.stamp + Skew
      /\ at[c] \in Nat
      /\ at[c] <= clock
      /\ clock <= at[c] + Stall
  <2>1. f \in Frames
    OBVIOUS
  <2>2. f.nonce \in Nonces /\ f.stamp \in Nat
    BY <2>1 DEF Frames
  <2> QED
    BY <2>1, <2>2 DEF WaitingOK
<1>3. ~Outdated(f)
  BY <1>2 DEF Outdated
<1>4. /\ Swept(at[c]) \in [Nonces -> Nat \cup {Never}]
      /\ \A n \in Nonces : Swept(at[c])[n] # Never => Swept(at[c])[n] = seen[n]
  BY DEF Swept
<1>5. CheckTypes'
  BY <1>1, <1>2, <1>4
<1>6. WaitingOK'
  BY <1>1 DEF WaitingOK
<1>7. SeenOK'
  BY <1>1, <1>2, <1>4 DEF SeenOK
<1>8. \A g \in Frames : ~Unsigned(g) /\ handled[g] > 0 =>
        \/ /\ Swept(at[c])[g.nonce] = seen[g.nonce]
           /\ seen[g.nonce] # Never
           /\ g.stamp <= seen[g.nonce] + Skew
        \/ Outdated(g)
  BY <1>2, SweepForgetsOutdated
<1>9. \A g \in Frames : Outdated(g)' <=> Outdated(g)
  BY <1>1 DEF Outdated
<1>10. CASE Swept(at[c])[f.nonce] = Never
  <2>1. handled[f] = 0
    BY <1>2, <1>3, <1>8, <1>10
  <2>2. HandledOnce'
    BY <1>1, <1>2, <1>10, <2>1 DEF HandledOnce
  <2>3. ASSUME NEW g \in Frames, ~Unsigned(g), handled'[g] > 0
        PROVE  \/ seen'[g.nonce] # Never /\ g.stamp <= seen'[g.nonce] + Skew
               \/ Outdated(g)'
    <3>1. CASE g = f
      BY <1>1, <1>2, <1>4, <1>10, <3>1
    <3>2. CASE g # f
      <4>1. handled[g] > 0 /\ g.nonce \in Nonces
        BY <1>1, <1>2, <1>10, <2>3, <3>2 DEF Frames
      <4>2. CASE Outdated(g)
        BY <1>9, <4>2
      <4>3. CASE ~Outdated(g)
        BY <1>1, <1>4, <1>8, <1>10, <2>3, <4>1, <4>3
      <4> QED
        BY <4>2, <4>3
    <3> QED
      BY <3>1, <3>2
  <2>4. Remembered'
    BY <2>3 DEF Remembered
  <2> QED
    BY <1>5, <1>6, <1>7, <2>2, <2>4
<1>11. CASE Swept(at[c])[f.nonce] # Never
  <2>1. handled' = handled /\ seen' = Swept(at[c])
    BY <1>1, <1>11
  <2>2. HandledOnce'
    BY <2>1 DEF HandledOnce
  <2>3. Remembered'
    BY <1>8, <1>9, <2>1 DEF Remembered
  <2> QED
    BY <1>5, <1>6, <1>7, <2>2, <2>3
<1> QED
  BY <1>10, <1>11

\* GateInv across any step.
LEMMA GateStep == GateInv /\ [Next]_vars => GateInv'
<1> SUFFICES ASSUME GateInv, [Next]_vars PROVE GateInv'
  OBVIOUS
<1> USE GateAssumption DEF GateInv
<1>1. ASSUME NEW c \in Conns, Refuse(c)
      PROVE  GateInv'
  BY <1>1 DEF Refuse, CheckTypes, WaitingOK, SeenOK, Remembered, HandledOnce, Outdated
<1>2. ASSUME NEW c \in Conns, NEW f \in Frames, Pass(c, f)
      PROVE  GateInv'
  <2>1. /\ UNCHANGED <<clock, seen, handled>>
        /\ \/ UNCHANGED <<waiting, at>>
           \/ /\ ~Unsigned(f) /\ InSkew(f, clock)
              /\ waiting' = [waiting EXCEPT ![c] = {f}]
              /\ at' = [at EXCEPT ![c] = clock]
    BY <1>2 DEF Pass
  <2>2. CheckTypes' /\ SeenOK' /\ Remembered' /\ HandledOnce'
    BY <2>1 DEF CheckTypes, SeenOK, Remembered, HandledOnce, Outdated
  <2>3. CASE UNCHANGED <<waiting, at>>
    BY <2>1, <2>2, <2>3 DEF WaitingOK
  <2>4. CASE ~Unsigned(f) /\ InSkew(f, clock) /\ waiting' = [waiting EXCEPT ![c] = {f}]
               /\ at' = [at EXCEPT ![c] = clock]
    <3>1. f.stamp \in Nat
      BY DEF Frames
    <3>2. /\ f.stamp <= clock + Skew
          /\ clock <= f.stamp + Skew
          /\ clock <= clock + Stall
      BY <2>4, <3>1 DEF InSkew, CheckTypes
    <3>3. /\ waiting'[c] = {f} /\ at'[c] = clock
          /\ \A d \in Conns \ {c} : waiting'[d] = waiting[d] /\ at'[d] = at[d]
      BY <2>4 DEF CheckTypes
    <3>4. WaitingOK'
      BY <2>1, <2>4, <3>2, <3>3 DEF WaitingOK, CheckTypes
    <3> QED
      BY <2>2, <3>4
  <2> QED
    BY <2>1, <2>3, <2>4
<1>3. ASSUME NEW c \in Conns, Check(c)
      PROVE  GateInv'
  BY <1>3, CheckStep
<1>4. CASE Tick
  <2>1. /\ clock' = clock + 1
        /\ \A c \in Conns : waiting[c] # {} => clock - at[c] < Stall
        /\ UNCHANGED <<seen, waiting, at, handled>>
    BY <1>4 DEF Tick
  <2>2. CheckTypes' /\ SeenOK' /\ HandledOnce'
    BY <2>1 DEF CheckTypes, SeenOK, HandledOnce
  <2>3. WaitingOK'
    BY <2>1 DEF CheckTypes, WaitingOK
  <2>4. \A f \in Frames : Outdated(f) => Outdated(f)'
    <3>1. \A f \in Frames : f.stamp \in Nat
      BY DEF Frames
    <3> QED
      BY <2>1, <3>1 DEF CheckTypes, Outdated
  <2>5. Remembered'
    BY <2>1, <2>4 DEF Remembered
  <2> QED
    BY <2>2, <2>3, <2>5
<1>5. CASE UNCHANGED vars
  BY <1>5 DEF vars, CheckTypes, WaitingOK, SeenOK, Remembered, HandledOnce, Outdated
<1> QED
  BY <1>1, <1>2, <1>3, <1>4, <1>5 DEF Next

\* No signed frame is handled twice: for any skew, and any goroutine that sleeps up to Stall
\* at the lock, a ttl of twice the skew and Stall is long enough.
THEOREM NoReplay == Spec => []HandledOnce
<1>1. GateInv => HandledOnce
  BY DEF GateInv
<1> QED
  BY <1>1, GateInit, GateStep, PTL DEF Spec

-----------------------------------------------------------------------------
(* The rate limit                                                          *)

\* In the order of time.
Ascending(q) == \A i, j \in DOMAIN q : i <= j => q[i] <= q[j]

\* h is what is left of q when the first d are dropped.
Suffix(h, q, d) == Len(h) = Len(q) - d /\ \A i \in 1..Len(h) : h[i] = q[d + i]

\* None of the first d of q is within the window any more.
Past(q, d) == \A i \in 1..d : q[i] + Window <= clock

\* RateExact is not inductive: the limiter's hits are the last of the frames it let pass, and
\* those it has dropped are out of the window for good.
RateInv ==
  /\ clock \in Nat
  /\ hits \in [Conns -> Seq(Nat)]
  /\ allowed \in [Conns -> Seq(Nat)]
  /\ \A c \in Conns :
       /\ Ascending(allowed[c])
       /\ \A i \in DOMAIN allowed[c] : allowed[c][i] <= clock
       /\ Len(hits[c]) <= Limit
       /\ Limit > 0 => \E d \in 0..Len(allowed[c]) :
                         Suffix(hits[c], allowed[c], d) /\ Past(allowed[c], d)

\* A set of natural numbers has a least element.
LEMMA LeastElement ==
  ASSUME NEW T \in SUBSET Nat, T # {}
  PROVE  \E x \in T : \A y \in T : x <= y
<1>1. PICK x \in T : \A y \in T : <<y, x>> \notin OpToRel(<, Nat)
  BY NatLessThanWellFounded, WFMin
<1>2. ASSUME NEW y \in T PROVE x <= y
  <2>1. ~ (y < x)
    BY <1>1 DEF OpToRel
  <2> QED
    BY <2>1
<1> QED
  BY <1>2

\* Of times in order, those within the window are the last ones.
LEMMA RecentAreLast ==
  ASSUME clock \in Nat, NEW q \in Seq(Nat), Ascending(q)
  PROVE  \E k \in 0..Len(q) : /\ {i \in DOMAIN q : clock - q[i] < Window} = (k + 1)..Len(q)
                              /\ Past(q, k)
<1> USE GateAssumption
<1>1. DOMAIN q = 1..Len(q) /\ Len(q) \in Nat /\ \A i \in 1..Len(q) : q[i] \in Nat
  OBVIOUS
<1> DEFINE T == {i \in 1..(Len(q) + 1) : i \in 1..Len(q) => clock - q[i] < Window}
<1>2. T \in SUBSET Nat /\ Len(q) + 1 \in T
  BY <1>1
<1>3. PICK x \in T : \A y \in T : x <= y
  BY <1>2, LeastElement
<1>4. x \in 1..(Len(q) + 1) /\ (x \in 1..Len(q) => clock - q[x] < Window)
  BY <1>3
<1>5. \A i \in 1..Len(q) : i < x => ~ (clock - q[i] < Window)
  BY <1>1, <1>3, <1>4
<1>6. ASSUME NEW i \in 1..Len(q), x <= i PROVE clock - q[i] < Window
  <2>1. x \in 1..Len(q) /\ x \in DOMAIN q /\ i \in DOMAIN q
    BY <1>1, <1>4, <1>6
  <2>2. q[x] <= q[i]
    BY <1>6, <2>1 DEF Ascending
  <2> QED
    BY <1>1, <1>4, <2>1, <2>2
<1> HIDE DEF T
<1>7. {i \in DOMAIN q : clock - q[i] < Window} = ((x - 1) + 1)..Len(q)
  BY <1>1, <1>4, <1>5, <1>6
<1>8. Past(q, x - 1)
  BY <1>1, <1>4, <1>5 DEF Past
<1>9. x - 1 \in 0..Len(q)
  BY <1>1, <1>4
<1> QED
  BY <1>7, <1>8, <1>9

\* A part of a sequence in order is in order.
LEMMA SuffixAscends ==
  ASSUME NEW q \in Seq(Nat), NEW h \in Seq(Nat), NEW d \in 0..Len(q),
         Ascending(q), Suffix(h, q, d)
  PROVE  Ascending(h)
<1>1. /\ DOMAIN q = 1..Len(q) /\ Len(q) \in Nat
      /\ DOMAIN h = 1..Len(h) /\ Len(h) \in Nat
      /\ d \in Nat
  OBVIOUS
<1>2. Len(h) = Len(q) - d /\ \A i \in 1..Len(h) : h[i] = q[d + i]
  BY DEF Suffix
<1>3. \A i, j \in 1..Len(q) : i <= j => q[i] <= q[j]
  BY <1>1 DEF Ascending
<1>4. ASSUME NEW i \in 1..Len(h), NEW j \in 1..Len(h), i <= j PROVE h[i] <= h[j]
  <2>1. d + i \in 1..Len(q) /\ d + j \in 1..Len(q) /\ d + i <= d + j
    BY <1>1, <1>2, <1>4
  <2>2. q[d + i] <= q[d + j]
    BY <1>3, <2>1
  <2> QED
    BY <1>2, <2>2
<1> QED
  BY <1>1, <1>4 DEF Ascending

\* What the limiter keeps is, again, the last of the frames it let pass, and now these are
\* exactly those within the window.
LEMMA KeptAreRecent ==
  ASSUME RateInv, Limit > 0, NEW c \in Conns
  PROVE  /\ Kept(c) \in Seq(Nat) /\ Len(Kept(c)) <= Limit
         /\ Len(Kept(c)) = Cardinality(RecentlyAllowed(c))
         /\ \E e \in 0..Len(allowed[c]) : Suffix(Kept(c), allowed[c], e) /\ Past(allowed[c], e)
<1> USE GateAssumption
<1> DEFINE h == hits[c]
           q == allowed[c]
<1>1. /\ clock \in Nat /\ h \in Seq(Nat) /\ q \in Seq(Nat)
      /\ Ascending(q) /\ Len(h) <= Limit
  BY DEF RateInv
<1>2. PICK d \in 0..Len(q) : Suffix(h, q, d) /\ Past(q, d)
  BY DEF RateInv
<1>3. RecentlyAllowed(c) = {i \in DOMAIN q : clock - q[i] < Window}
  BY DEF RecentlyAllowed
<1>4. Kept(c) = LET recent == {i \in DOMAIN h : clock - h[i] < Window}
                IN  SubSeq(h, Len(h) - Cardinality(recent) + 1, Len(h))
  BY DEF Kept
<1> HIDE DEF h, q
<1>5. Ascending(h)
  BY <1>1, <1>2, SuffixAscends
<1>6. PICK k \in 0..Len(h) : /\ {i \in DOMAIN h : clock - h[i] < Window} = (k + 1)..Len(h)
                             /\ Past(h, k)
  BY <1>1, <1>5, RecentAreLast
<1>7. /\ Len(h) \in Nat /\ Len(q) \in Nat /\ Len(h) = Len(q) - d /\ d + k \in 0..Len(q)
      /\ d \in Nat /\ k \in Nat
  BY <1>1, <1>2, <1>6 DEF Suffix
<1>8. Cardinality((k + 1)..Len(h)) = Len(h) - k
  <2>1. k + 1 \in Int /\ Len(h) \in Int
    BY <1>7
  <2>2. Cardinality((k + 1)..Len(h)) = IF k + 1 > Len(h) THEN 0 ELSE Len(h) - (k + 1) + 1
    BY <2>1, FS_Interval
  <2> QED
    BY <1>6, <1>7, <2>2
<1>9. Kept(c) = SubSeq(h, k + 1, Len(h))
  <2>1. Len(h) - (Len(h) - k) + 1 = k + 1
    BY <1>7
  <2> QED
    BY <1>4, <1>6, <1>8, <2>1
<1>10. /\ Kept(c) \in Seq(Nat) /\ Len(Kept(c)) = Len(h) - k
       /\ \A i \in 1..(Len(h) - k) : Kept(c)[i] = h[k + i]
  <2> DEFINE s == SubSeq(h, k + 1, Len(h))
  <2>1. /\ s \in Seq(Nat) /\ Len(s) = Len(h) - k
        /\ \A i \in 1..(Len(h) - k) : s[i] = h[k + i]
    BY <1>1, <1>6, <1>7
  <2> QED
    BY <1>9, <2>1
<1>11. Suffix(Kept(c), q, d + k)
  <2>1. \A i \in 1..(Len(h) - k) : k + i \in 1..Len(h) /\ d + (k + i) = (d + k) + i
    BY <1>7
  <2>2. \A i \in 1..Len(h) : h[i] = q[d + i]
    BY <1>2 DEF Suffix
  <2>3. \A i \in 1..(Len(h) - k) : Kept(c)[i] = q[(d + k) + i]
    BY <1>10, <2>1, <2>2
  <2> QED
    BY <1>7, <1>10, <2>3 DEF Suffix
<1>12. Past(q, d + k)
  <2> SUFFICES ASSUME NEW i \in 1..(d + k) PROVE q[i] + Window <= clock
    BY DEF Past
  <2>1. CASE i <= d
    BY <1>2, <1>7, <2>1 DEF Past
  <2>2. CASE i > d
    <3>1. i - d \in 1..k /\ i - d \in 1..Len(h) /\ d + (i - d) = i
      BY <1>6, <1>7, <2>2
    <3>2. h[i - d] = q[i]
      BY <1>2, <3>1 DEF Suffix
    <3> QED
      BY <1>6, <3>1, <3>2 DEF Past
  <2> QED
    BY <1>7, <2>1, <2>2
<1>13. RecentlyAllowed(c) = (d + k + 1)..Len(q)
  <2>1. ASSUME NEW i \in (d + k + 1)..Len(q) PROVE clock - q[i] < Window
    <3>1. i - d \in 1..Len(h) /\ i - d \in (k + 1)..Len(h) /\ d + (i - d) = i
      BY <1>6, <1>7
    <3>2. h[i - d] = q[i]
      BY <1>2, <3>1 DEF Suffix
    <3> QED
      BY <1>6, <3>1, <3>2
  <2>2. ASSUME NEW i \in 1..(d + k) PROVE ~ (clock - q[i] < Window)
    <3>1. q[i] + Window <= clock /\ q[i] \in Nat
      BY <1>1, <1>7, <1>12 DEF Past
    <3> QED
      BY <1>1, <3>1
  <2>3. DOMAIN q = 1..Len(q)
    BY <1>1
  <2> QED
    BY <1>3, <1>7, <2>1, <2>2, <2>3
<1>14. Cardinality((d + k + 1)..Len(q)) = Len(q) - (d + k)
  <2>1. d + k + 1 \in Int /\ Len(q) \in Int
    BY <1>7
  <2>2. Cardinality((d + k + 1)..Len(q)) =
          IF d + k + 1 > Len(q) THEN 0 ELSE Len(q) - (d + k + 1) + 1
    BY <2>1, FS_Interval
  <2> QED
    BY <1>7, <2>2
<1>15. Len(Kept(c)) = Cardinality(RecentlyAllowed(c)) /\ Len(Kept(c)) <= Limit
  BY <1>1, <1>7, <1>10, <1>13, <1>14
<1> QED
  BY <1>7, <1>10, <1>11, <1>12, <1>15 DEF q

\* RateInv before the first step.
LEMMA RateInit == Init => RateInv
<1> SUFFICES ASSUME Init PROVE RateInv
  OBVIOUS
<1> USE GateAssumption DEF Init
<1>1. ASSUME NEW c \in Conns
      PROVE  /\ hits[c] = <<>> /\ allowed[c] = <<>>
             /\ Len(hits[c]) = 0 /\ Len(allowed[c]) = 0
             /\ Suffix(hits[c], allowed[c], 0) /\ Past(allowed[c], 0)
             /\ Ascending(allowed[c])
  BY DEF Suffix, Past, Ascending
<1>2. 0 \in 0..0 /\ \A i \in DOMAIN <<>> : FALSE
  OBVIOUS
<1> QED
  BY <1>1, <1>2 DEF RateInv

\* The frame that is let pass is the last of both sequences.
LEMMA PassKeepsSuffix ==
  ASSUME NEW q \in Seq(Nat), NEW h \in Seq(Nat), NEW d \in 0..Len(q), clock \in Nat,
         Ascending(q), \A i \in DOMAIN q : q[i] <= clock
  PROVE  /\ Ascending(Append(q, clock))
         /\ \A i \in DOMAIN Append(q, clock) : Append(q, clock)[i] <= clock
         /\ Suffix(h, q, d) => Suffix(Append(h, clock), Append(q, clock), d)
         /\ Past(q, d) => Past(Append(q, clock), d)
<1> DEFINE p == Append(q, clock)
           g == Append(h, clock)
<1>1. /\ DOMAIN q = 1..Len(q) /\ Len(q) \in Nat /\ Len(h) \in Nat /\ d \in Nat
      /\ DOMAIN p = 1..(Len(q) + 1) /\ Len(p) = Len(q) + 1 /\ Len(g) = Len(h) + 1
      /\ \A i \in 1..Len(q) : p[i] = q[i] /\ q[i] \in Nat
      /\ \A i \in 1..Len(h) : g[i] = h[i]
      /\ p[Len(q) + 1] = clock /\ g[Len(h) + 1] = clock
  OBVIOUS
<1> HIDE DEF p, g
<1>2. \A i \in 1..(Len(q) + 1) : p[i] <= clock
  <2>1. \A i \in 1..Len(q) : p[i] <= clock
    BY <1>1
  <2> QED
    BY <1>1, <2>1
<1>3. Ascending(p)
  <2>1. \A i, j \in 1..Len(q) : i <= j => q[i] <= q[j]
    BY <1>1 DEF Ascending
  <2>2. ASSUME NEW i \in 1..(Len(q) + 1), NEW j \in 1..(Len(q) + 1), i <= j PROVE p[i] <= p[j]
    <3>1. CASE j = Len(q) + 1
      BY <1>1, <1>2, <3>1
    <3>2. CASE j # Len(q) + 1
      <4>1. i \in 1..Len(q) /\ j \in 1..Len(q)
        BY <1>1, <2>2, <3>2
      <4> QED
        BY <1>1, <2>1, <2>2, <4>1
    <3> QED
      BY <3>1, <3>2
  <2> QED
    BY <1>1, <2>2 DEF Ascending
<1>4. ASSUME Suffix(h, q, d) PROVE Suffix(g, p, d)
  <2>1. Len(h) = Len(q) - d /\ \A i \in 1..Len(h) : h[i] = q[d + i]
    BY <1>4 DEF Suffix
  <2>2. ASSUME NEW i \in 1..(Len(h) + 1) PROVE g[i] = p[d + i]
    <3>1. CASE i = Len(h) + 1
      <4>1. d + i = Len(q) + 1
        BY <1>1, <2>1, <3>1
      <4> QED
        BY <1>1, <3>1, <4>1
    <3>2. CASE i # Len(h) + 1
      <4>1. i \in 1..Len(h) /\ d + i \in 1..Len(q)
        <5>1. i \in 1..Len(h)
          BY <1>1, <3>2
        <5>2. i \in Nat /\ i >= 1 /\ i <= Len(q) - d
          BY <1>1, <2>1, <5>1
        <5> QED
          BY <1>1, <5>1, <5>2
      <4> QED
        BY <1>1, <2>1, <4>1
    <3> QED
      BY <3>1, <3>2
  <2>3. Len(g) = Len(p) - d
    BY <1>1, <2>1
  <2> QED
    BY <1>1, <2>2, <2>3 DEF Suffix
<1>5. ASSUME Past(q, d) PROVE Past(p, d)
  <2>1. \A i \in 1..d : i \in 1..Len(q)
    BY <1>1
  <2> QED
    BY <1>1, <1>5, <2>1 DEF Past
<1> QED
  BY <1>1, <1>2, <1>3, <1>4, <1>5 DEF p, g

\* RateInv for a connection, in the next state.
LEMMA RateAfter ==
  ASSUME NEW c \in Conns, RateInv, clock' = clock,
         NEW h, NEW q, h \in Seq(Nat), q \in Seq(Nat),
         hits' = [hits EXCEPT ![c] = h], allowed' = [allowed EXCEPT ![c] = q],
         Ascending(q), \A i \in DOMAIN q : q[i] <= clock, Len(h) <= Limit,
         Limit > 0 => \E d \in 0..Len(q) : Suffix(h, q, d) /\ Past(q, d)
  PROVE  RateInv'
<1>1. /\ hits' \in [Conns -> Seq(Nat)] /\ allowed' \in [Conns -> Seq(Nat)]
      /\ hits'[c] = h /\ allowed'[c] = q
      /\ \A k \in Conns \ {c} : hits'[k] = hits[k] /\ allowed'[k] = allowed[k]
  BY DEF RateInv
<1>2. ASSUME NEW k \in Conns
      PROVE  /\ Ascending(allowed'[k])
             /\ \A i \in DOMAIN allowed'[k] : allowed'[k][i] <= clock
             /\ Len(hits'[k]) <= Limit
             /\ Limit > 0 => \E d \in 0..Len(allowed'[k]) :
                               Suffix(hits'[k], allowed'[k], d) /\ Past(allowed'[k], d)
  <2>1. CASE k = c
    BY <1>1, <2>1
  <2>2. CASE k # c
    <3>1. hits'[k] = hits[k] /\ allowed'[k] = allowed[k]
      BY <1>1, <2>2
    <3> QED
      BY <3>1 DEF RateInv
  <2> QED
    BY <2>1, <2>2
<1>3. \A q1, d : Past(q1, d)' <=> Past(q1, d)
  BY DEF Past
<1> QED
  BY <1>1, <1>2, <1>3 DEF RateInv, Past

\* RateInv across any step.
LEMMA RateStep == RateInv /\ [Next]_vars => RateInv'
<1> SUFFICES ASSUME RateInv, [Next]_vars PROVE RateInv'
  OBVIOUS
<1> USE GateAssumption
<1>1. ASSUME NEW c \in Conns, Refuse(c) PROVE RateInv'
  <2>1. /\ Limit > 0 /\ clock' = clock /\ allowed' = allowed
        /\ hits' = [hits EXCEPT ![c] = Kept(c)]
    BY <1>1 DEF Refuse, Allows
  <2>2. /\ Kept(c) \in Seq(Nat) /\ Len(Kept(c)) <= Limit
        /\ \E e \in 0..Len(allowed[c]) : Suffix(Kept(c), allowed[c], e) /\ Past(allowed[c], e)
    BY <2>1, KeptAreRecent
  <2>3. /\ allowed[c] \in Seq(Nat) /\ Ascending(allowed[c])
        /\ \A i \in DOMAIN allowed[c] : allowed[c][i] <= clock
        /\ allowed' = [allowed EXCEPT ![c] = allowed[c]]
    BY <2>1 DEF RateInv
  <2> QED
    BY <2>1, <2>2, <2>3, RateAfter
<1>2. ASSUME NEW c \in Conns, NEW f \in Frames, Pass(c, f) PROVE RateInv'
  <2> DEFINE p == Append(allowed[c], clock)
  <2>1. /\ clock' = clock
        /\ allowed' = [allowed EXCEPT ![c] = p]
        /\ hits' = IF Limit = 0 THEN hits ELSE [hits EXCEPT ![c] = Append(Kept(c), clock)]
        /\ Allows(c)
    BY <1>2 DEF Pass
  <2>2. /\ clock \in Nat /\ allowed[c] \in Seq(Nat) /\ Ascending(allowed[c])
        /\ \A i \in DOMAIN allowed[c] : allowed[c][i] <= clock
        /\ hits \in [Conns -> Seq(Nat)] /\ hits[c] \in Seq(Nat) /\ Len(hits[c]) <= Limit
    BY DEF RateInv
  <2>3. p \in Seq(Nat) /\ Len(p) = Len(allowed[c]) + 1
    BY <2>2
  <2>4. 0 \in 0..Len(allowed[c]) /\ Len(allowed[c]) \in Nat
    BY <2>2
  <2>5. Ascending(p) /\ \A i \in DOMAIN p : p[i] <= clock
    BY <2>2, <2>4, PassKeepsSuffix
  <2>6. CASE Limit = 0
    <3>1. hits' = [hits EXCEPT ![c] = hits[c]]
      BY <2>1, <2>2, <2>6
    <3>2. ~ (Limit > 0)
      BY <2>6
    <3> HIDE DEF p
    <3> QED
      BY <2>1, <2>2, <2>3, <2>5, <3>1, <3>2, RateAfter
  <2>7. CASE Limit > 0
    <3> DEFINE g == Append(Kept(c), clock)
    <3>1. /\ Kept(c) \in Seq(Nat) /\ Len(Kept(c)) < Limit
          /\ hits' = [hits EXCEPT ![c] = g]
      BY <2>1, <2>7, KeptAreRecent DEF Allows
    <3>2. PICK e \in 0..Len(allowed[c]) : Suffix(Kept(c), allowed[c], e) /\ Past(allowed[c], e)
      BY <2>7, KeptAreRecent
    <3>3. Suffix(g, p, e) /\ Past(p, e)
      BY <2>2, <3>1, <3>2, PassKeepsSuffix
    <3>4. g \in Seq(Nat) /\ Len(g) <= Limit
      BY <2>2, <3>1
    <3>5. e \in 0..Len(p)
      BY <2>3, <2>4
    <3> HIDE DEF p, g
    <3> QED
      BY <2>1, <2>3, <2>5, <3>1, <3>3, <3>4, <3>5, RateAfter
  <2> QED
    BY <2>6, <2>7
<1>3. ASSUME NEW c \in Conns, Check(c) PROVE RateInv'
  <2>1. UNCHANGED <<clock, hits, allowed>>
    BY <1>3 DEF Check
  <2> QED
    BY <2>1 DEF RateInv, Past
<1>4. CASE Tick
  <2>1. clock' = clock + 1 /\ UNCHANGED <<hits, allowed>> /\ clock \in Nat
    BY <1>4 DEF Tick, RateInv
  <2>2. ASSUME NEW c \in Conns
        PROVE  /\ \A i \in DOMAIN allowed[c] : allowed[c][i] <= clock'
               /\ \A d \in 0..Len(allowed[c]) : Past(allowed[c], d) => Past(allowed[c], d)'
    <3>1. /\ allowed[c] \in Seq(Nat)
          /\ \A i \in DOMAIN allowed[c] : allowed[c][i] <= clock
      BY DEF RateInv
    <3>2. \A i \in 1..Len(allowed[c]) : allowed[c][i] \in Nat
      BY <3>1
    <3>3. DOMAIN allowed[c] = 1..Len(allowed[c]) /\ Len(allowed[c]) \in Nat
      BY <3>1
    <3>4. \A i \in DOMAIN allowed[c] : allowed[c][i] <= clock'
      BY <2>1, <3>1, <3>2, <3>3
    <3>5. ASSUME NEW d \in 0..Len(allowed[c]), Past(allowed[c], d) PROVE Past(allowed[c], d)'
      BY <2>1, <3>2, <3>3, <3>5 DEF Past
    <3> QED
      BY <3>4, <3>5
  <2> QED
    BY <2>1, <2>2 DEF RateInv
<1>5. CASE UNCHANGED vars
  BY <1>5 DEF vars, RateInv, Past
<1> QED
  BY <1>1, <1>2, <1>3, <1>4, <1>5 DEF Next

\* RateInv is stronger than RateExact.
LEMMA RateInvSuffices == RateInv => RateExact
<1> SUFFICES ASSUME RateInv, NEW c \in Conns
             PROVE  /\ Limit > 0 => Cardinality(RecentlyAllowed(c)) <= Limit
                    /\ Cardinality(RecentlyAllowed(c)) < Limit => Allows(c)
  BY DEF RateExact
<1>1. CASE Limit > 0
  <2>1. /\ Len(Kept(c)) <= Limit
        /\ Len(Kept(c)) = Cardinality(RecentlyAllowed(c))
    BY <1>1, KeptAreRecent
  <2> QED
    BY <2>1 DEF Allows
<1>2. CASE Limit = 0
  BY <1>2 DEF Allows
<1> QED
  BY <1>1, <1>2, GateAssumption

\* The rate limit is exact: in no interval of length Window does a connection get more than
\* Limit frames past the limiter, and it refuses one only when Limit frames have passed within
\* the last Window, for any limit and window and however many it refused.
THEOREM TheRateIsExact == Spec => []RateExact
BY RateInit, RateStep, RateInvSuffices, PTL DEF Spec

\* Every variable of the gate has its shape, and the limiter keeps at most Limit times.
THEOREM TypeCorrect == Spec => []TypeOK
<1>1. GateInv /\ RateInv => TypeOK
  BY DEF GateInv, CheckTypes, RateInv, TypeOK
<1> QED
  BY <1>1, GateInit, GateStep, RateInit, RateStep, PTL DEF Spec

-----------------------------------------------------------------------------
(* The shared files                                                        *)

\* What is known of a request between its two store calls.
PendingOK ==
  \A r \in Requests :
    /\ pc[r] \in {"update", "delete"} => relay = "go"
    /\ pc[r] = "update" => /\ wants[r] \in uploaded
                           /\ snap[r] < MaxOf[wants[r]]
                           /\ snap[r] <= served[wants[r]]
    /\ pc[r] = "delete" => MaxOf[wants[r]] <= served[wants[r]]

\* The count never runs ahead of the responses, and keeps up with them until a race.
CountOK ==
  \A f \in Files :
    /\ f \in raced => relay = "go"
    /\ f \notin uploaded => files[f] = NoFile /\ served[f] = 0
    /\ files[f] # NoFile => files[f] <= served[f]
    /\ files[f] # NoFile /\ f \notin raced => files[f] = served[f]

\* The invariant: with it each property follows, and none without the others.
FileInv ==
  /\ FilesTypeOK
  /\ PendingOK
  /\ CountOK
  /\ CountWithinLimit
  /\ LimitUnlessRaced
  /\ AvailableUntilUsed

\* The invariant before the first request.
LEMMA FileInit == FilesInit => FileInv
  BY FilesAssumption DEF FilesInit, FileInv, FilesTypeOK, PendingOK, CountOK, CountWithinLimit,
     LimitUnlessRaced, AvailableUntilUsed

\* The steps keep it: one per handler and point at which handlers interleave.
LEMMA FileStep == FileInv /\ [FilesNext]_filesVars => FileInv'
<1> SUFFICES ASSUME FileInv, [FilesNext]_filesVars PROVE FileInv'
  OBVIOUS
<1> USE FilesAssumption DEF FileInv, FilesTypeOK
<1>1. ASSUME NEW f \in Files, GoUpload(f) \/ NodeUpload(f) \/ FirstUpload(f)
      PROVE  FileInv'
  <2> Upload(f)
    BY <1>1 DEF GoUpload, NodeUpload, FirstUpload
  <2>1. FilesTypeOK'
    BY DEF Upload
  <2>2. PendingOK' /\ CountOK'
    BY DEF Upload, PendingOK, CountOK
  <2>3. CountWithinLimit' /\ LimitUnlessRaced'
    BY DEF Upload, CountWithinLimit, LimitUnlessRaced
  <2>4. AvailableUntilUsed'
    BY DEF Upload, AvailableUntilUsed
  <2> QED
    BY <2>1, <2>2, <2>3, <2>4
<1>2. ASSUME NEW f \in Files, Expire(f)
      PROVE  FileInv'
  BY <1>2 DEF Expire, PendingOK, CountOK, CountWithinLimit, LimitUnlessRaced,
              AvailableUntilUsed
<1>3. ASSUME NEW r \in Requests, NEW infoOnly \in BOOLEAN, Read(r, infoOnly)
      PROVE  FileInv'
  <2>1. /\ wants[r] \in Files
        /\ relay = "go"
        /\ UNCHANGED <<relay, files, uploaded, past, wants, served, raced>>
        /\ pc' = [pc EXCEPT ![r] = AfterRead(wants[r], infoOnly)]
        /\ snap' = [snap EXCEPT ![r] = IF files[wants[r]] = NoFile THEN 0 ELSE files[wants[r]]]
    BY <1>3 DEF Read
  <2>2. AfterRead(wants[r], infoOnly) \in {"update", "delete", "done"}
    BY DEF AfterRead
  <2>3. FilesTypeOK'
    BY <2>1, <2>2
  <2>4. /\ AfterRead(wants[r], infoOnly) = "update" =>
             /\ files[wants[r]] # NoFile
             /\ files[wants[r]] < MaxOf[wants[r]]
        /\ AfterRead(wants[r], infoOnly) = "delete" =>
             /\ files[wants[r]] # NoFile
             /\ MaxOf[wants[r]] <= files[wants[r]]
    BY <2>1 DEF AfterRead
  <2>5. PendingOK'
    BY <2>1, <2>4 DEF PendingOK, CountOK
  <2> QED
    BY <2>1, <2>3, <2>5 DEF CountOK, CountWithinLimit, LimitUnlessRaced, AvailableUntilUsed
<1>4. ASSUME NEW r \in Requests, Update(r)
      PROVE  FileInv'
  <2> DEFINE f == wants[r]
  <2>1. /\ relay = "go"
        /\ f \in uploaded
        /\ f \in Files
        /\ snap[r] \in Nat
        /\ snap[r] < MaxOf[f]
        /\ snap[r] <= served[f]
    BY <1>4 DEF Update, PendingOK
  <2>2. FilesTypeOK'
    BY <1>4, <2>1 DEF Update
  <2>3. PendingOK'
    BY <1>4, <2>1 DEF Update, PendingOK
  <2>4. CountOK'
    BY <1>4, <2>1 DEF Update, CountOK
  <2>5. CountWithinLimit'
    BY <1>4, <2>1 DEF Update, CountWithinLimit
  <2>6. LimitUnlessRaced'
    BY <1>4, <2>1 DEF Update, LimitUnlessRaced, CountOK
  <2>7. AvailableUntilUsed'
    BY <1>4, <2>1 DEF Update, AvailableUntilUsed
  <2> QED
    BY <2>2, <2>3, <2>4, <2>5, <2>6, <2>7
<1>5. ASSUME NEW r \in Requests, Delete(r)
      PROVE  FileInv'
  <2>1. MaxOf[wants[r]] <= served[wants[r]] /\ wants[r] \in Files
    BY <1>5 DEF Delete, PendingOK
  <2>2. FilesTypeOK' /\ PendingOK' /\ CountOK'
    BY <1>5, <2>1 DEF Delete, PendingOK, CountOK
  <2>3. CountWithinLimit' /\ LimitUnlessRaced'
    BY <1>5, <2>1 DEF Delete, CountWithinLimit, LimitUnlessRaced
  <2>4. AvailableUntilUsed'
    BY <1>5, <2>1 DEF Delete, AvailableUntilUsed
  <2> QED
    BY <2>2, <2>3, <2>4
<1>6. CASE Cleanup
  <2>1. FilesTypeOK' /\ PendingOK' /\ CountOK'
    BY <1>6 DEF Cleanup, Spent, PendingOK, CountOK
  <2>2. CountWithinLimit' /\ LimitUnlessRaced'
    BY <1>6 DEF Cleanup, Spent, CountWithinLimit, LimitUnlessRaced
  <2>3. AvailableUntilUsed'
    BY <1>6 DEF Cleanup, Spent, AvailableUntilUsed, CountOK
  <2> QED
    BY <2>1, <2>2, <2>3
<1>7. ASSUME NEW r \in Requests, NEW infoOnly \in BOOLEAN, AtOnce(r, infoOnly)
      PROVE  FileInv'
  <2> DEFINE f == wants[r]
             next == AfterRead(f, infoOnly)
  <2>1. /\ f \in Files
        /\ UNCHANGED <<relay, uploaded, past, wants, snap, raced>>
        /\ pc' = [pc EXCEPT ![r] = "done"]
        /\ files' = [files EXCEPT ![f] = IF next = "update" THEN @ + 1
                                          ELSE IF next = "delete" THEN NoFile ELSE @]
        /\ served' = [served EXCEPT ![f] = IF next = "update" THEN @ + 1 ELSE @]
    BY <1>7 DEF AtOnce
  <2>2. /\ next = "update" => files[f] \in Nat /\ files[f] < MaxOf[f]
        /\ next = "delete" => files[f] \in Nat /\ MaxOf[f] <= files[f]
    BY <2>1 DEF AfterRead
  <2> HIDE DEF next
  <2>3. FilesTypeOK'
    BY <2>1, <2>2
  <2>4. PendingOK'
    BY <2>1, <2>2 DEF PendingOK
  <2>5. CountOK'
    BY <2>1, <2>2 DEF CountOK
  <2>6. CountWithinLimit' /\ LimitUnlessRaced'
    BY <2>1, <2>2 DEF CountWithinLimit, LimitUnlessRaced, CountOK
  <2>7. AvailableUntilUsed'
    BY <2>1, <2>2 DEF AvailableUntilUsed, CountOK
  <2> QED
    BY <2>3, <2>4, <2>5, <2>6, <2>7
<1>8. ASSUME NEW r \in Requests, NodeInfo(r)
      PROVE  FileInv'
  BY <1>8 DEF NodeInfo, PendingOK, CountOK, CountWithinLimit, LimitUnlessRaced,
              AvailableUntilUsed
<1>9. CASE UNCHANGED filesVars
  BY <1>9 DEF filesVars, PendingOK, CountOK, CountWithinLimit, LimitUnlessRaced,
              AvailableUntilUsed
<1> QED
  BY <1>1, <1>2, <1>3, <1>4, <1>5, <1>6, <1>7, <1>8, <1>9
     DEF FilesNext, Serve, NodeDownload, FirstDownload

\* The counts and the requests keep their shape.
THEOREM FileTypes == FilesSpec => []FilesTypeOK
<1>1. FileInv => FilesTypeOK
  BY DEF FileInv
<1> QED
  BY <1>1, FileInit, FileStep, PTL DEF FilesSpec

\* However requests interleave, the stored count stays within the limit of the file.
THEOREM CountsAreWithinLimits == FilesSpec => []CountWithinLimit
<1>1. FileInv => CountWithinLimit
  BY DEF FileInv
<1> QED
  BY <1>1, FileInit, FileStep, PTL DEF FilesSpec

\* The lost update of overlapping downloads is the only way past the limit, and only the Go
\* relay has it.
THEOREM OnlyRacesExceedTheLimit == FilesSpec => []LimitUnlessRaced
<1>1. FileInv => LimitUnlessRaced
  BY DEF FileInv
<1> QED
  BY <1>1, FileInit, FileStep, PTL DEF FilesSpec

\* No interleaving of requests and ticks withholds a download the uploader allowed.
THEOREM FilesStayAvailable == FilesSpec => []AvailableUntilUsed
<1>1. FileInv => AvailableUntilUsed
  BY DEF FileInv
<1> QED
  BY <1>1, FileInit, FileStep, PTL DEF FilesSpec
=============================================================================
