---------------------------- MODULE ReplayProofs ----------------------------
(***************************************************************************)
(* The replay source and the clocks of the core thread, for every log,     *)
(* every set of speeds, targets and spans, and every bound: the state is   *)
(* well typed, no clock counts time the run did not have, the log comes    *)
(* out in order and no further than the playhead, the thread never sleeps  *)
(* past the next frame, a play target is exact, and a replay that reports  *)
(* its end is drained.                                                     *)
(***************************************************************************)
EXTENDS ReplayControl, FiniteSetTheorems, WellFoundedInduction, TLAPS

Source == [can : 0 .. Len(CanLog), fr : 0 .. Len(FrLog), eth : 0 .. Len(EthLog),
           last : Nat \cup {None}, pos : Nat \cup {Inf},
           speed : Speeds \cup {Scale}, done : BOOLEAN,
           nextT : Nat \cup {None}, limit : Nat \cup {None}]

-----------------------------------------------------------------------------
(* Numbers.                                                                *)

\* Every set of naturals has a least element.
LEMMA LeastNat ==
    ASSUME NEW S \in SUBSET Nat, S # {}
    PROVE  \E m \in S : \A n \in S : m <= n
<1> DEFINE R == {ss \in Nat \X Nat : ss[1] < ss[2]}
<1>1. IsWellFoundedOn(R, Nat)
  BY NatLessThanWellFounded DEF OpToRel
<1>2. \A x, y \in Nat : x < y => <<x, y>> \in R
  OBVIOUS
<1> HIDE DEF R
<1>3. PICK m \in S : \A n \in S : ~(<<n, m>> \in R)
  BY <1>1, WFMin
<1>4. ASSUME NEW n \in S PROVE m <= n
  <2>1. ~(n < m)
    BY <1>2, <1>3
  <2> QED
    BY <2>1
<1> QED
  BY <1>4

\* Every non-empty finite set of naturals has a largest element.
LEMMA LargestNat ==
    ASSUME NEW S \in SUBSET Nat, S # {}, IsFiniteSet(S)
    PROVE  \E m \in S : \A n \in S : n <= m
<1> DEFINE Max(T) == \E m \in T : \A n \in T : n <= m
           Sizes == {k \in Nat : \E T \in SUBSET S : T # {} /\ ~Max(T) /\ Cardinality(T) = k}
<1>1. SUFFICES ASSUME ~Max(S) PROVE FALSE
  OBVIOUS
<1>2. Cardinality(S) \in Sizes
  BY <1>1, FS_CardinalityType
<1>3. PICK k \in Sizes : \A j \in Sizes : k <= j
  BY <1>2, LeastNat
<1>4. PICK T \in SUBSET S : T # {} /\ ~Max(T) /\ Cardinality(T) = k
  BY <1>3
<1>5. IsFiniteSet(T)
  BY <1>4, FS_Subset
<1>6. PICK x \in T : TRUE
  BY <1>4
<1> DEFINE U == T \ {x}
<1>7. IsFiniteSet(U) /\ Cardinality(U) = k - 1
  BY <1>4, <1>5, <1>6, FS_RemoveElement
<1>8. U # {}
  <2>1. SUFFICES ASSUME U = {} PROVE Max(T)
    BY <1>4
  <2>2. T = {x}
    BY <1>6, <2>1
  <2> QED
    BY <1>6, <2>2
<1>9. Max(U)
  <2>1. SUFFICES ASSUME ~Max(U) PROVE FALSE
    OBVIOUS
  <2>2. k - 1 \in Nat
    BY <1>7, FS_CardinalityType
  <2> HIDE DEF Max
  <2>3. k - 1 \in Sizes
    BY <1>7, <1>8, <2>1, <2>2
  <2> QED
    BY <1>3, <2>2, <2>3
<1>10. PICK m \in U : \A n \in U : n <= m
  BY <1>9
<1>11. m \in Nat /\ x \in Nat /\ T = U \cup {x}
  BY <1>6, <1>10
<1>12. CASE x <= m
  <2>1. \A n \in T : n <= m
    BY <1>10, <1>11, <1>12
  <2> QED
    BY <1>4, <1>10, <2>1
<1>13. CASE ~(x <= m)
  <2>1. \A n \in T : n <= x
    BY <1>10, <1>11, <1>13
  <2> QED
    BY <1>4, <1>6, <2>1
<1> QED
  BY <1>12, <1>13

\* The playhead in log ticks reaches a stamp exactly when it has reached it in
\* fixed point.
LEMMA ScaleReaches ==
    ASSUME NEW a \in Nat, NEW t \in Nat
    PROVE  /\ a \div Scale \in Nat
           /\ a \div Scale >= t <=> a >= t * Scale
<1> DEFINE q == a \div Scale
<1>1. Scale \in Nat /\ Scale > 0
  BY LogAssumption
<1>2. q \in Nat /\ q * Scale <= a /\ a < q * Scale + Scale
  BY <1>1
<1> HIDE DEF q
<1>3. q >= t => q * Scale >= t * Scale
  BY <1>1, <1>2
<1>4. ~(q >= t) => q * Scale + Scale <= t * Scale
  <2>1. ~(q >= t) => (q + 1) * Scale <= t * Scale
    BY <1>1, <1>2
  <2> QED
    BY <1>1, <1>2, <2>1
<1>5. q * Scale \in Nat /\ t * Scale \in Nat
  BY <1>1, <1>2
<1>6. q \in Nat /\ (q >= t <=> a >= t * Scale)
  BY <1>1, <1>2, <1>3, <1>4, <1>5
<1> QED
  BY <1>6 DEF q

\* The fastest finite speed is one of the speeds, and none is faster.
LEMMA FastestIs ==
    /\ Fastest \in Nat
    /\ \A s \in (Speeds \cup {Scale}) \ {Inf} : s \in Nat /\ s > 0 /\ s <= Fastest
<1> DEFINE S == (Speeds \cup {Scale}) \ {Inf}
<1>1. S \in SUBSET (Nat \ {0}) /\ Scale \in S
  BY LogAssumption, ControlAssumption
<1>2. IsFiniteSet(Speeds \cup {Scale})
  BY ControlAssumption, FS_AddElement
<1>3. IsFiniteSet(S)
  BY <1>2, FS_Subset
<1>4. \E m \in S : \A n \in S : n <= m
  BY <1>1, <1>3, LargestNat
<1>5. Fastest \in S /\ \A n \in S : n <= Fastest
  BY <1>4 DEF Fastest
<1> QED
  BY <1>1, <1>5

-----------------------------------------------------------------------------
(* The playhead: what a poll takes from the log and what it leaves.        *)

\* A pull loop takes only frames within the target, and stops for a reason.
LEMMA DueStops ==
    ASSUME NEW log \in Seq(Nat), NEW from \in 0 .. Len(log),
           NEW target, NEW cap \in Nat
    PROVE  LET n == Due(log, from, target, cap)
           IN  /\ n \in 0 .. (Len(log) - from)
               /\ \A i \in 1 .. n : Within(log[from + i], target)
               /\ \/ n = cap
                  \/ n = Len(log) - from
                  \/ ~Within(log[from + n + 1], target)
<1> DEFINE left == Len(log) - from
           stops(n) == \/ n = cap
                       \/ n = left
                       \/ ~Within(log[from + n + 1], target)
           S == {n \in 0 .. left : stops(n)}
           takes(n) == \A i \in 1 .. n : Within(log[from + i], target)
<1>1. left \in Nat
  OBVIOUS
<1>2. S \in SUBSET Nat /\ left \in S
  BY <1>1
<1>3. PICK n \in S : \A m \in S : n <= m
  <2> HIDE DEF S
  <2> QED
    BY <1>2, LeastNat
<1>4. takes(n)
  <2> SUFFICES ASSUME NEW i \in 1 .. n PROVE Within(log[from + i], target)
    OBVIOUS
  <2>1. i - 1 \in 0 .. left /\ i - 1 < n /\ from + (i - 1) + 1 = from + i
    BY <1>1
  <2>2. ~stops(i - 1)
    <3> HIDE DEF stops
    <3> QED
      BY <1>1, <1>3, <2>1
  <2> QED
    BY <2>1, <2>2
<1>5. n \in 0 .. left /\ takes(n) /\ stops(n)
  BY <1>4
<1>6. Due(log, from, target, cap) = CHOOSE m \in 0 .. left : takes(m) /\ stops(m)
  BY DEF Due
<1> HIDE DEF takes, stops
<1>7. LET m == Due(log, from, target, cap)
      IN  m \in 0 .. left /\ takes(m) /\ stops(m)
  BY <1>5, <1>6
<1> QED
  BY <1>7 DEF takes, stops

\* The heads are natural numbers, and nextT the least of them.
LEMMA NextIsLeast ==
    ASSUME NEW s \in Source
    PROVE  /\ Heads(s) \subseteq Nat
           /\ Heads(s) = {} => NextOf(s) = None
           /\ Heads(s) # {} => /\ NextOf(s) \in Heads(s)
                               /\ \A t \in Heads(s) : NextOf(s) <= t
<1>1. Heads(s) \subseteq Nat
  BY LogAssumption DEF Heads, Source
<1> QED
  BY <1>1, LeastNat DEF NextOf

\* A head is the stamp after the last one read.
LEMMA HeadsAre ==
    ASSUME NEW s \in Source, NEW t
    PROVE  t \in Heads(s) <=>
             \/ s.can < Len(CanLog) /\ t = CanLog[s.can + 1]
             \/ s.fr < Len(FrLog) /\ t = FrLog[s.fr + 1]
             \/ s.eth < Len(EthLog) /\ t = EthLog[s.eth + 1]
<1>1. Len(CanLog) \in Nat /\ Len(FrLog) \in Nat /\ Len(EthLog) \in Nat
  BY LogAssumption
<1>2. /\ DOMAIN CanLog = 1 .. Len(CanLog) /\ DOMAIN FrLog = 1 .. Len(FrLog)
      /\ DOMAIN EthLog = 1 .. Len(EthLog)
  BY LogAssumption
<1>3. /\ s.can + 1 \in DOMAIN CanLog <=> s.can < Len(CanLog)
      /\ s.fr + 1 \in DOMAIN FrLog <=> s.fr < Len(FrLog)
      /\ s.eth + 1 \in DOMAIN EthLog <=> s.eth < Len(EthLog)
  BY <1>1, <1>2 DEF Source
<1> QED
  BY <1>3 DEF Heads

\* Advancing the playhead to `now`, the first half of a poll.
Moved(s, now) ==
    LET since == IF s.last = None THEN 0 ELSE Monus(now, s.last)
    IN  [s EXCEPT !.pos  = IF s.speed = Inf \/ @ = Inf THEN Inf
                           ELSE @ + since * s.speed,
                  !.last = now]

LEMMA MovedIs ==
    ASSUME NEW s \in Source, NEW now \in Nat
    PROVE  LET m == Moved(s, now)
           IN  /\ m \in Source /\ m.last = now
               /\ m.can = s.can /\ m.fr = s.fr /\ m.eth = s.eth
               /\ m.speed = s.speed /\ m.limit = s.limit
               /\ m.done = s.done /\ m.nextT = s.nextT
               /\ m.pos = IF s.speed = Inf \/ s.pos = Inf THEN Inf
                          ELSE s.pos + (IF s.last = None THEN 0 ELSE Monus(now, s.last)) * s.speed
<1> DEFINE since == IF s.last = None THEN 0 ELSE Monus(now, s.last)
           pos == IF s.speed = Inf \/ s.pos = Inf THEN Inf ELSE s.pos + since * s.speed
<1>1. since \in Nat
  BY DEF Source, Monus
<1>2. ASSUME s.speed # Inf PROVE s.speed \in Nat
  BY <1>2, LogAssumption, ControlAssumption DEF Source
<1> HIDE DEF since
<1>3. pos \in Nat \cup {Inf}
  BY <1>1, <1>2 DEF Source
<1>4. Moved(s, now) = [s EXCEPT !.pos = pos, !.last = now]
  BY DEF Moved, since
<1> HIDE DEF pos
<1>5. /\ [s EXCEPT !.pos = pos, !.last = now] \in Source
      /\ [s EXCEPT !.pos = pos, !.last = now].pos = pos
  BY <1>3 DEF Source
<1> QED
  BY <1>4, <1>5 DEF Source, pos, since

LEMMA TargetIs ==
    ASSUME NEW s \in Source
    PROVE  /\ Target(s) \in Nat \cup {None}
           /\ Target(s) = None => s.pos = Inf
           /\ s.pos # Inf => Target(s) <= s.pos \div Scale
           /\ s.limit # None => Target(s) # None /\ Target(s) <= s.limit
           /\ s.limit # None /\ (s.pos # Inf => s.pos \div Scale >= s.limit) =>
                Target(s) = s.limit
<1>1. s.pos # Inf => s.pos \in Nat /\ s.pos \div Scale \in Nat
  BY ScaleReaches DEF Source
<1>2. s.limit # None => s.limit \in Nat
  BY DEF Source
<1> QED
  BY <1>1, <1>2, LogAssumption DEF Target, Within

\* The poll of one lap: all three streams up to one target.
Swept(s, now) == PollEth(PollFr(Poll(s, now)))

\* `r` has read on in one stream to within the target; uncut, to the target.
ReadsTo(log, from, upto, target) ==
    /\ from <= upto
    /\ \A i \in from + 1 .. upto : Within(log[i], target)

Exhausts(log, upto, target) ==
    upto < Len(log) => ~Within(log[upto + 1], target)

LEMMA DueReads ==
    ASSUME NEW log \in Seq(Nat), NEW from \in 0 .. Len(log), NEW target, NEW cap \in Nat
    PROVE  LET to == from + Due(log, from, target, cap)
           IN  /\ to \in 0 .. Len(log)
               /\ ReadsTo(log, from, to, target)
               /\ cap >= Len(log) => Exhausts(log, to, target)
<1> DEFINE n == Due(log, from, target, cap)
<1>1. /\ n \in 0 .. (Len(log) - from)
      /\ \A i \in 1 .. n : Within(log[from + i], target)
      /\ \/ n = cap
         \/ n = Len(log) - from
         \/ ~Within(log[from + n + 1], target)
  BY DueStops
<1> HIDE DEF n
<1>2. Len(log) \in Nat /\ from + n \in 0 .. Len(log) /\ from <= from + n
  BY <1>1
<1>3. ASSUME NEW i \in from + 1 .. from + n PROVE Within(log[i], target)
  <2>1. i - from \in 1 .. n /\ from + (i - from) = i
    BY <1>1, <1>2
  <2> QED
    BY <1>1, <2>1
<1>4. cap >= Len(log) => Exhausts(log, from + n, target)
  BY <1>1, <1>2 DEF Exhausts
<1> QED
  BY <1>2, <1>3, <1>4 DEF ReadsTo, n

\* What a lap's poll does to the source.
LEMMA SweptIs ==
    ASSUME NEW s \in Source, NEW now \in Nat
    PROVE  LET r == Swept(s, now)
               m == Moved(s, now)
           IN  /\ r \in Source
               /\ r.last = now /\ r.pos = m.pos
               /\ r.speed = s.speed /\ r.limit = s.limit
               /\ Target(r) = Target(m)
               /\ ReadsTo(CanLog, s.can, r.can, Target(r))
               /\ ReadsTo(FrLog, s.fr, r.fr, Target(r))
               /\ ReadsTo(EthLog, s.eth, r.eth, Target(r))
               /\ MaxPoll >= Len(CanLog) => Exhausts(CanLog, r.can, Target(r))
               /\ Exhausts(FrLog, r.fr, Target(r))
               /\ Exhausts(EthLog, r.eth, Target(r))
               /\ LET d == [m EXCEPT !.can = r.can]
                  IN  d \in Source /\ r.nextT = NextOf(d)
                        /\ r.done = (s.done \/ Heads(d) = {})
<1> DEFINE m == Moved(s, now)
           t == Target(m)
           can == s.can + Due(CanLog, s.can, t, MaxPoll)
           fr == s.fr + Due(FrLog, s.fr, t, Len(FrLog))
           eth == s.eth + Due(EthLog, s.eth, t, Len(EthLog))
           d == [m EXCEPT !.can = can]
           done == s.done \/ Heads(d) = {}
           p == [m EXCEPT !.can = can, !.done = done, !.nextT = NextOf(d)]
<1>1. /\ m \in Source /\ m.last = now
      /\ m.can = s.can /\ m.fr = s.fr /\ m.eth = s.eth
      /\ m.speed = s.speed /\ m.limit = s.limit
      /\ m.done = s.done /\ m.nextT = s.nextT
  BY MovedIs
<1>2. /\ CanLog \in Seq(Nat) /\ FrLog \in Seq(Nat) /\ EthLog \in Seq(Nat)
      /\ MaxPoll \in Nat /\ Len(FrLog) \in Nat /\ Len(EthLog) \in Nat
      /\ s.can \in 0 .. Len(CanLog) /\ s.fr \in 0 .. Len(FrLog)
      /\ s.eth \in 0 .. Len(EthLog)
  BY LogAssumption DEF Source
<1>3. /\ can \in 0 .. Len(CanLog) /\ ReadsTo(CanLog, s.can, can, t)
      /\ MaxPoll >= Len(CanLog) => Exhausts(CanLog, can, t)
  BY <1>2, DueReads
<1>4. /\ fr \in 0 .. Len(FrLog) /\ ReadsTo(FrLog, s.fr, fr, t)
      /\ Exhausts(FrLog, fr, t)
  BY <1>2, DueReads
<1>5. /\ eth \in 0 .. Len(EthLog) /\ ReadsTo(EthLog, s.eth, eth, t)
      /\ Exhausts(EthLog, eth, t)
  BY <1>2, DueReads
<1> DEFINE e == [d EXCEPT !.done = d.done \/ Heads(d) = {}]
<1>6. Poll(s, now) = [e EXCEPT !.nextT = NextOf(e)]
  <2>1. can = m.can + Due(CanLog, m.can, t, MaxPoll)
    BY <1>1
  <2> QED
    BY <2>1 DEF Poll, Moved, RefreshNext
<1> HIDE DEF m, can, fr, eth
<1>7. d \in Source /\ d.done = s.done
  BY <1>1, <1>3 DEF Source
<1>e. NextOf(e) = NextOf(d)
  <2>1. e.can = d.can /\ e.fr = d.fr /\ e.eth = d.eth
    BY <1>7 DEF Source
  <2> HIDE DEF d, e
  <2> QED
    BY <2>1 DEF NextOf, Heads
<1>p. Poll(s, now) = p
  <2>1. e = [d EXCEPT !.done = done]
    BY <1>7
  <2> HIDE DEF e
  <2>2. [e EXCEPT !.nextT = NextOf(d)] = p
    <3> HIDE DEF done
    <3> QED
      BY <1>1, <2>1 DEF Source
  <2> QED
    BY <1>6, <1>e, <2>2
<1>8. NextOf(d) \in Nat \cup {None} /\ done \in BOOLEAN
  BY <1>7, NextIsLeast DEF Source
<1>9. /\ p \in Source /\ p.can = can /\ p.fr = s.fr /\ p.eth = s.eth /\ p.last = now
      /\ p.pos = m.pos /\ p.speed = s.speed /\ p.limit = s.limit
      /\ p.done = done /\ p.nextT = NextOf(d)
  <2> HIDE DEF d, done
  <2> QED
    BY <1>1, <1>3, <1>8 DEF Source
<1>10. Target(p) = t
  BY <1>1, <1>9 DEF Target
<1> HIDE DEF p, t, d, done
<1> DEFINE f == [p EXCEPT !.fr = fr]
<1>11. PollFr(p) = f
  BY <1>9, <1>10 DEF PollFr, fr
<1>12. /\ f \in Source /\ f.can = can /\ f.fr = fr /\ f.eth = s.eth /\ f.last = now
       /\ f.pos = m.pos /\ f.speed = s.speed /\ f.limit = s.limit
       /\ f.done = done /\ f.nextT = NextOf(d)
  BY <1>4, <1>9 DEF Source
<1>13. Target(f) = t
  BY <1>9, <1>10, <1>12 DEF Target
<1> HIDE DEF f
<1> DEFINE r == [f EXCEPT !.eth = eth]
<1>14. PollEth(f) = r
  BY <1>12, <1>13 DEF PollEth, eth
<1>15. /\ r \in Source /\ r.can = can /\ r.fr = fr /\ r.eth = eth /\ r.last = now
       /\ r.pos = m.pos /\ r.speed = s.speed /\ r.limit = s.limit
       /\ r.done = done /\ r.nextT = NextOf(d)
  BY <1>5, <1>12 DEF Source
<1>16. Target(r) = t
  BY <1>12, <1>13, <1>15 DEF Target
<1> HIDE DEF r
<1>17. Swept(s, now) = r
  BY <1>p, <1>11, <1>14 DEF Swept
<1> QED
  BY <1>3, <1>4, <1>5, <1>7, <1>15, <1>16, <1>17 DEF t, d, done, m

-----------------------------------------------------------------------------
(* What every source of the core keeps.                                    *)

\* While frames remain, nextT is a bound the thread may sleep to.
HeadsFit(s) ==
    Heads(s) # {} => s.nextT \in Nat /\ ~s.done /\ \A t \in Heads(s) : s.nextT <= t

LEMMA HeadsShrink ==
    ASSUME NEW s \in Source, NEW r \in Source,
           s.can <= r.can, s.fr <= r.fr, s.eth <= r.eth, Heads(s) = {}
    PROVE  Heads(r) = {}
<1>1. ~(s.can < Len(CanLog)) /\ ~(s.fr < Len(FrLog)) /\ ~(s.eth < Len(EthLog))
  BY HeadsAre
<1>2. /\ Len(CanLog) \in Nat /\ Len(FrLog) \in Nat /\ Len(EthLog) \in Nat
  BY LogAssumption
<1>3. ~(r.can < Len(CanLog)) /\ ~(r.fr < Len(FrLog)) /\ ~(r.eth < Len(EthLog))
  BY <1>1, <1>2 DEF Source
<1> QED
  BY <1>3, HeadsAre

\* A stamp within a target is older than one that is not.
LEMMA WithinOlder ==
    ASSUME NEW a \in Nat, NEW b \in Nat, NEW t \in Nat \cup {None},
           Within(a, t), ~Within(b, t)
    PROVE  a < b
BY DEF Within

\* The cached nextT survives the reads that do not refresh it.
LEMMA SweptFits ==
    ASSUME NEW s \in Source, NEW now \in Nat, HeadsFit(s)
    PROVE  HeadsFit(Swept(s, now))
<1> DEFINE r == Swept(s, now)
           d == [Moved(s, now) EXCEPT !.can = r.can]
           t == Target(r)
<1>1. /\ r \in Source
      /\ s.can <= r.can /\ ReadsTo(FrLog, s.fr, r.fr, t) /\ ReadsTo(EthLog, s.eth, r.eth, t)
      /\ Exhausts(FrLog, r.fr, t) /\ Exhausts(EthLog, r.eth, t)
      /\ d \in Source /\ r.nextT = NextOf(d) /\ r.done = (s.done \/ Heads(d) = {})
  BY SweptIs DEF ReadsTo
<1>2. d.can = r.can /\ d.fr = s.fr /\ d.eth = s.eth
  BY MovedIs DEF Source
<1>3. t \in Nat \cup {None}
  BY <1>1, TargetIs
<1> HIDE DEF r, d, t
<1>4. SUFFICES ASSUME Heads(r) # {}
               PROVE  r.nextT \in Nat /\ ~r.done /\ \A u \in Heads(r) : r.nextT <= u
  BY DEF HeadsFit, r
<1>5. /\ Len(FrLog) \in Nat /\ Len(EthLog) \in Nat /\ s.fr <= r.fr /\ s.eth <= r.eth
      /\ \A i \in 1 .. Len(FrLog) : FrLog[i] \in Nat
      /\ \A i \in 1 .. Len(EthLog) : EthLog[i] \in Nat
      /\ {s.fr, r.fr, s.eth, r.eth} \subseteq Nat
  <2>1. s.fr <= r.fr /\ s.eth <= r.eth
    BY <1>1 DEF ReadsTo
  <2>2. Len(FrLog) \in Nat /\ Len(EthLog) \in Nat
    BY LogAssumption
  <2>3. {s.fr, r.fr, s.eth, r.eth} \subseteq Nat
    BY <1>1 DEF Source
  <2>4. /\ \A i \in 1 .. Len(FrLog) : FrLog[i] \in Nat
        /\ \A i \in 1 .. Len(EthLog) : EthLog[i] \in Nat
    BY LogAssumption
  <2> QED
    BY <2>1, <2>2, <2>3, <2>4
<1>6. ASSUME NEW u \in Heads(r) PROVE \E v \in Heads(d) : v <= u
  <2>1. CASE r.can < Len(CanLog) /\ u = CanLog[r.can + 1]
    <3>1. u \in Heads(d) /\ u \in Nat
      BY <1>1, <1>2, <2>1, HeadsAre, NextIsLeast
    <3> QED
      BY <3>1
  <2>2. CASE r.fr < Len(FrLog) /\ u = FrLog[r.fr + 1]
    <3> DEFINE v == FrLog[s.fr + 1]
    <3>1. s.fr < Len(FrLog) /\ v \in Nat /\ u \in Nat
      BY <1>5, <2>2
    <3>2. v \in Heads(d)
      BY <1>1, <1>2, <3>1, HeadsAre
    <3>3. CASE s.fr = r.fr
      BY <2>2, <3>1, <3>2, <3>3
    <3>4. CASE s.fr < r.fr
      <4>1. Within(v, t)
        <5>1. s.fr + 1 \in s.fr + 1 .. r.fr
          BY <1>5, <3>4
        <5> QED
          BY <1>1, <5>1 DEF ReadsTo
      <4>2. ~Within(u, t)
        BY <1>1, <2>2 DEF Exhausts
      <4> HIDE DEF v
      <4>3. v < u
        BY <1>3, <3>1, <4>1, <4>2, WithinOlder
      <4> QED
        BY <3>1, <3>2, <4>3
    <3> QED
      BY <1>5, <3>3, <3>4
  <2>3. CASE r.eth < Len(EthLog) /\ u = EthLog[r.eth + 1]
    <3> DEFINE v == EthLog[s.eth + 1]
    <3>1. s.eth < Len(EthLog) /\ v \in Nat /\ u \in Nat
      BY <1>5, <2>3
    <3>2. v \in Heads(d)
      BY <1>1, <1>2, <3>1, HeadsAre
    <3>3. CASE s.eth = r.eth
      BY <2>3, <3>1, <3>2, <3>3
    <3>4. CASE s.eth < r.eth
      <4>1. Within(v, t)
        <5>1. s.eth + 1 \in s.eth + 1 .. r.eth
          BY <1>5, <3>4
        <5> QED
          BY <1>1, <5>1 DEF ReadsTo
      <4>2. ~Within(u, t)
        BY <1>1, <2>3 DEF Exhausts
      <4> HIDE DEF v
      <4>3. v < u
        BY <1>3, <3>1, <4>1, <4>2, WithinOlder
      <4> QED
        BY <3>1, <3>2, <4>3
    <3> QED
      BY <1>5, <3>3, <3>4
  <2> QED
    BY <1>1, <2>1, <2>2, <2>3, HeadsAre
<1>7. Heads(d) # {}
  BY <1>4, <1>6
<1>8. NextOf(d) \in Nat /\ \A v \in Heads(d) : v \in Nat /\ NextOf(d) <= v
  BY <1>1, <1>7, NextIsLeast
<1>9. \A u \in Heads(r) : u \in Nat /\ NextOf(d) <= u
  <2> SUFFICES ASSUME NEW u \in Heads(r) PROVE u \in Nat /\ NextOf(d) <= u
    OBVIOUS
  <2>1. u \in Nat
    BY <1>1, NextIsLeast
  <2>2. PICK v \in Heads(d) : v <= u
    BY <1>6
  <2> QED
    BY <1>8, <2>1, <2>2
<1>10. ~s.done
  <2>1. Heads(s) # {}
    BY <1>1, <1>4, <1>5, HeadsShrink
  <2> QED
    BY <2>1 DEF HeadsFit
<1> QED
  BY <1>1, <1>7, <1>8, <1>9, <1>10

-----------------------------------------------------------------------------
(* What every state of the core keeps.                                     *)

CoreRec ==
    [mode : Modes, measuring : BOOLEAN, paused : BOOLEAN,
     pausedAtUs : Nat \cup {None}, stopAt : Nat \cup {None},
     sim : Nat, simPrev : Nat, src : Source,
     was : [can : Nat, fr : Nat, eth : Nat],
     finished : BOOLEAN, injected : BOOLEAN]

\* An armed target is the limit of the source of a run that plays.
ArmedWell(c) ==
    c.stopAt # None =>
      c.mode = "Replay" /\ c.measuring /\ ~c.paused /\ c.src.limit = c.stopAt

Sound(c) ==
    /\ c \in CoreRec
    /\ ArmedWell(c)
    /\ HeadsFit(c.src)
    /\ c.finished => Heads(c.src) = {}

\* The playhead of a replay was last advanced at the clock's last lap.
InStep(c) == c.mode = "Replay" /\ c.src.last # None => c.src.last = c.simPrev

\* Operations that leave the reading positions, nextT and done alone.
LEMMA SameReading ==
    ASSUME NEW s \in Source, NEW r \in Source,
           r.can = s.can, r.fr = s.fr, r.eth = s.eth
    PROVE  /\ Heads(r) = Heads(s) /\ NextOf(r) = NextOf(s)
           /\ HeadsFit(s) /\ r.nextT = s.nextT /\ r.done = s.done => HeadsFit(r)
BY DEF Heads, NextOf, HeadsFit

LEMMA SetPollLimitIs ==
    ASSUME NEW s \in Source, NEW limit \in Nat \cup {None}
    PROVE  LET r == SetPollLimit(s, limit)
           IN  /\ r \in Source /\ r.limit = limit
               /\ r.can = s.can /\ r.fr = s.fr /\ r.eth = s.eth
               /\ r.nextT = s.nextT /\ r.done = s.done
               /\ r.pos = s.pos /\ r.last = s.last /\ r.speed = s.speed
               /\ Heads(r) = Heads(s)
               /\ HeadsFit(s) => HeadsFit(r)
<1> DEFINE r == SetPollLimit(s, limit)
<1>1. /\ r \in Source /\ r.limit = limit
      /\ r.can = s.can /\ r.fr = s.fr /\ r.eth = s.eth
      /\ r.nextT = s.nextT /\ r.done = s.done
      /\ r.pos = s.pos /\ r.last = s.last /\ r.speed = s.speed
  BY DEF SetPollLimit, Source
<1> HIDE DEF r
<1>2. Heads(r) = Heads(s) /\ (HeadsFit(s) => HeadsFit(r))
  BY <1>1, SameReading
<1> QED
  BY <1>1, <1>2 DEF r

\* A step of a replay: the sweep of the three streams, and which of its three
\* outcomes it has.
LEMMA StepBusIs ==
    ASSUME NEW c \in CoreRec, NEW now \in Nat, c.mode = "Replay"
    PROVE  LET d == StepBus(c, now)
               r == Swept(c.src, now)
           IN  /\ d \in CoreRec
               /\ d.mode = "Replay" /\ d.simPrev = c.simPrev
               /\ d.pausedAtUs = c.pausedAtUs /\ ~d.injected
               /\ d.was = Read(c.src)
               /\ d.sim = IF c.injected THEN now
                          ELSE IF r.can > c.src.can THEN CanLog[r.can] ELSE c.sim
               /\ \/ /\ d.src = r /\ d.stopAt = c.stopAt
                     /\ d.measuring = c.measuring /\ d.paused = c.paused
                     /\ d.finished = c.finished
                  \/ /\ d.src = SetPollLimit(r, None) /\ d.stopAt = None
                     /\ ~d.measuring /\ d.paused = c.paused /\ d.finished /\ r.done
                  \/ /\ d.src = SetPollLimit(r, None) /\ d.stopAt = None
                     /\ d.measuring = c.measuring /\ d.paused
                     /\ d.finished = c.finished
                     /\ c.stopAt # None /\ Position(r) >= c.stopAt
<1> DEFINE r == Swept(c.src, now)
           sim == IF c.injected THEN now
                  ELSE IF r.can > c.src.can THEN CanLog[r.can] ELSE c.sim
           b == [c EXCEPT !.injected = FALSE, !.src = r, !.was = Read(c.src), !.sim = sim]
           over == [b EXCEPT !.stopAt = None, !.src = SetPollLimit(@, None)]
           d == IF Ended(c, r) THEN [over EXCEPT !.measuring = FALSE, !.finished = TRUE]
                ELSE IF TargetReached(b) THEN [over EXCEPT !.paused = TRUE]
                ELSE b
<1>1. c.src \in Source
  BY DEF CoreRec
<1>2. r \in Source
  BY <1>1, SweptIs
<1>3. StepBus(c, now) = d
  BY DEF StepBus, Swept
<1> HIDE DEF r
<1>4. sim \in Nat
  <2>1. r.can > c.src.can => CanLog[r.can] \in Nat
    BY <1>1, <1>2, LogAssumption, SMTT(40) DEF Source
  <2> QED
    BY <2>1 DEF CoreRec
<1> HIDE DEF sim
<1>5. Read(c.src) \in [can : Nat, fr : Nat, eth : Nat]
  BY <1>1, LogAssumption DEF Read, Source
<1>6. /\ b \in CoreRec /\ b.mode = "Replay" /\ b.simPrev = c.simPrev
      /\ b.pausedAtUs = c.pausedAtUs /\ b.injected = FALSE
      /\ b.was = Read(c.src) /\ b.sim = sim /\ b.src = r
      /\ b.stopAt = c.stopAt /\ b.measuring = c.measuring
      /\ b.paused = c.paused /\ b.finished = c.finished
  BY <1>2, <1>4, <1>5 DEF CoreRec
<1> HIDE DEF b
<1>7. SetPollLimit(r, None) \in Source
  BY <1>2, SetPollLimitIs
<1>8. /\ over \in CoreRec /\ over.mode = "Replay" /\ over.simPrev = c.simPrev
      /\ over.pausedAtUs = c.pausedAtUs /\ over.injected = FALSE
      /\ over.was = Read(c.src) /\ over.sim = sim /\ over.src = SetPollLimit(r, None)
      /\ over.stopAt = None /\ over.measuring = c.measuring
      /\ over.paused = c.paused /\ over.finished = c.finished
  BY <1>6, <1>7 DEF CoreRec
<1> HIDE DEF over
<1>9. CASE Ended(c, r)
  <2>1. d = [over EXCEPT !.measuring = FALSE, !.finished = TRUE] /\ r.done
    BY <1>9 DEF Ended
  <2> HIDE DEF d
  <2>2. /\ d \in CoreRec /\ d.mode = "Replay" /\ d.simPrev = c.simPrev
        /\ d.pausedAtUs = c.pausedAtUs /\ d.injected = FALSE
        /\ d.was = Read(c.src) /\ d.sim = sim /\ d.src = SetPollLimit(r, None)
        /\ d.stopAt = None /\ ~d.measuring /\ d.paused = c.paused /\ d.finished
    BY <1>8, <2>1 DEF CoreRec
  <2> QED
    BY <1>3, <2>1, <2>2 DEF r, sim
<1>10. CASE ~Ended(c, r) /\ TargetReached(b)
  <2>1. d = [over EXCEPT !.paused = TRUE] /\ c.stopAt # None /\ Position(r) >= c.stopAt
    BY <1>6, <1>10 DEF TargetReached
  <2> HIDE DEF d
  <2>2. /\ d \in CoreRec /\ d.mode = "Replay" /\ d.simPrev = c.simPrev
        /\ d.pausedAtUs = c.pausedAtUs /\ d.injected = FALSE
        /\ d.was = Read(c.src) /\ d.sim = sim /\ d.src = SetPollLimit(r, None)
        /\ d.stopAt = None /\ d.measuring = c.measuring /\ d.paused
        /\ d.finished = c.finished
    BY <1>8, <2>1 DEF CoreRec
  <2> QED
    BY <1>3, <2>1, <2>2 DEF r, sim
<1>11. CASE ~Ended(c, r) /\ ~TargetReached(b)
  <2>1. d = b
    BY <1>11
  <2> HIDE DEF d
  <2> QED
    BY <1>3, <1>6, <2>1 DEF r, sim
<1> QED
  BY <1>9, <1>10, <1>11

LEMMA StepBusSound ==
    ASSUME NEW c, Sound(c), NEW now \in Nat
    PROVE  /\ Sound(StepBus(c, now))
           /\ StepBus(c, now).pausedAtUs = c.pausedAtUs
           /\ now = c.simPrev => InStep(StepBus(c, now))
<1> DEFINE d == StepBus(c, now)
           r == Swept(c.src, now)
<1>1. c \in CoreRec /\ c.src \in Source /\ c.mode \in Modes
  BY DEF Sound, CoreRec
<1>2. CASE c.mode = "Virtual"
  <2>1. d = [c EXCEPT !.injected = FALSE]
    BY <1>2 DEF StepBus
  <2> HIDE DEF d
  <2>2. /\ d \in CoreRec /\ d.stopAt = c.stopAt /\ d.src = c.src /\ d.finished = c.finished
        /\ d.mode = c.mode /\ d.measuring = c.measuring /\ d.paused = c.paused
        /\ d.pausedAtUs = c.pausedAtUs
    BY <1>1, <2>1 DEF CoreRec
  <2>3. Sound(d) /\ InStep(d)
    BY <1>2, <2>2 DEF Sound, ArmedWell, InStep
  <2> QED
    BY <2>2, <2>3 DEF d
<1>3. CASE c.mode = "Replay"
  <2>1. /\ d \in CoreRec
        /\ d.mode = "Replay" /\ d.simPrev = c.simPrev
        /\ d.pausedAtUs = c.pausedAtUs
        /\ \/ /\ d.src = r /\ d.stopAt = c.stopAt
              /\ d.measuring = c.measuring /\ d.paused = c.paused
              /\ d.finished = c.finished
           \/ /\ d.src = SetPollLimit(r, None) /\ d.stopAt = None
              /\ d.finished /\ r.done
           \/ /\ d.src = SetPollLimit(r, None) /\ d.stopAt = None
              /\ d.finished = c.finished
    BY <1>1, <1>3, StepBusIs
  <2>2. /\ r \in Source /\ r.last = now /\ r.limit = c.src.limit
        /\ c.src.can <= r.can /\ c.src.fr <= r.fr /\ c.src.eth <= r.eth
    BY <1>1, SweptIs DEF ReadsTo
  <2>3. HeadsFit(r)
    BY <1>1, SweptFits DEF Sound
  <2> HIDE DEF d, r
  <2>4. /\ HeadsFit(d.src) /\ Heads(d.src) = Heads(r) /\ d.src.last = now
        /\ d.stopAt # None => d.src.limit = c.src.limit
    <3> DEFINE q == SetPollLimit(r, None)
    <3>1. /\ Heads(q) = Heads(r) /\ q.last = r.last /\ HeadsFit(q)
      BY <2>2, <2>3, SetPollLimitIs
    <3> HIDE DEF q
    <3>2. \/ d.src = r /\ d.stopAt = c.stopAt
          \/ d.src = q /\ d.stopAt = None
      BY <2>1 DEF q
    <3> QED
      BY <2>2, <2>3, <3>1, <3>2
  <2>5. ArmedWell(d)
    BY <2>1, <2>4 DEF Sound, ArmedWell
  <2>6. d.finished => Heads(d.src) = {}
    <3>1. r.done => Heads(r) = {}
      BY <2>3 DEF HeadsFit
    <3>2. c.finished => Heads(r) = {}
      BY <1>1, <2>2, HeadsShrink DEF Sound
    <3> QED
      BY <2>1, <2>4, <3>1, <3>2
  <2>7. Sound(d) /\ (now = c.simPrev => InStep(d))
    BY <2>1, <2>4, <2>5, <2>6 DEF Sound, InStep
  <2> QED
    BY <2>1, <2>7 DEF d
<1> QED
  BY <1>1, <1>2, <1>3 DEF Modes

-----------------------------------------------------------------------------
(* The commands.                                                           *)

\* d is c as far as the clocks and the reading positions go.
Quiet(d, c) ==
    /\ d.mode = c.mode /\ d.sim = c.sim /\ d.simPrev = c.simPrev
    /\ d.src.pos = c.src.pos /\ d.src.last = c.src.last
    /\ d.src.can = c.src.can /\ d.src.fr = c.src.fr /\ d.src.eth = c.src.eth
    /\ d.measuring => c.measuring

LEMMA NewSourceIs ==
    ASSUME NEW speed \in Speeds \cup {Scale}
    PROVE  LET s == NewSource(speed)
           IN  /\ s \in Source /\ HeadsFit(s)
               /\ s.can = 0 /\ s.fr = 0 /\ s.eth = 0
               /\ s.pos = 0 /\ s.last = None /\ s.limit = None
<1> DEFINE z == [can |-> 0, fr |-> 0, eth |-> 0, last |-> None, pos |-> 0,
                 speed |-> speed, done |-> FALSE, nextT |-> None, limit |-> None]
           s == [z EXCEPT !.nextT = NextOf(z)]
<1>1. z \in Source /\ z.done = FALSE
  BY LogAssumption DEF Source
<1>2. NewSource(speed) = s
  BY DEF NewSource, RefreshNext
<1>3. NextOf(z) \in Nat \cup {None}
  BY <1>1, NextIsLeast
<1>4. /\ s \in Source /\ s.can = 0 /\ s.fr = 0 /\ s.eth = 0
      /\ s.pos = 0 /\ s.last = None /\ s.limit = None
      /\ s.done = FALSE /\ s.nextT = NextOf(z)
  BY <1>1, <1>3 DEF Source
<1>5. Heads(s) = Heads(z)
  BY <1>4 DEF Heads
<1> HIDE DEF s, z
<1>6. HeadsFit(s)
  BY <1>1, <1>4, <1>5, NextIsLeast DEF HeadsFit
<1> QED
  BY <1>2, <1>4, <1>6

LEMMA ResetRunIs ==
    ASSUME NEW c \in CoreRec
    PROVE  LET d == ResetRun(c)
           IN  /\ d \in CoreRec
               /\ d.sim = 0 /\ d.simPrev = 0 /\ ~d.paused /\ d.pausedAtUs = None
               /\ d.stopAt = None /\ ~d.injected /\ d.src = SetPollLimit(c.src, None)
               /\ d.mode = c.mode
<1>1. SetPollLimit(c.src, None) \in Source
  BY SetPollLimitIs DEF CoreRec
<1> QED
  BY <1>1 DEF ResetRun, CoreRec

LEMMA StartReplayIs ==
    ASSUME NEW c \in CoreRec, NEW speed \in Speeds
    PROVE  LET d == StartReplay(c, speed)
           IN  /\ Sound(d) /\ InStep(d) /\ d.pausedAtUs = None
               /\ d.mode = "Replay" /\ d.sim = 0 /\ d.simPrev = 0 /\ ~d.injected
               /\ d.src.pos = 0 /\ d.src.last = None
               /\ d.src.can = 0 /\ d.src.fr = 0 /\ d.src.eth = 0
<1> DEFINE s == NewSource(speed)
           b == [c EXCEPT !.src = s, !.mode = "Replay"]
           r == ResetRun(b)
           d == [r EXCEPT !.measuring = TRUE, !.was = Read(r.src), !.finished = FALSE]
<1>1. /\ s \in Source /\ HeadsFit(s) /\ s.can = 0 /\ s.fr = 0 /\ s.eth = 0
      /\ s.pos = 0 /\ s.last = None
  BY NewSourceIs
<1> HIDE DEF s
<1>2. b \in CoreRec /\ b.src = s /\ b.mode = "Replay"
  BY <1>1 DEF CoreRec, Modes
<1> HIDE DEF b
<1>3. /\ r \in CoreRec /\ r.sim = 0 /\ r.simPrev = 0 /\ ~r.paused /\ r.pausedAtUs = None
      /\ r.stopAt = None /\ ~r.injected /\ r.src = SetPollLimit(s, None)
      /\ r.mode = "Replay"
  BY <1>2, ResetRunIs
<1>4. /\ r.src \in Source /\ HeadsFit(r.src) /\ r.src.pos = 0 /\ r.src.last = None
      /\ r.src.can = 0 /\ r.src.fr = 0 /\ r.src.eth = 0
  <2> DEFINE q == SetPollLimit(s, None)
  <2>1. /\ q \in Source /\ HeadsFit(q) /\ q.pos = 0 /\ q.last = None
        /\ q.can = 0 /\ q.fr = 0 /\ q.eth = 0
    BY <1>1, SetPollLimitIs
  <2> QED
    BY <1>3, <2>1
<1> HIDE DEF r
<1>5. Read(r.src) \in [can : Nat, fr : Nat, eth : Nat]
  BY <1>4 DEF Read
<1>6. /\ d \in CoreRec /\ d.sim = 0 /\ d.simPrev = 0 /\ ~d.paused /\ d.pausedAtUs = None
      /\ d.stopAt = None /\ ~d.injected /\ d.src = r.src /\ d.mode = "Replay"
      /\ ~d.finished
  BY <1>3, <1>5 DEF CoreRec
<1>7. StartReplay(c, speed) = d
  BY DEF StartReplay, r, b, s
<1> HIDE DEF d
<1> QED
  BY <1>4, <1>6, <1>7 DEF Sound, ArmedWell, InStep

LEMMA StartVirtualIs ==
    ASSUME NEW c, Sound(c)
    PROVE  LET d == StartVirtual(c)
           IN  /\ Sound(d) /\ InStep(d) /\ d.pausedAtUs = None
               /\ d.mode = "Virtual" /\ d.sim = 0 /\ d.simPrev = 0 /\ ~d.injected
               /\ d.src.can = c.src.can /\ d.src.fr = c.src.fr /\ d.src.eth = c.src.eth
<1> DEFINE b == [c EXCEPT !.mode = "Virtual"]
           r == ResetRun(b)
           d == [r EXCEPT !.measuring = TRUE, !.finished = FALSE]
<1>1. c \in CoreRec /\ c.src \in Source /\ HeadsFit(c.src)
  BY DEF Sound, CoreRec
<1>2. b \in CoreRec /\ b.mode = "Virtual" /\ b.src = c.src
  BY <1>1 DEF CoreRec, Modes
<1> HIDE DEF b
<1>3. /\ r \in CoreRec /\ r.sim = 0 /\ r.simPrev = 0 /\ ~r.paused /\ r.pausedAtUs = None
      /\ r.stopAt = None /\ ~r.injected /\ r.src = SetPollLimit(c.src, None)
      /\ r.mode = "Virtual"
  BY <1>2, ResetRunIs
<1> HIDE DEF r
<1>4. /\ d \in CoreRec /\ d.sim = 0 /\ d.simPrev = 0 /\ ~d.paused /\ d.pausedAtUs = None
      /\ d.stopAt = None /\ ~d.injected /\ d.src = r.src /\ d.mode = "Virtual"
      /\ ~d.finished
  BY <1>3 DEF CoreRec
<1>5. /\ HeadsFit(d.src)
      /\ d.src.can = c.src.can /\ d.src.fr = c.src.fr /\ d.src.eth = c.src.eth
  <2> DEFINE q == SetPollLimit(c.src, None)
  <2>1. HeadsFit(q) /\ q.can = c.src.can /\ q.fr = c.src.fr /\ q.eth = c.src.eth
    BY <1>1, SetPollLimitIs
  <2> QED
    BY <1>3, <1>4, <2>1
<1>6. StartVirtual(c) = d
  BY DEF StartVirtual, r, b
<1> HIDE DEF d
<1> QED
  BY <1>4, <1>5, <1>6 DEF Sound, ArmedWell, InStep

LEMMA StopBusIs ==
    ASSUME NEW c, Sound(c), InStep(c)
    PROVE  LET d == StopBus(c)
           IN  /\ Sound(d) /\ InStep(d) /\ d.pausedAtUs = c.pausedAtUs
               /\ Quiet(d, c) /\ d.injected = c.injected
<1> DEFINE d == [c EXCEPT !.measuring = FALSE, !.stopAt = None,
                          !.src = SetPollLimit(@, None)]
           r == SetPollLimit(c.src, None)
<1>1. c \in CoreRec /\ c.src \in Source /\ HeadsFit(c.src)
  BY DEF Sound, CoreRec
<1>2. /\ r \in Source /\ r.pos = c.src.pos /\ r.last = c.src.last
      /\ r.can = c.src.can /\ r.fr = c.src.fr /\ r.eth = c.src.eth
      /\ Heads(r) = Heads(c.src) /\ HeadsFit(r)
  BY <1>1, SetPollLimitIs
<1> HIDE DEF r
<1>3. d = [c EXCEPT !.measuring = FALSE, !.stopAt = None, !.src = r]
  BY <1>1 DEF r
<1> HIDE DEF d
<1>4. /\ d \in CoreRec /\ d.src = r /\ d.stopAt = None /\ ~d.measuring
      /\ d.mode = c.mode /\ d.sim = c.sim /\ d.simPrev = c.simPrev
      /\ d.finished = c.finished /\ d.injected = c.injected
      /\ d.pausedAtUs = c.pausedAtUs
  BY <1>1, <1>2, <1>3 DEF CoreRec
<1> QED
  BY <1>2, <1>4 DEF StopBus, d, Sound, ArmedWell, InStep, Quiet

LEMMA SetTracePausedIs ==
    ASSUME NEW c, Sound(c), InStep(c), NEW on \in BOOLEAN
    PROVE  LET d == SetTracePaused(c, on)
           IN  /\ Sound(d) /\ InStep(d) /\ d.pausedAtUs = c.pausedAtUs
               /\ Quiet(d, c) /\ d.injected = c.injected
<1> DEFINE d == [c EXCEPT !.paused = on, !.stopAt = None,
                          !.src = SetPollLimit(@, None)]
           r == SetPollLimit(c.src, None)
<1>1. c \in CoreRec /\ c.src \in Source /\ HeadsFit(c.src)
  BY DEF Sound, CoreRec
<1>2. /\ r \in Source /\ r.pos = c.src.pos /\ r.last = c.src.last
      /\ r.can = c.src.can /\ r.fr = c.src.fr /\ r.eth = c.src.eth
      /\ Heads(r) = Heads(c.src) /\ HeadsFit(r)
  BY <1>1, SetPollLimitIs
<1> HIDE DEF r
<1>3. d = [c EXCEPT !.paused = on, !.stopAt = None, !.src = r]
  BY <1>1 DEF r
<1> HIDE DEF d
<1>4. /\ d \in CoreRec /\ d.src = r /\ d.stopAt = None /\ d.measuring = c.measuring
      /\ d.mode = c.mode /\ d.sim = c.sim /\ d.simPrev = c.simPrev
      /\ d.finished = c.finished /\ d.injected = c.injected
      /\ d.pausedAtUs = c.pausedAtUs
  BY <1>1, <1>2, <1>3 DEF CoreRec
<1> QED
  BY <1>2, <1>4 DEF SetTracePaused, d, Sound, ArmedWell, InStep, Quiet

LEMMA SetSpeedIs ==
    ASSUME NEW c, Sound(c), InStep(c), NEW speed \in Speeds
    PROVE  LET d == [c EXCEPT !.src = SetSpeed(@, speed)]
           IN  /\ Sound(d) /\ InStep(d) /\ d.pausedAtUs = c.pausedAtUs
               /\ Quiet(d, c) /\ d.injected = c.injected
<1> DEFINE r == [c.src EXCEPT !.speed = speed]
           d == [c EXCEPT !.src = r]
<1>1. c \in CoreRec /\ c.src \in Source /\ HeadsFit(c.src)
  BY DEF Sound, CoreRec
<1>2. /\ r \in Source /\ r.pos = c.src.pos /\ r.last = c.src.last
      /\ r.can = c.src.can /\ r.fr = c.src.fr /\ r.eth = c.src.eth
      /\ r.nextT = c.src.nextT /\ r.done = c.src.done /\ r.limit = c.src.limit
  BY <1>1 DEF Source
<1>3. [c EXCEPT !.src = SetSpeed(@, speed)] = d
  BY DEF SetSpeed
<1> HIDE DEF r
<1>4. Heads(r) = Heads(c.src) /\ HeadsFit(r)
  BY <1>1, <1>2, SameReading
<1>5. /\ d \in CoreRec /\ d.src = r /\ d.stopAt = c.stopAt /\ d.measuring = c.measuring
      /\ d.paused = c.paused
      /\ d.mode = c.mode /\ d.sim = c.sim /\ d.simPrev = c.simPrev
      /\ d.finished = c.finished /\ d.injected = c.injected
      /\ d.pausedAtUs = c.pausedAtUs
  BY <1>1, <1>2 DEF CoreRec
<1> HIDE DEF d
<1>6. Sound(d) /\ InStep(d) /\ Quiet(d, c)
  BY <1>2, <1>4, <1>5 DEF Sound, ArmedWell, InStep, Quiet
<1> QED
  BY <1>3, <1>5, <1>6

LEMMA PlayToIs ==
    ASSUME NEW c, Sound(c), InStep(c), NEW target \in Nat
    PROVE  LET d == ReplayPlayTo(c, target)
           IN  /\ Sound(d) /\ InStep(d) /\ d.pausedAtUs = c.pausedAtUs
               /\ Quiet(d, c) /\ d.injected = c.injected
<1> DEFINE r == SetPollLimit(c.src, target)
           d == [c EXCEPT !.stopAt = target, !.src = r, !.paused = FALSE]
<1>1. c \in CoreRec /\ c.src \in Source /\ HeadsFit(c.src)
  BY DEF Sound, CoreRec
<1>2. CASE ReplayPlayTo(c, target) = c
  BY <1>2 DEF Quiet
<1>3. CASE ReplayPlayTo(c, target) # c
  <2>1. Replaying(c) /\ ReplayPlayTo(c, target) = d
    BY <1>3 DEF ReplayPlayTo
  <2>2. /\ r \in Source /\ r.pos = c.src.pos /\ r.last = c.src.last
        /\ r.can = c.src.can /\ r.fr = c.src.fr /\ r.eth = c.src.eth
        /\ Heads(r) = Heads(c.src) /\ HeadsFit(r) /\ r.limit = target
    BY <1>1, SetPollLimitIs
  <2> HIDE DEF r
  <2>3. /\ d \in CoreRec /\ d.src = r /\ d.stopAt = target /\ d.measuring = c.measuring
        /\ ~d.paused
        /\ d.mode = c.mode /\ d.sim = c.sim /\ d.simPrev = c.simPrev
        /\ d.finished = c.finished /\ d.injected = c.injected
        /\ d.pausedAtUs = c.pausedAtUs
    BY <1>1, <2>2 DEF CoreRec
  <2> HIDE DEF d
  <2> QED
    BY <2>1, <2>2, <2>3 DEF Sound, ArmedWell, InStep, Quiet, Replaying
<1> QED
  BY <1>2, <1>3

LEMMA PanelWriteIs ==
    ASSUME NEW c, Sound(c), InStep(c)
    PROVE  LET d == PanelWriteSignal(c)
           IN  /\ Sound(d) /\ InStep(d) /\ d.pausedAtUs = c.pausedAtUs
               /\ Quiet(d, c)
<1> DEFINE d == [c EXCEPT !.injected = c.injected \/ c.measuring]
<1>1. c \in CoreRec
  BY DEF Sound
<1>2. PanelWriteSignal(c) = d
  BY <1>1 DEF PanelWriteSignal
<1>3. /\ d \in CoreRec /\ d.src = c.src /\ d.stopAt = c.stopAt /\ d.measuring = c.measuring
      /\ d.paused = c.paused /\ d.mode = c.mode /\ d.sim = c.sim /\ d.simPrev = c.simPrev
      /\ d.finished = c.finished /\ d.pausedAtUs = c.pausedAtUs
  BY <1>1 DEF CoreRec
<1> HIDE DEF d
<1> QED
  BY <1>2, <1>3 DEF Sound, ArmedWell, InStep, Quiet

\* A step by hand of a running replay is a lap at the clock of the last lap,
\* from a playhead moved on by `delta` and unanchored.
Stepped(c, delta) ==
    [c EXCEPT !.stopAt = None, !.src = StepForward(SetPollLimit(@, None), delta)]

LEMMA SteppedIs ==
    ASSUME NEW c, Sound(c), NEW delta \in Nat
    PROVE  LET x == Stepped(c, delta)
           IN  /\ Sound(x) /\ x.pausedAtUs = c.pausedAtUs
               /\ x.mode = c.mode /\ x.sim = c.sim /\ x.simPrev = c.simPrev
               /\ x.injected = c.injected
               /\ x.src.can = c.src.can /\ x.src.fr = c.src.fr /\ x.src.eth = c.src.eth
               /\ x.src.last = None
               /\ x.src.speed = c.src.speed
               /\ x.src.pos = IF c.src.pos = Inf THEN Inf ELSE c.src.pos + delta * Scale
<1> DEFINE q == SetPollLimit(c.src, None)
           pos == IF q.pos = Inf THEN Inf ELSE q.pos + delta * Scale
           b == [q EXCEPT !.pos = pos, !.last = None]
           s == [b EXCEPT !.nextT = NextOf(b)]
           x == [c EXCEPT !.stopAt = None, !.src = s]
<1>1. c \in CoreRec /\ c.src \in Source /\ HeadsFit(c.src)
  BY DEF Sound, CoreRec
<1>2. /\ q \in Source /\ HeadsFit(q) /\ q.pos = c.src.pos /\ q.speed = c.src.speed
      /\ q.can = c.src.can /\ q.fr = c.src.fr /\ q.eth = c.src.eth
      /\ q.done = c.src.done /\ Heads(q) = Heads(c.src)
  BY <1>1, SetPollLimitIs
<1>3. Stepped(c, delta) = x
  BY <1>1 DEF Stepped, StepForward, RefreshNext
<1> HIDE DEF q
<1>4. pos \in Nat \cup {Inf}
  <2>1. delta * Scale \in Nat
    BY LogAssumption
  <2> QED
    BY <1>2, <2>1 DEF Source
<1> HIDE DEF pos
<1>5. /\ b \in Source /\ b.can = q.can /\ b.fr = q.fr /\ b.eth = q.eth
      /\ b.pos = pos /\ b.last = None /\ b.speed = q.speed /\ b.done = q.done
  BY <1>2, <1>4 DEF Source
<1> HIDE DEF b
<1>6. Heads(b) = Heads(q) /\ NextOf(b) \in Nat \cup {None}
  BY <1>2, <1>5, SameReading, NextIsLeast
<1>7. /\ s \in Source /\ s.can = q.can /\ s.fr = q.fr /\ s.eth = q.eth
      /\ s.pos = pos /\ s.last = None /\ s.speed = q.speed /\ s.done = q.done
      /\ s.nextT = NextOf(b)
  BY <1>5, <1>6 DEF Source
<1> HIDE DEF s
<1>8. Heads(s) = Heads(b)
  BY <1>5, <1>7, SameReading
<1>9. HeadsFit(s)
  BY <1>2, <1>5, <1>6, <1>7, <1>8, NextIsLeast DEF HeadsFit
<1>10. /\ x \in CoreRec /\ x.src = s /\ x.stopAt = None /\ x.pausedAtUs = c.pausedAtUs
       /\ x.mode = c.mode /\ x.sim = c.sim /\ x.simPrev = c.simPrev
       /\ x.injected = c.injected /\ x.finished = c.finished
  BY <1>1, <1>7 DEF CoreRec
<1> HIDE DEF x
<1>11. Sound(x)
  BY <1>2, <1>6, <1>8, <1>9, <1>10 DEF Sound, ArmedWell
<1> QED
  BY <1>2, <1>3, <1>7, <1>10, <1>11 DEF pos

LEMMA ReplayStepIs ==
    ASSUME NEW c, Sound(c), InStep(c), NEW delta \in Nat
    PROVE  LET d == ReplayStep(c, delta)
           IN  /\ Sound(d) /\ InStep(d) /\ d.pausedAtUs = c.pausedAtUs
               /\ d = IF Replaying(c) THEN StepBus(Stepped(c, delta), c.simPrev) ELSE c
<1> DEFINE d == ReplayStep(c, delta)
           x == Stepped(c, delta)
<1>1. d = IF Replaying(c) THEN StepBus(x, c.simPrev) ELSE c
  BY DEF ReplayStep, Stepped
<1>2. Sound(x) /\ x.simPrev = c.simPrev /\ x.pausedAtUs = c.pausedAtUs
  BY SteppedIs
<1>3. c.simPrev \in Nat
  BY DEF Sound, CoreRec
<1> HIDE DEF d, x
<1>4. CASE Replaying(c)
  <2>1. Sound(d) /\ InStep(d) /\ d.pausedAtUs = c.pausedAtUs
    BY <1>1, <1>2, <1>3, <1>4, StepBusSound
  <2> QED
    BY <1>1, <2>1 DEF d, x
<1>5. CASE ~Replaying(c)
  BY <1>1, <1>5 DEF d, x
<1> QED
  BY <1>4, <1>5

\* Advancing the clock: a frozen span is skipped in the anchor of the playhead
\* and in the clock of a virtual run.
LEMMA AdvanceClockIs ==
    ASSUME NEW c, Sound(c), NEW now \in Nat
    PROVE  LET d == AdvanceClock(c, now)
           IN  /\ Sound(d) /\ d.pausedAtUs = None /\ d.simPrev = now
               /\ d.mode = c.mode /\ d.injected = c.injected
               /\ d.measuring = c.measuring /\ d.paused = c.paused /\ d.stopAt = c.stopAt
               /\ d.src.pos = c.src.pos /\ d.src.speed = c.src.speed
               /\ d.src.can = c.src.can /\ d.src.fr = c.src.fr /\ d.src.eth = c.src.eth
               /\ d.src.limit = c.src.limit
               /\ d.src.last = IF c.src.last = None \/ c.pausedAtUs = None THEN c.src.last
                               ELSE c.src.last + Monus(now, c.pausedAtUs)
               /\ d.sim = IF c.mode = "Replay" THEN c.sim
                          ELSE c.sim + (IF c.pausedAtUs = None
                                        THEN Monus(now, c.simPrev) ELSE Monus(now, now))
<1> DEFINE last == IF c.src.last = None \/ c.pausedAtUs = None THEN c.src.last
                   ELSE c.src.last + Monus(now, c.pausedAtUs)
           s == [c.src EXCEPT !.last = last]
           prev == IF c.pausedAtUs = None THEN c.simPrev ELSE now
           sim == IF c.mode = "Replay" THEN c.sim ELSE c.sim + Monus(now, prev)
           d == [c EXCEPT !.src = s, !.pausedAtUs = None, !.sim = sim, !.simPrev = now]
<1>1. /\ c \in CoreRec /\ c.src \in Source /\ HeadsFit(c.src)
      /\ c.pausedAtUs \in Nat \cup {None} /\ c.simPrev \in Nat /\ c.sim \in Nat
  BY DEF Sound, CoreRec
<1>2. last \in Nat \cup {None} /\ sim \in Nat
  <2>1. \A a, b \in Nat : Monus(a, b) \in Nat
    BY DEF Monus
  <2>2. c.src.last \in Nat \cup {None} /\ prev \in Nat
    BY <1>1 DEF Source
  <2>3. last \in Nat \cup {None}
    <3>1. CASE c.src.last = None \/ c.pausedAtUs = None
      BY <2>2, <3>1
    <3>2. CASE c.src.last # None /\ c.pausedAtUs # None
      <4>1. c.src.last \in Nat /\ Monus(now, c.pausedAtUs) \in Nat
        BY <1>1, <2>1, <2>2, <3>2
      <4> QED
        BY <3>2, <4>1
    <3> QED
      BY <3>1, <3>2
  <2>4. Monus(now, prev) \in Nat
    BY <2>1, <2>2
  <2> QED
    BY <1>1, <2>3, <2>4
<1>3. s = IF c.pausedAtUs = None THEN c.src
          ELSE ShiftTime(c.src, Monus(now, c.pausedAtUs))
  BY <1>1 DEF ShiftTime, Source
<1>4. AdvanceClock(c, now) = d
  BY <1>1, <1>3 DEF AdvanceClock
<1> HIDE DEF last, sim
<1>5. /\ s \in Source /\ s.can = c.src.can /\ s.fr = c.src.fr /\ s.eth = c.src.eth
      /\ s.pos = c.src.pos /\ s.last = last /\ s.speed = c.src.speed
      /\ s.done = c.src.done /\ s.nextT = c.src.nextT /\ s.limit = c.src.limit
  BY <1>1, <1>2 DEF Source
<1> HIDE DEF s
<1>6. Heads(s) = Heads(c.src) /\ HeadsFit(s)
  BY <1>1, <1>5, SameReading
<1>7. /\ d \in CoreRec /\ d.src = s /\ d.stopAt = c.stopAt /\ d.pausedAtUs = None
      /\ d.mode = c.mode /\ d.sim = sim /\ d.simPrev = now
      /\ d.injected = c.injected /\ d.finished = c.finished
      /\ d.measuring = c.measuring /\ d.paused = c.paused
  BY <1>1, <1>2, <1>5 DEF CoreRec
<1> HIDE DEF d
<1>8. Sound(d)
  BY <1>5, <1>6, <1>7 DEF Sound, ArmedWell
<1> QED
  BY <1>4, <1>5, <1>7, <1>8 DEF last, sim

\* A lap of a running measurement: the core whose clock has been advanced.
Lapped(c, stamp, now) ==
    AdvanceClock(IF stamp = None THEN c ELSE [c EXCEPT !.pausedAtUs = stamp], now)

LEMMA LappedIs ==
    ASSUME NEW c, Sound(c), c.pausedAtUs = None,
           NEW stamp \in Nat \cup {None}, NEW now \in Nat
    PROVE  LET d == Lapped(c, stamp, now)
           IN  /\ Sound(d) /\ d.pausedAtUs = None /\ d.simPrev = now
               /\ d.mode = c.mode /\ d.injected = c.injected
               /\ d.measuring = c.measuring /\ d.paused = c.paused /\ d.stopAt = c.stopAt
               /\ d.src.pos = c.src.pos /\ d.src.speed = c.src.speed
               /\ d.src.can = c.src.can /\ d.src.fr = c.src.fr /\ d.src.eth = c.src.eth
               /\ d.src.limit = c.src.limit
               /\ d.src.last = IF c.src.last = None \/ stamp = None THEN c.src.last
                               ELSE c.src.last + Monus(now, stamp)
               /\ d.sim = IF c.mode = "Replay" THEN c.sim
                          ELSE c.sim + (IF stamp = None
                                        THEN Monus(now, c.simPrev) ELSE Monus(now, now))
<1> DEFINE b == IF stamp = None THEN c ELSE [c EXCEPT !.pausedAtUs = stamp]
<1>1. /\ b \in CoreRec /\ b.pausedAtUs = stamp /\ b.src = c.src /\ b.stopAt = c.stopAt
      /\ b.mode = c.mode /\ b.sim = c.sim /\ b.simPrev = c.simPrev
      /\ b.injected = c.injected /\ b.finished = c.finished
      /\ b.measuring = c.measuring /\ b.paused = c.paused
  BY DEF Sound, CoreRec
<1>2. Lapped(c, stamp, now) = AdvanceClock(b, now)
  BY DEF Lapped
<1> HIDE DEF b
<1>3. Sound(b)
  BY <1>1 DEF Sound, ArmedWell
<1> DEFINE d == AdvanceClock(b, now)
<1>4. /\ Sound(d) /\ d.pausedAtUs = None /\ d.simPrev = now
      /\ d.mode = b.mode /\ d.injected = b.injected
      /\ d.measuring = b.measuring /\ d.paused = b.paused /\ d.stopAt = b.stopAt
      /\ d.src.pos = b.src.pos /\ d.src.speed = b.src.speed
      /\ d.src.can = b.src.can /\ d.src.fr = b.src.fr /\ d.src.eth = b.src.eth
      /\ d.src.limit = b.src.limit
      /\ d.src.last = IF b.src.last = None \/ b.pausedAtUs = None THEN b.src.last
                      ELSE b.src.last + Monus(now, b.pausedAtUs)
      /\ d.sim = IF b.mode = "Replay" THEN b.sim
                 ELSE b.sim + (IF b.pausedAtUs = None
                               THEN Monus(now, b.simPrev) ELSE Monus(now, now))
  BY <1>3, AdvanceClockIs
<1> HIDE DEF d
<1> QED
  BY <1>1, <1>2, <1>4 DEF d

-----------------------------------------------------------------------------
(* The inductive invariant of the thread.                                  *)

\* The moment up to which the run has run: now, or the start of its pause.
Until == IF pausedAt = None THEN clock ELSE pausedAt

IInv ==
    /\ clock \in 0 .. MaxClock /\ posted \in 0 .. MaxCommands /\ late \in 0 .. MaxLate
    /\ earned \in Nat
    /\ inbox \in Seq(Commands) /\ Len(inbox) <= MaxInbox
    /\ pc \in {"wait", "drain", "lap"} /\ anchored \in BOOLEAN
    /\ pausedAt \in Nat \cup {None}
    /\ pausedAt # None => pausedAt <= clock
    /\ Sound(core) /\ InStep(core) /\ core.pausedAtUs = None
    /\ core.simPrev <= Until
    /\ anchored => pc = "drain" /\ core.simPrev = 0

LEMMA InvTypes == IInv => TypeOK
<1> SUFFICES ASSUME IInv PROVE TypeOK
  OBVIOUS
<1>1. /\ core.mode \in Modes
      /\ core.measuring \in BOOLEAN /\ core.paused \in BOOLEAN
      /\ core.finished \in BOOLEAN /\ core.injected \in BOOLEAN
      /\ core.pausedAtUs \in Nat \cup {None} /\ core.stopAt \in Nat \cup {None}
      /\ core.sim \in Nat /\ core.simPrev \in Nat /\ core.src \in Source
  BY DEF IInv, Sound, CoreRec
<1>2. /\ core.src.last \in Nat \cup {None} /\ core.src.nextT \in Nat \cup {None}
      /\ core.src.limit \in Nat \cup {None} /\ core.src.pos \in Nat \cup {Inf}
      /\ core.src.can \in 0 .. Len(CanLog)
      /\ core.src.fr \in 0 .. Len(FrLog) /\ core.src.eth \in 0 .. Len(EthLog)
  BY <1>1 DEF Source
<1> QED
  BY <1>1, <1>2 DEF IInv, TypeOK

\* What a command carries.
LEMMA CommandIs ==
    ASSUME NEW cmd \in Commands
    PROVE  /\ cmd.op \in {"StartVirtual", "Stop", "Pause", "Resume", "PanelWriteSignal",
                           "StartReplay", "SetSpeed", "Step", "PlayTo"}
           /\ cmd.op \in {"StartReplay", "SetSpeed"} => cmd.speed \in Speeds
           /\ cmd.op = "Step" => cmd.delta \in Nat
           /\ cmd.op = "PlayTo" => cmd.target \in Nat
BY ControlAssumption DEF Commands

\* What the commands do to the core: the two starts begin a run of their own,
\* a step by hand is a lap, and the others leave the clocks alone.
LEMMA HandleIs ==
    ASSUME NEW c, Sound(c), InStep(c), c.pausedAtUs = None, NEW cmd \in Commands
    PROVE  LET d == Handle(c, cmd)
           IN  /\ Sound(d) /\ InStep(d) /\ d.pausedAtUs = None
               /\ cmd.op = "StartVirtual" =>
                    /\ d.mode = "Virtual" /\ d.sim = 0 /\ d.simPrev = 0 /\ ~d.injected
                    /\ d.src.can = c.src.can /\ d.src.fr = c.src.fr /\ d.src.eth = c.src.eth
               /\ cmd.op = "StartReplay" =>
                    /\ d.mode = "Replay" /\ d.sim = 0 /\ d.simPrev = 0 /\ ~d.injected
                    /\ d.src.pos = 0 /\ d.src.last = None
                    /\ d.src.can = 0 /\ d.src.fr = 0 /\ d.src.eth = 0
               /\ cmd.op = "Step" =>
                    d = IF Replaying(c) THEN StepBus(Stepped(c, cmd.delta), c.simPrev) ELSE c
               /\ cmd.op \notin {"StartVirtual", "StartReplay", "Step"} =>
                    /\ Quiet(d, c)
                    /\ cmd.op # "PanelWriteSignal" => d.injected = c.injected
<1> DEFINE d == Handle(c, cmd)
<1> USE CommandIs
<1>1. CASE cmd.op = "StartVirtual"
  <2>1. d = StartVirtual(c)
    BY <1>1 DEF Handle
  <2> QED
    BY <1>1, <2>1, StartVirtualIs
<1>2. CASE cmd.op = "StartReplay"
  <2>1. d = StartReplay(c, cmd.speed) /\ cmd.speed \in Speeds /\ c \in CoreRec
    BY <1>2 DEF Handle, Sound
  <2> QED
    BY <1>2, <2>1, StartReplayIs
<1>3. CASE cmd.op = "Stop"
  <2>1. d = StopBus(c)
    BY <1>3 DEF Handle
  <2> QED
    BY <1>3, <2>1, StopBusIs
<1>4. CASE cmd.op = "PanelWriteSignal"
  <2>1. d = PanelWriteSignal(c)
    BY <1>4 DEF Handle
  <2> QED
    BY <1>4, <2>1, PanelWriteIs
<1>5. CASE cmd.op = "Pause"
  <2>1. d = SetTracePaused(c, TRUE)
    BY <1>5 DEF Handle
  <2> QED
    BY <1>5, <2>1, SetTracePausedIs
<1>6. CASE cmd.op = "Resume"
  <2>1. d = SetTracePaused(c, FALSE)
    BY <1>6 DEF Handle
  <2> QED
    BY <1>6, <2>1, SetTracePausedIs
<1>7. CASE cmd.op = "SetSpeed"
  <2>1. d = [c EXCEPT !.src = SetSpeed(@, cmd.speed)] /\ cmd.speed \in Speeds
    BY <1>7 DEF Handle
  <2> QED
    BY <1>7, <2>1, SetSpeedIs
<1>8. CASE cmd.op = "Step"
  <2>1. d = ReplayStep(c, cmd.delta) /\ cmd.delta \in Nat
    BY <1>8 DEF Handle
  <2> QED
    BY <1>8, <2>1, ReplayStepIs
<1>9. CASE cmd.op = "PlayTo"
  <2>1. d = ReplayPlayTo(c, cmd.target) /\ cmd.target \in Nat
    BY <1>9 DEF Handle
  <2> QED
    BY <1>9, <2>1, PlayToIs
<1> QED
  BY <1>1, <1>2, <1>3, <1>4, <1>5, <1>6, <1>7, <1>8, <1>9

LEMMA InvInit == Init => IInv
<1> SUFFICES ASSUME Init PROVE IInv
  OBVIOUS
<1> DEFINE s == NewSource(Scale)
<1>1. /\ s \in Source /\ HeadsFit(s) /\ s.can = 0 /\ s.fr = 0 /\ s.eth = 0 /\ s.last = None
  BY NewSourceIs
<1>2. Read(s) \in [can : Nat, fr : Nat, eth : Nat]
  BY <1>1 DEF Read
<1>3. core = [mode |-> "Virtual", measuring |-> FALSE, paused |-> FALSE,
              pausedAtUs |-> None, stopAt |-> None, sim |-> 0, simPrev |-> 0,
              src |-> s, was |-> Read(s), finished |-> FALSE, injected |-> FALSE]
  BY DEF Init
<1> HIDE DEF s
<1>4. core \in CoreRec
  BY <1>1, <1>2, <1>3 DEF CoreRec, Modes
<1>5. Sound(core) /\ InStep(core) /\ core.pausedAtUs = None /\ core.simPrev = 0
  BY <1>1, <1>3, <1>4 DEF Sound, ArmedWell, InStep
<1>6. inbox = << >> /\ inbox \in Seq(Commands) /\ Len(inbox) = 0
  BY DEF Init
<1>7. clock = 0 /\ pausedAt = None /\ Until = 0 /\ 0 \in 0 .. MaxClock
        /\ 0 \in 0 .. MaxCommands /\ 0 \in 0 .. MaxLate /\ 0 <= MaxInbox
  BY ControlAssumption DEF Init, Until
<1>8. clock \in 0 .. MaxClock /\ posted \in 0 .. MaxCommands /\ late \in 0 .. MaxLate
        /\ earned \in Nat /\ pc = "wait" /\ ~anchored /\ anchored \in BOOLEAN
  BY <1>7 DEF Init
<1> QED
  BY <1>5, <1>6, <1>7, <1>8 DEF IInv

LEMMA InvTick == IInv /\ Tick => IInv'
<1> SUFFICES ASSUME IInv, Tick PROVE IInv'
  OBVIOUS
<1>1. earned' \in Nat
  BY FastestIs DEF IInv, Tick
<1>2. clock' \in 0 .. MaxClock /\ late' \in 0 .. MaxLate /\ clock' = clock + 1
  BY ControlAssumption DEF IInv, Tick
<1>3. /\ pausedAt' # None => pausedAt' <= clock'
      /\ core'.simPrev <= Until'
  <2>1. clock \in Nat /\ core.simPrev \in Nat /\ pausedAt \in Nat \cup {None}
    BY ControlAssumption DEF IInv, Sound, CoreRec
  <2> QED
    BY <1>2, <2>1 DEF IInv, Tick, Until
<1> QED
  BY <1>1, <1>2, <1>3 DEF IInv, Tick

LEMMA InvPost ==
    ASSUME IInv, NEW cmd \in Commands, Post(cmd)
    PROVE  IInv'
<1>1. inbox' \in Seq(Commands) /\ Len(inbox') = Len(inbox) + 1
  BY DEF IInv, Post
<1>2. Len(inbox') <= MaxInbox
  BY <1>1, ControlAssumption DEF IInv, Post
<1>3. posted' \in 0 .. MaxCommands
  BY ControlAssumption DEF IInv, Post
<1> QED
  BY <1>1, <1>2, <1>3 DEF IInv, Post, Until

\* A handler never moves the clock of the last lap past where it was.
LEMMA HandleClock ==
    ASSUME NEW c, Sound(c), InStep(c), c.pausedAtUs = None, NEW cmd \in Commands
    PROVE  /\ Handle(c, cmd).simPrev \in {0, c.simPrev}
           /\ cmd.op = "StartVirtual" => Handle(c, cmd).simPrev = 0
<1> DEFINE d == Handle(c, cmd)
<1>1. CASE cmd.op \in {"StartVirtual", "StartReplay"}
  BY <1>1, HandleIs
<1>2. CASE cmd.op = "Step"
  <2>1. d = IF Replaying(c) THEN StepBus(Stepped(c, cmd.delta), c.simPrev) ELSE c
    BY <1>2, HandleIs
  <2>2. CASE Replaying(c)
    <3> DEFINE x == Stepped(c, cmd.delta)
    <3>1. x \in CoreRec /\ x.mode = c.mode /\ x.simPrev = c.simPrev
      BY <1>2, CommandIs, SteppedIs DEF Sound
    <3>2. c.mode = "Replay" /\ c.simPrev \in Nat
      BY <2>2 DEF Replaying, Sound, CoreRec
    <3> HIDE DEF x
    <3>3. StepBus(x, c.simPrev).simPrev = x.simPrev
      BY <3>1, <3>2, StepBusIs
    <3> QED
      BY <1>2, <2>1, <2>2, <3>1, <3>3 DEF x
  <2>3. CASE ~Replaying(c)
    BY <1>2, <2>1, <2>3
  <2> QED
    BY <2>2, <2>3
<1>3. CASE cmd.op \notin {"StartVirtual", "StartReplay", "Step"}
  <2>1. Quiet(d, c)
    BY <1>3, HandleIs
  <2> QED
    BY <1>3, <2>1 DEF Quiet
<1> QED
  BY <1>1, <1>2, <1>3

LEMMA InvApply == IInv /\ Apply => IInv'
<1> SUFFICES ASSUME IInv, Apply PROVE IInv'
  OBVIOUS
<1> DEFINE cmd == Head(inbox)
<1>1. cmd \in Commands /\ inbox' \in Seq(Commands) /\ Len(inbox') <= MaxInbox
  <2>1. inbox \in Seq(Commands) /\ inbox # << >> /\ inbox' = Tail(inbox)
    BY DEF IInv, Apply
  <2>2. Len(inbox') = Len(inbox) - 1
    BY <2>1
  <2>3. cmd \in Commands /\ inbox' \in Seq(Commands)
    BY <2>1
  <2> QED
    BY <2>1, <2>2, <2>3, ControlAssumption DEF IInv
<1>2. core' = Handle(core, cmd) /\ anchored' = (anchored \/ cmd.op = "StartVirtual")
  BY DEF Apply
<1>3. earned' \in Nat
  <2>1. cmd.op = "Step" => cmd.delta * Scale \in Nat
    BY <1>1, CommandIs, LogAssumption
  <2> QED
    BY <1>1, <2>1 DEF IInv, Apply
<1> HIDE DEF cmd
<1>4. Sound(core') /\ InStep(core') /\ core'.pausedAtUs = None
  BY <1>1, <1>2, HandleIs DEF IInv
<1>5. /\ core'.simPrev \in {0, core.simPrev}
      /\ cmd.op = "StartVirtual" => core'.simPrev = 0
  BY <1>1, <1>2, HandleClock DEF IInv
<1>6. Until' = Until /\ Until \in Nat
  BY DEF Apply, Until, IInv
<1>7. core'.simPrev <= Until'
  BY <1>5, <1>6 DEF IInv
<1>8. anchored' => pc' = "drain" /\ core'.simPrev = 0
  BY <1>2, <1>5 DEF IInv, Apply
<1>9. anchored' \in BOOLEAN
  BY <1>2 DEF IInv
<1> QED
  BY <1>1, <1>3, <1>4, <1>7, <1>8, <1>9 DEF IInv, Apply

LEMMA InvQueueEmpty == IInv /\ QueueEmpty => IInv'
<1> SUFFICES ASSUME IInv, QueueEmpty PROVE IInv'
  OBVIOUS
<1>1. CASE anchored
  <2>1. /\ clock' = 0 /\ pausedAt' = None /\ ~anchored' /\ anchored' \in BOOLEAN
        /\ earned' \in {0, earned}
        /\ pc' = "lap" /\ UNCHANGED <<inbox, core, late, posted>>
    BY <1>1 DEF QueueEmpty
  <2>2. Until' = 0 /\ core'.simPrev <= 0 /\ clock' \in 0 .. MaxClock
    BY <1>1, <2>1, ControlAssumption, LogAssumption DEF IInv, Until
  <2>3. Sound(core') /\ InStep(core') /\ core'.pausedAtUs = None /\ core'.simPrev <= Until'
    BY <2>1, <2>2 DEF IInv
  <2> QED
    BY <2>1, <2>2, <2>3 DEF IInv
<1>2. CASE ~anchored
  BY <1>2 DEF IInv, QueueEmpty, Until
<1> QED
  BY <1>1, <1>2

LEMMA InvLapStep == IInv /\ LapStep => IInv'
<1> SUFFICES ASSUME IInv, LapStep PROVE IInv'
  OBVIOUS
<1> DEFINE b == Lapped(core, pausedAt, clock)
<1>1. core' = StepBus(b, clock) /\ pausedAt' = None /\ clock' = clock
  BY DEF LapStep, Lapped
<1>2. clock \in Nat
  BY ControlAssumption DEF IInv
<1>3. Sound(b) /\ b.pausedAtUs = None /\ b.simPrev = clock
  <2>1. Sound(core) /\ core.pausedAtUs = None /\ pausedAt \in Nat \cup {None}
    BY DEF IInv
  <2> QED
    BY <1>2, <2>1, LappedIs
<1> HIDE DEF b
<1>4. Sound(core') /\ InStep(core') /\ core'.pausedAtUs = None
  BY <1>1, <1>2, <1>3, StepBusSound
<1>5. core'.simPrev = clock
  <2>1. CASE b.mode = "Virtual"
    BY <1>1, <1>3, <2>1 DEF StepBus, Sound, CoreRec
  <2>2. CASE b.mode = "Replay"
    BY <1>1, <1>2, <1>3, <2>2, StepBusIs DEF Sound
  <2> QED
    BY <1>3, <2>1, <2>2 DEF Sound, CoreRec, Modes
<1>6. ~anchored'
  BY DEF LapStep, IInv
<1> QED
  BY <1>1, <1>2, <1>4, <1>5, <1>6 DEF IInv, LapStep, Until

LEMMA InvNext == IInv /\ [Next]_vars => IInv'
<1> SUFFICES ASSUME IInv, [Next]_vars PROVE IInv'
  OBVIOUS
<1>1. CASE Tick
  BY <1>1, InvTick
<1>2. CASE Wake
  BY <1>2, ControlAssumption DEF IInv, Wake, Until
<1>3. CASE Apply
  BY <1>3, InvApply
<1>4. CASE QueueEmpty
  BY <1>4, InvQueueEmpty
<1>5. CASE LapStep
  BY <1>5, InvLapStep
<1>6. CASE LapPaused
  <2>1. clock \in Nat /\ core.simPrev \in Nat
    BY ControlAssumption DEF IInv, Sound, CoreRec
  <2> QED
    BY <1>6, <2>1 DEF IInv, LapPaused, Until
<1>7. CASE LapIdle
  BY <1>7 DEF IInv, LapIdle, Until
<1>8. ASSUME NEW cmd \in Commands, Post(cmd) PROVE IInv'
  BY <1>8, InvPost
<1>9. CASE UNCHANGED vars
  BY <1>9 DEF IInv, vars, Until
<1> QED
  BY <1>1, <1>2, <1>3, <1>4, <1>5, <1>6, <1>7, <1>8, <1>9 DEF Next

LEMMA Inductive == Spec => []IInv
BY InvInit, InvNext, PTL DEF Spec

\* The state is well typed, whatever the log and the commands.
THEOREM TypeCorrect == Spec => []TypeOK
BY Inductive, InvTypes, PTL

-----------------------------------------------------------------------------
(* What follows from the invariant alone.                                  *)

\* A replay that reports its end has delivered the whole log.
THEOREM FinishedDrained == Spec => []FinishedIsDrained
<1>1. IInv => FinishedIsDrained
  BY DEF IInv, Sound, FinishedIsDrained, Drained
<1> QED
  BY <1>1, Inductive, PTL

\* The playhead has not reached a stamp before the wall time that a truncated
\* division computes for it.
LEMMA NotBefore ==
    ASSUME NEW next \in Nat, NEW pos \in Nat, NEW speed \in Nat, speed > 0,
           NEW k \in Nat, k < Monus(next * Scale, pos) \div speed
    PROVE  (pos + k * speed) \div Scale < next
<1> DEFINE D == Monus(next * Scale, pos)
           q == D \div speed
<1>1. next * Scale \in Nat
  BY LogAssumption
<1>2. D \in Nat /\ (D > 0 => D = next * Scale - pos)
  BY <1>1 DEF Monus
<1> HIDE DEF D
<1>3. q \in Nat /\ q * speed <= D
  BY <1>2
<1>4. k + 1 <= q
  BY <1>3 DEF D
<1> HIDE DEF q
<1>5. (k + 1) * speed <= q * speed
  BY <1>3, <1>4
<1>6. k * speed \in Nat /\ (k + 1) * speed = k * speed + speed
  OBVIOUS
<1>7. k * speed + speed <= D
  <2>1. q * speed \in Nat
    BY <1>3
  <2> QED
    BY <1>2, <1>3, <1>5, <1>6, <2>1
<1>8. pos + k * speed < next * Scale
  BY <1>1, <1>2, <1>6, <1>7
<1>9. pos + k * speed \in Nat
  BY <1>6
<1> QED
  BY <1>8, <1>9, <1>1, ScaleReaches

\* The thread never sleeps past the moment the next frame falls due.
THEOREM NeverOversleeps == Spec => []NoOversleep
<1>1. IInv => NoOversleep
  <2> SUFFICES ASSUME IInv PROVE NoOversleep
    OBVIOUS
  <2> DEFINE s == core.src
             deadline == NextDeadline(s, clock)
             span == IF s.pos = Inf \/ s.speed = Inf THEN 0
                     ELSE Monus(s.nextT * Scale, s.pos) \div s.speed
  <2>1. s \in Source /\ HeadsFit(s) /\ clock \in Nat
    BY ControlAssumption DEF IInv, Sound, CoreRec
  <2>2. SUFFICES ASSUME ~Drained(s)
                 PROVE  /\ deadline # None
                        /\ s.last # None =>
                             \A w \in s.last .. deadline - 1, t \in Heads(s) :
                                 (s.pos + (w - s.last) * s.speed) \div Scale < t
    BY DEF NoOversleep
  <2>3. Heads(s) # {} /\ s.nextT \in Nat /\ ~s.done /\ \A t \in Heads(s) : s.nextT <= t
    BY <2>1, <2>2 DEF Drained, HeadsFit
  <2>4. deadline = (IF s.last = None THEN clock ELSE s.last) + span
    BY <2>3, LogAssumption DEF NextDeadline
  <2>5. s.speed # Inf => s.speed \in Nat /\ s.speed > 0
    BY <2>1, LogAssumption, ControlAssumption, SMTT(40) DEF Source
  <2>6. ASSUME s.pos # Inf, s.speed # Inf
        PROVE  span \in Nat
    <3>1. s.pos \in Nat /\ s.nextT * Scale \in Nat
      BY <2>1, <2>3, <2>6, LogAssumption DEF Source
    <3>2. Monus(s.nextT * Scale, s.pos) \in Nat
      BY <3>1 DEF Monus
    <3> QED
      BY <2>5, <2>6, <3>2
  <2>7. span \in Nat
    BY <2>6
  <2>8. s.last # None => s.last \in Nat
    BY <2>1 DEF Source
  <2> HIDE DEF span, deadline, s
  <2>9. deadline \in Nat /\ deadline # None
    BY <2>1, <2>4, <2>7, <2>8, LogAssumption
  <2>10. ASSUME s.last # None, NEW w \in s.last .. deadline - 1, NEW t \in Heads(s)
         PROVE  (s.pos + (w - s.last) * s.speed) \div Scale < t
    <3> DEFINE k == w - s.last
    <3>1. k \in Nat /\ k < span /\ s.last \in Nat
      BY <2>4, <2>7, <2>8, <2>9, <2>10
    <3>2. s.pos # Inf /\ s.speed # Inf
      BY <3>1 DEF span
    <3>3. span = Monus(s.nextT * Scale, s.pos) \div s.speed
      BY <3>2 DEF span
    <3>4. s.pos \in Nat /\ s.speed \in Nat /\ s.speed > 0 /\ s.nextT \in Nat
      BY <2>1, <2>3, <2>5, <3>2 DEF Source
    <3> HIDE DEF k
    <3>5. (s.pos + k * s.speed) \div Scale < s.nextT
      BY <3>1, <3>3, <3>4, NotBefore
    <3>6. t \in Nat /\ s.nextT <= t
      BY <2>1, <2>3, NextIsLeast
    <3>7. (s.pos + k * s.speed) \div Scale \in Nat
      <4>1. s.pos + k * s.speed \in Nat
        BY <3>1, <3>4
      <4> QED
        BY <4>1, ScaleReaches
    <3>8. (s.pos + k * s.speed) \div Scale < t
      BY <3>4, <3>5, <3>6, <3>7
    <3> QED
      BY <3>8 DEF k
  <2> QED
    BY <2>9, <2>10
<1> QED
  BY <1>1, Inductive, PTL

-----------------------------------------------------------------------------
(* Play targets.                                                           *)

\* A step of the bus with a target armed delivers nothing past it, and if it
\* lands the pause it has delivered everything up to it.
LEMMA StepHolds ==
    ASSUME NEW c, Sound(c), NEW now \in Nat, c.stopAt # None
    PROVE  /\ \A t \in LastStep(StepBus(c, now)) : t <= c.stopAt
           /\ MaxPoll >= Len(CanLog) /\ StepBus(c, now).paused =>
                \A t \in Heads(StepBus(c, now).src) : t > c.stopAt
<1> DEFINE d == StepBus(c, now)
           s == c.src
           r == Swept(c.src, now)
           target == Target(r)
<1>1. /\ c \in CoreRec /\ s \in Source /\ c.mode = "Replay" /\ ~c.paused
      /\ s.limit = c.stopAt /\ c.stopAt \in Nat
  BY DEF Sound, CoreRec, ArmedWell
<1>2. /\ d.was = Read(s)
      /\ \/ d.src = r /\ d.paused = c.paused
         \/ d.src = SetPollLimit(r, None) /\ d.paused = c.paused
         \/ d.src = SetPollLimit(r, None) /\ d.paused /\ Position(r) >= c.stopAt
  BY <1>1, StepBusIs
<1>3. /\ r \in Source /\ r.limit = c.stopAt
      /\ ReadsTo(CanLog, s.can, r.can, target)
      /\ ReadsTo(FrLog, s.fr, r.fr, target)
      /\ ReadsTo(EthLog, s.eth, r.eth, target)
      /\ MaxPoll >= Len(CanLog) => Exhausts(CanLog, r.can, target)
      /\ Exhausts(FrLog, r.fr, target)
      /\ Exhausts(EthLog, r.eth, target)
  BY <1>1, SweptIs
<1>4. /\ target \in Nat /\ target <= c.stopAt
      /\ (r.pos # Inf => r.pos \div Scale >= c.stopAt) => target = c.stopAt
  BY <1>1, <1>3, TargetIs, LogAssumption
<1> HIDE DEF r, s, d, target
<1>5. /\ d.src.can = r.can /\ d.src.fr = r.fr /\ d.src.eth = r.eth
      /\ Heads(d.src) = Heads(r)
  <2> DEFINE q == SetPollLimit(r, None)
  <2>1. q.can = r.can /\ q.fr = r.fr /\ q.eth = r.eth /\ Heads(q) = Heads(r)
    BY <1>3, SetPollLimitIs
  <2> HIDE DEF q
  <2>2. d.src = r \/ d.src = q
    BY <1>2 DEF q
  <2> QED
    BY <2>1, <2>2
<1>6. /\ \A i \in 1 .. Len(CanLog) : CanLog[i] \in Nat
      /\ \A i \in 1 .. Len(FrLog) : FrLog[i] \in Nat
      /\ \A i \in 1 .. Len(EthLog) : EthLog[i] \in Nat
      /\ {Len(CanLog), Len(FrLog), Len(EthLog)} \subseteq Nat
  BY LogAssumption
<1>7. /\ {s.can, s.fr, s.eth} \subseteq Nat
      /\ r.can \in 0 .. Len(CanLog) /\ r.fr \in 0 .. Len(FrLog)
      /\ r.eth \in 0 .. Len(EthLog)
  BY <1>1, <1>3 DEF Source
<1>8. ASSUME NEW t \in LastStep(d) PROVE t <= c.stopAt
  <2>1. d.was.can = s.can /\ d.was.fr = s.fr /\ d.was.eth = s.eth
    BY <1>2 DEF Read
  <2>2. \/ \E i \in s.can + 1 .. r.can : t = CanLog[i]
        \/ \E i \in s.fr + 1 .. r.fr : t = FrLog[i]
        \/ \E i \in s.eth + 1 .. r.eth : t = EthLog[i]
    BY <1>5, <1>8, <2>1 DEF LastStep, Stamps
  <2>3. t \in Nat /\ Within(t, target)
    <3>1. CASE \E i \in s.can + 1 .. r.can : t = CanLog[i]
      BY <1>3, <1>6, <1>7, <3>1 DEF ReadsTo
    <3>2. CASE \E i \in s.fr + 1 .. r.fr : t = FrLog[i]
      BY <1>3, <1>6, <1>7, <3>2 DEF ReadsTo
    <3>3. CASE \E i \in s.eth + 1 .. r.eth : t = EthLog[i]
      BY <1>3, <1>6, <1>7, <3>3 DEF ReadsTo
    <3> QED
      BY <2>2, <3>1, <3>2, <3>3
  <2> QED
    BY <1>1, <1>4, <2>3, LogAssumption DEF Within
<1>9. ASSUME MaxPoll >= Len(CanLog), d.paused, NEW t \in Heads(d.src)
      PROVE  t > c.stopAt
  <2>1. Position(r) >= c.stopAt
    BY <1>1, <1>2, <1>9
  <2>2. target = c.stopAt
    BY <1>4, <2>1 DEF Position
  <2>3. t \in Nat /\ t \in Heads(r)
    BY <1>3, <1>5, <1>9, NextIsLeast
  <2>4. ~Within(t, target)
    BY <1>3, <1>9, <2>3, HeadsAre DEF Exhausts
  <2> QED
    BY <1>1, <2>2, <2>3, <2>4 DEF Within
<1> QED
  BY <1>8, <1>9 DEF d

\* Where one poll takes every CAN frame that is due (MAX_POLL_FRAMES does not
\* cut it), a lap that plays to a target delivers nothing past it and, when
\* the pause lands, everything up to it.
THEOREM TargetsAreExact == MaxPoll >= Len(CanLog) /\ Spec => TargetsHold
<1> DEFINE Held == pc = "lap" /\ core.stopAt # None /\ core' # core =>
                     \A t \in LastStep(core') : t <= core.stopAt
           Complete == pc = "lap" /\ core.stopAt # None /\ core'.paused =>
                         \A t \in Heads(core'.src) : t > core.stopAt
<1>1. ASSUME MaxPoll >= Len(CanLog), IInv, Next, pc = "lap", core.stopAt # None
      PROVE  Held /\ Complete
  <2>1. ~core.paused /\ core.measuring /\ Sound(core) /\ core.pausedAtUs = None
    BY <1>1 DEF IInv, Sound, ArmedWell
  <2>2. CASE core' = core
    BY <2>1, <2>2
  <2>3. CASE core' # core
    <3> DEFINE b == Lapped(core, pausedAt, clock)
    <3>1. LapStep
      BY <1>1, <2>3 DEF Next, Tick, Wake, Apply, QueueEmpty, LapPaused, LapIdle, Post
    <3>2. core' = StepBus(b, clock)
      BY <3>1 DEF LapStep, Lapped
    <3>3. Sound(b) /\ b.stopAt = core.stopAt /\ clock \in Nat
      <4>1. clock \in Nat /\ pausedAt \in Nat \cup {None}
        BY <1>1, ControlAssumption DEF IInv
      <4> QED
        BY <2>1, <4>1, LappedIs
    <3> HIDE DEF b
    <3> QED
      BY <1>1, <3>2, <3>3, StepHolds
  <2> QED
    BY <2>2, <2>3
<1>2. CASE MaxPoll >= Len(CanLog)
  <2>1. IInv /\ [Next]_vars => [Held]_vars /\ [Complete]_vars
    BY <1>1, <1>2
  <2>2. Spec => [][Held]_vars /\ [][Complete]_vars
    BY <2>1, Inductive, PTL DEF Spec
  <2> QED
    BY <2>2 DEF TargetsHold, HeldAtTarget, PlayToComplete
<1> QED
  BY <1>2

-----------------------------------------------------------------------------
(* The log comes out in order, and the clock of a replay follows it.       *)

Sorted(log) == \A i, j \in 1 .. Len(log) : i <= j => log[i] <= log[j]

\* What a log must be for the order to survive the three streams: each stream
\* in time order, and no poll cut short by MAX_POLL_FRAMES.
LogFits == Sorted(CanLog) /\ Sorted(FrLog) /\ Sorted(EthLog) /\ MaxPoll >= Len(CanLog)

\* The stamps a source has delivered.
Out(s) == Stamps(CanLog, 0, s.can) \cup Stamps(FrLog, 0, s.fr) \cup Stamps(EthLog, 0, s.eth)

Ordered(s) == \A d \in Out(s), u \in Heads(s) : d <= u

\* What one stream's read means for the order, whatever the other streams do.
LEMMA StreamOrder ==
    ASSUME NEW log \in Seq(Nat), Sorted(log), NEW from \in 0 .. Len(log),
           NEW upto \in 0 .. Len(log), NEW target,
           ReadsTo(log, from, upto, target), Exhausts(log, upto, target)
    PROVE  /\ \A d \in Stamps(log, 0, upto) :
                d \in Nat /\ (d \in Stamps(log, 0, from) \/ Within(d, target))
           /\ upto < Len(log) => /\ from < Len(log)
                                /\ log[upto + 1] \in Nat /\ log[from + 1] \in Nat
                                /\ log[from + 1] <= log[upto + 1]
                                /\ ~Within(log[upto + 1], target)
<1>1. Len(log) \in Nat /\ \A i \in 1 .. Len(log) : log[i] \in Nat
  OBVIOUS
<1>2. from <= upto /\ from \in Nat /\ upto \in Nat
  BY <1>1 DEF ReadsTo
<1>3. ASSUME NEW d \in Stamps(log, 0, upto)
      PROVE  d \in Nat /\ (d \in Stamps(log, 0, from) \/ Within(d, target))
  <2>1. PICK i \in 1 .. upto : d = log[i]
    BY DEF Stamps
  <2>2. d \in Nat
    BY <1>1, <1>2, <2>1
  <2>3. CASE i <= from
    <3>1. i \in 0 + 1 .. from
      BY <1>2, <2>1, <2>3
    <3> QED
      BY <2>1, <2>2, <3>1 DEF Stamps
  <2>4. CASE ~(i <= from)
    <3>1. i \in from + 1 .. upto
      BY <1>2, <2>1, <2>4
    <3> QED
      BY <2>1, <2>2, <3>1 DEF ReadsTo
  <2> QED
    BY <2>3, <2>4
<1>4. ASSUME upto < Len(log)
      PROVE  /\ from < Len(log)
             /\ log[upto + 1] \in Nat /\ log[from + 1] \in Nat
             /\ log[from + 1] <= log[upto + 1]
             /\ ~Within(log[upto + 1], target)
  <2>1. from + 1 \in 1 .. Len(log) /\ upto + 1 \in 1 .. Len(log) /\ from + 1 <= upto + 1
    BY <1>1, <1>2, <1>4
  <2> QED
    BY <1>1, <1>2, <1>4, <2>1 DEF Sorted, Exhausts
<1> QED
  BY <1>3, <1>4

LEMMA SweptOrdered ==
    ASSUME LogFits, NEW s \in Source, NEW now \in Nat, Ordered(s)
    PROVE  Ordered(Swept(s, now))
<1> DEFINE r == Swept(s, now)
           t == Target(r)
<1>1. /\ r \in Source /\ t \in Nat \cup {None}
      /\ ReadsTo(CanLog, s.can, r.can, t) /\ Exhausts(CanLog, r.can, t)
      /\ ReadsTo(FrLog, s.fr, r.fr, t) /\ Exhausts(FrLog, r.fr, t)
      /\ ReadsTo(EthLog, s.eth, r.eth, t) /\ Exhausts(EthLog, r.eth, t)
  BY SweptIs, TargetIs DEF LogFits
<1> HIDE DEF r, t
<1>2. /\ CanLog \in Seq(Nat) /\ FrLog \in Seq(Nat) /\ EthLog \in Seq(Nat)
      /\ Sorted(CanLog) /\ Sorted(FrLog) /\ Sorted(EthLog)
      /\ s.can \in 0 .. Len(CanLog) /\ s.fr \in 0 .. Len(FrLog) /\ s.eth \in 0 .. Len(EthLog)
      /\ r.can \in 0 .. Len(CanLog) /\ r.fr \in 0 .. Len(FrLog) /\ r.eth \in 0 .. Len(EthLog)
  BY <1>1, LogAssumption DEF LogFits, Source
<1>3. /\ \A d \in Stamps(CanLog, 0, r.can) :
           d \in Nat /\ (d \in Stamps(CanLog, 0, s.can) \/ Within(d, t))
      /\ r.can < Len(CanLog) => /\ s.can < Len(CanLog)
                                /\ CanLog[r.can + 1] \in Nat /\ CanLog[s.can + 1] \in Nat
                                /\ CanLog[s.can + 1] <= CanLog[r.can + 1]
                                /\ ~Within(CanLog[r.can + 1], t)
  BY <1>1, <1>2, StreamOrder
<1>4. /\ \A d \in Stamps(FrLog, 0, r.fr) :
           d \in Nat /\ (d \in Stamps(FrLog, 0, s.fr) \/ Within(d, t))
      /\ r.fr < Len(FrLog) => /\ s.fr < Len(FrLog)
                              /\ FrLog[r.fr + 1] \in Nat /\ FrLog[s.fr + 1] \in Nat
                              /\ FrLog[s.fr + 1] <= FrLog[r.fr + 1]
                              /\ ~Within(FrLog[r.fr + 1], t)
  BY <1>1, <1>2, StreamOrder
<1>5. /\ \A d \in Stamps(EthLog, 0, r.eth) :
           d \in Nat /\ (d \in Stamps(EthLog, 0, s.eth) \/ Within(d, t))
      /\ r.eth < Len(EthLog) => /\ s.eth < Len(EthLog)
                                /\ EthLog[r.eth + 1] \in Nat /\ EthLog[s.eth + 1] \in Nat
                                /\ EthLog[s.eth + 1] <= EthLog[r.eth + 1]
                                /\ ~Within(EthLog[r.eth + 1], t)
  BY <1>1, <1>2, StreamOrder
<1>6. \A d \in Out(r) : d \in Nat /\ (d \in Out(s) \/ Within(d, t))
  BY <1>3, <1>4, <1>5 DEF Out
<1>7. \A u \in Heads(r) : u \in Nat /\ ~Within(u, t) /\ \E v \in Heads(s) : v \in Nat /\ v <= u
  <2> SUFFICES ASSUME NEW u \in Heads(r)
               PROVE  u \in Nat /\ ~Within(u, t) /\ \E v \in Heads(s) : v \in Nat /\ v <= u
    OBVIOUS
  <2>1. CASE r.can < Len(CanLog) /\ u = CanLog[r.can + 1]
    <3>1. CanLog[s.can + 1] \in Heads(s)
      BY <1>3, <2>1, HeadsAre
    <3> QED
      BY <1>3, <2>1, <3>1
  <2>2. CASE r.fr < Len(FrLog) /\ u = FrLog[r.fr + 1]
    <3>1. FrLog[s.fr + 1] \in Heads(s)
      BY <1>4, <2>2, HeadsAre
    <3> QED
      BY <1>4, <2>2, <3>1
  <2>3. CASE r.eth < Len(EthLog) /\ u = EthLog[r.eth + 1]
    <3>1. EthLog[s.eth + 1] \in Heads(s)
      BY <1>5, <2>3, HeadsAre
    <3> QED
      BY <1>5, <2>3, <3>1
  <2> QED
    BY <1>1, <2>1, <2>2, <2>3, HeadsAre
<1>8. ASSUME NEW d \in Out(r), NEW u \in Heads(r) PROVE d <= u
  <2>1. CASE d \in Out(s)
    <3>1. PICK v \in Heads(s) : v \in Nat /\ v <= u
      BY <1>7
    <3>2. d <= v /\ d \in Nat /\ u \in Nat
      BY <1>6, <1>7, <2>1, <3>1 DEF Ordered
    <3> QED
      BY <3>1, <3>2
  <2>2. CASE Within(d, t)
    <3>1. d < u /\ d \in Nat /\ u \in Nat
      BY <1>1, <1>6, <1>7, <2>2, WithinOlder
    <3> QED
      BY <3>1
  <2> QED
    BY <1>6, <2>1, <2>2
<1> QED
  BY <1>8 DEF Ordered, r

LEMMA SameOut ==
    ASSUME NEW s \in Source, NEW r \in Source, Ordered(s),
           r.can = s.can, r.fr = s.fr, r.eth = s.eth
    PROVE  Ordered(r)
<1>1. Heads(r) = Heads(s) /\ Out(r) = Out(s)
  BY SameReading DEF Out
<1> QED
  BY <1>1 DEF Ordered

\* The clock of a replay is within the playhead.
Follows(c) == c.mode = "Replay" /\ c.src.pos # Inf => c.sim * Scale <= c.src.pos

\* What a log that fits keeps in order.
LogWell(c) == Ordered(c.src) /\ Follows(c) /\ (c.injected => c.mode = "Virtual")

\* A step of a replay that no setpoint disturbs keeps the log in order and its
\* clock within the playhead.
LEMMA StepLog ==
    ASSUME LogFits, NEW c, Sound(c), LogWell(c), NEW now \in Nat
    PROVE  LogWell(StepBus(c, now)) /\ StepBus(c, now).mode = c.mode
<1> DEFINE d == StepBus(c, now)
           s == c.src
           r == Swept(c.src, now)
<1>1. /\ c \in CoreRec /\ s \in Source /\ c.mode \in Modes /\ c.sim \in Nat
      /\ c.injected \in BOOLEAN
  BY DEF Sound, CoreRec
<1>2. CASE c.mode = "Virtual"
  <2>1. d.src = s /\ d.mode = c.mode
    BY <1>1, <1>2 DEF StepBus, CoreRec
  <2> QED
    BY <1>2, <2>1 DEF LogWell, Follows
<1>3. CASE c.mode = "Replay"
  <2>1. /\ d.mode = "Replay" /\ ~d.injected
        /\ d.sim = IF r.can > s.can THEN CanLog[r.can] ELSE c.sim
        /\ d.src = r \/ d.src = SetPollLimit(r, None)
    BY <1>1, <1>3, StepBusIs DEF LogWell
  <2>2. /\ r \in Source /\ r.pos = Moved(s, now).pos
        /\ ReadsTo(CanLog, s.can, r.can, Target(r))
    BY <1>1, SweptIs
  <2>3. Ordered(r)
    BY <1>1, SweptOrdered DEF LogWell
  <2>4. ASSUME r.pos # Inf
        PROVE  s.pos # Inf /\ s.pos \in Nat /\ r.pos \in Nat /\ s.pos <= r.pos
    <3> DEFINE since == IF s.last = None THEN 0 ELSE Monus(now, s.last)
    <3>1. /\ s.speed # Inf /\ s.pos # Inf /\ r.pos = s.pos + since * s.speed
      BY <1>1, <2>2, <2>4, MovedIs
    <3>2. since \in Nat /\ s.speed \in Nat /\ s.pos \in Nat
      <4>1. s.last \in Nat \cup {None} /\ s.pos \in Nat
        BY <1>1, <3>1 DEF Source
      <4>2. since \in Nat
        BY <4>1 DEF Monus
      <4>3. s.speed \in Nat
        BY <1>1, <3>1, LogAssumption, ControlAssumption DEF Source
      <4> QED
        BY <4>1, <4>2, <4>3
    <3> HIDE DEF since
    <3>3. since * s.speed \in Nat
      BY <3>2
    <3> QED
      BY <3>1, <3>2, <3>3
  <2> HIDE DEF r, s
  <2>5. ASSUME r.pos # Inf PROVE d.sim * Scale <= r.pos
    <3>1. CASE r.can > s.can
      <4>1. s.can \in Nat /\ r.can \in 1 .. Len(CanLog) /\ r.can \in s.can + 1 .. r.can
        BY <1>1, <2>2, <3>1 DEF Source
      <4>2. CanLog[r.can] \in Nat /\ Within(CanLog[r.can], Target(r))
        BY <2>2, <4>1, LogAssumption DEF ReadsTo
      <4>3. Target(r) \in Nat /\ Target(r) <= r.pos \div Scale
        BY <2>2, <2>5, TargetIs
      <4>4. r.pos \in Nat /\ r.pos \div Scale \in Nat
        BY <2>4, <2>5, ScaleReaches
      <4>5. r.pos \div Scale >= CanLog[r.can]
        BY <4>2, <4>3, <4>4, LogAssumption DEF Within
      <4>6. r.pos >= CanLog[r.can] * Scale
        BY <4>2, <4>4, <4>5, ScaleReaches
      <4>7. CanLog[r.can] * Scale \in Nat
        BY <4>2, LogAssumption
      <4> QED
        BY <2>1, <3>1, <4>4, <4>6, <4>7
    <3>2. CASE ~(r.can > s.can)
      <4>1. d.sim = c.sim /\ c.sim * Scale \in Nat
        BY <1>1, <2>1, <3>2, LogAssumption
      <4>2. c.sim * Scale <= s.pos
        BY <1>3, <2>4, <2>5 DEF LogWell, Follows, s
      <4> QED
        BY <2>4, <2>5, <4>1, <4>2
    <3> QED
      BY <3>1, <3>2
  <2>6. d.src \in Source /\ d.src.pos = r.pos /\ Ordered(d.src)
    <3> DEFINE q == SetPollLimit(r, None)
    <3>1. q \in Source /\ q.pos = r.pos /\ q.can = r.can /\ q.fr = r.fr /\ q.eth = r.eth
      BY <2>2, SetPollLimitIs
    <3> HIDE DEF q
    <3>2. Ordered(q)
      BY <2>2, <2>3, <3>1, SameOut
    <3>3. d.src = r \/ d.src = q
      BY <2>1 DEF q
    <3> QED
      BY <2>2, <2>3, <3>1, <3>2, <3>3
  <2> HIDE DEF d
  <2>7. LogWell(d) /\ d.mode = c.mode
    BY <1>3, <2>1, <2>5, <2>6 DEF LogWell, Follows
  <2> QED
    BY <2>7 DEF d
<1> QED
  BY <1>1, <1>2, <1>3 DEF Modes

\* A command that waits was posted on an empty queue: it is the first.
First(op) == \A i \in 1 .. Len(inbox) : inbox[i].op = op => i = 1

LogInv ==
    /\ IInv
    /\ LogWell(core)
    /\ First("PanelWriteSignal")
    /\ inbox # << >> /\ inbox[1].op = "PanelWriteSignal" => core.mode = "Virtual"

\* What the queue is after a command is taken or posted.
LEMMA FirstTaken ==
    ASSUME inbox \in Seq(Commands), inbox # << >>, NEW op, First(op),
           inbox' = Tail(inbox)
    PROVE  \A i \in 1 .. Len(inbox') : inbox'[i].op # op
<1> SUFFICES ASSUME NEW i \in 1 .. Len(inbox') PROVE inbox'[i].op # op
  OBVIOUS
<1>1. i + 1 \in 1 .. Len(inbox) /\ inbox'[i] = inbox[i + 1] /\ i + 1 # 1
  OBVIOUS
<1> QED
  BY <1>1 DEF First

LEMMA FirstPosted ==
    ASSUME inbox \in Seq(Commands), NEW cmd \in Commands, NEW op, First(op),
           inbox' = Append(inbox, cmd), cmd.op = op => inbox = << >>
    PROVE  /\ First(op)'
           /\ inbox' # << >>
           /\ inbox'[1].op = op =>
                cmd.op = op \/ (inbox # << >> /\ inbox[1].op = op)
<1>1. /\ Len(inbox') = Len(inbox) + 1 /\ inbox'[Len(inbox) + 1] = cmd
      /\ \A i \in 1 .. Len(inbox) : inbox'[i] = inbox[i]
      /\ Len(inbox) \in Nat
  OBVIOUS
<1>2. ASSUME NEW i \in 1 .. Len(inbox'), inbox'[i].op = op PROVE i = 1
  <2>1. CASE i \in 1 .. Len(inbox)
    BY <1>1, <1>2, <2>1 DEF First
  <2>2. CASE i = Len(inbox) + 1
    <3>1. Len(inbox) = 0
      BY <1>1, <1>2, <2>2
    <3> QED
      BY <2>2, <3>1
  <2> QED
    BY <1>1, <2>1, <2>2
<1>3. First(op)'
  BY <1>2 DEF First
<1>4. CASE Len(inbox) = 0
  <2>1. inbox'[1] = cmd /\ Len(inbox') = 1
    BY <1>1, <1>4
  <2> QED
    BY <1>3, <2>1
<1>5. CASE Len(inbox) # 0
  <2>1. 1 \in 1 .. Len(inbox) /\ inbox # << >>
    BY <1>1, <1>5
  <2> QED
    BY <1>1, <1>3, <2>1
<1> QED
  BY <1>4, <1>5

LEMMA LogHandle ==
    ASSUME LogFits, NEW c, Sound(c), InStep(c), c.pausedAtUs = None, LogWell(c),
           NEW cmd \in Commands, cmd.op = "PanelWriteSignal" => c.mode = "Virtual"
    PROVE  LogWell(Handle(c, cmd))
<1> DEFINE d == Handle(c, cmd)
<1>1. Sound(d) /\ d.src \in Source /\ c.src \in Source /\ c \in CoreRec
  BY HandleIs DEF Sound, CoreRec
<1>2. CASE cmd.op = "StartVirtual"
  <2>1. /\ d.mode = "Virtual" /\ d.src.can = c.src.can /\ d.src.fr = c.src.fr
        /\ d.src.eth = c.src.eth
    BY <1>2, HandleIs
  <2> HIDE DEF d
  <2>2. Ordered(d.src)
    BY <1>1, <2>1, SameOut DEF LogWell
  <2> QED
    BY <2>1, <2>2 DEF LogWell, Follows, d
<1>3. CASE cmd.op = "StartReplay"
  <2>1. /\ d.sim = 0 /\ ~d.injected /\ d.src.pos = 0
        /\ d.src.can = 0 /\ d.src.fr = 0 /\ d.src.eth = 0
    BY <1>3, HandleIs
  <2> HIDE DEF d
  <2>2. Out(d.src) = {}
    BY <2>1 DEF Out, Stamps
  <2>3. d.sim * Scale = 0
    BY <2>1, LogAssumption
  <2> QED
    BY <2>1, <2>2, <2>3 DEF LogWell, Ordered, Follows, d
<1>4. CASE cmd.op = "Step"
  <2>1. d = IF Replaying(c) THEN StepBus(Stepped(c, cmd.delta), c.simPrev) ELSE c
    BY <1>4, HandleIs
  <2>2. CASE ~Replaying(c)
    BY <2>1, <2>2 DEF d
  <2>3. CASE Replaying(c)
    <3> DEFINE x == Stepped(c, cmd.delta)
    <3>1. cmd.delta \in Nat
      BY <1>4, CommandIs
    <3>2. /\ Sound(x) /\ x.mode = c.mode /\ x.sim = c.sim /\ x.injected = c.injected
          /\ x.src.can = c.src.can /\ x.src.fr = c.src.fr /\ x.src.eth = c.src.eth
          /\ x.src.pos = IF c.src.pos = Inf THEN Inf ELSE c.src.pos + cmd.delta * Scale
      BY <3>1, SteppedIs
    <3> HIDE DEF x
    <3>3. x.src \in Source
      BY <3>2 DEF Sound, CoreRec
    <3>4. Ordered(x.src)
      BY <1>1, <3>2, <3>3, SameOut DEF LogWell
    <3>5. Follows(x)
      <4>1. ASSUME x.mode = "Replay", x.src.pos # Inf PROVE x.sim * Scale <= x.src.pos
        <5>1. c.sim * Scale <= c.src.pos /\ c.src.pos # Inf
          BY <3>2, <4>1 DEF LogWell, Follows
        <5>2. c.src.pos \in Nat /\ c.sim \in Nat
          BY <1>1, <5>1 DEF Source, CoreRec
        <5>3. cmd.delta * Scale \in Nat /\ c.sim * Scale \in Nat
          BY <3>1, <5>2, LogAssumption
        <5> QED
          BY <3>2, <5>1, <5>2, <5>3
      <4> QED
        BY <4>1 DEF Follows
    <3>6. LogWell(x)
      BY <3>2, <3>4, <3>5 DEF LogWell
    <3>7. c.simPrev \in Nat
      BY <1>1 DEF CoreRec
    <3>8. LogWell(StepBus(x, c.simPrev))
      BY <3>2, <3>6, <3>7, StepLog
    <3> QED
      BY <2>1, <2>3, <3>8 DEF x
  <2> QED
    BY <2>2, <2>3
<1>5. CASE cmd.op \notin {"StartVirtual", "StartReplay", "Step"}
  <2>1. Quiet(d, c) /\ (cmd.op # "PanelWriteSignal" => d.injected = c.injected)
    BY <1>5, HandleIs
  <2> HIDE DEF d
  <2>2. Ordered(d.src)
    BY <1>1, <2>1, SameOut DEF LogWell, Quiet
  <2>3. Follows(d)
    BY <2>1 DEF LogWell, Follows, Quiet
  <2>4. d.injected => d.mode = "Virtual"
    BY <2>1 DEF LogWell, Quiet
  <2> QED
    BY <2>2, <2>3, <2>4 DEF LogWell, d
<1> QED
  BY <1>2, <1>3, <1>4, <1>5

LEMMA LogInit == Init => LogInv
<1> SUFFICES ASSUME Init PROVE LogInv
  OBVIOUS
<1>1. IInv
  BY InvInit
<1> DEFINE s == NewSource(Scale)
<1>2. s.can = 0 /\ s.fr = 0 /\ s.eth = 0
  BY NewSourceIs
<1>3. /\ core.src = s /\ core.mode = "Virtual" /\ ~core.injected
      /\ inbox = << >> /\ Len(inbox) = 0
  BY DEF Init
<1> HIDE DEF s
<1>4. Out(core.src) = {}
  BY <1>2, <1>3 DEF Out, Stamps
<1>5. LogWell(core)
  BY <1>3, <1>4 DEF LogWell, Ordered, Follows
<1>6. First("PanelWriteSignal")
  BY <1>3 DEF First
<1> QED
  BY <1>1, <1>3, <1>5, <1>6 DEF LogInv

LEMMA LogNext ==
    ASSUME LogFits, "Replay" \notin SetpointModes, LogInv, [Next]_vars
    PROVE  LogInv'
<1>1. IInv /\ IInv'
  BY InvNext DEF LogInv
<1>2. /\ Sound(core) /\ InStep(core) /\ core.pausedAtUs = None
      /\ inbox \in Seq(Commands) /\ clock \in Nat /\ pausedAt \in Nat \cup {None}
  BY <1>1, ControlAssumption DEF IInv
<1>3. ASSUME UNCHANGED <<core, inbox>> PROVE LogInv'
  BY <1>1, <1>3 DEF LogInv, First
<1>4. CASE Tick
  BY <1>3, <1>4 DEF Tick
<1>5. CASE Wake
  BY <1>3, <1>5 DEF Wake
<1>6. CASE Apply
  <2> DEFINE cmd == Head(inbox)
  <2>1. /\ inbox # << >> /\ inbox' = Tail(inbox) /\ core' = Handle(core, cmd)
        /\ cmd \in Commands /\ cmd = inbox[1]
    BY <1>2, <1>6 DEF Apply
  <2> HIDE DEF cmd
  <2>2. \A i \in 1 .. Len(inbox') : inbox'[i].op # "PanelWriteSignal"
    BY <1>2, <2>1, FirstTaken DEF LogInv
  <2>3. cmd.op = "PanelWriteSignal" => core.mode = "Virtual"
    BY <2>1 DEF LogInv
  <2>4. LogWell(core')
    BY <1>2, <2>1, <2>3, LogHandle DEF LogInv
  <2>5. inbox' # << >> => inbox'[1].op # "PanelWriteSignal"
    <3>1. inbox' \in Seq(Commands)
      BY <1>1 DEF IInv
    <3>2. inbox' # << >> => 1 \in 1 .. Len(inbox')
      BY <3>1
    <3> QED
      BY <2>2, <3>2
  <2> QED
    BY <1>1, <2>2, <2>4, <2>5 DEF LogInv, First
<1>7. CASE QueueEmpty
  BY <1>3, <1>7 DEF QueueEmpty
<1>8. CASE LapStep
  <2> DEFINE b == Lapped(core, pausedAt, clock)
  <2>1. core' = StepBus(b, clock) /\ inbox' = inbox
    BY <1>8 DEF LapStep, Lapped
  <2>2. /\ Sound(b) /\ b.mode = core.mode /\ b.injected = core.injected
        /\ b.src.pos = core.src.pos
        /\ b.src.can = core.src.can /\ b.src.fr = core.src.fr /\ b.src.eth = core.src.eth
        /\ core.mode = "Replay" => b.sim = core.sim
    BY <1>2, LappedIs, SMTT(40)
  <2> HIDE DEF b
  <2>3. b.src \in Source /\ core.src \in Source
    BY <1>2, <2>2 DEF Sound, CoreRec
  <2>4. Ordered(b.src)
    BY <2>2, <2>3, SameOut DEF LogInv, LogWell
  <2>5. LogWell(b)
    BY <2>2, <2>4 DEF LogInv, LogWell, Follows
  <2>6. LogWell(core') /\ core'.mode = core.mode
    BY <1>2, <2>1, <2>2, <2>5, StepLog
  <2> QED
    BY <1>1, <2>1, <2>6 DEF LogInv, First
<1>9. CASE LapPaused
  BY <1>3, <1>9 DEF LapPaused
<1>10. CASE LapIdle
  BY <1>3, <1>10 DEF LapIdle
<1>11. ASSUME NEW cmd \in Commands, Post(cmd) PROVE LogInv'
  <2>1. inbox' = Append(inbox, cmd) /\ core' = core
    BY <1>11 DEF Post
  <2>2. cmd.op = "PanelWriteSignal" => inbox = << >> /\ core.mode = "Virtual"
    <3>1. core.mode \in Modes
      BY <1>2 DEF Sound, CoreRec
    <3> QED
      BY <1>11, <3>1 DEF Post, Modes
  <2>3. /\ First("PanelWriteSignal")'
        /\ inbox'[1].op = "PanelWriteSignal" =>
             \/ cmd.op = "PanelWriteSignal"
             \/ inbox # << >> /\ inbox[1].op = "PanelWriteSignal"
    BY <1>2, <2>1, <2>2, FirstPosted DEF LogInv
  <2> QED
    BY <1>1, <2>1, <2>2, <2>3 DEF LogInv
<1>12. CASE UNCHANGED vars
  BY <1>3, <1>12 DEF vars
<1> QED
  BY <1>4, <1>5, <1>6, <1>7, <1>8, <1>9, <1>10, <1>11, <1>12 DEF Next

\* A log whose streams are in time order, and which no poll cuts short, comes
\* out in order over all three streams, and the clock of the replay is never
\* ahead of the playhead, as long as no panel writes a setpoint into it.
THEOREM LogIsHonest ==
    LogFits /\ "Replay" \notin SetpointModes /\ Spec => []LogHonest
<1>1. CASE LogFits /\ "Replay" \notin SetpointModes
  <2>1. LogInv /\ [Next]_vars => LogInv'
    BY <1>1, LogNext
  <2>2. LogInv => LogHonest
    BY DEF LogInv, LogWell, Ordered, Out, Follows, LogHonest, LogOrder, Delivered,
           SimWithinPlayhead
  <2> QED
    BY <2>1, <2>2, LogInit, PTL DEF Spec
<1> QED
  BY <1>1

-----------------------------------------------------------------------------
(* The clocks of a run count no time it did not have.                      *)

\* A playhead or a clock has been advanced as far as the last lap; the run has
\* also earned the span since.  Wall time the source has not anchored yet
\* (last = None) earns nothing it will use.
PlayheadFits ==
    core.mode = "Replay" /\ core.src.pos # Inf =>
      /\ core.src.pos <= earned
      /\ core.measuring /\ core.src.last # None =>
           core.src.pos + (Until - core.simPrev) * Fastest <= earned

ClockFits ==
    core.mode = "Virtual" =>
      /\ core.sim <= earned
      /\ anchored => core.sim = 0
      /\ ~anchored /\ core.measuring => core.sim + (Until - core.simPrev) <= earned

\* A step that waits is the first command, and its source has had a lap.
ClockInv ==
    /\ IInv
    /\ First("Step")
    /\ inbox # << >> /\ inbox[1].op = "Step" => core.src.last # None
    /\ PlayheadFits
    /\ ClockFits

LEMMA ClockTypes ==
    ASSUME IInv
    PROVE  /\ Sound(core) /\ InStep(core) /\ core.pausedAtUs = None
           /\ core \in CoreRec /\ core.src \in Source /\ core.mode \in Modes
           /\ core.src.pos \in Nat \cup {Inf} /\ core.sim \in Nat /\ core.simPrev \in Nat
           /\ core.src.last \in Nat \cup {None}
           /\ Until \in Nat /\ core.simPrev <= Until
           /\ clock \in Nat /\ pausedAt \in Nat \cup {None}
           /\ pausedAt # None => pausedAt <= clock
           /\ earned \in Nat /\ inbox \in Seq(Commands)
<1>1. Sound(core) /\ InStep(core) /\ core.pausedAtUs = None /\ clock \in Nat
  BY ControlAssumption DEF IInv
<1>2. core \in CoreRec /\ core.src \in Source /\ core.mode \in Modes
      /\ core.sim \in Nat /\ core.simPrev \in Nat
  BY <1>1 DEF Sound, CoreRec
<1>3. Until \in Nat
  BY <1>1 DEF IInv, Until
<1> QED
  BY <1>1, <1>2, <1>3 DEF IInv, Source

LEMMA ClockInit == Init => ClockInv
<1> SUFFICES ASSUME Init PROVE ClockInv
  OBVIOUS
<1>1. IInv
  BY InvInit
<1>2. /\ core.mode = "Virtual" /\ core.sim = 0 /\ core.simPrev = 0
      /\ ~core.measuring /\ inbox = << >> /\ Len(inbox) = 0 /\ earned = 0
  BY DEF Init
<1> QED
  BY <1>1, <1>2 DEF ClockInv, First, PlayheadFits, ClockFits

LEMMA ClockTick ==
    ASSUME ClockInv, Tick PROVE ClockInv'
<1>1. IInv /\ IInv'
  BY InvTick DEF ClockInv
<1>2. /\ UNCHANGED <<inbox, anchored, pausedAt, core>>
      /\ clock' = clock + 1
  BY DEF Tick
<1>3. Until' = IF pausedAt = None THEN Until + 1 ELSE Until
  BY <1>2 DEF Until
<1>4. earned' \in Nat /\ earned <= earned' /\ Fastest \in Nat
  BY <1>1, FastestIs DEF IInv, Tick
<1>5. /\ Until \in Nat /\ core.simPrev \in Nat /\ core.simPrev <= Until
      /\ earned \in Nat /\ core.src.pos \in Nat \cup {Inf} /\ core.sim \in Nat
  BY <1>1, ClockTypes
<1>6. PlayheadFits'
  <2> SUFFICES ASSUME core.mode = "Replay", core.src.pos # Inf
               PROVE  /\ core.src.pos <= earned'
                      /\ core.measuring /\ core.src.last # None =>
                           core.src.pos + (Until' - core.simPrev) * Fastest <= earned'
    BY <1>2 DEF PlayheadFits
  <2>1. core.src.pos \in Nat /\ core.src.pos <= earned
    BY <1>5 DEF ClockInv, PlayheadFits
  <2>2. ASSUME core.measuring, core.src.last # None
        PROVE  core.src.pos + (Until' - core.simPrev) * Fastest <= earned'
    <3> DEFINE k == Until - core.simPrev
    <3>1. core.src.pos + k * Fastest <= earned
      BY <2>2 DEF ClockInv, PlayheadFits
    <3>2. k \in Nat /\ k * Fastest \in Nat /\ (k + 1) * Fastest = k * Fastest + Fastest
      BY <1>4, <1>5
    <3>3. CASE pausedAt = None
      <4>1. earned' = earned + Fastest
        BY <2>2, <3>3 DEF Tick, Running
      <4>2. Until' - core.simPrev = k + 1
        BY <1>3, <1>5, <3>3
      <4> HIDE DEF k
      <4> QED
        BY <1>4, <1>5, <2>1, <3>1, <3>2, <4>1, <4>2
    <3>4. CASE pausedAt # None
      <4>1. Until' - core.simPrev = k
        BY <1>3, <3>4
      <4> HIDE DEF k
      <4> QED
        BY <1>4, <1>5, <2>1, <3>1, <3>2, <4>1
    <3> QED
      BY <3>3, <3>4
  <2> QED
    BY <1>4, <1>5, <2>1, <2>2
<1>7. ClockFits'
  <2> SUFFICES ASSUME core.mode = "Virtual"
               PROVE  /\ core.sim <= earned'
                      /\ anchored => core.sim = 0
                      /\ ~anchored /\ core.measuring =>
                           core.sim + (Until' - core.simPrev) <= earned'
    BY <1>2 DEF ClockFits
  <2>1. /\ core.sim <= earned /\ (anchored => core.sim = 0)
        /\ ~anchored /\ core.measuring => core.sim + (Until - core.simPrev) <= earned
    BY DEF ClockInv, ClockFits
  <2>2. core.measuring /\ pausedAt = None => earned' = earned + 1
    BY DEF Tick, Running
  <2> QED
    BY <1>3, <1>4, <1>5, <2>1, <2>2
<1> QED
  BY <1>1, <1>2, <1>6, <1>7 DEF ClockInv, First

LEMMA ClockApply ==
    ASSUME ClockInv, Apply PROVE ClockInv'
<1> DEFINE cmd == Head(inbox)
<1>1. IInv /\ IInv'
  BY InvApply DEF ClockInv
<1>2. /\ Sound(core) /\ InStep(core) /\ core.pausedAtUs = None
      /\ inbox \in Seq(Commands) /\ inbox' \in Seq(Commands)
      /\ core.src.pos \in Nat \cup {Inf} /\ core.simPrev \in Nat
      /\ Until \in Nat /\ core.simPrev <= Until /\ earned \in Nat
      /\ core'.src \in Source
  BY <1>1, ClockTypes DEF IInv, Sound, CoreRec
<1>3. /\ inbox # << >> /\ inbox' = Tail(inbox) /\ core' = Handle(core, cmd)
      /\ cmd \in Commands /\ cmd = inbox[1]
      /\ anchored' = (anchored \/ cmd.op = "StartVirtual")
      /\ pausedAt' = pausedAt /\ clock' = clock
      /\ earned' = CASE cmd.op \in {"StartVirtual", "StartReplay"} -> 0
                     [] cmd.op = "Step" /\ Replaying(core) -> earned + cmd.delta * Scale
                     [] OTHER -> earned
  BY <1>2 DEF Apply
<1> HIDE DEF cmd
<1>4. Until' = Until
  BY <1>3 DEF Until
<1>5. First("Step")' /\ (inbox' # << >> /\ inbox'[1].op = "Step" => core'.src.last # None)
  <2>1. \A i \in 1 .. Len(inbox') : inbox'[i].op # "Step"
    BY <1>2, <1>3, FirstTaken DEF ClockInv
  <2>2. inbox' # << >> => 1 \in 1 .. Len(inbox')
    BY <1>2
  <2> QED
    BY <2>1, <2>2 DEF First
<1>6. CASE cmd.op = "StartVirtual"
  <2>1. core'.mode = "Virtual" /\ core'.sim = 0 /\ earned' = 0 /\ anchored'
    BY <1>2, <1>3, <1>6, HandleIs
  <2> QED
    BY <1>1, <1>5, <2>1 DEF ClockInv, PlayheadFits, ClockFits
<1>7. CASE cmd.op = "StartReplay"
  <2>1. /\ core'.mode = "Replay" /\ core'.src.pos = 0 /\ core'.src.last = None
        /\ earned' = 0
    BY <1>2, <1>3, <1>7, HandleIs
  <2> QED
    BY <1>1, <1>5, <2>1 DEF ClockInv, PlayheadFits, ClockFits
<1>8. CASE cmd.op \notin {"StartVirtual", "StartReplay", "Step"}
  <2>1. Quiet(core', core)
    BY <1>2, <1>3, <1>8, HandleIs
  <2>3. earned' = earned /\ anchored' = anchored
    BY <1>1, <1>3, <1>8 DEF IInv
  <2>2. PlayheadFits' /\ ClockFits'
    BY <1>4, <2>1, <2>3 DEF ClockInv, PlayheadFits, ClockFits, Quiet
  <2> QED
    BY <1>1, <1>5, <2>2 DEF ClockInv
<1>9. CASE cmd.op = "Step" /\ ~Replaying(core)
  <2>1. core' = core
    BY <1>2, <1>3, <1>9, HandleIs
  <2>3. earned' = earned /\ anchored' = anchored
    BY <1>1, <1>3, <1>9 DEF IInv
  <2>2. PlayheadFits' /\ ClockFits'
    BY <1>4, <2>1, <2>3 DEF ClockInv, PlayheadFits, ClockFits
  <2> QED
    BY <1>1, <1>5, <2>2 DEF ClockInv
<1>10. CASE cmd.op = "Step" /\ Replaying(core)
  <2> DEFINE x == Stepped(core, cmd.delta)
             m == Moved(x.src, core.simPrev)
             r == Swept(x.src, core.simPrev)
             e == cmd.delta * Scale
  <2>1. core' = StepBus(x, core.simPrev) /\ earned' = earned + e
    BY <1>2, <1>3, <1>10, HandleIs
  <2>2. cmd.delta \in Nat /\ e \in Nat
    BY <1>3, <1>10, CommandIs, LogAssumption
  <2>3. /\ x \in CoreRec /\ x.src \in Source /\ x.mode = "Replay"
        /\ x.simPrev = core.simPrev /\ x.src.last = None
        /\ x.src.pos = IF core.src.pos = Inf THEN Inf ELSE core.src.pos + e
    <3>1. Sound(core) /\ core.mode = "Replay"
      BY <1>2, <1>10 DEF Replaying
    <3>2. /\ Sound(x) /\ x.mode = core.mode /\ x.simPrev = core.simPrev /\ x.src.last = None
          /\ x.src.pos = IF core.src.pos = Inf THEN Inf ELSE core.src.pos + cmd.delta * Scale
      BY <3>1, <2>2, SteppedIs
    <3> HIDE DEF x
    <3>3. x \in CoreRec /\ x.src \in Source
      BY <3>2 DEF Sound, CoreRec
    <3> QED
      BY <3>1, <3>2, <3>3
  <2> HIDE DEF x, e
  <2>4. m.pos = IF x.src.speed = Inf \/ x.src.pos = Inf THEN Inf
                ELSE x.src.pos + 0 * x.src.speed
    BY <1>2, <2>3, MovedIs
  <2>5. r.pos = m.pos /\ r \in Source
    BY <1>2, <2>3, SweptIs
  <2> HIDE DEF m
  <2>6. /\ core'.mode = "Replay" /\ core'.simPrev = core.simPrev
        /\ core'.src = r \/ core'.src = SetPollLimit(r, None)
    BY <1>2, <2>1, <2>3, StepBusIs
  <2>7. SetPollLimit(r, None).pos = r.pos
    BY <2>5, SetPollLimitIs
  <2> HIDE DEF r
  <2>8. core'.src.pos = r.pos
    BY <2>6, <2>7
  <2>9. ASSUME core'.src.pos # Inf
        PROVE  /\ core.src.pos \in Nat /\ core'.src.pos = core.src.pos + e
    <3>1. x.src.speed # Inf /\ x.src.pos # Inf /\ r.pos = x.src.pos + 0 * x.src.speed
      BY <2>4, <2>5, <2>8, <2>9
    <3>2. core.src.pos # Inf /\ x.src.pos = core.src.pos + e /\ core.src.pos \in Nat
      BY <1>2, <2>3, <3>1
    <3>3. x.src.speed \in Nat
      BY <2>3, <3>1, LogAssumption, ControlAssumption DEF Source
    <3>4. 0 * x.src.speed = 0
      BY <3>3
    <3> QED
      BY <2>2, <2>8, <3>1, <3>2, <3>4
  <2>10. core.mode = "Replay" /\ core.measuring /\ core.src.last # None
    BY <1>3, <1>10 DEF ClockInv, Replaying
  <2>11. PlayheadFits'
    <3> SUFFICES ASSUME core'.src.pos # Inf
                 PROVE  /\ core'.src.pos <= earned'
                        /\ core'.src.pos + (Until - core.simPrev) * Fastest <= earned'
      BY <1>4, <2>6 DEF PlayheadFits
    <3> DEFINE k == (Until - core.simPrev) * Fastest
    <3>1. k \in Nat
      BY <1>2, FastestIs, SMTT(40)
    <3>2. core.src.pos + k <= earned
      BY <2>9, <2>10, LogAssumption DEF ClockInv, PlayheadFits
    <3> HIDE DEF k
    <3>3. core'.src.pos + k <= earned'
      BY <1>2, <2>1, <2>2, <2>9, <3>1, <3>2, SMTT(40)
    <3> QED
      BY <1>2, <2>1, <2>2, <2>9, <3>1, <3>2, <3>3, SMTT(40) DEF k
  <2>12. ClockFits'
    BY <2>6 DEF ClockFits
  <2> QED
    BY <1>1, <1>5, <2>11, <2>12 DEF ClockInv
<1>11. cmd.op \in {"StartVirtual", "StartReplay", "Step"}
       \/ cmd.op \notin {"StartVirtual", "StartReplay", "Step"}
  OBVIOUS
<1> QED
  BY <1>6, <1>7, <1>8, <1>9, <1>10, <1>11

LEMMA ClockQueueEmpty ==
    ASSUME ClockInv, QueueEmpty PROVE ClockInv'
<1>1. IInv /\ IInv'
  BY InvQueueEmpty DEF ClockInv
<1>2. inbox' = inbox /\ core' = core /\ ~anchored'
  BY DEF QueueEmpty
<1>3. First("Step")' /\ (inbox' # << >> /\ inbox'[1].op = "Step" => core'.src.last # None)
  BY <1>2 DEF ClockInv, First
<1>4. /\ core.mode \in Modes /\ core.src.pos \in Nat \cup {Inf} /\ core.simPrev \in Nat
      /\ Fastest \in Nat /\ core.sim \in Nat /\ earned \in Nat
  BY <1>1, ClockTypes, FastestIs
<1>5. CASE anchored
  <2>1. Until' = 0 /\ core.simPrev = 0
    BY <1>1, <1>5, LogAssumption DEF QueueEmpty, Until, IInv
  <2>2. (Until' - core.simPrev) * Fastest = 0 /\ Until' - core.simPrev = 0
    BY <1>4, <2>1
  <2>3. PlayheadFits'
    <3> SUFFICES ASSUME core.mode = "Replay", core.src.pos # Inf
                 PROVE  /\ core.src.pos <= earned'
                        /\ core.src.pos + (Until' - core.simPrev) * Fastest <= earned'
      BY <1>2 DEF PlayheadFits
    <3>1. earned' = earned
      BY DEF QueueEmpty
    <3>2. core.src.pos <= earned /\ core.src.pos \in Nat
      BY <1>4 DEF ClockInv, PlayheadFits
    <3> QED
      BY <1>4, <2>2, <3>1, <3>2
  <2>4. ClockFits'
    <3> SUFFICES ASSUME core.mode = "Virtual"
                 PROVE  /\ core.sim <= earned'
                        /\ core.sim + (Until' - core.simPrev) <= earned'
      BY <1>2 DEF ClockFits
    <3>1. core.sim = 0 /\ earned' = 0
      BY <1>5 DEF QueueEmpty, ClockInv, ClockFits
    <3> QED
      BY <2>2, <3>1
  <2> QED
    BY <1>1, <1>3, <2>3, <2>4 DEF ClockInv
<1>6. CASE ~anchored
  <2>1. Until' = Until /\ earned' = earned
    BY <1>6 DEF QueueEmpty, Until
  <2>2. PlayheadFits' /\ ClockFits'
    BY <1>2, <1>6, <2>1 DEF ClockInv, PlayheadFits, ClockFits
  <2> QED
    BY <1>1, <1>3, <2>2 DEF ClockInv
<1> QED
  BY <1>5, <1>6

LEMMA ClockLapStep ==
    ASSUME ClockInv, LapStep PROVE ClockInv'
<1> DEFINE b == Lapped(core, pausedAt, clock)
           k == Until - core.simPrev
<1>1. IInv /\ IInv'
  BY InvLapStep DEF ClockInv
<1>2. /\ core' = StepBus(b, clock) /\ pausedAt' = None /\ clock' = clock
      /\ inbox' = inbox /\ anchored' = anchored /\ earned' = earned
      /\ core.measuring /\ ~anchored
  BY <1>1 DEF LapStep, Lapped, IInv
<1>3. /\ Sound(core) /\ InStep(core) /\ core.pausedAtUs = None
      /\ core.src.pos \in Nat \cup {Inf} /\ core.sim \in Nat /\ core.simPrev \in Nat
      /\ core.src.last \in Nat \cup {None} /\ core.mode \in Modes
      /\ Until \in Nat /\ core.simPrev <= Until
      /\ clock \in Nat /\ pausedAt \in Nat \cup {None} /\ (pausedAt # None => pausedAt <= clock)
      /\ earned \in Nat
  BY <1>1, ClockTypes
<1>4. /\ Sound(b) /\ b.mode = core.mode /\ b.simPrev = clock
      /\ b.src.pos = core.src.pos /\ b.src.speed = core.src.speed
      /\ b.src.last = IF core.src.last = None \/ pausedAt = None THEN core.src.last
                      ELSE core.src.last + Monus(clock, pausedAt)
      /\ b.sim = IF core.mode = "Replay" THEN core.sim
                 ELSE core.sim + (IF pausedAt = None
                                  THEN Monus(clock, core.simPrev) ELSE Monus(clock, clock))
  <2>1. /\ Sound(core) /\ core.pausedAtUs = None
        /\ pausedAt \in Nat \cup {None} /\ clock \in Nat
    BY <1>3
  <2> QED
    <3>1. /\ Sound(b) /\ b.pausedAtUs = None /\ b.simPrev = clock
          /\ b.mode = core.mode /\ b.injected = core.injected
          /\ b.measuring = core.measuring /\ b.paused = core.paused /\ b.stopAt = core.stopAt
          /\ b.src.pos = core.src.pos /\ b.src.speed = core.src.speed
          /\ b.src.can = core.src.can /\ b.src.fr = core.src.fr /\ b.src.eth = core.src.eth
          /\ b.src.limit = core.src.limit
          /\ b.src.last = IF core.src.last = None \/ pausedAt = None THEN core.src.last
                          ELSE core.src.last + Monus(clock, pausedAt)
          /\ b.sim = IF core.mode = "Replay" THEN core.sim
                     ELSE core.sim + (IF pausedAt = None
                                      THEN Monus(clock, core.simPrev) ELSE Monus(clock, clock))
      BY <2>1, LappedIs
    <3> HIDE DEF b
    <3> QED
      BY <3>1
<1> HIDE DEF b
<1>5. b \in CoreRec /\ b.src \in Source /\ k \in Nat
  BY <1>3, <1>4 DEF Sound, CoreRec
<1>6. Until' = clock
  BY <1>2 DEF Until
<1>7. core.src.last # None => b.src.last # None
  BY <1>3, <1>4, LogAssumption, SMTT(40) DEF Monus
<1>8. CASE core.mode = "Virtual"
  <2>1. /\ core'.mode = "Virtual" /\ core'.src = b.src /\ core'.sim = b.sim
        /\ core'.simPrev = clock
    BY <1>2, <1>4, <1>5, <1>8 DEF StepBus, CoreRec
  <2>2. core.sim + k <= earned
    BY <1>2, <1>8 DEF ClockInv, ClockFits
  <2>3. b.sim <= core.sim + k
    BY <1>3, <1>4, <1>8 DEF Monus, Until
  <2>4. b.sim \in Nat
    BY <1>5 DEF CoreRec
  <2>5. ClockFits'
    BY <1>2, <1>3, <1>5, <1>6, <2>1, <2>2, <2>3, <2>4 DEF ClockFits
  <2>6. PlayheadFits'
    BY <2>1 DEF PlayheadFits
  <2>7. First("Step")' /\ (inbox' # << >> /\ inbox'[1].op = "Step" => core'.src.last # None)
    BY <1>2, <1>7, <2>1 DEF ClockInv, First
  <2> QED
    BY <1>1, <2>5, <2>6, <2>7 DEF ClockInv
<1>9. CASE core.mode = "Replay"
  <2> DEFINE since == IF b.src.last = None THEN 0 ELSE Monus(clock, b.src.last)
             m == Moved(b.src, clock)
             r == Swept(b.src, clock)
  <2>1. m.pos = IF b.src.speed = Inf \/ b.src.pos = Inf THEN Inf
                ELSE b.src.pos + since * b.src.speed
    BY <1>3, <1>5, MovedIs
  <2>2. r.pos = m.pos /\ r \in Source /\ r.last = clock
    BY <1>3, <1>5, SweptIs
  <2> HIDE DEF m
  <2>3. /\ core'.mode = "Replay" /\ core'.simPrev = clock
        /\ core'.src = r \/ core'.src = SetPollLimit(r, None)
    <3>1. /\ b \in CoreRec /\ b.mode = "Replay" /\ b.simPrev = clock /\ clock \in Nat
          /\ core' = StepBus(b, clock)
      BY <1>2, <1>3, <1>4, <1>5, <1>9
    <3> QED
      BY <3>1, StepBusIs
  <2>4. SetPollLimit(r, None).pos = r.pos /\ SetPollLimit(r, None).last = r.last
    BY <2>2, SetPollLimitIs
  <2> HIDE DEF r
  <2>5. core'.src.pos = m.pos /\ core'.src.last = clock
    BY <2>2, <2>3, <2>4
  <2>6. since = IF core.src.last = None THEN 0 ELSE k
    BY <1>3, <1>4, <1>7, <1>9 DEF InStep, Monus, Until
  <2>7. ASSUME m.pos # Inf
        PROVE  core'.src.pos \in Nat /\ core'.src.pos <= earned
    <3>1. /\ b.src.speed # Inf /\ b.src.pos # Inf
          /\ m.pos = core.src.pos + since * b.src.speed /\ core.src.pos \in Nat
      BY <1>3, <1>4, <2>1, <2>7
    <3>2. b.src.speed \in Nat /\ b.src.speed <= Fastest /\ Fastest \in Nat
      BY <1>5, <3>1, FastestIs DEF Source
    <3>3. core.src.pos <= earned
      BY <1>4, <1>9, <3>1 DEF ClockInv, PlayheadFits
    <3> HIDE DEF k, since
    <3>4. CASE core.src.last = None
      <4>1. since * b.src.speed = 0
        BY <2>6, <3>2, <3>4
      <4> QED
        BY <2>5, <3>1, <3>3, <4>1
    <3>5. CASE core.src.last # None
      <4>1. core.src.pos + k * Fastest <= earned
        BY <1>2, <1>4, <1>9, <3>1, <3>5 DEF ClockInv, PlayheadFits, k
      <4>2. k * b.src.speed <= k * Fastest /\ k * b.src.speed \in Nat /\ k * Fastest \in Nat
        BY <1>5, <3>2
      <4> QED
        BY <1>3, <2>5, <2>6, <3>1, <3>5, <4>1, <4>2
    <3> QED
      BY <3>4, <3>5
  <2>8. PlayheadFits'
    <3> SUFFICES ASSUME core'.src.pos # Inf
                 PROVE  /\ core'.src.pos <= earned
                        /\ core'.src.pos + (clock - clock) * Fastest <= earned
      BY <1>2, <1>6, <2>3 DEF PlayheadFits
    <3>1. core'.src.pos \in Nat /\ core'.src.pos <= earned
      BY <2>5, <2>7
    <3>2. (clock - clock) * Fastest = 0
      BY <1>3, FastestIs
    <3> QED
      BY <1>3, <3>1, <3>2
  <2>9. ClockFits'
    BY <2>3 DEF ClockFits
  <2>10. First("Step")' /\ (inbox' # << >> /\ inbox'[1].op = "Step" => core'.src.last # None)
    BY <1>2, <1>3, <2>5, LogAssumption DEF ClockInv, First
  <2> QED
    BY <1>1, <2>8, <2>9, <2>10 DEF ClockInv
<1> QED
  BY <1>3, <1>8, <1>9 DEF Modes

LEMMA ClockNext ==
    ASSUME ~EarlyStep, ClockInv, [Next]_vars
    PROVE  ClockInv'
<1>1. IInv /\ IInv' /\ inbox \in Seq(Commands)
  BY InvNext DEF ClockInv, IInv
<1>2. ASSUME UNCHANGED <<clock, pausedAt, anchored, core, earned>>,
             First("Step")' /\ (inbox' # << >> /\ inbox'[1].op = "Step" => core.src.last # None)
      PROVE  ClockInv'
  <2>1. Until' = Until
    BY <1>2 DEF Until
  <2>2. PlayheadFits' /\ ClockFits'
    BY <1>2, <2>1 DEF ClockInv, PlayheadFits, ClockFits
  <2> QED
    BY <1>1, <1>2, <2>2 DEF ClockInv
<1>3. ASSUME UNCHANGED <<clock, pausedAt, anchored, core, earned, inbox>> PROVE ClockInv'
  <2>1. First("Step")' /\ (inbox' # << >> /\ inbox'[1].op = "Step" => core.src.last # None)
    BY <1>3 DEF ClockInv, First
  <2> QED
    BY <1>2, <1>3, <2>1
<1>4. CASE Tick
  BY <1>4, ClockTick
<1>5. CASE Wake
  BY <1>3, <1>5 DEF Wake
<1>6. CASE Apply
  BY <1>6, ClockApply
<1>7. CASE QueueEmpty
  BY <1>7, ClockQueueEmpty
<1>8. CASE LapStep
  BY <1>8, ClockLapStep
<1>9. CASE LapPaused
  <2>1. /\ UNCHANGED <<clock, inbox, anchored, core, earned>>
        /\ pausedAt' = IF pausedAt = None THEN clock ELSE pausedAt
    BY <1>9 DEF LapPaused
  <2>2. clock # None
    BY <1>1, ClockTypes, LogAssumption
  <2>3. Until' = Until
    BY <2>1, <2>2 DEF Until
  <2>4. PlayheadFits' /\ ClockFits'
    BY <2>1, <2>3 DEF ClockInv, PlayheadFits, ClockFits
  <2>5. First("Step")' /\ (inbox' # << >> /\ inbox'[1].op = "Step" => core'.src.last # None)
    BY <2>1 DEF ClockInv, First
  <2> QED
    BY <1>1, <2>4, <2>5 DEF ClockInv
<1>10. CASE LapIdle
  BY <1>3, <1>10 DEF LapIdle
<1>11. ASSUME NEW cmd \in Commands, Post(cmd) PROVE ClockInv'
  <2>1. inbox' = Append(inbox, cmd) /\ UNCHANGED <<clock, pausedAt, anchored, core, earned>>
    BY <1>11 DEF Post
  <2>2. cmd.op = "Step" => inbox = << >> /\ core.src.last # None
    BY <1>11 DEF Post
  <2>3. /\ First("Step")'
        /\ inbox'[1].op = "Step" =>
             cmd.op = "Step" \/ (inbox # << >> /\ inbox[1].op = "Step")
    BY <1>1, <2>1, <2>2, FirstPosted DEF ClockInv
  <2>4. inbox'[1].op = "Step" => core.src.last # None
    BY <2>2, <2>3 DEF ClockInv
  <2> QED
    BY <1>2, <2>1, <2>3, <2>4
<1>12. CASE UNCHANGED vars
  BY <1>3, <1>12 DEF vars
<1> QED
  BY <1>4, <1>5, <1>6, <1>7, <1>8, <1>9, <1>10, <1>11, <1>12 DEF Next

\* No clock of a run counts time the run did not have: a frozen span is
\* skipped, whatever the pauses, restarts, speeds and steps, as long as no step
\* by hand is queued behind the start of the replay it belongs to.
THEOREM ClocksAreHonest == ~EarlyStep /\ Spec => []ClocksHonest
<1>1. CASE ~EarlyStep
  <2>1. ClockInv /\ [Next]_vars => ClockInv'
    BY <1>1, ClockNext
  <2>2. ClockInv => ClocksHonest
    BY DEF ClockInv, PlayheadFits, ClockFits, ClocksHonest, NoFreeTime, VirtualClockHonest
  <2> QED
    BY <2>1, <2>2, ClockInit, PTL DEF Spec
<1> QED
  BY <1>1

=============================================================================
