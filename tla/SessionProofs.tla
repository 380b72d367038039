---------------------------- MODULE SessionProofs ----------------------------
(***************************************************************************)
(* Four parts of a session.  What is left of "a trigger and the Dropped    *)
(* verdict can never disagree", over any pauses, replays and switches of   *)
(* the rule.  What is put together of IP fragments and SOME/IP-TP segments *)
(* is whole, and the messages of a TCP stream come out once and in order,  *)
(* whatever arrives, how often and in which order.  A PDU of the network   *)
(* management sleeps when it has earned it.  A SOME/IP request ends in one *)
(* way, and a notification goes where it was asked for.  All for every     *)
(* period, set of datagrams, stream of messages, window of sequence        *)
(* numbers, timing, call and script.                                       *)
(***************************************************************************)
EXTENDS Silence, Reassembly, NetworkManagement, SomeIp,
        FiniteSetTheorems, FunctionTheorems, NaturalsInduction, WellFoundedInduction, TLAPS

\* A virtual run that no pause holds up has stepped up to the wall clock; and
\* where the clocks agree, a rule that watched the message since it was last
\* alive holds it silent only if the watch reports it dropped.
IInv ==
    /\ TypeOK
    /\ simPrev <= wall
    /\ mode = "Virtual" /\ pausedAt = None => simPrev = wall
    /\ mode = "Virtual" /\ sim = wall /\ watched /\ level => missing

\* A silence on an earlier clock is one on a later clock.
LEMMA SilenceGrows ==
    ASSUME NEW s \in Nat, NEW w \in Nat, s <= w, NEW heard \in Nat \cup {None},
           Missing(s, heard)
    PROVE  TimeoutSilent(w, heard)
<1>1. heard \in Nat /\ Declared # 0 /\ s > heard + Declared * Grace
  BY DEF Missing
<1>2. Declared * Grace \in Nat
  BY SilenceAssumption
<1>3. w > heard + Declared * Grace
  BY <1>1, <1>2
<1> QED
  BY <1>1, <1>3, SilenceAssumption DEF TimeoutSilent, Missing

\* The clocks after a lap that steps.
LEMMA LapClocks ==
    ASSUME IInv, NEW d \in Strides, NEW clock \in sim .. sim + d,
           NEW stamp \in (sim .. sim + d) \cup {None}, Lap(d, clock, stamp)
    PROVE  /\ wall' = wall + d /\ wall' \in 0 .. MaxWall /\ simPrev' = wall' /\ pausedAt' = None
           /\ sim' \in Nat /\ sim' >= sim
           /\ mode = "Virtual" => sim' <= wall'
           /\ mode = "Virtual" /\ sim' = wall' /\ wall' > wall => sim = wall
           /\ last' \in Nat \cup {None} /\ (last' # None => last' <= sim')
<1>1. /\ d \in Nat /\ wall \in Nat /\ sim \in Nat /\ simPrev \in Nat /\ simPrev <= wall
      /\ mode = "Virtual" => sim <= simPrev
      /\ mode = "Virtual" /\ pausedAt = None => simPrev = wall
      /\ last \in Nat \cup {None} /\ (last # None => last <= sim) /\ MaxWall \in Nat
      /\ None \notin Nat
  BY SilenceAssumption DEF IInv, TypeOK
<1>2. /\ wall' = wall + d /\ wall + d <= MaxWall /\ simPrev' = wall + d /\ pausedAt' = None
      /\ sim' = IF mode = "Replay" THEN clock ELSE Advanced(wall + d)
      /\ stamp # None => stamp \in sim .. sim'
      /\ last' = IF stamp = None THEN last ELSE stamp
  BY DEF Lap
<1>3. mode \in {"Virtual", "Replay"}
  BY DEF IInv, TypeOK
<1>4. sim' \in Nat /\ sim' >= sim
  <2>1. CASE mode = "Replay"
    BY <1>1, <1>2, <2>1
  <2>2. CASE mode = "Virtual"
    BY <1>1, <1>2, <2>2 DEF Advanced
  <2> QED
    BY <1>3, <2>1, <2>2
<1>5. mode = "Virtual" => sim' <= wall'
  BY <1>1, <1>2 DEF Advanced
<1>6. ASSUME mode = "Virtual", sim' = wall', wall' > wall PROVE sim = wall
  <2>1. CASE pausedAt = None
    BY <1>1, <1>2, <1>6, <2>1 DEF Advanced
  <2>2. CASE pausedAt # None
    BY <1>1, <1>2, <1>6, <2>2 DEF Advanced
  <2> QED
    BY <2>1, <2>2
<1>7. last' \in Nat \cup {None} /\ (last' # None => last' <= sim')
  <2>1. CASE stamp = None
    BY <1>1, <1>2, <1>4, <2>1
  <2>2. CASE stamp # None
    BY <1>1, <1>2, <1>4, <2>2
  <2> QED
    BY <2>1, <2>2
<1> QED
  BY <1>1, <1>2, <1>4, <1>5, <1>6, <1>7

\* The verdicts of such a lap.
LEMMA LapVerdicts ==
    ASSUME NEW d \in Strides, NEW clock, NEW stamp, Lap(d, clock, stamp)
    PROVE  /\ missing' = (mode = "Virtual" /\ Missing(sim', last'))
           /\ level' = IF enabled THEN TimeoutSilent(wall', last') ELSE level
           /\ fired' = Fires(TimeoutSilent(wall', last'))
           /\ watched' = (enabled /\ (watched \/ ~TimeoutSilent(wall', last')))
           /\ UNCHANGED <<mode, measuring, paused, enabled>>
BY DEF Lap, Judge

LEMMA InvInit == Init => IInv
<1> SUFFICES ASSUME Init PROVE IInv
  OBVIOUS
<1>1. {measuring, paused, enabled, level, missing, fired, watched} \subseteq BOOLEAN /\ ~watched
  BY Zenon DEF Init
<1>2. /\ mode \in {"Virtual", "Replay"} /\ wall = 0 /\ sim = 0 /\ simPrev = 0
      /\ pausedAt = None /\ last = None
  BY DEF Init
<1>3. wall \in 0 .. MaxWall
  BY <1>2, SilenceAssumption
<1> QED
  BY <1>1, <1>2, <1>3 DEF IInv, TypeOK

LEMMA LapKeeps ==
    ASSUME IInv, NEW d \in Strides, NEW clock \in sim .. sim + d,
           NEW stamp \in (sim .. sim + d) \cup {None}, Lap(d, clock, stamp)
    PROVE  IInv'
<1>1. /\ missing' \in BOOLEAN /\ level' \in BOOLEAN /\ fired' \in BOOLEAN /\ watched' \in BOOLEAN
  <2>1. level \in BOOLEAN
    BY DEF IInv, TypeOK
  <2> QED
    BY <2>1, LapVerdicts DEF Fires, TimeoutSilent, Missing
<1>2. TypeOK'
  <2>1. /\ wall' \in 0 .. MaxWall /\ simPrev' = wall' /\ pausedAt' = None /\ sim' \in Nat
        /\ mode = "Virtual" => sim' <= wall'
        /\ last' \in Nat \cup {None} /\ (last' # None => last' <= sim')
    BY LapClocks
  <2>2. /\ watched' = (enabled /\ (watched \/ ~TimeoutSilent(wall', last')))
        /\ UNCHANGED <<mode, measuring, paused, enabled>>
    BY LapVerdicts
  <2> QED
    BY <1>1, <2>1, <2>2 DEF IInv, TypeOK
<1>3. simPrev' <= wall' /\ simPrev' = wall'
  BY LapClocks
<1>4. ASSUME mode' = "Virtual", sim' = wall', watched', level' PROVE missing'
  <2>1. enabled /\ TimeoutSilent(wall', last')
    BY <1>4, LapVerdicts
  <2>2. Missing(sim', last')
    BY <1>4, <2>1 DEF TimeoutSilent
  <2> QED
    BY <1>4, <2>2, LapVerdicts
<1> QED
  BY <1>2, <1>3, <1>4 DEF IInv

LEMMA InvNext == IInv /\ [Next]_vars => IInv'
<1> SUFFICES ASSUME IInv, [Next]_vars PROVE IInv'
  OBVIOUS
<1>0. wall \in Nat /\ simPrev \in Nat /\ sim \in Nat /\ MaxWall \in Nat
  BY SilenceAssumption DEF IInv, TypeOK
<1>1. CASE Stop
  BY <1>1 DEF Stop, IInv, TypeOK, clocks
<1>2. ASSUME NEW m \in {"Virtual", "Replay"}, Start(m) PROVE IInv'
  <2>1. /\ mode' = m /\ wall' = IF m = "Virtual" THEN 0 ELSE wall
        /\ sim' = 0 /\ simPrev' = 0 /\ pausedAt' = None /\ last' = None
    BY <1>2 DEF Start
  <2>2. /\ {measuring', paused', enabled', level', missing', fired', watched'} \subseteq BOOLEAN
        /\ ~watched'
    <3>1. enabled \in BOOLEAN /\ level \in BOOLEAN
      BY DEF IInv, TypeOK
    <3> QED
      BY <1>2, <3>1, Zenon DEF Start
  <2>3. wall' \in 0 .. MaxWall /\ wall' \in Nat
    BY <1>0, <2>1 DEF IInv, TypeOK
  <2>4. TypeOK'
    BY <2>1, <2>2, <2>3 DEF TypeOK
  <2> QED
    BY <1>0, <2>1, <2>2, <2>3, <2>4 DEF IInv
<1>3. ASSUME NEW on \in BOOLEAN, SetTracePaused(on) PROVE IInv'
  BY <1>3 DEF SetTracePaused, IInv, TypeOK, clocks
<1>4. ASSUME NEW on \in BOOLEAN, SetTriggerEnabled(on) PROVE IInv'
  BY <1>4 DEF SetTriggerEnabled, IInv, TypeOK, clocks
<1>5. ASSUME NEW d \in Strides, PausedLap(d) PROVE IInv'
  <2>1. /\ d \in Nat /\ wall' = wall + d /\ wall + d <= MaxWall
        /\ pausedAt' \in Nat /\ pausedAt' # None
        /\ UNCHANGED <<mode, measuring, paused, sim, simPrev, last, enabled, level, missing,
                       fired, watched>>
    BY <1>0, <1>5, SilenceAssumption DEF PausedLap, IInv, TypeOK
  <2>2. TypeOK'
    BY <1>0, <2>1 DEF IInv, TypeOK
  <2>3. simPrev' <= wall'
    BY <1>0, <2>1 DEF IInv
  <2>4. ASSUME mode' = "Virtual", sim' = wall', watched', level' PROVE missing'
    <3>1. sim <= simPrev /\ simPrev <= wall
      BY <2>1, <2>4 DEF IInv, TypeOK
    <3>2. sim = wall
      BY <1>0, <2>1, <2>4, <3>1
    <3> QED
      BY <2>1, <2>4, <3>2 DEF IInv
  <2> QED
    BY <2>1, <2>2, <2>3, <2>4 DEF IInv
<1>6. ASSUME NEW d \in Strides, NEW clock \in sim .. sim + d,
             NEW stamp \in (sim .. sim + d) \cup {None}, Lap(d, clock, stamp)
      PROVE  IInv'
  BY <1>6, LapKeeps
<1>7. CASE UNCHANGED vars
  BY <1>7 DEF vars, clocks, IInv, TypeOK
<1> QED
  BY <1>1, <1>2, <1>3, <1>4, <1>5, <1>6, <1>7 DEF Next

\* The clock of a virtual run is never ahead of the wall clock, and no frame
\* ahead of the clock.
THEOREM TypeCorrect == Spec => []TypeOK
<1>1. IInv => TypeOK
  BY DEF IInv
<1> QED
  BY <1>1, InvInit, InvNext, PTL DEF Spec

-----------------------------------------------------------------------------
(* The verdicts.                                                           *)

\* Only a lap that steps moves the wall clock of a run that is not paused.
LEMMA JudgedIsLap ==
    ASSUME IInv, [Next]_vars, Judged
    PROVE  \E d \in Strides :
              \E clock \in sim .. sim + d, stamp \in (sim .. sim + d) \cup {None} :
                  Lap(d, clock, stamp)
<1>0. wall \in Nat /\ wall' > wall /\ ~paused
  BY DEF IInv, TypeOK, Judged
<1>1. ASSUME NEW m \in {"Virtual", "Replay"}, Start(m) PROVE FALSE
  BY <1>0, <1>1 DEF Start
<1>2. ~Stop /\ ~UNCHANGED vars
  BY <1>0 DEF Stop, vars, clocks
<1>3. ASSUME NEW on \in BOOLEAN, SetTracePaused(on) \/ SetTriggerEnabled(on) PROVE FALSE
  BY <1>0, <1>3 DEF SetTracePaused, SetTriggerEnabled, clocks
<1>4. ASSUME NEW d \in Strides, PausedLap(d) PROVE FALSE
  BY <1>0, <1>4 DEF PausedLap
<1> QED
  BY <1>1, <1>2, <1>3, <1>4 DEF Next

LEMMA StepVerdicts ==
    ASSUME IInv, [Next]_vars, Judged
    PROVE  /\ missing' => level'
           /\ OneClock => level' = missing'
           /\ OneClock /\ watched /\ ~missing /\ missing' => fired'
<1>1. PICK d \in Strides :
          \E clock \in sim .. sim + d, stamp \in (sim .. sim + d) \cup {None} :
              Lap(d, clock, stamp)
  BY JudgedIsLap
<1>2. PICK clock \in sim .. sim + d, stamp \in (sim .. sim + d) \cup {None} :
          Lap(d, clock, stamp)
  BY <1>1
<1>3. enabled /\ wall' > wall
  BY DEF Judged
<1>4. /\ missing' = (mode = "Virtual" /\ Missing(sim', last'))
      /\ level' = TimeoutSilent(wall', last')
      /\ fired' = Fires(TimeoutSilent(wall', last'))
  BY <1>2, <1>3, LapVerdicts
<1>5. /\ sim' \in Nat /\ wall' \in Nat /\ last' \in Nat \cup {None}
      /\ mode = "Virtual" => sim' <= wall'
      /\ mode = "Virtual" /\ sim' = wall' => sim = wall
  BY <1>2, <1>3, LapClocks
<1>6. missing' => level'
  BY <1>4, <1>5, SilenceGrows
<1>7. ASSUME OneClock PROVE level' = missing'
  <2>1. mode = "Virtual" /\ sim' = wall'
    BY <1>7 DEF OneClock
  <2>2. missing' = Missing(sim', last')
    BY <1>4, <2>1 DEF Missing
  <2>3. level' = Missing(sim', last')
    BY <1>4, <2>1 DEF TimeoutSilent
  <2> QED
    BY <2>2, <2>3
<1>8. ASSUME OneClock, watched, ~missing, missing' PROVE fired'
  <2>1. mode = "Virtual" /\ sim = wall
    BY <1>5, <1>8 DEF OneClock
  <2>2. ~level
    BY <1>8, <2>1 DEF IInv
  <2>3. TimeoutSilent(wall', last')
    BY <1>4, <1>6, <1>8
  <2> QED
    BY <1>3, <1>4, <2>2, <2>3 DEF Fires
<1> QED
  BY <1>6, <1>7, <1>8

\* In every step whose clocks agree the rule and the watch agree.
THEOREM AgreeWhereClocksDo == Spec => AgreeOnOneClock
<1>1. IInv /\ [Next]_vars => [Judged /\ OneClock => level' = missing']_vars
  BY StepVerdicts
<1> QED
  BY <1>1, InvInit, InvNext, PTL DEF Spec, AgreeOnOneClock

\* What the watch reports dropped the rule holds silent, whatever happened to
\* the clocks.
THEOREM RuleCovers == Spec => RuleCoversWatch
<1>1. IInv /\ [Next]_vars => [Judged /\ missing' => level']_vars
  BY StepVerdicts
<1> QED
  BY <1>1, InvInit, InvNext, PTL DEF Spec, RuleCoversWatch

\* The verdict of the rule and the one of the watch fit together as far as the
\* two theorems above say.
THEOREM VerdictsFitTogether == Spec => VerdictsFit
BY AgreeWhereClocksDo, RuleCovers, PTL DEF VerdictsFit

\* No new dropout goes by without the rule firing.
THEOREM EveryDropoutFires == Spec => DropoutFires
<1>1. IInv /\ [Next]_vars =>
          [Judged /\ OneClock /\ watched /\ ~missing /\ missing' => fired']_vars
  BY StepVerdicts
<1> QED
  BY <1>1, InvInit, InvNext, PTL DEF Spec, DropoutFires

-----------------------------------------------------------------------------
\* Every set of naturals that is not empty has a least element.
LEMMA LeastNat ==
    ASSUME NEW S \in SUBSET Nat, S # {}
    PROVE  \E m \in S : \A n \in S : m <= n
<1> DEFINE R == {ss \in Nat \X Nat : ss[1] < ss[2]}
<1>1. IsWellFoundedOn(R, Nat)
  BY NatLessThanWellFounded DEF OpToRel
<1>2. \A x, y \in Nat : x < y => <<x, y>> \in R
  OBVIOUS
<1> HIDE DEF R
<1>3. PICK m \in S : \A n \in S : ~(<<n, m>> \in R)
  BY <1>1, WFMin
<1>4. ASSUME NEW n \in S PROVE m <= n
  <2>1. ~(n < m)
    BY <1>2, <1>3
  <2> QED
    BY <2>1
<1> QED
  BY <1>4

\* A set of naturals with a bound and a member has a largest one.
LEMMA LargestNat ==
    ASSUME NEW S \in SUBSET Nat, S # {}, NEW bound \in Nat, \A n \in S : n <= bound
    PROVE  \E m \in S : \A n \in S : n <= m
<1> DEFINE U == {u \in Nat : \A n \in S : n <= u}
<1>1. PICK m \in U : \A u \in U : m <= u
  <2>1. U \in SUBSET Nat /\ U # {}
    OBVIOUS
  <2> HIDE DEF U
  <2> QED
    BY <2>1, LeastNat
<1>2. PICK s \in S : TRUE
  OBVIOUS
<1>3. m \in S
  <2> SUFFICES ASSUME m \notin S PROVE FALSE
    OBVIOUS
  <2>1. m \in Nat /\ \A n \in S : n \in Nat /\ n <= m /\ n # m
    BY <1>1
  <2>2. m - 1 \in Nat
    BY <1>2, <2>1
  <2>3. \A n \in S : n <= m - 1
    BY <2>1
  <2>4. m - 1 \in U
    BY <2>2, <2>3
  <2> HIDE DEF U
  <2> QED
    BY <1>1, <2>1, <2>4
<1> QED
  BY <1>1, <1>3

-----------------------------------------------------------------------------
(* The pieces of a flow.                                                     *)

\* Every piece is cut, where it lies, out of a datagram of the flow, and the
\* pieces end somewhere.
PiecesOf(key, pieces) ==
    /\ DOMAIN pieces \subseteq Nat
    /\ \A at \in DOMAIN pieces : \E d \in Datagrams : \E to \in 1 .. Size[d] :
          Key[d] = key /\ at < to /\ pieces[at] = Cut(d, at, to)
    /\ \E bound \in Nat : \A at \in DOMAIN pieces : End(pieces, at) <= bound

LEMMA CutShape ==
    ASSUME NEW d, NEW from \in Nat, NEW to \in Nat, from < to
    PROVE  /\ Len(Cut(d, from, to)) = to - from
           /\ \A k \in 1 .. to - from : Cut(d, from, to)[k] = Unit(d, from + k - 1)
<1>1. to - from \in Nat
  OBVIOUS
<1> QED
  BY <1>1 DEF Cut

\* Where a piece ends, and what it holds.
LEMMA PieceShape ==
    ASSUME NEW key, NEW pieces, PiecesOf(key, pieces), NEW at \in DOMAIN pieces
    PROVE  /\ at \in Nat /\ End(pieces, at) \in Nat /\ at < End(pieces, at)
           /\ \E d \in Datagrams :
                /\ Key[d] = key
                /\ End(pieces, at) <= Size[d]
                /\ \A k \in 1 .. End(pieces, at) - at : pieces[at][k] = Unit(d, at + k - 1)
<1>1. at \in Nat
  BY DEF PiecesOf
<1>d. PICK d \in Datagrams : \E to \in 1 .. Size[d] :
          Key[d] = key /\ at < to /\ pieces[at] = Cut(d, at, to)
  BY DEF PiecesOf
<1>2. PICK to \in 1 .. Size[d] : Key[d] = key /\ at < to /\ pieces[at] = Cut(d, at, to)
  BY <1>d
<1>3. Size[d] \in Nat /\ to \in Nat /\ to <= Size[d]
  BY ReassemblyAssumption
<1>4. End(pieces, at) = to
  <2>1. Len(pieces[at]) = to - at
    BY <1>1, <1>2, <1>3, CutShape
  <2>2. at + (to - at) = to
    BY <1>1, <1>3
  <2> QED
    BY <2>1, <2>2 DEF End
<1>5. \A k \in 1 .. to - at : pieces[at][k] = Unit(d, at + k - 1)
  BY <1>1, <1>2, <1>3, CutShape, SMTT(40)
<1> QED
  BY <1>1, <1>2, <1>3, <1>4, <1>5

\* The pieces with one more among them.
LEMMA PieceAdded ==
    ASSUME NEW key, NEW pieces, PiecesOf(key, pieces),
           NEW d \in Datagrams, Key[d] = key, NEW from \in Nat, NEW to \in 1 .. Size[d], from < to
    PROVE  PiecesOf(key, [at \in DOMAIN pieces \cup {from} |->
                             IF at = from THEN Cut(d, from, to) ELSE pieces[at]])
<1> DEFINE more == [at \in DOMAIN pieces \cup {from} |->
                      IF at = from THEN Cut(d, from, to) ELSE pieces[at]]
<1>1. /\ DOMAIN more = DOMAIN pieces \cup {from} /\ more[from] = Cut(d, from, to)
      /\ \A at \in DOMAIN pieces \ {from} : more[at] = pieces[at]
  OBVIOUS
<1> HIDE DEF more
<1>2. DOMAIN more \subseteq Nat
  BY <1>1 DEF PiecesOf
<1>3. to \in Nat
  BY ReassemblyAssumption
<1>4. ASSUME NEW at \in DOMAIN more
      PROVE  \E e \in Datagrams : \E end \in 1 .. Size[e] :
                Key[e] = key /\ at < end /\ more[at] = Cut(e, at, end)
  <2>1. CASE at = from
    BY <1>1, <2>1
  <2>2. CASE at # from
    <3>1. at \in DOMAIN pieces /\ more[at] = pieces[at]
      BY <1>1, <2>2
    <3> QED
      BY <3>1 DEF PiecesOf
  <2> QED
    BY <2>1, <2>2
<1>5. PICK bound \in Nat : \A at \in DOMAIN pieces : End(pieces, at) <= bound
  BY DEF PiecesOf
<1> DEFINE top == IF to <= bound THEN bound ELSE to
<1>6. top \in Nat /\ bound <= top /\ to <= top
  BY <1>3
<1> HIDE DEF top
<1>7. ASSUME NEW at \in DOMAIN more PROVE End(more, at) <= top
  <2>1. CASE at = from
    <3>1. Len(more[from]) = to - from
      BY <1>1, <1>3, CutShape
    <3> QED
      BY <1>3, <1>6, <2>1, <3>1 DEF End
  <2>2. CASE at # from
    <3>1. at \in DOMAIN pieces /\ End(more, at) = End(pieces, at)
      BY <1>1, <2>2 DEF End
    <3>2. End(pieces, at) \in Nat
      BY <3>1, PieceShape
    <3> QED
      BY <1>5, <1>6, <3>1, <3>2
  <2> QED
    BY <2>1, <2>2
<1>8. PiecesOf(key, more)
  BY <1>2, <1>4, <1>6, <1>7 DEF PiecesOf
<1> QED
  BY <1>8 DEF more

\* How far the pieces reach.
LEMMA ReachIsLast ==
    ASSUME NEW key, NEW pieces, PiecesOf(key, pieces), DOMAIN pieces # {}
    PROVE  /\ Reach(pieces) \in Nat
           /\ \A at \in DOMAIN pieces : End(pieces, at) <= Reach(pieces)
           /\ \E at \in DOMAIN pieces : End(pieces, at) = Reach(pieces)
<1> DEFINE ends == {End(pieces, at) : at \in DOMAIN pieces}
<1>1. ends \in SUBSET Nat /\ ends # {}
  BY PieceShape
<1>2. PICK bound \in Nat : \A n \in ends : n <= bound
  BY DEF PiecesOf
<1>3. \E m \in ends : \A n \in ends : n <= m
  <2> HIDE DEF ends
  <2> QED
    BY <1>1, <1>2, LargestNat
<1>4. \E m \in ends : \A at \in DOMAIN pieces : End(pieces, at) <= m
  BY <1>3
<1>5. Reach(pieces) = CHOOSE m \in ends : \A at \in DOMAIN pieces : End(pieces, at) <= m
  BY DEF Reach
<1>6. Reach(pieces) \in ends /\ \A at \in DOMAIN pieces : End(pieces, at) <= Reach(pieces)
  <2> HIDE DEF ends
  <2> QED
    BY <1>4, <1>5
<1> QED
  BY <1>1, <1>6

\* Without a hole every unit up to the reach lies in a piece.
LEMMA Covered ==
    ASSUME NEW key, NEW pieces, PiecesOf(key, pieces), DOMAIN pieces # {}, ~Hole(pieces),
           NEW k \in 1 .. Reach(pieces)
    PROVE  \E at \in DOMAIN pieces : at < k /\ k <= End(pieces, at)
<1>0. Reach(pieces) \in Nat /\ k \in Nat /\ k >= 1
  BY ReachIsLast
<1>1. PICK far \in DOMAIN pieces : End(pieces, far) = Reach(pieces)
  BY ReachIsLast
<1>2. CASE far < k
  BY <1>0, <1>1, <1>2
<1>3. CASE ~(far < k)
  <2> DEFINE S == {at \in DOMAIN pieces : k <= at}
  <2>1. S \in SUBSET Nat /\ S # {}
    BY <1>0, <1>3, PieceShape
  <2>2. PICK m \in S : \A n \in S : m <= n
    <3> HIDE DEF S
    <3> QED
      BY <2>1, LeastNat
  <2>3. m \in DOMAIN pieces /\ k <= m /\ m \in Nat
    BY <2>1, <2>2
  <2>4. PICK b \in DOMAIN pieces : b < m /\ ~(End(pieces, b) < m)
    BY <1>0, <2>3 DEF Hole
  <2>5. b \in Nat /\ End(pieces, b) \in Nat
    BY <2>4, PieceShape
  <2>6. b < k
    BY <1>0, <2>2, <2>3, <2>4, <2>5
  <2> QED
    BY <1>0, <2>3, <2>4, <2>5, <2>6
<1> QED
  BY <1>2, <1>3

\* What the joined pieces hold: unit by unit, each of a datagram of the flow.
LEMMA JoinedUnits ==
    ASSUME NEW key, NEW pieces, PiecesOf(key, pieces), DOMAIN pieces # {}, ~Hole(pieces)
    PROVE  /\ Reach(pieces) \in Nat
           /\ Joined(pieces) = [k \in 1 .. Reach(pieces) |-> Joined(pieces)[k]]
           /\ \A k \in 1 .. Reach(pieces) : \E d \in Datagrams :
                 Key[d] = key /\ Joined(pieces)[k] = Unit(d, k - 1)
<1>0. Reach(pieces) \in Nat
  BY ReachIsLast
<1>1. Joined(pieces) = [k \in 1 .. Reach(pieces) |-> Joined(pieces)[k]]
  BY DEF Joined
<1>2. ASSUME NEW k \in 1 .. Reach(pieces)
      PROVE  \E d \in Datagrams : Key[d] = key /\ Joined(pieces)[k] = Unit(d, k - 1)
  <2> DEFINE over == {at \in DOMAIN pieces : at < k /\ k <= End(pieces, at)}
             first == CHOOSE at \in over : \A b \in over : at <= b
  <2>1. Joined(pieces)[k] = pieces[first][k - first]
    BY DEF Joined
  <2>2. over \in SUBSET Nat /\ over # {}
    BY Covered, PieceShape
  <2>3. first \in over
    <3> HIDE DEF over
    <3>1. \E m \in over : \A n \in over : m <= n
      BY <2>2, LeastNat
    <3> QED
      BY <3>1
  <2> HIDE DEF first
  <2>4. first \in DOMAIN pieces /\ first < k /\ k <= End(pieces, first)
    BY <2>3
  <2>5. PICK d \in Datagrams :
            /\ Key[d] = key
            /\ \A j \in 1 .. End(pieces, first) - first :
                  pieces[first][j] = Unit(d, first + j - 1)
    BY <2>4, PieceShape
  <2>6. first \in Nat /\ End(pieces, first) \in Nat /\ k \in Nat
    BY <1>0, <2>4, PieceShape
  <2>7. k - first \in 1 .. End(pieces, first) - first
    BY <2>4, <2>6
  <2>8. first + (k - first) - 1 = k - 1
    BY <2>6
  <2> QED
    BY <2>1, <2>5, <2>7, <2>8
<1> QED
  BY <1>0, <1>1, <1>2

\* What the joined pieces mean, once they reach the length of their datagram.
WholeOf(head, units) ==
    /\ \A i \in DOMAIN units : units[i][2] = i - 1
    /\ (\A d \in Datagrams : Key[d] = Key[head] => d = head) => units = Whole(head)

LEMMA JoinedWhole ==
    ASSUME NEW head \in Datagrams, NEW pieces, PiecesOf(Key[head], pieces),
           DOMAIN pieces # {}, ~Hole(pieces),
           \E d \in Datagrams : Key[d] = Key[head] /\ Reach(pieces) = Size[d]
    PROVE  WholeOf(head, Joined(pieces))
<1> DEFINE units == Joined(pieces)
           n == Reach(pieces)
<1>1. n \in Nat /\ units = [k \in 1 .. n |-> units[k]]
  BY JoinedUnits
<1>2. \A k \in 1 .. n : \E d \in Datagrams : Key[d] = Key[head] /\ units[k] = Unit(d, k - 1)
  BY JoinedUnits
<1> HIDE DEF units, n
<1>3. DOMAIN units = 1 .. n
  BY <1>1
<1>4. ASSUME NEW i \in DOMAIN units PROVE units[i][2] = i - 1
  BY <1>2, <1>3 DEF Unit
<1>5. ASSUME \A d \in Datagrams : Key[d] = Key[head] => d = head
      PROVE  units = Whole(head)
  <2>1. n = Size[head]
    BY <1>5 DEF n
  <2>2. \A k \in 1 .. n : units[k] = Unit(head, k - 1)
    BY <1>2, <1>5
  <2>3. units = [k \in 1 .. n |-> Unit(head, k - 1)]
    BY <1>1, <2>2
  <2>4. Whole(head) = [k \in 1 .. n - 0 |-> Unit(head, 0 + k - 1)]
    BY <2>1 DEF Whole, Cut
  <2>5. n - 0 = n /\ \A k \in 1 .. n : 0 + k - 1 = k - 1
    BY <1>1
  <2> QED
    BY <2>3, <2>4, <2>5
<1> QED
  BY <1>4, <1>5 DEF WholeOf, units

-----------------------------------------------------------------------------
(* The invariant: every flow holds pieces of its datagrams.                  *)

IpFlow(key, flow) ==
    /\ flow = [header |-> flow.header, pieces |-> flow.pieces, total |-> flow.total]
    /\ PiecesOf(key, flow.pieces)
    /\ flow.header # Absent => flow.header \in Datagrams /\ Key[flow.header] = key
    /\ flow.total # Absent => \E d \in Datagrams : Key[d] = key /\ flow.total = Size[d]

Flows ==
    /\ carried \in {"ip", "tp", "tcp"}
    /\ flows = [k \in FlowKeys |-> flows[k]]
    /\ carried = "ip" => \A k \in FlowKeys : IpFlow(k, flows[k])
    /\ carried = "tp" => \A k \in FlowKeys : PiecesOf(k, flows[k])

PiecesInv == Flows /\ WholeOrNothing

LEMMA NoPieces == \A key : PiecesOf(key, <<>>)
BY DEF PiecesOf

LEMMA FlowsInit == PiecesInit => PiecesInv
<1> SUFFICES ASSUME PiecesInit PROVE PiecesInv
  OBVIOUS
<1>1. \A k \in FlowKeys : carried = "ip" => IpFlow(k, flows[k])
  BY NoPieces DEF PiecesInit, EmptyIp, IpFlow
<1>2. \A k \in FlowKeys : carried = "tp" => PiecesOf(k, flows[k])
  BY NoPieces DEF PiecesInit, EmptyTp
<1>3. carried \in {"ip", "tp", "tcp"} /\ flows = [k \in FlowKeys |-> flows[k]]
  BY DEF PiecesInit
<1>4. WholeOrNothing
  BY DEF PiecesInit, WholeOrNothing
<1> QED
  BY <1>1, <1>2, <1>3, <1>4 DEF PiecesInv, Flows

\* A fragment.
LEMMA IpKeeps ==
    ASSUME PiecesInv, NEW d \in Datagrams, NEW from \in 0 .. Size[d] - 1, NEW to \in 1 .. Size[d],
           FeedIp(d, from, to)
    PROVE  PiecesInv'
<1> DEFINE key == Key[d]
           flow == WithPiece(flows[Key[d]], d, from, to)
<1>1. /\ carried = "ip" /\ carried' = carried /\ from < to
      /\ from \in Nat /\ to \in Nat /\ Size[d] \in Nat /\ key \in FlowKeys
  BY ReassemblyAssumption DEF FeedIp, FlowKeys
<1>2. IpFlow(key, flows[key])
  BY <1>1 DEF PiecesInv, Flows
<1>3. /\ flow.header = IF from = 0 THEN d ELSE flows[key].header
      /\ flow.pieces = [at \in DOMAIN flows[key].pieces \cup {from} |->
                          IF at = from THEN Cut(d, from, to) ELSE flows[key].pieces[at]]
      /\ flow.total = IF to = Size[d] THEN to ELSE flows[key].total
      /\ flow = [header |-> flow.header, pieces |-> flow.pieces, total |-> flow.total]
  BY DEF WithPiece
<1>f. IF Complete(flow)
      THEN /\ flows' = [flows EXCEPT ![key] = EmptyIp]
           /\ out' = [by |-> "ip", head |-> flow.header, units |-> Joined(flow.pieces)]
      ELSE /\ flows' = [flows EXCEPT ![key] = flow]
           /\ out' = [by |-> "none"]
  BY DEF FeedIp
<1> HIDE DEF flow
<1>4. PiecesOf(key, flow.pieces)
  <2> DEFINE old == flows[key].pieces
  <2>1. PiecesOf(key, old)
    BY <1>2 DEF IpFlow
  <2>2. flow.pieces = [at \in DOMAIN old \cup {from} |->
                          IF at = from THEN Cut(d, from, to) ELSE old[at]]
    BY <1>3
  <2> HIDE DEF old
  <2>3. d \in Datagrams /\ from \in Nat /\ to \in 1 .. Size[d] /\ from < to /\ Key[d] = key
    BY <1>1
  <2> HIDE DEF key
  <2>4. PiecesOf(key, [at \in DOMAIN old \cup {from} |->
                          IF at = from THEN Cut(d, from, to) ELSE old[at]])
    BY <2>1, <2>3, PieceAdded
  <2> QED
    BY <2>2, <2>4
<1>5. DOMAIN flow.pieces # {}
  BY <1>3
<1>6. flow.header # Absent => flow.header \in Datagrams /\ Key[flow.header] = key
  BY <1>2, <1>3 DEF IpFlow
<1>7. flow.total # Absent => \E e \in Datagrams : Key[e] = key /\ flow.total = Size[e]
  BY <1>2, <1>3 DEF IpFlow
<1>8. IpFlow(key, flow)
  BY <1>3, <1>4, <1>6, <1>7 DEF IpFlow
<1>9. CASE Complete(flow)
  <2>1. flow.header \in Datagrams /\ Key[flow.header] = key /\ ~Hole(flow.pieces)
    BY <1>6, <1>9 DEF Complete
  <2>2. \E e \in Datagrams : Key[e] = Key[flow.header] /\ Reach(flow.pieces) = Size[e]
    BY <1>7, <1>9, <2>1 DEF Complete
  <2>3. WholeOf(flow.header, Joined(flow.pieces))
    BY <1>4, <1>5, <2>1, <2>2, JoinedWhole
  <2>4. out'.head = flow.header /\ out'.units = Joined(flow.pieces)
    BY <1>f, <1>9
  <2>5. WholeOrNothing'
    BY <2>3, <2>4 DEF WholeOrNothing, WholeOf
  <2>6. flows' = [flows EXCEPT ![key] = EmptyIp] /\ IpFlow(key, EmptyIp)
    BY <1>f, <1>9, NoPieces DEF IpFlow, EmptyIp
  <2>7. Flows'
    BY <1>1, <2>6 DEF PiecesInv, Flows
  <2> QED
    BY <2>5, <2>7 DEF PiecesInv
<1>10. CASE ~Complete(flow)
  <2>1. WholeOrNothing'
    BY <1>f, <1>10 DEF WholeOrNothing
  <2>2. flows' = [flows EXCEPT ![key] = flow]
    BY <1>f, <1>10
  <2>3. Flows'
    BY <1>1, <1>8, <2>2 DEF PiecesInv, Flows
  <2> QED
    BY <2>1, <2>3 DEF PiecesInv
<1> QED
  BY <1>9, <1>10

\* A segment.
LEMMA TpKeeps ==
    ASSUME PiecesInv, NEW d \in Datagrams, NEW k \in 0 .. Size[d] - 1, FeedTp(d, k)
    PROVE  PiecesInv'
<1> DEFINE key == Key[d]
           old == IF k = 0 THEN EmptyTp ELSE flows[Key[d]]
           segments == [at \in DOMAIN old \cup {k} |-> IF at = k THEN Cut(d, k, k + 1) ELSE old[at]]
           whole == /\ 0 \in DOMAIN segments /\ Contiguous(segments)
                    /\ Reach(segments) = k + 1
<1>1. /\ carried = "tp" /\ carried' = carried
      /\ k \in Nat /\ Size[d] \in Nat /\ k + 1 \in 1 .. Size[d] /\ k < k + 1 /\ key \in FlowKeys
  BY ReassemblyAssumption DEF FeedTp, FlowKeys
<1>f. IF k + 1 < Size[d]
      THEN flows' = [flows EXCEPT ![key] = segments] /\ out' = [by |-> "none"]
      ELSE /\ flows' = [flows EXCEPT ![key] = EmptyTp]
           /\ out' = IF whole THEN [by |-> "tp", head |-> d, units |-> Joined(segments)]
                              ELSE [by |-> "none"]
  BY DEF FeedTp
<1>2. PiecesOf(key, old)
  BY <1>1, NoPieces DEF PiecesInv, Flows, EmptyTp
<1> HIDE DEF old
<1>3. PiecesOf(key, segments)
  BY <1>1, <1>2, PieceAdded
<1>4. DOMAIN segments # {}
  OBVIOUS
<1> HIDE DEF segments
<1>5. CASE k + 1 < Size[d]
  <2>1. Flows'
    BY <1>1, <1>f, <1>3, <1>5 DEF PiecesInv, Flows
  <2>2. WholeOrNothing'
    BY <1>f, <1>5 DEF WholeOrNothing
  <2> QED
    BY <2>1, <2>2 DEF PiecesInv
<1>6. CASE ~(k + 1 < Size[d])
  <2>1. Flows'
    BY <1>1, <1>f, <1>6, NoPieces DEF PiecesInv, Flows, EmptyTp
  <2>2. ASSUME whole PROVE WholeOf(d, Joined(segments))
    <3>1. ~Hole(segments)
      <4> SUFFICES ASSUME NEW at \in DOMAIN segments, at > 0,
                          \A b \in DOMAIN segments : b < at => End(segments, b) < at
                   PROVE  FALSE
        BY DEF Hole
      <4>1. at \in Nat
        BY <1>3, PieceShape
      <4>2. PICK b \in DOMAIN segments : b < at /\ End(segments, b) = at
        BY <2>2, <4>1 DEF Contiguous
      <4> QED
        BY <4>1, <4>2
    <3>2. Reach(segments) = Size[d]
      BY <1>1, <1>6, <2>2
    <3> QED
      BY <1>3, <1>4, <3>1, <3>2, JoinedWhole
  <2>3. WholeOrNothing'
    <3>1. CASE whole
      <4>1. out'.head = d /\ out'.units = Joined(segments)
        BY <1>f, <1>6, <3>1
      <4> QED
        BY <2>2, <3>1, <4>1 DEF WholeOrNothing, WholeOf
    <3>2. CASE ~whole
      <4>1. out' = [by |-> "none"]
        BY <1>f, <1>6, <3>2
      <4> QED
        BY <4>1 DEF WholeOrNothing
    <3> QED
      BY <3>1, <3>2
  <2> QED
    BY <2>1, <2>3 DEF PiecesInv
<1> QED
  BY <1>5, <1>6

LEMMA FlowsNext == PiecesInv /\ [PiecesNext]_pieceVars => PiecesInv'
<1> SUFFICES ASSUME PiecesInv, [PiecesNext]_pieceVars PROVE PiecesInv'
  OBVIOUS
<1>1. ASSUME NEW d \in Datagrams, NEW from \in 0 .. Size[d] - 1, NEW to \in 1 .. Size[d],
             FeedIp(d, from, to)
      PROVE  PiecesInv'
  BY <1>1, IpKeeps
<1>2. ASSUME NEW d \in Datagrams, NEW k \in 0 .. Size[d] - 1, FeedTp(d, k) PROVE PiecesInv'
  BY <1>2, TpKeeps
<1>3. ASSUME carried' = carried, carried = "tcp", flows' = flows, out'.by = "tcp"
      PROVE  PiecesInv'
  BY <1>3 DEF PiecesInv, Flows, WholeOrNothing
<1>4. ASSUME NEW from, NEW to, FeedTcp(from, to) PROVE PiecesInv'
  <2>1. carried' = carried /\ carried = "tcp" /\ flows' = flows /\ out'.by = "tcp"
    BY <1>4 DEF FeedTcp
  <2> QED
    BY <1>3, <2>1
<1>5. CASE Syn
  <2>1. carried' = carried /\ carried = "tcp" /\ flows' = flows /\ out'.by = "tcp"
    BY <1>5 DEF Syn
  <2> QED
    BY <1>3, <2>1
<1>6. CASE UNCHANGED pieceVars
  BY <1>6 DEF pieceVars, PiecesInv, Flows, WholeOrNothing
<1> QED
  BY <1>1, <1>2, <1>4, <1>5, <1>6 DEF PiecesNext

\* What fragments and segments are put together to has no hole and no unit
\* twice, and is what was sent where the flow carries one datagram only.
THEOREM PutTogetherWhole == PiecesSpec => []WholeOrNothing
<1>1. PiecesInv => WholeOrNothing
  BY DEF PiecesInv
<1> QED
  BY <1>1, FlowsInit, FlowsNext, PTL DEF PiecesSpec

-----------------------------------------------------------------------------
(* The stream of a TCP connection.                                           *)

Ends == Len(TcpStarts)

\* The stream from a position to before another, and the messages from one to
\* before another.
Stretch(p, r) == [i \in 1 .. r - p |-> p + i - 1]

LEMMA StartsAre ==
    /\ Ends \in Nat \ {0} /\ Messages = 1 .. Ends - 1 /\ Length \in Nat /\ StartOf(1) = 0
    /\ \A m \in 1 .. Ends : StartOf(m) \in Nat /\ StartOf(m) <= Length
    /\ \A m, n \in 1 .. Ends : m < n => StartOf(m) < StartOf(n)
    /\ \A m, n \in 1 .. Ends : StartOf(m) = StartOf(n) => m = n
    /\ \A m \in Messages : Units(m) \in Nat \ {0} /\ StartOf(m) + Units(m) = StartOf(m + 1)
<1>1. /\ Ends \in Nat \ {0} /\ DOMAIN TcpStarts = 1 .. Ends /\ TcpStarts[1] = 0
      /\ \A m \in 1 .. Ends : TcpStarts[m] \in Nat
      /\ \A m, n \in 1 .. Ends : m < n => TcpStarts[m] < TcpStarts[n]
  BY ReassemblyAssumption DEF Ends
<1>2. \A m \in 1 .. Ends : TcpStarts[m] <= TcpStarts[Ends]
  <2>1. ASSUME NEW m \in 1 .. Ends PROVE TcpStarts[m] <= TcpStarts[Ends]
    <3>1. m = Ends \/ m < Ends
      BY <1>1
    <3> QED
      BY <1>1, <3>1
  <2> QED
    BY <2>1
<1>3. \A m, n \in 1 .. Ends : TcpStarts[m] = TcpStarts[n] => m = n
  <2>1. ASSUME NEW m \in 1 .. Ends, NEW n \in 1 .. Ends, TcpStarts[m] = TcpStarts[n] PROVE m = n
    <3>1. m < n \/ n < m \/ m = n
      BY <1>1
    <3> QED
      BY <1>1, <2>1, <3>1
  <2> QED
    BY <2>1
<1>4. \A m \in 1 .. Ends - 1 : TcpStarts[m] < TcpStarts[m + 1] /\ TcpStarts[m] \in Nat
                                  /\ TcpStarts[m + 1] \in Nat
  BY <1>1
<1>5. Messages = 1 .. Ends - 1 /\ Length = TcpStarts[Ends]
  BY DEF Messages, Length, Ends, StartOf
<1>6. \A m \in Messages : Units(m) \in Nat \ {0} /\ StartOf(m) + Units(m) = StartOf(m + 1)
  BY <1>4, <1>5 DEF Units, StartOf
<1> QED
  BY <1>1, <1>2, <1>3, <1>5, <1>6 DEF StartOf

\* One turn of the parse loop, at position i of the buffer; f: what later turns find.
Parsed(buffer, f, i) ==
    IF i = Len(buffer) + 1 THEN [msgs |-> <<>>, rest |-> <<>>, lost |-> FALSE]
    ELSE LET ms == {m \in Messages : StartOf(m) = buffer[i]} IN
         IF ms = {} THEN [msgs |-> <<>>, rest |-> <<>>, lost |-> TRUE]
         ELSE LET m == CHOOSE m \in ms : TRUE
                  j == i + Units(m)
              IN  IF Units(m) > MaxStream
                    THEN [msgs |-> <<>>, rest |-> <<>>, lost |-> TRUE]
                  ELSE IF j > Len(buffer) + 1
                    THEN [msgs |-> <<>>, rest |-> SubSeq(buffer, i, Len(buffer)),
                          lost |-> FALSE]
                    ELSE [f[j] EXCEPT !.msgs = <<m>> \o @]

\* A turn looks at what later turns find only.
LEMMA LaterTurns ==
    ASSUME NEW buffer, Len(buffer) \in Nat, NEW i \in 1 .. Len(buffer) + 1, NEW f, NEW g,
           \A j \in i + 1 .. Len(buffer) + 1 : f[j] = g[j]
    PROVE  Parsed(buffer, f, i) = Parsed(buffer, g, i)
<1> DEFINE ms == {m \in Messages : StartOf(m) = buffer[i]}
           m == CHOOSE m \in ms : TRUE
           j == i + Units(m)
<1>1. CASE i = Len(buffer) + 1
  BY <1>1 DEF Parsed
<1>2. CASE i # Len(buffer) + 1 /\ ms = {}
  BY <1>2 DEF Parsed
<1>3. CASE i # Len(buffer) + 1 /\ ms # {}
  <2>1. m \in Messages
    BY <1>3
  <2>2. Units(m) \in Nat \ {0}
    BY <2>1, StartsAre
  <2>3. ~(j > Len(buffer) + 1) => f[j] = g[j]
    <3> DEFINE u == Units(m)
    <3>1. u \in Nat \ {0} /\ j = i + u
      BY <2>2
    <3> HIDE DEF u, j
    <3> QED
      BY <3>1
  <2> QED
    BY <1>3, <2>3 DEF Parsed
<1> QED
  BY <1>1, <1>2, <1>3

Turns(buffer, f, k) == f = [i \in k .. Len(buffer) + 1 |-> Parsed(buffer, f, i)]

\* The parse loop is a recursive function, which exists.
LEMMA TurnsExist ==
    ASSUME NEW buffer, Len(buffer) \in Nat
    PROVE  \E f : Turns(buffer, f, 1) /\ Scan(buffer) = f[1]
<1> DEFINE beyond == Len(buffer) + 1
           Begun == {k \in 1 .. beyond : \E f : Turns(buffer, f, k)}
<1>1. beyond \in Nat /\ beyond \in Begun
  <2> DEFINE f == [i \in beyond .. beyond |-> [msgs |-> <<>>, rest |-> <<>>, lost |-> FALSE]]
  <2>1. \A i \in beyond .. beyond : Parsed(buffer, f, i) = [msgs |-> <<>>, rest |-> <<>>, lost |-> FALSE]
    <3> HIDE DEF f
    <3> QED
      BY DEF Parsed
  <2>2. f = [i \in beyond .. beyond |-> [msgs |-> <<>>, rest |-> <<>>, lost |-> FALSE]]
    OBVIOUS
  <2> HIDE DEF f
  <2>3. f = [i \in beyond .. beyond |-> Parsed(buffer, f, i)]
    BY <2>1, <2>2
  <2> QED
    BY <2>3 DEF Turns
<1>2. PICK k \in Begun : \A n \in Begun : k <= n
  <2>1. Begun \in SUBSET Nat /\ Begun # {}
    BY <1>1
  <2> HIDE DEF Begun
  <2> QED
    BY <2>1, LeastNat
<1>3. k \in 1 .. beyond /\ \E f : Turns(buffer, f, k)
  OBVIOUS
<1>4. ASSUME k # 1 PROVE FALSE
  <2>1. PICK g : Turns(buffer, g, k)
    BY <1>3
  <2> DEFINE f == [i \in k - 1 .. beyond |-> Parsed(buffer, g, i)]
  <2>2. \A i \in k .. beyond : f[i] = g[i]
    BY <1>1, <1>3, <1>4, <2>1 DEF Turns
  <2>3. \A i \in k - 1 .. beyond : Parsed(buffer, f, i) = Parsed(buffer, g, i)
    <3>1. ASSUME NEW i \in k - 1 .. beyond PROVE Parsed(buffer, f, i) = Parsed(buffer, g, i)
      <4>1. i \in 1 .. Len(buffer) + 1
        BY <1>1, <1>3, <1>4
      <4> HIDE DEF f
      <4>2. \A j \in i + 1 .. Len(buffer) + 1 : j \in k .. beyond
        BY <1>1, <1>3
      <4>3. \A j \in i + 1 .. Len(buffer) + 1 : f[j] = g[j]
        BY <2>2, <4>2
      <4> QED
        BY <4>1, <4>3, LaterTurns
    <3> QED
      BY <3>1
  <2>4. f = [i \in k - 1 .. beyond |-> Parsed(buffer, g, i)]
    OBVIOUS
  <2> HIDE DEF f
  <2>5. Turns(buffer, f, k - 1)
    BY <2>3, <2>4 DEF Turns
  <2>6. k - 1 \in 1 .. beyond
    BY <1>1, <1>3, <1>4
  <2> QED
    BY <1>1, <1>2, <1>3, <2>5, <2>6
<1>5. \E f : Turns(buffer, f, 1)
  BY <1>3, <1>4
<1> DEFINE found == CHOOSE f : Turns(buffer, f, 1)
<1>6. Turns(buffer, found, 1)
  BY <1>5
<1>7. Scan(buffer) = found[1]
  BY DEF Scan, Turns, Parsed
<1> HIDE DEF found
<1> QED
  BY <1>6, <1>7

\* What the parse loop makes of the stream from where message n begins: the
\* messages up to some k, and, if it still knows its place, what there is of k.
FoundFrom(n, r, scan) ==
    \E k \in n .. Ends :
        /\ StartOf(k) <= r
        /\ scan.msgs = [i \in 1 .. k - n |-> n + i - 1]
        /\ scan.lost \in BOOLEAN
        /\ scan.lost => scan.rest = <<>>
        /\ ~scan.lost => /\ scan.rest = Stretch(StartOf(k), r)
                         /\ k \in Messages => StartOf(k + 1) > r
        /\ scan = [msgs |-> scan.msgs, rest |-> scan.rest, lost |-> scan.lost]

\* A sequence that begins as a and goes on as b is a \o b.
LEMMA JoinedIs ==
    ASSUME NEW S, NEW a \in Seq(S), NEW b \in Seq(S), NEW c \in Seq(S), Len(c) = Len(a) + Len(b),
           \A i \in 1 .. Len(a) : c[i] = a[i],
           \A i \in 1 .. Len(b) : c[Len(a) + i] = b[i]
    PROVE  a \o b = c
<1> DEFINE d == a \o b
<1>1. d \in Seq(S) /\ Len(d) = Len(c) /\ Len(a) \in Nat /\ Len(b) \in Nat
  OBVIOUS
<1>2. \A i \in 1 .. Len(a) : d[i] = a[i]
  OBVIOUS
<1>3. \A i \in Len(a) + 1 .. Len(a) + Len(b) : d[i] = b[i - Len(a)]
  OBVIOUS
<1> HIDE DEF d
<1>4. ASSUME NEW i \in 1 .. Len(c) PROVE d[i] = c[i]
  <2>1. CASE i \in 1 .. Len(a)
    BY <1>2, <2>1
  <2>2. CASE i \notin 1 .. Len(a)
    <3>1. i \in Len(a) + 1 .. Len(a) + Len(b) /\ i - Len(a) \in 1 .. Len(b)
      BY <1>1, <2>2
    <3>2. c[Len(a) + (i - Len(a))] = b[i - Len(a)]
      BY <3>1
    <3>3. Len(a) + (i - Len(a)) = i
      BY <1>1, <3>1
    <3> QED
      BY <1>3, <3>1, <3>2, <3>3
  <2> QED
    BY <2>1, <2>2
<1>5. d = [i \in 1 .. Len(c) |-> d[i]] /\ c = [i \in 1 .. Len(c) |-> c[i]]
  BY <1>1
<1>6. d = c
  BY <1>4, <1>5
<1> QED
  BY <1>6 DEF d

LEMMA StretchIs ==
    ASSUME NEW p \in Nat, NEW r \in Nat, p <= r
    PROVE  /\ Len(Stretch(p, r)) = r - p /\ Stretch(p, r) \in Seq(Nat)
           /\ \A i \in 1 .. r - p : Stretch(p, r)[i] = p + i - 1
           /\ \A i \in 1 .. r - p : SubSeq(Stretch(p, r), i, r - p) = Stretch(p + i - 1, r)
           /\ Stretch(r, r) = <<>>
           /\ \A q \in Nat : r <= q => Stretch(p, r) \o Stretch(r, q) = Stretch(p, q)
<1>1. /\ Len(Stretch(p, r)) = r - p /\ Stretch(p, r) \in Seq(Nat)
      /\ \A i \in 1 .. r - p : Stretch(p, r)[i] = p + i - 1
  <2>1. Stretch(p, r) \in [1 .. r - p -> Nat]
    BY DEF Stretch
  <2>2. r - p \in Nat
    OBVIOUS
  <2> QED
    BY <2>1, <2>2 DEF Stretch
<1>2. ASSUME NEW i \in 1 .. r - p
      PROVE  SubSeq(Stretch(p, r), i, r - p) = Stretch(p + i - 1, r)
  <2>1. SubSeq(Stretch(p, r), i, r - p) = [j \in 1 .. r - p - i + 1 |-> Stretch(p, r)[i + j - 1]]
    BY <1>1
  <2>2. \A j \in 1 .. r - p - i + 1 : Stretch(p, r)[i + j - 1] = p + i - 1 + j - 1
    BY <1>1
  <2>3. 1 .. r - p - i + 1 = 1 .. r - (p + i - 1)
    OBVIOUS
  <2> QED
    BY <2>1, <2>2, <2>3 DEF Stretch
<1>3. Stretch(r, r) = <<>>
  BY DEF Stretch
<1>4. ASSUME NEW q \in Nat, r <= q
      PROVE  Stretch(p, r) \o Stretch(r, q) = Stretch(p, q)
  <2> DEFINE a == Stretch(p, r)
             b == Stretch(r, q)
             c == Stretch(p, q)
  <2>1. /\ a \in Seq(Nat) /\ Len(a) = r - p /\ \A i \in 1 .. r - p : a[i] = p + i - 1
    BY <1>1
  <2>2. /\ b \in Seq(Nat) /\ Len(b) = q - r /\ \A i \in 1 .. q - r : b[i] = r + i - 1
    <3>1. b \in [1 .. q - r -> Nat] /\ q - r \in Nat
      BY <1>4 DEF Stretch
    <3> QED
      BY <3>1 DEF Stretch
  <2>3. c \in Seq(Nat) /\ Len(c) = q - p /\ \A i \in 1 .. q - p : c[i] = p + i - 1
    <3>1. c \in [1 .. q - p -> Nat] /\ q - p \in Nat
      BY <1>4 DEF Stretch
    <3> QED
      BY <3>1 DEF Stretch
  <2> HIDE DEF a, b, c
  <2>4. \A i \in 1 .. Len(a) : c[i] = a[i]
    BY <1>4, <2>1, <2>3
  <2>5. \A i \in 1 .. Len(b) : c[Len(a) + i] = b[i]
    BY <1>4, <2>1, <2>2, <2>3
  <2>6. Len(c) = Len(a) + Len(b)
    BY <1>4, <2>1, <2>2, <2>3
  <2>7. a \in Seq(Nat) /\ b \in Seq(Nat) /\ c \in Seq(Nat)
    BY <2>1, <2>2, <2>3
  <2>8. a \o b = c
    BY ONLY <2>4, <2>5, <2>6, <2>7, JoinedIs
  <2> QED
    BY <2>8 DEF a, b, c
<1> QED
  BY <1>1, <1>2, <1>3, <1>4

\* The first message, and those after it.
LEMMA FirstOfThem ==
    ASSUME NEW n \in Nat, NEW k \in Nat, n < k
    PROVE  <<n>> \o [i \in 1 .. k - (n + 1) |-> n + 1 + i - 1] = [i \in 1 .. k - n |-> n + i - 1]
<1> DEFINE a == <<n>>
           b == [i \in 1 .. k - (n + 1) |-> n + 1 + i - 1]
           c == [i \in 1 .. k - n |-> n + i - 1]
<1>1. a \in Seq(Nat) /\ Len(a) = 1 /\ a[1] = n
  OBVIOUS
<1>2. b \in Seq(Nat) /\ Len(b) = k - (n + 1) /\ \A i \in 1 .. k - (n + 1) : b[i] = n + i
  <2>1. b \in [1 .. k - (n + 1) -> Nat] /\ k - (n + 1) \in Nat
    OBVIOUS
  <2> QED
    BY <2>1
<1>3. c \in Seq(Nat) /\ Len(c) = k - n /\ \A i \in 1 .. k - n : c[i] = n + i - 1
  <2>1. c \in [1 .. k - n -> Nat] /\ k - n \in Nat
    OBVIOUS
  <2> QED
    BY <2>1
<1> HIDE DEF a, b, c
<1>4. \A i \in 1 .. Len(a) : c[i] = a[i]
  BY <1>1, <1>3
<1>5. \A i \in 1 .. Len(b) : c[Len(a) + i] = b[i]
  BY <1>1, <1>2, <1>3
<1>6. Len(c) = Len(a) + Len(b)
  BY <1>1, <1>2, <1>3
<1>7. a \in Seq(Nat) /\ b \in Seq(Nat) /\ c \in Seq(Nat)
  BY <1>1, <1>2, <1>3
<1>8. a \o b = c
  BY ONLY <1>4, <1>5, <1>6, <1>7, JoinedIs
<1> QED
  BY <1>8 DEF a, b, c

\* A turn of the loop where message n begins.
LEMMA TurnAt ==
    ASSUME NEW p \in Nat, NEW r \in Nat, p <= r, r <= Length, NEW f,
           NEW n \in 1 .. Ends, p <= StartOf(n), StartOf(n) <= r,
           n + 1 \in 1 .. Ends /\ StartOf(n + 1) <= r =>
               FoundFrom(n + 1, r, f[StartOf(n + 1) - p + 1])
    PROVE  FoundFrom(n, r, Parsed(Stretch(p, r), f, StartOf(n) - p + 1))
<1> DEFINE buffer == Stretch(p, r)
           i == StartOf(n) - p + 1
           turn == Parsed(buffer, f, i)
<1>1. Ends \in Nat \ {0} /\ StartOf(n) \in Nat /\ n \in Nat
  BY StartsAre
<1>2. Len(buffer) = r - p /\ i \in 1 .. r - p + 1
  <2>1. Len(buffer) = r - p
    BY StretchIs
  <2>2. i \in 1 .. r - p + 1
    BY <1>1
  <2> QED
    BY <2>1, <2>2
<1>m. Messages = 1 .. Ends - 1
  BY StartsAre
<1>3. CASE StartOf(n) = r
  <2>1. turn = [msgs |-> <<>>, rest |-> <<>>, lost |-> FALSE]
    BY <1>1, <1>2, <1>3 DEF Parsed
  <2>2. n \in Messages => StartOf(n + 1) > r
    BY <1>1, <1>3, <1>m, StartsAre
  <2>3. Stretch(StartOf(n), r) = <<>> /\ [j \in 1 .. n - n |-> n + j - 1] = <<>>
    BY <1>1, <1>3, StretchIs
  <2>4. n \in n .. Ends
    BY <1>1
  <2> HIDE DEF turn
  <2>5. FoundFrom(n, r, turn)
    BY <2>1, <2>2, <2>3, <2>4 DEF FoundFrom
  <2> QED
    BY <2>5 DEF turn
<1>4. CASE StartOf(n) # r
  <2>1. StartOf(n) < r /\ n # Ends
    <3>1. StartOf(Ends) = Length
      BY DEF Length, Ends
    <3> QED
      BY <1>1, <1>4, <3>1
  <2>2. n \in Messages /\ n + 1 \in 1 .. Ends
    BY <1>1, <1>m, <2>1
  <2>3. Units(n) \in Nat \ {0} /\ StartOf(n) + Units(n) = StartOf(n + 1)
    BY <2>2, StartsAre
  <2>4. i \in 1 .. r - p /\ i # Len(buffer) + 1 /\ buffer[i] = StartOf(n)
    <3>1. i \in 1 .. r - p /\ p + i - 1 = StartOf(n)
      BY <1>1, <1>2, <2>1
    <3>2. \A j \in 1 .. r - p : buffer[j] = p + j - 1
      BY StretchIs
    <3> HIDE DEF buffer
    <3> QED
      BY <1>2, <3>1, <3>2
  <2>5. {m \in Messages : StartOf(m) = buffer[i]} = {n}
    <3>1. \A m \in Messages : m \in 1 .. Ends
      BY <1>1, <1>m
    <3>2. \A m \in Messages : StartOf(m) = StartOf(n) => m = n
      BY <3>1, StartsAre
    <3> HIDE DEF buffer, i
    <3> QED
      BY <2>2, <2>4, <3>2
  <2>6. turn = IF Units(n) > MaxStream THEN [msgs |-> <<>>, rest |-> <<>>, lost |-> TRUE]
               ELSE IF i + Units(n) > Len(buffer) + 1
                 THEN [msgs |-> <<>>, rest |-> SubSeq(buffer, i, Len(buffer)), lost |-> FALSE]
               ELSE [f[i + Units(n)] EXCEPT !.msgs = <<n>> \o @]
    <3>1. (CHOOSE m \in {n} : TRUE) = n
      OBVIOUS
    <3> HIDE DEF buffer, i
    <3> QED
      BY <2>4, <2>5, <3>1 DEF Parsed
  <2>7. [j \in 1 .. n - n |-> n + j - 1] = <<>> /\ n \in n .. Ends
    BY <1>1
  <2> HIDE DEF turn
  <2>8. CASE Units(n) > MaxStream
    <3>1. turn = [msgs |-> <<>>, rest |-> <<>>, lost |-> TRUE]
      BY <2>6, <2>8
    <3>2. FoundFrom(n, r, turn)
      BY <2>7, <3>1 DEF FoundFrom
    <3> QED
      BY <3>2 DEF turn
  <2>9. CASE ~(Units(n) > MaxStream) /\ StartOf(n + 1) > r
    <3>1. i + Units(n) > Len(buffer) + 1
      BY <1>1, <1>2, <2>3, <2>9
    <3>2. turn = [msgs |-> <<>>, rest |-> SubSeq(buffer, i, Len(buffer)), lost |-> FALSE]
      BY <2>6, <2>9, <3>1
    <3>3. SubSeq(buffer, i, Len(buffer)) = Stretch(StartOf(n), r)
      <4>1. SubSeq(Stretch(p, r), i, r - p) = Stretch(p + i - 1, r)
        <5> HIDE DEF i
        <5> QED
          BY <2>4, StretchIs
      <4>2. p + i - 1 = StartOf(n)
        BY <1>1
      <4> QED
        BY <1>2, <4>1, <4>2
    <3>4. FoundFrom(n, r, turn)
      BY <2>7, <2>9, <3>2, <3>3 DEF FoundFrom
    <3> QED
      BY <3>4 DEF turn
  <2>10. CASE ~(Units(n) > MaxStream) /\ ~(StartOf(n + 1) > r)
    <3> DEFINE later == f[StartOf(n + 1) - p + 1]
    <3>0. StartOf(n + 1) \in Nat
      BY <2>2, StartsAre
    <3>1. ~(i + Units(n) > Len(buffer) + 1) /\ i + Units(n) = StartOf(n + 1) - p + 1
      BY <1>1, <1>2, <2>3, <2>10, <3>0
    <3>2. turn = [later EXCEPT !.msgs = <<n>> \o @]
      BY <2>6, <2>10, <3>1
    <3>3. FoundFrom(n + 1, r, later)
      BY <2>2, <2>10, <3>0
    <3> HIDE DEF later
    <3>4. PICK k \in n + 1 .. Ends :
            /\ StartOf(k) <= r
            /\ later.msgs = [j \in 1 .. k - (n + 1) |-> n + 1 + j - 1]
            /\ later.lost \in BOOLEAN
            /\ later.lost => later.rest = <<>>
            /\ ~later.lost => /\ later.rest = Stretch(StartOf(k), r)
                              /\ k \in Messages => StartOf(k + 1) > r
            /\ later = [msgs |-> later.msgs, rest |-> later.rest, lost |-> later.lost]
      BY <3>3 DEF FoundFrom
    <3>5. <<n>> \o later.msgs = [j \in 1 .. k - n |-> n + j - 1]
      <4>1. k \in Nat /\ n < k
        BY <1>1, <3>4
      <4> QED
        BY <1>1, <3>4, <4>1, FirstOfThem
    <3>6. turn = [msgs |-> <<n>> \o later.msgs, rest |-> later.rest, lost |-> later.lost]
      BY <3>2, <3>4
    <3>7. k \in n .. Ends
      BY <1>1, <3>4
    <3>8. FoundFrom(n, r, turn)
      <4> DEFINE ms == <<n>> \o later.msgs
      <4>1. ms = [j \in 1 .. k - n |-> n + j - 1] /\ turn = [msgs |-> ms, rest |-> later.rest, lost |-> later.lost]
        BY <3>5, <3>6
      <4> HIDE DEF ms
      <4>2. turn.msgs = ms /\ turn.rest = later.rest /\ turn.lost = later.lost
        BY <4>1
      <4> QED
        BY <3>4, <3>7, <4>1, <4>2 DEF FoundFrom
    <3> QED
      BY <3>8 DEF turn
  <2> QED
    BY <2>8, <2>9, <2>10
<1> QED
  BY <1>3, <1>4

\* The loop from where a message begins.
LEMMA ScanFound ==
    ASSUME NEW r \in Nat, r <= Length, NEW n \in 1 .. Ends, StartOf(n) <= r
    PROVE  FoundFrom(n, r, Scan(Stretch(StartOf(n), r)))
<1> DEFINE p == StartOf(n)
           buffer == Stretch(p, r)
<1>1. p \in Nat /\ n \in Nat /\ Ends \in Nat \ {0} /\ p <= r
  BY StartsAre
<1>2. Len(buffer) = r - p
  BY <1>1, StretchIs
<1>3. PICK f : Turns(buffer, f, 1) /\ Scan(buffer) = f[1]
  <2>1. Len(buffer) \in Nat
    BY <1>1, <1>2
  <2> HIDE DEF buffer
  <2> QED
    BY <2>1, TurnsExist
<1>4. f = [i \in 1 .. r - p + 1 |-> Parsed(buffer, f, i)]
  BY <1>2, <1>3 DEF Turns
<1> DEFINE Wrong == {m \in 1 .. Ends : /\ p <= StartOf(m) /\ StartOf(m) <= r
                                       /\ ~FoundFrom(m, r, f[StartOf(m) - p + 1])}
<1>5. ASSUME Wrong # {} PROVE FALSE
  <2>1. PICK m \in Wrong : \A k \in Wrong : k <= m
    <3>1. Wrong \in SUBSET Nat /\ \A k \in Wrong : k <= Ends
      BY <1>1
    <3> HIDE DEF Wrong
    <3> QED
      BY <1>1, <1>5, <3>1, LargestNat
  <2>2. /\ m \in 1 .. Ends /\ p <= StartOf(m) /\ StartOf(m) <= r
        /\ ~FoundFrom(m, r, f[StartOf(m) - p + 1])
    OBVIOUS
  <2>3. StartOf(m) \in Nat /\ m \in Nat
    BY <1>1, <2>2, StartsAre
  <2>4. ASSUME m + 1 \in 1 .. Ends /\ StartOf(m + 1) <= r
        PROVE  FoundFrom(m + 1, r, f[StartOf(m + 1) - p + 1])
    <3>1. m + 1 \notin Wrong
      BY <2>1, <2>3
    <3>2. p <= StartOf(m + 1)
      <4>1. StartOf(m) < StartOf(m + 1) /\ StartOf(m + 1) \in Nat
        BY <2>2, <2>3, <2>4, StartsAre
      <4> QED
        BY <1>1, <2>2, <2>3, <4>1
    <3> QED
      BY <2>4, <3>1, <3>2
  <2>5. f[StartOf(m) - p + 1] = Parsed(buffer, f, StartOf(m) - p + 1)
    <3>1. StartOf(m) - p + 1 \in 1 .. r - p + 1
      BY <1>1, <2>2, <2>3
    <3> HIDE DEF buffer, p
    <3> QED
      BY <1>4, <3>1
  <2> HIDE DEF Wrong, p
  <2>6. FoundFrom(m, r, Parsed(buffer, f, StartOf(m) - p + 1))
    BY <1>1, <2>2, <2>4, TurnAt
  <2> QED
    BY <2>2, <2>5, <2>6
<1>6. FoundFrom(n, r, f[p - p + 1])
  <2>1. p <= StartOf(n)
    BY <1>1
  <2> QED
    BY <1>5, <2>1
<1>7. p - p + 1 = 1
  BY <1>1
<1> HIDE DEF p
<1> QED
  BY <1>3, <1>6, <1>7 DEF p

\* The loop in the middle of a message.
LEMMA ScanAstray ==
    ASSUME NEW p \in Nat, NEW r \in Nat, p < r, \A m \in Messages : StartOf(m) # p
    PROVE  Scan(Stretch(p, r)) = [msgs |-> <<>>, rest |-> <<>>, lost |-> TRUE]
<1> DEFINE buffer == Stretch(p, r)
<1>1. Len(buffer) = r - p /\ buffer[1] = p
  <2>1. 1 \in 1 .. r - p /\ p <= r
    OBVIOUS
  <2>2. p + 1 - 1 = p
    OBVIOUS
  <2> QED
    BY <2>1, <2>2, StretchIs
<1>2. PICK f : Turns(buffer, f, 1) /\ Scan(buffer) = f[1]
  <2>1. Len(buffer) \in Nat
    BY <1>1
  <2> HIDE DEF buffer
  <2> QED
    BY <2>1, TurnsExist
<1>3. f[1] = Parsed(buffer, f, 1)
  <2>1. 1 \in 1 .. Len(buffer) + 1
    BY <1>1
  <2> HIDE DEF buffer
  <2> QED
    BY <1>2, <2>1 DEF Turns
<1>4. {m \in Messages : StartOf(m) = buffer[1]} = {} /\ 1 # Len(buffer) + 1
  BY <1>1
<1> HIDE DEF buffer
<1>5. Parsed(buffer, f, 1) = [msgs |-> <<>>, rest |-> <<>>, lost |-> TRUE]
  BY <1>4 DEF Parsed
<1> QED
  BY <1>2, <1>3, <1>5 DEF buffer

-----------------------------------------------------------------------------
(* Sequence numbers.  Two positions less than half the space apart keep their *)
(* distance and their order.                                                 *)

LEMMA Remainder ==
    ASSUME NEW q \in Int, NEW r \in Nat, NEW c \in Nat \ {0}, r < c
    PROVE  (c * q + r) % c = r
OBVIOUS

LEMMA Distributes ==
    ASSUME NEW c \in Int, NEW p \in Int, NEW q \in Int
    PROVE  c * (p + q) = c * p + c * q /\ c * p \in Int /\ c * q \in Int
OBVIOUS

LEMMA Division ==
    ASSUME NEW a \in Nat, NEW c \in Nat \ {0}
    PROVE  \E q \in Int, r \in 0 .. c - 1 : a % c = r /\ a = c * q + r
<1> DEFINE q == a \div c
<1>1. q \in Nat /\ c * q <= a /\ a < c * (q + 1)
  <2>1. q \in Nat
    OBVIOUS
  <2>2. c * q <= a
    OBVIOUS
  <2>3. a < c * (q + 1)
    OBVIOUS
  <2> QED
    BY <2>1, <2>2, <2>3
<1>d. q = a \div c
  OBVIOUS
<1> HIDE DEF q
<1>2. c * (q + 1) = c * q + c * 1 /\ c * q \in Int /\ c * 1 = c
  BY <1>1, Distributes
<1>3. PICK r \in Nat : r = a - c * q /\ r < c
  <2>1. a - c * q \in Nat /\ a - c * q < c
    BY <1>1, <1>2
  <2> QED
    BY <2>1
<1>7. r \in 0 .. c - 1 /\ q \in Int /\ r < c
  BY <1>1, <1>3
<1>4. (c * q + r) % c = r
  BY ONLY <1>7, r \in Nat, c \in Nat \ {0}, Remainder
<1>5. a = c * q + r
  BY <1>2, <1>3
<1>6. a % c = r
  BY <1>4, <1>5
<1> QED
  BY <1>5, <1>6, <1>7

LEMMA SeqNoIs ==
    ASSUME NEW x \in Nat
    PROVE  /\ SeqNo(x) \in 0 .. TcpModulus - 1 /\ SeqNo(x) # Absent /\ SeqNo(x) \in Int
           /\ \E p \in Int : Origin + x = TcpModulus * p + SeqNo(x)
<1> DEFINE a == Origin + x
<1>1. TcpModulus \in Nat \ {0} /\ a \in Nat
  BY ReassemblyAssumption
<1> HIDE DEF a
<1>2. PICK p \in Int, r \in 0 .. TcpModulus - 1 : a % TcpModulus = r /\ a = TcpModulus * p + r
  BY <1>1, Division
<1>3. SeqNo(x) = r
  BY <1>2 DEF SeqNo, a
<1>4. Origin + x = TcpModulus * p + SeqNo(x)
  BY <1>2, <1>3 DEF a
<1> QED
  BY <1>1, <1>2, <1>3, <1>4 DEF Absent

LEMMA BehindIs ==
    ASSUME NEW x \in Nat, NEW y \in Nat
    PROVE  /\ y <= x /\ x - y < TcpModulus => Behind(SeqNo(x), SeqNo(y)) = x - y
           /\ x < y /\ y - x < TcpModulus =>
                  Behind(SeqNo(x), SeqNo(y)) = TcpModulus - (y - x)
<1> DEFINE M == TcpModulus
           s == SeqNo(x)
           t == SeqNo(y)
<1>1. M \in Nat \ {0} /\ Origin \in Nat
  BY ReassemblyAssumption
<1>2. PICK p \in Int : Origin + x = M * p + s /\ s \in Int
  BY SeqNoIs
<1>3. PICK q \in Int : Origin + y = M * q + t /\ t \in Int
  BY SeqNoIs
<1> HIDE DEF M, s, t
<1>4. /\ M * (q + (0 - p)) = M * q + M * (0 - p) /\ M * q \in Int /\ M * (0 - p) \in Int
      /\ M * (p + (0 - p)) = M * p + M * (0 - p) /\ M * p \in Int
      /\ M * (q + (0 - p) + (0 - 1)) = M * (q + (0 - p)) + M * (0 - 1)
  <2>1. q \in Int /\ 0 - p \in Int /\ M \in Int /\ q + (0 - p) \in Int /\ 0 - 1 \in Int
    BY <1>1, <1>2, <1>3
  <2> QED
    BY <1>2, <2>1, Distributes
<1>5. M * (p + (0 - p)) = 0 /\ M * (0 - 1) = 0 - M
  <2>1. p + (0 - p) = 0 /\ M * 0 = 0
    BY <1>1, <1>2
  <2> QED
    BY <1>1, <2>1
<1>6. M * (q + (0 - p)) + (x - y) = s - t
  BY <1>1, <1>2, <1>3, <1>4, <1>5
<1>7. M * (q + (0 - p) + (0 - 1)) + (M - (y - x)) = s - t
  BY <1>1, <1>4, <1>5, <1>6
<1>8. y <= x /\ x - y < M => (s - t) % M = x - y
  <2>1. SUFFICES ASSUME y <= x, x - y < M PROVE (s - t) % M = x - y
    OBVIOUS
  <2>2. q + (0 - p) \in Int /\ x - y \in Nat
    BY <1>2, <1>3, <2>1
  <2>3. (M * (q + (0 - p)) + (x - y)) % M = x - y
    BY <1>1, <2>1, <2>2, Remainder
  <2> QED
    BY <1>6, <2>3
<1>9. x < y /\ y - x < M => (s - t) % M = M - (y - x)
  <2>1. SUFFICES ASSUME x < y, y - x < M PROVE (s - t) % M = M - (y - x)
    OBVIOUS
  <2>2. q + (0 - p) + (0 - 1) \in Int /\ M - (y - x) \in Nat /\ M - (y - x) < M
    BY <1>1, <1>2, <1>3, <2>1
  <2>3. (M * (q + (0 - p) + (0 - 1)) + (M - (y - x))) % M = M - (y - x)
    BY <1>1, <2>2, Remainder
  <2> QED
    BY <1>7, <2>3
<1> QED
  BY <1>8, <1>9 DEF M, s, t, Behind

\* How the receiver, which has read up to x, sees a segment that starts at y.
LEMMA Window ==
    ASSUME NEW x \in Nat, NEW y \in Nat, x - y < Half, y - x <= Half
    PROVE  /\ x = y => Behind(SeqNo(x), SeqNo(y)) = 0
           /\ x < y => /\ Behind(SeqNo(x), SeqNo(y)) # 0
                       /\ Behind(SeqNo(y), SeqNo(x)) <= Half
           /\ y < x => /\ Behind(SeqNo(x), SeqNo(y)) = x - y
                       /\ ~(Behind(SeqNo(y), SeqNo(x)) <= Half)
<1>1. TcpModulus \in Nat \ {0} /\ Half \in Nat /\ TcpModulus >= 2 * Half /\ Half < TcpModulus
  <2>1. TcpModulus \in Nat \ {0}
    BY ReassemblyAssumption
  <2> QED
    BY <2>1 DEF Half
<1>2. CASE x = y
  BY <1>1, <1>2, BehindIs
<1>3. CASE x < y
  <2>1. y - x < TcpModulus /\ x <= y
    BY <1>1, <1>3
  <2>2. /\ Behind(SeqNo(x), SeqNo(y)) = TcpModulus - (y - x)
        /\ Behind(SeqNo(y), SeqNo(x)) = y - x
    BY <1>3, <2>1, BehindIs
  <2> QED
    BY <1>1, <1>3, <2>1, <2>2
<1>4. CASE y < x
  <2>1. x - y < TcpModulus /\ y <= x
    BY <1>1, <1>4
  <2>2. /\ Behind(SeqNo(y), SeqNo(x)) = TcpModulus - (x - y)
        /\ Behind(SeqNo(x), SeqNo(y)) = x - y
    BY <1>4, <2>1, BehindIs
  <2> QED
    BY <1>1, <1>4, <2>1, <2>2
<1> QED
  BY <1>2, <1>3, <1>4

\* The sequence number behind a segment.
LEMMA StepSeq ==
    ASSUME NEW from \in Nat, NEW to \in Nat, from <= to
    PROVE  (SeqNo(from) + to - from) % TcpModulus = SeqNo(to)
<1> DEFINE M == TcpModulus
           s == SeqNo(from)
           t == SeqNo(to)
<1>1. M \in Nat \ {0} /\ Origin \in Nat
  BY ReassemblyAssumption
<1>2. PICK p \in Int : Origin + from = M * p + s /\ s \in Int
  BY SeqNoIs
<1>3. PICK q \in Int : Origin + to = M * q + t /\ t \in Int /\ t \in 0 .. M - 1
  BY SeqNoIs
<1> HIDE DEF M, s, t
<1>4. /\ M * (q + (0 - p)) = M * q + M * (0 - p) /\ M * q \in Int /\ M * (0 - p) \in Int
      /\ M * (p + (0 - p)) = M * p + M * (0 - p) /\ M * p \in Int
  <2>1. q \in Int /\ 0 - p \in Int /\ M \in Int
    BY <1>1, <1>2, <1>3
  <2> QED
    BY <1>2, <2>1, Distributes
<1>5. M * (p + (0 - p)) = 0
  <2>1. p + (0 - p) = 0 /\ M * 0 = 0
    BY <1>1, <1>2
  <2> QED
    BY <2>1
<1>6. M * (q + (0 - p)) + t = s + to - from
  BY <1>1, <1>2, <1>3, <1>4, <1>5
<1>7. (M * (q + (0 - p)) + t) % M = t
  <2>1. q + (0 - p) \in Int /\ t \in Nat /\ t < M
    BY <1>1, <1>2, <1>3
  <2> QED
    BY <1>1, <2>1, Remainder
<1>8. (s + to - from) % M = t
  BY <1>6, <1>7
<1> QED
  BY <1>8 DEF M, s, t

LEMMA TakeIs ==
    ASSUME NEW from \in Nat, NEW to \in Nat, from <= to, NEW buffer, NEW data
    PROVE  Take(buffer, data, from, to) = [next |-> SeqNo(to), buffer |-> buffer \o data]
<1>1. (SeqNo(from) + to - from) % TcpModulus = SeqNo(to)
  BY StepSeq
<1> QED
  BY <1>1 DEF Take

LEMMA StretchJoins ==
    ASSUME NEW p \in Nat, NEW r \in Nat, NEW q \in Nat, p <= r, r <= q
    PROVE  Stretch(p, r) \o Stretch(r, q) = Stretch(p, q)
BY StretchIs

LEMMA StretchEnd ==
    ASSUME NEW p \in Nat, NEW r \in Nat, p <= r, NEW i \in 1 .. r - p
    PROVE  SubSeq(Stretch(p, r), i, r - p) = Stretch(p + i - 1, r)
BY StretchIs

LEMMA TakeAnew ==
    ASSUME NEW from \in Nat, NEW to \in Nat, from < to
    PROVE  Take(<<>>, Stretch(from, to), from, to) =
               [next |-> SeqNo(to), buffer |-> Stretch(from, to)]
<1>0. from <= to /\ from <= from
  OBVIOUS
<1>1. Stretch(from, from) \o Stretch(from, to) = Stretch(from, to) /\ Stretch(from, from) = <<>>
  BY <1>0, StretchIs
<1>2. Take(<<>>, Stretch(from, to), from, to) =
        [next |-> SeqNo(to), buffer |-> <<>> \o Stretch(from, to)]
  <2>1. (SeqNo(from) + to - from) % TcpModulus = SeqNo(to)
    BY <1>0, StepSeq
  <2> QED
    BY <2>1 DEF Take
<1> QED
  BY <1>1, <1>2

\* A segment taken up by a flow that has lost its place, or is new.
LEMMA AcceptFresh ==
    ASSUME NEW from \in Nat, NEW to \in Nat, from < to
    PROVE  Accept(NoFlow, from, to) = [next |-> SeqNo(to), buffer |-> Stretch(from, to)]
<1>1. Behind(SeqNo(from), SeqNo(from)) = 0
  <2>1. TcpModulus \in Nat \ {0} /\ from - from < TcpModulus /\ from <= from
    BY ReassemblyAssumption
  <2> QED
    BY <2>1, BehindIs
<1>2. Accept(NoFlow, from, to) = Take(<<>>, Stretch(from, to), from, to)
  BY <1>1 DEF Accept, NoFlow, Stretch
<1> QED
  BY <1>2, TakeAnew

\* A segment taken up by a flow that has read up to x: what is new of it, or,
\* behind a gap, all of it.
LEMMA AcceptKnown ==
    ASSUME NEW from \in Nat, NEW to \in Nat, from < to, NEW x \in Nat, NEW p \in Nat, p <= x,
           x - from < Half, from - x <= Half, NEW flow,
           flow = [next |-> SeqNo(x), buffer |-> Stretch(p, x)]
    PROVE  /\ from > x =>
                  Accept(flow, from, to) = [next |-> SeqNo(to), buffer |-> Stretch(from, to)]
           /\ from <= x /\ to > x =>
                  Accept(flow, from, to) = [next |-> SeqNo(to), buffer |-> Stretch(p, to)]
           /\ from <= x /\ to <= x => Accept(flow, from, to) = flow
<1> DEFINE overlap == Behind(SeqNo(x), SeqNo(from))
           ahead == Behind(SeqNo(from), SeqNo(x))
<1>0. from <= to
  OBVIOUS
<1>1. /\ x = from => overlap = 0
      /\ x < from => overlap # 0 /\ ahead <= Half
      /\ from < x => overlap = x - from /\ ~(ahead <= Half)
  BY Window
<1>2. Accept(flow, from, to) =
        IF overlap = 0 THEN Take(Stretch(p, x), Stretch(from, to), from, to)
        ELSE IF ahead <= Half THEN Take(<<>>, Stretch(from, to), from, to)
        ELSE IF overlap < to - from
          THEN Take(Stretch(p, x), SubSeq(Stretch(from, to), overlap + 1, to - from), from, to)
        ELSE flow
  <2>1. SeqNo(x) # Absent
    BY SeqNoIs
  <2> QED
    BY <2>1 DEF Accept, Stretch
<1> HIDE DEF overlap, ahead
<1>3. CASE from > x
  <2>1. Accept(flow, from, to) = Take(<<>>, Stretch(from, to), from, to)
    BY <1>1, <1>2, <1>3
  <2> QED
    BY <1>3, <2>1, TakeAnew
<1>4. CASE from <= x /\ to > x
  <2>1. Stretch(p, x) \o Stretch(x, to) = Stretch(p, to)
    <3>1. x <= to
      BY <1>4
    <3> QED
      BY ONLY p \in Nat, x \in Nat, to \in Nat, p <= x, <3>1, StretchJoins
  <2>2. Accept(flow, from, to) = Take(Stretch(p, x), Stretch(x, to), from, to)
    <3>1. CASE from = x
      BY <1>1, <1>2, <3>1
    <3>2. CASE from < x
      <4>1. overlap = x - from /\ overlap # 0 /\ overlap < to - from /\ ~(ahead <= Half)
        BY <1>1, <1>4, <3>2
      <4>2. SubSeq(Stretch(from, to), overlap + 1, to - from) = Stretch(from + (overlap + 1) - 1, to)
        <5>1. overlap + 1 \in 1 .. to - from /\ from <= to
          BY <3>2, <4>1
        <5> QED
          BY ONLY from \in Nat, to \in Nat, <5>1, StretchEnd
      <4>3. from + (overlap + 1) - 1 = x
        BY <4>1
      <4> QED
        BY <1>2, <4>1, <4>2, <4>3
    <3> QED
      BY <1>4, <3>1, <3>2
  <2>3. Take(Stretch(p, x), Stretch(x, to), from, to) =
          [next |-> SeqNo(to), buffer |-> Stretch(p, x) \o Stretch(x, to)]
    BY ONLY from \in Nat, to \in Nat, <1>0, TakeIs
  <2>4. Accept(flow, from, to) = [next |-> SeqNo(to), buffer |-> Stretch(p, to)]
    BY <2>1, <2>2, <2>3
  <2> QED
    BY <1>4, <2>4
<1>5. CASE from <= x /\ to <= x
  <2>1. from < x
    BY <1>5
  <2>2. overlap = x - from /\ overlap # 0 /\ ~(overlap < to - from) /\ ~(ahead <= Half)
    BY <1>1, <1>5, <2>1
  <2>3. Accept(flow, from, to) = flow
    BY <1>2, <2>2
  <2> QED
    BY <1>5, <2>3
<1> QED
  BY <1>3, <1>4, <1>5

-----------------------------------------------------------------------------
(* What has been handed on, and where the flow stands.                       *)

Rising(handed) == \A i, j \in DOMAIN handed : i < j => handed[i] < handed[j]

\* The flow has read up to r and holds what there is of message n; it took the
\* stream up at `from`, where a message began, or at a place not known.
Placed(n, flow, handed, from, r) ==
    /\ StartOf(n) <= r /\ (n \in Messages => r < StartOf(n + 1))
    /\ \A i \in DOMAIN handed : handed[i] < n
    /\ flow = [next |-> SeqNo(r), buffer |-> Stretch(StartOf(n), r)]
    /\ r - StartOf(n) <= MaxStream
    /\ from # Absent => from <= StartOf(n)

StreamAt(flow, handed, from, r) ==
    /\ r \in 0 .. Length /\ from \in {Absent} \cup 0 .. Length
    /\ handed \in Seq(Messages) /\ Rising(handed)
    /\ from # Absent =>
           ToSet(handed) = {m \in Messages : from <= StartOf(m) /\ StartOf(m + 1) <= r}
    /\ flow = NoFlow \/ \E n \in 1 .. Ends : Placed(n, flow, handed, from, r)

StreamInv == StreamAt(tcp, seen, base, reach)

\* Messages handed on behind others that come before them.
LEMMA HandedOn ==
    ASSUME NEW old \in Seq(Messages), Rising(old), NEW n \in 1 .. Ends, NEW k \in n .. Ends,
           \A i \in DOMAIN old : old[i] < n, NEW add, add = [i \in 1 .. k - n |-> n + i - 1]
    PROVE  /\ old \o add \in Seq(Messages) /\ Rising(old \o add)
           /\ \A i \in DOMAIN (old \o add) : (old \o add)[i] < k
           /\ ToSet(old \o add) = ToSet(old) \cup (n .. k - 1)
<1> DEFINE new == old \o add
<1>1. /\ Ends \in Nat /\ n \in Nat /\ k \in Nat /\ n <= k /\ k <= Ends /\ n >= 1
      /\ Messages = 1 .. Ends - 1
  BY StartsAre
<1>a. PICK L \in Nat : L = Len(old)
  OBVIOUS
<1>b. PICK d \in Nat : d = k - n
  BY <1>1
<1>2. add \in Seq(Messages) /\ Len(add) = d /\ \A i \in 1 .. d : add[i] = n + i - 1
  <2>1. add = [i \in 1 .. d |-> n + i - 1]
    BY <1>b
  <2>2. \A i \in 1 .. d : n + i - 1 \in Messages
    BY <1>1, <1>b
  <2>3. add \in [1 .. d -> Messages]
    BY <2>1, <2>2
  <2>4. add \in Seq(Messages) /\ Len(add) = d
    BY ONLY d \in Nat, <2>3
  <2> QED
    BY <2>1, <2>4
<1>3. /\ new \in Seq(Messages) /\ Len(new) = L + d /\ DOMAIN new = 1 .. L + d
      /\ DOMAIN old = 1 .. L
      /\ \A i \in 1 .. L : new[i] = old[i]
      /\ \A i \in L + 1 .. L + d : new[i] = n + (i - L) - 1
  <2>1. new \in Seq(Messages) /\ Len(new) = L + d
    BY <1>2, <1>a
  <2>2. \A i \in 1 .. L : new[i] = old[i]
    BY <1>2, <1>a
  <2>3. \A i \in L + 1 .. L + d : new[i] = add[i - L] /\ i - L \in 1 .. d
    BY <1>2, <1>a
  <2> QED
    BY <1>2, <1>a, <2>1, <2>2, <2>3
<1>4. \A i \in 1 .. L : old[i] \in Messages /\ old[i] < n /\ old[i] \in Nat
  <2>1. \A i \in 1 .. L : old[i] \in Messages
    BY <1>3
  <2>2. \A i \in 1 .. L : old[i] < n
    BY <1>3
  <2> QED
    BY <1>1, <2>1, <2>2
<1>5. \A i \in 1 .. L + d : i \in 1 .. L \/ i \in L + 1 .. L + d
  OBVIOUS
<1> HIDE DEF new
<1>6. ASSUME NEW i \in DOMAIN new, NEW j \in DOMAIN new, i < j PROVE new[i] < new[j]
  <2>0. i \in 1 .. L + d /\ j \in 1 .. L + d
    BY <1>3
  <2>1. CASE j \in 1 .. L
    <3>1. i \in 1 .. L
      BY <1>6, <2>0, <2>1
    <3>2. old[i] < old[j]
      BY <1>3, <1>6, <2>1, <3>1 DEF Rising
    <3> QED
      BY <1>3, <2>1, <3>1, <3>2
  <2>2. CASE i \in 1 .. L /\ j \in L + 1 .. L + d
    <3>1. new[i] < n /\ new[i] \in Nat
      BY <1>3, <1>4, <2>2
    <3>2. new[j] = n + (j - L) - 1 /\ j - L >= 1 /\ j \in Nat
      <4>1. new[j] = n + (j - L) - 1
        BY <1>3, <2>2
      <4>2. j - L >= 1 /\ j \in Nat
        BY <2>2
      <4> QED
        BY <4>1, <4>2
    <3> QED
      BY <1>1, <3>1, <3>2
  <2>3. CASE i \in L + 1 .. L + d /\ j \in L + 1 .. L + d
    <3>1. new[i] = n + (i - L) - 1 /\ new[j] = n + (j - L) - 1
      BY <1>3, <2>3
    <3>2. n + (i - L) - 1 < n + (j - L) - 1
      BY <1>1, <1>6, <2>0
    <3> QED
      BY <3>1, <3>2
  <2>4. CASE i \in L + 1 .. L + d /\ j \in 1 .. L
    BY <1>6, <2>4
  <2> QED
    BY <1>5, <2>0, <2>1, <2>2, <2>3, <2>4
<1>7. ASSUME NEW i \in DOMAIN new PROVE new[i] < k
  <2>0. i \in 1 .. L + d
    BY <1>3
  <2>1. CASE i \in 1 .. L
    <3>1. new[i] < n /\ new[i] \in Nat
      BY <1>3, <1>4, <2>1
    <3> QED
      BY <1>1, <3>1
  <2>2. CASE i \in L + 1 .. L + d
    <3>1. new[i] = n + (i - L) - 1
      BY <1>3, <2>2
    <3>2. n + (i - L) - 1 < k
      BY <1>1, <1>b, <2>2
    <3> QED
      BY <3>1, <3>2
  <2> QED
    BY <1>5, <2>0, <2>1, <2>2
<1>8. ToSet(new) = ToSet(old) \cup (n .. k - 1)
  <2>1. ASSUME NEW i \in DOMAIN new PROVE new[i] \in ToSet(old) \cup (n .. k - 1)
    <3>0. i \in 1 .. L + d
      BY <1>3
    <3>1. CASE i \in 1 .. L
      BY <1>3, <3>1 DEF ToSet
    <3>2. CASE i \in L + 1 .. L + d
      <4>1. new[i] = n + (i - L) - 1
        BY <1>3, <3>2
      <4>2. n + (i - L) - 1 \in n .. k - 1
        BY <1>1, <1>b, <3>2
      <4> QED
        BY <4>1, <4>2
    <3> QED
      BY <1>5, <3>0, <3>1, <3>2
  <2>2. ASSUME NEW i \in DOMAIN old PROVE old[i] \in ToSet(new)
    <3>1. i \in 1 .. L /\ i \in 1 .. L + d
      BY <1>3
    <3>2. i \in DOMAIN new /\ new[i] = old[i]
      BY <1>3, <3>1
    <3> QED
      BY <3>2 DEF ToSet
  <2>3. ASSUME NEW m \in n .. k - 1 PROVE m \in ToSet(new)
    <3>1. PICK i \in L + 1 .. L + d : n + (i - L) - 1 = m
      <4>1. m - n + 1 + L \in L + 1 .. L + d /\ n + (m - n + 1 + L - L) - 1 = m
        BY <1>1, <1>b
      <4> QED
        BY <4>1
    <3>2. i \in 1 .. L + d
      OBVIOUS
    <3>3. i \in DOMAIN new /\ new[i] = m
      BY <1>3, <3>1, <3>2
    <3> QED
      BY <3>3 DEF ToSet
  <2>4. \A x : x \in ToSet(new) <=> \E i \in DOMAIN new : x = new[i]
    BY DEF ToSet
  <2>5. \A x : x \in ToSet(old) <=> \E i \in DOMAIN old : x = old[i]
    BY DEF ToSet
  <2> QED
    BY <2>1, <2>2, <2>3, <2>4, <2>5
<1>9. Rising(new)
  BY <1>6 DEF Rising
<1> QED
  BY <1>3, <1>7, <1>8, <1>9 DEF new

\* A message has arrived whole when the flow is past it.
LEMMA PastIt ==
    ASSUME NEW k \in 1 .. Ends, NEW r \in Nat, r <= Length, StartOf(k) <= r,
           k \in Messages => r < StartOf(k + 1), NEW m \in Messages
    PROVE  StartOf(m + 1) <= r <=> m < k
<1>1. Ends \in Nat /\ Messages = 1 .. Ends - 1 /\ m \in Nat /\ k \in Nat
  BY StartsAre
<1>2. m + 1 \in 1 .. Ends /\ StartOf(m + 1) \in Nat /\ StartOf(k) \in Nat
  <2>1. m + 1 \in 1 .. Ends
    BY <1>1
  <2> QED
    BY <2>1, StartsAre
<1>3. CASE m < k
  <2>1. m + 1 = k \/ m + 1 < k
    BY <1>1, <1>3
  <2>2. StartOf(m + 1) <= StartOf(k)
    BY <1>2, <2>1, StartsAre
  <2> QED
    BY <1>2, <1>3, <2>2
<1>4. CASE ~(m < k)
  <2>1. k \in Messages /\ k + 1 \in 1 .. Ends /\ (k + 1 = m + 1 \/ k + 1 < m + 1)
    BY <1>1, <1>4
  <2>2. StartOf(k + 1) <= StartOf(m + 1) /\ StartOf(k + 1) \in Nat
    <3>1. StartOf(k + 1) \in Nat
      BY <2>1, StartsAre
    <3>2. k + 1 < m + 1 => StartOf(k + 1) < StartOf(m + 1)
      BY <1>2, <2>1, StartsAre
    <3> QED
      BY <1>2, <2>1, <3>1, <3>2
  <2> QED
    BY <1>2, <1>4, <2>1, <2>2
<1> QED
  BY <1>3, <1>4

\* What the flow has after it parsed the stream from message n up to r.
LEMMA Fed ==
    ASSUME NEW r \in 0 .. Length, NEW n \in 1 .. Ends, StartOf(n) <= r,
           NEW old \in Seq(Messages), Rising(old), \A i \in DOMAIN old : old[i] < n,
           NEW from \in {Absent} \cup 0 .. Length,
           from # Absent => /\ from <= StartOf(n)
                            /\ ToSet(old) = {m \in Messages : from <= StartOf(m) /\ m < n},
           NEW scan, FoundFrom(n, r, scan), ~scan.lost => r - StartOf(n) <= MaxStream, NEW flow,
           flow \in {NoFlow, [next |-> IF scan.lost THEN Absent ELSE SeqNo(r),
                              buffer |-> scan.rest]}
    PROVE  StreamAt(flow, old \o scan.msgs, IF scan.lost THEN Absent ELSE from, r)
<1>1. PICK k \in n .. Ends :
        /\ StartOf(k) <= r
        /\ scan.msgs = [i \in 1 .. k - n |-> n + i - 1]
        /\ scan.lost \in BOOLEAN
        /\ scan.lost => scan.rest = <<>>
        /\ ~scan.lost => /\ scan.rest = Stretch(StartOf(k), r)
                         /\ k \in Messages => StartOf(k + 1) > r
  BY DEF FoundFrom
<1> DEFINE new == old \o scan.msgs
<1>2. /\ new \in Seq(Messages) /\ Rising(new) /\ \A i \in DOMAIN new : new[i] < k
      /\ ToSet(new) = ToSet(old) \cup (n .. k - 1)
  <2> DEFINE add == scan.msgs
  <2>1. add = [i \in 1 .. k - n |-> n + i - 1]
    BY <1>1
  <2> HIDE DEF add
  <2>2. /\ old \o add \in Seq(Messages) /\ Rising(old \o add)
        /\ \A i \in DOMAIN (old \o add) : (old \o add)[i] < k
        /\ ToSet(old \o add) = ToSet(old) \cup (n .. k - 1)
    BY <2>1, HandedOn
  <2> QED
    BY <2>2 DEF add
<1>3. /\ Ends \in Nat /\ n \in Nat /\ k \in Nat /\ n <= k /\ k \in 1 .. Ends
      /\ Messages = 1 .. Ends - 1 /\ Length \in Nat /\ r \in Nat /\ r <= Length
      /\ StartOf(n) \in Nat /\ StartOf(k) \in Nat /\ StartOf(n) <= StartOf(k)
  <2>1. Ends \in Nat /\ n \in Nat /\ k \in Nat /\ n <= k /\ k \in 1 .. Ends
    BY StartsAre
  <2>2. n = k \/ n < k
    BY <2>1
  <2>3. StartOf(n) \in Nat /\ StartOf(k) \in Nat /\ Length \in Nat
    BY <2>1, StartsAre
  <2>4. n < k => StartOf(n) < StartOf(k)
    BY <2>1, StartsAre
  <2>5. Messages = 1 .. Ends - 1
    BY StartsAre
  <2> QED
    BY <2>1, <2>2, <2>3, <2>4, <2>5
<1>4. CASE scan.lost
  <2>1. flow = NoFlow
    BY <1>1, <1>4 DEF NoFlow
  <2> HIDE DEF new
  <2>2. StreamAt(flow, new, Absent, r)
    BY <1>2, <2>1 DEF StreamAt
  <2> QED
    BY <1>4, <2>2 DEF new
<1>5. CASE ~scan.lost
  <2> HIDE DEF new
  <2>1. k \in Messages => r < StartOf(k + 1)
    <3>1. k \in Messages => k + 1 \in 1 .. Ends
      BY <1>3
    <3>2. k \in Messages => StartOf(k + 1) \in Nat
      BY <3>1, StartsAre
    <3> QED
      BY <1>1, <1>3, <1>5, <3>2
  <2>2. ASSUME from # Absent
        PROVE  ToSet(new) = {m \in Messages : from <= StartOf(m) /\ StartOf(m + 1) <= r}
    <3>1. /\ from \in Nat /\ from <= StartOf(n)
          /\ ToSet(old) = {m \in Messages : from <= StartOf(m) /\ m < n}
      BY <2>2
    <3>2. \A m \in Messages : StartOf(m + 1) <= r <=> m < k
      BY <1>1, <1>3, <2>1, PastIt
    <3>3. ASSUME NEW m \in Messages
          PROVE  m \in ToSet(new) <=> from <= StartOf(m) /\ m < k
      <4>1. m \in Nat /\ m \in 1 .. Ends /\ StartOf(m) \in Nat
        <5>1. m \in Nat /\ m \in 1 .. Ends
          BY <1>3
        <5> QED
          BY <5>1, StartsAre
      <4>2. n <= m => StartOf(n) <= StartOf(m)
        <5>1. n <= m => n = m \/ n < m
          BY <1>3, <4>1
        <5>2. n < m => StartOf(n) < StartOf(m)
          BY <4>1, StartsAre
        <5> QED
          BY <1>3, <4>1, <5>1, <5>2
      <4>3. n <= m => from <= StartOf(m)
        BY <1>3, <3>1, <4>1, <4>2
      <4>4. m \in ToSet(new) <=> (from <= StartOf(m) /\ m < n) \/ m \in n .. k - 1
        BY <1>2, <3>1
      <4>5. m \in n .. k - 1 <=> n <= m /\ m < k
        BY <1>3, <4>1
      <4>6. (m < n => m < k) /\ (m < n \/ n <= m)
        BY <1>3, <4>1
      <4> QED
        BY <4>3, <4>4, <4>5, <4>6
    <3>4. ToSet(new) \subseteq Messages
      <4>1. ToSet(old) \subseteq Messages
        BY <3>1
      <4>2. n .. k - 1 \subseteq Messages
        BY <1>3
      <4> QED
        BY <1>2, <4>1, <4>2
    <3> QED
      BY <3>2, <3>3, <3>4
  <2>3. flow = NoFlow \/ Placed(k, flow, new, from, r)
    <3>1. flow = NoFlow \/ flow = [next |-> SeqNo(r), buffer |-> Stretch(StartOf(k), r)]
      BY <1>1, <1>5
    <3>2. r - StartOf(k) <= MaxStream
      <4>1. MaxStream \in Nat
        BY ReassemblyAssumption
      <4> QED
        BY <1>3, <1>5, <4>1
    <3>3. from # Absent => from <= StartOf(k)
      <4>1. from # Absent => from \in Nat /\ from <= StartOf(n)
        OBVIOUS
      <4> QED
        BY <1>3, <4>1
    <3> QED
      BY <1>1, <1>2, <2>1, <3>1, <3>2, <3>3 DEF Placed
  <2>4. StreamAt(flow, new, from, r)
    BY <1>2, <1>3, <2>2, <2>3 DEF StreamAt
  <2> QED
    BY <1>5, <2>4 DEF new
<1> QED
  BY <1>1, <1>4, <1>5

LostPlace == [msgs |-> <<>>, rest |-> <<>>, lost |-> TRUE]
Scanned(buffer) == IF Len(buffer) > MaxStream THEN LostPlace ELSE Scan(buffer)

\* What the flow has after it parsed the stream from p up to r, whether or not a
\* message begins at p.
LEMMA StreamFed ==
    ASSUME NEW r \in 0 .. Length, NEW p \in 0 .. Length, p <= r,
           NEW old \in Seq(Messages), Rising(old),
           NEW from \in {Absent} \cup 0 .. Length,
           (\A n \in 1 .. Ends : StartOf(n) # p) => p < r,
           \A n \in 1 .. Ends : StartOf(n) = p =>
               /\ \A i \in DOMAIN old : old[i] < n
               /\ from # Absent =>
                      /\ from <= p
                      /\ ToSet(old) = {m \in Messages : from <= StartOf(m) /\ m < n},
           NEW scan, scan = Scanned(Stretch(p, r)), NEW flow,
           flow \in {NoFlow, [next |-> IF scan.lost THEN Absent ELSE SeqNo(r),
                              buffer |-> scan.rest]}
    PROVE  StreamAt(flow, old \o scan.msgs, IF scan.lost THEN Absent ELSE from, r)
<1>1. p \in Nat /\ r \in Nat /\ r <= Length /\ Len(Stretch(p, r)) = r - p
  <2>1. p \in Nat /\ r \in Nat /\ r <= Length
    BY StartsAre
  <2> QED
    BY <2>1, StretchIs
<1>2. ASSUME NEW n \in 1 .. Ends, StartOf(n) = p
      PROVE  StreamAt(flow, old \o scan.msgs, IF scan.lost THEN Absent ELSE from, r)
  <2>1. FoundFrom(n, r, scan) /\ (~scan.lost => r - p <= MaxStream)
    <3>1. CASE Len(Stretch(p, r)) > MaxStream
      <4>1. scan = LostPlace
        BY <3>1 DEF Scanned
      <4>2. n \in Nat /\ n \in n .. Ends /\ [i \in 1 .. n - n |-> n + i - 1] = <<>>
        BY StartsAre
      <4> QED
        BY <1>2, <4>1, <4>2 DEF FoundFrom, LostPlace
    <3>2. CASE ~(Len(Stretch(p, r)) > MaxStream)
      <4>1. scan = Scan(Stretch(p, r))
        BY <3>2 DEF Scanned
      <4>2. FoundFrom(n, r, scan)
        BY <1>1, <1>2, <4>1, ScanFound
      <4>3. MaxStream \in Nat
        BY ReassemblyAssumption
      <4> QED
        BY <1>1, <3>2, <4>2, <4>3
    <3> QED
      BY <3>1, <3>2
  <2>2. \A i \in DOMAIN old : old[i] < n
    BY <1>2
  <2>3. from # Absent =>
          from <= StartOf(n) /\ ToSet(old) = {m \in Messages : from <= StartOf(m) /\ m < n}
    BY <1>2
  <2>4. StartOf(n) <= r /\ (~scan.lost => r - StartOf(n) <= MaxStream)
    BY <1>2, <2>1
  <2> QED
    BY <2>1, <2>2, <2>3, <2>4, Fed
<1>3. ASSUME \A n \in 1 .. Ends : StartOf(n) # p
      PROVE  StreamAt(flow, old \o scan.msgs, IF scan.lost THEN Absent ELSE from, r)
  <2>1. \A m \in Messages : StartOf(m) # p
    <3>1. \A m \in Messages : m \in 1 .. Ends
      BY StartsAre
    <3> QED
      BY <1>3, <3>1
  <2>2. scan = LostPlace
    <3>1. Scan(Stretch(p, r)) = LostPlace
      BY <1>1, <1>3, <2>1, ScanAstray DEF LostPlace
    <3> QED
      BY <3>1 DEF Scanned
  <2>3. scan.msgs = <<>> /\ scan.rest = <<>> /\ scan.lost = TRUE
    BY <2>2 DEF LostPlace
  <2>4. flow = NoFlow
    BY <2>3 DEF NoFlow
  <2>5. old \o <<>> = old
    OBVIOUS
  <2>6. StreamAt(flow, old, Absent, r)
    BY <2>4 DEF StreamAt
  <2> QED
    BY <2>3, <2>5, <2>6
<1> QED
  BY <1>2, <1>3

LEMMA StreamInit == PiecesInit => StreamInv
<1> SUFFICES ASSUME PiecesInit PROVE StreamInv
  OBVIOUS
<1>1. tcp = NoFlow /\ seen = <<>> /\ base = Absent /\ reach = 0
  BY DEF PiecesInit
<1>2. Length \in Nat
  BY StartsAre
<1>3. <<>> \in Seq(Messages) /\ Rising(<<>>) /\ 0 \in 0 .. Length
  BY <1>2 DEF Rising
<1> QED
  BY <1>1, <1>3 DEF StreamInv, StreamAt

\* Where no message ends before the stream was taken up, and one that begins
\* there is the first.
LEMMA TakenUp ==
    ASSUME NEW n \in 1 .. Ends
    PROVE  /\ \A i \in DOMAIN <<>> : <<>>[i] < n
           /\ ToSet(<<>>) = {m \in Messages : StartOf(n) <= StartOf(m) /\ m < n}
<1>1. ASSUME NEW m \in Messages, m < n PROVE ~(StartOf(n) <= StartOf(m))
  <2>1. m \in 1 .. Ends
    BY StartsAre
  <2>2. StartOf(m) < StartOf(n) /\ StartOf(m) \in Nat /\ StartOf(n) \in Nat
    BY <1>1, <2>1, StartsAre
  <2> QED
    BY <2>2
<1>2. ToSet(<<>>) = {}
  BY DEF ToSet
<1> QED
  BY <1>1, <1>2

LEMMA FeedStream ==
    ASSUME StreamInv, NEW from \in 0 .. Length - 1, NEW to \in 1 .. Length, FeedTcp(from, to)
    PROVE  StreamInv'
<1> DEFINE fresh == tcp.next = Absent
           got == Accept(tcp, from, to)
           scan == Scanned(got.buffer)
           began == IF fresh THEN (IF \E m \in Messages : StartOf(m) = from THEN from ELSE Absent)
                             ELSE (IF from <= reach THEN base ELSE Absent)
<1>1. /\ from < to /\ InWindow(from)
      /\ \E fin \in {FALSE, to = Length} :
           tcp' = IF fin THEN NoFlow
                  ELSE [next |-> IF scan.lost THEN Absent ELSE got.next, buffer |-> scan.rest]
      /\ seen' = (IF fresh THEN <<>> ELSE seen) \o scan.msgs
      /\ base' = IF scan.lost THEN Absent ELSE began
      /\ reach' = IF fresh \/ to > reach THEN to ELSE reach
  BY DEF FeedTcp, Scanned, LostPlace
<1>2. tcp' \in {NoFlow, [next |-> IF scan.lost THEN Absent ELSE got.next, buffer |-> scan.rest]}
  <2> HIDE DEF got, scan
  <2> QED
    BY <1>1
<1>3. /\ Length \in Nat /\ from \in Nat /\ to \in Nat /\ from <= Length /\ to <= Length
      /\ \A m \in 1 .. Ends : StartOf(m) \in Nat
      /\ \A m \in Messages : m \in 1 .. Ends
  BY StartsAre
<1>4. /\ reach \in 0 .. Length /\ base \in {Absent} \cup 0 .. Length
      /\ seen \in Seq(Messages) /\ Rising(seen)
      /\ base # Absent =>
             ToSet(seen) = {m \in Messages : base <= StartOf(m) /\ StartOf(m + 1) <= reach}
      /\ tcp = NoFlow \/ \E n \in 1 .. Ends : Placed(n, tcp, seen, base, reach)
  BY DEF StreamInv, StreamAt
<1>5. CASE tcp = NoFlow
  <2>1. fresh /\ got = [next |-> SeqNo(to), buffer |-> Stretch(from, to)]
    BY <1>1, <1>3, <1>5, AcceptFresh DEF NoFlow
  <2>2. got.next = SeqNo(to) /\ scan = Scanned(Stretch(from, to))
    BY <2>1
  <2>3. /\ seen' = <<>> \o scan.msgs /\ reach' = to
        /\ base' = IF scan.lost THEN Absent ELSE began
        /\ tcp' \in {NoFlow, [next |-> IF scan.lost THEN Absent ELSE SeqNo(to),
                              buffer |-> scan.rest]}
    <3> HIDE DEF scan, got, began
    <3> QED
      BY <1>1, <1>2, <2>1, <2>2
  <2>4. began = IF \E m \in Messages : StartOf(m) = from THEN from ELSE Absent
    BY <2>1
  <2> HIDE DEF scan, began, got
  <2>5. began \in {Absent} \cup 0 .. Length
    BY <1>3, <2>4
  <2>6. ASSUME NEW n \in 1 .. Ends, StartOf(n) = from
        PROVE  /\ \A i \in DOMAIN <<>> : <<>>[i] < n
               /\ began # Absent =>
                      /\ began <= from
                      /\ ToSet(<<>>) = {m \in Messages : began <= StartOf(m) /\ m < n}
    <3>1. began # Absent => began = from
      BY <2>4
    <3> QED
      BY <1>3, <2>6, <3>1, TakenUp
  <2>7. <<>> \in Seq(Messages) /\ Rising(<<>>) /\ to \in 0 .. Length /\ from \in 0 .. Length
        /\ from <= to /\ from < to
    BY <1>1, <1>3 DEF Rising
  <2>8. StreamAt(tcp', <<>> \o scan.msgs, IF scan.lost THEN Absent ELSE began, to)
    BY <2>2, <2>3, <2>5, <2>6, <2>7, StreamFed
  <2> QED
    BY <2>3, <2>8 DEF StreamInv
<1>6. ASSUME NEW k \in 1 .. Ends, Placed(k, tcp, seen, base, reach) PROVE StreamInv'
  <2>1. /\ StartOf(k) <= reach /\ (k \in Messages => reach < StartOf(k + 1))
        /\ \A i \in DOMAIN seen : seen[i] < k
        /\ tcp = [next |-> SeqNo(reach), buffer |-> Stretch(StartOf(k), reach)]
        /\ base # Absent => base <= StartOf(k)
    BY <1>6 DEF Placed
  <2>2. reach \in Nat /\ StartOf(k) \in Nat /\ StartOf(k) <= Length /\ reach <= Length
    BY <1>3, <1>4, StartsAre
  <2>3. ~fresh
    BY <2>1, <2>2, SeqNoIs
  <2>4. reach - from < Half /\ from - reach <= Half
    BY <1>1, <2>3 DEF InWindow
  <2>5. /\ from > reach => got = [next |-> SeqNo(to), buffer |-> Stretch(from, to)]
        /\ from <= reach /\ to > reach =>
               got = [next |-> SeqNo(to), buffer |-> Stretch(StartOf(k), to)]
        /\ from <= reach /\ to <= reach => got = tcp
    BY <1>1, <1>3, <2>1, <2>2, <2>4, AcceptKnown
  <2>6. CASE from > reach
    <3>1. got.next = SeqNo(to) /\ scan = Scanned(Stretch(from, to)) /\ began = Absent
      <4>1. began = Absent
        BY <1>3, <2>2, <2>3, <2>6
      <4>2. got = [next |-> SeqNo(to), buffer |-> Stretch(from, to)]
        BY <2>5, <2>6
      <4> HIDE DEF got
      <4>3. got.next = SeqNo(to) /\ got.buffer = Stretch(from, to)
        BY <4>2
      <4> QED
        BY <4>1, <4>3
    <3>2. /\ seen' = seen \o scan.msgs /\ reach' = to
          /\ base' = IF scan.lost THEN Absent ELSE Absent
          /\ tcp' \in {NoFlow, [next |-> IF scan.lost THEN Absent ELSE SeqNo(to),
                                buffer |-> scan.rest]}
      <4>1. to > reach
        BY <1>1, <1>3, <2>2, <2>6
      <4> HIDE DEF scan, got, began
      <4> QED
        BY <1>1, <1>2, <2>3, <3>1, <4>1
    <3> HIDE DEF scan, began, got
    <3>3. ASSUME NEW n \in 1 .. Ends, StartOf(n) = from
          PROVE  \A i \in DOMAIN seen : seen[i] < n
      <4>1. n \in Nat /\ k \in Nat /\ n > k
        <5>1. n \in Nat /\ k \in Nat
          BY StartsAre
        <5>2. n < k => StartOf(n) < StartOf(k)
          BY StartsAre
        <5> QED
          BY <1>3, <2>1, <2>2, <2>6, <3>3, <5>1, <5>2
      <4>2. \A i \in DOMAIN seen : seen[i] \in Nat
        <5>1. \A i \in DOMAIN seen : seen[i] \in Messages
          BY <1>4
        <5> QED
          BY <5>1, StartsAre
      <4> QED
        BY <2>1, <4>1, <4>2
    <3>4. to \in 0 .. Length /\ from \in 0 .. Length /\ from <= to /\ from < to
      BY <1>1, <1>3
    <3>5. Absent \in {Absent} \cup 0 .. Length
      OBVIOUS
    <3>6. StreamAt(tcp', seen \o scan.msgs, IF scan.lost THEN Absent ELSE Absent, to)
      BY <1>4, <3>1, <3>2, <3>3, <3>4, <3>5, StreamFed
    <3> QED
      BY <3>2, <3>6 DEF StreamInv
  <2>7. CASE from <= reach
    <3> DEFINE r == IF to > reach THEN to ELSE reach
               p == StartOf(k)
    <3>1. got.next = SeqNo(r) /\ got.buffer = Stretch(p, r) /\ began = base
      BY <1>3, <2>1, <2>2, <2>3, <2>5, <2>7
    <3>2. scan = Scanned(Stretch(p, r))
      BY <3>1
    <3>3. /\ seen' = seen \o scan.msgs /\ reach' = r
          /\ base' = IF scan.lost THEN Absent ELSE base
          /\ tcp' \in {NoFlow, [next |-> IF scan.lost THEN Absent ELSE SeqNo(r),
                                buffer |-> scan.rest]}
      <4>1. reach' = r
        BY <1>1, <2>3
      <4> HIDE DEF scan, got, began, r
      <4> QED
        BY <1>1, <1>2, <2>3, <3>1, <4>1
    <3>4. r \in 0 .. Length /\ p \in 0 .. Length /\ p <= r
      BY <1>3, <2>1, <2>2
    <3> HIDE DEF scan, began, got, r
    <3>5. ASSUME NEW n \in 1 .. Ends, StartOf(n) = p
          PROVE  /\ \A i \in DOMAIN seen : seen[i] < n
                 /\ base # Absent =>
                        /\ base <= p
                        /\ ToSet(seen) = {m \in Messages : base <= StartOf(m) /\ m < n}
      <4>1. n = k
        BY <3>5, StartsAre
      <4>2. \A m \in Messages : StartOf(m + 1) <= reach <=> m < k
        BY <2>1, <2>2, PastIt
      <4>3. base # Absent =>
              {m \in Messages : base <= StartOf(m) /\ StartOf(m + 1) <= reach}
                = {m \in Messages : base <= StartOf(m) /\ m < k}
        BY <4>2
      <4> QED
        BY <1>4, <2>1, <4>1, <4>3
    <3>6. (\A n \in 1 .. Ends : StartOf(n) # p) => p < r
      OBVIOUS
    <3> HIDE DEF p
    <3>7. StreamAt(tcp', seen \o scan.msgs, IF scan.lost THEN Absent ELSE base, r)
      BY <1>4, <3>2, <3>3, <3>4, <3>5, <3>6, StreamFed
    <3> QED
      BY <3>3, <3>7 DEF StreamInv
  <2> QED
    BY <1>3, <2>2, <2>6, <2>7
<1> QED
  BY <1>4, <1>5, <1>6

LEMMA SynStream == ASSUME Syn PROVE StreamInv'
<1>1. /\ tcp' = [next |-> SeqNo(0), buffer |-> <<>>]
      /\ seen' = <<>> /\ base' = 0 /\ reach' = 0
  BY DEF Syn
<1>2. /\ Ends \in Nat \ {0} /\ Length \in Nat /\ StartOf(1) = 0 /\ 1 \in 1 .. Ends
      /\ Messages = 1 .. Ends - 1
  BY StartsAre
<1>3. ASSUME NEW m \in Messages PROVE 0 < StartOf(m + 1)
  <2>1. m + 1 \in 1 .. Ends /\ 1 < m + 1
    BY <1>2
  <2> QED
    BY <1>2, <2>1, StartsAre
<1>4. ~(\E m \in Messages : StartOf(m + 1) <= 0)
  <2>1. \A m \in Messages : StartOf(m + 1) \in Nat
    <3>1. \A m \in Messages : m + 1 \in 1 .. Ends
      BY <1>2
    <3> QED
      BY <3>1, StartsAre
  <2> QED
    BY <1>3, <2>1
<1>5. ToSet(<<>>) = {m \in Messages : 0 <= StartOf(m) /\ StartOf(m + 1) <= 0}
  BY <1>4 DEF ToSet
<1>6. Placed(1, [next |-> SeqNo(0), buffer |-> <<>>], <<>>, 0, 0)
  <2>1. Stretch(0, 0) = <<>>
    BY DEF Stretch
  <2>2. MaxStream \in Nat
    BY ReassemblyAssumption
  <2>3. 1 \in Messages => 0 < StartOf(1 + 1)
    BY <1>3
  <2>4. StartOf(1) <= 0 /\ 0 - StartOf(1) <= MaxStream /\ 0 <= StartOf(1)
    BY <1>2, <2>2
  <2>5. \A i \in DOMAIN <<>> : <<>>[i] < 1
    OBVIOUS
  <2>6. Stretch(StartOf(1), 0) = <<>>
    BY <1>2, <2>1
  <2> QED
    BY <2>3, <2>4, <2>5, <2>6 DEF Placed
<1>7. <<>> \in Seq(Messages) /\ Rising(<<>>) /\ 0 \in 0 .. Length
  BY <1>2 DEF Rising
<1>8. StreamAt([next |-> SeqNo(0), buffer |-> <<>>], <<>>, 0, 0)
  BY <1>2, <1>5, <1>6, <1>7 DEF StreamAt
<1> QED
  BY <1>1, <1>8 DEF StreamInv

LEMMA StreamNext == StreamInv /\ [PiecesNext]_pieceVars => StreamInv'
<1> SUFFICES ASSUME StreamInv, [PiecesNext]_pieceVars PROVE StreamInv'
  OBVIOUS
<1>1. ASSUME tcp' = tcp, seen' = seen, base' = base, reach' = reach PROVE StreamInv'
  BY <1>1 DEF StreamInv
<1>2. ASSUME NEW d, NEW from, NEW to, FeedIp(d, from, to) PROVE StreamInv'
  BY <1>1, <1>2 DEF FeedIp
<1>3. ASSUME NEW d, NEW k, FeedTp(d, k) PROVE StreamInv'
  BY <1>1, <1>3 DEF FeedTp
<1>4. ASSUME NEW from \in 0 .. Length - 1, NEW to \in 1 .. Length, FeedTcp(from, to)
      PROVE  StreamInv'
  BY <1>4, FeedStream
<1>5. CASE Syn
  BY <1>5, SynStream
<1>6. CASE UNCHANGED pieceVars
  BY <1>1, <1>6 DEF pieceVars
<1> QED
  BY <1>2, <1>3, <1>4, <1>5, <1>6 DEF PiecesNext

\* A flow that knows its place hands every message on once and in order, and,
\* while it missed no segment, all that have arrived whole: whatever segments
\* come again, late or not at all, and wherever the sequence numbers wrap.
THEOREM StreamOnceInOrder == PiecesSpec => []StreamsHonest
<1>1. StreamInv => StreamsHonest
  BY DEF StreamInv, StreamAt, Rising, StreamsHonest, InOrderOnce, NothingHeldBack
<1> QED
  BY <1>1, StreamInit, StreamNext, PTL DEF PiecesSpec

-----------------------------------------------------------------------------
(* Network management.  A PDU that is ready to sleep has been so since the   *)
(* frame that said it; one that prepares has been ready long enough.         *)

LEMMA ShortestBounds ==
    /\ ShortestReady \in Nat /\ ShortestPrepare \in Nat
    /\ \A t \in Timings : ShortestReady <= t.ready /\ ShortestPrepare <= t.prepare
<1> DEFINE ready_times == {t.ready : t \in Timings}
           prepare_times == {t.prepare : t \in Timings}
<1>1. ready_times \in SUBSET Nat /\ prepare_times \in SUBSET Nat
  BY NmAssumption
<1>2. ready_times # {} /\ prepare_times # {}
  BY NmAssumption
<1>3. /\ ShortestReady = CHOOSE m \in ready_times : \A n \in ready_times : m <= n
      /\ ShortestPrepare = CHOOSE m \in prepare_times : \A n \in prepare_times : m <= n
  BY DEF ShortestReady, ShortestPrepare, Min
<1>4. /\ \E m \in ready_times : \A n \in ready_times : m <= n
      /\ \E m \in prepare_times : \A n \in prepare_times : m <= n
  <2> HIDE DEF ready_times, prepare_times
  <2> QED
    BY <1>1, <1>2, LeastNat
<1>5. /\ ShortestReady \in ready_times /\ \A n \in ready_times : ShortestReady <= n
      /\ ShortestPrepare \in prepare_times /\ \A n \in prepare_times : ShortestPrepare <= n
  <2> HIDE DEF ready_times, prepare_times
  <2> QED
    BY <1>3, <1>4
<1> QED
  BY <1>1, <1>5

TrackType == [state : States \cup {"Untracked"}, since : Nat, seen : Nat]

NmInv ==
    /\ nmSim \in Nat
    /\ nm \in [Pdus -> TrackType]
    /\ timing \in Timings \cup {NoTiming}
    /\ ready \in [Pdus -> Nat]
    /\ \A p \in Pdus :
          /\ nm[p].state = "ReadySleep" => nm[p].since = ready[p]
          /\ nm[p].state = "PrepareBusSleep" => nm[p].since > ready[p] + ShortestReady

LEMMA NmInvInit == NmInit => NmInv
BY DEF NmInit, NmInv, TrackType, Untracked, States

LEMMA CurrentType ==
    ASSUME NmInv
    PROVE  /\ Current.timeout \in Nat /\ Current.ready \in Nat /\ Current.prepare \in Nat
           /\ Current.ready >= ShortestReady /\ Current.prepare >= ShortestPrepare
<1>1. Current \in Timings
  BY NmAssumption DEF NmInv, Current
<1>2. Current.ready >= ShortestReady /\ Current.prepare >= ShortestPrepare
  BY <1>1, ShortestBounds
<1> QED
  BY <1>1, <1>2, NmAssumption

\* The decay of one track, and what it takes to fall asleep.
LEMMA ExpiredShape ==
    ASSUME NmInv, NEW p \in Pdus, NEW now \in Nat
    PROVE  LET x == Expired(nm[p], now)
           IN  /\ x \in TrackType
               /\ x.state = "ReadySleep" => x = nm[p]
               /\ x.state = "PrepareBusSleep" =>
                     x = nm[p] \/ (/\ nm[p].state = "ReadySleep" /\ x.since = now
                                   /\ Since(now, nm[p].since) > Current.ready)
               /\ x.state = "BusSleep" /\ nm[p].state # "BusSleep" =>
                     \/ Since(now, nm[p].seen) > Current.timeout
                     \/ /\ nm[p].state = "PrepareBusSleep"
                        /\ Since(now, nm[p].since) > Current.prepare
               /\ nm[p].state # "Untracked" /\ Since(now, nm[p].seen) > Current.timeout =>
                     x.state = "BusSleep"
<1>1. nm[p] \in TrackType
  BY DEF NmInv
<1> QED
  BY <1>1 DEF Expired, TrackType, States, Awake

LEMMA PublishKeeps ==
    ASSUME NmInv, NEW now, Publish(now)
    PROVE  /\ NmInv'
           /\ \A p \in Pdus :
                 /\ nm'[p].state = "BusSleep" /\ nm[p].state # "BusSleep" =>
                       \/ Since(nmSim', nm[p].seen) > Current.timeout
                       \/ Since(nmSim', ready[p]) > ShortestReady + ShortestPrepare
                 /\ nm[p].state # "Untracked" /\ Since(now, nm[p].seen) > Current.timeout =>
                       nm'[p].state = "BusSleep"
<1>1. /\ now \in Nat /\ nmSim' = now /\ timing' = timing /\ ready' = ready
      /\ nm' = [p \in Pdus |-> Expired(nm[p], now)]
  BY NmAssumption DEF Publish, NmInv
<1>2. ASSUME NEW p \in Pdus
      PROVE  /\ nm'[p] = Expired(nm[p], now) /\ nm'[p] \in TrackType
             /\ nm'[p].state = "ReadySleep" => nm'[p] = nm[p]
             /\ nm'[p].state = "PrepareBusSleep" =>
                     nm'[p] = nm[p] \/ (/\ nm[p].state = "ReadySleep" /\ nm'[p].since = now
                                        /\ Since(now, nm[p].since) > Current.ready)
             /\ nm'[p].state = "BusSleep" /\ nm[p].state # "BusSleep" =>
                     \/ Since(now, nm[p].seen) > Current.timeout
                     \/ /\ nm[p].state = "PrepareBusSleep"
                        /\ Since(now, nm[p].since) > Current.prepare
             /\ nm[p].state # "Untracked" /\ Since(now, nm[p].seen) > Current.timeout =>
                     nm'[p].state = "BusSleep"
  <2>1. nm'[p] = Expired(nm[p], now)
    BY <1>1
  <2> QED
    BY <1>1, <2>1, ExpiredShape
<1>3. /\ Current.ready \in Nat /\ Current.prepare \in Nat
      /\ ShortestReady \in Nat /\ ShortestPrepare \in Nat
      /\ Current.ready >= ShortestReady /\ Current.prepare >= ShortestPrepare
  BY CurrentType, ShortestBounds
<1>4. ASSUME NEW p \in Pdus
      PROVE  /\ nm[p].since \in Nat /\ ready[p] \in Nat
             /\ nm[p].state = "ReadySleep" => nm[p].since = ready[p]
             /\ nm[p].state = "PrepareBusSleep" => nm[p].since > ready[p] + ShortestReady
  BY DEF NmInv, TrackType
<1>5. ASSUME NEW p \in Pdus
      PROVE  /\ nm'[p].state = "ReadySleep" => nm'[p].since = ready[p]
             /\ nm'[p].state = "PrepareBusSleep" => nm'[p].since > ready[p] + ShortestReady
  <2>1. nm'[p].state = "ReadySleep" => nm'[p].since = ready[p]
    BY <1>2, <1>4
  <2>2. ASSUME nm'[p].state = "PrepareBusSleep" PROVE nm'[p].since > ready[p] + ShortestReady
    <3>1. CASE nm'[p] = nm[p]
      BY <1>4, <2>2, <3>1
    <3>2. CASE nm[p].state = "ReadySleep" /\ nm'[p].since = now
                 /\ Since(now, nm[p].since) > Current.ready
      BY <1>1, <1>3, <1>4, <3>2 DEF Since
    <3> QED
      BY <1>2, <2>2, <3>1, <3>2
  <2> QED
    BY <2>1, <2>2
<1>6. ASSUME NEW p \in Pdus, nm'[p].state = "BusSleep", nm[p].state # "BusSleep"
      PROVE  \/ Since(nmSim', nm[p].seen) > Current.timeout
             \/ Since(nmSim', ready[p]) > ShortestReady + ShortestPrepare
  <2>1. CASE nm[p].state = "PrepareBusSleep" /\ Since(now, nm[p].since) > Current.prepare
    BY <1>1, <1>3, <1>4, <2>1 DEF Since
  <2> QED
    BY <1>1, <1>2, <1>6, <2>1
<1>7. NmInv'
  <2>1. nm' \in [Pdus -> TrackType]
    BY <1>1, <1>2
  <2> QED
    BY <1>1, <1>5, <2>1 DEF NmInv
<1> QED
  BY <1>2, <1>6, <1>7

\* A frame: a state it announces anew counts from its stamp.
LEMMA NmFrameKeeps ==
    ASSUME NmInv, NEW p \in Pdus, NEW repeat \in BOOLEAN, NEW sleep \in BOOLEAN,
           NEW t \in nmSim .. nmSim + Lead, NmFrame(p, repeat, sleep, t)
    PROVE  /\ NmInv'
           /\ \A q \in Pdus : nm'[q].state = "BusSleep" => nm[q].state = "BusSleep"
<1> DEFINE next == Announced(repeat, sleep)
<1>1. t \in Nat /\ next \in Awake
  BY NmAssumption DEF NmInv, Announced, Awake
<1> HIDE DEF next
<1>2. /\ nm' = [nm EXCEPT ![p] = Track(nm[p], next, t)]
      /\ ready' = [ready EXCEPT ![p] = IF next = "ReadySleep" /\ nm[p].state # next
                                       THEN t ELSE ready[p]]
      /\ UNCHANGED <<nmSim, timing>>
  BY DEF NmFrame, next
<1>3. nm \in [Pdus -> TrackType] /\ ready \in [Pdus -> Nat] /\ nm[p] \in TrackType
  BY DEF NmInv
<1>4. Track(nm[p], next, t) \in TrackType /\ Track(nm[p], next, t).state = next
        /\ Track(nm[p], next, t).since = IF nm[p].state = next THEN nm[p].since ELSE t
  BY <1>1, <1>3 DEF Track, TrackType, States
<1>5. nm' \in [Pdus -> TrackType] /\ ready' \in [Pdus -> Nat]
  BY <1>1, <1>2, <1>3, <1>4
<1>6. /\ nm'[p].state = next
      /\ nm'[p].since = IF nm[p].state = next THEN nm[p].since ELSE t
      /\ ready'[p] = IF next = "ReadySleep" /\ nm[p].state # next THEN t ELSE ready[p]
  BY <1>2, <1>3, <1>4
<1>7. \A q \in Pdus \ {p} : nm'[q] = nm[q] /\ ready'[q] = ready[q]
  BY <1>2, <1>3
<1>8. ASSUME NEW q \in Pdus
      PROVE  /\ nm'[q].state = "ReadySleep" => nm'[q].since = ready'[q]
             /\ nm'[q].state = "PrepareBusSleep" => nm'[q].since > ready'[q] + ShortestReady
             /\ nm'[q].state = "BusSleep" => nm[q].state = "BusSleep"
  <2>1. CASE q = p
    BY <1>1, <1>6, <2>1 DEF NmInv, Awake
  <2>2. CASE q # p
    BY <1>7, <2>2 DEF NmInv
  <2> QED
    BY <2>1, <2>2
<1> QED
  BY <1>2, <1>5, <1>8 DEF NmInv

Earned ==
    \A p \in Pdus : nm'[p].state = "BusSleep" /\ nm[p].state # "BusSleep" =>
        \/ Since(nmSim', nm[p].seen) > Current.timeout
        \/ Since(nmSim', ready[p]) > ShortestReady + ShortestPrepare

Silent ==
    \A now \in 0 .. MaxNmSim : Publish(now) =>
        \A p \in Pdus : nm[p].state # "Untracked" /\ Since(now, nm[p].seen) > Current.timeout
                        => nm'[p].state = "BusSleep"

LEMMA NmStep == NmInv /\ [NmNext]_nmVars => NmInv' /\ [Earned]_nmVars /\ [Silent]_nmVars
<1> SUFFICES ASSUME NmInv, [NmNext]_nmVars PROVE NmInv' /\ [Earned]_nmVars /\ [Silent]_nmVars
  OBVIOUS
<1>1. Silent
  BY PublishKeeps DEF Silent
<1>2. ASSUME NEW p \in Pdus, NEW repeat \in BOOLEAN, NEW sleep \in BOOLEAN,
             NEW t \in nmSim .. nmSim + Lead, NmFrame(p, repeat, sleep, t)
      PROVE  NmInv' /\ Earned
  BY <1>2, NmFrameKeeps DEF Earned
<1>3. ASSUME NEW now, Publish(now) PROVE NmInv' /\ Earned
  BY <1>3, PublishKeeps DEF Earned
<1>4. ASSUME NEW t \in Timings, NEW script \in BOOLEAN, SetTiming(t, script)
      PROVE  NmInv' /\ Earned
  BY <1>4 DEF SetTiming, NmInv, Earned
<1>5. ASSUME NEW clock \in BOOLEAN, Reset(clock) PROVE NmInv' /\ Earned
  <2>1. \A p \in Pdus : nm'[p] = Untracked /\ ready'[p] = 0
    BY <1>5 DEF Reset
  <2>2. NmInv'
    BY <1>5 DEF Reset, NmInv, TrackType, Untracked, States
  <2>3. Earned
    BY <2>1 DEF Earned, Untracked
  <2> QED
    BY <2>2, <2>3
<1>6. CASE UNCHANGED nmVars
  BY <1>6 DEF nmVars, NmInv
<1>7. CASE NmNext
  <2>1. NmInv' /\ Earned
    BY <1>2, <1>3, <1>4, <1>5, <1>7 DEF NmNext
  <2> QED
    BY <1>1, <2>1
<1> QED
  BY <1>6, <1>7

\* A PDU is put to sleep only after silence or after it announced its sleep and
\* waited its two times, and is not shown awake once it was silent too long:
\* for every set of timings, however they are changed meanwhile.
THEOREM SleepIsEarned == NmSpec => NmHonest
<1>1. NmSpec => [][Earned]_nmVars /\ [][Silent]_nmVars
  BY NmInvInit, NmStep, PTL DEF NmSpec
<1> QED
  BY <1>1 DEF NmHonest, SleepEarned, SilentSleeps, Earned, Silent

-----------------------------------------------------------------------------
(* SOME/IP: how requests end and whom notifications reach                   *)

\* The ranks of a set of positions enumerate it.
LEMMA NthEnumerates ==
    ASSUME NEW n \in Nat, NEW kept \in SUBSET (1 .. n)
    PROVE  /\ Cardinality(kept) \in Nat
           /\ \A j \in 1 .. Cardinality(kept) : Nth(kept, j) \in kept
           /\ \A i, j \in 1 .. Cardinality(kept) : Nth(kept, i) = Nth(kept, j) => i = j
           /\ \A i \in kept : \E j \in 1 .. Cardinality(kept) : Nth(kept, j) = i
<1> DEFINE Upto(x) == {h \in kept : h <= x}
           rank == [x \in kept |-> Cardinality(Upto(x))]
           size == Cardinality(kept)
<1>1. IsFiniteSet(kept) /\ size \in Nat
  <2>1. IsFiniteSet(1 .. n)
    BY FS_Interval
  <2> QED
    BY <2>1, FS_Subset, FS_CardinalityType
<1>2. ASSUME NEW x \in kept
      PROVE  IsFiniteSet(Upto(x)) /\ Cardinality(Upto(x)) \in 1 .. size
  <2>1. Upto(x) \in SUBSET kept /\ x \in Upto(x)
    BY <1>2
  <2>2. IsFiniteSet(Upto(x)) /\ Cardinality(Upto(x)) <= size
    BY <1>1, <2>1, FS_Subset
  <2>3. Cardinality(Upto(x)) \in Nat
    BY <2>2, FS_CardinalityType
  <2>4. Cardinality(Upto(x)) # 0
    BY <2>1, <2>2, FS_EmptySet
  <2> QED
    BY <1>1, <2>2, <2>3, <2>4
<1>3. ASSUME NEW x \in kept, NEW y \in kept, x < y
      PROVE  Cardinality(Upto(x)) < Cardinality(Upto(y))
  <2>0. x \in Int /\ y \in Int /\ \A h \in kept : h \in Int
    OBVIOUS
  <2>1. Upto(x) \subseteq Upto(y)
    <3>1. ASSUME NEW h \in Upto(x)
          PROVE  h \in kept /\ h <= y
      <4>1. h \in kept /\ h <= x
        OBVIOUS
      <4> QED
        BY <1>3, <2>0, <4>1
    <3> QED
      BY <3>1
  <2>4. y \in Upto(y) /\ ~(y <= x)
    BY <1>3, <2>0
  <2>5. y \notin Upto(x)
    BY <2>4
  <2>2. /\ Cardinality(Upto(x)) <= Cardinality(Upto(y))
        /\ Cardinality(Upto(x)) # Cardinality(Upto(y))
    BY <1>2, <2>1, <2>4, <2>5, FS_Subset
  <2> QED
    BY <1>1, <1>2, <2>2
<1>4. rank \in Injection(kept, 1 .. size)
  <2>1. rank \in [kept -> 1 .. size]
    BY <1>2
  <2>2. ASSUME NEW x \in kept, NEW y \in kept, x # y
        PROVE  rank[x] # rank[y]
    <3>1. x < y \/ y < x
      BY <2>2
    <3> QED
      BY <1>1, <1>2, <1>3, <3>1
  <2> HIDE DEF rank
  <2> QED
    BY <2>1, <2>2, Fun_IsInj
<1>5. \A j \in 1 .. size : \E i \in kept : rank[i] = j
  <2>1. IsFiniteSet(1 .. size) /\ Cardinality(1 .. size) = size
    BY <1>1, FS_Interval
  <2>2. rank \in Surjection(kept, 1 .. size)
    <3> HIDE DEF rank
    <3> QED
      BY <1>4, <2>1, FS_Injection
  <2> HIDE DEF rank, size
  <2> QED
    BY <2>2, Fun_SurjectionProperties
<1>6. ASSUME NEW j \in 1 .. size
      PROVE  Nth(kept, j) \in kept /\ rank[Nth(kept, j)] = j
  <2>1. PICK i \in kept : rank[i] = j
    BY <1>5
  <2>2. Cardinality({h \in kept : h <= i}) = j
    BY <2>1
  <2> QED
    BY <2>2 DEF Nth
<1>7. ASSUME NEW i \in kept
      PROVE  \E j \in 1 .. size : Nth(kept, j) = i
  <2>1. rank[i] \in 1 .. size
    BY <1>2
  <2>2. Nth(kept, rank[i]) \in kept /\ rank[Nth(kept, rank[i])] = rank[i]
    BY <1>6, <2>1
  <2>3. \A x, y \in kept : rank[x] = rank[y] => x = y
    <3> HIDE DEF rank, size
    <3> QED
      BY <1>4, Fun_InjectionProperties
  <2> HIDE DEF rank, size
  <2> QED
    BY <2>1, <2>2, <2>3
<1> HIDE DEF rank
<1> QED
  BY <1>1, <1>6, <1>7

\* What Vec::retain leaves: the elements at the kept positions, each once.
LEMMA RetainedKeeps ==
    ASSUME NEW S, NEW s \in Seq(S), NEW kept \in SUBSET DOMAIN s
    PROVE  LET left == Retained(s, kept) IN
           /\ left \in Seq(S)
           /\ DOMAIN left = 1 .. Cardinality(kept)
           /\ \A j \in DOMAIN left : Nth(kept, j) \in kept /\ left[j] = s[Nth(kept, j)]
           /\ \A i, j \in DOMAIN left : Nth(kept, i) = Nth(kept, j) => i = j
           /\ \A i \in kept : \E j \in DOMAIN left : Nth(kept, j) = i
<1> DEFINE left == Retained(s, kept)
<1>1. Len(s) \in Nat /\ DOMAIN s = 1 .. Len(s) /\ \A i \in DOMAIN s : s[i] \in S
  OBVIOUS
<1>2. /\ Cardinality(kept) \in Nat
      /\ \A j \in 1 .. Cardinality(kept) : Nth(kept, j) \in kept
      /\ \A i, j \in 1 .. Cardinality(kept) : Nth(kept, i) = Nth(kept, j) => i = j
      /\ \A i \in kept : \E j \in 1 .. Cardinality(kept) : Nth(kept, j) = i
  <2> HIDE DEF left
  <2>1. PICK n \in Nat : n = Len(s)
    BY <1>1
  <2>2. kept \in SUBSET (1 .. n)
    BY <1>1, <2>1
  <2> QED
    BY ONLY <2>1, <2>2, NthEnumerates
<1>3. /\ DOMAIN left = 1 .. Cardinality(kept)
      /\ \A j \in DOMAIN left : left[j] = s[Nth(kept, j)]
  BY DEF Retained
<1>4. left \in Seq(S)
  <2>1. left \in [1 .. Cardinality(kept) -> S]
    BY <1>1, <1>2 DEF Retained
  <2> HIDE DEF left
  <2> QED
    BY <1>2, <2>1
<1> HIDE DEF left
<1>5. /\ left \in Seq(S)
      /\ DOMAIN left = 1 .. Cardinality(kept)
      /\ \A j \in DOMAIN left : Nth(kept, j) \in kept /\ left[j] = s[Nth(kept, j)]
      /\ \A i, j \in DOMAIN left : Nth(kept, i) = Nth(kept, j) => i = j
      /\ \A i \in kept : \E j \in DOMAIN left : Nth(kept, j) = i
  BY <1>2, <1>3, <1>4
<1> QED
  BY <1>5 DEF left

-----------------------------------------------------------------------------
(* Requests                                                                 *)

Fates == {"open", "answered", "timeout"}
Numbers == 1 .. Wrap - 1
Requests == [key : Calls, session : Numbers, at : 0 .. MaxSim, fate : Fates, heard : BOOLEAN]
Waits == [key : Calls, session : Numbers, deadline : 0 .. MaxSim + Patience, n : 1 .. MaxSends]
Recipients == Endpoints \cup {"everyone", "sender"}
WireMessages == [type : Types, key : Calls, session : Numbers, to : Recipients]
Listeners == [group : Groups, endpoint : Endpoints]

\* Someone waits for a request exactly as long as it is open, once, under its
\* identity and until its deadline.
Waiting(pend, ask) ==
    /\ \A i \in DOMAIN pend :
          /\ pend[i].n \in DOMAIN ask
          /\ pend[i].key = ask[pend[i].n].key /\ pend[i].session = ask[pend[i].n].session
          /\ pend[i].deadline = ask[pend[i].n].at + Patience
          /\ ask[pend[i].n].fate = "open"
    /\ \A i, j \in DOMAIN pend : pend[i].n = pend[j].n => i = j
    /\ \A n \in DOMAIN ask : ask[n].fate = "open" => \E i \in DOMAIN pend : pend[i].n = n

Same(r, q) == r.key = q.key /\ r.session = q.session
Alone(ask, n) == \A m \in DOMAIN ask : Same(ask[m], ask[n]) => m = n

\* How a request ended.
Ended(now, ask) == \A n \in DOMAIN ask :
    /\ ask[n].fate = "timeout" => now > ask[n].at + Patience
    /\ ask[n].fate = "answered" => ask[n].heard
    /\ Alone(ask, n) /\ ask[n].heard => ask[n].fate = "answered"

Followed(now, pend, ask) ==
    /\ now \in 0 .. MaxSim
    /\ pend \in Seq(Waits) /\ ask \in Seq(Requests)
    /\ Waiting(pend, ask) /\ Ended(now, ask)

\* The requests of the waits in "over" have ended, and nothing else happened.
Closes(pend, ask, over, ask1) == \A n \in DOMAIN ask :
    /\ Same(ask1[n], ask[n]) /\ ask1[n].at = ask[n].at
    /\ (\E i \in over : pend[i].n = n) => ask1[n].fate # "open"
    /\ ask1[n].fate # ask[n].fate => \E i \in over : pend[i].n = n

\* Some waits are over, and their requests no longer open.
LEMMA SomeOver ==
    ASSUME NEW pend \in Seq(Waits), NEW ask \in Seq(Requests), Waiting(pend, ask),
           NEW over, over \subseteq DOMAIN pend, NEW later \in Seq(Requests),
           DOMAIN later = DOMAIN ask, Closes(pend, ask, over, later)
    PROVE  /\ Retained(pend, DOMAIN pend \ over) \in Seq(Waits)
           /\ Waiting(Retained(pend, DOMAIN pend \ over), later)
<1> DEFINE kept == DOMAIN pend \ over
           left == Retained(pend, kept)
           at == [j \in DOMAIN left |-> Nth(kept, j)]
<1>1. /\ left \in Seq(Waits)
      /\ \A j \in DOMAIN left : Nth(kept, j) \in kept /\ left[j] = pend[Nth(kept, j)]
      /\ \A i, j \in DOMAIN left : Nth(kept, i) = Nth(kept, j) => i = j
      /\ \A i \in kept : \E j \in DOMAIN left : Nth(kept, j) = i
  <2>1. kept \in SUBSET DOMAIN pend
    OBVIOUS
  <2> HIDE DEF kept
  <2> QED
    BY <2>1, RetainedKeeps
<1>2. /\ \A j \in DOMAIN left : at[j] \in DOMAIN pend /\ at[j] \notin over /\ left[j] = pend[at[j]]
      /\ \A i, j \in DOMAIN left : at[i] = at[j] => i = j
      /\ \A i \in DOMAIN pend \ over : \E j \in DOMAIN left : at[j] = i
  BY <1>1
<1> HIDE DEF at, left, kept
<1>3. ASSUME NEW j \in DOMAIN left
      PROVE  /\ left[j].n \in DOMAIN later
             /\ left[j].key = later[left[j].n].key /\ left[j].session = later[left[j].n].session
             /\ left[j].deadline = later[left[j].n].at + Patience
             /\ later[left[j].n].fate = "open"
  <2>1. /\ at[j] \in DOMAIN pend /\ at[j] \notin over /\ left[j] = pend[at[j]]
    BY <1>2
  <2>2. /\ left[j].n \in DOMAIN ask
        /\ left[j].key = ask[left[j].n].key /\ left[j].session = ask[left[j].n].session
        /\ left[j].deadline = ask[left[j].n].at + Patience
        /\ ask[left[j].n].fate = "open"
    BY <2>1 DEF Waiting
  <2>3. ~\E i \in over : pend[i].n = left[j].n
    BY <2>1 DEF Waiting
  <2> QED
    BY <2>2, <2>3 DEF Same, Closes
<1>4. ASSUME NEW i \in DOMAIN left, NEW j \in DOMAIN left, left[i].n = left[j].n
      PROVE  i = j
  <2>1. at[i] \in DOMAIN pend /\ at[j] \in DOMAIN pend /\ pend[at[i]].n = pend[at[j]].n
    BY <1>2, <1>4
  <2>2. at[i] = at[j]
    BY <2>1 DEF Waiting
  <2> QED
    BY <1>2, <2>2
<1>5. ASSUME NEW n \in DOMAIN later, later[n].fate = "open"
      PROVE  \E j \in DOMAIN left : left[j].n = n
  <2>1. ask[n].fate = "open" /\ ~\E i \in over : pend[i].n = n
    BY <1>5 DEF Closes
  <2>2. PICK i \in DOMAIN pend : pend[i].n = n
    BY <2>1, <1>5 DEF Waiting
  <2>3. PICK j \in DOMAIN left : at[j] = i
    BY <1>2, <2>1, <2>2
  <2> QED
    BY <1>2, <2>2, <2>3
<1>6. Waiting(left, later)
  BY <1>3, <1>4, <1>5 DEF Waiting
<1> QED
  BY <1>1, <1>6 DEF left, kept

\* A new request is open and waited for; it was not heard.
LEMMA RequestAdded ==
    ASSUME NEW now, NEW pend, NEW ask, Followed(now, pend, ask), Len(ask) < MaxSends,
           NEW k \in Calls, NEW session \in Numbers
    PROVE  LET wait == [key |-> k, session |-> session, deadline |-> now + Patience, n |-> Len(ask) + 1]
               request == [key |-> k, session |-> session, at |-> now, fate |-> "open", heard |-> FALSE]
           IN  Followed(now, Append(pend, wait), Append(ask, request))
<1> DEFINE wait == [key |-> k, session |-> session, deadline |-> now + Patience, n |-> Len(ask) + 1]
           request == [key |-> k, session |-> session, at |-> now, fate |-> "open", heard |-> FALSE]
           pend1 == Append(pend, wait)
           ask1 == Append(ask, request)
           latest == Len(ask) + 1
<1>1. /\ now \in 0 .. MaxSim /\ now \in Nat /\ now + Patience \in 0 .. MaxSim + Patience
      /\ pend \in Seq(Waits) /\ ask \in Seq(Requests) /\ Len(ask) \in Nat /\ latest \in 1 .. MaxSends
      /\ DOMAIN ask = 1 .. Len(ask) /\ latest \notin DOMAIN ask
  BY SomeIpAssumption DEF Followed
<1>2. wait \in Waits /\ request \in Requests
  BY <1>1 DEF Waits, Requests, Fates
<1>3. /\ wait.key = k /\ wait.session = session /\ wait.deadline = now + Patience /\ wait.n = latest
      /\ request.key = k /\ request.session = session /\ request.at = now /\ request.fate = "open"
      /\ ~request.heard
  OBVIOUS
<1> HIDE DEF wait, request
<1>4. /\ pend1 \in Seq(Waits) /\ ask1 \in Seq(Requests)
      /\ DOMAIN ask1 = DOMAIN ask \cup {latest} /\ ask1[latest] = request
      /\ \A n \in DOMAIN ask : ask1[n] = ask[n]
  BY <1>1, <1>2
<1>5. PICK top : /\ DOMAIN pend1 = DOMAIN pend \cup {top} /\ top \notin DOMAIN pend /\ pend1[top] = wait
                 /\ \A i \in DOMAIN pend : pend1[i] = pend[i]
  <2>1. DOMAIN pend1 = DOMAIN pend \cup {Len(pend) + 1} /\ Len(pend) + 1 \notin DOMAIN pend
        /\ pend1[Len(pend) + 1] = wait
    BY <1>1, <1>2
  <2>2. \A i \in DOMAIN pend : pend1[i] = pend[i]
    BY <1>1, <1>2
  <2> QED
    BY <2>1, <2>2
<1> HIDE DEF pend1, ask1, latest
<1>6. Waiting(pend, ask) /\ Ended(now, ask)
  BY DEF Followed
<1>7. Waiting(pend1, ask1)
  <2>1. ASSUME NEW i \in DOMAIN pend1
        PROVE  /\ pend1[i].n \in DOMAIN ask1
               /\ pend1[i].key = ask1[pend1[i].n].key /\ pend1[i].session = ask1[pend1[i].n].session
               /\ pend1[i].deadline = ask1[pend1[i].n].at + Patience
               /\ ask1[pend1[i].n].fate = "open"
    <3>1. CASE i = top
      BY <1>3, <1>4, <1>5, <3>1
    <3>2. CASE i \in DOMAIN pend
      BY <1>4, <1>5, <1>6, <3>2 DEF Waiting
    <3> QED
      BY <1>5, <3>1, <3>2
  <2>2. ASSUME NEW i \in DOMAIN pend1, NEW j \in DOMAIN pend1, pend1[i].n = pend1[j].n
        PROVE  i = j
    BY <1>1, <1>3, <1>4, <1>5, <1>6, <2>2 DEF Waiting
  <2>3. ASSUME NEW n \in DOMAIN ask1, ask1[n].fate = "open"
        PROVE  \E i \in DOMAIN pend1 : pend1[i].n = n
    BY <1>3, <1>4, <1>5, <1>6, <2>3 DEF Waiting
  <2> QED
    BY <2>1, <2>2, <2>3 DEF Waiting
<1>8. Ended(now, ask1)
  <2>1. ASSUME NEW n \in DOMAIN ask1
        PROVE  /\ ask1[n].fate = "timeout" => now > ask1[n].at + Patience
               /\ ask1[n].fate = "answered" => ask1[n].heard
               /\ Alone(ask1, n) /\ ask1[n].heard => ask1[n].fate = "answered"
    <3>1. CASE n = latest
      BY <1>3, <1>4, <3>1
    <3>2. CASE n \in DOMAIN ask
      <4>1. Alone(ask1, n) => Alone(ask, n)
        BY <1>4, <3>2 DEF Alone
      <4> QED
        BY <1>4, <1>6, <3>2, <4>1 DEF Ended
    <3> QED
      BY <1>4, <3>1, <3>2
  <2> QED
    BY <2>1 DEF Ended
<1>9. Followed(now, pend1, ask1)
  BY <1>1, <1>4, <1>7, <1>8 DEF Followed
<1> QED
  BY <1>9 DEF pend1, ask1, wait, request, latest

\* The first of some positions is one of them.
LEMMA LeastOf ==
    ASSUME NEW n \in Nat, NEW S \in SUBSET (1 .. n), S # {}
    PROVE  Min(S) \in S
<1>1. S \in SUBSET Nat
  OBVIOUS
<1>2. \E x \in S : \A y \in S : x <= y
  BY <1>1, LeastNat
<1> QED
  BY <1>2 DEF Min

\* The waits a response names, what the requests hear of it, and one answered.
Naming(pend, k, session) == {i \in DOMAIN pend : pend[i].key = k /\ pend[i].session = session}
Hearing(ask, k, session) == [n \in DOMAIN ask |-> Heard(ask[n], k, session)]
Closed(ask, n) == [ask EXCEPT ![n] = [ask[n] EXCEPT !.fate = "answered"]]

\* A response: the requests it names hear it, and the first that waits for it is
\* answered.
LEMMA ResponseTaken ==
    ASSUME NEW now, NEW pend, NEW ask, Followed(now, pend, ask),
           NEW k \in Calls, NEW session \in Numbers
    PROVE  LET found == Naming(pend, k, session)
               heard == Hearing(ask, k, session)
           IN  /\ found = {} => Followed(now, pend, heard)
               /\ found # {} => Followed(now, Without(pend, Min(found)), Closed(heard, pend[Min(found)].n))
<1> DEFINE found == Naming(pend, k, session)
           heard == Hearing(ask, k, session)
<1>0. /\ found = {i \in DOMAIN pend : pend[i].key = k /\ pend[i].session = session}
      /\ heard = [n \in DOMAIN ask |-> Heard(ask[n], k, session)]
  BY DEF Naming, Hearing
<1> HIDE DEF found, heard
<1>1. /\ now \in 0 .. MaxSim /\ pend \in Seq(Waits) /\ ask \in Seq(Requests)
      /\ Waiting(pend, ask) /\ Ended(now, ask)
      /\ DOMAIN ask = 1 .. Len(ask) /\ Len(ask) \in Nat
  BY DEF Followed
<1>2. ASSUME NEW n \in DOMAIN ask
      PROVE  /\ ask[n] \in Requests /\ heard[n] \in Requests
             /\ Same(heard[n], ask[n]) /\ heard[n].at = ask[n].at /\ heard[n].fate = ask[n].fate
             /\ heard[n].heard <=>
                  ask[n].heard \/ (ask[n].fate = "open" /\ ask[n].key = k /\ ask[n].session = session)
  <2>1. ask[n] \in Requests
    BY <1>1
  <2>2. heard[n] = Heard(ask[n], k, session)
    BY <1>0
  <2>3. heard[n] = [ask[n] EXCEPT !.heard =
                     ask[n].heard \/ (ask[n].fate = "open" /\ ask[n].key = k /\ ask[n].session = session)]
    BY <2>2 DEF Heard
  <2> QED
    BY <2>1, <2>3 DEF Requests, Same
<1>3. /\ DOMAIN heard = DOMAIN ask /\ heard \in Seq(Requests)
  <2>1. heard = [n \in 1 .. Len(ask) |-> heard[n]] /\ DOMAIN heard = DOMAIN ask
    BY <1>0, <1>1
  <2>2. heard \in [1 .. Len(ask) -> Requests]
    BY <1>1, <1>2, <2>1
  <2> QED
    BY <1>1, <2>1, <2>2
<1>4. ASSUME NEW n \in DOMAIN ask
      PROVE  /\ Alone(heard, n) => Alone(ask, n)
             /\ Alone(heard, n) /\ heard[n].heard =>
                  ask[n].fate = "answered" \/ (\E i \in found : pend[i].n = n)
  <2>1. Alone(heard, n) => Alone(ask, n)
    BY <1>2, <1>3 DEF Alone, Same
  <2>2. ASSUME Alone(ask, n), ask[n].heard
        PROVE  ask[n].fate = "answered"
    BY <1>1, <2>2 DEF Ended
  <2>3. ASSUME ask[n].fate = "open", ask[n].key = k, ask[n].session = session
        PROVE  \E i \in found : pend[i].n = n
    <3>1. PICK i \in DOMAIN pend : pend[i].n = n
      BY <1>1, <2>3 DEF Waiting
    <3>2. pend[i].key = k /\ pend[i].session = session
      BY <1>1, <2>3, <3>1 DEF Waiting
    <3> QED
      BY <1>0, <3>1, <3>2
  <2> QED
    BY <1>2, <2>1, <2>2, <2>3
<1>5. ASSUME found = {}
      PROVE  Followed(now, pend, heard)
  <2>1. Waiting(pend, heard)
    <3>1. \A i \in DOMAIN pend : pend[i].n \in DOMAIN ask
      BY <1>1 DEF Waiting
    <3>2. ASSUME NEW i \in DOMAIN pend
          PROVE  /\ pend[i].key = heard[pend[i].n].key /\ pend[i].session = heard[pend[i].n].session
                 /\ pend[i].deadline = heard[pend[i].n].at + Patience
                 /\ heard[pend[i].n].fate = "open"
      <4>1. /\ Same(heard[pend[i].n], ask[pend[i].n])
            /\ heard[pend[i].n].at = ask[pend[i].n].at /\ heard[pend[i].n].fate = ask[pend[i].n].fate
        BY <1>2, <3>1
      <4> QED
        BY <1>1, <4>1 DEF Waiting, Same
    <3>3. \A n \in DOMAIN ask : heard[n].fate = ask[n].fate
      BY <1>2
    <3> QED
      BY <1>1, <1>3, <3>1, <3>2, <3>3 DEF Waiting
  <2>2. Ended(now, heard)
    BY <1>1, <1>2, <1>3, <1>4, <1>5 DEF Ended
  <2> QED
    BY <1>1, <1>3, <2>1, <2>2 DEF Followed
<1>6. ASSUME found # {}
      PROVE  Followed(now, Without(pend, Min(found)), Closed(heard, pend[Min(found)].n))
  <2> DEFINE first == Min(found)
             n0 == pend[first].n
             ask1 == [heard EXCEPT ![n0] = [heard[n0] EXCEPT !.fate = "answered"]]
  <2>1. first \in found /\ first \in DOMAIN pend /\ pend[first].key = k /\ pend[first].session = session
    <3>1. found \in SUBSET (1 .. Len(pend)) /\ Len(pend) \in Nat
      BY <1>0, <1>1
    <3> QED
      BY <1>0, <1>6, <3>1, LeastOf
  <2> HIDE DEF first
  <2>2. /\ n0 \in DOMAIN ask /\ ask[n0].fate = "open" /\ ask[n0].key = k /\ ask[n0].session = session
    BY <1>1, <2>1 DEF Waiting
  <2> HIDE DEF n0
  <2>3. heard[n0] \in Requests /\ heard[n0].heard
    BY <1>2, <2>2
  <2>4. /\ [heard[n0] EXCEPT !.fate = "answered"] \in Requests
        /\ [heard[n0] EXCEPT !.fate = "answered"].fate = "answered"
        /\ [heard[n0] EXCEPT !.fate = "answered"].at = heard[n0].at
        /\ [heard[n0] EXCEPT !.fate = "answered"].heard = heard[n0].heard
        /\ Same([heard[n0] EXCEPT !.fate = "answered"], heard[n0])
    <3> QED
      BY <2>3 DEF Requests, Fates, Same
  <2>5. /\ DOMAIN ask1 = DOMAIN ask /\ ask1 \in Seq(Requests)
        /\ \A n \in DOMAIN ask : n # n0 => ask1[n] = heard[n]
        /\ ask1[n0].fate = "answered" /\ ask1[n0].at = heard[n0].at /\ ask1[n0].heard
        /\ Same(ask1[n0], heard[n0])
    <3>1. DOMAIN ask1 = DOMAIN ask /\ \A n \in DOMAIN ask : n # n0 => ask1[n] = heard[n]
      BY <1>3
    <3>2. ask1[n0] = [heard[n0] EXCEPT !.fate = "answered"]
      BY <1>3, <2>2
    <3>3. ask1 \in [1 .. Len(ask) -> Requests]
      BY <1>1, <1>2, <1>3, <2>4, <3>1, <3>2
    <3> HIDE DEF ask1
    <3>4. ask1 \in Seq(Requests)
      BY <1>1, <3>3
    <3> QED
      BY <2>3, <2>4, <3>1, <3>2, <3>4
  <2> HIDE DEF ask1
  <2>6. ASSUME NEW n \in DOMAIN ask
        PROVE  /\ Same(ask1[n], ask[n]) /\ ask1[n].at = ask[n].at
               /\ (\E i \in {first} : pend[i].n = n) => ask1[n].fate # "open"
               /\ ask1[n].fate # ask[n].fate => \E i \in {first} : pend[i].n = n
    <3>1. CASE n = n0
      BY <1>2, <2>2, <2>5, <3>1 DEF Same, n0
    <3>2. CASE n # n0
      BY <1>2, <2>5, <3>2 DEF n0
    <3> QED
      BY <3>1, <3>2
  <2>7. /\ Retained(pend, DOMAIN pend \ {first}) \in Seq(Waits)
        /\ Waiting(Retained(pend, DOMAIN pend \ {first}), ask1)
    <3>1. Closes(pend, ask, {first}, ask1) /\ {first} \subseteq DOMAIN pend
      BY <2>1, <2>6 DEF Closes
    <3> QED
      BY <1>1, <2>5, <3>1, SomeOver
  <2>8. Ended(now, ask1)
    <3>1. ASSUME NEW n \in DOMAIN ask1
          PROVE  /\ ask1[n].fate = "timeout" => now > ask1[n].at + Patience
                 /\ ask1[n].fate = "answered" => ask1[n].heard
                 /\ Alone(ask1, n) /\ ask1[n].heard => ask1[n].fate = "answered"
      <4>1. CASE n = n0
        BY <2>5, <4>1
      <4>2. CASE n # n0
        <5>1. ask1[n] = heard[n] /\ n \in DOMAIN ask
          BY <2>5, <4>2
        <5>2. Alone(ask1, n) => Alone(heard, n)
          BY <1>2, <1>3, <2>5, <2>6, <5>1 DEF Alone, Same
        <5>3. Alone(heard, n) /\ heard[n].heard => ask[n].fate = "answered"
          <6>1. ASSUME NEW i \in found, pend[i].n = n, Alone(heard, n)
                PROVE  FALSE
            <7>1. ask[n].key = k /\ ask[n].session = session
              BY <1>0, <1>1, <6>1 DEF Waiting
            <7>2. Same(ask[n0], ask[n])
              BY <2>2, <7>1 DEF Same
            <7>3. Alone(ask, n)
              BY <1>4, <5>1, <6>1
            <7> QED
              BY <2>2, <4>2, <7>2, <7>3 DEF Alone
          <6> QED
            BY <1>4, <5>1, <6>1
        <5> QED
          BY <1>1, <1>2, <5>1, <5>2, <5>3 DEF Ended
      <4> QED
        BY <4>1, <4>2
    <3> QED
      BY <3>1 DEF Ended
  <2>9. Followed(now, Without(pend, first), ask1)
    BY <1>1, <2>5, <2>7, <2>8 DEF Followed, Without
  <2> QED
    BY <2>9 DEF n0, first, ask1, Closed
<1> QED
  BY <1>5, <1>6 DEF found, heard

\* What has waited too long times out; a request that was heard under its own
\* identity is not among them.
LEMMA WaitsExpired ==
    ASSUME NEW now, NEW pend, NEW ask, Followed(now, pend, ask), NEW later \in now .. MaxSim,
           NEW over, over = {i \in DOMAIN pend : later > pend[i].deadline}
    PROVE  Followed(later, Retained(pend, DOMAIN pend \ over),
                    [n \in DOMAIN ask |-> IF \E i \in over : pend[i].n = n
                                            THEN [ask[n] EXCEPT !.fate = "timeout"] ELSE ask[n]])
<1> DEFINE ask1 == [n \in DOMAIN ask |-> IF \E i \in over : pend[i].n = n
                                           THEN [ask[n] EXCEPT !.fate = "timeout"] ELSE ask[n]]
<1>1. /\ now \in 0 .. MaxSim /\ pend \in Seq(Waits) /\ ask \in Seq(Requests)
      /\ Waiting(pend, ask) /\ Ended(now, ask)
      /\ DOMAIN ask = 1 .. Len(ask) /\ Len(ask) \in Nat
      /\ later \in 0 .. MaxSim /\ later >= now /\ later \in Nat /\ now \in Nat /\ Patience \in Nat
  BY SomeIpAssumption DEF Followed
<1>2. ASSUME NEW n \in DOMAIN ask
      PROVE  /\ ask1[n] \in Requests /\ Same(ask1[n], ask[n])
             /\ ask1[n].at = ask[n].at /\ ask[n].at \in Nat
             /\ ask1[n].heard = ask[n].heard
             /\ IF \E i \in over : pend[i].n = n THEN ask1[n].fate = "timeout" ELSE ask1[n].fate = ask[n].fate
  <2>1. ask[n] \in Requests
    BY <1>1
  <2>2. CASE \E i \in over : pend[i].n = n
    <3>1. ask1[n] = [ask[n] EXCEPT !.fate = "timeout"]
      BY <2>2
    <3> HIDE DEF ask1
    <3> QED
      BY <2>1, <2>2, <3>1 DEF Requests, Same, Fates
  <2>3. CASE ~\E i \in over : pend[i].n = n
    <3>1. ask1[n] = ask[n]
      BY <2>3
    <3> HIDE DEF ask1
    <3> QED
      BY <2>1, <2>3, <3>1 DEF Requests, Same
  <2> QED
    BY <2>2, <2>3
<1>3. DOMAIN ask1 = DOMAIN ask
  OBVIOUS
<1> HIDE DEF ask1
<1>4. ask1 \in Seq(Requests)
  <2>1. ask1 \in [1 .. Len(ask) -> Requests]
    <3>1. ask1 = [n \in 1 .. Len(ask) |-> ask1[n]]
      BY <1>1 DEF ask1
    <3> QED
      BY <1>1, <1>2, <3>1
  <2> QED
    BY <1>1, <2>1
<1>5. Waiting(Retained(pend, DOMAIN pend \ over), ask1) /\ Retained(pend, DOMAIN pend \ over) \in Seq(Waits)
  <2>1. over \subseteq DOMAIN pend
    OBVIOUS
  <2>2. Closes(pend, ask, over, ask1)
    BY <1>2 DEF Closes
  <2>3. pend \in Seq(Waits) /\ ask \in Seq(Requests) /\ Waiting(pend, ask)
    BY <1>1
  <2> QED
    BY <1>3, <1>4, <2>1, <2>2, <2>3, SomeOver
<1>6. ASSUME NEW n \in DOMAIN ask1
      PROVE  /\ ask1[n].fate = "timeout" => later > ask1[n].at + Patience
             /\ ask1[n].fate = "answered" => ask1[n].heard
             /\ Alone(ask1, n) /\ ask1[n].heard => ask1[n].fate = "answered"
  <2>1. CASE \E i \in over : pend[i].n = n
    <3>1. PICK i \in over : pend[i].n = n
      BY <2>1
    <3>2. later > ask[n].at + Patience /\ ask[n].fate = "open"
      BY <1>1, <3>1 DEF Waiting
    <3>3. Alone(ask1, n) => Alone(ask, n)
      BY <1>2, <1>3 DEF Alone, Same
    <3>4. ~(Alone(ask, n) /\ ask[n].heard)
      BY <1>1, <1>3, <3>2 DEF Ended
    <3> QED
      BY <1>2, <1>3, <2>1, <3>2, <3>3, <3>4
  <2>2. CASE ~\E i \in over : pend[i].n = n
    <3>1. Alone(ask1, n) => Alone(ask, n)
      BY <1>2, <1>3 DEF Alone, Same
    <3>2. /\ ask[n].fate = "timeout" => now > ask[n].at + Patience
          /\ ask[n].fate = "answered" => ask[n].heard
          /\ Alone(ask, n) /\ ask[n].heard => ask[n].fate = "answered"
      BY <1>1, <1>3 DEF Ended
    <3>3. ask1[n].fate = ask[n].fate /\ ask1[n].heard = ask[n].heard /\ ask1[n].at = ask[n].at /\ ask[n].at \in Nat
      BY <1>2, <1>3, <2>2
    <3> QED
      BY <1>1, <3>1, <3>2, <3>3
  <2> QED
    BY <2>1, <2>2
<1>7. Followed(later, Retained(pend, DOMAIN pend \ over), ask1)
  BY <1>1, <1>4, <1>5, <1>6 DEF Followed, Ended
<1> QED
  BY <1>7 DEF ask1

-----------------------------------------------------------------------------
(* What a handler works on                                                  *)

Cores == [sim : 0 .. MaxSim, sessions : [Calls -> 0 .. Wrap - 1], pending : Seq(Waits),
          offers : SUBSET Services, replies : SUBSET Calls, subs : Seq(Listeners),
          wire : Seq(WireMessages), asked : Seq(Requests), promised : SUBSET Services]

Tracks(c) == c \in Cores /\ Followed(c.sim, c.pending, c.asked)

\* What sending and answering leave alone.
Alike(c, d) == d.sim = c.sim /\ d.offers = c.offers /\ d.subs = c.subs

\* A session number is counted up, or taken as asked for; nothing else moves.
LEMMA NextSessionKeeps ==
    ASSUME NEW c, Tracks(c), NEW k \in Calls, NEW requested \in 0 .. Wrap - 1
    PROVE  LET got == NextSession(c, k, requested) IN
           /\ Tracks(got.core) /\ Alike(c, got.core) /\ got.session \in Numbers
           /\ got.core.wire = c.wire /\ got.core.asked = c.asked
<1>1. CASE requested # 0
  BY <1>1 DEF NextSession, Alike, Numbers
<1>2. CASE requested = 0
  <2> DEFINE sessions1 == [c.sessions EXCEPT ![k] = IF c.sessions[k] + 1 = Wrap THEN 1 ELSE c.sessions[k] + 1]
             d == [c EXCEPT !.sessions = sessions1]
  <2>1. c \in Cores /\ c.sessions \in [Calls -> 0 .. Wrap - 1]
    BY DEF Tracks, Cores
  <2>2. sessions1 \in [Calls -> 0 .. Wrap - 1] /\ sessions1[k] \in Numbers
    BY <2>1, SomeIpAssumption DEF Numbers
  <2>3. Counted(c, k) = d
    BY DEF Counted
  <2> HIDE DEF sessions1
  <2>4. /\ d \in Cores /\ d.sessions = sessions1 /\ d.wire = c.wire /\ d.asked = c.asked
        /\ d.pending = c.pending /\ d.sim = c.sim /\ d.offers = c.offers /\ d.subs = c.subs
    BY <2>1, <2>2 DEF Cores
  <2> HIDE DEF d
  <2> QED
    BY <1>2, <2>2, <2>3, <2>4 DEF NextSession, Tracks, Alike
<1> QED
  BY <1>1, <1>2

\* What is sent as a request is waited for from then on.
LEMMA NotedKeeps ==
    ASSUME NEW c, Tracks(c), Len(c.asked) < MaxSends,
           NEW type \in Types, NEW k \in Calls, NEW session \in Numbers
    PROVE  LET d == Noted(c, type, k, session) IN
           Tracks(d) /\ Alike(c, d) /\ d.wire = c.wire
<1>1. CASE type # "request"
  BY <1>1 DEF Noted, Alike
<1>2. CASE type = "request"
  <2> DEFINE pend1 == Append(c.pending, [key |-> k, session |-> session,
                                        deadline |-> c.sim + Patience, n |-> Len(c.asked) + 1])
             ask1 == Append(c.asked, [key |-> k, session |-> session, at |-> c.sim,
                                      fate |-> "open", heard |-> FALSE])
             d == [c EXCEPT !.pending = pend1, !.asked = ask1]
  <2>1. c \in Cores /\ Followed(c.sim, c.pending, c.asked)
    BY DEF Tracks
  <2>2. Followed(c.sim, pend1, ask1)
    BY <2>1, RequestAdded
  <2>3. Noted(c, type, k, session) = d
    BY <1>2 DEF Noted
  <2> HIDE DEF pend1, ask1
  <2>4. pend1 \in Seq(Waits) /\ ask1 \in Seq(Requests)
    BY <2>2 DEF Followed
  <2>5. /\ d \in Cores /\ d.wire = c.wire /\ d.asked = ask1
        /\ d.pending = pend1 /\ d.sim = c.sim /\ d.offers = c.offers /\ d.subs = c.subs
    BY <2>1, <2>4 DEF Cores
  <2> HIDE DEF d
  <2> QED
    BY <2>2, <2>3, <2>5 DEF Tracks, Alike
<1> QED
  BY <1>1, <1>2

\* A response takes one wait at most and leaves the others.
LEMMA AnsweredKeeps ==
    ASSUME NEW c, Tracks(c), NEW k \in Calls, NEW session \in Numbers
    PROVE  LET d == Answered(c, k, session) IN
           Tracks(d) /\ Alike(c, d) /\ d.wire = c.wire /\ Len(d.asked) = Len(c.asked)
<1> DEFINE found == Naming(c.pending, k, session)
           heard == Hearing(c.asked, k, session)
           n0 == c.pending[Min(found)].n
           pend1 == IF found = {} THEN c.pending ELSE Without(c.pending, Min(found))
           ask1 == IF found = {} THEN heard ELSE Closed(heard, n0)
           d == [c EXCEPT !.pending = pend1, !.asked = ask1]
<1>1. c \in Cores /\ Followed(c.sim, c.pending, c.asked)
  BY DEF Tracks
<1>2. Followed(c.sim, pend1, ask1)
  BY <1>1, ResponseTaken
<1>3. Answered(c, k, session) = d
  <2>1. Matching(c, k, session) = found
    BY DEF Matching, Naming
  <2>2. c.pending = pend1 => [c EXCEPT !.asked = ask1] = d
    <3> HIDE DEF pend1, ask1
    <3> QED
      BY <1>1 DEF Cores
  <2> QED
    BY <2>1, <2>2 DEF Answered, Hearing, Closed
<1>4. DOMAIN ask1 = DOMAIN c.asked
  BY DEF Hearing, Closed
<1> HIDE DEF pend1, ask1
<1>5. pend1 \in Seq(Waits) /\ ask1 \in Seq(Requests)
  BY <1>2 DEF Followed
<1>6. /\ d \in Cores /\ d.wire = c.wire /\ d.asked = ask1
      /\ d.pending = pend1 /\ d.sim = c.sim /\ d.offers = c.offers /\ d.subs = c.subs
  BY <1>1, <1>5 DEF Cores
<1> HIDE DEF d
<1>7. Len(ask1) = Len(c.asked)
  BY <1>1, <1>4, <1>5 DEF Cores
<1> QED
  BY <1>2, <1>3, <1>6, <1>7 DEF Tracks, Alike

\* No notification on the wire; or those of a service went to its subscriptions,
\* to each one.
Plain(w) == \A i \in DOMAIN w : w[i].type # "notification"
Told(w, service) == {i \in DOMAIN w :
    w[i].type = "notification" /\ w[i].to # "sender" /\ Service[w[i].key] = service}
Listening(subs, service) == {p \in DOMAIN subs : GroupOf[subs[p].group] = service}
Delivered(w, subs) == \A service \in Services :
    Told(w, service) # {} =>
        \E f \in Bijection(Told(w, service), Listening(subs, service)) :
            \A i \in Told(w, service) : w[i].to = subs[f[i]].endpoint

\* Where nothing was notified nothing is due.
LEMMA PlainDelivers ==
    ASSUME NEW w, Plain(w), NEW subs
    PROVE  Delivered(w, subs)
BY DEF Plain, Delivered, Told

\* A frame on the wire; on a bus without a port a response comes back as an answer.
LEMMA SentKeeps ==
    ASSUME NEW c, Tracks(c), NEW type \in Types, NEW k \in Calls, NEW session \in Numbers,
           NEW to \in {"everyone", "sender"}
    PROVE  LET d == Sent(c, type, k, session, to) IN
           /\ Tracks(d) /\ Alike(c, d) /\ Len(d.asked) = Len(c.asked)
           /\ to = "everyone" => d.wire = c.wire
           /\ Plain(c.wire) /\ type # "notification" => Plain(d.wire)
<1> DEFINE passed == IF to = Everyone THEN c
                     ELSE [c EXCEPT !.wire = Append(c.wire, Message(type, k, session, to))]
<1>1. /\ Tracks(passed) /\ Alike(c, passed) /\ passed.asked = c.asked
      /\ to = "everyone" => passed.wire = c.wire
      /\ Plain(c.wire) /\ type # "notification" => Plain(passed.wire)
  <2>1. CASE to = "everyone"
    BY <2>1 DEF Everyone, Alike
  <2>2. CASE to # "everyone"
    <3> DEFINE m == Message(type, k, session, to)
               wire1 == Append(c.wire, m)
               d == [c EXCEPT !.wire = wire1]
    <3>1. m \in WireMessages /\ m.type = type
      BY DEF Message, WireMessages, Recipients
    <3>2. passed = d
      BY <2>2 DEF Everyone
    <3>3. c \in Cores /\ c.wire \in Seq(WireMessages)
      BY DEF Tracks, Cores
    <3> HIDE DEF m, passed
    <3>4. wire1 \in Seq(WireMessages)
      BY <3>1, <3>3
    <3>5. Plain(c.wire) /\ type # "notification" => Plain(wire1)
      BY <3>1, <3>3 DEF Plain
    <3> HIDE DEF wire1
    <3>6. /\ d \in Cores /\ d.wire = wire1 /\ d.asked = c.asked
          /\ d.pending = c.pending /\ d.sim = c.sim /\ d.offers = c.offers /\ d.subs = c.subs
      BY <3>3, <3>4 DEF Cores
    <3> HIDE DEF d
    <3> QED
      BY <2>2, <3>2, <3>5, <3>6 DEF Tracks, Alike
  <2> QED
    BY <2>1, <2>2
<1>2. Sent(c, type, k, session, to) =
          IF looped /\ type = "response" THEN Answered(passed, k, session) ELSE passed
  BY DEF Sent
<1> HIDE DEF passed
<1>3. /\ Tracks(Answered(passed, k, session)) /\ Alike(passed, Answered(passed, k, session))
      /\ Answered(passed, k, session).wire = passed.wire
      /\ Len(Answered(passed, k, session).asked) = Len(passed.asked)
  BY <1>1, AnsweredKeeps
<1> QED
  BY <1>1, <1>2, <1>3 DEF Alike

\* A panel or a rule sends: over TCP the second half is left out.
LEMMA SendKeeps ==
    ASSUME NEW c, Tracks(c), Len(c.asked) < MaxSends, NEW type \in Types, NEW k \in Calls,
           NEW requested \in 0 .. Wrap - 1
    PROVE  LET got == NextSession(c, k, requested)
               noted == Noted(got.core, type, k, got.session)
               sent == Sent(noted, type, k, got.session, Everyone)
           IN  /\ Tracks(noted) /\ Alike(c, noted) /\ noted.wire = c.wire
               /\ Tracks(sent) /\ Alike(c, sent) /\ sent.wire = c.wire
<1> DEFINE got == NextSession(c, k, requested)
           noted == Noted(got.core, type, k, got.session)
           sent == Sent(noted, type, k, got.session, Everyone)
<1>1. /\ Tracks(got.core) /\ Alike(c, got.core) /\ got.session \in Numbers
      /\ got.core.wire = c.wire /\ got.core.asked = c.asked
  BY NextSessionKeeps
<1> HIDE DEF got
<1>2. Tracks(noted) /\ Alike(got.core, noted) /\ noted.wire = got.core.wire
  BY <1>1, NotedKeeps
<1> HIDE DEF noted
<1>3. Tracks(sent) /\ Alike(noted, sent) /\ sent.wire = noted.wire
  BY <1>1, <1>2, SentKeeps DEF Everyone
<1> HIDE DEF sent
<1>4. /\ Tracks(noted) /\ Alike(c, noted) /\ noted.wire = c.wire
      /\ Tracks(sent) /\ Alike(c, sent) /\ sent.wire = c.wire
  BY <1>1, <1>2, <1>3 DEF Alike
<1> QED
  BY <1>4 DEF sent, noted, got

\* The notifications of a script go to the subscriptions of the service.
LEMMA NotificationsDelivered ==
    ASSUME NEW w \in Seq(WireMessages), Plain(w), NEW subs \in Seq(Listeners),
           NEW k \in Calls, NEW session \in Numbers, NEW to,
           to = Retained(subs, Listening(subs, Service[k])),
           NEW block, block = [i \in DOMAIN to |-> Message("notification", k, session, to[i].endpoint)]
    PROVE  w \o block \in Seq(WireMessages) /\ Delivered(w \o block, subs)
<1> DEFINE kept == Listening(subs, Service[k])
           both == w \o block
<1>1. kept \in SUBSET DOMAIN subs
  BY DEF Listening
<1>2. /\ to \in Seq(Listeners) /\ DOMAIN to = 1 .. Len(to) /\ Len(to) \in Nat
      /\ \A j \in DOMAIN to : Nth(kept, j) \in kept /\ to[j] = subs[Nth(kept, j)]
      /\ \A i, j \in DOMAIN to : Nth(kept, i) = Nth(kept, j) => i = j
      /\ \A i \in kept : \E j \in DOMAIN to : Nth(kept, j) = i
  <2>1. /\ to \in Seq(Listeners)
        /\ \A j \in DOMAIN to : Nth(kept, j) \in kept /\ to[j] = subs[Nth(kept, j)]
        /\ \A i, j \in DOMAIN to : Nth(kept, i) = Nth(kept, j) => i = j
        /\ \A i \in kept : \E j \in DOMAIN to : Nth(kept, j) = i
    <3> HIDE DEF kept
    <3>1. to = Retained(subs, kept)
      BY DEF kept
    <3> QED
      BY <1>1, <3>1, RetainedKeeps
  <2> QED
    BY <2>1
<1> HIDE DEF kept
<1>3. ASSUME NEW j \in DOMAIN to
      PROVE  /\ block[j] \in WireMessages /\ block[j].type = "notification" /\ block[j].key = k
             /\ block[j].to = to[j].endpoint /\ block[j].to # "sender"
  <2>1. to[j] \in Listeners
    BY <1>2
  <2>2. to[j].endpoint \in Endpoints /\ to[j].endpoint # "sender"
    BY <2>1, SomeIpAssumption DEF Listeners
  <2>3. block[j] = Message("notification", k, session, to[j].endpoint)
    OBVIOUS
  <2> QED
    BY <2>2, <2>3 DEF Message, WireMessages, Recipients, Types
<1>4. block \in Seq(WireMessages) /\ Len(block) = Len(to)
  <2>1. block = [i \in 1 .. Len(to) |-> block[i]]
    BY <1>2
  <2>2. block \in [1 .. Len(to) -> WireMessages]
    BY <1>2, <1>3, <2>1
  <2> QED
    BY <1>2, <2>2
<1>5. /\ both \in Seq(WireMessages) /\ Len(w) \in Nat
      /\ DOMAIN both = 1 .. Len(w) + Len(to) /\ DOMAIN w = 1 .. Len(w)
      /\ \A i \in 1 .. Len(w) : both[i] = w[i]
      /\ \A i \in Len(w) + 1 .. Len(w) + Len(to) : both[i] = block[i - Len(w)] /\ i - Len(w) \in DOMAIN to
  BY <1>2, <1>4
<1> HIDE DEF both
<1>6. ASSUME NEW service \in Services, Told(both, service) # {}
      PROVE  \E f \in Bijection(Told(both, service), Listening(subs, service)) :
                 \A i \in Told(both, service) : both[i].to = subs[f[i]].endpoint
  <2> DEFINE told == Told(both, service)
             f == [i \in told |-> Nth(kept, i - Len(w))]
  <2>1. ASSUME NEW i \in told
        PROVE  i \in Len(w) + 1 .. Len(w) + Len(to) /\ service = Service[k]
    <3>1. i \in DOMAIN both /\ both[i].type = "notification" /\ Service[both[i].key] = service
      BY DEF Told
    <3>2. i \notin DOMAIN w
      BY <1>5, <3>1 DEF Plain
    <3>3. i \in Len(w) + 1 .. Len(w) + Len(to)
      BY <1>2, <1>5, <3>1, <3>2
    <3> QED
      BY <1>3, <1>5, <3>1, <3>3
  <2>2. service = Service[k]
    BY <1>6, <2>1
  <2>3. \A i \in Len(w) + 1 .. Len(w) + Len(to) : i \in told
    <3>1. ASSUME NEW i \in Len(w) + 1 .. Len(w) + Len(to)
          PROVE  i \in Told(both, service)
      <4>0. both[i] = block[i - Len(w)] /\ i - Len(w) \in DOMAIN to
        BY <1>5
      <4>1. both[i] = block[i - Len(w)] /\ i - Len(w) \in DOMAIN to /\ i \in DOMAIN both
        BY <1>2, <1>5, <4>0
      <4>2. both[i].type = "notification" /\ both[i].key = k /\ both[i].to # "sender"
        BY <1>3, <4>1
      <4> QED
        BY <2>2, <4>1, <4>2 DEF Told
    <3> QED
      BY <3>1
  <2>4. kept = Listening(subs, service)
    BY <2>2 DEF kept
  <2> HIDE DEF told
  <2>5. f \in [told -> kept]
    BY <1>2, <1>5, <2>1
  <2>6. ASSUME NEW i \in told, NEW j \in told, f[i] = f[j]
        PROVE  i = j
    <3>1. i - Len(w) \in DOMAIN to /\ j - Len(w) \in DOMAIN to
      BY <1>5, <2>1
    <3>2. i - Len(w) = j - Len(w)
      BY <1>2, <2>6, <3>1
    <3> QED
      BY <1>2, <1>5, <2>1, <3>2
  <2>7. ASSUME NEW p \in kept
        PROVE  \E i \in told : f[i] = p
    <3>1. PICK j \in DOMAIN to : Nth(kept, j) = p
      BY <1>2
    <3>2. j \in 1 .. Len(to) /\ Len(w) \in Nat
      BY <1>2, <1>5
    <3>3. j + Len(w) \in Len(w) + 1 .. Len(w) + Len(to) /\ (j + Len(w)) - Len(w) = j
      BY ONLY <3>2
    <3>4. j + Len(w) \in told /\ (j + Len(w)) - Len(w) = j
      BY <1>5, <2>3, <3>3
    <3> QED
      BY <3>1, <3>4
  <2>8. \A i \in told : both[i].to = subs[f[i]].endpoint
    <3>1. ASSUME NEW i \in told
          PROVE  both[i].to = subs[f[i]].endpoint
      <4>1. both[i] = block[i - Len(w)] /\ i - Len(w) \in DOMAIN to
        BY <1>5, <2>1
      <4>2. both[i].to = to[i - Len(w)].endpoint
        BY <1>3, <4>1
      <4>3. f[i] = Nth(kept, i - Len(w))
        OBVIOUS
      <4> HIDE DEF f
      <4> QED
        BY <1>2, <4>1, <4>2, <4>3
    <3> QED
      BY <3>1
  <2> HIDE DEF f
  <2>9. f \in Bijection(told, kept)
    BY <2>5, <2>6, <2>7, Fun_IsBij
  <2> QED
    BY <2>4, <2>8, <2>9 DEF told
<1>7. Delivered(both, subs)
  BY <1>6 DEF Delivered
<1> QED
  BY <1>5, <1>7 DEF both

\* A script sends: what it notifies goes to the subscriptions, and it waits for nothing.
LEMMA ScriptSendKeeps ==
    ASSUME NEW c, Tracks(c), Plain(c.wire), NEW type \in Types, NEW k \in Calls,
           NEW requested \in 0 .. Wrap - 1
    PROVE  LET d == ScriptSend(c, type, k, requested) IN
           Tracks(d) /\ Alike(c, d) /\ Delivered(d.wire, d.subs)
<1> DEFINE got == NextSession(c, k, requested)
           first == Sent(got.core, type, k, got.session, "everyone")
           to == Subscribers(c, k)
           block == [i \in DOMAIN to |-> Message("notification", k, got.session, to[i].endpoint)]
           d == [first EXCEPT !.wire = first.wire \o block]
<1>1. /\ Tracks(got.core) /\ Alike(c, got.core) /\ got.session \in Numbers
      /\ got.core.wire = c.wire
  BY NextSessionKeeps
<1>2. ScriptSend(c, type, k, requested) = IF type # "notification" THEN first ELSE d
  BY DEF ScriptSend, Everyone
<1> HIDE DEF got
<1>3. Tracks(first) /\ Alike(got.core, first) /\ first.wire = got.core.wire
  BY <1>1, SentKeeps
<1>4. /\ first \in Cores /\ first.wire = c.wire /\ first.wire \in Seq(WireMessages)
      /\ Alike(c, first) /\ c.subs \in Seq(Listeners)
  BY <1>1, <1>3 DEF Tracks, Cores, Alike
<1> HIDE DEF first
<1>5. to = Retained(c.subs, Listening(c.subs, Service[k]))
  BY DEF Subscribers, Listening
<1>6. block = [i \in DOMAIN to |-> Message("notification", k, got.session, to[i].endpoint)]
  OBVIOUS
<1> HIDE DEF to, block
<1>7. first.wire \o block \in Seq(WireMessages) /\ Delivered(first.wire \o block, c.subs)
  BY <1>1, <1>4, <1>5, <1>6, NotificationsDelivered
<1>8. /\ d \in Cores /\ d.wire = first.wire \o block /\ d.asked = first.asked
      /\ d.pending = first.pending /\ d.sim = first.sim /\ d.offers = first.offers /\ d.subs = first.subs
  BY <1>4, <1>7 DEF Cores
<1> HIDE DEF d
<1>9. Delivered(first.wire, first.subs)
  BY <1>4, PlainDelivers
<1> QED
  BY <1>2, <1>3, <1>4, <1>7, <1>8, <1>9 DEF Tracks, Alike

\* Whatever a script asks for, requests and subscriptions stay as they are.
LEMMA ScriptKeeps ==
    ASSUME NEW c, Tracks(c), Plain(c.wire), NEW o \in Operations
    PROVE  LET d == Script(c, o) IN
           /\ Tracks(d) /\ d.sim = c.sim /\ d.subs = c.subs /\ Delivered(d.wire, d.subs)
<1>1. c \in Cores /\ Delivered(c.wire, c.subs)
  BY PlainDelivers DEF Tracks
<1>2. CASE o \in [op : {"nothing"}]
  <2>1. Script(c, o) = c
    BY <1>2 DEF Script
  <2> QED
    BY <1>1, <2>1
<1>3. CASE o \in [op : {"send"}, type : Types, key : Calls, session : 0 .. Wrap - 1]
  <2>1. Script(c, o) = ScriptSend(c, o.type, o.key, o.session)
    BY <1>3 DEF Script
  <2>2. o.type \in Types /\ o.key \in Calls /\ o.session \in 0 .. Wrap - 1
    BY <1>3
  <2> QED
    BY <2>1, <2>2, ScriptSendKeeps DEF Alike
<1>4. CASE o \in [op : {"tcp"}, key : Calls, session : 0 .. Wrap - 1]
  <2>1. Script(c, o) = NextSession(c, o.key, o.session).core
    BY <1>4 DEF Script, ScriptSendTcp
  <2>2. o.key \in Calls /\ o.session \in 0 .. Wrap - 1
    BY <1>4
  <2>3. /\ Tracks(Script(c, o)) /\ Alike(c, Script(c, o)) /\ Script(c, o).wire = c.wire
    BY <2>1, <2>2, NextSessionKeeps
  <2> QED
    BY <1>1, <2>3 DEF Alike
<1>5. CASE o \in [op : {"reply"}, key : Calls]
  <2> DEFINE replies1 == c.replies \cup {o.key}
             d == [c EXCEPT !.replies = replies1]
  <2>1. Script(c, o) = d
    BY <1>5 DEF Script
  <2>2. replies1 \in SUBSET Calls
    BY <1>1, <1>5 DEF Cores
  <2> HIDE DEF replies1
  <2>3. /\ d \in Cores /\ d.wire = c.wire /\ d.asked = c.asked
        /\ d.pending = c.pending /\ d.sim = c.sim /\ d.subs = c.subs
    BY <1>1, <2>2 DEF Cores
  <2> HIDE DEF d
  <2> QED
    BY <1>1, <2>1, <2>3 DEF Tracks
<1>6. CASE o \in [op : {"offer"}, service : Services, ttl : {0, 1}]
  <2> DEFINE offers1 == IF o.ttl = 0 THEN c.offers \ {o.service} ELSE c.offers \cup {o.service}
             promised1 == IF o.ttl = 0 THEN c.promised \ {o.service} ELSE c.promised \cup {o.service}
             d == [c EXCEPT !.offers = offers1, !.promised = promised1]
  <2>1. Script(c, o) = d
    BY <1>6 DEF Script, ScriptOffer
  <2>2. offers1 \in SUBSET Services /\ promised1 \in SUBSET Services
    BY <1>1, <1>6 DEF Cores
  <2> HIDE DEF offers1, promised1
  <2>3. /\ d \in Cores /\ d.wire = c.wire /\ d.asked = c.asked
        /\ d.pending = c.pending /\ d.sim = c.sim /\ d.subs = c.subs
    BY <1>1, <2>2 DEF Cores
  <2> HIDE DEF d
  <2> QED
    BY <1>1, <2>1, <2>3 DEF Tracks
<1> QED
  BY <1>2, <1>3, <1>4, <1>5, <1>6 DEF Operations

\* A rule sends one request, or none.
LEMMA RuleKeeps ==
    ASSUME NEW c, Tracks(c), NEW rule, rule = "none" \/ (rule \in Calls /\ Len(c.asked) < MaxSends)
    PROVE  LET d == ByRule(c, rule) IN Tracks(d) /\ Alike(c, d) /\ d.wire = c.wire
<1>1. CASE rule = "none"
  BY <1>1 DEF ByRule, Alike
<1>2. CASE rule # "none"
  <2> DEFINE got == NextSession(c, rule, 0)
             noted == Noted(got.core, "request", rule, got.session)
             sent == Sent(noted, "request", rule, got.session, Everyone)
  <2>1. ByRule(c, rule) = sent
    BY <1>2 DEF ByRule, Send
  <2>2. 0 \in 0 .. Wrap - 1 /\ "request" \in Types
    BY SomeIpAssumption DEF Types
  <2>3. rule \in Calls /\ Len(c.asked) < MaxSends
    BY <1>2
  <2>4. Tracks(sent) /\ Alike(c, sent) /\ sent.wire = c.wire
    BY <2>2, <2>3, SendKeeps
  <2> QED
    BY <2>1, <2>4
<1> QED
  BY <1>1, <1>2

\* An automatic reply is no notification.
LEMMA AutoReplyKeeps ==
    ASSUME NEW c, Tracks(c), Plain(c.wire), NEW k \in Calls, NEW session \in Numbers, NEW overTcp \in BOOLEAN
    PROVE  LET d == AutoReply(c, k, session, overTcp) IN Tracks(d) /\ Alike(c, d) /\ Plain(d.wire)
<1> DEFINE m == Message("response", k, session, "sender")
           wire1 == Append(c.wire, m)
           d == [c EXCEPT !.wire = wire1]
           sent == Sent(c, "response", k, session, "sender")
<1>1. AutoReply(c, k, session, overTcp) \in {c, d, sent}
  BY DEF AutoReply
<1>2. Tracks(d) /\ Alike(c, d) /\ Plain(d.wire)
  <2>1. m \in WireMessages /\ m.type # "notification"
    BY DEF Message, WireMessages, Recipients, Types
  <2>2. c \in Cores /\ c.wire \in Seq(WireMessages)
    BY DEF Tracks, Cores
  <2> HIDE DEF m
  <2>3. wire1 \in Seq(WireMessages) /\ Plain(wire1)
    BY <2>1, <2>2 DEF Plain
  <2> HIDE DEF wire1
  <2>4. /\ d \in Cores /\ d.wire = wire1 /\ d.asked = c.asked
        /\ d.pending = c.pending /\ d.sim = c.sim /\ d.offers = c.offers /\ d.subs = c.subs
    BY <2>2, <2>3 DEF Cores
  <2> HIDE DEF d
  <2> QED
    BY <2>3, <2>4 DEF Tracks, Alike
<1>3. Tracks(sent) /\ Alike(c, sent) /\ Plain(sent.wire)
  <2>1. "response" \in Types /\ "response" # "notification"
    BY DEF Types
  <2> QED
    BY <2>1, SentKeeps
<1> HIDE DEF d, sent
<1> QED
  BY <1>1, <1>2, <1>3 DEF Alike

-----------------------------------------------------------------------------
(* Subscriptions                                                            *)

\* One subscription for each eventgroup somebody wants, at the endpoint last asked for.
Heeded(subs, wanted) ==
    /\ wanted \in [Groups -> Endpoints \cup {NoEndpoint}]
    /\ \A i, j \in DOMAIN subs : subs[i].group = subs[j].group => i = j
    /\ \A i \in DOMAIN subs : subs[i].endpoint = wanted[subs[i].group]
    /\ \A g \in Groups : wanted[g] # NoEndpoint => \E i \in DOMAIN subs : subs[i].group = g

\* A stop takes the subscription of its eventgroup off and no other.
LEMMA Unsubscribed ==
    ASSUME NEW subs \in Seq(Listeners), NEW wanted, Heeded(subs, wanted), NEW g \in Groups,
           NEW at, at = {i \in DOMAIN subs : subs[i].group = g}
    PROVE  /\ Retained(subs, DOMAIN subs \ at) \in Seq(Listeners)
           /\ Heeded(Retained(subs, DOMAIN subs \ at), [wanted EXCEPT ![g] = NoEndpoint])
<1> DEFINE kept == DOMAIN subs \ at
           left == Retained(subs, kept)
           place == [j \in DOMAIN left |-> Nth(kept, j)]
           wanted1 == [wanted EXCEPT ![g] = NoEndpoint]
<1>1. /\ left \in Seq(Listeners)
      /\ \A j \in DOMAIN left : Nth(kept, j) \in kept /\ left[j] = subs[Nth(kept, j)]
      /\ \A i, j \in DOMAIN left : Nth(kept, i) = Nth(kept, j) => i = j
      /\ \A i \in kept : \E j \in DOMAIN left : Nth(kept, j) = i
  <2>1. kept \in SUBSET DOMAIN subs
    OBVIOUS
  <2> HIDE DEF kept
  <2> QED
    BY <2>1, RetainedKeeps
<1>2. /\ \A j \in DOMAIN left :
            place[j] \in DOMAIN subs /\ subs[place[j]].group # g /\ left[j] = subs[place[j]]
      /\ \A i, j \in DOMAIN left : place[i] = place[j] => i = j
      /\ \A i \in DOMAIN subs : subs[i].group # g => \E j \in DOMAIN left : place[j] = i
  <2>1. \A i \in DOMAIN subs : i \in kept <=> subs[i].group # g
    OBVIOUS
  <2>2. \A j \in DOMAIN left : place[j] = Nth(kept, j)
    OBVIOUS
  <2>3. kept \subseteq DOMAIN subs
    OBVIOUS
  <2> HIDE DEF kept, left, place
  <2>4. \A j \in DOMAIN left :
            place[j] \in DOMAIN subs /\ subs[place[j]].group # g /\ left[j] = subs[place[j]]
    BY ONLY <1>1, <2>1, <2>2, <2>3
  <2>5. \A i, j \in DOMAIN left : place[i] = place[j] => i = j
    BY ONLY <1>1, <2>2
  <2>6. \A i \in DOMAIN subs : subs[i].group # g => \E j \in DOMAIN left : place[j] = i
    BY ONLY <1>1, <2>1, <2>2
  <2> QED
    BY <2>4, <2>5, <2>6
<1> HIDE DEF place, left, kept
<1>3. \A i \in DOMAIN subs : subs[i] \in Listeners /\ subs[i].group \in Groups
  <2>1. \A i \in DOMAIN subs : subs[i] \in Listeners
    OBVIOUS
  <2> QED
    BY <2>1 DEF Listeners
<1>4. /\ wanted1 \in [Groups -> Endpoints \cup {NoEndpoint}] /\ wanted1[g] = NoEndpoint
      /\ \A h \in Groups : h # g => wanted1[h] = wanted[h]
  BY DEF Heeded
<1> HIDE DEF wanted1
<1>5. ASSUME NEW i \in DOMAIN left, NEW j \in DOMAIN left, left[i].group = left[j].group
      PROVE  i = j
  <2>1. place[i] \in DOMAIN subs /\ place[j] \in DOMAIN subs /\ subs[place[i]].group = subs[place[j]].group
    BY <1>2, <1>5
  <2>2. place[i] = place[j]
    BY <2>1 DEF Heeded
  <2> QED
    BY <1>2, <2>2
<1>6. ASSUME NEW j \in DOMAIN left
      PROVE  left[j].endpoint = wanted1[left[j].group]
  <2>1. place[j] \in DOMAIN subs /\ subs[place[j]].group # g /\ left[j] = subs[place[j]]
    BY <1>2
  <2> QED
    BY <1>3, <1>4, <2>1 DEF Heeded
<1>7. ASSUME NEW h \in Groups, wanted1[h] # NoEndpoint
      PROVE  \E j \in DOMAIN left : left[j].group = h
  <2>1. h # g /\ wanted[h] # NoEndpoint
    BY <1>4, <1>7
  <2>2. PICK i \in DOMAIN subs : subs[i].group = h
    BY <2>1 DEF Heeded
  <2>3. PICK j \in DOMAIN left : place[j] = i
    BY <1>2, <2>1, <2>2
  <2> QED
    BY <1>2, <2>2, <2>3
<1>8. Heeded(left, wanted1)
  BY <1>4, <1>5, <1>6, <1>7 DEF Heeded
<1> QED
  BY <1>1, <1>8 DEF left, kept, wanted1

\* A function on the first numbers is a sequence.
LEMMA PrefixIsSeq ==
    ASSUME NEW S, NEW n \in Nat, NEW f \in [1 .. n -> S]
    PROVE  f \in Seq(S)
OBVIOUS

\* A subscription moves to its new endpoint, or is added when there was none.
LEMMA Resubscribed ==
    ASSUME NEW subs \in Seq(Listeners), NEW wanted, Heeded(subs, wanted), NEW g \in Groups,
           NEW endpoint \in Endpoints, NEW at, at = {i \in DOMAIN subs : subs[i].group = g},
           NEW mine, mine = [group |-> g, endpoint |-> endpoint],
           NEW subs1, at = {} => subs1 = Append(subs, mine), at # {} => subs1 = [subs EXCEPT ![Min(at)] = mine]
    PROVE  subs1 \in Seq(Listeners) /\ Heeded(subs1, [wanted EXCEPT ![g] = endpoint])
<1> DEFINE wanted1 == [wanted EXCEPT ![g] = endpoint]
<1>1. mine \in Listeners /\ mine.group = g /\ mine.endpoint = endpoint
  BY DEF Listeners
<1>2. \A i \in DOMAIN subs : subs[i] \in Listeners /\ subs[i].group \in Groups
  <2>1. \A i \in DOMAIN subs : subs[i] \in Listeners
    OBVIOUS
  <2> QED
    BY <2>1 DEF Listeners
<1>3. /\ wanted1 \in [Groups -> Endpoints \cup {NoEndpoint}] /\ wanted1[g] = endpoint
      /\ \A h \in Groups : h # g => wanted1[h] = wanted[h]
  BY DEF Heeded
<1> HIDE DEF wanted1
<1>4. PICK p : /\ DOMAIN subs1 = DOMAIN subs \cup {p} /\ subs1 \in Seq(Listeners) /\ subs1[p] = mine
               /\ \A i \in DOMAIN subs : i # p => subs1[i] = subs[i] /\ subs[i].group # g
               /\ p \in DOMAIN subs => subs[p].group = g
  <2>1. CASE at = {}
    <3>1. subs1 = Append(subs, mine) /\ Len(subs) \in Nat
      BY <2>1
    <3>2. /\ DOMAIN subs1 = DOMAIN subs \cup {Len(subs) + 1} /\ subs1 \in Seq(Listeners)
          /\ subs1[Len(subs) + 1] = mine
      BY <1>1, <3>1
    <3>3. /\ \A i \in DOMAIN subs : subs1[i] = subs[i] /\ subs[i].group # g
          /\ Len(subs) + 1 \notin DOMAIN subs
      BY <1>1, <2>1, <3>1
    <3> QED
      BY <3>2, <3>3
  <2>2. CASE at # {}
    <3> DEFINE p == Min(at)
    <3>1. p \in at
      <4>1. at \in SUBSET (1 .. Len(subs)) /\ Len(subs) \in Nat
        OBVIOUS
      <4> QED
        BY <2>2, <4>1, LeastOf
    <3>2. subs1 = [subs EXCEPT ![p] = mine]
      BY <2>2
    <3> HIDE DEF p
    <3>3. p \in DOMAIN subs /\ subs[p].group = g
      BY <3>1
    <3>4. /\ DOMAIN subs1 = DOMAIN subs /\ subs1 \in Seq(Listeners) /\ subs1[p] = mine
          /\ \A i \in DOMAIN subs : i # p => subs1[i] = subs[i]
      <4>1. /\ DOMAIN subs1 = DOMAIN subs /\ subs1[p] = mine
            /\ \A i \in DOMAIN subs : i # p => subs1[i] = subs[i]
        BY <3>2, <3>3
      <4>2. PICK n \in Nat : subs \in [1 .. n -> Listeners]
        OBVIOUS
      <4>3. subs1 \in [1 .. n -> Listeners]
        BY <1>1, <3>2, <4>2
      <4>4. subs1 \in Seq(Listeners)
        BY <4>3, PrefixIsSeq
      <4> QED
        BY <4>1, <4>4
    <3>5. \A i \in DOMAIN subs : i # p => subs[i].group # g
      BY <3>3 DEF Heeded
    <3>6. DOMAIN subs1 = DOMAIN subs \cup {p}
      BY <3>3, <3>4
    <3> QED
      BY <3>3, <3>4, <3>5, <3>6
  <2> QED
    BY <2>1, <2>2
<1>5. ASSUME NEW i \in DOMAIN subs1, NEW j \in DOMAIN subs1, subs1[i].group = subs1[j].group
      PROVE  i = j
  <2>1. CASE i = p \/ j = p
    <3>1. subs1[i].group = g /\ subs1[j].group = g
      BY <1>1, <1>4, <1>5, <2>1
    <3>2. \A h \in DOMAIN subs1 : h # p => subs1[h].group # g
      BY <1>4
    <3> QED
      BY <2>1, <3>1, <3>2
  <2>2. CASE i # p /\ j # p
    <3>1. i \in DOMAIN subs /\ j \in DOMAIN subs /\ subs[i].group = subs[j].group
      BY <1>4, <1>5, <2>2
    <3> QED
      BY <3>1 DEF Heeded
  <2> QED
    BY <2>1, <2>2
<1>6. ASSUME NEW i \in DOMAIN subs1
      PROVE  subs1[i].endpoint = wanted1[subs1[i].group]
  <2>1. CASE i = p
    BY <1>1, <1>3, <1>4, <2>1
  <2>2. CASE i # p
    <3>1. i \in DOMAIN subs /\ subs1[i] = subs[i] /\ subs[i].group \in Groups /\ subs[i].group # g
      BY <1>2, <1>4, <2>2
    <3>2. subs[i].endpoint = wanted[subs[i].group] /\ wanted1[subs[i].group] = wanted[subs[i].group]
      BY <1>3, <3>1 DEF Heeded
    <3> QED
      BY <3>1, <3>2
  <2> QED
    BY <2>1, <2>2
<1>7. ASSUME NEW h \in Groups, wanted1[h] # NoEndpoint
      PROVE  \E j \in DOMAIN subs1 : subs1[j].group = h
  <2>1. CASE h = g
    BY <1>1, <1>4, <2>1
  <2>2. CASE h # g
    <3>1. PICK i \in DOMAIN subs : subs[i].group = h
      BY <1>3, <1>7, <2>2 DEF Heeded
    <3>2. CASE i = p
      BY <1>3, <1>4, <1>7, <2>2, <3>1, <3>2 DEF Heeded
    <3>3. CASE i # p
      BY <1>4, <3>1, <3>3
    <3> QED
      BY <3>2, <3>3
  <2> QED
    BY <2>1, <2>2
<1>8. Heeded(subs1, wanted1)
  BY <1>3, <1>5, <1>6, <1>7 DEF Heeded
<1> QED
  BY <1>4, <1>8 DEF wanted1

\* The wishes after one entry of a subscription.
Wished(wanted, g, endpoint, ttl, offered) ==
    [wanted EXCEPT ![g] = IF ttl = 0 THEN NoEndpoint ELSE IF GroupOf[g] \in offered THEN endpoint ELSE @]

\* Subscriptions follow the wishes.
LEMMA AckKeeps ==
    ASSUME NEW c, Tracks(c), NEW wanted, Heeded(c.subs, wanted), NEW g \in Groups,
           NEW endpoint \in Endpoints, NEW ttl \in {0, 1}
    PROVE  LET d == AckSubscribe(c, g, endpoint, ttl) IN
           /\ Tracks(d) /\ d.sim = c.sim /\ d.wire = c.wire
           /\ Heeded(d.subs, Wished(wanted, g, endpoint, ttl, c.offers))
<1> DEFINE mine == [group |-> g, endpoint |-> endpoint]
           at == At(c, g)
           subs1 == IF ttl = 0 THEN Retained(c.subs, DOMAIN c.subs \ at)
                    ELSE IF GroupOf[g] \notin c.offers THEN c.subs
                    ELSE IF at = {} THEN Append(c.subs, mine) ELSE [c.subs EXCEPT ![Min(at)] = mine]
           d == [c EXCEPT !.subs = subs1]
           wanted1 == Wished(wanted, g, endpoint, ttl, c.offers)
<1>1. c \in Cores /\ c.subs \in Seq(Listeners)
  BY DEF Tracks, Cores
<1>2. subs1 \in Seq(Listeners) /\ Heeded(subs1, wanted1)
  <2>1. at = {i \in DOMAIN c.subs : c.subs[i].group = g}
    BY DEF At
  <2> HIDE DEF at
  <2>2. CASE ttl = 0
    <3>1. /\ Retained(c.subs, DOMAIN c.subs \ at) \in Seq(Listeners)
          /\ Heeded(Retained(c.subs, DOMAIN c.subs \ at), [wanted EXCEPT ![g] = NoEndpoint])
      BY <1>1, <2>1, Unsubscribed
    <3>2. subs1 = Retained(c.subs, DOMAIN c.subs \ at) /\ wanted1 = [wanted EXCEPT ![g] = NoEndpoint]
      BY <2>2 DEF Wished
    <3> QED
      BY <3>1, <3>2
  <2>3. CASE ttl # 0 /\ GroupOf[g] \notin c.offers
    <3>1. [wanted EXCEPT ![g] = wanted[g]] = wanted
      BY DEF Heeded
    <3>2. subs1 = c.subs /\ wanted1 = [wanted EXCEPT ![g] = wanted[g]]
      BY <2>3 DEF Wished
    <3> HIDE DEF subs1, wanted1
    <3> QED
      BY <1>1, <3>1, <3>2
  <2>4. CASE ttl # 0 /\ GroupOf[g] \in c.offers
    <3>1. subs1 = IF at = {} THEN Append(c.subs, mine) ELSE [c.subs EXCEPT ![Min(at)] = mine]
      BY <2>4
    <3>2. wanted1 = [wanted EXCEPT ![g] = endpoint]
      BY <2>4 DEF Wished
    <3>3. mine = [group |-> g, endpoint |-> endpoint]
      OBVIOUS
    <3> HIDE DEF subs1, mine, wanted1
    <3>4. subs1 \in Seq(Listeners) /\ Heeded(subs1, [wanted EXCEPT ![g] = endpoint])
      BY <1>1, <2>1, <3>1, <3>3, Resubscribed
    <3> QED
      BY <3>2, <3>4
  <2> QED
    BY <2>2, <2>3, <2>4
<1>3. AckSubscribe(c, g, endpoint, ttl) = d
  <2>1. subs1 = c.subs => d = c
    <3> HIDE DEF subs1
    <3> QED
      BY <1>1 DEF Cores
  <2> QED
    BY <2>1 DEF AckSubscribe, Subscribed
<1> HIDE DEF subs1, wanted1
<1>4. /\ d \in Cores /\ d.wire = c.wire /\ d.asked = c.asked
      /\ d.pending = c.pending /\ d.sim = c.sim /\ d.offers = c.offers /\ d.subs = subs1
  BY <1>1, <1>2 DEF Cores
<1> HIDE DEF d
<1>5. Tracks(d) /\ d.sim = c.sim /\ d.wire = c.wire /\ Heeded(d.subs, wanted1)
  BY <1>2, <1>4 DEF Tracks
<1> QED
  BY <1>3, <1>5 DEF wanted1

-----------------------------------------------------------------------------
(* The steps                                                                *)

\* Waits and requests match, subscriptions and wishes do, and what the last
\* handler sent went to the subscriptions.
SomeIpInv ==
    /\ looped \in BOOLEAN
    /\ Tracks(Core)
    /\ wire \in Seq(WireMessages) /\ Delivered(wire, subscribers)
    /\ Heeded(subscribers, want)

\* A handler that keeps the waits, the subscriptions and what it sent in order keeps the invariant.
LEMMA BecomesKeeps ==
    ASSUME SomeIpInv, NEW c, Tracks(c), c.sim = tick, Delivered(c.wire, c.subs), Becomes(c),
           Heeded(c.subs, want')
    PROVE  SomeIpInv'
<1>1. c \in Cores /\ Followed(c.sim, c.pending, c.asked)
  BY DEF Tracks
<1>2. /\ tick' = c.sim /\ sessions' = c.sessions /\ pending' = c.pending /\ offers' = c.offers
      /\ replies' = c.replies /\ subscribers' = c.subs /\ wire' = c.wire
      /\ asked' = c.asked /\ promised' = c.promised /\ looped' = looped
  BY DEF Becomes
<1>3. Core' = [sim |-> c.sim, sessions |-> c.sessions, pending |-> c.pending, offers |-> c.offers,
               replies |-> c.replies, subs |-> c.subs, wire |-> <<>>, asked |-> c.asked, promised |-> c.promised]
  BY <1>2 DEF Core
<1>4. Core' \in Cores /\ Core'.sim = c.sim /\ Core'.pending = c.pending /\ Core'.asked = c.asked
  <2>1. <<>> \in Seq(WireMessages)
    OBVIOUS
  <2> QED
    BY <1>1, <1>3, <2>1 DEF Cores
<1>5. Tracks(Core')
  BY <1>1, <1>4 DEF Tracks
<1>6. wire' \in Seq(WireMessages) /\ Delivered(wire', subscribers') /\ Heeded(subscribers', want')
  BY <1>1, <1>2 DEF Cores
<1> QED
  BY <1>2, <1>5, <1>6 DEF SomeIpInv

\* What a handler starts from.
LEMMA CoreTracks ==
    ASSUME SomeIpInv
    PROVE  /\ Tracks(Core) /\ Core.sim = tick /\ Core.subs = subscribers /\ Core.offers = offers
           /\ Core.asked = asked /\ Core.wire = <<>> /\ Plain(Core.wire) /\ Heeded(subscribers, want)
BY DEF SomeIpInv, Core, Plain

\* The steps: a panel sends.
LEMMA PanelKeeps ==
    ASSUME SomeIpInv, Room, NEW type \in Types, NEW k \in Calls, NEW requested \in {0, 1},
           NEW overTcp \in BOOLEAN, PanelSend(type, k, requested, overTcp)
    PROVE  SomeIpInv'
<1> DEFINE got == NextSession(Core, k, requested)
           noted == Noted(got.core, type, k, got.session)
           sent == Sent(noted, type, k, got.session, Everyone)
           d == Send(Core, type, k, requested, overTcp)
<1>1. requested \in 0 .. Wrap - 1
  BY SomeIpAssumption
<1>2. /\ Tracks(noted) /\ Alike(Core, noted) /\ noted.wire = Core.wire
      /\ Tracks(sent) /\ Alike(Core, sent) /\ sent.wire = Core.wire
  BY <1>1, CoreTracks, SendKeeps DEF Room
<1>3. d = IF overTcp THEN noted ELSE sent
  BY DEF Send
<1> HIDE DEF noted, sent
<1>4. Tracks(d) /\ Alike(Core, d) /\ d.wire = Core.wire
  BY <1>2, <1>3
<1>5. Becomes(d) /\ want' = want
  BY DEF PanelSend
<1> HIDE DEF d
<1>6. Delivered(d.wire, d.subs) /\ d.sim = tick /\ d.subs = subscribers
  BY <1>4, CoreTracks, PlainDelivers DEF Alike
<1> QED
  BY <1>4, <1>5, <1>6, CoreTracks, BecomesKeeps

\* A script runs.
LEMMA NodeKeeps ==
    ASSUME SomeIpInv, NEW o \in Timed, NodeRuns(o)
    PROVE  SomeIpInv'
<1> DEFINE d == Script(Core, o)
<1>1. o \in Operations
  BY SomeIpAssumption
<1>2. Tracks(d) /\ d.sim = Core.sim /\ d.subs = Core.subs /\ Delivered(d.wire, d.subs)
  BY <1>1, CoreTracks, ScriptKeeps
<1>3. Becomes(d) /\ want' = want
  BY DEF NodeRuns
<1> HIDE DEF d
<1>4. d.sim = tick /\ Heeded(d.subs, want')
  BY <1>2, <1>3, CoreTracks
<1> QED
  BY <1>2, <1>3, <1>4, BecomesKeeps

\* A rule that may fire has room for its request.
LEMMA RulesFit ==
    ASSUME NEW rule \in Rules
    PROVE  rule = "none" \/ (rule \in Calls /\ Len(asked) < MaxSends)
BY SomeIpAssumption DEF Rules, Room

\* A message is answered, matched against the rules, replied to and handed to the scripts.
LEMMA ReceiveKeeps ==
    ASSUME SomeIpInv, NEW type \in Types, NEW k \in Calls, NEW session \in 1 .. Wrap - 1,
           NEW overTcp \in BOOLEAN, NEW rule \in Rules, NEW script \in Reactions,
           Receive(type, k, session, overTcp, rule, script)
    PROVE  SomeIpInv'
<1> DEFINE answered == IF type = "response" THEN Answered(Core, k, session) ELSE Core
           ruled == ByRule(answered, rule)
           replied == IF type = "request" THEN AutoReply(ruled, k, session, overTcp) ELSE ruled
           d == Script(replied, script)
<1>1. session \in Numbers /\ script \in Operations
  BY SomeIpAssumption DEF Numbers
<1>2. Tracks(answered) /\ Alike(Core, answered) /\ Plain(answered.wire) /\ Len(answered.asked) = Len(asked)
  <2>1. /\ Tracks(Answered(Core, k, session)) /\ Alike(Core, Answered(Core, k, session))
        /\ Answered(Core, k, session).wire = Core.wire
        /\ Len(Answered(Core, k, session).asked) = Len(Core.asked)
    BY <1>1, CoreTracks, AnsweredKeeps
  <2> QED
    BY <2>1, CoreTracks DEF Alike
<1>3. Becomes(d) /\ want' = want
  BY DEF Receive
<1> HIDE DEF answered
<1>4. Tracks(ruled) /\ Alike(answered, ruled) /\ Plain(ruled.wire)
  BY <1>2, RulesFit, RuleKeeps
<1> HIDE DEF ruled
<1>5. Tracks(replied) /\ Alike(ruled, replied) /\ Plain(replied.wire)
  <2>1. /\ Tracks(AutoReply(ruled, k, session, overTcp)) /\ Alike(ruled, AutoReply(ruled, k, session, overTcp))
        /\ Plain(AutoReply(ruled, k, session, overTcp).wire)
    BY <1>1, <1>4, AutoReplyKeeps
  <2> QED
    BY <1>4, <2>1 DEF Alike
<1> HIDE DEF replied
<1>6. Tracks(d) /\ d.sim = replied.sim /\ d.subs = replied.subs /\ Delivered(d.wire, d.subs)
  BY <1>1, <1>5, ScriptKeeps
<1> HIDE DEF d
<1>7. d.sim = tick /\ d.subs = subscribers
  BY <1>2, <1>4, <1>5, <1>6, CoreTracks DEF Alike
<1> QED
  BY <1>3, <1>6, <1>7, CoreTracks, BecomesKeeps

\* A subscription is matched against the rules, taken or stopped, and handed to the scripts.
LEMMA SubscribeKeeps ==
    ASSUME SomeIpInv, NEW g \in Groups, NEW endpoint \in Endpoints, NEW ttl \in {0, 1},
           NEW rule \in Rules, NEW script \in Reactions,
           ReceiveSubscribe(g, endpoint, ttl, rule, script)
    PROVE  SomeIpInv'
<1> DEFINE ruled == ByRule(Core, rule)
           acked == AckSubscribe(ruled, g, endpoint, ttl)
           d == Script(acked, script)
<1>1. script \in Operations
  BY SomeIpAssumption
<1>2. /\ Becomes(d)
      /\ want' = Wished(want, g, endpoint, ttl, offers)
  BY DEF ReceiveSubscribe, Wished
<1>3. Tracks(ruled) /\ Alike(Core, ruled) /\ ruled.wire = Core.wire
  BY CoreTracks, RulesFit, RuleKeeps
<1> HIDE DEF ruled
<1>4. ruled.subs = subscribers /\ ruled.offers = offers /\ ruled.sim = tick /\ Plain(ruled.wire)
  BY <1>3, CoreTracks DEF Alike
<1>5. /\ Tracks(acked) /\ acked.sim = tick /\ Plain(acked.wire)
      /\ Heeded(acked.subs, want')
  <2>1. /\ Tracks(acked) /\ acked.sim = ruled.sim /\ acked.wire = ruled.wire
        /\ Heeded(acked.subs, Wished(want, g, endpoint, ttl, ruled.offers))
    <3>1. Heeded(ruled.subs, want)
      BY <1>4, CoreTracks
    <3> QED
      BY <1>3, <3>1, AckKeeps
  <2> HIDE DEF acked
  <2> QED
    BY <1>2, <1>4, <2>1
<1> HIDE DEF acked
<1>6. Tracks(d) /\ d.sim = acked.sim /\ d.subs = acked.subs /\ Delivered(d.wire, d.subs)
  BY <1>1, <1>5, ScriptKeeps
<1> HIDE DEF d
<1> QED
  BY <1>2, <1>5, <1>6, BecomesKeeps

\* The clock moves and what waited too long is dropped.
LEMMA PublishKeepsWaits ==
    ASSUME SomeIpInv, NEW now \in tick .. MaxSim, PublishTrace(now)
    PROVE  SomeIpInv'
<1> DEFINE over == {i \in DOMAIN pending : now > pending[i].deadline}
           pend1 == Retained(pending, DOMAIN pending \ over)
           ask1 == [n \in DOMAIN asked |-> IF \E i \in over : pending[i].n = n
                                             THEN [asked[n] EXCEPT !.fate = "timeout"] ELSE asked[n]]
<1>1. /\ Followed(tick, pending, asked) /\ sessions \in [Calls -> 0 .. Wrap - 1]
      /\ offers \in SUBSET Services /\ replies \in SUBSET Calls /\ subscribers \in Seq(Listeners)
      /\ promised \in SUBSET Services
  BY DEF SomeIpInv, Tracks, Core, Cores
<1>2. /\ tick' = now /\ pending' = pend1 /\ asked' = ask1 /\ wire' = <<>> /\ looped' = looped
      /\ sessions' = sessions /\ offers' = offers /\ replies' = replies /\ subscribers' = subscribers
      /\ want' = want /\ promised' = promised
  BY DEF PublishTrace, Expire, ExpiredOnes
<1>3. Followed(now, pend1, ask1)
  <2>1. over = {i \in DOMAIN pending : now > pending[i].deadline}
    OBVIOUS
  <2> HIDE DEF over
  <2> QED
    BY <1>1, <2>1, WaitsExpired
<1> HIDE DEF over, pend1, ask1
<1>4. now \in 0 .. MaxSim /\ pend1 \in Seq(Waits) /\ ask1 \in Seq(Requests) /\ <<>> \in Seq(WireMessages)
  BY <1>3 DEF Followed
<1>5. Core' = [sim |-> now, sessions |-> sessions, pending |-> pend1, offers |-> offers, replies |-> replies,
               subs |-> subscribers, wire |-> <<>>, asked |-> ask1, promised |-> promised]
  BY <1>2 DEF Core
<1>6. Core' \in Cores /\ Core'.sim = now /\ Core'.pending = pend1 /\ Core'.asked = ask1
  BY <1>1, <1>4, <1>5 DEF Cores
<1>7. Tracks(Core')
  BY <1>3, <1>6 DEF Tracks
<1>8. Delivered(wire', subscribers')
  <2>1. Plain(wire')
    BY <1>2 DEF Plain
  <2> QED
    BY <2>1, PlainDelivers
<1>9. Heeded(subscribers', want')
  BY <1>2 DEF SomeIpInv
<1> QED
  BY <1>2, <1>4, <1>7, <1>8, <1>9 DEF SomeIpInv

\* Nothing is remembered.
LEMMA NothingHolds ==
    ASSUME NEW now \in 0 .. MaxSim, NEW lost \in SUBSET Services
    PROVE  /\ Tracks([sim |-> now, sessions |-> [k \in Calls |-> 0], pending |-> <<>>, offers |-> {},
                      replies |-> {}, subs |-> <<>>, wire |-> <<>>, asked |-> <<>>, promised |-> lost])
           /\ <<>> \in Seq(WireMessages)
           /\ Delivered(<<>>, <<>>) /\ Heeded(<<>>, [g \in Groups |-> NoEndpoint])
<1> DEFINE none == [sim |-> now, sessions |-> [k \in Calls |-> 0], pending |-> <<>>, offers |-> {},
                    replies |-> {}, subs |-> <<>>, wire |-> <<>>, asked |-> <<>>, promised |-> lost]
<1>1. /\ <<>> \in Seq(WireMessages) /\ <<>> \in Seq(Waits) /\ <<>> \in Seq(Requests) /\ <<>> \in Seq(Listeners)
      /\ [k \in Calls |-> 0] \in [Calls -> 0 .. Wrap - 1]
  BY SomeIpAssumption
<1>2. none \in Cores /\ none.sim = now /\ none.pending = <<>> /\ none.asked = <<>>
  BY <1>1 DEF Cores
<1> HIDE DEF none
<1>3. Followed(now, <<>>, <<>>)
  BY <1>1 DEF Followed, Waiting, Ended
<1>4. Tracks(none)
  BY <1>2, <1>3 DEF Tracks
<1>5. Delivered(<<>>, <<>>)
  <2>1. Plain(<<>>)
    BY DEF Plain
  <2> QED
    BY <2>1, PlainDelivers
<1>6. Heeded(<<>>, [g \in Groups |-> NoEndpoint])
  BY DEF Heeded
<1> QED
  BY <1>1, <1>4, <1>5, <1>6 DEF none

\* The first state.
LEMMA SomeIpInvInit == SomeIpInit => SomeIpInv
<1> SUFFICES ASSUME SomeIpInit
             PROVE  SomeIpInv
  OBVIOUS
<1>1. 0 \in 0 .. MaxSim /\ {} \in SUBSET Services
  BY SomeIpAssumption
<1>2. Core = [sim |-> 0, sessions |-> [k \in Calls |-> 0], pending |-> <<>>, offers |-> {},
              replies |-> {}, subs |-> <<>>, wire |-> <<>>, asked |-> <<>>, promised |-> {}]
  BY DEF SomeIpInit, Core
<1>3. Tracks(Core)
  BY <1>1, <1>2, NothingHolds
<1>4. /\ wire = <<>> /\ subscribers = <<>> /\ want = [g \in Groups |-> NoEndpoint] /\ looped \in BOOLEAN
  BY DEF SomeIpInit
<1>5. <<>> \in Seq(WireMessages) /\ Delivered(<<>>, <<>>) /\ Heeded(<<>>, [g \in Groups |-> NoEndpoint])
  BY <1>1, NothingHolds
<1> QED
  BY <1>3, <1>4, <1>5 DEF SomeIpInv

\* A reset forgets requests, subscriptions and wishes together.
LEMMA ForgetKeeps ==
    ASSUME SomeIpInv, ResetRun \/ ClearTraceView
    PROVE  SomeIpInv'
<1>1. tick \in 0 .. MaxSim /\ promised \in SUBSET Services /\ looped \in BOOLEAN
  BY DEF SomeIpInv, Tracks, Core, Cores
<1>2. tick' \in 0 .. MaxSim /\ promised' \in SUBSET Services
  BY <1>1, SomeIpAssumption DEF ResetRun, ClearTraceView
<1>3. /\ sessions' = [k \in Calls |-> 0] /\ pending' = <<>> /\ offers' = {} /\ replies' = {}
      /\ subscribers' = <<>> /\ wire' = <<>> /\ asked' = <<>> /\ want' = [g \in Groups |-> NoEndpoint]
      /\ looped' = looped
  BY DEF ResetRun, ClearTraceView, Forget
<1>4. Core' = [sim |-> tick', sessions |-> [k \in Calls |-> 0], pending |-> <<>>, offers |-> {},
               replies |-> {}, subs |-> <<>>, wire |-> <<>>, asked |-> <<>>, promised |-> promised']
  BY <1>3 DEF Core
<1>5. /\ Tracks(Core') /\ <<>> \in Seq(WireMessages)
      /\ Delivered(<<>>, <<>>) /\ Heeded(<<>>, [g \in Groups |-> NoEndpoint])
  BY <1>2, <1>4, NothingHolds
<1> QED
  BY <1>1, <1>3, <1>5 DEF SomeIpInv

\* Every step keeps the invariant.
LEMMA SomeIpInvNext == SomeIpInv /\ [SomeIpNext]_someIpVars => SomeIpInv'
<1> SUFFICES ASSUME SomeIpInv, [SomeIpNext]_someIpVars
             PROVE  SomeIpInv'
  OBVIOUS
<1>1. ASSUME NEW type \in Types, NEW k \in Calls, NEW requested \in {0, 1}, NEW overTcp \in BOOLEAN,
             Room, PanelSend(type, k, requested, overTcp)
      PROVE  SomeIpInv'
  BY <1>1, PanelKeeps
<1>2. ASSUME NEW o \in Timed, NodeRuns(o)
      PROVE  SomeIpInv'
  BY <1>2, NodeKeeps
<1>3. ASSUME NEW type \in Types, NEW k \in Calls, NEW session \in 1 .. Wrap - 1, NEW overTcp \in BOOLEAN,
             NEW rule \in Rules, NEW script \in Reactions, Receive(type, k, session, overTcp, rule, script)
      PROVE  SomeIpInv'
  BY <1>3, ReceiveKeeps
<1>4. ASSUME NEW g \in Groups, NEW endpoint \in Endpoints, NEW ttl \in {0, 1}, NEW rule \in Rules,
             NEW script \in Reactions, ReceiveSubscribe(g, endpoint, ttl, rule, script)
      PROVE  SomeIpInv'
  BY <1>4, SubscribeKeeps
<1>5. ASSUME NEW now \in tick .. MaxSim, PublishTrace(now)
      PROVE  SomeIpInv'
  BY <1>5, PublishKeepsWaits
<1>6. CASE ResetRun \/ ClearTraceView
  BY <1>6, ForgetKeeps
<1>7. CASE UNCHANGED someIpVars
  <2>1. /\ Core' = Core /\ wire' = wire /\ subscribers' = subscribers /\ want' = want /\ looped' = looped
    BY <1>7 DEF someIpVars, Core
  <2> QED
    BY <2>1 DEF SomeIpInv
<1> QED
  BY <1>1, <1>2, <1>3, <1>4, <1>5, <1>6, <1>7 DEF SomeIpNext

\* The two properties and the types follow.
LEMMA SettledByInv == SomeIpInv => RequestsSettle
<1> SUFFICES ASSUME SomeIpInv
             PROVE  RequestsSettle
  OBVIOUS
<1>1. Followed(tick, pending, asked)
  BY DEF SomeIpInv, Tracks, Core
<1>2. ASSUME NEW n \in DOMAIN asked
      PROVE  /\ asked[n].fate = "timeout" => tick > asked[n].at + Patience
             /\ asked[n].fate = "answered" => asked[n].heard
             /\ Unique(n) /\ asked[n].heard => asked[n].fate = "answered"
  <2>1. Unique(n) => Alone(asked, n)
    BY DEF Unique, Alone, Same
  <2> QED
    BY <1>1, <2>1 DEF Followed, Ended
<1>3. ASSUME NEW n \in DOMAIN asked
      PROVE  asked[n].fate = "open" <=> \E i \in DOMAIN pending : pending[i].n = n
  BY <1>1 DEF Followed, Waiting
<1> QED
  BY <1>2, <1>3 DEF RequestsSettle

LEMMA NotifiedByInv == SomeIpInv => NotifiedOnce
<1> SUFFICES ASSUME SomeIpInv, NEW service \in Services, Notifications(service) # {}, NEW e \in Endpoints
             PROVE  Cardinality({i \in Notifications(service) : wire[i].to = e})
                    = Cardinality({g \in {h \in Groups : GroupOf[h] = service /\ want[h] # NoEndpoint} : want[g] = e})
  BY DEF NotifiedOnce
<1> DEFINE told == Told(wire, service)
           sent == {i \in told : wire[i].to = e}
           due == {g \in {h \in Groups : GroupOf[h] = service /\ want[h] # NoEndpoint} : want[g] = e}
<1>1. Notifications(service) = told
  BY DEF Notifications, Told
<1>2. /\ subscribers \in Seq(Listeners) /\ wire \in Seq(WireMessages) /\ Heeded(subscribers, want)
      /\ Delivered(wire, subscribers)
  BY DEF SomeIpInv, Tracks, Core, Cores
<1>3. PICK f \in Bijection(told, Listening(subscribers, service)) :
               \A i \in told : wire[i].to = subscribers[f[i]].endpoint
  BY <1>1, <1>2 DEF Delivered
<1>4. /\ f \in [told -> Listening(subscribers, service)]
      /\ \A i, j \in told : f[i] = f[j] => i = j
      /\ \A p \in Listening(subscribers, service) : \E i \in told : f[i] = p
  <2> HIDE DEF told
  <2> QED
    BY Fun_BijectionProperties
<1>5. \A i \in DOMAIN subscribers : subscribers[i] \in Listeners /\ subscribers[i].group \in Groups
  <2>1. \A i \in DOMAIN subscribers : subscribers[i] \in Listeners
    BY <1>2
  <2> QED
    BY <2>1 DEF Listeners
<1>6. told \subseteq 1 .. Len(wire) /\ Len(wire) \in Nat
  BY <1>2 DEF Told
<1> HIDE DEF told
<1> DEFINE h == [i \in sent |-> subscribers[f[i]].group]
<1>7. ASSUME NEW i \in sent
      PROVE  /\ i \in told /\ f[i] \in DOMAIN subscribers /\ GroupOf[subscribers[f[i]].group] = service
             /\ subscribers[f[i]].endpoint = e
  BY <1>3, <1>4 DEF Listening
<1>8. h \in [sent -> due]
  <2>1. ASSUME NEW i \in sent
        PROVE  subscribers[f[i]].group \in due
    <3>1. want[subscribers[f[i]].group] = e
      BY <1>2, <1>7 DEF Heeded
    <3> QED
      BY <1>5, <1>7, <3>1, SomeIpAssumption
  <2> QED
    BY <2>1
<1>9. ASSUME NEW i \in sent, NEW j \in sent, h[i] = h[j]
      PROVE  i = j
  <2>1. subscribers[f[i]].group = subscribers[f[j]].group
    BY <1>9
  <2>2. f[i] = f[j]
    BY <1>2, <1>7, <2>1 DEF Heeded
  <2> QED
    BY <1>4, <1>7, <2>2
<1>10. ASSUME NEW g \in due
       PROVE  \E i \in sent : h[i] = g
  <2>1. g \in Groups /\ GroupOf[g] = service /\ want[g] # NoEndpoint /\ want[g] = e
    OBVIOUS
  <2>2. PICK p \in DOMAIN subscribers : subscribers[p].group = g
    BY <1>2, <2>1 DEF Heeded
  <2>3. p \in Listening(subscribers, service) /\ subscribers[p].endpoint = e
    BY <1>2, <2>1, <2>2 DEF Listening, Heeded
  <2>4. PICK i \in told : f[i] = p
    BY <1>4, <2>3
  <2>5. i \in sent
    BY <1>3, <2>3, <2>4
  <2> QED
    BY <2>2, <2>4, <2>5
<1> HIDE DEF h
<1>11. IsFiniteSet(sent)
  <2>1. IsFiniteSet(1 .. Len(wire))
    BY <1>6, FS_Interval
  <2>2. sent \in SUBSET (1 .. Len(wire))
    BY <1>6
  <2> QED
    BY <2>1, <2>2, FS_Subset
<1> HIDE DEF sent, due
<1>12. ExistsBijection(sent, due)
  <2>1. h \in Bijection(sent, due)
    BY <1>8, <1>9, <1>10, Fun_IsBij
  <2> QED
    BY <2>1, Fun_ExistsBij
<1>13. Cardinality(sent) = Cardinality(due)
  BY <1>11, <1>12, FS_Bijection
<1> QED
  BY <1>1, <1>13 DEF sent, due

LEMMA TypedByInv == SomeIpInv => SomeIpTyped
<1> SUFFICES ASSUME SomeIpInv
             PROVE  SomeIpTyped
  OBVIOUS
<1>1. Core \in Cores /\ looped \in BOOLEAN
  BY DEF SomeIpInv, Tracks
<1>2. /\ tick \in 0 .. MaxSim /\ sessions \in [Calls -> 0 .. Wrap - 1] /\ pending \in Seq(Waits)
      /\ offers \subseteq Services /\ replies \subseteq Calls /\ subscribers \in Seq(Listeners)
  BY <1>1 DEF Core, Cores
<1>3. /\ \A i \in DOMAIN pending : pending[i] \in Waits
      /\ \A i \in DOMAIN subscribers : subscribers[i] \in Listeners
  BY <1>2
<1> QED
  BY <1>1, <1>2, <1>3 DEF SomeIpTyped, Waits, Listeners, Numbers

\* The session counters stay below their wrap, what is waited for fits its bounds,
\* and only services of the calls are offered.
THEOREM SomeIpTypeCorrect == SomeIpSpec => []SomeIpTyped
BY TypedByInv, SomeIpInvInit, SomeIpInvNext, PTL DEF SomeIpSpec

\* A request the core waits for is answered by a response of its own identity or
\* times out after its whole patience, never both and never neither; a
\* notification goes to each eventgroup somebody wants, once, at the endpoint
\* last asked for.  For every set of calls, scripts, rules and endpoints.
THEOREM SessionsAreHonest == SomeIpSpec => []SessionsHonest
<1>1. SomeIpInv => SessionsHonest
  BY SettledByInv, NotifiedByInv DEF SessionsHonest
<1> QED
  BY <1>1, SomeIpInvInit, SomeIpInvNext, PTL DEF SomeIpSpec
=============================================================================
