--------------------------- MODULE RuleWalkProofs ---------------------------
(***************************************************************************)
(* What the walk owes each rule and each frame, for every list of rules,   *)
(* every traffic and every set of scripts: an appearance rule fires in the *)
(* run it is met in and once only, and no frame that a rule or a script    *)
(* sends is wiped before the walk reaches it.                              *)
(***************************************************************************)
EXTENDS RuleWalk, SequenceTheorems, FiniteSetTheorems, TLAPS

\* What the walk can meet: frames on CAN, and frames on Ethernet.
CanFrames == Can \cup {RuleList[r].frame : r \in Rules}
                 \cup {Replies[f].frame : f \in DOMAIN Replies}
EthFrames == Eth \cup {RuleList[r].frame : r \in {q \in Rules : RuleList[q].act = "sendEth"}}

Items == [do : {"act"}, rules : SUBSET Rules] \cup [do : {"eth"}, frame : EthFrames]
            \cup [do : {"node"}, frame : CanFrames]
BufFrames == [id : CanFrames, from : {"bus", "rule", "node"}]
States == [enabled : BOOLEAN, level : BOOLEAN, fired : 0 .. FiredCap, last : 0 .. MaxSteps]
Hists == [fires : [Latches -> 0 .. FiredCap], met : SUBSET Latches, done : SUBSET Latches,
          spent : SUBSET Latches, lost : BOOLEAN]

Shape ==
    /\ run \in 1 .. MaxRuns /\ now \in 0 .. MaxSteps /\ pc \in {"idle", "walk", "swept"}
    /\ state \in [Rules -> States] /\ hist \in Hists
    /\ work \in Seq(Items) /\ buf \in Seq(BufFrames)
    /\ pc = "idle" => work = << >>

\* A rule that brought nothing into the run and has not fired in it is as new,
\* and so is the run to it.
FreshUntilFired ==
    \A r \in Latches : r \notin hist.spent /\ r \notin hist.done =>
        r \notin hist.met /\ ~state[r].level /\ state[r].fired = 0

\* A fire since the last clearing is held down by the latch.
FiredHeldDown ==
    \A r \in Latches : hist.fires[r] = 0 \/ (hist.fires[r] = 1 /\ state[r].level)

\* Actions that send nothing.
Mute(item) == item.do = "act" /\ \A r \in item.rules : RuleList[r].act \in {"clear", "note"}

\* The walk leaves nothing behind, and nothing is sent after it.
WalkedOut ==
    /\ pc # "walk" => buf = << >>
    /\ pc = "swept" => \A i \in 1 .. Len(work) : Mute(work[i])
    /\ ~hist.lost

\* Every flow rule waits for every Ethernet frame there is: without it, a frame
\* it does not wait for drops the latch (eval_eth_triggers).
FlowsHear == \A r \in Rules : RuleList[r].cond = "flow" => EthFrames \subseteq RuleList[r].hits

\* No rule judged at the end of the step sends.
QuietSweeps == \A r \in Rules : RuleList[r].cond = "sweep" => RuleList[r].act \in {"clear", "note"}

-----------------------------------------------------------------------------
(* Lemmas about sequences and about what Judge does.                       *)

LEMMA ConstantFacts ==
    /\ FiredCap \in Nat /\ MaxSteps \in Nat /\ Len(RuleList) \in Nat /\ Rules \subseteq Nat
    /\ Latches \subseteq Rules /\ ReactionLimit \in Nat /\ MaxRuns \in Nat
BY RuleWalkAssumption DEF Rules, Latches

LEMMA HeadTail ==
    ASSUME NEW S, NEW s \in Seq(S), s # << >>
    PROVE  /\ Head(s) \in S /\ Tail(s) \in Seq(S) /\ Head(s) = s[1]
           /\ Len(s) \in Nat /\ Len(s) > 0 /\ Len(Tail(s)) = Len(s) - 1
           /\ \A i \in 1 .. Len(Tail(s)) : Tail(s)[i] = s[i + 1]
BY HeadTailProperties, LenProperties, EmptySeq

\* What every item of a sequence is, every item of its tail is; and of what
\* is put before it.
LEMMA ActsThen ==
    ASSUME NEW S \in SUBSET Rules, NEW rest \in Seq(Items)
    PROVE  /\ Acts(S) \o rest \in Seq(Items)
           /\ \A i \in 1 .. Len(Acts(S) \o rest) :
                 \/ S # {} /\ (Acts(S) \o rest)[i] = [do |-> "act", rules |-> S]
                 \/ \E j \in 1 .. Len(rest) : (Acts(S) \o rest)[i] = rest[j]
<1> DEFINE a == Acts(S)
           item == [do |-> "act", rules |-> S]
<1>1. CASE S = {}
  <2>1. a = << >>
    BY <1>1 DEF Acts
  <2>2. a \o rest = rest
    BY <2>1, ConcatEmptySeq
  <2> QED
    BY <2>2, LenProperties
<1>2. CASE S # {}
  <2>1. a = <<item>> /\ item \in Items
    BY <1>2 DEF Acts, Items
  <2>2. <<item>> \in Seq(Items) /\ Len(<<item>>) = 1 /\ <<item>>[1] = item
    BY <2>1
  <2>3. /\ <<item>> \o rest \in Seq(Items) /\ Len(<<item>> \o rest) = 1 + Len(rest)
        /\ \A i \in 1 .. 1 + Len(rest) :
              (<<item>> \o rest)[i] = IF i <= 1 THEN <<item>>[i] ELSE rest[i - 1]
    BY <2>2, ConcatProperties
  <2>4. Len(rest) \in Nat
    BY LenProperties
  <2>5. ASSUME NEW i \in 1 .. Len(<<item>> \o rest)
        PROVE  (<<item>> \o rest)[i] = item \/ \E j \in 1 .. Len(rest) : (<<item>> \o rest)[i] = rest[j]
    <3>1. CASE i = 1
      BY <2>2, <2>3, <2>4, <3>1
    <3>2. CASE i # 1
      <4>1. i - 1 \in 1 .. Len(rest) /\ (<<item>> \o rest)[i] = rest[i - 1]
        BY <2>3, <2>4, <3>2
      <4> QED
        BY <4>1
    <3> QED
      BY <3>1, <3>2
  <2> QED
    BY <1>2, <2>1, <2>3, <2>5
<1> QED
  BY <1>1, <1>2

\* Judging keeps a rule that is as new as it was, unless it fires; and a rule
\* that fired held down, unless it hears of something it does not wait for.
LEMMA JudgeKeeps ==
    ASSUME Shape, FreshUntilFired, NEW hearing \in SUBSET Rules, NEW raised \in SUBSET Rules,
           NEW rest \in Seq(Items), Judge(hearing, raised, rest)
    PROVE  /\ state' \in [Rules -> States] /\ hist' \in Hists
           /\ FreshUntilFired' /\ hist'.lost = hist.lost
           /\ \E edges \in SUBSET hearing : work' = Acts(edges) \o rest
           /\ work' \in Seq(Items)
           /\ FiredHeldDown /\ Latches \cap hearing \subseteq raised => FiredHeldDown'
<1>1. PICK edges \in SUBSET Rules, heard \in SUBSET Rules :
        /\ heard = {r \in hearing : state[r].enabled}
        /\ edges = {r \in heard : Edge(r, heard, raised)}
        /\ state' = [r \in Rules |->
               IF r \notin heard THEN state[r]
               ELSE IF r \notin edges THEN [state[r] EXCEPT !.level = r \in raised]
               ELSE [state[r] EXCEPT !.level = TRUE, !.fired = Bump(@), !.last = now]]
        /\ work' = Acts(edges) \o rest
        /\ hist' = [hist EXCEPT
               !.fires = [r \in Latches |-> IF r \in edges THEN Bump(@[r]) ELSE @[r]],
               !.met = @ \cup (Latches \cap heard \cap raised),
               !.done = @ \cup (Latches \cap edges)]
  <2>1. PICK heard \in {{r \in hearing : state[r].enabled}} :
        \E edges \in {{r \in heard : Edge(r, heard, raised)}} :
        /\ state' = [r \in Rules |->
               IF r \notin heard THEN state[r]
               ELSE IF r \notin edges THEN [state[r] EXCEPT !.level = r \in raised]
               ELSE [state[r] EXCEPT !.level = TRUE, !.fired = Bump(@), !.last = now]]
        /\ work' = Acts(edges) \o rest
        /\ hist' = [hist EXCEPT
               !.fires = [r \in Latches |-> IF r \in edges THEN Bump(@[r]) ELSE @[r]],
               !.met = @ \cup (Latches \cap heard \cap raised),
               !.done = @ \cup (Latches \cap edges)]
    BY DEF Judge
  <2>2. heard \in SUBSET Rules
    BY <2>1
  <2>3. PICK edges \in {{r \in heard : Edge(r, heard, raised)}} :
        /\ state' = [r \in Rules |->
               IF r \notin heard THEN state[r]
               ELSE IF r \notin edges THEN [state[r] EXCEPT !.level = r \in raised]
               ELSE [state[r] EXCEPT !.level = TRUE, !.fired = Bump(@), !.last = now]]
        /\ work' = Acts(edges) \o rest
        /\ hist' = [hist EXCEPT
               !.fires = [r \in Latches |-> IF r \in edges THEN Bump(@[r]) ELSE @[r]],
               !.met = @ \cup (Latches \cap heard \cap raised),
               !.done = @ \cup (Latches \cap edges)]
    BY <2>1
  <2>4. edges \in SUBSET Rules
    BY <2>2, <2>3
  <2> QED
    BY <2>1, <2>2, <2>3, <2>4, Zenon
<1>2. /\ state \in [Rules -> States] /\ hist \in Hists /\ now \in 0 .. MaxSteps
  BY DEF Shape
<1>3. \A k \in 0 .. FiredCap : Bump(k) \in 0 .. FiredCap /\ (k = 0 => Bump(k) \in {0, 1})
  BY ConstantFacts DEF Bump
<1>4. edges \subseteq heard /\ heard \subseteq hearing
  BY <1>1
<1>5. ASSUME NEW r \in Rules
      PROVE  /\ state'[r] \in States
             /\ r \notin heard => state'[r] = state[r]
             /\ r \in heard /\ r \notin edges =>
                   state'[r].level = (r \in raised) /\ state'[r].fired = state[r].fired
             /\ r \in edges => state'[r].level
  <2>1. state[r] \in States
    BY <1>2
  <2>2. CASE r \notin heard
    <3>1. state'[r] = state[r]
      BY <1>1, <2>2
    <3> QED
      BY <1>4, <2>1, <2>2, <3>1
  <2>3. CASE r \in heard /\ r \notin edges
    <3>1. state'[r] = [state[r] EXCEPT !.level = (r \in raised)]
      BY <1>1, <2>3
    <3>2. (r \in raised) \in BOOLEAN
      OBVIOUS
    <3> QED
      BY <2>1, <2>3, <3>1, <3>2 DEF States
  <2>4. CASE r \in edges
    <3>1. state'[r] = [state[r] EXCEPT !.level = TRUE, !.fired = Bump(@), !.last = now]
      BY <1>1, <1>4, <2>4
    <3>2. Bump(state[r].fired) \in 0 .. FiredCap
      BY <1>3, <2>1 DEF States
    <3>3. state'[r] \in States /\ state'[r].level
      BY <1>2, <2>1, <3>1, <3>2 DEF States
    <3> QED
      BY <1>4, <2>4, <3>3
  <2> QED
    BY <2>2, <2>3, <2>4
<1>6. state' \in [Rules -> States]
  <2>1. \E f : state' = [r \in Rules |-> f[r]]
    <3>1. state' = [r \in Rules |-> state'[r]]
      BY <1>1
    <3> QED
      BY <3>1
  <2> QED
    BY <1>5, <2>1
<1> DEFINE fires == [r \in Latches |-> IF r \in edges THEN Bump(hist.fires[r]) ELSE hist.fires[r]]
           met == hist.met \cup (Latches \cap heard \cap raised)
           done == hist.done \cup (Latches \cap edges)
<1>7. /\ hist'.fires = fires /\ hist'.met = met /\ hist'.done = done
      /\ hist'.spent = hist.spent /\ hist'.lost = hist.lost
      /\ hist' = [fires |-> fires, met |-> met, done |-> done, spent |-> hist.spent, lost |-> hist.lost]
  BY <1>1, <1>2 DEF Hists
<1>8. fires \in [Latches -> 0 .. FiredCap]
  BY <1>2, <1>3 DEF Hists
<1>9. hist' \in Hists
  BY <1>2, <1>7, <1>8 DEF Hists
<1>10. FreshUntilFired'
  <2> SUFFICES ASSUME NEW r \in Latches, r \notin hist'.spent, r \notin hist'.done
               PROVE  r \notin hist'.met /\ ~state'[r].level /\ state'[r].fired = 0
    BY DEF FreshUntilFired
  <2>1. r \in Rules /\ r \notin edges
    BY <1>7, ConstantFacts
  <2>2. r \notin hist.met /\ ~state[r].level /\ state[r].fired = 0
    BY <1>7 DEF FreshUntilFired
  <2>3. CASE r \notin heard
    BY <1>5, <1>7, <2>1, <2>2, <2>3
  <2>4. CASE r \in heard
    <3>1. CanFire(r)
      <4>1. state[r].enabled
        BY <1>1, <2>4
      <4>2. RuleList[r].max = 0 \/ state[r].fired < RuleList[r].max
        <5>1. RuleList[r].max \in Nat
          BY <2>1, RuleWalkAssumption
        <5> QED
          BY <2>2, <5>1
      <4> QED
        BY <2>2, <4>1, <4>2 DEF CanFire
    <3>2. r \notin raised
      BY <1>1, <2>1, <2>2, <2>4, <3>1 DEF Edge
    <3> QED
      BY <1>5, <1>7, <2>1, <2>2, <2>4, <3>2
  <2> QED
    BY <2>3, <2>4
<1>11. work' = Acts(edges) \o rest /\ edges \in SUBSET hearing
  BY <1>1, <1>4
<1>12. work' \in Seq(Items)
  BY <1>11, ActsThen
<1>13. ASSUME FiredHeldDown, Latches \cap hearing \subseteq raised
       PROVE  FiredHeldDown'
  <2> SUFFICES ASSUME NEW r \in Latches
               PROVE  hist'.fires[r] = 0 \/ (hist'.fires[r] = 1 /\ state'[r].level)
    BY DEF FiredHeldDown
  <2>1. r \in Rules /\ (hist.fires[r] = 0 \/ (hist.fires[r] = 1 /\ state[r].level))
    BY <1>13, ConstantFacts DEF FiredHeldDown
  <2>2. hist'.fires[r] = IF r \in edges THEN Bump(hist.fires[r]) ELSE hist.fires[r]
    BY <1>7
  <2>3. CASE r \in edges
    <3>1. ~state[r].level
      BY <1>1, <2>3 DEF Edge
    <3>2. hist.fires[r] = 0 /\ hist.fires[r] \in 0 .. FiredCap
      BY <1>2, <2>1, <3>1 DEF Hists
    <3>3. Bump(hist.fires[r]) \in {0, 1}
      BY <1>3, <3>2
    <3> QED
      BY <1>5, <2>1, <2>2, <2>3, <3>3
  <2>4. CASE r \notin edges /\ r \in heard
    <3>1. r \in raised
      BY <1>4, <1>13, <2>4
    <3> QED
      BY <1>5, <2>1, <2>2, <2>4, <3>1
  <2>5. CASE r \notin edges /\ r \notin heard
    BY <1>5, <2>1, <2>2, <2>5
  <2> QED
    BY <2>3, <2>4, <2>5
<1> QED
  BY <1>6, <1>7, <1>9, <1>10, <1>11, <1>12, <1>13
-----------------------------------------------------------------------------
(* Every action keeps them.                                                *)

Keeps ==
    /\ Shape' /\ FreshUntilFired'
    /\ FlowsHear /\ FiredHeldDown => FiredHeldDown'
    /\ QuietSweeps /\ WalkedOut => WalkedOut'

\* A step that leaves the rules, and what is known of them, alone.
LEMMA RulesAlone ==
    ASSUME FreshUntilFired, state' = state, hist'.fires = hist.fires, hist'.met = hist.met,
           hist'.done = hist.done, hist'.spent = hist.spent
    PROVE  FreshUntilFired' /\ (FiredHeldDown => FiredHeldDown')
BY DEF FreshUntilFired, FiredHeldDown

\* A function of a short prefix is a sequence.
LEMMA BurstIsSeq ==
    ASSUME NEW k \in Nat, NEW S, NEW s, s \in [1 .. k -> S]
    PROVE  s \in Seq(S) /\ Len(s) = k
<1>1. s \in Seq(S)
  BY IsASeq
<1>2. DOMAIN s = 1 .. k /\ DOMAIN s = 1 .. Len(s) /\ Len(s) \in Nat
  BY <1>1, LenProperties
<1> QED
  BY <1>1, <1>2

LEMMA BeginStepKeeps ==
    ASSUME Shape, FreshUntilFired, NEW cans \in CanBursts, NEW eths \in EthBursts,
           BeginStep(cans, eths)
    PROVE  Keeps
<1>1. /\ pc = "idle" /\ now < MaxSteps /\ pc' = "walk" /\ now' = now + 1
      /\ buf' = [i \in 1 .. Len(cans) |-> Frame(cans[i], "bus")]
      /\ work' = [i \in 1 .. Len(eths) |-> Ingest(eths[i])]
      /\ hist' = [hist EXCEPT !.lost = @ \/ buf # << >>]
      /\ run' = run /\ state' = state
  BY DEF BeginStep
<1>2. /\ hist \in Hists /\ state \in [Rules -> States] /\ run \in 1 .. MaxRuns
      /\ now \in 0 .. MaxSteps
  BY DEF Shape
<1>3. buf' \in Seq(BufFrames)
  <2>1. PICK k \in 0 .. Burst : cans \in [1 .. k -> Can]
    BY DEF CanBursts
  <2>2. k \in Nat /\ Len(cans) = k
    <3>1. k \in Nat
      BY RuleWalkAssumption
    <3> QED
      BY <2>1, <3>1, BurstIsSeq
  <2>3. \A i \in 1 .. k : Frame(cans[i], "bus") \in BufFrames
    BY <2>1 DEF Frame, BufFrames, CanFrames
  <2>4. buf' \in [1 .. k -> BufFrames]
    BY <1>1, <2>2, <2>3
  <2> QED
    BY <2>2, <2>4, BurstIsSeq
<1>4. work' \in Seq(Items)
  <2>1. CASE eths = << >>
    <3>1. Len(eths) = 0
      BY <2>1
    <3>2. work' \in [1 .. 0 -> Items]
      BY <1>1, <3>1
    <3> QED
      BY <3>2, BurstIsSeq
  <2>2. ASSUME NEW f \in Eth, eths = <<f>> PROVE work' \in Seq(Items)
    <3>1. Len(eths) = 1 /\ eths[1] = f
      BY <2>2
    <3>2. Ingest(f) \in Items
      BY DEF Ingest, Items, EthFrames
    <3>3. work' \in [1 .. 1 -> Items]
      BY <1>1, <3>1, <3>2
    <3> QED
      BY <3>3, BurstIsSeq
  <2> QED
    BY <2>1, <2>2 DEF EthBursts
<1>5. /\ hist' \in Hists /\ hist'.fires = hist.fires /\ hist'.met = hist.met
      /\ hist'.done = hist.done /\ hist'.spent = hist.spent
      /\ hist'.lost = (hist.lost \/ buf # << >>)
  <2>1. (hist.lost \/ buf # << >>) \in BOOLEAN
    BY <1>2 DEF Hists
  <2> QED
    BY <1>1, <1>2, <2>1 DEF Hists
<1>6. Shape'
  <2>1. now' \in 0 .. MaxSteps
    BY <1>1, <1>2, ConstantFacts
  <2> QED
    BY <1>1, <1>2, <1>3, <1>4, <1>5, <2>1 DEF Shape
<1>7. FreshUntilFired' /\ (FiredHeldDown => FiredHeldDown')
  BY <1>1, <1>5, RulesAlone
<1>8. WalkedOut => WalkedOut'
  BY <1>1, <1>5 DEF WalkedOut
<1> QED
  BY <1>6, <1>7, <1>8 DEF Keeps

\* Between two steps nothing is under way, and after the walk only what the
\* sweep fired.
LEMMA InTheWalk ==
    ASSUME Shape, work # << >>, ~(Head(work).do = "act")
    PROVE  pc # "idle" /\ (WalkedOut => pc = "walk")
<1>1. pc \in {"idle", "walk", "swept"} /\ pc # "idle"
  BY DEF Shape
<1>2. Head(work) = work[1] /\ 1 \in 1 .. Len(work)
  BY HeadTail DEF Shape
<1>3. ASSUME WalkedOut PROVE pc = "walk"
  BY <1>1, <1>2, <1>3 DEF WalkedOut, Mute
<1> QED
  BY <1>1, <1>3

LEMMA IngestEthKeeps ==
    ASSUME Shape, FreshUntilFired, IngestEth
    PROVE  Keeps
<1> DEFINE hearing == {r \in Rules : HearsEth(r)}
           raised == {r \in Rules : Raises(r, Head(work).frame)}
<1>1. /\ work # << >> /\ Head(work).do = "eth" /\ Judge(hearing, raised, Tail(work))
      /\ UNCHANGED <<run, now, pc, buf, replies>>
  BY DEF IngestEth
<1>2. Head(work) \in Items /\ Tail(work) \in Seq(Items)
  BY <1>1, HeadTail DEF Shape
<1>3. Head(work).frame \in EthFrames
  BY <1>1, <1>2 DEF Items
<1>4. hearing \in SUBSET Rules /\ raised \in SUBSET Rules
  OBVIOUS
<1>5. FlowsHear => Latches \cap hearing \subseteq raised
  BY <1>3 DEF FlowsHear, HearsEth, Raises, Latches
<1> HIDE DEF hearing, raised
<1>6. /\ state' \in [Rules -> States] /\ hist' \in Hists
      /\ FreshUntilFired' /\ hist'.lost = hist.lost
      /\ work' \in Seq(Items)
      /\ FiredHeldDown /\ Latches \cap hearing \subseteq raised => FiredHeldDown'
  BY <1>1, <1>2, <1>4, JudgeKeeps
<1>7. pc # "idle" /\ (WalkedOut => pc = "walk")
  BY <1>1, InTheWalk
<1>8. Shape'
  BY <1>1, <1>6, <1>7 DEF Shape
<1>9. WalkedOut => WalkedOut'
  BY <1>1, <1>6, <1>7 DEF WalkedOut
<1> QED
  BY <1>5, <1>6, <1>8, <1>9 DEF Keeps

LEMMA WalkFrameKeeps ==
    ASSUME Shape, FreshUntilFired, WalkFrame
    PROVE  Keeps
<1> DEFINE f == Head(buf).id
           hearing == {r \in Rules : HearsCan(r, f)}
           raised == {r \in Rules : Raises(r, f)}
           rest == <<Dispatch(f)>>
<1>1. /\ pc = "walk" /\ buf # << >> /\ Judge(hearing, raised, rest)
      /\ buf' = Tail(buf) /\ UNCHANGED <<run, now, pc, replies>>
  BY DEF WalkFrame, MoreToWalk
<1>2. f \in CanFrames /\ Tail(buf) \in Seq(BufFrames)
  <2>1. Head(buf) \in BufFrames /\ Tail(buf) \in Seq(BufFrames)
    BY <1>1, HeadTail DEF Shape
  <2> QED
    BY <2>1 DEF BufFrames
<1>3. rest \in Seq(Items)
  <2>1. Dispatch(f) \in Items
    BY <1>2 DEF Dispatch, Items
  <2> QED
    BY <2>1
<1>4. hearing \in SUBSET Rules /\ raised \in SUBSET Rules
  OBVIOUS
<1>5. Latches \cap hearing \subseteq raised
  BY RuleWalkAssumption DEF HearsCan, Raises, Latches
<1> HIDE DEF hearing, raised, rest
<1>6. /\ state' \in [Rules -> States] /\ hist' \in Hists
      /\ FreshUntilFired' /\ hist'.lost = hist.lost
      /\ work' \in Seq(Items) /\ (FiredHeldDown => FiredHeldDown')
  BY <1>1, <1>3, <1>4, <1>5, JudgeKeeps
<1>7. Shape'
  BY <1>1, <1>2, <1>6 DEF Shape
<1>8. WalkedOut => WalkedOut'
  BY <1>1, <1>6 DEF WalkedOut
<1> QED
  BY <1>6, <1>7, <1>8 DEF Keeps

LEMMA SweepKeeps ==
    ASSUME Shape, FreshUntilFired, NEW swept \in Swept, Sweep(swept)
    PROVE  Keeps
<1> DEFINE hearing == {r \in Rules : RuleList[r].cond = "sweep"}
<1>1. /\ pc = "walk" /\ pc' = "swept" /\ work = << >> /\ buf = << >>
      /\ Judge(hearing, swept, << >>) /\ UNCHANGED <<run, now, buf, replies>>
  BY DEF Sweep, MoreToWalk
<1>2. hearing \in SUBSET Rules /\ swept \in SUBSET Rules /\ << >> \in Seq(Items)
  BY EmptySeq DEF Swept
<1>3. Latches \cap hearing = {}
  BY DEF Latches
<1>4. QuietSweeps => \A r \in hearing : RuleList[r].act \in {"clear", "note"}
  BY DEF QuietSweeps
<1> HIDE DEF hearing
<1>5. /\ state' \in [Rules -> States] /\ hist' \in Hists
      /\ FreshUntilFired' /\ hist'.lost = hist.lost
      /\ \E edges \in SUBSET hearing : work' = Acts(edges) \o << >>
      /\ work' \in Seq(Items) /\ (FiredHeldDown => FiredHeldDown')
  BY <1>1, <1>2, <1>3, JudgeKeeps
<1>6. Shape'
  BY <1>1, <1>5 DEF Shape
<1>7. ASSUME QuietSweeps, WalkedOut PROVE WalkedOut'
  <2>1. PICK edges \in SUBSET hearing : work' = Acts(edges) \o << >>
    BY <1>5
  <2>2. edges \in SUBSET Rules
    BY <1>2, <2>1
  <2>3. \A i \in 1 .. Len(work') : work'[i] = [do |-> "act", rules |-> edges]
    <3>1. Len(<< >>) = 0
      OBVIOUS
    <3>2. \A i \in 1 .. Len(Acts(edges) \o << >>) :
             \/ (Acts(edges) \o << >>)[i] = [do |-> "act", rules |-> edges]
             \/ \E j \in 1 .. Len(<< >>) : (Acts(edges) \o << >>)[i] = << >>[j]
      BY <1>2, <2>2, ActsThen
    <3>3. 1 .. Len(<< >>) = {}
      BY <3>1
    <3> QED
      BY <2>1, <3>2, <3>3
  <2>4. \A i \in 1 .. Len(work') : Mute(work'[i])
    <3> SUFFICES ASSUME NEW i \in 1 .. Len(work') PROVE Mute(work'[i])
      OBVIOUS
    <3>1. work'[i].do = "act" /\ work'[i].rules = edges
      BY <2>3
    <3> QED
      BY <1>4, <1>7, <2>1, <3>1 DEF Mute
  <2>5. buf' = << >> /\ ~hist'.lost
    BY <1>1, <1>5, <1>7 DEF WalkedOut
  <2> QED
    BY <2>4, <2>5 DEF WalkedOut
<1> QED
  BY <1>5, <1>6, <1>7 DEF Keeps

LEMMA RunActionKeeps ==
    ASSUME Shape, FreshUntilFired, RunAction
    PROVE  Keeps
<1>1. /\ work # << >> /\ Head(work).do = "act" /\ UNCHANGED <<run, now, pc, replies>>
  BY DEF RunAction
<1>2. /\ Head(work) \in Items /\ Tail(work) \in Seq(Items) /\ Head(work) = work[1]
      /\ Len(work) \in Nat /\ Len(work) > 0 /\ Len(Tail(work)) = Len(work) - 1
      /\ \A i \in 1 .. Len(Tail(work)) : Tail(work)[i] = work[i + 1]
  BY <1>1, HeadTail DEF Shape
<1>3. Head(work).rules \in SUBSET Rules
  BY <1>1, <1>2 DEF Items
<1>4. PICK r \in Head(work).rules :
        LET rest == Acts(Head(work).rules \ {r}) \o Tail(work)
        IN  \/ /\ RuleList[r].act = "send"
               /\ buf' = Append(buf, Frame(RuleList[r].frame, "rule"))
               /\ work' = rest /\ UNCHANGED <<state, hist>>
            \/ /\ RuleList[r].act = "sendEth"
               /\ work' = <<Ingest(RuleList[r].frame)>> \o rest
               /\ UNCHANGED <<state, buf, hist>>
            \/ /\ RuleList[r].act = "clear"
               /\ state' = [q \in Rules |->
                      IF q \in Latches THEN [state[q] EXCEPT !.level = FALSE] ELSE state[q]]
               /\ hist' = [hist EXCEPT !.fires = [q \in Latches |-> 0]]
               /\ work' = rest /\ UNCHANGED buf
            \/ /\ RuleList[r].act = "note"
               /\ work' = rest /\ UNCHANGED <<state, buf, hist>>
  BY DEF RunAction
<1> DEFINE others == Head(work).rules \ {r}
           rest == Acts(others) \o Tail(work)
<1>0. others \in SUBSET Rules
  BY <1>3
<1>5. /\ rest \in Seq(Items)
      /\ \A i \in 1 .. Len(rest) :
            \/ others # {} /\ rest[i] = [do |-> "act", rules |-> others]
            \/ \E j \in 1 .. Len(Tail(work)) : rest[i] = Tail(work)[j]
  BY <1>0, <1>2, ActsThen
<1>6. others \subseteq Head(work).rules /\ r \in Rules
  BY <1>3
<1>7. \/ RuleList[r].act = "send" /\ buf' = Append(buf, Frame(RuleList[r].frame, "rule"))
         /\ work' = rest /\ UNCHANGED <<state, hist>>
      \/ RuleList[r].act = "sendEth" /\ work' = <<Ingest(RuleList[r].frame)>> \o rest
         /\ UNCHANGED <<state, buf, hist>>
      \/ RuleList[r].act = "clear"
         /\ state' = [q \in Rules |->
                IF q \in Latches THEN [state[q] EXCEPT !.level = FALSE] ELSE state[q]]
         /\ hist' = [hist EXCEPT !.fires = [q \in Latches |-> 0]]
         /\ work' = rest /\ UNCHANGED buf
      \/ RuleList[r].act = "note" /\ work' = rest /\ UNCHANGED <<state, buf, hist>>
  BY <1>4
<1> HIDE DEF others, rest
<1>8. /\ state \in [Rules -> States] /\ hist \in Hists /\ buf \in Seq(BufFrames) /\ pc # "idle"
  BY <1>1 DEF Shape
\* After the walk only mute rules act, and what is left of them is mute.
<1>9. ASSUME WalkedOut, pc = "swept"
      PROVE  RuleList[r].act \in {"clear", "note"} /\ \A i \in 1 .. Len(rest) : Mute(rest[i])
  <2>1. \A i \in 1 .. Len(work) : Mute(work[i])
    BY <1>9 DEF WalkedOut
  <2>2. 1 \in 1 .. Len(work)
    BY <1>2
  <2>3. \A q \in Head(work).rules : RuleList[q].act \in {"clear", "note"}
    BY <1>2, <2>1, <2>2 DEF Mute
  <2>4. \A j \in 1 .. Len(Tail(work)) : Mute(Tail(work)[j])
    <3> SUFFICES ASSUME NEW j \in 1 .. Len(Tail(work)) PROVE Mute(Tail(work)[j])
      OBVIOUS
    <3>1. j + 1 \in 1 .. Len(work)
      BY <1>2
    <3>2. Tail(work)[j] = work[j + 1]
      BY <1>2
    <3> QED
      BY <2>1, <3>1, <3>2
  <2>5. Mute([do |-> "act", rules |-> others])
    BY <1>6, <2>3 DEF Mute
  <2>6. \A i \in 1 .. Len(rest) : Mute(rest[i])
    BY <1>5, <2>4, <2>5
  <2> QED
    BY <1>4, <2>3, <2>6
<1>10. CASE RuleList[r].act = "send"
  <2>1. buf' = Append(buf, Frame(RuleList[r].frame, "rule")) /\ work' = rest /\ UNCHANGED <<state, hist>>
    BY <1>7, <1>10
  <2>2. buf' \in Seq(BufFrames)
    <3>1. Frame(RuleList[r].frame, "rule") \in BufFrames
      BY <1>6 DEF Frame, BufFrames, CanFrames
    <3> QED
      BY <1>8, <2>1, <3>1, AppendProperties
  <2>3. Shape'
    BY <1>1, <1>5, <1>8, <2>1, <2>2 DEF Shape
  <2>4. FreshUntilFired' /\ (FiredHeldDown => FiredHeldDown')
    BY <2>1, RulesAlone
  <2>5. ASSUME WalkedOut PROVE WalkedOut'
    <3>1. pc = "walk"
      BY <1>8, <1>9, <1>10, <2>5 DEF Shape
    <3> QED
      BY <1>1, <2>1, <2>5, <3>1 DEF WalkedOut
  <2> QED
    BY <2>3, <2>4, <2>5 DEF Keeps
<1>11. CASE RuleList[r].act = "sendEth"
  <2> DEFINE item == Ingest(RuleList[r].frame)
  <2>1. work' = <<item>> \o rest /\ UNCHANGED <<state, buf, hist>>
    BY <1>7, <1>11
  <2>2. work' \in Seq(Items)
    <3>1. item \in Items
      BY <1>6, <1>11 DEF Ingest, Items, EthFrames
    <3>2. <<item>> \in Seq(Items)
      BY <3>1
    <3> HIDE DEF item
    <3> QED
      BY <1>5, <2>1, <3>2, ConcatProperties
  <2>3. Shape'
    BY <1>1, <1>8, <2>1, <2>2 DEF Shape
  <2>4. FreshUntilFired' /\ (FiredHeldDown => FiredHeldDown')
    BY <2>1, RulesAlone
  <2>5. ASSUME WalkedOut PROVE WalkedOut'
    <3>1. pc = "walk"
      BY <1>8, <1>9, <1>11, <2>5 DEF Shape
    <3> QED
      BY <1>1, <2>1, <2>5, <3>1 DEF WalkedOut
  <2> QED
    BY <2>3, <2>4, <2>5 DEF Keeps
<1>12. CASE RuleList[r].act = "clear"
  <2>1. /\ state' = [q \in Rules |->
               IF q \in Latches THEN [state[q] EXCEPT !.level = FALSE] ELSE state[q]]
        /\ hist' = [hist EXCEPT !.fires = [q \in Latches |-> 0]]
        /\ work' = rest /\ buf' = buf
    BY <1>7, <1>12
  <2>2. ASSUME NEW q \in Rules
        PROVE  /\ state'[q] \in States /\ state'[q].fired = state[q].fired
               /\ q \in Latches => ~state'[q].level
    BY <1>8, <2>1 DEF States
  <2>3. state' \in [Rules -> States]
    BY <2>1, <2>2
  <2>4. /\ hist' \in Hists /\ hist'.fires = [q \in Latches |-> 0] /\ hist'.met = hist.met
        /\ hist'.done = hist.done /\ hist'.spent = hist.spent /\ hist'.lost = hist.lost
    <3>1. [q \in Latches |-> 0] \in [Latches -> 0 .. FiredCap]
      BY ConstantFacts
    <3> QED
      BY <1>8, <2>1, <3>1 DEF Hists
  <2>5. Shape'
    BY <1>1, <1>5, <1>8, <2>1, <2>3, <2>4 DEF Shape
  <2>6. FreshUntilFired'
    BY <2>2, <2>4, ConstantFacts DEF FreshUntilFired
  <2>7. FiredHeldDown'
    BY <2>4 DEF FiredHeldDown
  <2>8. WalkedOut => WalkedOut'
    BY <1>1, <1>9, <2>1, <2>4 DEF WalkedOut
  <2> QED
    BY <2>5, <2>6, <2>7, <2>8 DEF Keeps
<1>13. CASE RuleList[r].act = "note"
  <2>1. work' = rest /\ UNCHANGED <<state, buf, hist>>
    BY <1>7, <1>13
  <2>2. Shape'
    BY <1>1, <1>5, <1>8, <2>1 DEF Shape
  <2>3. FreshUntilFired' /\ (FiredHeldDown => FiredHeldDown')
    BY <2>1, RulesAlone
  <2>4. WalkedOut => WalkedOut'
    BY <1>1, <1>9, <2>1 DEF WalkedOut
  <2> QED
    BY <2>2, <2>3, <2>4 DEF Keeps
<1> QED
  BY <1>7, <1>10, <1>11, <1>12, <1>13

LEMMA DispatchFrameKeeps ==
    ASSUME Shape, FreshUntilFired, DispatchFrame
    PROVE  Keeps
<1> DEFINE f == Head(work).frame
<1>1. /\ work # << >> /\ Head(work).do = "node" /\ work' = Tail(work)
      /\ UNCHANGED <<run, now, pc, state, hist>>
      /\ \/ buf' = buf
         \/ f \in DOMAIN Replies /\ buf' = Append(buf, Frame(Replies[f].frame, "node"))
  BY DEF DispatchFrame
<1>2. Tail(work) \in Seq(Items) /\ buf \in Seq(BufFrames)
  BY <1>1, HeadTail DEF Shape
<1>3. buf' \in Seq(BufFrames)
  <2>1. f \in DOMAIN Replies => Frame(Replies[f].frame, "node") \in BufFrames
    BY DEF Frame, BufFrames, CanFrames
  <2> QED
    BY <1>1, <1>2, <2>1, AppendProperties, SMTT(40)
<1>4. pc # "idle" /\ (WalkedOut => pc = "walk")
  BY <1>1, InTheWalk
<1>5. Shape'
  BY <1>1, <1>2, <1>3, <1>4 DEF Shape
<1>6. FreshUntilFired' /\ (FiredHeldDown => FiredHeldDown')
  BY <1>1, RulesAlone
<1>7. WalkedOut => WalkedOut'
  BY <1>1, <1>4 DEF WalkedOut
<1> QED
  BY <1>5, <1>6, <1>7 DEF Keeps

LEMMA EndStepKeeps ==
    ASSUME Shape, FreshUntilFired, EndStep
    PROVE  Keeps
<1>1. pc = "swept" /\ work = << >> /\ pc' = "idle" /\ UNCHANGED <<run, now, state, buf, work, replies, hist>>
  BY DEF EndStep
<1>2. Shape'
  BY <1>1 DEF Shape
<1>3. FreshUntilFired' /\ (FiredHeldDown => FiredHeldDown')
  BY <1>1, RulesAlone
<1>4. WalkedOut => WalkedOut'
  BY <1>1 DEF WalkedOut
<1> QED
  BY <1>2, <1>3, <1>4 DEF Keeps

LEMMA RestartKeeps ==
    ASSUME Shape, FreshUntilFired, Restart
    PROVE  Keeps
<1> DEFINE spent == {r \in Latches : state[r].level \/ state[r].fired > 0}
<1>1. /\ pc = "idle" /\ run < MaxRuns /\ run' = run + 1 /\ now' = 0
      /\ hist' = [hist EXCEPT !.fires = [r \in Latches |-> 0], !.met = {}, !.done = {},
                              !.spent = spent]
      /\ UNCHANGED <<pc, state, buf, work, replies>>
  BY DEF Restart
<1>2. /\ state \in [Rules -> States] /\ hist \in Hists /\ run \in 1 .. MaxRuns
  BY DEF Shape
<1>3. /\ hist' \in Hists /\ hist'.fires = [r \in Latches |-> 0] /\ hist'.spent = spent
      /\ hist'.lost = hist.lost /\ hist'.met = {}
  <2>1. [r \in Latches |-> 0] \in [Latches -> 0 .. FiredCap] /\ spent \in SUBSET Latches
    BY ConstantFacts
  <2> HIDE DEF spent
  <2> QED
    BY <1>1, <1>2, <2>1 DEF Hists
<1>4. Shape'
  <2>1. run' \in 1 .. MaxRuns /\ now' \in 0 .. MaxSteps
    BY <1>1, <1>2, ConstantFacts
  <2> QED
    BY <1>1, <1>3, <2>1 DEF Shape
<1>5. FreshUntilFired'
  <2> SUFFICES ASSUME NEW r \in Latches, r \notin hist'.spent
               PROVE  r \notin hist'.met /\ ~state'[r].level /\ state'[r].fired = 0
    BY DEF FreshUntilFired
  <2>1. state[r] \in States
    BY <1>2, ConstantFacts
  <2>2. ~state[r].level /\ ~(state[r].fired > 0) /\ state[r].fired \in 0 .. FiredCap
    BY <1>3, <2>1 DEF States
  <2> QED
    BY <1>1, <1>3, <2>2, ConstantFacts
<1>6. FiredHeldDown'
  BY <1>3 DEF FiredHeldDown
<1>7. WalkedOut => WalkedOut'
  BY <1>1, <1>3 DEF WalkedOut
<1> QED
  BY <1>4, <1>5, <1>6, <1>7 DEF Keeps

\* A command may leave a rule as it was, drop its level where the count of
\* fires is cleared, or make it new.
LEMMA CommandKeeps ==
    ASSUME Shape, FreshUntilFired, NEW new, NEW cleared, NEW renewed,
           Command(new, cleared, renewed), new \in [Rules -> States],
           \A r \in Latches : r \in cleared \/ new[r].level = state[r].level,
           \A r \in Latches : r \notin renewed =>
               (new[r].level => state[r].level) /\ new[r].fired = state[r].fired,
           \A r \in Latches : r \in renewed => ~new[r].level /\ new[r].fired = 0
    PROVE  Keeps
<1> DEFINE fires == [r \in Latches |-> IF r \in cleared THEN 0 ELSE hist.fires[r]]
<1>1. /\ pc = "idle" /\ state' = new /\ UNCHANGED <<run, now, pc, buf, work, replies>>
      /\ hist' = [hist EXCEPT !.fires = [r \in Latches |-> IF r \in cleared THEN 0 ELSE @[r]],
                              !.met = @ \ renewed, !.done = @ \ renewed, !.spent = @ \ renewed]
  BY DEF Command
<1>2. hist \in Hists
  BY DEF Shape
<1>3. /\ hist' \in Hists /\ hist'.fires = fires /\ hist'.met = hist.met \ renewed
      /\ hist'.done = hist.done \ renewed /\ hist'.spent = hist.spent \ renewed
      /\ hist'.lost = hist.lost
  <2>1. fires \in [Latches -> 0 .. FiredCap]
    BY <1>2, ConstantFacts DEF Hists
  <2>2. hist' = [fires |-> fires, met |-> hist.met \ renewed, done |-> hist.done \ renewed,
                 spent |-> hist.spent \ renewed, lost |-> hist.lost]
    BY <1>1, <1>2 DEF Hists
  <2> HIDE DEF fires
  <2> QED
    BY <1>2, <2>1, <2>2 DEF Hists
<1>4. Shape'
  BY <1>1, <1>3 DEF Shape
<1>5. FreshUntilFired'
  <2> SUFFICES ASSUME NEW r \in Latches, r \notin hist'.spent, r \notin hist'.done
               PROVE  r \notin hist'.met /\ ~state'[r].level /\ state'[r].fired = 0
    BY DEF FreshUntilFired
  <2>1. CASE r \in renewed
    BY <1>1, <1>3, <2>1
  <2>2. CASE r \notin renewed
    <3>1. r \notin hist.met /\ ~state[r].level /\ state[r].fired = 0
      BY <1>3, <2>2 DEF FreshUntilFired
    <3> QED
      BY <1>1, <1>3, <2>2, <3>1
  <2> QED
    BY <2>1, <2>2
<1>6. FiredHeldDown => FiredHeldDown'
  BY <1>1, <1>3 DEF FiredHeldDown
<1>7. WalkedOut => WalkedOut'
  BY <1>1, <1>3 DEF WalkedOut
<1> QED
  BY <1>4, <1>5, <1>6, <1>7 DEF Keeps

LEMMA RuleCommandsKeep ==
    ASSUME Shape, FreshUntilFired,
           \/ RearmTriggers
           \/ \E r \in Rules : \/ EditTrigger(r) \/ RearmTrigger(r)
                               \/ \E on \in BOOLEAN : SetTriggerEnabled(r, on)
    PROVE  Keeps
<1>1. state \in [Rules -> States] /\ \A q \in Rules : state[q] \in States
  BY DEF Shape
<1>2. CASE RearmTriggers
  <2> DEFINE new == [r \in Rules |-> IF r \in Latches THEN [state[r] EXCEPT !.level = FALSE]
                                                      ELSE state[r]]
  <2>1. Command(new, Latches, {})
    BY <1>2 DEF RearmTriggers
  <2>2. ASSUME NEW q \in Rules
        PROVE  /\ new[q] \in States /\ new[q].fired = state[q].fired
               /\ q \in Latches => ~new[q].level
    BY <1>1 DEF States
  <2>3. new \in [Rules -> States]
    BY <2>2
  <2> HIDE DEF new
  <2> QED
    BY <2>1, <2>2, <2>3, ConstantFacts, CommandKeeps
<1>3. ASSUME NEW r \in Rules, EditTrigger(r) PROVE Keeps
  <2> DEFINE new == [state EXCEPT ![r].level = FALSE]
  <2>1. Command(new, {r}, {})
    BY <1>3 DEF EditTrigger
  <2>2. ASSUME NEW q \in Rules
        PROVE  /\ new[q] \in States /\ new[q].fired = state[q].fired
               /\ q # r => new[q] = state[q]
               /\ q = r => ~new[q].level
    BY <1>1 DEF States
  <2>3. new \in [Rules -> States]
    BY <1>1, <2>2
  <2> HIDE DEF new
  <2> QED
    BY <2>1, <2>2, <2>3, ConstantFacts, CommandKeeps
<1>4. ASSUME NEW r \in Rules, RearmTrigger(r) PROVE Keeps
  <2> DEFINE new == [state EXCEPT ![r] = [@ EXCEPT !.level = FALSE, !.fired = 0]]
  <2>1. Command(new, {r}, {r})
    BY <1>4 DEF RearmTrigger
  <2>2. ASSUME NEW q \in Rules
        PROVE  /\ new[q] \in States
               /\ q # r => new[q] = state[q]
               /\ q = r => ~new[q].level /\ new[q].fired = 0
    <3>1. CASE q # r
      BY <1>1, <3>1
    <3>2. CASE q = r
      <4>1. new[q] = [state[q] EXCEPT !.level = FALSE, !.fired = 0]
        BY <1>1, <3>2
      <4>2. 0 \in 0 .. FiredCap /\ FALSE \in BOOLEAN /\ state[q] \in States
        BY <1>1, ConstantFacts
      <4> HIDE DEF new
      <4>3. new[q] \in States /\ ~new[q].level /\ new[q].fired = 0
        BY <4>1, <4>2 DEF States
      <4> QED
        BY <3>2, <4>3
    <3> QED
      BY <3>1, <3>2
  <2>3. new \in [Rules -> States]
    BY <1>1, <2>2
  <2> HIDE DEF new
  <2>4. /\ \A q \in Latches : q \in {r} \/ new[q].level = state[q].level
        /\ \A q \in Latches : q \notin {r} =>
              (new[q].level => state[q].level) /\ new[q].fired = state[q].fired
        /\ \A q \in Latches : q \in {r} => ~new[q].level /\ new[q].fired = 0
    BY <2>2, ConstantFacts
  <2> QED
    BY <2>4, <2>1, <2>2, <2>3, ConstantFacts, CommandKeeps
<1>5. ASSUME NEW r \in Rules, NEW on \in BOOLEAN, SetTriggerEnabled(r, on) PROVE Keeps
  <2> DEFINE new == [state EXCEPT ![r].enabled = on]
  <2>1. Command(new, {}, {})
    BY <1>5 DEF SetTriggerEnabled
  <2>2. ASSUME NEW q \in Rules
        PROVE  /\ new[q] \in States /\ new[q].fired = state[q].fired
               /\ new[q].level = state[q].level
    BY <1>1 DEF States
  <2>3. new \in [Rules -> States]
    BY <1>1, <2>2
  <2> HIDE DEF new
  <2>4. /\ \A q \in Latches : q \in {} \/ new[q].level = state[q].level
        /\ \A q \in Latches : q \notin {} =>
              (new[q].level => state[q].level) /\ new[q].fired = state[q].fired
        /\ \A q \in Latches : q \in {} => ~new[q].level /\ new[q].fired = 0
    BY <2>2, ConstantFacts
  <2> QED
    BY <2>1, <2>3, <2>4, CommandKeeps
<1> QED
  BY <1>2, <1>3, <1>4, <1>5

LEMMA NextKeeps ==
    ASSUME Shape, FreshUntilFired, [Next]_vars
    PROVE  Keeps
<1>1. ASSUME NEW cans \in CanBursts, NEW eths \in EthBursts, BeginStep(cans, eths)
      PROVE  Keeps
  BY <1>1, BeginStepKeeps
<1>2. CASE Inside
  BY <1>2, IngestEthKeeps, WalkFrameKeeps, RunActionKeeps, DispatchFrameKeeps, EndStepKeeps,
     SweepKeeps DEF Inside
<1>3. CASE Restart
  BY <1>3, RestartKeeps
<1>4. CASE \/ RearmTriggers
           \/ \E r \in Rules : \/ EditTrigger(r) \/ RearmTrigger(r)
                               \/ \E on \in BOOLEAN : SetTriggerEnabled(r, on)
  BY <1>4, RuleCommandsKeep
<1>5. CASE UNCHANGED vars
  BY <1>5 DEF vars, Keeps, Shape, FreshUntilFired, FiredHeldDown, WalkedOut
<1> QED
  BY <1>1, <1>2, <1>3, <1>4, <1>5 DEF Next

LEMMA InitHolds == Init => Shape /\ FreshUntilFired /\ FiredHeldDown /\ WalkedOut
<1> SUFFICES ASSUME Init PROVE Shape /\ FreshUntilFired /\ FiredHeldDown /\ WalkedOut
  OBVIOUS
<1> DEFINE new == [enabled |-> TRUE, level |-> FALSE, fired |-> 0, last |-> 0]
<1>1. /\ run = 1 /\ now = 0 /\ pc = "idle" /\ buf = << >> /\ work = << >>
      /\ state = [r \in Rules |-> new] /\ hist = Fresh
  BY DEF Init
<1>2. new \in States /\ ~new.level /\ new.fired = 0
  BY ConstantFacts DEF States
<1> HIDE DEF new
<1>3. /\ hist \in Hists /\ hist.fires = [r \in Latches |-> 0] /\ hist.met = {} /\ ~hist.lost
  <2>1. [r \in Latches |-> 0] \in [Latches -> 0 .. FiredCap]
    BY ConstantFacts
  <2> QED
    BY <1>1, <2>1 DEF Fresh, Hists
<1>4. Shape
  <2>1. run \in 1 .. MaxRuns /\ now \in 0 .. MaxSteps
    BY <1>1, RuleWalkAssumption
  <2> QED
    BY <1>1, <1>2, <1>3, <2>1, EmptySeq DEF Shape
<1>5. FreshUntilFired
  BY <1>1, <1>2, <1>3, ConstantFacts DEF FreshUntilFired
<1>6. FiredHeldDown
  BY <1>3 DEF FiredHeldDown
<1>7. WalkedOut
  BY <1>1, <1>3 DEF WalkedOut
<1> QED
  BY <1>4, <1>5, <1>6, <1>7

-----------------------------------------------------------------------------
(* The theorems.                                                           *)

\* Whatever other rules, scripts and commands do, an appearance rule that
\* brought nothing along from an earlier run fires in the run it is met in.
THEOREM MetRulesFire == Spec => []FiresWhenMet
<1> DEFINE Inv == Shape /\ FreshUntilFired
<1>1. Init => Inv
  BY InitHolds
<1>2. Inv /\ [Next]_vars => Inv'
  BY NextKeeps DEF Keeps
<1>3. Inv => FiresWhenMet
  BY DEF FreshUntilFired, FiresWhenMet
<1> HIDE DEF Inv
<1> QED
  BY <1>1, <1>2, <1>3, PTL DEF Spec

\* Where flow rules wait for every Ethernet frame there is, and nothing judged
\* at the end of a step sends, the walk owes no rule and no frame anything.
THEOREM WalkIsHonest == FlowsHear /\ QuietSweeps /\ Spec => []WalkHonest
<1>1. CASE FlowsHear /\ QuietSweeps
  <2> DEFINE Inv == Shape /\ FreshUntilFired /\ FiredHeldDown /\ WalkedOut
  <2>1. Init => Inv
    BY InitHolds
  <2>2. Inv /\ [Next]_vars => Inv'
    BY <1>1, NextKeeps DEF Keeps
  <2>3. Inv => WalkHonest
    <3>1. FiredHeldDown => LatchesOnce
      BY DEF FiredHeldDown, LatchesOnce
    <3>2. FreshUntilFired => FiresWhenMet
      BY DEF FreshUntilFired, FiresWhenMet
    <3>3. WalkedOut => SentIsWalked
      BY DEF WalkedOut, SentIsWalked
    <3> QED
      BY <3>1, <3>2, <3>3 DEF WalkHonest
  <2> HIDE DEF Inv
  <2> QED
    BY <2>1, <2>2, <2>3, PTL DEF Spec
<1> QED
  BY <1>1
-----------------------------------------------------------------------------
(* The scripts stay within their limit.                                    *)

\* All that the scripts send goes through can_send, the one path that counts.
OnlyCanSend == \A f \in DOMAIN Replies : Replies[f].via = "can_send"

FromNodes(b) == {i \in 1 .. Len(b) : b[i].from = "node"}

Reacted ==
    /\ replies \in 0 .. ReactionLimit
    /\ Cardinality(FromNodes(buf)) <= replies

LEMMA FromNodesFinite ==
    ASSUME NEW b \in Seq(BufFrames)
    PROVE  /\ IsFiniteSet(FromNodes(b)) /\ Cardinality(FromNodes(b)) \in Nat
           /\ FromNodes(b) \subseteq 1 .. Len(b) /\ Len(b) \in Nat
<1>1. Len(b) \in Nat /\ FromNodes(b) \subseteq 1 .. Len(b)
  BY LenProperties DEF FromNodes
<1>2. IsFiniteSet(1 .. Len(b))
  BY <1>1, FS_Interval
<1>3. IsFiniteSet(FromNodes(b))
  BY <1>1, <1>2, FS_Subset
<1> QED
  BY <1>1, <1>3, FS_CardinalityType

\* A frame put into buf adds one at most, and only if a script sent it.
LEMMA AppendedFrom ==
    ASSUME NEW b \in Seq(BufFrames), NEW x \in BufFrames
    PROVE  /\ x.from # "node" => FromNodes(Append(b, x)) = FromNodes(b)
           /\ Cardinality(FromNodes(Append(b, x))) <= Cardinality(FromNodes(b)) + 1
<1> DEFINE c == Append(b, x)
           S == FromNodes(b)
<1>1. /\ IsFiniteSet(S) /\ Cardinality(S) \in Nat /\ S \subseteq 1 .. Len(b) /\ Len(b) \in Nat
  BY FromNodesFinite
<1>2. /\ Len(c) = Len(b) + 1 /\ c[Len(b) + 1] = x
      /\ \A i \in 1 .. Len(b) : c[i] = b[i]
  BY AppendProperties
<1>3. FromNodes(c) \subseteq S \cup {Len(b) + 1}
  BY <1>1, <1>2 DEF FromNodes
<1>4. ASSUME x.from # "node" PROVE FromNodes(c) = S
  BY <1>1, <1>2, <1>4 DEF FromNodes
<1>5. IsFiniteSet(S \cup {Len(b) + 1}) /\ Cardinality(S \cup {Len(b) + 1}) <= Cardinality(S) + 1
  BY <1>1, FS_AddElement
<1>6. Cardinality(FromNodes(c)) <= Cardinality(S \cup {Len(b) + 1})
  BY <1>3, <1>5, FS_Subset
<1>7. Cardinality(FromNodes(c)) \in Nat /\ Cardinality(S \cup {Len(b) + 1}) \in Nat
  <2>1. IsFiniteSet(FromNodes(c))
    BY <1>3, <1>5, FS_Subset
  <2> QED
    BY <1>5, <2>1, FS_CardinalityType
<1> HIDE DEF c, S
<1>8. Cardinality(FromNodes(c)) <= Cardinality(S) + 1
  BY <1>1, <1>5, <1>6, <1>7
<1> QED
  BY <1>4, <1>8 DEF c, S

LEMMA WalkedFrom ==
    ASSUME NEW b \in Seq(BufFrames), b # << >>
    PROVE  Cardinality(FromNodes(Tail(b))) <= Cardinality(FromNodes(b))
<1> DEFINE S == FromNodes(Tail(b))
           T == FromNodes(b)
           f == [i \in S |-> i + 1]
<1>1. /\ Tail(b) \in Seq(BufFrames) /\ Len(b) \in Nat /\ Len(Tail(b)) = Len(b) - 1
      /\ \A i \in 1 .. Len(Tail(b)) : Tail(b)[i] = b[i + 1]
  BY HeadTail
<1>2. IsFiniteSet(T) /\ S \subseteq 1 .. Len(Tail(b))
  BY <1>1, FromNodesFinite
<1>3. \A i \in S : i \in Nat /\ i + 1 \in T
  BY <1>1 DEF FromNodes
<1> HIDE DEF S, T
<1>4. f \in [S -> T]
  BY <1>3
<1>5. \A i, j \in S : f[i] = f[j] => i = j
  BY <1>3
<1>6. f \in Injection(S, T)
  <2> HIDE DEF f
  <2> QED
    BY <1>4, <1>5 DEF Injection, IsInjective
<1> HIDE DEF f
<1>7. Cardinality(S) <= Cardinality(T)
  BY <1>2, <1>6, FS_Injection
<1> QED
  BY <1>7 DEF S, T

LEMMA ReactedNext ==
    ASSUME OnlyCanSend, Shape, Shape', Reacted, [Next]_vars
    PROVE  Reacted'
<1>1. /\ buf \in Seq(BufFrames) /\ Cardinality(FromNodes(buf)) \in Nat
      /\ replies \in Nat /\ ReactionLimit \in Nat
      /\ buf' \in Seq(BufFrames) /\ Cardinality(FromNodes(buf')) \in Nat
  BY FromNodesFinite, ConstantFacts DEF Shape, Reacted
<1>2. ASSUME buf' = buf, replies' = replies PROVE Reacted'
  BY <1>2 DEF Reacted, FromNodes
<1>3. ASSUME NEW cans, NEW eths, BeginStep(cans, eths) PROVE Reacted'
  <2>1. /\ buf' = [i \in 1 .. Len(cans) |-> Frame(cans[i], "bus")] /\ replies' = 0
    BY <1>3 DEF BeginStep
  <2>2. FromNodes(buf') = {}
    <3> SUFFICES ASSUME NEW i \in 1 .. Len(buf'), buf'[i].from = "node" PROVE FALSE
      BY DEF FromNodes
    <3>1. DOMAIN buf' = 1 .. Len(buf')
      BY <1>1, LenProperties
    <3>2. buf'[i] = Frame(cans[i], "bus")
      BY <2>1, <3>1
    <3> QED
      BY <3>2 DEF Frame
  <2>3. Cardinality(FromNodes(buf')) = 0
    BY <2>2, FS_EmptySet
  <2>4. Cardinality(FromNodes(buf')) <= replies' /\ replies' \in 0 .. ReactionLimit
    BY <1>1, <2>1, <2>3
  <2> QED
    BY <2>4 DEF Reacted, FromNodes
<1>4. CASE WalkFrame
  <2>1. buf # << >> /\ buf' = Tail(buf) /\ replies' = replies
    BY <1>4 DEF WalkFrame, MoreToWalk
  <2>2. Cardinality(FromNodes(buf')) <= Cardinality(FromNodes(buf))
    BY <1>1, <2>1, WalkedFrom
  <2>3. Cardinality(FromNodes(buf')) <= replies' /\ replies' \in 0 .. ReactionLimit
    BY <1>1, <2>1, <2>2 DEF Reacted
  <2> QED
    BY <2>3 DEF Reacted, FromNodes
<1>5. CASE RunAction
  <2>1. replies' = replies
    BY <1>5 DEF RunAction
  <2>2. PICK r \in Head(work).rules :
           buf' = buf \/ buf' = Append(buf, Frame(RuleList[r].frame, "rule"))
    BY <1>5 DEF RunAction
  <2>3. CASE buf' = Append(buf, Frame(RuleList[r].frame, "rule"))
    <3> DEFINE x == Frame(RuleList[r].frame, "rule")
    <3>1. x \in BufFrames
      <4>1. Head(work) \in Items /\ Head(work).do = "act"
        BY <1>5, HeadTail DEF RunAction, Shape
      <4>2. r \in Rules
        BY <2>2, <4>1 DEF Items
      <4> QED
        BY <4>2 DEF Frame, BufFrames, CanFrames
    <3>2. x.from # "node"
      BY DEF Frame
    <3> HIDE DEF x
    <3>3. FromNodes(buf') = FromNodes(buf)
      <4>1. buf' = Append(buf, x)
        BY <2>3 DEF x
      <4> QED
        BY <1>1, <3>1, <3>2, <4>1, AppendedFrom
    <3>4. Cardinality(FromNodes(buf')) <= replies' /\ replies' \in 0 .. ReactionLimit
      BY <2>1, <3>3 DEF Reacted
    <3> QED
      BY <3>4 DEF Reacted, FromNodes
  <2> QED
    BY <1>2, <2>1, <2>2, <2>3
<1>6. CASE DispatchFrame
  <2> DEFINE f == Head(work).frame
             x == Frame(Replies[f].frame, "node")
  <2>1. CASE f \notin DOMAIN Replies \/ Dropped(Replies[f])
    BY <1>2, <1>6, <2>1 DEF DispatchFrame
  <2>2. CASE f \in DOMAIN Replies /\ ~Dropped(Replies[f])
    <3>1. Replies[f].via = "can_send"
      BY <2>2 DEF OnlyCanSend
    <3>2. ~(replies >= ReactionLimit)
      BY <2>2, <3>1 DEF Dropped
    <3>3. /\ buf' = Append(buf, x)
          /\ replies' = IF Replies[f].via = "can_send" /\ replies <= ReactionLimit
                        THEN replies + 1 ELSE replies
      BY <1>6, <2>2 DEF DispatchFrame
    <3>4. replies' = replies + 1
      BY <1>1, <3>1, <3>2, <3>3
    <3>5. x \in BufFrames
      BY <2>2 DEF Frame, BufFrames, CanFrames
    <3> HIDE DEF x
    <3>6. Cardinality(FromNodes(buf')) <= Cardinality(FromNodes(buf)) + 1
      BY <1>1, <3>3, <3>5, AppendedFrom
    <3>7. Cardinality(FromNodes(buf')) <= replies' /\ replies' \in 0 .. ReactionLimit
      BY <1>1, <3>2, <3>4, <3>6 DEF Reacted
    <3> QED
      BY <3>7 DEF Reacted, FromNodes
  <2> QED
    BY <2>1, <2>2
<1>7. CASE IngestEth \/ EndStep \/ \E swept \in Swept : Sweep(swept)
  BY <1>2, <1>7 DEF IngestEth, EndStep, Sweep
<1>8. CASE \/ Restart \/ RearmTriggers
           \/ \E r \in Rules : \/ EditTrigger(r) \/ RearmTrigger(r)
                               \/ \E on \in BOOLEAN : SetTriggerEnabled(r, on)
  BY <1>2, <1>8 DEF Restart, RearmTriggers, EditTrigger, RearmTrigger, SetTriggerEnabled, Command
<1>9. CASE UNCHANGED vars
  BY <1>2, <1>9 DEF vars
<1> QED
  BY <1>3, <1>4, <1>5, <1>6, <1>7, <1>8, <1>9 DEF Next, Inside

\* The state is well formed, nothing is under way between two steps, and no
\* more than ReactionLimit answers of the scripts wait in a step: a runaway
\* script is cut off, where can_send is all it uses.
THEOREM ReactionsBounded == OnlyCanSend /\ Spec => []TypeOK
<1>1. CASE OnlyCanSend
  <2> DEFINE Inv == Shape /\ FreshUntilFired /\ Reacted
  <2>1. Init => Inv
    <3> SUFFICES ASSUME Init PROVE Reacted
      BY InitHolds
    <3>1. buf = << >> /\ replies = 0
      BY DEF Init
    <3>2. FromNodes(buf) = {}
      BY <3>1 DEF FromNodes
    <3> QED
      BY <3>1, <3>2, FS_EmptySet, ConstantFacts DEF Reacted
  <2>2. Inv /\ [Next]_vars => Inv'
    BY <1>1, NextKeeps, ReactedNext DEF Keeps
  <2>3. Inv => TypeOK
    <3> SUFFICES ASSUME Shape, Reacted PROVE TypeOK
      OBVIOUS
    <3>1. Cardinality(FromNodes(buf)) <= ReactionLimit
      BY FromNodesFinite, ConstantFacts DEF Shape, Reacted
    <3> QED
      BY <3>1 DEF Shape, Reacted, States, FromNodes, TypeOK
  <2> HIDE DEF Inv
  <2> QED
    BY <2>1, <2>2, <2>3, PTL DEF Spec
<1> QED
  BY <1>1
=============================================================================
