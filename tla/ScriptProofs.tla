---------------------------- MODULE ScriptProofs ----------------------------
(***************************************************************************)
(* What a node runs (ScriptNodes) and what the debugger shows              *)
(* (ScriptDebug), for any sources, programs, nodes and lines.              *)
(***************************************************************************)
EXTENDS ScriptNodes, ScriptDebug, Integers, SequenceTheorems, NaturalsInduction,
        WellFoundedInduction, TLAPS

-----------------------------------------------------------------------------
(* A node and its editor                                                    *)

IsNode(n) ==
    n = [source |-> n.source, enabled |-> n.enabled, errored |-> n.errored,
         runtime |-> n.runtime]

IsRuntime(rt) == rt = [source |-> rt.source, timers |-> rt.timers, ops |-> rt.ops]

\* A node keeps a runtime only while it is switched on, and unless it failed
\* since, the runtime was made of what the editor holds, which compiles.  After
\* a failed restart the old runtime stays, of whatever source, and is silent.
Bound(n) ==
    n.runtime # NoRuntime =>
        /\ n.enabled /\ IsRuntime(n.runtime)
        /\ ~n.errored => n.runtime.source = n.source /\ n.source \in Compiles

\* No runtime outlives the measurement.
NodeInv ==
    /\ IsNode(node) /\ Bound(node)
    /\ ~measuring => node.runtime = NoRuntime

\* A start leaves a running node with the editor's source, or a failed one.
LEMMA StartedIs ==
    ASSUME NEW n, IsNode(n), n.enabled, NEW prog,
           n.runtime # NoRuntime => IsRuntime(n.runtime)
    PROVE  LET q == Started(n, prog) IN IsNode(q) /\ Bound(q)
<1> DEFINE q == Started(n, prog)
           rt == [source |-> n.source, timers |-> FreshTimers, ops |-> prog]
<1>1. CASE n.source \notin Compiles \/ prog = Fails
  <2>1. q = [n EXCEPT !.errored = TRUE]
    BY <1>1 DEF Started
  <2> HIDE DEF q
  <2>2. /\ q.source = n.source /\ q.enabled = n.enabled /\ q.errored = TRUE
        /\ q.runtime = n.runtime /\ IsNode(q)
    BY <2>1 DEF IsNode
  <2>3. Bound(q)
    BY <2>2 DEF Bound
  <2> QED
    BY <2>2, <2>3 DEF q
<1>2. CASE ~(n.source \notin Compiles \/ prog = Fails)
  <2>1. q = [n EXCEPT !.errored = FALSE, !.runtime = rt]
    BY <1>2 DEF Started
  <2>2. rt.source = n.source /\ IsRuntime(rt)
    BY DEF IsRuntime
  <2> HIDE DEF q, rt
  <2>3. /\ q.source = n.source /\ q.enabled = n.enabled /\ q.runtime = rt /\ IsNode(q)
    BY <2>1 DEF IsNode
  <2>4. Bound(q)
    BY <1>2, <2>2, <2>3 DEF Bound
  <2> QED
    BY <2>3, <2>4 DEF q
<1> QED
  BY <1>1, <1>2

\* What the handlers leave behind is put into the runtime that ran them.
LEMMA SettledKeeps ==
    ASSUME NodeInv, measuring, Running, NEW st, Settled(st), measuring' = measuring
    PROVE  NodeInv'
<1> DEFINE rt == [node.runtime EXCEPT !.timers = st.timers, !.ops = <<>>]
<1>1. node' = [node EXCEPT !.errored = st.errored, !.runtime = rt]
  BY DEF Settled
<1>2. /\ IsNode(node) /\ node.runtime # NoRuntime /\ node.enabled /\ IsRuntime(node.runtime)
      /\ node.runtime.source = node.source /\ node.source \in Compiles
  BY DEF NodeInv, Bound, Running
<1>3. rt.source = node.source /\ IsRuntime(rt)
  <2> DEFINE old == node.runtime
  <2>1. old = [source |-> old.source, timers |-> old.timers, ops |-> old.ops]
    BY <1>2 DEF IsRuntime
  <2>2. rt = [old EXCEPT !.timers = st.timers, !.ops = <<>>] /\ old.source = node.source
    BY <1>2
  <2> HIDE DEF old, rt
  <2>3. rt = [source |-> old.source, timers |-> st.timers, ops |-> <<>>]
    BY <2>1, <2>2
  <2> QED
    BY <2>2, <2>3 DEF IsRuntime
<1> HIDE DEF rt
<1>4. /\ node'.source = node.source /\ node'.enabled = node.enabled
      /\ node'.runtime = rt /\ IsNode(node')
  BY <1>1, <1>2 DEF IsNode
<1>5. Bound(node')
  BY <1>2, <1>3, <1>4 DEF Bound
<1> QED
  BY <1>4, <1>5 DEF NodeInv

LEMMA NodeInvInit == NodeInit => NodeInv
<1> SUFFICES ASSUME NodeInit PROVE NodeInv
  OBVIOUS
<1>1. node \in [source : Sources, enabled : BOOLEAN, errored : {FALSE}, runtime : {NoRuntime}]
  BY DEF NodeInit
<1>2. IsNode(node) /\ node.runtime = NoRuntime
  BY <1>1 DEF IsNode
<1> QED
  BY <1>2 DEF NodeInv, Bound

LEMMA NodeInvNext == NodeInv /\ [NodeNext]_nodeVars => NodeInv'
<1> SUFFICES ASSUME NodeInv, [NodeNext]_nodeVars PROVE NodeInv'
  OBVIOUS
<1> USE DEF NodeInv
<1>1. ASSUME NEW src \in Sources, NEW prog \in Programs, SetNodeSource(src, prog)
      PROVE  NodeInv'
  <2> DEFINE n == [node EXCEPT !.source = src]
  <2>1. node' = Edited(src, prog) /\ measuring' = measuring
    BY <1>1 DEF SetNodeSource
  <2>2. /\ n.source = src /\ n.enabled = node.enabled /\ n.errored = node.errored
        /\ n.runtime = node.runtime /\ IsNode(n)
    BY DEF IsNode
  <2> HIDE DEF n
  <2>3. CASE measuring /\ node.enabled
    <3>1. node' = Started(n, prog)
      BY <2>1, <2>3 DEF Edited, n
    <3>2. IsNode(node') /\ Bound(node')
      BY <2>2, <2>3, <3>1, StartedIs DEF Bound
    <3> QED
      BY <2>1, <2>3, <3>2
  <2>4. CASE ~(measuring /\ node.enabled)
    <3>1. node.runtime = NoRuntime
      BY <2>4 DEF Bound
    <3>2. node' = n
      BY <2>1, <2>4, <3>1 DEF Edited, n
    <3> QED
      BY <2>1, <2>2, <3>1, <3>2 DEF Bound
  <2> QED
    BY <2>3, <2>4
<1>2. ASSUME NEW on \in BOOLEAN, NEW prog \in Programs, SetNodeEnabled(on, prog)
      PROVE  NodeInv'
  <2> DEFINE n == [node EXCEPT !.enabled = on]
             off == [n EXCEPT !.runtime = NoRuntime, !.errored = FALSE]
  <2>1. /\ node' = IF ~measuring THEN n ELSE IF on THEN Started(n, prog) ELSE off
        /\ measuring' = measuring
    BY <1>2 DEF SetNodeEnabled
  <2>2. /\ n.source = node.source /\ n.enabled = on /\ n.errored = node.errored
        /\ n.runtime = node.runtime /\ IsNode(n)
    BY DEF IsNode
  <2> HIDE DEF n
  <2>3. off = [n EXCEPT !.runtime = NoRuntime, !.errored = FALSE]
    OBVIOUS
  <2> HIDE DEF off
  <2>7. off.runtime = NoRuntime /\ IsNode(off)
    BY <2>2, <2>3 DEF IsNode
  <2>4. CASE ~measuring
    BY <2>1, <2>2, <2>4 DEF Bound
  <2>5. CASE measuring /\ on
    <3>1. node' = Started(n, prog)
      BY <2>1, <2>5
    <3>2. IsNode(node') /\ Bound(node')
      BY <2>2, <2>5, <3>1, StartedIs DEF Bound
    <3> QED
      BY <2>1, <2>5, <3>2
  <2>6. CASE measuring /\ ~on
    BY <2>1, <2>6, <2>7 DEF Bound
  <2> QED
    BY <2>4, <2>5, <2>6
<1>3. ASSUME NEW prog \in Programs, NEW replay \in BOOLEAN, StartRun(prog, replay)
      PROVE  NodeInv'
  <2>1. node' = (IF node.enabled THEN Started(node, prog) ELSE node) /\ measuring' = TRUE
    BY <1>3 DEF StartRun
  <2>2. CASE node.enabled
    <3>1. node' = Started(node, prog)
      BY <2>1, <2>2
    <3>2. IsNode(node') /\ Bound(node')
      BY <2>2, <3>1, StartedIs DEF Bound
    <3> QED
      BY <2>1, <3>2
  <2>3. CASE ~node.enabled
    BY <2>1, <2>3 DEF Bound
  <2> QED
    BY <2>2, <2>3
<1>4. CASE StopRun
  <2> DEFINE failed == IF node.runtime = NoRuntime THEN node.errored ELSE FALSE
  <2>1. node' = [node EXCEPT !.runtime = NoRuntime, !.errored = failed]
    BY <1>4 DEF StopRun
  <2> HIDE DEF failed
  <2>2. node'.runtime = NoRuntime /\ IsNode(node')
    BY <2>1 DEF IsNode
  <2> QED
    BY <2>2 DEF Bound
<1>5. CASE PanelAction
  BY <1>5 DEF PanelAction, Bound
<1>6. ASSUME NEW prog \in Programs, MessageArrives(prog)
      PROVE  NodeInv'
  <2>1. measuring /\ Running /\ measuring' = measuring /\ \E st : Settled(st)
    BY <1>6 DEF MessageArrives
  <2> QED
    BY <2>1, SettledKeeps
<1>7. ASSUME NEW t, NEW choice, NEW prog, Step(t, choice, prog)
      PROVE  NodeInv'
  <2>1. CASE ~Running
    BY <1>7, <2>1 DEF Step, Bound
  <2>2. CASE Running
    <3>1. measuring /\ measuring' = measuring /\ \E st : Settled(st)
      BY <1>7, <2>2 DEF Step
    <3> QED
      BY <2>2, <3>1, SettledKeeps
  <2> QED
    BY <2>1, <2>2
<1>8. CASE UNCHANGED nodeVars
  BY <1>8 DEF nodeVars, Bound
<1> QED
  BY <1>1, <1>2, <1>3, <1>4, <1>5, <1>6, <1>7, <1>8 DEF NodeNext

\* A node that runs, runs what its editor shows, through any order of edits,
\* toggles, starts, failures and stops (node.rs set_source, set_enabled,
\* start_with, stop_with).
THEOREM NodeRunsItsSource == NodeSpec => []RunsItsSource
<1>1. NodeInv => RunsItsSource
  BY DEF NodeInv, Bound, RunsItsSource, Running
<1> QED
  BY <1>1, NodeInvInit, NodeInvNext, PTL DEF NodeSpec

\* And what it runs has compiled, in a run that is on: a source that does not
\* compile silences the node, whatever it ran before (node.rs try_compile,
\* set_source).
RunsCompiled == Running => measuring /\ node.source \in Compiles

THEOREM NodeRunsCompiled == NodeSpec => []RunsCompiled
<1>1. NodeInv => RunsCompiled
  BY DEF NodeInv, Bound, RunsCompiled, Running
<1> QED
  BY <1>1, NodeInvInit, NodeInvNext, PTL DEF NodeSpec

LEMMA LeastNat ==
    ASSUME NEW S \in SUBSET Nat, S # {}
    PROVE  \E m \in S : \A n \in S : m <= n
<1> DEFINE R == {ss \in Nat \X Nat : ss[1] < ss[2]}
<1>1. IsWellFoundedOn(R, Nat)
  BY NatLessThanWellFounded DEF OpToRel
<1>2. \A x, y \in Nat : x < y => <<x, y>> \in R
  OBVIOUS
<1> HIDE DEF R
<1>3. PICK m \in S : \A n \in S : ~(<<n, m>> \in R)
  BY <1>1, WFMin
<1>4. ASSUME NEW n \in S PROVE m <= n
  <2>1. ~(n < m)
    BY <1>2, <1>3
  <2> QED
    BY <2>1
<1> QED
  BY <1>4

-----------------------------------------------------------------------------
(* The timers of a node                                                     *)

Timer == [period : Nat, due : Nat, stopped : BOOLEAN]
Timers == [Slots -> Timer]
Hist == [arms : [Oneshots -> 0 .. 2], cancelled : SUBSET Oneshots,
         extra : SUBSET Oneshots, ghosts : SUBSET Oneshots, phase : Nat]
States == [timers : Timers, errored : BOOLEAN, hist : Hist]

OnGrid(slot, phase) ==
    slot.due # 0 /\ slot.period # 0 => \E q \in Nat : slot.due = phase + q * slot.period

\* What holds of timers and their history when the one-shots of "pending" have
\* been taken out of their slots and their handlers have yet to run: an armed
\* one-shot has an arm to spend, a pending one another one beside it.
Coherent(timers, hist, pending) ==
    /\ hist.extra = {}
    /\ \A s \in Oneshots : ~timers[s].stopped => timers[s].due # 0 /\ hist.arms[s] >= 1
    /\ \A s \in pending :
         hist.arms[s] >= 1 /\ (~timers[s].stopped => hist.arms[s] >= 2)
    /\ OnGrid(timers[Periodic], hist.phase)

Honest(st, pending) == st \in States /\ Coherent(st.timers, st.hist, pending)

LEMMA SlotsApart == Periodic \notin Oneshots /\ NoSlot \notin Slots /\ Periodic # NoSlot
  BY NodeAssumption DEF Slots, Periodic, NoSlot

LEMMA TimedIs ==
    ASSUME NEW st \in States, NEW s \in Slots, NEW slot \in Timer
    PROVE  LET q == Timed(st, s, slot)
           IN /\ q \in States /\ q.errored = st.errored /\ q.hist = st.hist
              /\ q.timers = [st.timers EXCEPT ![s] = slot]
<1> DEFINE ts == [st.timers EXCEPT ![s] = slot]
<1>1. ts \in Timers
  BY DEF States, Timers
<1>2. Timed(st, s, slot) = [st EXCEPT !.timers = ts]
  BY DEF Timed
<1> HIDE DEF ts
<1>3. LET q == Timed(st, s, slot)
      IN q \in States /\ q.errored = st.errored /\ q.hist = st.hist /\ q.timers = ts
  BY <1>1, <1>2 DEF States
<1> QED
  BY <1>3 DEF ts

LEMMA HistIs ==
    ASSUME NEW st \in States, NEW h \in Hist
    PROVE  LET q == [st EXCEPT !.hist = h]
           IN q \in States /\ q.errored = st.errored /\ q.hist = h /\ q.timers = st.timers
  BY DEF States

\* Arming a one-shot gives it an arm, whoever does it.
LEMMA ArmedKeeps ==
    ASSUME NEW st, NEW pending \in SUBSET Oneshots, Honest(st, pending),
           NEW s \in Oneshots, NEW ms \in Nat, NEW t \in Nat \ {0}
    PROVE  Honest(Armed(st, s, ms, t), pending)
<1> DEFINE slot == [period |-> ms, due |-> t + ms, stopped |-> FALSE]
           r == Timed(st, s, slot)
           n == IF st.hist.arms[s] < 2 THEN st.hist.arms[s] + 1 ELSE st.hist.arms[s]
           arms == [st.hist.arms EXCEPT ![s] = n]
           c == st.hist.cancelled \ {s}
           h == Owed(st.hist, s)
           q == Armed(st, s, ms, t)
<1>1. slot \in Timer /\ s \in Slots /\ slot.due # 0 /\ st \in States /\ st.hist \in Hist
  BY DEF Timer, Slots, Honest, States
<1>2. /\ r \in States /\ r.errored = st.errored /\ r.hist = st.hist
      /\ r.timers = [st.timers EXCEPT ![s] = slot]
  <2> HIDE DEF slot
  <2> QED
    BY <1>1, TimedIs
<1>3. st.hist.arms \in [Oneshots -> 0 .. 2] /\ c \in SUBSET Oneshots
  BY <1>1 DEF Hist
<1>4. n \in 0 .. 2 /\ n >= 1 /\ n >= st.hist.arms[s] /\ (st.hist.arms[s] >= 1 => n = 2)
  BY <1>3
<1>5. arms \in [Oneshots -> 0 .. 2]
  <2> HIDE DEF n
  <2> QED
    BY <1>3, <1>4
<1>6. q = [r EXCEPT !.hist = h]
  BY DEF Armed
<1>7. h \in Hist /\ h.arms = arms /\ h.extra = st.hist.extra /\ h.phase = st.hist.phase
  <2>1. h = [st.hist EXCEPT !.arms = arms, !.cancelled = c]
    BY DEF Owed
  <2> HIDE DEF arms, c, h
  <2> QED
    BY <1>1, <1>3, <1>5, <2>1 DEF Hist
<1> HIDE DEF h, r
<1>8. q \in States /\ q.hist = h /\ q.timers = [st.timers EXCEPT ![s] = slot]
  BY <1>2, <1>6, <1>7, HistIs
<1> HIDE DEF q, n
<1>9. st.timers \in Timers
  BY <1>1 DEF States
<1>10. /\ q.timers[Periodic] = st.timers[Periodic] /\ q.timers[s] = slot
       /\ \A o \in Oneshots \ {s} : q.timers[o] = st.timers[o]
  <2> HIDE DEF slot
  <2> QED
    BY <1>8, <1>9, SlotsApart DEF Timers, Slots
<1>11. /\ h.arms[s] = n
       /\ \A o \in Oneshots \ {s} : h.arms[o] = st.hist.arms[o]
  BY <1>3, <1>7
<1>12. Coherent(st.timers, st.hist, pending)
  BY DEF Honest
<1>13. \A o \in Oneshots : ~q.timers[o].stopped => q.timers[o].due # 0 /\ h.arms[o] >= 1
  BY <1>1, <1>4, <1>10, <1>11, <1>12 DEF Coherent
<1>14. \A o \in pending : h.arms[o] >= 1 /\ (~q.timers[o].stopped => h.arms[o] >= 2)
  <2> SUFFICES ASSUME NEW o \in pending
               PROVE  h.arms[o] >= 1 /\ (~q.timers[o].stopped => h.arms[o] >= 2)
    OBVIOUS
  <2>1. CASE o = s
    BY <1>4, <1>11, <1>12, <2>1 DEF Coherent
  <2>2. CASE o # s
    BY <1>10, <1>11, <1>12, <2>2 DEF Coherent
  <2> QED
    BY <2>1, <2>2
<1>15. Coherent(q.timers, q.hist, pending)
  <2> HIDE DEF slot, arms
  <2> QED
    BY <1>7, <1>8, <1>10, <1>12, <1>13, <1>14 DEF Coherent
<1> QED
  BY <1>8, <1>15 DEF Honest, q

\* Cancelling disarms.
LEMMA CancelledKeeps ==
    ASSUME NEW st, NEW pending \in SUBSET Oneshots, Honest(st, pending), NEW s \in Oneshots
    PROVE  Honest(Cancelled(st, s), pending)
<1> DEFINE slot == [st.timers[s] EXCEPT !.stopped = TRUE, !.due = 0]
           r == Timed(st, s, slot)
           c == st.hist.cancelled \cup {s}
           h == [st.hist EXCEPT !.cancelled = c]
           q == Cancelled(st, s)
<1>1. /\ st \in States /\ st.hist \in Hist /\ st.timers \in Timers /\ s \in Slots
      /\ st.timers[s] \in Timer
  BY DEF Honest, States, Timers, Slots
<1>2. slot \in Timer /\ slot.stopped = TRUE
  BY <1>1 DEF Timer
<1>3. /\ r \in States /\ r.errored = st.errored /\ r.hist = st.hist
      /\ r.timers = [st.timers EXCEPT ![s] = slot]
  <2> HIDE DEF slot
  <2> QED
    BY <1>1, <1>2, TimedIs
<1>4. h \in Hist /\ h.arms = st.hist.arms /\ h.extra = st.hist.extra /\ h.phase = st.hist.phase
  BY <1>1 DEF Hist
<1>5. q = [r EXCEPT !.hist = h]
  BY DEF Cancelled
<1> HIDE DEF h, r
<1>6. q \in States /\ q.hist = h /\ q.timers = [st.timers EXCEPT ![s] = slot]
  BY <1>3, <1>4, <1>5, HistIs
<1> HIDE DEF q, slot
<1>7. /\ q.timers[Periodic] = st.timers[Periodic] /\ q.timers[s] = slot
      /\ \A o \in Oneshots \ {s} : q.timers[o] = st.timers[o]
  BY <1>1, <1>6, SlotsApart DEF Timers, Slots
<1>8. Coherent(q.timers, q.hist, pending)
  BY <1>2, <1>4, <1>6, <1>7 DEF Honest, Coherent
<1> QED
  BY <1>6, <1>8 DEF Honest, q

\* A handler that stops its own timer stops it.
LEMMA StoppedKeeps ==
    ASSUME NEW st, NEW pending \in SUBSET Oneshots, Honest(st, pending), NEW s \in Slots
    PROVE  Honest(Timed(st, s, [st.timers[s] EXCEPT !.stopped = TRUE]), pending)
<1> DEFINE slot == [st.timers[s] EXCEPT !.stopped = TRUE]
           q == Timed(st, s, slot)
<1>1. st \in States /\ st.timers \in Timers /\ st.timers[s] \in Timer
  BY DEF Honest, States, Timers
<1>2. /\ slot \in Timer /\ slot.stopped = TRUE
      /\ slot.due = st.timers[s].due /\ slot.period = st.timers[s].period
  BY <1>1 DEF Timer
<1> HIDE DEF slot
<1>3. /\ q \in States /\ q.errored = st.errored /\ q.hist = st.hist
      /\ q.timers = [st.timers EXCEPT ![s] = slot]
  BY <1>1, <1>2, TimedIs
<1> HIDE DEF q
<1>4. \A o \in Slots : q.timers[o] = IF o = s THEN slot ELSE st.timers[o]
  BY <1>1, <1>3 DEF Timers
<1>5. OnGrid(q.timers[Periodic], q.hist.phase)
  BY <1>2, <1>3, <1>4 DEF Honest, Coherent, OnGrid, Slots
<1>6. Coherent(q.timers, q.hist, pending)
  BY <1>2, <1>3, <1>4, <1>5 DEF Honest, Coherent, Slots
<1> QED
  BY <1>3, <1>6 DEF Honest, q, slot

\* A new period starts a new grid.
LEMMA RebeatenKeeps ==
    ASSUME NEW st, NEW pending \in SUBSET Oneshots, Honest(st, pending),
           NEW ms \in Nat, NEW t \in Nat \ {0}
    PROVE  Honest(Rebeaten(st, ms, t), pending)
<1> DEFINE slot == [st.timers[Periodic] EXCEPT !.period = ms, !.due = t + ms]
           r == Timed(st, Periodic, slot)
           p == t + ms
           h == [st.hist EXCEPT !.phase = p]
           q == Rebeaten(st, ms, t)
<1>1. /\ st \in States /\ st.hist \in Hist /\ st.timers \in Timers /\ Periodic \in Slots
      /\ st.timers[Periodic] \in Timer
  BY DEF Honest, States, Timers, Slots
<1>2. slot \in Timer /\ slot.due = p /\ slot.period = ms /\ p \in Nat
  <2>1. p \in Nat
    OBVIOUS
  <2>2. slot = [st.timers[Periodic] EXCEPT !.period = ms, !.due = p]
    OBVIOUS
  <2> HIDE DEF p, slot
  <2> QED
    BY <1>1, <2>1, <2>2 DEF Timer
<1>3. /\ r \in States /\ r.errored = st.errored /\ r.hist = st.hist
      /\ r.timers = [st.timers EXCEPT ![Periodic] = slot]
  <2> HIDE DEF slot
  <2> QED
    BY <1>1, <1>2, TimedIs
<1>4. h \in Hist /\ h.arms = st.hist.arms /\ h.extra = st.hist.extra /\ h.phase = p
  <2> HIDE DEF p
  <2> QED
    BY <1>1, <1>2 DEF Hist
<1>5. q = [r EXCEPT !.hist = h]
  BY DEF Rebeaten
<1> HIDE DEF h, r
<1>6. q \in States /\ q.hist = h /\ q.timers = [st.timers EXCEPT ![Periodic] = slot]
  BY <1>3, <1>4, <1>5, HistIs
<1> HIDE DEF q, slot
<1>7. /\ q.timers[Periodic] = slot
      /\ \A o \in Oneshots : q.timers[o] = st.timers[o]
  BY <1>1, <1>6, SlotsApart DEF Timers, Slots
<1>8. OnGrid(slot, p)
  <2>1. p = p + 0 * slot.period
    BY <1>2
  <2> QED
    BY <1>2, <2>1 DEF OnGrid
<1>9. Coherent(q.timers, q.hist, pending)
  <2> HIDE DEF p
  <2> QED
    BY <1>4, <1>6, <1>7, <1>8 DEF Honest, Coherent
<1> QED
  BY <1>6, <1>9 DEF Honest, q

LEMMA OpKeeps ==
    ASSUME NEW st, NEW pending \in SUBSET Oneshots, Honest(st, pending),
           NEW op \in TimerOps, NEW t \in Nat \ {0}, NEW slot \in Slots \cup {NoSlot}
    PROVE  Honest(ApplyOp(st, op, t, slot), pending)
<1>1. CASE op \in [op : {"set_timer"}, name : Oneshots, ms : Nat]
  <2>1. ApplyOp(st, op, t, slot) = Armed(st, op.name, op.ms, t)
    BY <1>1 DEF ApplyOp
  <2>2. op.name \in Oneshots /\ op.ms \in Nat
    BY <1>1
  <2> QED
    BY <2>1, <2>2, ArmedKeeps
<1>2. CASE op \in [op : {"cancel_timer"}, name : Oneshots]
  <2>1. ApplyOp(st, op, t, slot) = Cancelled(st, op.name)
    BY <1>2 DEF ApplyOp
  <2>2. op.name \in Oneshots
    BY <1>2
  <2> QED
    BY <2>1, <2>2, CancelledKeeps
<1>3. CASE op \in [op : {"set_period"}, ms : Nat]
  <2>1. ApplyOp(st, op, t, slot) =
          IF slot = NoSlot THEN st
          ELSE IF slot = Periodic THEN Rebeaten(st, op.ms, t)
          ELSE Armed(st, slot, op.ms, t)
    BY <1>3 DEF ApplyOp
  <2>2. op.ms \in Nat
    BY <1>3
  <2>3. CASE slot = NoSlot
    BY <2>1, <2>3
  <2>4. CASE slot = Periodic
    BY <2>1, <2>2, <2>4, RebeatenKeeps, SlotsApart
  <2>5. CASE slot \in Oneshots
    BY <2>1, <2>2, <2>5, ArmedKeeps, SlotsApart DEF Slots
  <2> QED
    BY <2>3, <2>4, <2>5 DEF Slots
<1>4. CASE op \in [op : {"stop_timer"}]
  <2>1. ApplyOp(st, op, t, slot) =
          IF slot = NoSlot THEN st
          ELSE Timed(st, slot, [st.timers[slot] EXCEPT !.stopped = TRUE])
    BY <1>4 DEF ApplyOp
  <2> QED
    BY <2>1, StoppedKeeps
<1> QED
  BY <1>1, <1>2, <1>3, <1>4 DEF TimerOps

OpsRan(after, n, st, ops, t, slot) ==
    after = [k \in 0 .. n |-> IF k = 0 THEN st ELSE ApplyOp(after[k - 1], ops[k], t, slot)]

\* A program of operations is a recursive function, which exists.
LEMMA OpsAre ==
    ASSUME NEW st, NEW ops \in Seq(TimerOps), NEW t, NEW slot
    PROVE  \E after : /\ OpsRan(after, Len(ops), st, ops, t, slot)
                      /\ ApplyOps(st, ops, t, slot) = after[Len(ops)]
<1> USE DEF OpsRan
<1> DEFINE Is(after, n) == OpsRan(after, n, st, ops, t, slot)
           Missing == {n \in 0 .. Len(ops) : ~ \E after : Is(after, n)}
<1>1. ASSUME Missing # {} PROVE FALSE
  <2>0. Missing \in SUBSET Nat
    OBVIOUS
  <2> HIDE DEF Is
  <2>1. PICK n \in Missing : \A m \in Missing : n <= m
    <3> HIDE DEF Missing
    <3> QED
      BY <1>1, <2>0, LeastNat
  <2>2. n \in 0 .. Len(ops) /\ ~ \E after : Is(after, n)
    OBVIOUS
  <2>3. CASE n = 0
    <3> DEFINE f == [k \in 0 .. 0 |-> st]
    <3>1. Is(f, 0)
      BY DEF Is
    <3> QED
      BY <2>2, <2>3, <3>1
  <2>4. CASE n # 0
    <3>1. n - 1 \in 0 .. Len(ops) /\ n - 1 \notin Missing
      BY <2>1, <2>2, <2>4
    <3>2. PICK g : Is(g, n - 1)
      BY <3>1
    <3> DEFINE f == [k \in 0 .. n |->
                       IF k = 0 THEN st ELSE ApplyOp(g[k - 1], ops[k], t, slot)]
    <3>3. \A k \in 0 .. (n - 1) : f[k] = g[k]
      BY <2>2, <3>2 DEF Is
    <3>4. Is(f, n)
      <4>1. \A k \in 0 .. n : k # 0 => f[k - 1] = g[k - 1]
        BY <2>2, <3>3
      <4>2. \A k \in 0 .. n :
              (IF k = 0 THEN st ELSE ApplyOp(g[k - 1], ops[k], t, slot)) =
              (IF k = 0 THEN st ELSE ApplyOp(f[k - 1], ops[k], t, slot))
        <5> HIDE DEF f
        <5> QED
          BY <4>1
      <4>3. f = [k \in 0 .. n |->
                   IF k = 0 THEN st ELSE ApplyOp(g[k - 1], ops[k], t, slot)]
        OBVIOUS
      <4> HIDE DEF f
      <4> QED
        BY <4>2, <4>3 DEF Is
    <3> QED
      BY <2>2, <3>4
  <2> QED
    BY <2>3, <2>4
<1>2. Len(ops) \in 0 .. Len(ops)
  BY LenProperties
<1>3. \E after : Is(after, Len(ops))
  <2> HIDE DEF Is
  <2> QED
    BY <1>1, <1>2
<1> DEFINE after == CHOOSE after : Is(after, Len(ops))
<1>4. Is(after, Len(ops)) /\ ApplyOps(st, ops, t, slot) = after[Len(ops)]
  BY <1>3 DEF ApplyOps
<1> HIDE DEF after
<1> QED
  BY <1>4

LEMMA OpsKeep ==
    ASSUME NEW st, NEW pending \in SUBSET Oneshots, Honest(st, pending),
           NEW ops \in Seq(TimerOps), NEW t \in Nat \ {0}, NEW slot \in Slots \cup {NoSlot}
    PROVE  Honest(ApplyOps(st, ops, t, slot), pending)
<1>1. PICK after :
        /\ OpsRan(after, Len(ops), st, ops, t, slot)
        /\ ApplyOps(st, ops, t, slot) = after[Len(ops)]
  BY OpsAre
<1> USE DEF OpsRan
<1> DEFINE Wrong == {n \in 0 .. Len(ops) : ~Honest(after[n], pending)}
<1>2. ASSUME Wrong # {} PROVE FALSE
  <2>1. PICK n \in Wrong : \A m \in Wrong : n <= m
    <3>1. Wrong \in SUBSET Nat
      OBVIOUS
    <3> HIDE DEF Wrong
    <3> QED
      BY <1>2, <3>1, LeastNat
  <2>2. n \in 0 .. Len(ops) /\ ~Honest(after[n], pending)
    OBVIOUS
  <2>3. CASE n = 0
    BY <1>1, <2>2, <2>3
  <2>4. CASE n # 0
    <3>1. n - 1 \in 0 .. Len(ops) /\ n - 1 \notin Wrong /\ n \in 1 .. Len(ops)
      BY <2>1, <2>2, <2>4
    <3>2. Honest(after[n - 1], pending) /\ ops[n] \in TimerOps
      BY <3>1
    <3>3. after[n] = ApplyOp(after[n - 1], ops[n], t, slot)
      BY <1>1, <2>2, <2>4
    <3> HIDE DEF Wrong
    <3> QED
      BY <2>2, <3>2, <3>3, OpKeeps
  <2> QED
    BY <2>3, <2>4
<1>3. Len(ops) \in 0 .. Len(ops)
  BY LenProperties
<1> QED
  BY <1>1, <1>2, <1>3

\* A handler that runs spends the arm its one-shot had.
LEMMA FiredKeeps ==
    ASSUME NEW st, NEW pending \in SUBSET Oneshots, Honest(st, pending),
           NEW s \in Slots, s # Periodic => s \in pending,
           NEW prog \in Programs, NEW t \in Nat \ {0}
    PROVE  Honest(Fired(st, s, prog, t), pending \ {s})
<1>1. /\ st \in States /\ st.hist \in Hist /\ st.timers \in Timers
      /\ Coherent(st.timers, st.hist, pending)
  BY DEF Honest, States
<1>2. Honest(st, pending \ {s})
  BY <1>1 DEF Honest, Coherent
<1>3. CASE st.errored
  BY <1>2, <1>3 DEF Fired
<1>4. CASE ~st.errored /\ prog = Fails
  <2>1. Fired(st, s, prog, t) = [st EXCEPT !.errored = TRUE]
    BY <1>4 DEF Fired
  <2> DEFINE q == [st EXCEPT !.errored = TRUE]
  <2>2. q \in States /\ q.timers = st.timers /\ q.hist = st.hist
    BY <1>1 DEF States
  <2> HIDE DEF q
  <2>3. Honest(q, pending \ {s})
    BY <1>2, <2>2 DEF Honest
  <2> QED
    BY <2>1, <2>3 DEF q
<1>5. CASE ~st.errored /\ prog # Fails
  <2> DEFINE q == IF s = Periodic THEN st ELSE [st EXCEPT !.hist = Unspent(@, s)]
  <2>1. Fired(st, s, prog, t) = ApplyOps(q, prog, t, s)
    BY <1>5 DEF Fired
  <2>2. prog \in Seq(TimerOps)
    BY <1>5, NodeAssumption
  <2>3. Honest(q, pending \ {s})
    <3>1. CASE s = Periodic
      BY <1>2, <3>1
    <3>2. CASE s # Periodic
      <4> DEFINE n == st.hist.arms[s]
                 arms == [st.hist.arms EXCEPT ![s] = n - 1]
                 g == st.hist.ghosts \cup (st.hist.cancelled \cap {s})
                 h == Unspent(st.hist, s)
      <4>1. /\ s \in Oneshots /\ s \in pending /\ st.hist.arms \in [Oneshots -> 0 .. 2]
            /\ n \in 1 .. 2
        BY <1>1, <3>2 DEF Hist, Coherent
      <4>2. h = [st.hist EXCEPT !.arms = arms, !.ghosts = g]
        <5>1. h = [st.hist EXCEPT !.arms = arms, !.extra = st.hist.extra, !.ghosts = g]
          <6> DEFINE m == IF n > 0 THEN n - 1 ELSE 0
                     e == IF n > 0 THEN st.hist.extra ELSE st.hist.extra \cup {s}
          <6>1. h = [st.hist EXCEPT !.arms = [st.hist.arms EXCEPT ![s] = m], !.extra = e, !.ghosts = g]
            BY DEF Unspent
          <6>2. m = n - 1 /\ e = st.hist.extra
            BY <4>1
          <6> HIDE DEF h, m, e, g, n
          <6> QED
            BY <6>1, <6>2
        <5> HIDE DEF h, arms, g
        <5> QED
          BY <1>1, <5>1 DEF Hist
      <4>3. arms \in [Oneshots -> 0 .. 2] /\ g \in SUBSET Oneshots
        BY <1>1, <4>1 DEF Hist
      <4>4. /\ arms[s] = n - 1
            /\ \A o \in Oneshots \ {s} : arms[o] = st.hist.arms[o]
        BY <4>1
      <4> HIDE DEF arms, g
      <4>5. h \in Hist /\ h.arms = arms /\ h.extra = st.hist.extra /\ h.phase = st.hist.phase
        BY <1>1, <4>2, <4>3 DEF Hist
      <4>6. q = [st EXCEPT !.hist = h]
        BY <3>2
      <4> HIDE DEF h, q
      <4>7. q \in States /\ q.hist = h /\ q.timers = st.timers
        BY <1>1, <4>5, <4>6, HistIs
      <4>8. ~st.timers[s].stopped => n = 2
        BY <1>1, <4>1 DEF Coherent
      <4>9. Coherent(q.timers, q.hist, pending \ {s})
        <5>1. \A o \in Oneshots : ~st.timers[o].stopped => st.timers[o].due # 0 /\ arms[o] >= 1
          BY <1>1, <4>1, <4>4, <4>8 DEF Coherent
        <5>2. \A o \in pending \ {s} :
                arms[o] >= 1 /\ (~st.timers[o].stopped => arms[o] >= 2)
          BY <1>1, <4>4 DEF Coherent
        <5> QED
          BY <1>1, <4>5, <4>7, <5>1, <5>2 DEF Coherent
      <4> QED
        BY <4>7, <4>9 DEF Honest, q
    <3> QED
      BY <3>1, <3>2
  <2> HIDE DEF q
  <2> QED
    BY <2>1, <2>2, <2>3, OpsKeep
<1> QED
  BY <1>3, <1>4, <1>5

LEMMA TimersAre ==
    ASSUME NEW st, NEW due, NEW choice, NEW t
    PROVE  \E after :
             /\ after = [k \in 0 .. Len(SlotOrder) |->
                          IF k = 0 THEN st
                          ELSE IF SlotOrder[k] \notin due THEN after[k - 1]
                          ELSE Fired(after[k - 1], SlotOrder[k], choice[SlotOrder[k]], t)]
             /\ RunTimers(st, due, choice, t) = after[Len(SlotOrder)]
<1> DEFINE Next1(before, k) ==
             IF SlotOrder[k] \notin due THEN before
             ELSE Fired(before, SlotOrder[k], choice[SlotOrder[k]], t)
           Is(after, n) ==
             after = [k \in 0 .. n |-> IF k = 0 THEN st ELSE Next1(after[k - 1], k)]
           Missing == {n \in 0 .. Len(SlotOrder) : ~ \E after : Is(after, n)}
<1>0. SlotOrder \in Seq(Slots)
  BY NodeAssumption
<1>1. ASSUME Missing # {} PROVE FALSE
  <2>0. Missing \in SUBSET Nat
    OBVIOUS
  <2> HIDE DEF Is
  <2>1. PICK n \in Missing : \A m \in Missing : n <= m
    <3> HIDE DEF Missing
    <3> QED
      BY <1>1, <2>0, LeastNat
  <2>2. n \in 0 .. Len(SlotOrder) /\ ~ \E after : Is(after, n)
    OBVIOUS
  <2>3. CASE n = 0
    <3> DEFINE f == [k \in 0 .. 0 |-> st]
    <3>1. Is(f, 0)
      BY DEF Is
    <3> QED
      BY <2>2, <2>3, <3>1
  <2>4. CASE n # 0
    <3>1. n - 1 \in 0 .. Len(SlotOrder) /\ n - 1 \notin Missing
      BY <1>0, <2>1, <2>2, <2>4
    <3>2. PICK g : Is(g, n - 1)
      BY <3>1
    <3> HIDE DEF Next1
    <3> DEFINE f == [k \in 0 .. n |-> IF k = 0 THEN st ELSE Next1(g[k - 1], k)]
    <3>3. \A k \in 0 .. (n - 1) : f[k] = g[k]
      BY <2>2, <3>2 DEF Is
    <3>4. Is(f, n)
      <4>1. \A k \in 0 .. n : k # 0 => f[k - 1] = g[k - 1]
        BY <2>2, <3>3
      <4>2. \A k \in 0 .. n :
              (IF k = 0 THEN st ELSE Next1(g[k - 1], k)) =
              (IF k = 0 THEN st ELSE Next1(f[k - 1], k))
        <5> HIDE DEF f
        <5> QED
          BY <4>1
      <4>3. f = [k \in 0 .. n |-> IF k = 0 THEN st ELSE Next1(g[k - 1], k)]
        OBVIOUS
      <4> HIDE DEF f
      <4> QED
        BY <4>2, <4>3 DEF Is
    <3> QED
      BY <2>2, <3>4
  <2> QED
    BY <2>3, <2>4
<1>2. Len(SlotOrder) \in 0 .. Len(SlotOrder)
  BY <1>0, LenProperties
<1>3. \E after : Is(after, Len(SlotOrder))
  <2> HIDE DEF Is
  <2> QED
    BY <1>1, <1>2
<1> DEFINE after == CHOOSE after : Is(after, Len(SlotOrder))
<1>4. Is(after, Len(SlotOrder)) /\ RunTimers(st, due, choice, t) = after[Len(SlotOrder)]
  BY <1>3 DEF RunTimers
<1> HIDE DEF after
<1> QED
  BY <1>4

\* Every due slot has its turn once, so none is left pending.
LEMMA RunTimersKeeps ==
    ASSUME NEW st, NEW due \in SUBSET Slots, Honest(st, due \cap Oneshots),
           NEW choice \in [Slots -> Programs], NEW t \in Nat \ {0}
    PROVE  Honest(RunTimers(st, due, choice, t), {})
<1>0. SlotOrder \in Seq(Slots) /\ Len(SlotOrder) \in Nat
  BY NodeAssumption, LenProperties
<1>1. PICK after :
        /\ after = [k \in 0 .. Len(SlotOrder) |->
                     IF k = 0 THEN st
                     ELSE IF SlotOrder[k] \notin due THEN after[k - 1]
                     ELSE Fired(after[k - 1], SlotOrder[k], choice[SlotOrder[k]], t)]
        /\ RunTimers(st, due, choice, t) = after[Len(SlotOrder)]
  BY TimersAre
<1> DEFINE Left(k) ==
             {s \in due \cap Oneshots : \A i \in 1 .. Len(SlotOrder) : SlotOrder[i] = s => i > k}
           Wrong == {n \in 0 .. Len(SlotOrder) : ~Honest(after[n], Left(n))}
<1>2. ASSUME Wrong # {} PROVE FALSE
  <2>1. PICK n \in Wrong : \A m \in Wrong : n <= m
    <3>1. Wrong \in SUBSET Nat
      OBVIOUS
    <3> HIDE DEF Wrong
    <3> QED
      BY <1>2, <3>1, LeastNat
  <2>2. n \in 0 .. Len(SlotOrder) /\ ~Honest(after[n], Left(n))
    OBVIOUS
  <2>3. CASE n = 0
    <3>1. Left(n) = due \cap Oneshots
      BY <1>0, <2>3
    <3>2. after[n] = st
      BY <1>1, <2>2, <2>3
    <3> HIDE DEF Left
    <3> QED
      BY <2>2, <3>1, <3>2
  <2>4. CASE n # 0
    <3> DEFINE s == SlotOrder[n]
    <3>1. n - 1 \in 0 .. Len(SlotOrder) /\ n - 1 \notin Wrong /\ n \in 1 .. Len(SlotOrder)
      <4> HIDE DEF Wrong
      <4> QED
        BY <1>0, <2>1, <2>2, <2>4
    <3>2. Honest(after[n - 1], Left(n - 1)) /\ s \in Slots
      BY <1>0, <3>1
    <3>3. after[n] = IF s \notin due THEN after[n - 1]
                     ELSE Fired(after[n - 1], s, choice[s], t)
      BY <1>1, <2>2, <2>4
    <3>4. Left(n) = Left(n - 1) \ {s}
      <4>1. \A o \in Left(n - 1) \ {s} : o \in Left(n)
        BY <1>0, <3>1
      <4>2. \A o \in Left(n) : o \in Left(n - 1) /\ o # s
        BY <1>0, <3>1
      <4> HIDE DEF Left
      <4>3. Left(n) \subseteq Left(n - 1) \ {s} /\ Left(n - 1) \ {s} \subseteq Left(n)
        BY <4>1, <4>2
      <4> QED
        BY <4>3
    <3>5. s \in due /\ s # Periodic => s \in Left(n - 1)
      BY <1>0, <3>1, <3>2, NodeAssumption DEF Slots
    <3>6. Left(n - 1) \in SUBSET Oneshots /\ (s \notin due => s \notin Left(n - 1))
      OBVIOUS
    <3>7. choice[s] \in Programs
      BY <3>2
    <3> HIDE DEF Left, Wrong, s
    <3>8. CASE s \notin due
      <4>1. Left(n) = Left(n - 1)
        BY <3>4, <3>6, <3>8
      <4> QED
        BY <2>2, <3>2, <3>3, <3>8, <4>1
    <3>9. CASE s \in due
      <4>1. Honest(Fired(after[n - 1], s, choice[s], t), Left(n - 1) \ {s})
        BY <3>2, <3>5, <3>6, <3>7, <3>9, FiredKeeps
      <4> QED
        BY <2>2, <3>3, <3>4, <3>9, <4>1
    <3> QED
      BY <3>8, <3>9
  <2> QED
    BY <2>3, <2>4
<1>3. Honest(after[Len(SlotOrder)], Left(Len(SlotOrder)))
  <2>1. Len(SlotOrder) \in 0 .. Len(SlotOrder)
    BY <1>0
  <2>2. Len(SlotOrder) \notin Wrong
    <3> HIDE DEF Wrong
    <3> QED
      BY <1>2
  <2> HIDE DEF Left
  <2> QED
    BY <2>1, <2>2
<1>4. Left(Len(SlotOrder)) = {}
  <2>1. ASSUME NEW s \in Left(Len(SlotOrder)) PROVE FALSE
    <3>1. PICK i \in DOMAIN SlotOrder : SlotOrder[i] = s
      BY NodeAssumption DEF Slots
    <3>2. i \in 1 .. Len(SlotOrder)
      BY <1>0
    <3> QED
      BY <1>0, <2>1, <3>1, <3>2
  <2> QED
    BY <2>1
<1> QED
  BY <1>1, <1>3, <1>4

\* The next beat is on the grid of the last, and later.
LEMMA AdvancedIs ==
    ASSUME NEW s \in Slots, NEW slot \in Timer, NEW t \in Nat \ {0}
    PROVE  LET q == Advanced(s, slot, t)
           IN /\ q \in Timer
              /\ s # Periodic /\ IsDue(slot, t) => q.stopped
              /\ ~q.stopped => ~slot.stopped /\ q.due # 0
              /\ \A phase \in Nat :
                   OnGrid(slot, phase) =>
                   OnGrid(q, IF slot.due = 0 THEN q.due ELSE phase)
<1> DEFINE q == Advanced(s, slot, t)
<1>1. slot.period \in Nat /\ slot.due \in Nat /\ slot.stopped \in BOOLEAN
  BY DEF Timer
<1>2. CASE slot.stopped
  <2>1. q = slot
    BY <1>2 DEF Advanced
  <2> HIDE DEF q
  <2>2. \A phase \in Nat : OnGrid(slot, phase) => OnGrid(q, IF slot.due = 0 THEN q.due ELSE phase)
    BY <2>1 DEF OnGrid
  <2> QED
    BY <1>2, <2>1, <2>2 DEF q
<1>3. CASE ~slot.stopped /\ slot.due = 0
  <2> DEFINE d == t + slot.period
  <2>1. d \in Nat /\ d # 0
    BY <1>1
  <2>2. q = [slot EXCEPT !.due = d]
    BY <1>3 DEF Advanced
  <2> HIDE DEF d, q
  <2>3. q \in Timer /\ q.due = d /\ q.stopped = slot.stopped /\ q.period = slot.period
    BY <2>1, <2>2 DEF Timer
  <2>4. OnGrid(q, q.due)
    <3>1. q.due = q.due + 0 * q.period
      BY <1>1, <2>1, <2>3
    <3> QED
      BY <3>1 DEF OnGrid
  <2> QED
    BY <1>3, <2>1, <2>3, <2>4 DEF q, IsDue
<1>4. CASE ~slot.stopped /\ slot.due # 0 /\ slot.due > t
  <2>1. q = slot
    BY <1>4 DEF Advanced
  <2>2. ~IsDue(slot, t)
    BY <1>1, <1>4 DEF IsDue
  <2> HIDE DEF q
  <2> QED
    BY <1>4, <2>1, <2>2 DEF q
<1>5. CASE ~slot.stopped /\ slot.due # 0 /\ ~(slot.due > t) /\ s # Periodic
  <2>1. q = [slot EXCEPT !.stopped = TRUE, !.due = 0]
    BY <1>5 DEF Advanced, Spent
  <2> HIDE DEF q
  <2>2. q \in Timer /\ q.stopped /\ q.due = 0
    BY <2>1 DEF Timer
  <2>3. \A phase \in Nat : OnGrid(q, phase)
    BY <2>2 DEF OnGrid
  <2> QED
    BY <1>5, <2>2, <2>3 DEF q
<1>6. CASE ~slot.stopped /\ slot.due # 0 /\ ~(slot.due > t) /\ s = Periodic
  <2> DEFINE beats1 == ((t - slot.due) \div slot.period) + 1
             d == NextBeat(slot, t)
  <2>1. q = [slot EXCEPT !.due = d]
    BY <1>6 DEF Advanced
  <2>2. slot.period # 0 => beats1 \in Nat /\ beats1 >= 1
    BY <1>1, <1>6
  <2>3. slot.period # 0 => d = slot.due + slot.period * beats1
    BY DEF NextBeat
  <2>4. slot.period = 0 => d = t
    BY DEF NextBeat
  <2> HIDE DEF beats1, d, q
  <2>5. d \in Nat /\ d # 0
    <3>1. CASE slot.period = 0
      BY <2>4, <3>1
    <3>2. CASE slot.period # 0
      <4>1. slot.period * beats1 \in Nat
        BY <1>1, <2>2, <3>2
      <4> QED
        BY <1>1, <1>6, <2>3, <3>2, <4>1
    <3> QED
      BY <3>1, <3>2
  <2>6. q \in Timer /\ q.due = d /\ q.stopped = slot.stopped /\ q.period = slot.period
    BY <2>1, <2>5 DEF Timer
  <2>7. ASSUME NEW phase \in Nat, OnGrid(slot, phase) PROVE OnGrid(q, phase)
    <3> SUFFICES ASSUME slot.period # 0
                 PROVE  \E n \in Nat : d = phase + n * slot.period
      BY <2>6 DEF OnGrid
    <3>1. PICK m \in Nat : slot.due = phase + m * slot.period
      BY <1>6, <2>7 DEF OnGrid
    <3>2. d = phase + (m + beats1) * slot.period
      BY <1>1, <2>2, <2>3, <3>1
    <3>3. m + beats1 \in Nat
      BY <2>2
    <3> QED
      BY <3>2, <3>3
  <2> QED
    BY <1>6, <2>5, <2>6, <2>7 DEF q
<1> QED
  BY <1>1, <1>2, <1>3, <1>4, <1>5, <1>6

\* The first pass takes the due one-shots out of their slots; their handlers
\* are to run.
LEMMA PassedOverKeeps ==
    ASSUME NEW st, Honest(st, {}), NEW t \in Nat \ {0}
    PROVE  Honest(PassedOver(st, t), DueSlots(st.timers, t) \cap Oneshots)
<1> DEFINE timers == [s \in Slots |-> Advanced(s, st.timers[s], t)]
           phase == IF st.timers[Periodic].due = 0 THEN timers[Periodic].due ELSE st.hist.phase
           h == [st.hist EXCEPT !.phase = phase]
           q == PassedOver(st, t)
           due == DueSlots(st.timers, t) \cap Oneshots
<1>1. /\ st \in States /\ st.hist \in Hist /\ st.timers \in Timers
      /\ Coherent(st.timers, st.hist, {}) /\ st.hist.phase \in Nat
  BY DEF Honest, States, Hist
<1>2. \A s \in Slots : st.timers[s] \in Timer /\ timers[s] = Advanced(s, st.timers[s], t)
  BY <1>1 DEF Timers
<1>3. q = [st EXCEPT !.timers = timers, !.hist = h]
  BY DEF PassedOver
<1> HIDE DEF timers
<1>4. \A s \in Slots : timers[s] \in Timer
  BY <1>2, AdvancedIs
<1>5. timers \in Timers
  <2>1. timers = [s \in Slots |-> timers[s]]
    BY DEF timers
  <2> QED
    BY <1>4, <2>1 DEF Timers
<1>6. phase \in Nat
  BY <1>1, <1>4, SlotsApart DEF Slots, Timer
<1>7. OnGrid(timers[Periodic], phase)
  <2>1. Periodic \in Slots /\ OnGrid(st.timers[Periodic], st.hist.phase)
    BY <1>1 DEF Coherent, Slots
  <2> QED
    BY <1>1, <1>2, <2>1, AdvancedIs
<1> HIDE DEF phase
<1>8. /\ h \in Hist /\ h.arms = st.hist.arms /\ h.extra = st.hist.extra /\ h.phase = phase
  BY <1>1, <1>6 DEF Hist
<1> HIDE DEF h, q
<1>9. q \in States /\ q.timers = timers /\ q.hist = h
  BY <1>1, <1>3, <1>5, <1>8 DEF States
<1>10. \A s \in Oneshots :
         ~timers[s].stopped => timers[s].due # 0 /\ h.arms[s] >= 1
  <2> SUFFICES ASSUME NEW s \in Oneshots, ~timers[s].stopped
               PROVE  timers[s].due # 0 /\ h.arms[s] >= 1
    OBVIOUS
  <2>1. s \in Slots
    BY DEF Slots
  <2>2. ~st.timers[s].stopped /\ timers[s].due # 0
    BY <1>2, <2>1, AdvancedIs
  <2> QED
    BY <1>1, <1>8, <2>2 DEF Coherent
<1>11. \A s \in due : h.arms[s] >= 1 /\ (~timers[s].stopped => h.arms[s] >= 2)
  <2> SUFFICES ASSUME NEW s \in due PROVE h.arms[s] >= 1 /\ timers[s].stopped
    OBVIOUS
  <2>1. s \in Slots /\ s \in Oneshots /\ IsDue(st.timers[s], t)
    BY DEF Slots, DueSlots
  <2>2. timers[s].stopped
    BY <1>2, <2>1, SlotsApart, AdvancedIs
  <2> QED
    BY <1>1, <1>8, <2>1, <2>2 DEF Coherent, IsDue
<1> HIDE DEF due
<1>12. Coherent(q.timers, q.hist, due)
  BY <1>1, <1>7, <1>8, <1>9, <1>10, <1>11 DEF Coherent
<1> QED
  BY <1>9, <1>12 DEF Honest, q, due

LEMMA DeliveredKeeps ==
    ASSUME NEW st, Honest(st, {}), NEW prog \in Programs, NEW t \in Nat \ {0}
    PROVE  Honest(Delivered(st, prog, t), {})
<1>1. CASE st.errored
  BY <1>1 DEF Delivered
<1>2. CASE ~st.errored /\ prog = Fails
  <2> DEFINE q == [st EXCEPT !.errored = TRUE]
  <2>1. q \in States /\ q.timers = st.timers /\ q.hist = st.hist
    BY DEF Honest, States
  <2>2. Delivered(st, prog, t) = q
    BY <1>2 DEF Delivered
  <2> HIDE DEF q
  <2> QED
    BY <2>1, <2>2 DEF Honest
<1>3. CASE ~st.errored /\ prog # Fails
  <2>1. prog \in Seq(TimerOps)
    BY <1>3, NodeAssumption
  <2>2. Delivered(st, prog, t) = ApplyOps(st, prog, t, NoSlot)
    BY <1>3 DEF Delivered
  <2> QED
    BY <2>1, <2>2, OpsKeep
<1> QED
  BY <1>1, <1>2, <1>3

-----------------------------------------------------------------------------
(* The timers of a node that runs                                           *)

RuntimeOK(rt) == rt.source \in Sources /\ rt.timers \in Timers /\ rt.ops \in Seq(TimerOps)

\* The history follows the timers of the runtime while the node runs; a failed
\* node keeps timers nobody looks at.
TimerInv ==
    /\ NodeInv
    /\ node.source \in Sources /\ node.enabled \in BOOLEAN /\ node.errored \in BOOLEAN
    /\ measuring \in BOOLEAN /\ clock \in 1 .. MaxNow /\ panel \in 0 .. MaxPanel
    /\ beats \in Hist /\ beats.extra = {}
    /\ node.runtime # NoRuntime => RuntimeOK(node.runtime)
    /\ Running => Coherent(node.runtime.timers, beats, {})

LEMMA FreshIs ==
    /\ FreshTimers \in Timers /\ FreshHist \in Hist /\ FreshHist.extra = {}
    /\ Coherent(FreshTimers, FreshHist, {})
<1>1. /\ FreshHist.arms = [s \in Oneshots |-> 0] /\ FreshHist.cancelled = {} /\ FreshHist.phase = 0
      /\ FreshHist.extra = {} /\ FreshHist.ghosts = {}
  BY DEF FreshHist
<1>2. FreshHist \in Hist
  BY DEF FreshHist, Hist
<1>3. FreshTimers \in Timers
  BY NodeAssumption DEF FreshTimers, Timers, Timer
<1>4. \A s \in Slots : FreshTimers[s].due = 0 /\ FreshTimers[s].stopped = (s # Periodic)
  BY DEF FreshTimers
<1>5. \A s \in Oneshots : FreshTimers[s].stopped
  BY <1>4, SlotsApart DEF Slots
<1>6. OnGrid(FreshTimers[Periodic], FreshHist.phase)
  BY <1>4 DEF OnGrid, Slots
<1> QED
  BY <1>1, <1>2, <1>3, <1>5, <1>6 DEF Coherent

\* A start gives a node fresh timers, or leaves it failed.
LEMMA StartedRuns ==
    ASSUME NEW n, IsNode(n), n.source \in Sources, n.enabled \in BOOLEAN,
           n.runtime # NoRuntime => RuntimeOK(n.runtime), NEW prog \in Programs
    PROVE  LET q == Started(n, prog)
           IN /\ q.source = n.source /\ q.enabled = n.enabled /\ q.errored \in BOOLEAN
              /\ q.runtime # NoRuntime => RuntimeOK(q.runtime)
              /\ ~q.errored => Coherent(q.runtime.timers, FreshHist, {})
<1> DEFINE q == Started(n, prog)
           rt == [source |-> n.source, timers |-> FreshTimers, ops |-> prog]
<1>1. CASE n.source \notin Compiles \/ prog = Fails
  <2>1. q = [n EXCEPT !.errored = TRUE]
    BY <1>1 DEF Started
  <2> HIDE DEF q
  <2>2. q.source = n.source /\ q.enabled = n.enabled /\ q.errored = TRUE /\ q.runtime = n.runtime
    BY <2>1 DEF IsNode
  <2> QED
    BY <2>2 DEF q
<1>2. CASE ~(n.source \notin Compiles \/ prog = Fails)
  <2>1. q = [n EXCEPT !.errored = FALSE, !.runtime = rt]
    BY <1>2 DEF Started
  <2>2. rt.source = n.source /\ rt.timers = FreshTimers /\ rt.ops = prog
    OBVIOUS
  <2> HIDE DEF q, rt
  <2>3. q.source = n.source /\ q.enabled = n.enabled /\ q.errored = FALSE /\ q.runtime = rt
    BY <2>1 DEF IsNode
  <2>4. prog \in Seq(TimerOps)
    BY <1>2, NodeAssumption
  <2>5. RuntimeOK(rt)
    BY <2>2, <2>4, FreshIs DEF RuntimeOK
  <2> QED
    BY <2>2, <2>3, <2>5, FreshIs DEF q
<1> QED
  BY <1>1, <1>2

LEMMA StateIs ==
    ASSUME TimerInv, Running
    PROVE  Honest(State(node.runtime), {}) /\ node.runtime.ops \in Seq(TimerOps)
<1> DEFINE h == [beats EXCEPT !.extra = {}, !.ghosts = {}]
           st == State(node.runtime)
<1>1. /\ node.runtime.timers \in Timers /\ node.runtime.ops \in Seq(TimerOps) /\ beats \in Hist
      /\ Coherent(node.runtime.timers, beats, {})
  BY DEF TimerInv, Running, RuntimeOK
<1>2. h \in Hist /\ h.arms = beats.arms /\ h.extra = {} /\ h.phase = beats.phase
  BY <1>1 DEF Hist
<1>3. st = [timers |-> node.runtime.timers, errored |-> FALSE, hist |-> h]
  BY DEF State
<1> HIDE DEF h, st
<1>4. st \in States /\ st.timers = node.runtime.timers /\ st.hist = h
  BY <1>1, <1>2, <1>3 DEF States
<1>5. Coherent(st.timers, st.hist, {})
  BY <1>1, <1>2, <1>4 DEF Coherent
<1> QED
  BY <1>1, <1>4, <1>5 DEF Honest, st

LEMMA SettledTimers ==
    ASSUME TimerInv, measuring, Running, NEW st, Honest(st, {}), Settled(st),
           measuring' = measuring, clock' \in 1 .. MaxNow, panel' \in 0 .. MaxPanel
    PROVE  TimerInv'
<1> DEFINE rt == [node.runtime EXCEPT !.timers = st.timers, !.ops = <<>>]
<1>1. node' = [node EXCEPT !.errored = st.errored, !.runtime = rt] /\ beats' = st.hist
  BY DEF Settled
<1>2. NodeInv'
  BY SettledKeeps DEF TimerInv
<1>3. /\ IsNode(node) /\ IsRuntime(node.runtime) /\ node.runtime # NoRuntime
      /\ RuntimeOK(node.runtime)
  BY DEF TimerInv, NodeInv, Bound, Running
<1>4. st.timers \in Timers /\ st.errored \in BOOLEAN /\ st.hist \in Hist /\ Coherent(st.timers, st.hist, {})
  BY DEF Honest, States
<1>5. rt.source = node.runtime.source /\ rt.timers = st.timers /\ rt.ops = <<>>
  BY <1>3 DEF IsRuntime
<1>6. RuntimeOK(rt)
  <2>1. <<>> \in Seq(TimerOps)
    OBVIOUS
  <2> HIDE DEF rt
  <2> QED
    BY <1>3, <1>4, <1>5, <2>1 DEF RuntimeOK
<1> HIDE DEF rt
<1>7. /\ node'.source = node.source /\ node'.enabled = node.enabled
      /\ node'.errored = st.errored /\ node'.runtime = rt
  BY <1>1, <1>3 DEF IsNode
<1>8. beats'.extra = {} /\ beats' \in Hist /\ Coherent(node'.runtime.timers, beats', {})
  BY <1>1, <1>4, <1>5, <1>7 DEF Coherent
<1> QED
  BY <1>2, <1>4, <1>6, <1>7, <1>8 DEF TimerInv

\* A node whose runtime is new, or gone, or silent.
LEMMA RestartedTimers ==
    ASSUME TimerInv, NodeInv', beats' = FreshHist,
           node'.source \in Sources, node'.enabled \in BOOLEAN, node'.errored \in BOOLEAN,
           measuring' \in BOOLEAN, clock' = clock, panel' \in 0 .. MaxPanel,
           node'.runtime # NoRuntime =>
             /\ RuntimeOK(node'.runtime)
             /\ ~node'.errored => Coherent(node'.runtime.timers, FreshHist, {})
    PROVE  TimerInv'
  BY FreshIs DEF TimerInv, Running

LEMMA TimerInvInit == NodeInit => TimerInv
<1> SUFFICES ASSUME NodeInit PROVE TimerInv
  OBVIOUS
<1>1. node \in [source : Sources, enabled : BOOLEAN, errored : {FALSE}, runtime : {NoRuntime}]
  BY DEF NodeInit
<1>2. clock \in 1 .. MaxNow /\ panel \in 0 .. MaxPanel /\ measuring = FALSE /\ beats = FreshHist
  BY NodeAssumption DEF NodeInit
<1>3. NodeInv
  BY NodeInvInit
<1> QED
  BY <1>1, <1>2, <1>3, FreshIs DEF TimerInv, Running

LEMMA TimerInvNext == TimerInv /\ [NodeNext]_nodeVars => TimerInv'
<1> SUFFICES ASSUME TimerInv, [NodeNext]_nodeVars PROVE TimerInv'
  OBVIOUS
<1>0. /\ NodeInv' /\ IsNode(node) /\ Bound(node) /\ (~measuring => node.runtime = NoRuntime)
      /\ node.source \in Sources /\ node.enabled \in BOOLEAN /\ node.errored \in BOOLEAN
      /\ measuring \in BOOLEAN /\ clock \in 1 .. MaxNow /\ panel \in 0 .. MaxPanel
      /\ node.runtime # NoRuntime => RuntimeOK(node.runtime)
  BY NodeInvNext DEF TimerInv, NodeInv
<1>1. ASSUME NEW src \in Sources, NEW prog \in Programs, SetNodeSource(src, prog)
      PROVE  TimerInv'
  <2> DEFINE n == [node EXCEPT !.source = src]
  <2>1. /\ node' = Edited(src, prog) /\ beats' = FreshHist
        /\ measuring' = measuring /\ clock' = clock /\ panel' = panel
    BY <1>1 DEF SetNodeSource
  <2>2. /\ n.source = src /\ n.enabled = node.enabled /\ n.errored = node.errored
        /\ n.runtime = node.runtime /\ IsNode(n)
    BY <1>0 DEF IsNode
  <2> HIDE DEF n
  <2>3. CASE measuring /\ node.enabled
    <3>1. node' = Started(n, prog)
      BY <2>1, <2>3 DEF Edited, n
    <3>2. /\ node'.source \in Sources /\ node'.enabled \in BOOLEAN /\ node'.errored \in BOOLEAN
          /\ node'.runtime # NoRuntime => RuntimeOK(node'.runtime)
          /\ ~node'.errored => Coherent(node'.runtime.timers, FreshHist, {})
      BY <1>0, <2>2, <3>1, StartedRuns
    <3> QED
      BY <1>0, <2>1, <3>2, RestartedTimers
  <2>4. CASE ~(measuring /\ node.enabled)
    <3>1. node.runtime = NoRuntime
      BY <1>0, <2>4 DEF Bound
    <3>2. node' = n
      BY <2>1, <2>4, <3>1 DEF Edited, n
    <3> QED
      BY <1>0, <2>1, <2>2, <3>1, <3>2, RestartedTimers
  <2> QED
    BY <2>3, <2>4
<1>2. ASSUME NEW on \in BOOLEAN, NEW prog \in Programs, SetNodeEnabled(on, prog)
      PROVE  TimerInv'
  <2> DEFINE n == [node EXCEPT !.enabled = on]
             off == [n EXCEPT !.runtime = NoRuntime, !.errored = FALSE]
  <2>1. /\ node' = IF ~measuring THEN n ELSE IF on THEN Started(n, prog) ELSE off
        /\ beats' = FreshHist /\ measuring' = measuring /\ clock' = clock /\ panel' = panel
    BY <1>2 DEF SetNodeEnabled
  <2>2. /\ n.source = node.source /\ n.enabled = on /\ n.errored = node.errored
        /\ n.runtime = node.runtime /\ IsNode(n)
    BY <1>0 DEF IsNode
  <2> HIDE DEF n
  <2>3. off = [n EXCEPT !.runtime = NoRuntime, !.errored = FALSE]
    OBVIOUS
  <2> HIDE DEF off
  <2>4. off.runtime = NoRuntime /\ off.source = n.source /\ off.enabled = n.enabled /\ off.errored = FALSE
    BY <2>2, <2>3 DEF IsNode
  <2>5. CASE ~measuring
    <3>1. node' = n /\ n.runtime = NoRuntime
      BY <1>0, <2>1, <2>2, <2>5
    <3> QED
      BY <1>0, <2>1, <2>2, <3>1, RestartedTimers
  <2>6. CASE measuring /\ on
    <3>1. node' = Started(n, prog)
      BY <2>1, <2>6
    <3>2. /\ node'.source \in Sources /\ node'.enabled \in BOOLEAN /\ node'.errored \in BOOLEAN
          /\ node'.runtime # NoRuntime => RuntimeOK(node'.runtime)
          /\ ~node'.errored => Coherent(node'.runtime.timers, FreshHist, {})
      BY <1>0, <2>2, <3>1, StartedRuns
    <3> QED
      BY <1>0, <2>1, <3>2, RestartedTimers
  <2>7. CASE measuring /\ ~on
    <3>1. node' = off
      BY <2>1, <2>7
    <3> QED
      BY <1>0, <2>1, <2>2, <2>4, <3>1, RestartedTimers
  <2> QED
    BY <1>0, <2>5, <2>6, <2>7
<1>3. ASSUME NEW prog \in Programs, NEW replay \in BOOLEAN, StartRun(prog, replay)
      PROVE  TimerInv'
  <2>1. /\ node' = (IF node.enabled THEN Started(node, prog) ELSE node)
        /\ beats' = FreshHist /\ measuring' = TRUE /\ clock' = clock
        /\ panel' \in 0 .. MaxPanel
    BY <1>0, <1>3, NodeAssumption DEF StartRun
  <2>2. CASE node.enabled
    <3>1. node' = Started(node, prog)
      BY <2>1, <2>2
    <3>2. /\ node'.source \in Sources /\ node'.enabled \in BOOLEAN /\ node'.errored \in BOOLEAN
          /\ node'.runtime # NoRuntime => RuntimeOK(node'.runtime)
          /\ ~node'.errored => Coherent(node'.runtime.timers, FreshHist, {})
      BY <1>0, <3>1, StartedRuns
    <3> QED
      BY <1>0, <2>1, <3>2, RestartedTimers
  <2>3. CASE ~node.enabled
    <3>1. node' = node /\ node.runtime = NoRuntime
      BY <1>0, <2>1, <2>3 DEF Bound
    <3> QED
      BY <1>0, <2>1, <3>1, RestartedTimers
  <2> QED
    BY <2>2, <2>3
<1>4. CASE StopRun
  <2> DEFINE failed == IF node.runtime = NoRuntime THEN node.errored ELSE FALSE
  <2>1. /\ node' = [node EXCEPT !.runtime = NoRuntime, !.errored = failed]
        /\ beats' = FreshHist /\ measuring' = FALSE /\ clock' = clock /\ panel' = 0
    BY <1>4 DEF StopRun
  <2>2. failed \in BOOLEAN
    BY <1>0
  <2> HIDE DEF failed
  <2>3. /\ node'.runtime = NoRuntime /\ node'.source = node.source
        /\ node'.enabled = node.enabled /\ node'.errored = failed
    BY <1>0, <2>1 DEF IsNode
  <2>4. panel' \in 0 .. MaxPanel
    BY <2>1, NodeAssumption
  <2> QED
    BY <1>0, <2>1, <2>2, <2>3, <2>4, RestartedTimers
<1>5. CASE PanelAction
  <2>1. panel' \in 0 .. MaxPanel
    BY <1>0, <1>5, NodeAssumption DEF PanelAction
  <2>2. UNCHANGED <<node, measuring, clock, beats>>
    BY <1>5 DEF PanelAction
  <2> QED
    BY <1>0, <2>1, <2>2 DEF TimerInv, Running
<1>6. ASSUME NEW prog \in Programs, MessageArrives(prog)
      PROVE  TimerInv'
  <2> DEFINE st == ApplyOps(State(node.runtime), node.runtime.ops, clock, NoSlot)
  <2>1. /\ measuring /\ Running /\ Settled(Delivered(st, prog, clock))
        /\ measuring' = measuring /\ clock' = clock /\ panel' = panel
    BY <1>6 DEF MessageArrives
  <2>2. clock \in Nat \ {0}
    BY <1>0
  <2>3. Honest(st, {})
    BY <2>1, <2>2, StateIs, OpsKeep
  <2> HIDE DEF st
  <2>4. Honest(Delivered(st, prog, clock), {})
    BY <2>2, <2>3, DeliveredKeeps
  <2> QED
    BY <1>0, <2>1, <2>4, SettledTimers
<1>7. ASSUME NEW t \in clock .. MaxNow, NEW choice \in [Slots -> Programs], NEW prog \in Programs,
             Step(t, choice, prog)
      PROVE  TimerInv'
  <2>1. measuring /\ measuring' = measuring /\ clock' = t /\ panel' = 0
    BY <1>7 DEF Step
  <2>2. clock' \in 1 .. MaxNow /\ panel' \in 0 .. MaxPanel /\ t \in Nat \ {0}
    BY <1>0, <2>1, NodeAssumption
  <2>3. CASE ~Running
    <3>1. node' = node /\ beats' = beats
      BY <1>7, <2>3 DEF Step
    <3> QED
      BY <1>0, <2>1, <2>2, <2>3, <3>1 DEF TimerInv, Running
  <2>4. CASE Running
    <3> DEFINE st == ApplyOps(State(node.runtime), node.runtime.ops, t, NoSlot)
               due == DueSlots(st.timers, t)
               ran == RunTimers(PassedOver(st, t), due, choice, t)
               end == IF panel = 0 THEN ran ELSE Delivered(ran, prog, t)
    <3>1. Settled(end)
      BY <1>7, <2>4 DEF Step
    <3>2. Honest(st, {})
      BY <2>2, <2>4, StateIs, OpsKeep
    <3> HIDE DEF st
    <3>3. Honest(PassedOver(st, t), due \cap Oneshots) /\ due \in SUBSET Slots
      BY <2>2, <3>2, PassedOverKeeps DEF DueSlots
    <3> HIDE DEF due
    <3>4. Honest(ran, {})
      BY <2>2, <3>3, RunTimersKeeps
    <3> HIDE DEF ran
    <3>5. Honest(end, {})
      BY <2>2, <3>4, DeliveredKeeps
    <3> HIDE DEF end
    <3> QED
      BY <2>1, <2>2, <2>4, <3>1, <3>5, SettledTimers
  <2> QED
    BY <2>3, <2>4
<1>8. CASE UNCHANGED nodeVars
  BY <1>0, <1>8 DEF nodeVars, TimerInv, Running
<1> QED
  BY <1>1, <1>2, <1>3, <1>4, <1>5, <1>6, <1>7, <1>8 DEF NodeNext

\* A product is a multiple.
LEMMA Multiples ==
    ASSUME NEW q \in Nat, NEW p \in Nat \ {0}
    PROVE  (q * p) % p = 0
<1> DEFINE a == q * p
           d == a \div p
           m == a % p
<1>1. a \in Nat
  OBVIOUS
<1>2. d \in Int /\ m \in 0 .. (p - 1) /\ a = p * d + m
  <2> HIDE DEF a
  <2> QED
    BY <1>1
<1> HIDE DEF d, m
<1>3. m = p * (q - d)
  BY <1>2
<1>4. q - d \in Int /\ m < p /\ m >= 0 /\ m \in Int
  BY <1>2
<1>5. q - d <= 0
  <2> SUFFICES ASSUME q - d >= 1 PROVE FALSE
    BY <1>4
  <2>1. p * (q - d) >= p
    BY <1>4
  <2> QED
    BY <1>3, <1>4, <2>1
<1>6. q - d >= 0
  <2> SUFFICES ASSUME q - d <= -1 PROVE FALSE
    BY <1>4
  <2>1. p * (q - d) <= -p
    BY <1>4
  <2> QED
    BY <1>3, <1>4, <2>1
<1>7. q - d = 0
  BY <1>4, <1>5, <1>6
<1>8. m = 0
  BY <1>3, <1>7
<1> QED
  BY <1>8 DEF m

\* A periodic timer keeps to the grid of its first beat and a one-shot fires
\* once for each time it was armed, whatever the handlers arm, cancel and stop
\* between two slots of a pass, however late the steps come and in whichever
\* order the timers were declared (node.rs run_timers, apply_timer_op).
THEOREM NodeTimersHonest == NodeSpec => []TimersHonest
<1>1. ASSUME TimerInv PROVE TimersHonest
  <2>1. NodeTypeOK
    BY <1>1 DEF NodeTypeOK, TimerInv, NodeInv, RuntimeOK, Timers, Timer
  <2>2. FiresOncePerArm
    BY <1>1 DEF FiresOncePerArm, TimerInv
  <2>3. BeatKept
    <3> DEFINE slot == node.runtime.timers[Periodic]
    <3> SUFFICES ASSUME Running, slot.due # 0, slot.period # 0
                 PROVE  slot.due >= beats.phase /\ (slot.due - beats.phase) % slot.period = 0
      BY DEF BeatKept
    <3>1. /\ OnGrid(slot, beats.phase) /\ slot \in Timer /\ beats.phase \in Nat
      BY <1>1 DEF TimerInv, Coherent, RuntimeOK, Running, Timers, Hist, Slots
    <3> HIDE DEF slot
    <3>2. PICK q \in Nat : slot.due = beats.phase + q * slot.period
      BY <3>1 DEF OnGrid
    <3>3. slot.period \in Nat \ {0} /\ q * slot.period \in Nat
      BY <3>1 DEF Timer
    <3>4. slot.due - beats.phase = q * slot.period /\ slot.due >= beats.phase
      BY <3>1, <3>2, <3>3
    <3> QED
      BY <3>3, <3>4, Multiples
  <2> QED
    BY <2>1, <2>2, <2>3 DEF TimersHonest
<1> QED
  BY <1>1, TimerInvInit, TimerInvNext, PTL DEF NodeSpec

-----------------------------------------------------------------------------
(* The debugger                                                             *)

\* A pause the view may claim is one of an enabled debugger whose thread is
\* parked at the line shown: every request that ends it takes the claim back.
Claimed ==
    ctl.paused /\ ctl.view_ready => ctl.enabled /\ vm.pc = "parked" /\ vm.line = ctl.line

\* A hit that has not reached its wait claims nothing.
DebugInv == DebugTypeOK /\ Claimed

LEMMA DebugInvInit == DebugInit => DebugInv
  BY DebugAssumption DEF DebugInit, DebugInv, DebugTypeOK, Claimed

Controls ==
    [enabled : BOOLEAN, node : Nodes \cup {NoNode}, breakpoints : SUBSET Lines,
     step_from : Lines \cup {NoLine}, pause_requested : BOOLEAN,
     paused : BOOLEAN, view_ready : BOOLEAN, skip_line : Lines \cup {NoLine},
     line : Lines \cup {NoLine}, idle : 0 .. (Patience + 1)]

Claims(c) == c.paused /\ c.view_ready

\* A request leaves the thread where it is, and either withdraws the claim or
\* keeps it with the line and the arming it was made under.
LEMMA RequestKeeps ==
    ASSUME DebugInv, NEW c \in Controls, NEW t \in Nodes \cup {NoNode}, Request(c, t),
           Claims(c) => Claims(ctl) /\ c.enabled = ctl.enabled /\ c.line = ctl.line
    PROVE  DebugInv'
<1>1. ctl' = [c EXCEPT !.idle = 0] /\ target' = t /\ vm' = vm
  BY DEF Request
<1>2. ctl' \in Controls
  BY <1>1, DebugAssumption DEF Controls
<1>3. /\ ctl'.enabled = c.enabled /\ ctl'.paused = c.paused
      /\ ctl'.view_ready = c.view_ready /\ ctl'.line = c.line
  BY <1>1 DEF Controls
<1>4. DebugTypeOK'
  BY <1>1, <1>2 DEF DebugInv, DebugTypeOK, Controls
<1>5. Claimed'
  BY <1>1, <1>3 DEF DebugInv, Claimed, Claims
<1> QED
  BY <1>4, <1>5 DEF DebugInv

LEMMA DebugInvNext == DebugInv /\ [DebugNext]_debugVars => DebugInv'
<1> SUFFICES ASSUME DebugInv, [DebugNext]_debugVars PROVE DebugInv'
  OBVIOUS
<1>1. /\ ctl \in Controls /\ target \in Nodes \cup {NoNode}
      /\ vm \in [pc : {"run", "check", "hit", "parked"}, node : Nodes \cup {NoNode},
                 line : Lines \cup {NoLine}, entry : BOOLEAN]
      /\ Claimed /\ Patience \in Nat
  BY DebugAssumption DEF DebugInv, DebugTypeOK, Controls
<1>2. ASSUME NEW n \in Nodes, NEW l \in Lines, NEW entry \in BOOLEAN, Fetch(n, l, entry)
      PROVE  DebugInv'
  <2>1. /\ vm' \in [pc : {"run", "check", "hit", "parked"}, node : Nodes \cup {NoNode},
                    line : Lines \cup {NoLine}, entry : BOOLEAN]
        /\ target' = target /\ ctl' = ctl /\ vm.pc = "run"
    BY <1>2 DEF Fetch
  <2> QED
    BY <1>1, <2>1 DEF DebugInv, DebugTypeOK, Claimed
<1>3. ASSUME NEW l \in Lines, NextInstruction(l) PROVE DebugInv'
  <2>1. vm.node \in Nodes /\ Fetch(vm.node, l, l # vm.line)
    BY <1>1, <1>3 DEF NextInstruction
  <2> QED
    BY <1>2, <2>1
<1>4. CASE ShouldPause
  <2>1. /\ vm.pc = "check" /\ target' = target
        /\ ctl' = IF ~ctl.enabled THEN ctl
                  ELSE IF Hits(vm.line) THEN Hit(vm.line) ELSE Missed(vm.line)
        /\ vm' = [vm EXCEPT !.pc = IF ctl.enabled /\ Hits(vm.line) THEN "hit" ELSE "run"]
    BY <1>4 DEF ShouldPause
  <2>2. ~Claims(ctl)
    BY <1>1, <2>1 DEF Claimed, Claims
  <2>3. Hit(vm.line) \in Controls /\ ~Claims(Hit(vm.line))
    <3> DEFINE x == IF Stepped(vm.line) THEN NoLine ELSE ctl.step_from
               p == Stepped(vm.line) /\ ctl.pause_requested
               l == vm.line
    <3>1. Hit(l) = [ctl EXCEPT !.step_from = x, !.pause_requested = p,
                      !.paused = TRUE, !.view_ready = FALSE, !.skip_line = l,
                      !.line = l, !.idle = 0]
      BY DEF Hit
    <3>2. /\ x \in Lines \cup {NoLine} /\ p \in BOOLEAN /\ l \in Lines \cup {NoLine}
          /\ 0 \in 0 .. (Patience + 1)
      BY <1>1 DEF Stepped, Controls
    <3> HIDE DEF x, p, l
    <3>3. Hit(l) \in Controls /\ ~Claims(Hit(l))
      <4> DEFINE c == [ctl EXCEPT !.step_from = x, !.pause_requested = p]
      <4>1. c \in Controls
        BY <1>1, <3>2 DEF Controls
      <4>2. Hit(l) = [c EXCEPT !.paused = TRUE, !.view_ready = FALSE, !.skip_line = l,
                        !.line = l, !.idle = 0]
        BY <1>1, <3>1 DEF Controls
      <4> HIDE DEF c
      <4> QED
        BY <3>2, <4>1, <4>2 DEF Controls, Claims
    <3> QED
      BY <3>3 DEF l
  <2>4. Missed(vm.line) \in Controls /\ ~Claims(Missed(vm.line))
    BY <1>1, <2>2 DEF Missed, Controls, Claims
  <2>5. ctl' \in Controls /\ ~Claims(ctl')
    BY <1>1, <2>1, <2>2, <2>3, <2>4
  <2>6. vm' \in [pc : {"run", "check", "hit", "parked"}, node : Nodes \cup {NoNode},
                line : Lines \cup {NoLine}, entry : BOOLEAN]
    BY <1>1, <2>1
  <2> QED
    BY <1>1, <2>1, <2>5, <2>6 DEF DebugInv, DebugTypeOK, Controls, Claimed, Claims
<1>5. CASE WaitPaused
  <2>1. vm.pc = "hit" /\ target' = target
    BY <1>5 DEF WaitPaused
  <2>2. ~Claims(ctl)
    BY <1>1, <2>1 DEF Claimed, Claims
  <2>3. CASE ctl.enabled /\ ctl.paused
    <3>1. /\ ctl' = [ctl EXCEPT !.view_ready = TRUE, !.line = vm.line, !.idle = 0]
          /\ vm' = [vm EXCEPT !.pc = "parked"]
      BY <1>5, <2>3 DEF WaitPaused
    <3>2. ctl' \in Controls /\ ctl'.enabled /\ ctl'.line = vm.line
      <4> DEFINE l == vm.line
      <4>1. l \in Lines \cup {NoLine} /\ 0 \in 0 .. (Patience + 1)
        BY <1>1
      <4>2. ctl' = [ctl EXCEPT !.view_ready = TRUE, !.line = l, !.idle = 0]
        BY <3>1
      <4> HIDE DEF l
      <4>3. ctl' \in Controls /\ ctl'.enabled /\ ctl'.line = l
        BY <1>1, <2>3, <4>1, <4>2 DEF Controls
      <4> QED
        BY <4>3 DEF l
    <3>3. /\ vm' \in [pc : {"run", "check", "hit", "parked"}, node : Nodes \cup {NoNode},
                      line : Lines \cup {NoLine}, entry : BOOLEAN]
          /\ vm'.pc = "parked" /\ vm'.line = vm.line
      BY <1>1, <3>1
    <3> QED
      BY <1>1, <2>1, <3>2, <3>3 DEF DebugInv, DebugTypeOK, Controls, Claimed
  <2>4. CASE ~(ctl.enabled /\ ctl.paused)
    <3>1. ctl' = ctl /\ vm' = [vm EXCEPT !.pc = "run"]
      BY <1>5, <2>4 DEF WaitPaused
    <3>2. vm' \in [pc : {"run", "check", "hit", "parked"}, node : Nodes \cup {NoNode},
                  line : Lines \cup {NoLine}, entry : BOOLEAN]
      BY <1>1, <3>1
    <3> QED
      BY <1>1, <2>1, <2>2, <3>1, <3>2 DEF DebugInv, DebugTypeOK, Controls, Claimed, Claims
  <2> QED
    BY <2>3, <2>4
<1>6. CASE Resumed
  <2>1. ~(ctl.enabled /\ ctl.paused) /\ ctl' = ctl /\ target' = target
        /\ vm' = [vm EXCEPT !.pc = "run"]
    BY <1>6 DEF Resumed, Held
  <2>2. vm' \in [pc : {"run", "check", "hit", "parked"}, node : Nodes \cup {NoNode},
                line : Lines \cup {NoLine}, entry : BOOLEAN]
    BY <1>1, <2>1
  <2> QED
    BY <1>1, <2>1, <2>2 DEF DebugInv, DebugTypeOK, Controls, Claimed
<1>7. CASE WaitTimeout
  <2>1. CASE TimedOut
    <3>1. /\ ctl' = [ctl EXCEPT !.enabled = FALSE, !.paused = FALSE, !.view_ready = FALSE]
          /\ target' = NoNode /\ vm' = [vm EXCEPT !.pc = "run"]
      BY <1>7, <2>1 DEF WaitTimeout
    <3>2. ctl' \in Controls /\ ~Claims(ctl')
      BY <1>1, <3>1 DEF Controls, Claims
    <3>3. vm' \in [pc : {"run", "check", "hit", "parked"}, node : Nodes \cup {NoNode},
                  line : Lines \cup {NoLine}, entry : BOOLEAN]
      BY <1>1, <3>1
    <3> QED
      BY <3>1, <3>2, <3>3 DEF DebugInv, DebugTypeOK, Controls, Claimed, Claims
  <2>2. CASE ~TimedOut
    <3>1. /\ ctl' = [ctl EXCEPT !.idle = IF @ <= Patience THEN @ + 1 ELSE @]
          /\ target' = target /\ vm' = vm
      BY <1>7, <2>2 DEF WaitTimeout
    <3>2. /\ ctl' \in Controls /\ ctl'.enabled = ctl.enabled /\ ctl'.paused = ctl.paused
          /\ ctl'.view_ready = ctl.view_ready /\ ctl'.line = ctl.line
      BY <1>1, <3>1 DEF Controls
    <3> QED
      BY <1>1, <3>1, <3>2 DEF DebugInv, DebugTypeOK, Controls, Claimed
  <2> QED
    BY <2>1, <2>2
<1>8. ASSUME NEW n \in Nodes, NEW lines \in SUBSET Lines, Arm(n, lines) PROVE DebugInv'
  <2> DEFINE c == [ctl EXCEPT !.enabled = TRUE, !.node = n, !.breakpoints = lines,
                      !.step_from = NoLine, !.pause_requested = FALSE,
                      !.paused = FALSE, !.view_ready = FALSE, !.skip_line = NoLine,
                      !.line = NoLine]
  <2>1. c \in Controls /\ ~Claims(c)
    BY <1>1 DEF Controls, Claims
  <2>2. Request(c, n)
    BY <1>8 DEF Arm
  <2> HIDE DEF c
  <2> QED
    BY <2>1, <2>2, RequestKeeps
<1>9. ASSUME NEW lines \in SUBSET Lines, SetBreakpoints(lines) PROVE DebugInv'
  <2> DEFINE c == [ctl EXCEPT !.breakpoints = lines]
  <2>1. c \in Controls /\ (Claims(c) => Claims(ctl) /\ c.enabled = ctl.enabled /\ c.line = ctl.line)
    BY <1>1 DEF Controls, Claims
  <2>2. Request(c, target)
    BY <1>9 DEF SetBreakpoints
  <2> HIDE DEF c
  <2> QED
    BY <1>1, <2>1, <2>2, RequestKeeps
<1>10. CASE Pause
  <2> DEFINE c == [ctl EXCEPT !.pause_requested = @ \/ ctl.enabled]
  <2>1. c \in Controls /\ (Claims(c) => Claims(ctl) /\ c.enabled = ctl.enabled /\ c.line = ctl.line)
    BY <1>1 DEF Controls, Claims
  <2>2. Request(c, target)
    BY <1>10 DEF Pause
  <2> HIDE DEF c
  <2> QED
    BY <1>1, <2>1, <2>2, RequestKeeps
<1>11. ASSUME NEW step \in BOOLEAN, Resume(step) PROVE DebugInv'
  <2> DEFINE c == [ctl EXCEPT !.paused = FALSE, !.view_ready = FALSE, !.pause_requested = FALSE,
                      !.step_from = IF step THEN ctl.line ELSE NoLine]
  <2>1. c \in Controls /\ ~Claims(c)
    BY <1>1 DEF Controls, Claims
  <2>2. Request(c, target)
    BY <1>11 DEF Resume
  <2> HIDE DEF c
  <2> QED
    BY <1>1, <2>1, <2>2, RequestKeeps
<1>12. CASE Stop
  <2> DEFINE c == [ctl EXCEPT !.enabled = FALSE, !.paused = FALSE, !.view_ready = FALSE,
                      !.pause_requested = FALSE, !.step_from = NoLine,
                      !.skip_line = NoLine]
  <2>1. c \in Controls /\ ~Claims(c)
    BY <1>1 DEF Controls, Claims
  <2>2. Request(c, NoNode)
    BY <1>12 DEF Stop
  <2> HIDE DEF c
  <2> QED
    BY <2>1, <2>2, RequestKeeps
<1>13. CASE View
  BY <1>1, <1>13, RequestKeeps DEF View, Claims
<1>14. CASE UNCHANGED debugVars
  BY <1>14 DEF debugVars, DebugInv, DebugTypeOK, Claimed
<1> QED
  BY <1>2, <1>3, <1>4, <1>5, <1>6, <1>7, <1>8, <1>9, <1>10, <1>11, <1>12, <1>13, <1>14
  DEF DebugNext, CoreThread, Browser, StartHandler

\* The view claims a pause only of a thread that is parked, at the line it is
\* parked at, whatever requests came between the hit and the wait, and whatever
\* node was armed meanwhile (debug.rs view_ready).
THEOREM DebugPauseIsReal == DebugSpec => []PauseIsReal
<1>1. DebugInv => PauseIsReal
  BY DEF DebugInv, Claimed, PauseIsReal
<1> QED
  BY <1>1, DebugInvInit, DebugInvNext, PTL DEF DebugSpec

=============================================================================
