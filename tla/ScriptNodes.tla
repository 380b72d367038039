---------------------------- MODULE ScriptNodes ----------------------------
(* One script node of src/src/node.rs: compiled and started with the         *)
(* measurement, restarted by an edit, silenced by a failure, and its timers, *)
(* which run on the step's clock and are changed by operations the handlers  *)
(* queue.  What a handler queues is any program of Programs.                 *)
EXTENDS Naturals, Sequences

CONSTANTS Sources,    \* the sources an editor may hold
          Compiles,   \* those that compile
          Oneshots,   \* the named timers every source declares
          Period,     \* the period of its periodic timer
          SlotOrder,  \* the timers in the order the sources declare them
          Programs,   \* what a handler may queue: sequences of operations, or Fails
          Fails,
          MaxNow, MaxPanel  \* bounds

VARIABLES node, measuring, clock, panel, beats
nodeVars == <<node, measuring, clock, panel, beats>>

NoRuntime == [source |-> "none"]
Periodic  == "every"
Slots     == Oneshots \cup {Periodic}

(* What a handler may ask of the timers (script/vm.rs TimerOp).              *)
TimerOps ==
  [op : {"set_timer"}, name : Oneshots, ms : Nat] \cup [op : {"cancel_timer"}, name : Oneshots]
  \cup [op : {"set_period"}, ms : Nat] \cup [op : {"stop_timer"}]

NoSlot == "none"

ASSUME NodeAssumption ==
  /\ Periodic \notin Oneshots /\ NoSlot \notin Oneshots /\ Period \in Nat
  /\ \A prog \in Programs \ {Fails} : prog \in Seq(TimerOps)
  /\ SlotOrder \in Seq(Slots)
  /\ \A s \in Slots : \E i \in DOMAIN SlotOrder : SlotOrder[i] = s
  /\ \A i, j \in DOMAIN SlotOrder : SlotOrder[i] = SlotOrder[j] => i = j
  /\ MaxNow \in Nat \ {0} /\ MaxPanel \in Nat

(* A slot: due = 0 is "not armed yet".  One-shots start disarmed.            *)
FreshTimers ==
  [s \in Slots |-> [period |-> IF s = Periodic THEN Period ELSE 0,
                    due |-> 0, stopped |-> s # Periodic]]

(* History: how many arms of a one-shot are unspent, which were cancelled     *)
(* last, and what the last action fired without an arm or after a cancel.    *)
FreshHist == [arms |-> [s \in Oneshots |-> 0], cancelled |-> {},
              extra |-> {}, ghosts |-> {}, phase |-> 0]

-----------------------------------------------------------------------------
(* apply_timer_op on [timers, hist]; "slot" is the running handler's own     *)
(* slot, or NoSlot outside the timer loop.                                   *)
Timed(st, s, slot) == [st EXCEPT !.timers = [@ EXCEPT ![s] = slot]]

Owed(h, s) ==
  LET n == h.arms[s]
  IN [h EXCEPT !.arms = [@ EXCEPT ![s] = IF n < 2 THEN n + 1 ELSE n], !.cancelled = @ \ {s}]

Armed(st, s, ms, t) ==
  [Timed(st, s, [period |-> ms, due |-> t + ms, stopped |-> FALSE]) EXCEPT
     !.hist = Owed(st.hist, s)]

Cancelled(st, s) ==
  [Timed(st, s, [st.timers[s] EXCEPT !.stopped = TRUE, !.due = 0]) EXCEPT
     !.hist = [st.hist EXCEPT !.cancelled = @ \cup {s}]]

Rebeaten(st, ms, t) ==
  [Timed(st, Periodic, [st.timers[Periodic] EXCEPT !.period = ms, !.due = t + ms]) EXCEPT
     !.hist = [st.hist EXCEPT !.phase = t + ms]]

ApplyOp(st, op, t, slot) ==
  CASE op.op = "set_timer"    -> Armed(st, op.name, op.ms, t)
    [] op.op = "cancel_timer" -> Cancelled(st, op.name)
    [] op.op = "set_period"   -> IF slot = NoSlot THEN st
                                 ELSE IF slot = Periodic THEN Rebeaten(st, op.ms, t)
                                 ELSE Armed(st, slot, op.ms, t)
    [] op.op = "stop_timer"   -> IF slot = NoSlot THEN st
                                 ELSE Timed(st, slot, [st.timers[slot] EXCEPT !.stopped = TRUE])

ApplyOps(st, ops, t, slot) ==
  LET after[k \in 0..Len(ops)] ==
        IF k = 0 THEN st ELSE ApplyOp(after[k - 1], ops[k], t, slot)
  IN after[Len(ops)]

(* The next beat after a periodic timer fired: the first on its own grid     *)
(* past the clock.                                                           *)
NextBeatDrifting(slot, t) == t + slot.period

NextBeat(slot, t) ==
  IF slot.period = 0 THEN t
  ELSE slot.due + slot.period * (((t - slot.due) \div slot.period) + 1)

SpentStillArmed(slot, t) == [slot EXCEPT !.due = t + slot.period]

Spent(slot, t) == [slot EXCEPT !.stopped = TRUE, !.due = 0]

IsDue(slot, t) == ~slot.stopped /\ slot.due # 0 /\ slot.due <= t

(* The first pass of run_timers: arm what was never armed, take the due ones *)
(* out of their slots before any handler runs.                               *)
Advanced(s, slot, t) ==
  IF slot.stopped THEN slot
  ELSE IF slot.due = 0 THEN [slot EXCEPT !.due = t + slot.period]
  ELSE IF slot.due > t THEN slot
  ELSE IF s = Periodic THEN [slot EXCEPT !.due = NextBeat(slot, t)]
  ELSE Spent(slot, t)

DueSlots(timers, t) == {s \in Slots : IsDue(timers[s], t)}

(* One handler of the second pass: "st" carries timers, history, errored.    *)
Unspent(h, s) ==
  LET n == h.arms[s]
  IN [h EXCEPT !.arms = [@ EXCEPT ![s] = IF n > 0 THEN n - 1 ELSE 0],
               !.extra = IF n > 0 THEN @ ELSE @ \cup {s},
               !.ghosts = @ \cup (h.cancelled \cap {s})]

Fired(st, s, prog, t) ==
  IF st.errored THEN st
  ELSE IF prog = Fails THEN [st EXCEPT !.errored = TRUE]
  ELSE ApplyOps(IF s = Periodic THEN st ELSE [st EXCEPT !.hist = Unspent(@, s)], prog, t, s)

(* The slots fire in slot order.                                             *)
RunTimers(st, due, choice, t) ==
  LET after[k \in 0..Len(SlotOrder)] ==
        IF k = 0 THEN st
        ELSE IF SlotOrder[k] \notin due THEN after[k - 1]
        ELSE Fired(after[k - 1], SlotOrder[k], choice[SlotOrder[k]], t)
  IN after[Len(SlotOrder)]

-----------------------------------------------------------------------------
Running == node.runtime # NoRuntime /\ node.enabled /\ ~node.errored

(* A start compiles and runs the main chunk and "on start"; a failure leaves *)
(* the runtime as it was and marks the node.  Operations "on start" queued   *)
(* wait for the first tick or arrival.                                       *)
Started(n, prog) ==
  IF n.source \notin Compiles \/ prog = Fails
  THEN [n EXCEPT !.errored = TRUE]
  ELSE [n EXCEPT !.errored = FALSE,
                 !.runtime = [source |-> n.source, timers |-> FreshTimers, ops |-> prog]]

NodeInit ==
  /\ node \in [source : Sources, enabled : BOOLEAN, errored : {FALSE}, runtime : {NoRuntime}]
  /\ measuring = FALSE /\ clock = 1 /\ panel = 0 /\ beats = FreshHist

SetSourceKept(src, prog) ==
  LET n == [node EXCEPT !.source = src]
  IN IF measuring /\ node.enabled /\ ~Running THEN Started(n, prog) ELSE n

Edited(src, prog) ==
  LET n == [node EXCEPT !.source = src]
  IN IF measuring /\ node.enabled THEN Started(n, prog)
     ELSE IF src \notin Compiles /\ node.runtime # NoRuntime
     THEN [n EXCEPT !.runtime = NoRuntime, !.errored = FALSE] ELSE n

SetNodeSource(src, prog) ==
  /\ node' = Edited(src, prog)
  /\ beats' = FreshHist
  /\ UNCHANGED <<measuring, clock, panel>>

SetNodeEnabled(on, prog) ==
  /\ node' = LET n == [node EXCEPT !.enabled = on]
             IN IF ~measuring THEN n
                ELSE IF on THEN Started(n, prog)
                ELSE [n EXCEPT !.runtime = NoRuntime, !.errored = FALSE]
  /\ beats' = FreshHist
  /\ UNCHANGED <<measuring, clock, panel>>

(* nodes_start on StartVirtual clears the waiting panel actions; on a replay *)
(* start it does not.                                                        *)
StartRun(prog, replay) ==
  /\ measuring' = TRUE
  /\ node' = IF node.enabled THEN Started(node, prog) ELSE node
  /\ panel' = IF replay THEN panel ELSE 0
  /\ beats' = FreshHist
  /\ UNCHANGED clock

StopRun ==
  /\ measuring' = FALSE
  /\ node' = [node EXCEPT !.runtime = NoRuntime, !.errored = IF node.runtime = NoRuntime THEN @ ELSE FALSE]
  /\ panel' = 0
  /\ beats' = FreshHist
  /\ UNCHANGED clock

PanelAction ==
  /\ measuring
  /\ panel' = IF panel < MaxPanel THEN panel + 1 ELSE panel
  /\ UNCHANGED <<node, measuring, clock, beats>>

(* A handler outside the timer loop: a frame applies what "on start" left    *)
(* first, then the handler's own operations.                                 *)
Delivered(st, prog, t) ==
  IF st.errored THEN st
  ELSE IF prog = Fails THEN [st EXCEPT !.errored = TRUE]
  ELSE ApplyOps(st, prog, t, NoSlot)

State(rt) == [timers |-> rt.timers, errored |-> FALSE,
              hist |-> [beats EXCEPT !.extra = {}, !.ghosts = {}]]

Settled(st) ==
  /\ node' = [node EXCEPT !.errored = st.errored,
                          !.runtime = [@ EXCEPT !.timers = st.timers, !.ops = <<>>]]
  /\ beats' = st.hist

MessageArrives(prog) ==
  /\ measuring /\ Running
  /\ Settled(Delivered(ApplyOps(State(node.runtime), node.runtime.ops, clock, NoSlot), prog, clock))
  /\ UNCHANGED <<measuring, clock, panel>>

(* A step: leftover operations, the due timers, then the panel actions.      *)
PassedOver(st, t) ==
  LET timers == [s \in Slots |-> Advanced(s, st.timers[s], t)]
      phase == IF st.timers[Periodic].due = 0 THEN timers[Periodic].due ELSE st.hist.phase
  IN [st EXCEPT !.timers = timers, !.hist = [st.hist EXCEPT !.phase = phase]]

Step(t, choice, prog) ==
  /\ measuring /\ t >= clock /\ clock' = t
  /\ IF ~Running THEN UNCHANGED <<node, beats>>
     ELSE LET st == ApplyOps(State(node.runtime), node.runtime.ops, t, NoSlot)
              ran == RunTimers(PassedOver(st, t), DueSlots(st.timers, t), choice, t)
          IN Settled(IF panel = 0 THEN ran ELSE Delivered(ran, prog, t))
  /\ panel' = 0
  /\ UNCHANGED measuring

NodeNext ==
  \/ \E src \in Sources, prog \in Programs : SetNodeSource(src, prog)
  \/ \E on \in BOOLEAN, prog \in Programs : SetNodeEnabled(on, prog)
  \/ \E prog \in Programs, replay \in BOOLEAN : StartRun(prog, replay)
  \/ StopRun
  \/ PanelAction
  \/ \E prog \in Programs : MessageArrives(prog)
  \/ \E t \in clock..MaxNow, choice \in [Slots -> Programs], prog \in Programs :
       /\ panel = 0 => prog = <<>>
       /\ \A s \in Slots : choice[s] # <<>> =>
            Running /\ s \in DueSlots(node.runtime.timers, t)
       /\ Step(t, choice, prog)

NodeSpec == NodeInit /\ [][NodeNext]_nodeVars
-----------------------------------------------------------------------------
(* The state keeps its shape.                                                *)
NodeTypeOK ==
  /\ node.source \in Sources /\ node.enabled \in BOOLEAN /\ node.errored \in BOOLEAN
  /\ measuring \in BOOLEAN /\ clock \in 1..MaxNow /\ panel \in 0..MaxPanel
  /\ node.runtime # NoRuntime =>
       /\ measuring /\ node.runtime.source \in Sources
       /\ \A s \in Slots : node.runtime.timers[s].stopped \in BOOLEAN

(* A node that runs, runs what its editor shows: whatever order of edits,    *)
(* toggles, starts, failures and stops led here (node.rs set_source,         *)
(* set_enabled, start_with, stop_with).                                      *)
RunsItsSource == Running => node.runtime.source = node.source

(* A periodic timer stays on the grid of its first beat however late the     *)
(* steps come, until set_period starts a new one (node.rs run_timers: "one   *)
(* late wake must not shift every beat after it").                           *)
BeatKept ==
  Running =>
    LET slot == node.runtime.timers[Periodic]
    IN (slot.due # 0 /\ slot.period # 0) =>
         /\ slot.due >= beats.phase
         /\ (slot.due - beats.phase) % slot.period = 0

(* A one-shot fires at most once for each time it was armed.                 *)
FiresOncePerArm == beats.extra = {}

(* The node keeps its shape, a periodic timer its beat, and a one-shot fires *)
(* once per arming.                                                          *)
TimersHonest == NodeTypeOK /\ BeatKept /\ FiresOncePerArm

(* A cancelled one-shot stays quiet (docs/script_language.md 352).           *)
CancelHolds == beats.ghosts = {}
=============================================================================
