---------------------------- MODULE ReplayControl ----------------------------
(***************************************************************************)
(* The core thread and its clocks: spawn_lane (src/src/core_loop.rs), the  *)
(* run-control commands of BusCore::handle and the clock half of           *)
(* BusCore::step (src/src/bus.rs), over the playhead of module Playhead.   *)
(*                                                                         *)
(* A lap of the thread is: wait for a command or a deadline, apply the     *)
(* queued commands one by one, re-anchor the wall clock if one of them     *)
(* restarted the run, then either step the bus, or note when the pause     *)
(* began.  The frontend may post between any two of those, and the wall    *)
(* clock runs on: a command may block (start_replay opens and scans the    *)
(* log), so time passes inside a lap too.                                  *)
(***************************************************************************)
EXTENDS Playhead, FiniteSets

CONSTANTS
    Speeds,        \* playback speeds a user picks, in Scale units, or Inf
    Targets,       \* absolute log times offered to Play-to
    Deltas,        \* log spans offered to Step
    EarlyStep,     \* may a Step be queued behind the StartReplay it belongs to?
    SetpointModes, \* kinds of run during which a panel writes a CAN setpoint
    MaxLate,       \* ticks between two wakes of the thread: recv_timeout returns
                   \* by IDLE_SLEEP_US, and a command may block for a while
    MaxClock,      \* bound: wall time of the thread
    PostUntil,     \* bound: no command is posted after this time
    MaxCommands,   \* bound: commands posted in a behaviour
    MaxInbox       \* bound: commands waiting at once

ASSUME ControlAssumption ==
    /\ Speeds \subseteq (Nat \ {0}) \cup {Inf} /\ Speeds # {} /\ IsFiniteSet(Speeds)
    /\ Targets \subseteq Nat /\ Deltas \subseteq Nat
    /\ EarlyStep \in BOOLEAN /\ SetpointModes \subseteq {"Virtual", "Replay"}
    /\ MaxLate \in Nat /\ MaxClock \in Nat /\ PostUntil \in Nat /\ MaxCommands \in Nat /\ MaxInbox \in Nat

VARIABLES
    clock,     \* elapsed_us(clock_zero) as the thread would read it now
    inbox,     \* the mpsc queue of BusCommand
    pc,        \* where the thread is: "wait", "drain" or "lap"
    anchored,  \* clock_reset: a StartVirtual was applied in this drain
    pausedAt,  \* the thread's own stamp of the current pause, or None
    core,      \* the fields of BusCore this module is about, a record
    late,      \* ticks since the thread last woke (bounded by MaxLate)
    posted,    \* commands posted so far (bounded by MaxCommands)
    earned     \* history: the log time (in Scale units) the run has a right to

vars == <<clock, inbox, pc, anchored, pausedAt, core, late, posted, earned>>

Modes == {"Virtual", "Replay"}

Commands ==
    [op : {"StartVirtual", "Stop", "Pause", "Resume", "PanelWriteSignal"}]
      \cup [op : {"StartReplay", "SetSpeed"}, speed : Speeds]
      \cup [op : {"Step"}, delta : Deltas]
      \cup [op : {"PlayTo"}, target : Targets]

-----------------------------------------------------------------------------
(* BusCore.  `was` is how far each stream had been read before the last    *)
(* step: what that step delivered lies between it and src.  injected: a    *)
(* setpoint waits for its frame.                                           *)

Read(s) == [can |-> s.can, fr |-> s.fr, eth |-> s.eth]

\* reset_run, the fields of this module.
ResetRun(c) ==
    [c EXCEPT !.sim = 0, !.simPrev = 0, !.paused = FALSE, !.pausedAtUs = None,
              !.stopAt = None, !.injected = FALSE,
              !.src = SetPollLimit(@, None)]

\* Mutant: the frozen span is skipped in the sim clock, not in the playhead.
AdvanceClockUnshifted(c, now) ==
    LET prev == IF c.pausedAtUs = None THEN c.simPrev ELSE now
    IN  [c EXCEPT !.pausedAtUs = None,
                  !.sim = IF c.mode = "Replay" THEN @ ELSE @ + Monus(now, prev),
                  !.simPrev = now]

\* Mutant: the frozen span is skipped in the playhead, not in the sim clock.
AdvanceClockThawed(c, now) ==
    [c EXCEPT
        !.src = IF c.pausedAtUs = None THEN @
                ELSE ShiftTime(@, Monus(now, c.pausedAtUs)),
        !.pausedAtUs = None,
        !.sim = IF c.mode = "Replay" THEN @ ELSE @ + Monus(now, c.simPrev),
        !.simPrev = now]

\* advance_clock: skip a frozen span, let wall time drive the clock of a
\* virtual run only.
AdvanceClock(c, now) ==
    LET prev == IF c.pausedAtUs = None THEN c.simPrev ELSE now
    IN  [c EXCEPT
            !.src = IF c.pausedAtUs = None THEN @
                    ELSE ShiftTime(@, Monus(now, c.pausedAtUs)),
            !.pausedAtUs = None,
            !.sim = IF c.mode = "Replay" THEN @ ELSE @ + Monus(now, prev),
            !.simPrev = now]

\* The replay is over once a step finds no CAN frame in buf, neither polled nor
\* injected, and the source is done.
EndedMutant(c, s) == s.can > c.src.can /\ s.done
Ended(c, s) == s.can = c.src.can /\ ~c.injected /\ s.done

\* replay_target_reached
TargetReachedMutant(c) ==
    c.stopAt # None /\ Position(c.src) >= c.stopAt /\ c.was.can < c.src.can
TargetReached(c) ==
    c.measuring /\ ~c.paused /\ c.stopAt # None /\ Position(c.src) >= c.stopAt

\* step, as far as the source, the clocks and the end of a replay go.  A
\* virtual run's source delivers nothing.  The clock of a replay is the stamp
\* of the last frame in buf: that of a waiting setpoint, which is built after
\* the poll, is the wall clock of the lap (send_one_shot).
StepBus(c, now) ==
    IF c.mode = "Virtual" THEN [c EXCEPT !.injected = FALSE]
    ELSE
      LET s    == PollEth(PollFr(Poll(c.src, now)))
          d    == [c EXCEPT
                      !.injected = FALSE, !.src = s, !.was = Read(c.src),
                      !.sim = IF c.injected THEN now
                              ELSE IF s.can > c.src.can THEN CanLog[s.can] ELSE @]
          over == [d EXCEPT !.stopAt = None, !.src = SetPollLimit(@, None)]
      IN  IF Ended(c, s) THEN [over EXCEPT !.measuring = FALSE, !.finished = TRUE]
          ELSE IF TargetReached(d) THEN [over EXCEPT !.paused = TRUE]
          ELSE d

\* start_replay.  (A log that does not open leaves the core untouched.)
StartReplay(c, speed) ==
    LET r == ResetRun([c EXCEPT !.src = NewSource(speed), !.mode = "Replay"])
    IN  [r EXCEPT !.measuring = TRUE, !.was = Read(r.src), !.finished = FALSE]

StartVirtual(c) ==
    [ResetRun([c EXCEPT !.mode = "Virtual"]) EXCEPT
        !.measuring = TRUE, !.finished = FALSE]

StopBus(c) ==
    [c EXCEPT !.measuring = FALSE, !.stopAt = None, !.src = SetPollLimit(@, None)]

SetTracePaused(c, on) ==
    [c EXCEPT !.paused = on, !.stopAt = None, !.src = SetPollLimit(@, None)]

\* Steps and play targets are refused outside a running replay.
Replaying(c) == c.mode = "Replay" /\ c.measuring

\* replay_step: the step it runs reads the clock of the last lap.
ReplayStep(c, delta) ==
    IF ~Replaying(c) THEN c
    ELSE StepBus([c EXCEPT !.stopAt = None,
                           !.src = StepForward(SetPollLimit(@, None), delta)],
                 c.simPrev)

\* replay_play_to: forward only.
ReplayPlayTo(c, target) ==
    IF ~Replaying(c) \/ target <= Position(c.src) THEN c
    ELSE [c EXCEPT !.stopAt = target, !.src = SetPollLimit(@, target),
                   !.paused = FALSE]

\* apply_panel_write of a CAN signal.
PanelWriteSignal(c) == [c EXCEPT !.injected = @ \/ c.measuring]

\* BusCore::handle, one command.
Handle(c, cmd) ==
    CASE cmd.op = "StartVirtual" -> StartVirtual(c)
      [] cmd.op = "StartReplay"  -> StartReplay(c, cmd.speed)
      [] cmd.op = "Stop"         -> StopBus(c)
      [] cmd.op = "PanelWriteSignal" -> PanelWriteSignal(c)
      [] cmd.op = "Pause"        -> SetTracePaused(c, TRUE)
      [] cmd.op = "Resume"       -> SetTracePaused(c, FALSE)
      [] cmd.op = "SetSpeed"     -> [c EXCEPT !.src = SetSpeed(@, cmd.speed)]
      [] cmd.op = "Step"         -> ReplayStep(c, cmd.delta)
      [] cmd.op = "PlayTo"       -> ReplayPlayTo(c, cmd.target)

-----------------------------------------------------------------------------
Init ==
    /\ clock = 0 /\ inbox = << >> /\ pc = "wait" /\ anchored = FALSE
    /\ pausedAt = None /\ late = 0 /\ posted = 0 /\ earned = 0
    /\ core = [mode |-> "Virtual", measuring |-> FALSE, paused |-> FALSE,
               pausedAtUs |-> None, stopAt |-> None, sim |-> 0, simPrev |-> 0,
               src |-> NewSource(Scale), was |-> Read(NewSource(Scale)),
               finished |-> FALSE, injected |-> FALSE]

\* The span of the run that counts: measuring, and not in a pause the thread
\* has seen.
Running == core.measuring /\ (~core.paused \/ pausedAt = None)

\* The wall clock, and with it what the run earns: a speed set in the next
\* lap applies to the whole gap since the last one, so a replay earns at the
\* fastest finite speed.
Fastest == CHOOSE s \in (Speeds \cup {Scale}) \ {Inf} :
               \A r \in (Speeds \cup {Scale}) \ {Inf} : r <= s

Tick ==
    /\ clock < MaxClock /\ late < MaxLate
    /\ clock' = clock + 1 /\ late' = late + 1
    /\ earned' = IF ~Running THEN earned
                 ELSE earned + (IF core.mode = "Replay" THEN Fastest ELSE 1)
    /\ UNCHANGED <<inbox, pc, anchored, pausedAt, core, posted>>

\* The frontend posts a command.  A Step is offered only on a replay whose
\* first lap has been seen, unless EarlyStep, and a setpoint in a run of one of
\* SetpointModes.
Post(cmd) ==
    /\ posted < MaxCommands /\ Len(inbox) < MaxInbox /\ clock <= PostUntil
    /\ cmd.op = "Step" => EarlyStep \/ (inbox = << >> /\ core.src.last # None)
    /\ cmd.op = "PanelWriteSignal" => inbox = << >> /\ core.mode \in SetpointModes
    /\ inbox' = Append(inbox, cmd)
    /\ posted' = posted + 1
    /\ UNCHANGED <<clock, pc, anchored, pausedAt, core, late, earned>>

\* recv_timeout returns: with a command, or because the wait ran out.
Wake ==
    /\ pc = "wait"
    /\ pc' = "drain" /\ late' = 0
    /\ UNCHANGED <<clock, inbox, anchored, pausedAt, core, posted, earned>>

\* apply / drain: one command.
Apply ==
    /\ pc = "drain" /\ inbox # << >>
    /\ LET cmd == Head(inbox) IN
        /\ core' = Handle(core, cmd)
        /\ anchored' = (anchored \/ cmd.op = "StartVirtual")
        /\ earned' = CASE cmd.op \in {"StartVirtual", "StartReplay"} -> 0
                       [] cmd.op = "Step" /\ Replaying(core) ->
                            earned + cmd.delta * Scale
                       [] OTHER -> earned
    /\ inbox' = Tail(inbox)
    /\ UNCHANGED <<clock, pc, pausedAt, late, posted>>

\* The queue is empty: re-anchor the clock if the run restarted.
QueueEmpty ==
    /\ pc = "drain" /\ inbox = << >>
    /\ pc' = "lap"
    /\ clock' = IF anchored THEN 0 ELSE clock
    /\ pausedAt' = IF anchored THEN None ELSE pausedAt
    /\ earned' = IF anchored /\ core.mode = "Virtual" THEN 0 ELSE earned
    /\ anchored' = FALSE
    /\ UNCHANGED <<inbox, core, late, posted>>

\* The measuring branch: hand the pause stamp over and step to now.
LapStep ==
    /\ pc = "lap" /\ core.measuring /\ ~core.paused
    /\ LET c == IF pausedAt = None THEN core
                ELSE [core EXCEPT !.pausedAtUs = pausedAt]
       IN  core' = StepBus(AdvanceClock(c, clock), clock)
    /\ pausedAt' = None
    /\ pc' = "wait"
    /\ UNCHANGED <<clock, inbox, anchored, late, posted, earned>>

\* The paused branch: stamp the pause the first time round.
LapPaused ==
    /\ pc = "lap" /\ core.measuring /\ core.paused
    /\ pausedAt' = IF pausedAt = None THEN clock ELSE pausedAt
    /\ pc' = "wait"
    /\ UNCHANGED <<clock, inbox, anchored, core, late, posted, earned>>

LapIdle ==
    /\ pc = "lap" /\ ~core.measuring
    /\ pc' = "wait"
    /\ UNCHANGED <<clock, inbox, anchored, pausedAt, core, late, posted, earned>>

Next ==
    \/ Tick \/ Wake \/ Apply \/ QueueEmpty \/ LapStep \/ LapPaused \/ LapIdle
    \/ \E cmd \in Commands : Post(cmd)

Spec == Init /\ [][Next]_vars

\* The thread keeps lapping (recv_timeout is bounded by IDLE_SLEEP_US) and
\* the clock keeps running; nobody owes the thread a command.  Each move of
\* pc or inbox below is made by exactly one of the thread's actions, whatever
\* else that action computes.
ThreadMoves ==
    \/ pc = "wait" /\ pc' = "drain" /\ inbox' = inbox
    \/ pc = "drain" /\ inbox # << >> /\ inbox' = Tail(inbox) /\ pc' = pc
    \/ pc = "drain" /\ inbox = << >> /\ pc' = "lap" /\ inbox' = inbox
    \/ pc = "lap" /\ pc' = "wait" /\ inbox' = inbox

ClockMoves == clock < MaxClock /\ late < MaxLate /\ clock' = clock + 1

Fairness == WF_<<pc, inbox>>(ThreadMoves) /\ WF_clock(ClockMoves)

FairSpec == Spec /\ Fairness

-----------------------------------------------------------------------------
(* Properties.                                                             *)

Stamps(log, from, to) == {log[i] : i \in (from + 1) .. to}

\* The stamps the log has delivered in this run, and those of the last step.
Delivered == Stamps(CanLog, 0, core.src.can) \cup Stamps(FrLog, 0, core.src.fr)
               \cup Stamps(EthLog, 0, core.src.eth)

LastStep(c) == Stamps(CanLog, c.was.can, c.src.can)
                 \cup Stamps(FrLog, c.was.fr, c.src.fr)
                 \cup Stamps(EthLog, c.was.eth, c.src.eth)

TypeOK ==
    /\ clock \in 0 .. MaxClock /\ posted \in 0 .. MaxCommands /\ late \in 0 .. MaxLate
    /\ earned \in Nat
    /\ inbox \in Seq(Commands) /\ Len(inbox) <= MaxInbox
    /\ pc \in {"wait", "drain", "lap"} /\ anchored \in BOOLEAN
    /\ pausedAt \in Nat \cup {None}
    /\ core.mode \in Modes
    /\ {core.measuring, core.paused, core.finished, core.injected} \subseteq BOOLEAN
    /\ {core.pausedAtUs, core.stopAt, core.src.last, core.src.nextT,
        core.src.limit} \subseteq Nat \cup {None}
    /\ {core.sim, core.simPrev} \subseteq Nat
    /\ core.src.pos \in Nat \cup {Inf}
    /\ core.src.can \in 0 .. Len(CanLog)
    /\ core.src.fr \in 0 .. Len(FrLog) /\ core.src.eth \in 0 .. Len(EthLog)

\* "A span spent frozen is skipped rather than accumulated" (bus.rs,
\* advance_clock): the playhead is never further than the time the run
\* actually ran plus the spans stepped by hand.
NoFreeTime == core.mode = "Replay" /\ core.src.pos # Inf => core.src.pos <= earned

\* The sim clock of a virtual run never gets ahead of the time it ran, over
\* any pauses, restarts and re-anchorings of the wall clock.
VirtualClockHonest == core.mode = "Virtual" => core.sim <= earned

\* While a play target is armed a lap delivers nothing past it, whatever the
\* playhead did (set_poll_limit, replay.rs).
HeldAtTarget ==
    [][pc = "lap" /\ core.stopAt # None /\ core' # core =>
         \A t \in LastStep(core') : t <= core.stopAt]_vars

\* Play-to stops "so the target frame is the last one ingested"
\* (source/mod.rs): when the pause lands, everything up to it was delivered.
PlayToComplete ==
    [][pc = "lap" /\ core.stopAt # None /\ core'.paused =>
         \A t \in Heads(core'.src) : t > core.stopAt]_vars

\* A replay that reports it finished has delivered the whole log.
FinishedIsDrained == core.finished => Drained(core.src)

\* The three streams come out in log order: nothing still to come is older
\* than something already delivered (poll_fr, replay.rs).
LogOrder == \A d \in Delivered, u \in Heads(core.src) : d <= u

\* The thread sleeps no longer than next_deadline, so that deadline is never
\* later than the moment the next frame falls due, whichever stream it is in,
\* at whatever speed; and there is one as long as frames remain.
NoOversleep ==
    LET s == core.src
        deadline == NextDeadline(s, clock)
    IN  core.mode = "Replay" /\ ~Drained(s) =>
          /\ deadline # None
          /\ s.last # None =>
               \A w \in s.last .. deadline - 1, t \in Heads(s) :
                   (s.pos + (w - s.last) * s.speed) \div Scale < t

\* Replay time is monotone in a run, and never ahead of the playhead.
SimWithinPlayhead ==
    core.mode = "Replay" /\ core.src.pos # Inf => core.sim * Scale <= core.src.pos

\* A play target, once armed, is reached or given up: the run does not stay
\* armed for ever.
PlayToEnds == core.stopAt # None ~> core.stopAt = None

\* A replay left to play finishes, or is paused or stopped by someone.
ReplayEnds == Replaying(core) /\ ~core.paused ~> ~Replaying(core) \/ core.paused

\* No clock of a run counts time the run did not have.
ClocksHonest == NoFreeTime /\ VirtualClockHonest

\* What the log delivers and the clock taken from it follow the log: in order,
\* and no further than the playhead.
LogHonest == LogOrder /\ SimWithinPlayhead

\* A play target holds every lap back and is complete when the pause lands.
TargetsHold == HeldAtTarget /\ PlayToComplete

\* A replay that is left alone comes to its end and its targets.
EveryPlayEnds == PlayToEnds /\ ReplayEnds
=============================================================================
