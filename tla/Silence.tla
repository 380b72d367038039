------------------------------- MODULE Silence -------------------------------
(***************************************************************************)
(* Two judges of one silence, for a message with a declared period: the    *)
(* specification watch (check_spec) and a rule with a CycleTimeout         *)
(* condition (eval_timeout_triggers), both at the end of a step            *)
(* (src/src/bus.rs), with the predicate of src/src/spec.rs.                *)
(*                                                                         *)
(* The watch reads the sim clock, the rule the wall clock of the lap; a    *)
(* frame carries the sim clock or the log's own.  Module ReplayControl has *)
(* the clocks in full; here a lap moves the wall clock by any of Strides,  *)
(* and a pause begins and ends between laps.                               *)
(***************************************************************************)
EXTENDS Naturals

CONSTANTS
    Declared, Grace,   \* the message's period, and the missed cycles allowed
    Strides,           \* wall time between two laps
    None,
    MaxWall            \* bound: the wall clock

ASSUME SilenceAssumption ==
    /\ Declared \in Nat /\ Grace \in Nat /\ Strides \subseteq Nat
    /\ None \notin Nat /\ MaxWall \in Nat

VARIABLES
    mode, measuring, paused,
    wall,       \* elapsed_us(clock_zero) at the last lap
    sim, simPrev,
    pausedAt,   \* the wall clock of the first paused lap, or None
    last,       \* last_t_us of the message's aggregate, None before it is seen
    enabled, level,   \* of the rule
    missing,    \* did the last step's watch report the message as dropped?
    fired,      \* did the rule fire in the last step?
    watched     \* history: was the rule on at every step since one that found
                \* the message alive?

clocks == <<wall, sim, simPrev, pausedAt, last>>
vars == <<mode, measuring, paused, clocks, enabled, level, missing, fired, watched>>

\* missing_offender, with the message seen at all.
Missing(now, seen) == seen # None /\ Declared # 0 /\ now > seen + Declared * Grace

\* timeout_silent, what the rule asks; mutant: at the limit already.
TimeoutSilentEarly(now, seen) == seen # None /\ Declared # 0 /\ now >= seen + Declared * Grace
TimeoutSilent(now, seen) == Missing(now, seen)

\* The rule fires on the edge of its level; mutant: on the edge back.
FiresBack(silent) == enabled /\ level /\ ~silent
Fires(silent) == enabled /\ ~level /\ silent

Init ==
    /\ mode = "Virtual" /\ measuring = FALSE /\ paused = FALSE
    /\ wall = 0 /\ sim = 0 /\ simPrev = 0 /\ pausedAt = None /\ last = None
    /\ enabled = TRUE /\ level = FALSE /\ missing = FALSE /\ fired = FALSE
    /\ watched = FALSE

\* A start: reset_run drops the aggregates and the reports; the level of the
\* rule stays.  Only a virtual run re-anchors the wall clock.
Start(m) ==
    /\ mode' = m /\ measuring' = TRUE /\ paused' = FALSE
    /\ wall' = IF m = "Virtual" THEN 0 ELSE wall
    /\ sim' = 0 /\ simPrev' = 0 /\ pausedAt' = None /\ last' = None
    /\ missing' = FALSE /\ fired' = FALSE /\ watched' = FALSE
    /\ UNCHANGED <<enabled, level>>

Stop ==
    /\ measuring /\ measuring' = FALSE
    /\ UNCHANGED <<mode, paused, clocks, enabled, level, missing, fired, watched>>

\* SetTracePaused, of a running measurement.
SetTracePaused(on) ==
    /\ measuring /\ paused # on /\ paused' = on
    /\ UNCHANGED <<mode, measuring, clocks, enabled, level, missing, fired, watched>>

SetTriggerEnabled(on) ==
    /\ enabled # on /\ enabled' = on
    /\ UNCHANGED <<mode, measuring, paused, clocks, level, missing, fired, watched>>

\* A lap of a paused run only stamps the pause.
PausedLap(d) ==
    /\ measuring /\ paused /\ wall + d <= MaxWall
    /\ wall' = wall + d
    /\ pausedAt' = IF pausedAt = None THEN wall' ELSE pausedAt
    /\ UNCHANGED <<mode, measuring, paused, sim, simPrev, last, enabled, level, missing,
                   fired, watched>>

\* The two verdicts on the message at the end of a step.
Judge ==
    /\ missing' = (mode = "Virtual" /\ Missing(sim', last'))
    /\ level' = IF enabled THEN TimeoutSilent(wall', last') ELSE level
    /\ fired' = Fires(TimeoutSilent(wall', last'))
    /\ watched' = (enabled /\ (watched \/ ~TimeoutSilent(wall', last')))

\* advance_clock, the clock of a virtual run; mutant: the wall clock so far is
\* added, not the span since the last lap.
AdvancedTwice(now) == sim + now
Advanced(now) == IF pausedAt = None THEN sim + (now - simPrev) ELSE sim

\* A lap that steps: the message arrives at `stamp`, or not (None).  A virtual
\* run sends at any time since the last step; a replayed log is at clock.
Lap(d, clock, stamp) ==
    LET now == wall + d
    IN  /\ measuring /\ ~paused /\ now <= MaxWall
        /\ wall' = now /\ simPrev' = now /\ pausedAt' = None
        /\ sim' = IF mode = "Replay" THEN clock
                  ELSE Advanced(now)
        /\ mode = "Virtual" => clock = sim
        /\ stamp # None => stamp \in sim .. sim'
        /\ last' = IF stamp = None THEN last ELSE stamp
        /\ Judge
        /\ UNCHANGED <<mode, measuring, paused, enabled>>

Next ==
    \/ Stop
    \/ \E m \in {"Virtual", "Replay"} : Start(m)
    \/ \E on \in BOOLEAN : SetTracePaused(on) \/ SetTriggerEnabled(on)
    \/ \E d \in Strides : \/ PausedLap(d)
                          \/ \E clock \in sim .. sim + d, stamp \in (sim .. sim + d) \cup {None} :
                                Lap(d, clock, stamp)

Spec == Init /\ [][Next]_vars

-----------------------------------------------------------------------------
\* The clock of a virtual run is never ahead of the wall clock, and no frame
\* is ahead of the clock.
TypeOK ==
    /\ mode \in {"Virtual", "Replay"}
    /\ {measuring, paused, enabled, level, missing, fired, watched} \subseteq BOOLEAN
    /\ {sim, simPrev} \subseteq Nat /\ wall \in 0 .. MaxWall
    /\ {pausedAt, last} \subseteq Nat \cup {None}
    /\ last # None => last <= sim
    /\ mode = "Virtual" => sim <= simPrev

\* A step just judged the message with the rule on; and its two clocks agree,
\* as they do in a virtual run that was never paused.
Judged == wall' > wall /\ ~paused /\ enabled
OneClock == mode = "Virtual" /\ sim' = wall'

\* "A trigger and the Dropped verdict can never disagree about the same
\* message" (timeout_silent): whatever the pauses, replays and switches.
VerdictsAgree == [][Judged => level' = missing']_vars

\* They do agree in a step whose clocks do, whatever came before in other
\* runs and while the rule was off.
AgreeOnOneClock == [][Judged /\ OneClock => level' = missing']_vars

\* Over pauses, replays and switches one half of it is left: what the watch
\* reports dropped, the rule holds silent.
RuleCoversWatch == [][Judged /\ missing' => level']_vars

\* So rule and verdict fit, as far as they do.
VerdictsFit == AgreeOnOneClock /\ RuleCoversWatch

\* "Every new dropout is a fresh edge" (eval_timeout_triggers): a rule that was
\* on since a step that found the message alive fires in the step that finds
\* it dropped, in this run or after any number of others.
DropoutFires ==
    [][Judged /\ OneClock /\ watched /\ ~missing /\ missing' => fired']_vars
=============================================================================
