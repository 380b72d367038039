------------------------------ MODULE Generator ------------------------------
(***************************************************************************)
(* The generator entries of BusCore (src/src/generator.rs): the periodic   *)
(* CAN and FlexRay messages step sends from its own clock, and the         *)
(* commands that edit them between steps (src/src/bus.rs).                 *)
(*                                                                         *)
(* An entry carries one absolute next slot.  step sends every slot the     *)
(* clock has passed, at the slot's own stamp, so whoever lets an entry     *)
(* send again has to move that slot to the current clock first.  A         *)
(* virtual run moves the clock by the wall time between laps, a replay     *)
(* moves it to the newest stamp of the log: here, by any of Strides.       *)
(***************************************************************************)
EXTENDS Naturals, FiniteSets

CONSTANTS
    Entries,        \* keys of CAN and FlexRay entries: (channel, id) or (bus, slot)
    FrEntries,      \* the FlexRay ones
    Nodes,          \* database nodes that own entries
    NodeOf,         \* the node an entry is stamped with, or None
    Cycles,         \* periods a user types, zero included
    DefaultCycle,   \* DEFAULT_TX_CYCLE_US
    Budget,         \* MAX_TX_CATCHUP: slots one entry sends in a step
    Strides,        \* how far the clock may move in a step
    TimerSpans,     \* delays node scripts arm their timers with
    LiveEdits,      \* subset of {"cycle", "restore", "map"}: which of the edits
                    \* that do not anchor the schedule occur during a run
    None,
    MaxSim          \* bound: the clock of a run

ASSUME GeneratorAssumption ==
    /\ FrEntries \subseteq Entries /\ \A e \in FrEntries : NodeOf[e] = None  \* no role gate there
    /\ NodeOf \in [Entries -> Nodes \cup {None}]
    /\ None \notin Nodes /\ None \notin Nat
    /\ Cycles \subseteq Nat /\ DefaultCycle \in Nat \ {0}
    /\ Budget \in Nat \ {0} /\ Strides \subseteq Nat
    /\ TimerSpans \subseteq Nat \ {0} /\ MaxSim \in Nat
    /\ LiveEdits \subseteq {"cycle", "restore", "map"}

VARIABLES
    mode,       \* "Virtual" or "Replay"
    phase,      \* "stopped", "running" or "paused" (measuring, trace_paused)
    sim,        \* sim_t_us
    entries,    \* tx_list and fr_tx_list, one record per key
    simulated,  \* the nodes whose role is Simulated (can_node_roles)
    logged,     \* the keys the replayed log carries itself (replay_ids)
    timers,     \* the next_due_us of armed node timers
    since,      \* history: when the entry was last let send
    prev,       \* history: the last slot sent since, or None
    out         \* history: the slots the last action sent

vars == <<mode, phase, sim, entries, simulated, logged, timers, since, prev, out>>

Absent == [present |-> FALSE, active |-> FALSE, cycle |-> 0, next |-> 0]

Min2(a, b) == IF a <= b THEN a ELSE b

-----------------------------------------------------------------------------
\* The role gate: an entry stamped with a node sends only while that node is
\* simulated.
GateOpen(e) == NodeOf[e] = None \/ NodeOf[e] \in simulated

Muted(e) == mode = "Replay" /\ e \in logged

Sending(e) ==
    /\ entries[e].present /\ entries[e].active /\ entries[e].cycle # 0
    /\ GateOpen(e) /\ ~Muted(e)

\* The slots of entry t the clock has passed, as many as the budget allows.
Slots(t, now) ==
    {s \in t.next .. now : /\ (s - t.next) % t.cycle = 0
                           /\ (s - t.next) \div t.cycle < Budget}

\* Mutant: a backlog past the budget is skipped.
AdvanceSkipping(t, now) ==
    IF t.next > now THEN t.next
    ELSE IF (now - t.next) \div t.cycle + 1 > Budget THEN now + t.cycle
    ELSE t.next + ((now - t.next) \div t.cycle + 1) * t.cycle

\* next_t_us after the loop.
Advance(t, now) ==
    IF t.next > now THEN t.next
    ELSE t.next + Min2(Budget, (now - t.next) \div t.cycle + 1) * t.cycle

\* Log time has no slot zero: in a replay an unanchored entry starts at the
\* playhead.
Anchored(t, now) ==
    IF mode = "Replay" /\ t.present /\ t.next = 0 THEN [t EXCEPT !.next = now] ELSE t

\* When a CAN entry that may send is due next; past slots are due at once.
CanDue ==
    {IF entries[e].next > sim THEN entries[e].next ELSE sim :
        e \in {f \in Entries \ FrEntries :
                  /\ entries[f].present /\ entries[f].active
                  /\ entries[f].cycle # 0 /\ GateOpen(f)}}

\* Mutant: node timers are forgotten.
NextDeadlineNoTimers ==
    IF phase # "running" \/ CanDue = {} THEN None
    ELSE CHOOSE d \in CanDue : \A x \in CanDue : d <= x

\* The instant the bus next has work due, as the thread asks for it between
\* laps; node timers run on the wall clock, which moves with sim here.
\* They count only when some CAN entry is due at some time.
NextDeadline ==
    LET all == CanDue \cup timers
    IN  IF phase # "running" \/ CanDue = {} THEN None
        ELSE CHOOSE d \in all : \A x \in all : d <= x

-----------------------------------------------------------------------------
Init ==
    /\ mode = "Virtual" /\ phase = "stopped" /\ sim = 0
    /\ entries = [e \in Entries |-> Absent]
    /\ simulated = {} /\ logged = {} /\ timers = {}
    /\ since = [e \in Entries |-> 0] /\ prev = [e \in Entries |-> None]
    /\ out = [e \in Entries |-> {}]

\* The history of a command: an entry that may send now and could not before,
\* or whose slot was moved, begins a new stretch.
Track ==
    /\ since' = [e \in Entries |-> IF Sending(e)' /\ ~Sending(e) THEN sim ELSE since[e]]
    /\ prev' = [e \in Entries |->
                   IF Sending(e)' /\ Sending(e) /\ entries'[e].next = entries[e].next
                   THEN prev[e] ELSE None]
    /\ out' = [e \in Entries |-> {}]

\* reset_run, for both kinds of start.
Restart(m) ==
    /\ mode' = m /\ phase' = "running" /\ sim' = 0
    /\ entries' = [e \in Entries |-> [entries[e] EXCEPT !.next = 0]]
    /\ timers' = {}
    /\ since' = [e \in Entries |-> 0] /\ prev' = [e \in Entries |-> None]
    /\ out' = [e \in Entries |-> {}]
    /\ UNCHANGED simulated

StartVirtual == Restart("Virtual") /\ UNCHANGED logged

\* start_replay scans the log for the ids it carries (scan_log_ids).
StartReplay(ids) == Restart("Replay") /\ logged' = ids

\* Stop, Pause and Resume.  A stopped run is not resumed, it is started anew.
SetPhase(from, to) ==
    /\ phase \in from /\ phase' = to
    /\ UNCHANGED <<mode, sim, entries, simulated, logged, timers>>
    /\ Track

Stop   == SetPhase({"running", "paused"}, "stopped")
Pause  == SetPhase({"running"}, "paused")
Resume == SetPhase({"paused"}, "running")

\* The generator half of step.
Step(d) ==
    LET now  == sim + d
        t(e) == Anchored(entries[e], now)
        due(e) == Sending(e) /\ t(e).next <= now
    IN  /\ phase = "running" /\ now <= MaxSim
        /\ sim' = now
        /\ entries' = [e \in Entries |->
               IF due(e) THEN [t(e) EXCEPT !.next = Advance(t(e), now)] ELSE t(e)]
        /\ out' = [e \in Entries |-> IF due(e) THEN Slots(t(e), now) ELSE {}]
        /\ prev' = [e \in Entries |->
               IF due(e) THEN Advance(t(e), now) - entries[e].cycle ELSE prev[e]]
        /\ timers' = {x \in timers : x > now}
        /\ UNCHANGED <<mode, phase, simulated, logged, since>>

\* A handler that ran in the step armed a timer (setTimer).
ArmTimer(span) ==
    /\ phase = "running" /\ timers' = timers \cup {sim + span}
    /\ UNCHANGED <<mode, phase, sim, entries, simulated, logged>>
    /\ Track

\* add_entry and add_fr_entry; mutant: no default period.
NewEntryNoDefault == [present |-> TRUE, active |-> FALSE, cycle |-> None, next |-> 0]
NewEntry == [present |-> TRUE, active |-> FALSE, cycle |-> DefaultCycle, next |-> 0]

AddEntry(e) ==
    /\ ~entries[e].present
    /\ entries' = [entries EXCEPT ![e] = NewEntry]
    /\ UNCHANGED <<mode, phase, sim, simulated, logged, timers>>
    /\ Track

RemoveEntry(e) ==
    /\ entries[e].present
    /\ entries' = [entries EXCEPT ![e] = Absent]
    /\ UNCHANGED <<mode, phase, sim, simulated, logged, timers>>
    /\ Track

\* Switched on, the schedule is anchored at the current clock; off, it is
\* left as it is.  Mutant: not anchored.
SwitchedUnanchored(t, on) == [t EXCEPT !.active = on]
Switched(t, on) == [t EXCEPT !.active = on, !.next = IF on THEN sim ELSE @]

SetEntryActive(e, on) ==
    /\ entries[e].present
    /\ entries' = [entries EXCEPT ![e] = Switched(@, on)]
    /\ UNCHANGED <<mode, phase, sim, simulated, logged, timers>>
    /\ Track

\* SetEntryCycle and SetFrEntryCycle: the slot goes back to zero.
SetEntryCycle(e, cycle) ==
    /\ phase # "stopped" => "cycle" \in LiveEdits
    /\ entries[e].present
    /\ entries' = [entries EXCEPT ![e] = [@ EXCEPT !.cycle = cycle, !.next = 0]]
    /\ UNCHANGED <<mode, phase, sim, simulated, logged, timers>>
    /\ Track

\* SetEntryConfig: a row of a project being restored; CAN rows only.
SetEntryConfig(e, on, cycle) ==
    /\ phase # "stopped" => "restore" \in LiveEdits
    /\ entries[e].present /\ e \notin FrEntries
    /\ entries' = [entries EXCEPT ![e] = [@ EXCEPT !.active = on, !.cycle = cycle, !.next = 0]]
    /\ UNCHANGED <<mode, phase, sim, simulated, logged, timers>>
    /\ Track

\* set_channel_config with node_roles: roles pinned wholesale, no anchoring.
PinRoles(roles) ==
    /\ phase # "stopped" => "restore" \in LiveEdits
    /\ simulated' = roles
    /\ UNCHANGED <<mode, phase, sim, entries, logged, timers>>
    /\ Track

\* set_node_role, to Simulated: the node's missing entries are added, and the
\* active ones anchored.  Mutant: not anchored.
RoledUnanchored(e, n) ==
    IF NodeOf[e] # n THEN entries[e]
    ELSE IF ~entries[e].present THEN NewEntry ELSE entries[e]
Roled(e, n) ==
    IF NodeOf[e] # n THEN entries[e]
    ELSE IF ~entries[e].present THEN NewEntry
    ELSE IF entries[e].active THEN [entries[e] EXCEPT !.next = sim] ELSE entries[e]

Simulate(n) ==
    /\ simulated' = simulated \cup {n}
    /\ entries' = [e \in Entries |-> Roled(e, n)]
    /\ UNCHANGED <<mode, phase, sim, logged, timers>>
    /\ Track

\* set_node_role, to Absent: the entries stay as they are.
Retire(n) ==
    /\ simulated' = simulated \ {n}
    /\ UNCHANGED <<mode, phase, sim, entries, logged, timers>>
    /\ Track

\* SetReplayMap: remap_log_ids derives the muted keys anew.
SetReplayMap(ids) ==
    /\ phase # "stopped" => "map" \in LiveEdits
    /\ logged' = ids
    /\ UNCHANGED <<mode, phase, sim, entries, simulated, timers>>
    /\ Track

Next ==
    \/ StartVirtual \/ Stop \/ Pause \/ Resume
    \/ \E ids \in SUBSET Entries : StartReplay(ids) \/ SetReplayMap(ids)
    \/ \E d \in Strides : Step(d)
    \/ \E span \in TimerSpans : ArmTimer(span)
    \/ \E e \in Entries :
          \/ AddEntry(e) \/ RemoveEntry(e)
          \/ \E on \in BOOLEAN : SetEntryActive(e, on)
          \/ \E c \in Cycles : SetEntryCycle(e, c)
          \/ \E on \in BOOLEAN, c \in Cycles : SetEntryConfig(e, on, c)
    \/ \E n \in Nodes : Simulate(n) \/ Retire(n)
    \/ \E roles \in SUBSET Nodes : PinRoles(roles)

Spec == Init /\ [][Next]_vars

-----------------------------------------------------------------------------
(* Properties.                                                             *)

\* Every entry is a well-formed record, and an absent key holds none.
TypeOK ==
    /\ mode \in {"Virtual", "Replay"} /\ phase \in {"stopped", "running", "paused"} /\ sim \in Nat
    /\ entries \in [Entries -> [present : BOOLEAN, active : BOOLEAN,
                                cycle : Nat, next : Nat]]
    /\ simulated \subseteq Nodes /\ logged \subseteq Entries
    /\ timers \in SUBSET Nat
    /\ since \in [Entries -> Nat]
    /\ prev \in [Entries -> Nat \cup {None}]
    /\ out \in [Entries -> SUBSET Nat]

\* "A re-enabled entry starts sending from now": however an entry came to be
\* allowed to send (its switch, its node's role, a start), no frame of it is
\* dated before that moment.  The catch-up loop is what would send them.
NoBackdatedSlots == \A e \in Entries : \A s \in out[e] : since[e] <= s

\* "Spacing stays exactly cycle_us even in the catch-up burst": while an entry
\* is left alone no slot is skipped or sent twice, whatever the stalls and
\* however often the budget cut a burst short.
EvenSpacing ==
    [][\A e \in Entries : out'[e] # {} /\ prev[e] # None =>
          /\ prev[e] + entries[e].cycle \in out'[e]
          /\ out'[e] = {s \in (prev[e] + 1) .. prev'[e] :
                           (s - prev[e]) % entries[e].cycle = 0}]_vars

\* "The loop must wake for them": a virtual lap taken no later than the deadline
\* the bus named sends no CAN slot and fires no node timer late; and where it
\* named none, the lap sends no CAN slot at all.
OnTimeByDeadline ==
    [][mode = "Virtual" /\ sim' > sim =>
          /\ NextDeadline = None => \A e \in Entries \ FrEntries : out'[e] = {}
          /\ NextDeadline # None /\ sim' <= NextDeadline =>
                /\ \A e \in Entries \ FrEntries : out'[e] \subseteq {sim'}
                /\ timers \ timers' \subseteq {sim'}]_vars
=============================================================================
