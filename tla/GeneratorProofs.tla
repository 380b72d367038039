--------------------------- MODULE GeneratorProofs ---------------------------
(***************************************************************************)
(* The schedule of the generator entries, for every set of entries, nodes, *)
(* periods, strides and budgets: it is well typed, never sends a frame     *)
(* dated before the entry was allowed to send, keeps the period between    *)
(* the slots it sends, and is on time for a thread that wakes at the       *)
(* deadline it named.                                                      *)
(***************************************************************************)
EXTENDS Generator, NaturalsInduction, WellFoundedInduction, TLAPS

Entry == [present : BOOLEAN, active : BOOLEAN, cycle : Nat, next : Nat]

-----------------------------------------------------------------------------
\* What the catch-up loop leaves as next_t_us: at least one period later once
\* a slot was due, and never earlier than before.
LEMMA AdvanceLater ==
    ASSUME NEW t \in Entry, NEW now \in Nat, t.cycle # 0
    PROVE  /\ Advance(t, now) \in Nat
           /\ Advance(t, now) >= t.next
           /\ t.next <= now => Advance(t, now) - t.cycle \in Nat
<1> DEFINE late == (now - t.next) \div t.cycle
           k == Min2(Budget, late + 1)
<1>1. t.next \in Nat /\ t.cycle \in Nat /\ t.cycle > 0 /\ Budget \in Nat /\ Budget > 0
  BY GeneratorAssumption DEF Entry
<1>2. CASE t.next > now
  BY <1>1, <1>2 DEF Advance
<1>3. CASE t.next <= now
  <2>1. now - t.next \in Nat
    BY <1>1, <1>3
  <2>2. late \in Nat
    BY <1>1, <2>1
  <2>3. k \in Nat /\ k >= 1
    BY <1>1, <2>2 DEF Min2
  <2> HIDE DEF k
  <2>4. k * t.cycle \in Nat /\ k * t.cycle >= t.cycle
    BY <1>1, <2>3
  <2>5. Advance(t, now) = t.next + k * t.cycle
    BY <1>1, <1>3 DEF Advance, k
  <2> QED
    BY <1>1, <2>4, <2>5
<1> QED
  BY <1>1, <1>2, <1>3

\* The slots a step sends lie between the next slot and the clock.
LEMMA SlotsBounded ==
    ASSUME NEW t \in Entry, NEW now \in Nat
    PROVE  Slots(t, now) \subseteq t.next .. now /\ Slots(t, now) \subseteq Nat
BY DEF Slots, Entry

\* Anchoring an entry of a replay changes nothing but its slot, and moves it
\* only from zero to the clock.
LEMMA AnchoredEntry ==
    ASSUME NEW t \in Entry, NEW now \in Nat
    PROVE  /\ Anchored(t, now) \in Entry
           /\ Anchored(t, now).cycle = t.cycle
           /\ Anchored(t, now).active = t.active
           /\ Anchored(t, now).present = t.present
           /\ Anchored(t, now).next >= t.next
           /\ mode = "Replay" /\ t.present /\ t.next = 0 => Anchored(t, now).next = now
BY DEF Anchored, Entry

-----------------------------------------------------------------------------
(* Type correctness.                                                       *)

LEMMA TypeInit == Init => TypeOK
BY GeneratorAssumption DEF Init, TypeOK, Absent

\* A command's history is well typed if its clock is.
LEMMA TrackType ==
    ASSUME TypeOK, Track
    PROVE  since' \in [Entries -> Nat] /\ prev' \in [Entries -> Nat \cup {None}]
             /\ out' \in [Entries -> SUBSET Nat]
BY DEF TypeOK, Track

LEMMA TypeStep ==
    ASSUME TypeOK, NEW d \in Strides, Step(d)
    PROVE  TypeOK'
<1> DEFINE now == sim + d
           t(e) == Anchored(entries[e], now)
           due(e) == Sending(e) /\ t(e).next <= now
<1>1. now \in Nat
  BY GeneratorAssumption DEF TypeOK
<1>2. ASSUME NEW e \in Entries
      PROVE  /\ entries[e] \in Entry /\ t(e) \in Entry
             /\ t(e).cycle = entries[e].cycle
             /\ Slots(t(e), now) \subseteq Nat
             /\ due(e) => /\ Advance(t(e), now) \in Nat
                          /\ Advance(t(e), now) - entries[e].cycle \in Nat
  <2>1. entries[e] \in Entry
    BY DEF TypeOK, Entry
  <2>2. t(e) \in Entry /\ t(e).cycle = entries[e].cycle
    BY <1>1, <2>1, AnchoredEntry
  <2>3. Slots(t(e), now) \subseteq Nat
    BY <1>1, <2>2, SlotsBounded
  <2>4. ASSUME due(e)
        PROVE  /\ Advance(t(e), now) \in Nat
               /\ Advance(t(e), now) - entries[e].cycle \in Nat
    <3>1. t(e).cycle # 0 /\ t(e).next <= now
      BY <2>2, <2>4 DEF Sending
    <3> HIDE DEF t
    <3> QED
      BY <1>1, <2>2, <3>1, AdvanceLater
  <2> QED
    BY <2>1, <2>2, <2>3, <2>4
<1> HIDE DEF now
<1>3. sim' \in Nat /\ UNCHANGED <<mode, phase, simulated, logged, since>>
  BY <1>1 DEF Step, now
<1>4. timers' \in SUBSET Nat
  BY DEF Step, TypeOK
<1>5. entries' \in [Entries -> Entry]
  <2>1. entries' = [e \in Entries |->
               IF due(e) THEN [t(e) EXCEPT !.next = Advance(t(e), now)] ELSE t(e)]
    BY DEF Step, now
  <2>2. ASSUME NEW e \in Entries, due(e)
        PROVE  [t(e) EXCEPT !.next = Advance(t(e), now)] \in Entry
    <3>1. t(e) \in Entry /\ Advance(t(e), now) \in Nat
      BY <1>2, <2>2
    <3> HIDE DEF t
    <3> QED
      BY <3>1 DEF Entry
  <2> QED
    BY <1>2, <2>1, <2>2
<1>6. out' \in [Entries -> SUBSET Nat]
  <2>1. out' = [e \in Entries |-> IF due(e) THEN Slots(t(e), now) ELSE {}]
    BY DEF Step, now
  <2> HIDE DEF due, t
  <2> QED
    BY <1>2, <2>1
<1>7. prev' \in [Entries -> Nat \cup {None}]
  <2>1. prev' = [e \in Entries |->
               IF due(e) THEN Advance(t(e), now) - entries[e].cycle ELSE prev[e]]
    BY DEF Step, now
  <2>2. prev \in [Entries -> Nat \cup {None}]
    BY DEF TypeOK
  <2> HIDE DEF due, t
  <2> QED
    BY <1>2, <2>1, <2>2
<1> QED
  BY <1>3, <1>4, <1>5, <1>6, <1>7 DEF TypeOK, Entry

\* The commands: each leaves well-typed entries and roles behind, and Track
\* does the rest.
LEMMA TypeNext == TypeOK /\ [Next]_vars => TypeOK'
<1> SUFFICES ASSUME TypeOK, [Next]_vars PROVE TypeOK'
  OBVIOUS
<1>t. DefaultCycle \in Nat /\ entries \in [Entries -> Entry]
  BY GeneratorAssumption DEF TypeOK, Entry
<1>1. ASSUME NEW m \in {"Virtual", "Replay"}, Restart(m), logged' \subseteq Entries
      PROVE  TypeOK'
  <2>1. entries' \in [Entries -> Entry]
    <3>1. \A e \in Entries : [entries[e] EXCEPT !.next = 0] \in Entry
      BY <1>t DEF Entry
    <3> QED
      BY <1>1, <3>1 DEF Restart
  <2> QED
    BY <1>1, <2>1 DEF Restart, TypeOK, Entry
<1>2. CASE StartVirtual
  BY <1>1, <1>2 DEF StartVirtual, TypeOK
<1>3. ASSUME NEW ids \in SUBSET Entries, StartReplay(ids) PROVE TypeOK'
  BY <1>1, <1>3 DEF StartReplay
<1>4. CASE Stop \/ Pause \/ Resume
  <2>1. /\ phase' \in {"stopped", "running", "paused"} /\ Track
        /\ UNCHANGED <<mode, sim, entries, simulated, logged, timers>>
    BY <1>4 DEF Stop, Pause, Resume, SetPhase
  <2> QED
    BY <2>1, TrackType DEF TypeOK
<1>5. ASSUME NEW d \in Strides, Step(d) PROVE TypeOK'
  BY <1>5, TypeStep
<1>6. ASSUME NEW span \in TimerSpans, ArmTimer(span) PROVE TypeOK'
  <2>1. timers' \in SUBSET Nat
    BY <1>6, GeneratorAssumption DEF ArmTimer, TypeOK
  <2> QED
    BY <1>6, <2>1, TrackType DEF ArmTimer, TypeOK
<1>7. ASSUME Track, UNCHANGED <<mode, phase, sim, timers>>,
             entries' \in [Entries -> Entry],
             simulated' \subseteq Nodes, logged' \subseteq Entries
      PROVE  TypeOK'
  BY <1>7, TrackType DEF TypeOK, Entry
<1>8. ASSUME NEW e \in Entries, AddEntry(e) \/ RemoveEntry(e) PROVE TypeOK'
  <2>0. NewEntry \in Entry /\ Absent \in Entry
    BY <1>t DEF NewEntry, Absent, Entry
  <2>1. entries' \in [Entries -> Entry]
    BY <1>8, <1>t, <2>0 DEF AddEntry, RemoveEntry
  <2> QED
    BY <1>8, <2>1, <1>7 DEF AddEntry, RemoveEntry, TypeOK
<1>9. ASSUME NEW e \in Entries, NEW on \in BOOLEAN, SetEntryActive(e, on) PROVE TypeOK'
  <2>0. sim \in Nat /\ entries[e] \in Entry
    BY <1>t DEF TypeOK
  <2>1. Switched(entries[e], on) \in Entry
    BY <2>0 DEF Switched, Entry
  <2>2. entries' \in [Entries -> Entry]
    BY <1>9, <1>t, <2>1 DEF SetEntryActive
  <2> QED
    BY <1>9, <2>2, <1>7 DEF SetEntryActive, TypeOK
<1>10. ASSUME NEW e \in Entries, NEW c \in Cycles, SetEntryCycle(e, c) PROVE TypeOK'
  <2>0. [entries[e] EXCEPT !.cycle = c, !.next = 0] \in Entry
    BY <1>t, GeneratorAssumption DEF Entry
  <2>1. entries' \in [Entries -> Entry]
    BY <1>10, <1>t, <2>0 DEF SetEntryCycle
  <2> QED
    BY <1>10, <2>1, <1>7 DEF SetEntryCycle, TypeOK
<1>11. ASSUME NEW e \in Entries, NEW on \in BOOLEAN, NEW c \in Cycles,
              SetEntryConfig(e, on, c)
       PROVE  TypeOK'
  <2>0. [entries[e] EXCEPT !.active = on, !.cycle = c, !.next = 0] \in Entry
    BY <1>t, GeneratorAssumption DEF Entry
  <2>1. entries' \in [Entries -> Entry]
    BY <1>11, <1>t, <2>0 DEF SetEntryConfig
  <2> QED
    BY <1>11, <2>1, <1>7 DEF SetEntryConfig, TypeOK
<1>12. ASSUME NEW n \in Nodes, Simulate(n) PROVE TypeOK'
  <2>1. \A e \in Entries : Roled(e, n) \in Entry
    BY <1>t DEF Roled, NewEntry, Entry, TypeOK
  <2>2. entries' \in [Entries -> Entry]
    BY <1>12, <2>1 DEF Simulate
  <2> QED
    BY <1>12, <2>2, <1>7 DEF Simulate, TypeOK
<1>13. ASSUME NEW n \in Nodes, Retire(n) PROVE TypeOK'
  BY <1>13, <1>t, <1>7 DEF Retire, TypeOK
<1>14. ASSUME NEW roles \in SUBSET Nodes, PinRoles(roles) PROVE TypeOK'
  BY <1>14, <1>t, <1>7 DEF PinRoles, TypeOK
<1>15. ASSUME NEW ids \in SUBSET Entries, SetReplayMap(ids) PROVE TypeOK'
  BY <1>15, <1>t, <1>7 DEF SetReplayMap, TypeOK
<1>16. CASE UNCHANGED vars
  BY <1>16 DEF vars, TypeOK
<1> QED
  BY <1>2, <1>3, <1>4, <1>5, <1>6, <1>8, <1>9, <1>10, <1>11, <1>12, <1>13, <1>14,
     <1>15, <1>16 DEF Next

\* The schedule is well typed whatever is edited and whenever.
THEOREM TypeCorrect == Spec => []TypeOK
BY TypeInit, TypeNext, PTL DEF Spec

-----------------------------------------------------------------------------
(* No frame is dated before its entry was allowed to send.                 *)

\* The next slot of an entry that may send lies at or after the moment it was
\* let send; in a replay it may also still be zero, which the next step
\* anchors.  While stopped nothing is promised: a start begins anew.
Caught(e) ==
    phase # "stopped" /\ Sending(e) =>
        since[e] <= entries[e].next \/ (mode = "Replay" /\ entries[e].next = 0)

IInv ==
    /\ TypeOK
    /\ \A e \in Entries : since[e] <= sim
    /\ \A e \in Entries : Caught(e)
    /\ NoBackdatedSlots

LEMMA InvInit == Init => IInv
<1> SUFFICES ASSUME Init PROVE IInv
  OBVIOUS
<1>1. TypeOK
  BY TypeInit
<1> QED
  BY <1>1 DEF Init, IInv, Caught, Sending, Absent, NoBackdatedSlots

\* A command keeps the invariant when every entry that may send after it
\* either keeps its slot and could send before, or has its slot at the clock.
LEMMA CommandKeeps ==
    ASSUME IInv, TypeOK', Track, sim' = sim, mode' = mode,
           phase # "stopped" \/ phase' = "stopped",
           phase' # "stopped" =>
               \A e \in Entries : Sending(e)' =>
                   \/ Sending(e) /\ entries'[e].next = entries[e].next
                   \/ entries'[e].next = sim
    PROVE  IInv'
<1>1. \A e \in Entries : since'[e] = IF Sending(e)' /\ ~Sending(e) THEN sim ELSE since[e]
  BY DEF Track
<1>2. \A e \in Entries : since'[e] <= sim'
  BY <1>1 DEF IInv, TypeOK
<1>3. ASSUME NEW e \in Entries PROVE Caught(e)'
  <2> SUFFICES ASSUME phase' # "stopped", Sending(e)'
               PROVE  since'[e] <= entries'[e].next \/ (mode' = "Replay" /\ entries'[e].next = 0)
    BY DEF Caught
  <2>1. CASE Sending(e) /\ entries'[e].next = entries[e].next
    <3>1. since'[e] = since[e]
      BY <1>1, <2>1
    <3> QED
      BY <2>1, <3>1 DEF IInv, Caught
  <2>2. CASE entries'[e].next = sim
    BY <1>2, <2>2
  <2> QED
    BY <2>1, <2>2
<1>4. NoBackdatedSlots'
  BY DEF Track, NoBackdatedSlots
<1> QED
  BY <1>2, <1>3, <1>4 DEF IInv

LEMMA StepKeeps ==
    ASSUME IInv, TypeOK', NEW d \in Strides, Step(d)
    PROVE  IInv'
<1> DEFINE now == sim + d
           t(e) == Anchored(entries[e], now)
           due(e) == Sending(e) /\ t(e).next <= now
<1>1. sim \in Nat /\ d \in Nat /\ now \in Nat /\ sim <= now /\ since \in [Entries -> Nat]
  BY GeneratorAssumption DEF IInv, TypeOK
<1>2. sim' = now /\ phase = "running" /\ UNCHANGED <<mode, phase, simulated, logged, since>>
  BY DEF Step
<1>3. \A e \in Entries :
          /\ entries'[e] = IF due(e) THEN [t(e) EXCEPT !.next = Advance(t(e), now)] ELSE t(e)
          /\ out'[e] = IF due(e) THEN Slots(t(e), now) ELSE {}
  BY DEF Step
<1>4. ASSUME NEW e \in Entries
      PROVE  /\ entries[e] \in Entry /\ t(e) \in Entry
             /\ t(e).cycle = entries[e].cycle /\ t(e).active = entries[e].active
             /\ t(e).present = entries[e].present
             /\ t(e).next >= entries[e].next
             /\ mode = "Replay" /\ entries[e].present /\ entries[e].next = 0 => t(e).next = now
  <2>1. entries[e] \in Entry
    BY DEF IInv, TypeOK, Entry
  <2> QED
    BY <1>1, <2>1, AnchoredEntry
<1>5. ASSUME NEW e \in Entries, Sending(e) PROVE since[e] <= t(e).next
  <2>1. since[e] <= sim /\ since[e] \in Nat
    BY <1>1 DEF IInv
  <2>2. since[e] <= entries[e].next \/ (mode = "Replay" /\ entries[e].next = 0)
    BY <1>2, <1>5 DEF IInv, Caught
  <2>3. entries[e].present /\ entries[e].next \in Nat /\ t(e).next \in Nat
    BY <1>4, <1>5 DEF Sending, Entry
  <2> HIDE DEF t, now
  <2> QED
    BY <1>1, <1>4, <2>1, <2>2, <2>3
<1>6. ASSUME NEW e \in Entries, due(e)
      PROVE  Advance(t(e), now) \in Nat /\ Advance(t(e), now) >= t(e).next
  <2>1. t(e).cycle # 0
    BY <1>4, <1>6 DEF Sending
  <2> HIDE DEF t, now
  <2> QED
    BY <1>1, <1>4, <2>1, AdvanceLater
<1>7. ASSUME NEW e \in Entries PROVE Caught(e)'
  <2> SUFFICES ASSUME Sending(e)' PROVE since[e] <= entries'[e].next
    BY <1>2 DEF Caught
  <2>1. entries'[e].present = entries[e].present /\ entries'[e].active = entries[e].active
          /\ entries'[e].cycle = entries[e].cycle
    <3>1. t(e) \in Entry
      BY <1>4
    <3> HIDE DEF t, due, now
    <3> QED
      BY <1>3, <1>4, <3>1 DEF Entry
  <2>2. Sending(e)
    BY <1>2, <2>1 DEF Sending, GateOpen, Muted
  <2>3. since[e] <= t(e).next /\ t(e) \in Entry /\ since[e] \in Nat
    BY <1>1, <1>4, <1>5, <2>2
  <2>4. due(e) => Advance(t(e), now) \in Nat /\ Advance(t(e), now) >= t(e).next
    BY <1>6
  <2> HIDE DEF t, due, now
  <2>5. entries'[e].next = IF due(e) THEN Advance(t(e), now) ELSE t(e).next
    BY <1>3, <2>3 DEF Entry
  <2>6. t(e).next \in Nat
    BY <2>3 DEF Entry
  <2> QED
    BY <2>3, <2>4, <2>5, <2>6
<1>8. NoBackdatedSlots'
  <2> SUFFICES ASSUME NEW e \in Entries, NEW s \in out'[e] PROVE since[e] <= s
    BY <1>2 DEF NoBackdatedSlots
  <2>1. due(e) /\ s \in Slots(t(e), now)
    BY <1>3
  <2>2. since[e] <= t(e).next /\ t(e).next \in Nat /\ since[e] \in Nat
    BY <1>1, <1>4, <1>5, <2>1 DEF Entry
  <2>3. s \in t(e).next .. now
    <3>1. t(e) \in Entry
      BY <1>4
    <3> HIDE DEF t, due, now
    <3> QED
      BY <1>1, <2>1, <3>1, SlotsBounded
  <2> HIDE DEF t, due, now
  <2> QED
    BY <1>1, <2>2, <2>3
<1>9. \A e \in Entries : since'[e] <= sim'
  <2> HIDE DEF now
  <2> QED
    BY <1>1, <1>2 DEF IInv
<1> QED
  BY <1>7, <1>8, <1>9 DEF IInv

\* The step of the invariant.  With no edit that skips the anchoring during a
\* run, a command that lets an entry send moves its slot to the clock.
LEMMA InvNext == LiveEdits = {} /\ IInv /\ [Next]_vars => IInv'
<1> SUFFICES ASSUME LiveEdits = {}, IInv, [Next]_vars PROVE IInv'
  OBVIOUS
<1>t. TypeOK' /\ entries \in [Entries -> Entry] /\ sim \in Nat
  BY TypeNext DEF IInv, TypeOK, Entry
<1>1. ASSUME NEW m, Restart(m) PROVE IInv'
  <2>1. \A e \in Entries : since'[e] = 0 /\ out'[e] = {} /\ entries'[e].next \in Nat
    BY <1>1, <1>t DEF Restart, TypeOK
  <2>2. sim' = 0
    BY <1>1 DEF Restart
  <2> QED
    BY <1>t, <2>1, <2>2 DEF IInv, Caught, NoBackdatedSlots
<1>2. CASE StartVirtual
  BY <1>1, <1>2 DEF StartVirtual
<1>3. ASSUME NEW ids \in SUBSET Entries, StartReplay(ids) PROVE IInv'
  BY <1>1, <1>3 DEF StartReplay
<1>4. CASE Stop \/ Pause \/ Resume
  <2>1. /\ phase # "stopped" /\ Track
        /\ UNCHANGED <<mode, sim, entries, simulated, logged>>
    BY <1>4 DEF Stop, Pause, Resume, SetPhase
  <2>2. \A e \in Entries : Sending(e)' => Sending(e)
    BY <2>1 DEF Sending, GateOpen, Muted
  <2> QED
    BY <1>t, <2>1, <2>2, CommandKeeps
<1>5. ASSUME NEW d \in Strides, Step(d) PROVE IInv'
  BY <1>5, <1>t, StepKeeps
<1>6. ASSUME NEW span \in TimerSpans, ArmTimer(span) PROVE IInv'
  <2>1. Track /\ UNCHANGED <<mode, phase, sim, entries, simulated, logged>>
    BY <1>6 DEF ArmTimer
  <2>2. \A e \in Entries : Sending(e)' => Sending(e)
    BY <2>1 DEF Sending, GateOpen, Muted
  <2> QED
    BY <1>t, <2>1, <2>2, CommandKeeps
<1>7. ASSUME NEW e \in Entries, AddEntry(e) \/ RemoveEntry(e) PROVE IInv'
  <2>1. Track /\ UNCHANGED <<mode, phase, sim, simulated, logged>>
    BY <1>7 DEF AddEntry, RemoveEntry
  <2>2. /\ ~entries'[e].active
        /\ \A f \in Entries \ {e} : entries'[f] = entries[f]
    BY <1>7, <1>t DEF AddEntry, RemoveEntry, NewEntry, Absent
  <2>3. \A f \in Entries : Sending(f)' => Sending(f) /\ entries'[f].next = entries[f].next
    BY <2>1, <2>2 DEF Sending, GateOpen, Muted
  <2> QED
    BY <1>t, <2>1, <2>3, CommandKeeps
<1>8. ASSUME NEW e \in Entries, NEW on \in BOOLEAN, SetEntryActive(e, on) PROVE IInv'
  <2>1. Track /\ UNCHANGED <<mode, phase, sim, simulated, logged>>
    BY <1>8 DEF SetEntryActive
  <2>2. /\ entries'[e] = [entries[e] EXCEPT !.active = on, !.next = IF on THEN sim ELSE @]
        /\ \A f \in Entries \ {e} : entries'[f] = entries[f]
    BY <1>8, <1>t DEF SetEntryActive, Switched
  <2>3. \A f \in Entries : Sending(f)' =>
            \/ Sending(f) /\ entries'[f].next = entries[f].next
            \/ entries'[f].next = sim
    <3>1. ASSUME Sending(e)' PROVE entries'[e].next = sim
      <4>1. entries'[e].active /\ entries[e] \in Entry
        BY <1>t, <3>1 DEF Sending
      <4>2. CASE on
        BY <2>2, <4>1, <4>2 DEF Entry
      <4>3. CASE ~on
        BY <2>2, <4>1, <4>3 DEF Entry
      <4> QED
        BY <4>2, <4>3
    <3>2. ASSUME NEW f \in Entries \ {e}, Sending(f)'
          PROVE  Sending(f) /\ entries'[f].next = entries[f].next
      <4>1. entries'[f] = entries[f]
        BY <2>2, <3>2
      <4> QED
        BY <2>1, <3>2, <4>1 DEF Sending, GateOpen, Muted
    <3> QED
      BY <3>1, <3>2
  <2> QED
    BY <1>t, <2>1, <2>3, CommandKeeps
<1>9. ASSUME phase = "stopped", Track, UNCHANGED <<mode, phase, sim>> PROVE IInv'
  BY <1>9, <1>t, CommandKeeps
<1>10. ASSUME NEW e \in Entries, NEW c \in Cycles, SetEntryCycle(e, c) PROVE IInv'
  BY <1>10, <1>9 DEF SetEntryCycle
<1>11. ASSUME NEW e \in Entries, NEW on \in BOOLEAN, NEW c \in Cycles,
              SetEntryConfig(e, on, c)
       PROVE  IInv'
  BY <1>11, <1>9 DEF SetEntryConfig
<1>12. ASSUME NEW roles \in SUBSET Nodes, PinRoles(roles) PROVE IInv'
  BY <1>12, <1>9 DEF PinRoles
<1>13. ASSUME NEW ids \in SUBSET Entries, SetReplayMap(ids) PROVE IInv'
  BY <1>13, <1>9 DEF SetReplayMap
<1>14. ASSUME NEW n \in Nodes, Simulate(n) PROVE IInv'
  <2>1. Track /\ UNCHANGED <<mode, phase, sim, logged>> /\ simulated' = simulated \cup {n}
    BY <1>14 DEF Simulate
  <2>2. \A e \in Entries : entries'[e] = Roled(e, n)
    BY <1>14 DEF Simulate
  <2>3. ASSUME NEW e \in Entries, Sending(e)'
        PROVE  \/ Sending(e) /\ entries'[e].next = entries[e].next
               \/ entries'[e].next = sim
    <3>1. CASE NodeOf[e] # n
      <4>1. entries'[e] = entries[e]
        BY <2>2, <3>1 DEF Roled
      <4> QED
        BY <2>1, <2>3, <3>1, <4>1 DEF Sending, GateOpen, Muted
    <3>2. CASE NodeOf[e] = n
      <4>0. entries'[e].active /\ entries'[e] = Roled(e, n)
        BY <2>2, <2>3 DEF Sending
      <4>1. entries[e].present /\ entries[e].active
        <5>1. CASE ~entries[e].present
          BY <3>2, <4>0, <5>1 DEF Roled, NewEntry
        <5>2. CASE entries[e].present /\ ~entries[e].active
          BY <3>2, <4>0, <5>2 DEF Roled
        <5> QED
          BY <5>1, <5>2
      <4>2. entries'[e] = [entries[e] EXCEPT !.next = sim] /\ entries[e] \in Entry
        BY <1>t, <2>2, <3>2, <4>1 DEF Roled
      <4> QED
        BY <4>2 DEF Entry
    <3> QED
      BY <3>1, <3>2
  <2> QED
    BY <1>t, <2>1, <2>3, CommandKeeps
<1>15. ASSUME NEW n \in Nodes, Retire(n) PROVE IInv'
  <2>1. Track /\ UNCHANGED <<mode, phase, sim, entries, logged>> /\ simulated' \subseteq simulated
    BY <1>15 DEF Retire
  <2>2. \A e \in Entries : Sending(e)' => Sending(e)
    BY <2>1 DEF Sending, GateOpen, Muted
  <2> QED
    BY <1>t, <2>1, <2>2, CommandKeeps
<1>16. CASE UNCHANGED vars
  BY <1>16 DEF vars, IInv, TypeOK, Caught, Sending, GateOpen, Muted, NoBackdatedSlots
<1> QED
  BY <1>2, <1>3, <1>4, <1>5, <1>6, <1>7, <1>8, <1>10, <1>11, <1>12, <1>13, <1>14,
     <1>15, <1>16 DEF Next

\* "A re-enabled entry starts sending from now", for the switch, the role and
\* both kinds of start, as long as no period is edited, row restored, role
\* pinned or log remapped during the run.
THEOREM NeverBackdated == LiveEdits = {} /\ Spec => []NoBackdatedSlots
<1>1. IInv => NoBackdatedSlots
  BY DEF IInv
<1>2. CASE LiveEdits = {}
  <2>1. IInv /\ [Next]_vars => IInv'
    BY <1>2, InvNext
  <2> QED
    BY <1>1, <2>1, InvInit, PTL DEF Spec
<1> QED
  BY <1>2
-----------------------------------------------------------------------------
(* Spacing.  The slots of one burst are the multiples of the period past the *)
(* last slot sent, so the facts needed are about multiples and remainders.   *)

\* Quotient and remainder of a multiple, and of what is not quite the next.
LEMMA Quotient ==
    ASSUME NEW q \in Nat, NEW r \in Nat, NEW c \in Nat \ {0}, r < c
    PROVE  (c * q + r) \div c = q /\ (c * q + r) % c = r
OBVIOUS

LEMMA Multiple ==
    ASSUME NEW m \in Nat, NEW c \in Nat \ {0}
    PROVE  c * m \in Nat /\ (c * m) % c = 0 /\ (c * m) \div c = m
OBVIOUS

LEMMA Ordered ==
    ASSUME NEW m \in Nat, NEW k \in Nat, NEW c \in Nat \ {0}
    PROVE  c * m <= c * k <=> m <= k
OBVIOUS

LEMMA Floor ==
    ASSUME NEW a \in Nat, NEW c \in Nat \ {0}
    PROVE  a \div c \in Nat /\ c * (a \div c) <= a /\ a < c * (a \div c + 1)
<1>1. a \div c \in Nat
  OBVIOUS
<1>2. c * (a \div c) <= a
  OBVIOUS
<1>3. a < c * (a \div c + 1)
  OBVIOUS
<1> QED
  BY <1>1, <1>2, <1>3

\* A number without remainder is a multiple.
LEMMA Divides ==
    ASSUME NEW a \in Nat, NEW c \in Nat \ {0}, a % c = 0
    PROVE  \E m \in Nat : a = c * m
<1> DEFINE q == a \div c
<1>1. q \in Nat /\ c * q <= a /\ a < c * (q + 1)
  BY Floor
<1> HIDE DEF q
<1>2. PICK p \in Nat : p = c * q
  BY <1>1, Multiple
<1>3. c * (q + 1) = p + c
  BY <1>1, <1>2
<1>4. a - p \in Nat /\ a - p < c
  BY <1>1, <1>2, <1>3
<1>5. (c * q + (a - p)) % c = a - p
  BY <1>1, <1>4, Quotient
<1>6. c * q + (a - p) = a
  BY <1>2
<1>7. a = c * q
  BY <1>2, <1>4, <1>5, <1>6
<1> QED
  BY <1>1, <1>7

\* What a burst of k slots after the one at p sends, and where it ends.
LEMMA Burst ==
    ASSUME NEW t \in Entry, NEW now \in Nat, NEW p \in Nat,
           t.cycle # 0, t.next = p + t.cycle, t.next <= now
    PROVE  LET last == Advance(t, now) - t.cycle
           IN  /\ last \in Nat
               /\ p + t.cycle \in Slots(t, now)
               /\ Slots(t, now) = {s \in (p + 1) .. last : (s - p) % t.cycle = 0}
<1> DEFINE c == t.cycle
           late == (now - t.next) \div c
           k == Min2(Budget, late + 1)
           j == k - 1
<1>1. c \in Nat \ {0} /\ t.next \in Nat /\ Budget \in Nat \ {0} /\ now - t.next \in Nat
  BY GeneratorAssumption DEF Entry
<1> HIDE DEF c
<1>2. late \in Nat /\ c * late <= now - t.next /\ now - t.next < c * (late + 1)
  BY <1>1, Floor
<1> HIDE DEF late
<1>3. k \in Nat \ {0} /\ k <= Budget /\ k <= late + 1 /\ (k = Budget \/ k = late + 1)
  BY <1>1, <1>2 DEF Min2
<1>4. Advance(t, now) = t.next + k * c
  BY <1>1 DEF Advance, k, late, c
<1> HIDE DEF k
<1>5. PICK w \in Nat : w = c * k
  BY <1>1, <1>3, Multiple
<1>6. Advance(t, now) = p + c + w /\ t.next = p + c
  <2>1. k * c = c * k
    BY <1>1, <1>3
  <2> QED
    BY <1>1, <1>4, <1>5, <2>1 DEF c
<1>7. Advance(t, now) - c = p + w
  BY <1>1, <1>6
<1>8. ASSUME NEW s \in Slots(t, now)
      PROVE  s \in (p + 1) .. (p + w) /\ (s - p) % c = 0
  <2>1. s \in t.next .. now /\ (s - t.next) % c = 0 /\ (s - t.next) \div c < Budget
    BY DEF Slots, c
  <2> DEFINE a == s - t.next
  <2>2. a \in Nat /\ a <= now - t.next /\ s = t.next + a
    BY <1>1, <2>1
  <2> HIDE DEF a
  <2>3. a % c = 0 /\ a \div c < Budget
    BY <2>1 DEF a
  <2>4. PICK m \in Nat : a = c * m
    BY <1>1, <2>2, <2>3, Divides
  <2>5. m < Budget
    BY <1>1, <2>3, <2>4, Multiple
  <2>6. m <= late
    <3>1. c * m < c * (late + 1)
      BY <1>1, <1>2, <2>2, <2>4
    <3>2. ~(c * (late + 1) <= c * m)
      <4>1. c * m \in Nat /\ c * (late + 1) \in Nat
        BY <1>1, <1>2, Multiple
      <4> QED
        BY <3>1, <4>1
    <3>3. ~(late + 1 <= m)
      BY <1>1, <1>2, <3>2, Ordered
    <3> QED
      BY <1>2, <3>3
  <2>7. m + 1 <= k
    BY <1>1, <1>2, <1>3, <2>5, <2>6
  <2>8. PICK v \in Nat : v = c * (m + 1)
    BY <1>1, Multiple
  <2>9. v <= w
    BY <1>1, <1>3, <1>5, <2>7, <2>8, Ordered
  <2>10. v = c + c * m
    BY <1>1, <2>8
  <2>11. s = p + v
    BY <1>1, <1>6, <2>2, <2>4, <2>10
  <2>12. v % c = 0
    BY <1>1, <2>8, Multiple
  <2>13. v >= 1
    <3>1. c * m \in Nat
      BY <1>1, Multiple
    <3> QED
      BY <1>1, <2>10, <3>1
  <2>14. s - p = v
    BY <2>11
  <2> QED
    BY <1>1, <2>9, <2>11, <2>12, <2>13, <2>14
<1>9. ASSUME NEW s \in (p + 1) .. (p + w), (s - p) % c = 0
      PROVE  s \in Slots(t, now)
  <2>1. s - p \in Nat \ {0} /\ s - p <= w
    OBVIOUS
  <2>2. PICK m \in Nat : s - p = c * m
    BY <1>1, <1>9, <2>1, Divides
  <2>3. m # 0
    BY <1>1, <2>1, <2>2
  <2>4. m <= k
    BY <1>1, <1>3, <1>5, <2>1, <2>2, Ordered
  <2>5. PICK i \in Nat : m = i + 1
    <3>1. m - 1 \in Nat
      BY <2>3
    <3> QED
      BY <3>1
  <2>6. PICK v \in Nat : v = c * i
    BY <1>1, Multiple
  <2>7. c * m = c + v
    BY <1>1, <2>5, <2>6
  <2>8. s = t.next + v
    BY <1>1, <1>6, <2>2, <2>7
  <2>9. i <= late /\ i < Budget
    BY <1>1, <1>2, <1>3, <2>4, <2>5
  <2>10. c * i <= c * late
    BY <1>1, <1>2, <2>9, Ordered
  <2>11. v <= now - t.next
    <3>1. c * late \in Nat
      BY <1>1, <1>2, Multiple
    <3> QED
      BY <1>1, <1>2, <2>6, <2>10, <3>1
  <2>12. v % c = 0 /\ v \div c = i
    BY <1>1, <2>6, Multiple
  <2>13. s - t.next = v /\ s \in t.next .. now
    BY <1>1, <2>8, <2>11
  <2> QED
    BY <2>9, <2>12, <2>13 DEF Slots, c
<1>10. p + c \in Slots(t, now)
  <2>1. p + c - t.next = 0
    BY <1>1, <1>6
  <2>2. 0 % c = 0 /\ 0 \div c = 0
    BY <1>1
  <2>3. p + c \in t.next .. now
    BY <1>1, <1>6
  <2> QED
    BY <1>1, <2>1, <2>2, <2>3 DEF Slots, c
<1>11. Slots(t, now) \subseteq Nat
  BY SlotsBounded
<1>12. Slots(t, now) = {s \in (p + 1) .. (p + w) : (s - p) % c = 0}
  BY <1>8, <1>9
<1> QED
  BY <1>7, <1>10, <1>12 DEF c
\* A slot was sent since the entry was last let send: the entry may still send,
\* and its next slot is one period later.
Spacing ==
    \A e \in Entries : prev[e] # None =>
        /\ Sending(e)
        /\ entries[e].next = prev[e] + entries[e].cycle

SpacedInv == TypeOK /\ Spacing

LEMMA SpacingInit == Init => SpacedInv
BY TypeInit DEF Init, SpacedInv, Spacing

\* A command keeps an entry's period or sends its slot back to zero.
LEMMA CommandSpaces ==
    ASSUME SpacedInv, TypeOK', Track,
           \A e \in Entries : entries'[e].cycle = entries[e].cycle \/ entries'[e].next = 0
    PROVE  Spacing'
<1> SUFFICES ASSUME NEW e \in Entries, prev'[e] # None
             PROVE  Sending(e)' /\ entries'[e].next = prev'[e] + entries'[e].cycle
  BY DEF Spacing
<1>1. /\ Sending(e)' /\ Sending(e) /\ entries'[e].next = entries[e].next
      /\ prev'[e] = prev[e]
  BY DEF Track
<1>2. entries[e].next = prev[e] + entries[e].cycle
  BY <1>1 DEF SpacedInv, Spacing
<1>3. prev[e] \in Nat /\ entries[e].cycle \in Nat /\ entries[e].cycle # 0
  BY <1>1 DEF SpacedInv, TypeOK, Sending
<1>4. entries'[e].cycle = entries[e].cycle
  BY <1>1, <1>2, <1>3
<1> QED
  BY <1>1, <1>2, <1>4

\* What a step does to an entry that sent before: its slots go out up to the
\* new prev, with the period between them.
LEMMA StepSpaces ==
    ASSUME SpacedInv, NEW d \in Strides, Step(d), NEW e \in Entries
    PROVE  /\ prev'[e] # None =>
                Sending(e)' /\ entries'[e].next = prev'[e] + entries'[e].cycle
           /\ out'[e] # {} /\ prev[e] # None =>
                /\ prev[e] + entries[e].cycle \in out'[e]
                /\ out'[e] = {s \in (prev[e] + 1) .. prev'[e] :
                                 (s - prev[e]) % entries[e].cycle = 0}
<1> DEFINE now == sim + d
           t == Anchored(entries[e], now)
           due == Sending(e) /\ t.next <= now
<1>1. /\ now \in Nat /\ entries[e] \in Entry
      /\ prev[e] \in Nat \cup {None} /\ None \notin Nat
  BY GeneratorAssumption DEF SpacedInv, TypeOK, Entry
<1>2. /\ entries'[e] = IF due THEN [t EXCEPT !.next = Advance(t, now)] ELSE t
      /\ out'[e] = IF due THEN Slots(t, now) ELSE {}
      /\ prev'[e] = IF due THEN Advance(t, now) - entries[e].cycle ELSE prev[e]
      /\ UNCHANGED <<mode, simulated, logged>>
  BY DEF Step
<1>3. /\ t \in Entry /\ t.cycle = entries[e].cycle /\ t.active = entries[e].active
      /\ t.present = entries[e].present
  BY <1>1, AnchoredEntry
<1>4. prev[e] # None =>
          /\ t = entries[e] /\ Sending(e)
          /\ entries[e].next = prev[e] + entries[e].cycle
  <2> SUFFICES ASSUME prev[e] # None
               PROVE  /\ t = entries[e] /\ Sending(e)
                      /\ entries[e].next = prev[e] + entries[e].cycle
    OBVIOUS
  <2>1. Sending(e) /\ entries[e].next = prev[e] + entries[e].cycle
    BY DEF SpacedInv, Spacing
  <2>2. entries[e].next # 0
    BY <1>1, <2>1 DEF Sending, Entry
  <2> QED
    BY <2>1, <2>2 DEF Anchored
<1>5. due => t.cycle # 0 /\ t.next <= now
  BY <1>3 DEF Sending
<1>6. Sending(e)' <=> Sending(e)
  <2>1. entries'[e].cycle = t.cycle /\ entries'[e].active = t.active
          /\ entries'[e].present = t.present
    <3> HIDE DEF t, now, due
    <3> QED
      BY <1>2, <1>3 DEF Entry
  <2> HIDE DEF t, now, due
  <2> QED
    BY <1>2, <1>3, <2>1 DEF Sending, GateOpen, Muted
<1>7. due => Advance(t, now) \in Nat /\ Advance(t, now) - t.cycle \in Nat
  <2> HIDE DEF t, now, due
  <2> QED
    BY <1>1, <1>3, <1>5, AdvanceLater
<1>8. ASSUME prev'[e] # None
      PROVE  Sending(e)' /\ entries'[e].next = prev'[e] + entries'[e].cycle
  <2>1. CASE due
    <3>1. Sending(e)
      BY <2>1
    <3> HIDE DEF t, now, due
    <3>2. entries'[e].next = Advance(t, now) /\ entries'[e].cycle = t.cycle
      BY <1>2, <1>3, <2>1 DEF Entry
    <3>3. prev'[e] = Advance(t, now) - t.cycle
      BY <1>2, <1>3, <2>1
    <3>4. t.cycle \in Nat
      BY <1>3 DEF Entry
    <3> QED
      BY <1>6, <1>7, <2>1, <3>1, <3>2, <3>3, <3>4
  <2>2. CASE ~due
    <3> HIDE DEF t, now, due
    <3>1. entries'[e] = t /\ prev'[e] = prev[e]
      BY <1>2, <2>2
    <3> QED
      BY <1>4, <1>6, <1>8, <3>1
  <2> QED
    BY <2>1, <2>2
<1>9. ASSUME out'[e] # {}, prev[e] # None
      PROVE  /\ prev[e] + entries[e].cycle \in out'[e]
             /\ out'[e] = {s \in (prev[e] + 1) .. prev'[e] :
                              (s - prev[e]) % entries[e].cycle = 0}
  <2>1. due
    BY <1>2, <1>9
  <2>2. prev[e] \in Nat
    BY <1>1, <1>9
  <2> HIDE DEF now, due, t
  <2>3. entries[e].cycle # 0 /\ entries[e].next = prev[e] + entries[e].cycle
          /\ entries[e].next <= now
    BY <1>3, <1>4, <1>5, <1>9, <2>1
  <2>4. /\ out'[e] = Slots(entries[e], now)
        /\ prev'[e] = Advance(entries[e], now) - entries[e].cycle
    BY <1>2, <1>4, <1>9, <2>1
  <2>5. /\ prev[e] + entries[e].cycle \in Slots(entries[e], now)
        /\ Slots(entries[e], now) =
             {s \in (prev[e] + 1) .. (Advance(entries[e], now) - entries[e].cycle) :
                 (s - prev[e]) % entries[e].cycle = 0}
    BY <1>1, <2>2, <2>3, Burst
  <2> QED
    BY <2>4, <2>5
<1> QED
  BY <1>8, <1>9

\* The step of the invariant, and what the step sends.
LEMMA SpacingNext ==
    ASSUME SpacedInv, [Next]_vars
    PROVE  /\ SpacedInv'
           /\ [\A e \in Entries : out'[e] # {} /\ prev[e] # None =>
                  /\ prev[e] + entries[e].cycle \in out'[e]
                  /\ out'[e] = {s \in (prev[e] + 1) .. prev'[e] :
                                   (s - prev[e]) % entries[e].cycle = 0}]_vars
<1> DEFINE Even == \A e \in Entries : out'[e] # {} /\ prev[e] # None =>
                  /\ prev[e] + entries[e].cycle \in out'[e]
                  /\ out'[e] = {s \in (prev[e] + 1) .. prev'[e] :
                                   (s - prev[e]) % entries[e].cycle = 0}
<1>t. TypeOK /\ TypeOK' /\ entries \in [Entries -> Entry]
  BY TypeNext DEF SpacedInv, TypeOK, Entry
<1>c. ASSUME Track,
             \A e \in Entries : entries'[e].cycle = entries[e].cycle \/ entries'[e].next = 0
      PROVE  Spacing' /\ Even
  <2>1. Spacing'
    BY <1>c, <1>t, CommandSpaces
  <2>2. \A e \in Entries : out'[e] = {}
    BY <1>c DEF Track
  <2> QED
    BY <2>1, <2>2
<1>1. ASSUME NEW m, Restart(m) PROVE Spacing' /\ Even
  <2>1. \A e \in Entries : prev'[e] = None /\ out'[e] = {}
    BY <1>1 DEF Restart
  <2> QED
    BY <2>1 DEF Spacing
<1>2. ASSUME StartVirtual PROVE Spacing' /\ Even
  BY <1>1, <1>2 DEF StartVirtual
<1>3. ASSUME NEW ids \in SUBSET Entries, StartReplay(ids) PROVE Spacing' /\ Even
  BY <1>1, <1>3 DEF StartReplay
<1>4. ASSUME NEW d \in Strides, Step(d) PROVE Spacing' /\ Even
  <2>1. Spacing'
    BY <1>4, StepSpaces DEF Spacing
  <2>2. Even
    BY <1>4, StepSpaces
  <2> QED
    BY <2>1, <2>2
<1>5. ASSUME Track, UNCHANGED entries PROVE Spacing' /\ Even
  BY <1>5, <1>c
<1>6. ASSUME Stop \/ Pause \/ Resume PROVE Spacing' /\ Even
  BY <1>5, <1>6 DEF Stop, Pause, Resume, SetPhase
<1>7. ASSUME NEW span \in TimerSpans, ArmTimer(span) PROVE Spacing' /\ Even
  BY <1>5, <1>7 DEF ArmTimer
<1>8. ASSUME NEW e \in Entries, NEW x \in Entry, Track, entries' = [entries EXCEPT ![e] = x],
             x.cycle = entries[e].cycle \/ x.next = 0
      PROVE  Spacing' /\ Even
  <2>1. \A f \in Entries : entries'[f] = IF f = e THEN x ELSE entries[f]
    BY <1>8, <1>t
  <2> QED
    BY <1>8, <1>c, <2>1
<1>9. ASSUME NEW e \in Entries, AddEntry(e) \/ RemoveEntry(e) PROVE Spacing' /\ Even
  <2>1. NewEntry \in Entry /\ NewEntry.next = 0 /\ Absent \in Entry /\ Absent.next = 0
    BY GeneratorAssumption DEF NewEntry, Absent, Entry
  <2> QED
    BY <1>8, <1>9, <2>1 DEF AddEntry, RemoveEntry
<1>10. ASSUME NEW e \in Entries, NEW on \in BOOLEAN, SetEntryActive(e, on)
       PROVE  Spacing' /\ Even
  <2>1. Switched(entries[e], on) \in Entry /\ Switched(entries[e], on).cycle = entries[e].cycle
    <3>1. entries[e] \in Entry /\ sim \in Nat
      BY <1>t DEF TypeOK
    <3> QED
      BY <3>1 DEF Switched, Entry
  <2>2. Track /\ entries' = [entries EXCEPT ![e] = Switched(entries[e], on)]
    BY <1>10 DEF SetEntryActive
  <2> QED
    BY <1>8, <2>1, <2>2
<1>11. ASSUME NEW e \in Entries, NEW c \in Cycles, SetEntryCycle(e, c) PROVE Spacing' /\ Even
  <2> DEFINE x == [entries[e] EXCEPT !.cycle = c, !.next = 0]
  <2>1. x \in Entry /\ x.next = 0
    <3>1. entries[e] \in Entry /\ c \in Nat
      BY <1>t, GeneratorAssumption
    <3> QED
      BY <3>1 DEF Entry
  <2>2. Track /\ entries' = [entries EXCEPT ![e] = x]
    BY <1>11 DEF SetEntryCycle
  <2> HIDE DEF x
  <2> QED
    BY <1>8, <2>1, <2>2
<1>12. ASSUME NEW e \in Entries, NEW on \in BOOLEAN, NEW c \in Cycles, SetEntryConfig(e, on, c)
       PROVE  Spacing' /\ Even
  <2> DEFINE x == [entries[e] EXCEPT !.active = on, !.cycle = c, !.next = 0]
  <2>1. x \in Entry /\ x.next = 0
    <3>1. entries[e] \in Entry /\ c \in Nat
      BY <1>t, GeneratorAssumption
    <3> QED
      BY <3>1 DEF Entry
  <2>2. Track /\ entries' = [entries EXCEPT ![e] = x]
    BY <1>12 DEF SetEntryConfig
  <2> HIDE DEF x
  <2> QED
    BY <1>8, <2>1, <2>2
<1>13. ASSUME NEW roles \in SUBSET Nodes, PinRoles(roles) PROVE Spacing' /\ Even
  BY <1>5, <1>13 DEF PinRoles
<1>14. ASSUME NEW ids \in SUBSET Entries, SetReplayMap(ids) PROVE Spacing' /\ Even
  BY <1>5, <1>14 DEF SetReplayMap
<1>15. ASSUME NEW n \in Nodes, Retire(n) PROVE Spacing' /\ Even
  BY <1>5, <1>15 DEF Retire
<1>16. ASSUME NEW n \in Nodes, Simulate(n) PROVE Spacing' /\ Even
  <2>1. ASSUME NEW e \in Entries
        PROVE  entries'[e].cycle = entries[e].cycle \/ entries'[e].next = 0
    <3>1. entries'[e] = Roled(e, n) /\ entries[e] \in Entry
      BY <1>16, <1>t DEF Simulate
    <3> QED
      BY <3>1 DEF Roled, NewEntry, Entry
  <2> QED
    BY <1>16, <1>c, <2>1 DEF Simulate
<1>17. CASE UNCHANGED vars
  <2>1. Spacing'
    BY <1>17 DEF SpacedInv, Spacing, vars, Sending, GateOpen, Muted
  <2> QED
    BY <1>17, <1>t, <2>1 DEF SpacedInv
<1>18. CASE Next
  <2>1. Spacing' /\ Even
    BY <1>2, <1>3, <1>4, <1>6, <1>7, <1>9, <1>10, <1>11, <1>12, <1>13, <1>14, <1>15, <1>16,
       <1>18 DEF Next
  <2> QED
    BY <1>t, <2>1 DEF SpacedInv
<1> QED
  BY <1>17, <1>18

\* "Spacing stays exactly cycle_us even in the catch-up burst": for every
\* period, stride and budget, and whatever is edited in between.
THEOREM SpacingIsEven == Spec => EvenSpacing
<1>1. SpacedInv /\ [Next]_vars =>
          /\ SpacedInv'
          /\ [\A e \in Entries : out'[e] # {} /\ prev[e] # None =>
                 /\ prev[e] + entries[e].cycle \in out'[e]
                 /\ out'[e] = {s \in (prev[e] + 1) .. prev'[e] :
                                  (s - prev[e]) % entries[e].cycle = 0}]_vars
  BY SpacingNext
<1> QED
  BY <1>1, SpacingInit, PTL DEF Spec, EvenSpacing
-----------------------------------------------------------------------------
(* The deadline the thread sleeps for.                                       *)

\* Every set of naturals that is not empty has a least element.
LEMMA LeastNat ==
    ASSUME NEW S \in SUBSET Nat, S # {}
    PROVE  \E m \in S : \A n \in S : m <= n
<1> DEFINE R == {ss \in Nat \X Nat : ss[1] < ss[2]}
<1>1. IsWellFoundedOn(R, Nat)
  BY NatLessThanWellFounded DEF OpToRel
<1>2. \A x, y \in Nat : x < y => <<x, y>> \in R
  OBVIOUS
<1> HIDE DEF R
<1>3. PICK m \in S : \A n \in S : ~(<<n, m>> \in R)
  BY <1>1, WFMin
<1>4. ASSUME NEW n \in S PROVE m <= n
  <2>1. ~(n < m)
    BY <1>2, <1>3
  <2> QED
    BY <2>1
<1> QED
  BY <1>4

\* A bus that runs names no deadline only when no CAN entry may send; one it
\* names is a lower bound of everything due.
LEMMA DeadlineIsLeast ==
    ASSUME TypeOK, phase = "running"
    PROVE  /\ CanDue \subseteq Nat
           /\ NextDeadline = None => CanDue = {}
           /\ NextDeadline # None =>
                 NextDeadline \in Nat /\ \A x \in CanDue \cup timers : NextDeadline <= x
<1>1. CanDue \subseteq Nat
  BY DEF CanDue, TypeOK
<1>2. ASSUME CanDue # {}
      PROVE  NextDeadline \in Nat /\ \A x \in CanDue \cup timers : NextDeadline <= x
  <2> DEFINE all == CanDue \cup timers
  <2>1. all \in SUBSET Nat /\ all # {}
    BY <1>1, <1>2 DEF TypeOK
  <2>2. NextDeadline = CHOOSE m \in all : \A x \in all : m <= x
    BY <1>2 DEF NextDeadline
  <2> HIDE DEF all
  <2>3. \E m \in all : \A x \in all : m <= x
    BY <2>1, LeastNat
  <2>4. NextDeadline \in all /\ \A x \in all : NextDeadline <= x
    BY <2>2, <2>3
  <2> QED
    BY <2>1, <2>4 DEF all
<1>3. CanDue = {} => NextDeadline = None
  BY DEF NextDeadline
<1> QED
  BY <1>1, <1>2, <1>3, GeneratorAssumption

\* A lap of a virtual run taken by its deadline sends and fires nothing late.
LEMMA LapOnTime ==
    ASSUME TypeOK, NEW d \in Strides, Step(d), mode = "Virtual", sim' > sim
    PROVE  /\ NextDeadline = None => \A e \in Entries \ FrEntries : out'[e] = {}
           /\ NextDeadline # None /\ sim' <= NextDeadline =>
                 /\ \A e \in Entries \ FrEntries : out'[e] \subseteq {sim'}
                 /\ timers \ timers' \subseteq {sim'}
<1>1. sim \in Nat /\ sim' \in Nat /\ sim' = sim + d /\ phase = "running"
        /\ timers' = {x \in timers : x > sim'} /\ timers \subseteq Nat
  BY GeneratorAssumption DEF Step, TypeOK
<1>2. ASSUME NEW e \in Entries, out'[e] # {}
      PROVE  Sending(e) /\ entries[e] \in Entry /\ out'[e] \subseteq entries[e].next .. sim'
  <2>1. entries[e] \in Entry /\ Anchored(entries[e], sim + d) = entries[e]
    BY DEF TypeOK, Entry, Anchored
  <2>2. Sending(e) /\ out'[e] = Slots(entries[e], sim')
    BY <1>1, <1>2, <2>1 DEF Step
  <2> QED
    BY <1>1, <2>1, <2>2, SlotsBounded
<1>3. ASSUME NEW e \in Entries \ FrEntries, Sending(e)
      PROVE  (IF entries[e].next > sim THEN entries[e].next ELSE sim) \in CanDue
  BY <1>3 DEF CanDue, Sending
<1>4. ASSUME NextDeadline = None, NEW e \in Entries \ FrEntries PROVE out'[e] = {}
  BY <1>1, <1>2, <1>3, <1>4, DeadlineIsLeast
<1>5. ASSUME NextDeadline # None, sim' <= NextDeadline
      PROVE  /\ \A e \in Entries \ FrEntries : out'[e] \subseteq {sim'}
             /\ timers \ timers' \subseteq {sim'}
  <2>1. NextDeadline \in Nat /\ \A x \in CanDue \cup timers : NextDeadline <= x
    BY <1>1, <1>5, DeadlineIsLeast
  <2>2. ASSUME NEW e \in Entries \ FrEntries, NEW s \in out'[e] PROVE s = sim'
    <3>1. Sending(e) /\ entries[e].next \in Nat /\ s \in entries[e].next .. sim'
      BY <1>2 DEF Entry
    <3>2. NextDeadline <= (IF entries[e].next > sim THEN entries[e].next ELSE sim)
      BY <1>3, <2>1, <3>1
    <3> QED
      BY <1>1, <1>5, <2>1, <3>1, <3>2
  <2>3. ASSUME NEW x \in timers \ timers' PROVE x = sim'
    BY <1>1, <1>5, <2>1
  <2> QED
    BY <2>2, <2>3
<1> QED
  BY <1>4, <1>5

\* "The loop must wake for them": a lap taken no later than the deadline the
\* bus named is on time for every CAN slot and node timer.
THEOREM LapsAreOnTime == Spec => OnTimeByDeadline
<1> DEFINE Timely == mode = "Virtual" /\ sim' > sim =>
          /\ NextDeadline = None => \A e \in Entries \ FrEntries : out'[e] = {}
          /\ NextDeadline # None /\ sim' <= NextDeadline =>
                /\ \A e \in Entries \ FrEntries : out'[e] \subseteq {sim'}
                /\ timers \ timers' \subseteq {sim'}
<1>1. TypeOK /\ [Next]_vars => [Timely]_vars
  <2> SUFFICES ASSUME TypeOK, Next, mode = "Virtual", sim' > sim PROVE Timely
    OBVIOUS
  <2>1. sim \in Nat
    BY DEF TypeOK
  <2>2. ~(0 > sim) /\ ~(sim > sim)
    BY <2>1
  <2>3. ~StartVirtual /\ \A ids \in SUBSET Entries : ~StartReplay(ids) /\ ~SetReplayMap(ids)
    BY <2>2 DEF StartVirtual, StartReplay, Restart, SetReplayMap
  <2>4. ~Stop /\ ~Pause /\ ~Resume /\ \A span \in TimerSpans : ~ArmTimer(span)
    BY <2>2 DEF Stop, Pause, Resume, SetPhase, ArmTimer
  <2>5. \A e \in Entries :
            /\ ~AddEntry(e) /\ ~RemoveEntry(e)
            /\ \A on \in BOOLEAN : ~SetEntryActive(e, on)
            /\ \A c \in Cycles : ~SetEntryCycle(e, c)
            /\ \A on \in BOOLEAN, c \in Cycles : ~SetEntryConfig(e, on, c)
    BY <2>2 DEF AddEntry, RemoveEntry, SetEntryActive, SetEntryCycle, SetEntryConfig
  <2>6. /\ \A n \in Nodes : ~Simulate(n) /\ ~Retire(n)
        /\ \A roles \in SUBSET Nodes : ~PinRoles(roles)
    BY <2>2 DEF Simulate, Retire, PinRoles
  <2>7. PICK d \in Strides : Step(d)
    BY <2>3, <2>4, <2>5, <2>6 DEF Next
  <2> QED
    BY <2>7, LapOnTime
<1> HIDE DEF Timely
<1>2. Spec => [][Timely]_vars
  BY <1>1, TypeCorrect, PTL DEF Spec
<1> QED
  BY <1>2 DEF OnTimeByDeadline, Timely
=============================================================================
