------------------------- MODULE NetworkManagement -------------------------
(***************************************************************************)
(* The network-management state the core keeps of every NM PDU it has seen  *)
(* on Ethernet (bus.rs: ingest_eth_nm, expire_nm_states).                   *)
(*                                                                         *)
(* A frame sets the state and is stamped by its source; the state decays on *)
(* the sim clock, looked at once per publish.  The stamp may lie ahead of   *)
(* the sim clock: a replay moves that clock by its CAN frames alone.        *)
(***************************************************************************)
EXTENDS Integers, FiniteSets, FiniteSetsExt

CONSTANTS
    Pdus,       \* the NM PDUs on the buses, one per bus and name
    Timings,    \* the timings a script or a database may ask for
    Default,    \* the timing in force until one does
    NoTiming,   \* a model value: nobody has
    MaxNmSim,   \* bound: the sim clock
    Lead        \* bound: how far a stamp runs ahead of the sim clock

ASSUME NmAssumption ==
    /\ Timings \subseteq [ready : Nat, prepare : Nat, timeout : Nat]
    /\ Default \in Timings /\ NoTiming \notin Timings
    /\ MaxNmSim \in Nat /\ Lead \in Nat

VARIABLES
    nmSim,   \* sim_t_us, here in ticks
    nm,      \* nm_states: the track of every PDU, or Untracked
    timing,  \* nm_timing
    ready    \* history: the stamp of the frame that last made the PDU ready to sleep

nmVars == <<nmSim, nm, timing, ready>>

Awake == {"RepeatMessage", "NormalOperation", "ReadySleep"}
States == Awake \cup {"PrepareBusSleep", "BusSleep"}
Untracked == [state |-> "Untracked", since |-> 0, seen |-> 0]

\* The state the bits of a frame announce: a repeat request is stronger than
\* readiness to sleep.
Announced(repeat, sleep) ==
    IF repeat THEN "RepeatMessage" ELSE IF sleep THEN "ReadySleep" ELSE "NormalOperation"

\* mutant: readiness counts from the last frame that said so
TrackRestarted(track, next, t) == [state |-> next, since |-> t, seen |-> t]
Track(track, next, t) ==
    [state |-> next,
     since |-> IF track.state = next THEN track.since ELSE t,
     seen  |-> t]

NmFrame(p, repeat, sleep, t) ==
    LET next == Announced(repeat, sleep) IN
    /\ t \in nmSim .. nmSim + Lead
    /\ nm' = [nm EXCEPT ![p] = Track(@, next, t)]
    /\ ready' = [ready EXCEPT ![p] = IF next = "ReadySleep" /\ nm[p].state # next THEN t ELSE @]
    /\ UNCHANGED <<nmSim, timing>>

Current == IF timing = NoTiming THEN Default ELSE timing

\* saturating_sub
Since(now, t) == IF now > t THEN now - t ELSE 0

\* mutant: a silent PDU sleeps only if it had announced it
ExpiredUnsilent(track, now) ==
    LET to(state) == [track EXCEPT !.state = state, !.since = now] IN
    IF track.state = "ReadySleep" /\ Since(now, track.since) > Current.ready
      THEN to("PrepareBusSleep")
    ELSE IF track.state = "PrepareBusSleep" /\ Since(now, track.since) > Current.prepare
      THEN to("BusSleep")
    ELSE track

\* mutant: the time to prepare counts from the frame
ExpiredKeepsSince(track, now) ==
    LET to(state) == [track EXCEPT !.state = state] IN
    IF track.state = "Untracked" THEN track
    ELSE IF Since(now, track.seen) > Current.timeout THEN to("BusSleep")
    ELSE IF track.state = "ReadySleep" /\ Since(now, track.since) > Current.ready
      THEN to("PrepareBusSleep")
    ELSE IF track.state = "PrepareBusSleep" /\ Since(now, track.since) > Current.prepare
      THEN to("BusSleep")
    ELSE track

Expired(track, now) ==
    LET to(state) == IF track.state = state THEN track
                     ELSE [track EXCEPT !.state = state, !.since = now]
    IN
    IF track.state = "Untracked" THEN track
    ELSE IF Since(now, track.seen) > Current.timeout THEN to("BusSleep")
    ELSE IF track.state = "ReadySleep" /\ Since(now, track.since) > Current.ready
      THEN to("PrepareBusSleep")
    ELSE IF track.state = "PrepareBusSleep" /\ Since(now, track.since) > Current.prepare
      THEN to("BusSleep")
    ELSE track

\* publish_trace, once per stepped lap: the sim clock has moved on or not.
Publish(now) ==
    /\ now \in nmSim .. MaxNmSim
    /\ nmSim' = now
    /\ nm' = [p \in Pdus |-> Expired(nm[p], now)]
    /\ UNCHANGED <<timing, ready>>

\* A script sets the timing (the last one wins); a database that is loaded brings
\* one only where there is none.
SetTiming(t, script) ==
    /\ script \/ timing = NoTiming
    /\ timing' = t
    /\ UNCHANGED <<nmSim, nm, ready>>

\* reset_run; clear_trace_view does the same to the states in the middle of a run
\* and leaves the clock alone
Reset(clock) ==
    /\ nmSim' = IF clock THEN 0 ELSE nmSim
    /\ nm' = [p \in Pdus |-> Untracked]
    /\ ready' = [p \in Pdus |-> 0]
    /\ UNCHANGED timing

NmInit == /\ nmSim = 0
        /\ nm = [p \in Pdus |-> Untracked]
        /\ timing = NoTiming
        /\ ready = [p \in Pdus |-> 0]

NmNext ==
    \/ \E p \in Pdus, repeat, sleep \in BOOLEAN, t \in nmSim .. nmSim + Lead :
           NmFrame(p, repeat, sleep, t)
    \/ \E now \in nmSim .. MaxNmSim : Publish(now)
    \/ \E t \in Timings, script \in BOOLEAN : SetTiming(t, script)
    \/ \E clock \in BOOLEAN : Reset(clock)

NmSpec == NmInit /\ [][NmNext]_nmVars

-----------------------------------------------------------------------------

NmTyped ==
    /\ nmSim \in 0 .. MaxNmSim
    /\ nm \in [Pdus -> [state : States \cup {"Untracked"},
                        since : 0 .. MaxNmSim + Lead, seen : 0 .. MaxNmSim + Lead]]
    /\ timing \in Timings \cup {NoTiming}
    /\ ready \in [Pdus -> 0 .. MaxNmSim + Lead]

ShortestReady   == Min({t.ready : t \in Timings})
ShortestPrepare == Min({t.prepare : t \in Timings})

\* A PDU is put to sleep for one of two reasons only (expire_nm_states): nothing
\* was heard of it for the timeout, or it announced its sleep and then stayed
\* ready and prepared for its two times, whatever frames came between and
\* whatever timings the scripts asked for meanwhile.
SleepEarned == [][\A p \in Pdus :
    nm'[p].state = "BusSleep" /\ nm[p].state # "BusSleep" =>
        \/ Since(nmSim', nm[p].seen) > Current.timeout
        \/ Since(nmSim', ready[p]) > ShortestReady + ShortestPrepare
  ]_nmVars

\* After a publish no PDU is shown awake that has been silent for the timeout.
SilentSleeps == [][\A now \in 0 .. MaxNmSim : Publish(now) =>
    \A p \in Pdus : nm[p].state # "Untracked" /\ Since(now, nm[p].seen) > Current.timeout
                    => nm'[p].state = "BusSleep"]_nmVars

NmHonest == SleepEarned /\ SilentSleeps
=============================================================================
