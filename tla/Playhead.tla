------------------------------ MODULE Playhead ------------------------------
(***************************************************************************)
(* The pure half of the replay source (src/src/source/replay.rs): one      *)
(* record, the playhead, and what each method of ReplaySource returns for  *)
(* it.  No variables: ReplayControl drives these operators from the laps   *)
(* of the core thread.                                                     *)
(*                                                                         *)
(* The log is three streams, each a sequence of time stamps; the position  *)
(* pos is kept in fixed point, Scale units per tick of log time, so that   *)
(* a playback speed below one is representable and the cast to u64 is a    *)
(* truncation.  Inf stands for f64::INFINITY ("as fast as possible").      *)
(***************************************************************************)
EXTENDS Naturals, Sequences

CONSTANTS
    CanLog, FrLog, EthLog,  \* the log: time stamps of its CAN/FlexRay/Ethernet frames
    MaxPoll,                \* MAX_POLL_FRAMES
    Scale,                  \* fixed-point units of pos and speed per unit
    None, Inf               \* Option::None and f64::INFINITY

ASSUME LogAssumption ==
    /\ CanLog \in Seq(Nat) /\ FrLog \in Seq(Nat) /\ EthLog \in Seq(Nat)
    /\ MaxPoll \in Nat \ {0} /\ Scale \in Nat \ {0}
    /\ None \notin Nat /\ Inf \notin Nat /\ None # Inf

-----------------------------------------------------------------------------
Monus(a, b) == IF a > b THEN a - b ELSE 0      \* u64::saturating_sub

\* A bound that may be absent (an unlimited playhead, an infinite position).
WithinStrict(t, bound) == bound \in {None, Inf} \/ t < bound
Within(t, bound) == bound \in {None, Inf} \/ t <= bound

\* Mutant: the first frame past the target is taken along.
DueOneMore(log, from, target, cap) ==
    CHOOSE n \in 0 .. (Len(log) - from) :
        /\ \A i \in 1 .. n - 1 : Within(log[from + i], target)
        /\ \/ n = cap
           \/ n = Len(log) - from
           \/ n > 0 /\ ~Within(log[from + n], target)

\* How many frames a pull loop takes from a stream read up to `from`: it stops
\* at `cap` frames, at the end of the log, or at the first frame past target.
Due(log, from, target, cap) ==
    CHOOSE n \in 0 .. (Len(log) - from) :
        /\ \A i \in 1 .. n : Within(log[from + i], target)
        /\ \/ n = cap
           \/ n = Len(log) - from
           \/ ~Within(log[from + n + 1], target)

\* peek_t / peek_fr_t / peek_eth_t: the stamps still to come, one per stream.
Heads(s) ==
    {CanLog[i] : i \in {s.can + 1} \cap DOMAIN CanLog}
      \cup {FrLog[i] : i \in {s.fr + 1} \cap DOMAIN FrLog}
      \cup {EthLog[i] : i \in {s.eth + 1} \cap DOMAIN EthLog}

\* Mutant: the CAN stream alone decides while it has frames.
NextOfCan(s) ==
    IF s.can < Len(CanLog) THEN CanLog[s.can + 1]
    ELSE IF s.fr < Len(FrLog) THEN FrLog[s.fr + 1]
    ELSE IF s.eth < Len(EthLog) THEN EthLog[s.eth + 1] ELSE None
NextOf(s) == IF Heads(s) = {} THEN None
             ELSE CHOOSE t \in Heads(s) : \A u \in Heads(s) : t <= u

RefreshNext(s) == [s EXCEPT !.nextT = NextOf(s)]

\* ReplaySource::new followed by set_speed, as start_replay builds a source.
NewSource(speed) ==
    RefreshNext([can |-> 0, fr |-> 0, eth |-> 0, last |-> None, pos |-> 0,
                 speed |-> speed, done |-> FALSE, nextT |-> None, limit |-> None])

\* The playhead in log ticks, capped by a pending play-to target.
TargetUnlimited(s) == IF s.pos = Inf THEN None ELSE s.pos \div Scale
Target(s) ==
    IF s.pos = Inf THEN s.limit
    ELSE IF Within(s.pos \div Scale, s.limit) THEN s.pos \div Scale ELSE s.limit

\* Mutant: done as soon as the CAN stream is.
PollCanOnly(s, now) ==
    LET since == IF s.last = None THEN 0 ELSE Monus(now, s.last)
        moved == [s EXCEPT !.pos  = IF s.speed = Inf \/ @ = Inf THEN Inf
                                    ELSE @ + since * s.speed,
                           !.last = now]
        drawn == [moved EXCEPT
                    !.can = @ + Due(CanLog, @, Target(moved), MaxPoll)]
    IN  RefreshNext([drawn EXCEPT !.done = @ \/ drawn.can = Len(CanLog)])

\* Advance the playhead to wall time `now` and take the CAN frames now due.
Poll(s, now) ==
    LET since == IF s.last = None THEN 0 ELSE Monus(now, s.last)
        moved == [s EXCEPT !.pos  = IF s.speed = Inf \/ @ = Inf THEN Inf
                                    ELSE @ + since * s.speed,
                           !.last = now]
        drawn == [moved EXCEPT
                    !.can = @ + Due(CanLog, @, Target(moved), MaxPoll)]
    IN  RefreshNext([drawn EXCEPT !.done = @ \/ Heads(drawn) = {}])

\* poll_fr and poll_eth: not capped, and neither refreshes nextT.
PollFrTwice(s) == [s EXCEPT !.fr = @ + Due(FrLog, @, Target(s), Len(FrLog)) + 1]
PollFr(s)  == [s EXCEPT !.fr  = @ + Due(FrLog, @, Target(s), Len(FrLog))]
PollEth(s) == [s EXCEPT !.eth = @ + Due(EthLog, @, Target(s), Len(EthLog))]

ShiftTime(s, us) == [s EXCEPT !.last = IF @ = None THEN None ELSE @ + us]

SetSpeed(s, speed) == [s EXCEPT !.speed = speed]

StepForward(s, us) ==
    RefreshNext([s EXCEPT !.pos  = IF @ = Inf THEN Inf ELSE @ + us * Scale,
                          !.last = None])

SetPollLimit(s, limit) == [s EXCEPT !.limit = limit]

\* VecStream::duration_us: the last CAN stamp, else the last stamp of the
\* next stream that has one.
Duration ==
    IF CanLog # << >> THEN CanLog[Len(CanLog)]
    ELSE IF FrLog # << >> THEN FrLog[Len(FrLog)]
    ELSE IF EthLog # << >> THEN EthLog[Len(EthLog)] ELSE 0

Position(s) == IF s.pos = Inf THEN Duration ELSE s.pos \div Scale

\* The wall time of the next frame: the log span left, at `speed` log
\* microseconds per wall microsecond.  Read from the cached nextT.
NextDeadline(s, now) ==
    IF s.done \/ s.nextT = None THEN None
    ELSE (IF s.last = None THEN now ELSE s.last)
           + (IF s.pos = Inf \/ s.speed = Inf THEN 0
              ELSE Monus(s.nextT * Scale, s.pos) \div s.speed)

Drained(s) == Heads(s) = {}
=============================================================================
