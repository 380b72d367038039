------------------------------ MODULE Recording ------------------------------
(***************************************************************************)
(* The recorder and everything that opens, feeds and closes its files:     *)
(* Recorder (src/src/recorder.rs), the Record checkbox, the recording half *)
(* of run_actions and of the step walk, and the starts and ends of a run   *)
(* (src/src/bus.rs, src/src/core_loop.rs).                                 *)
(*                                                                         *)
(* The rules that fire are the environment here: any frame may fire a      *)
(* start, a stop, or both in either order.  Module RuleWalk has the rules. *)
(* An E2E rule judges a CAN frame only when it is ingested, after it was   *)
(* filed; all other rules of a CAN frame judge it before that.             *)
(* The record filter is on the frame: a "hidden" CAN frame is one it keeps *)
(* out of the file, the pre-trigger memory and the post-roll count.        *)
(***************************************************************************)
EXTENDS Naturals, Sequences

CONSTANTS
    Kinds,        \* of frames that arrive: subset of {"can", "hidden", "fr", "eth"}
    Keeps,        \* pre_frames of single rules, None to inherit the limit
    PreLimits,    \* pre-trigger limits a user sets
    PostLimits,   \* post-roll limits a user or a rule sets
    StartFails,   \* can the file of a starting run fail to open?
    LiveLimits,   \* are the limits changed during a run?
    LateAsks,     \* what the E2E rules of a CAN frame may ask for
    MaxFrames,    \* bound: admitted CAN frames of a run
    MaxAsks,      \* bound: actions the rules take on one frame
    None

ASSUME RecordingAssumption ==
    /\ Kinds \subseteq {"can", "hidden", "fr", "eth"}
    /\ Keeps \subseteq Nat \cup {None} /\ Keeps # {}
    /\ PreLimits \subseteq Nat /\ PreLimits # {}
    /\ PostLimits \subseteq Nat /\ PostLimits # {}
    /\ StartFails \in BOOLEAN /\ LiveLimits \in BOOLEAN
    /\ MaxFrames \in Nat /\ MaxAsks \in Nat /\ None \notin Nat

VARIABLES
    measuring,
    preLimit,    \* pre_frames, the limit as the user set it
    n,           \* history: admitted CAN frames of this run
    rec,         \* the recorder, pre_buffer and post_roll, a record
    captured,    \* history: did every file a rule opened get its firing frame?
    rolled       \* history: the last post-roll that ran out, or None

vars == <<measuring, preLimit, n, rec, captured, rolled>>

\* recording is the intent of the checkbox; main and side are the open CAN and
\* FlexRay file and its Ethernet sidecar; pre is pre_buffer, roll post_roll.
\* History: file, the CAN frames written to the current or last file; lead of
\* them drained from pre under limit cap; asked, mark: the length of the pending
\* post-roll and the length of the file when it began.
NoRecord == [recording |-> FALSE, main |-> FALSE, side |-> FALSE, pre |-> << >>,
             roll |-> None, file |-> << >>, lead |-> 0, cap |-> 0,
             asked |-> 0, mark |-> 0]

\* How Recorder::open can end: the sidecar is created before the main file.
OpenResults == {"ok", "side_only", "failed"}

\* What a frame, or a sweep, makes the rules ask for.
Starts == [ask : {"start"}, keep : Keeps]
Stops == [ask : {"stop"}, roll : PostLimits]
Asks == {<< >>} \cup {<<a>> : a \in Starts \cup Stops}
          \cup {<<a, b>> : a \in Starts, b \in Stops}
          \cup {<<b, a>> : a \in Starts, b \in Stops}

ASSUME LateAssumption == LateAsks \subseteq Asks

-----------------------------------------------------------------------------
Close(r) == [r EXCEPT !.main = FALSE, !.side = FALSE]

Open(r, res) ==
    IF res = "ok"
    THEN [r EXCEPT !.main = TRUE, !.side = TRUE, !.file = << >>, !.lead = 0]
    ELSE [r EXCEPT !.main = FALSE, !.side = (res = "side_only")]

\* toggle_record: a manual stop is immediate, a start while stopped only arms.
ToggleRecord(r, res) ==
    LET s == [r EXCEPT !.roll = None]
    IN  IF r.recording THEN [Close(s) EXCEPT !.recording = FALSE]
        ELSE IF ~measuring THEN [s EXCEPT !.recording = TRUE]
        ELSE [Open(s, res) EXCEPT !.recording = (res = "ok")]

\* The frames a triggered file begins with; mutant: the oldest, not the newest.
LeadOldest(r, keep) ==
    SubSeq(r.pre, 1, IF keep = None \/ keep > Len(r.pre) THEN Len(r.pre) ELSE keep)
Lead(r, keep) ==
    LET k == IF keep = None \/ keep > Len(r.pre) THEN Len(r.pre) ELSE keep
    IN  SubSeq(r.pre, Len(r.pre) - k + 1, Len(r.pre))

\* run_actions, StartRecording: a fresh file cancels a pending roll.
StartRecording(r, keep, res) ==
    IF r.recording THEN r
    ELSE IF res # "ok" THEN Open(r, res)
    ELSE [Open(r, res) EXCEPT
             !.recording = TRUE, !.roll = None, !.pre = << >>,
             !.file = Lead(r, keep), !.lead = Len(Lead(r, keep)), !.cap = preLimit]

\* run_actions, StopRecording: the file rolls on.
StopRecording(r, roll) ==
    IF ~r.recording THEN r
    ELSE [r EXCEPT !.roll = roll, !.asked = roll, !.mark = Len(r.file)]

RunAction(r, a, res) ==
    IF a.ask = "start" THEN StartRecording(r, a.keep, res) ELSE StopRecording(r, a.roll)

RunActions(r, asks, res) ==
    IF asks = << >> THEN r
    ELSE IF Len(asks) = 1 THEN RunAction(r, asks[1], res)
    ELSE RunAction(RunAction(r, asks[1], res), asks[2], res)

\* pre_buffer; mutants: one too many is kept, none is ever dropped.
PushOneMore(pre, f) == IF Len(pre) > preLimit THEN Append(Tail(pre), f) ELSE Append(pre, f)
PushUnbounded(pre, f) == Append(pre, f)
Push(pre, f) ==
    IF Len(pre) + 1 > preLimit THEN Tail(Append(pre, f)) ELSE Append(pre, f)

\* The post-roll counter after an admitted frame; mutants: one frame more, and
\* a file left open.
RollDownLate(r) ==
    IF r.roll = None THEN r
    ELSE IF r.roll = 0 THEN [Close(r) EXCEPT !.roll = None, !.recording = FALSE]
    ELSE [r EXCEPT !.roll = @ - 1]
RollDownOpen(r) ==
    IF r.roll = None THEN r
    ELSE IF r.roll <= 1 THEN [r EXCEPT !.roll = None, !.recording = FALSE]
    ELSE [r EXCEPT !.roll = @ - 1]
RollDown(r) ==
    IF r.roll = None THEN r
    ELSE IF r.roll <= 1 THEN [Close(r) EXCEPT !.roll = None, !.recording = FALSE]
    ELSE [r EXCEPT !.roll = @ - 1]

Written(r, f) == IF r.main THEN [r EXCEPT !.file = Append(@, f)] ELSE r

\* An admitted frame goes to the file, the memory and the post-roll.
Filed(r, f) == RollDown([Written(r, f) EXCEPT !.pre = Push(@, f)])

EndsWith(file, f) == file # << >> /\ file[Len(file)] = f

\* A file opened after its frame was filed can have it from the memory only:
\* if there is one, and the rule takes any of it.
Recalled(asks) ==
    /\ preLimit # 0
    /\ \A i \in DOMAIN asks : asks[i].ask = "start" => asks[i].keep # 0

\* A frame as it was judged, filed and ingested, and whether each file that a
\* rule opened for it has it.
Passed(d, m, e, caught) == [judged |-> d, filed |-> m, rec |-> e, caught |-> caught]

\* One CAN frame of the step walk: the rules, then the file, the memory and the
\* roll, and when it is ingested the E2E rules.  Mutant: the file first.
CanFrameLate(r, f, asks, res, late, again) ==
    LET d == RunActions(Written(r, f), asks, res)
        m == RollDown([d EXCEPT !.pre = Push(@, f)])
    IN  Passed(d, m, RunActions(m, late, again), d.main /\ ~r.main => EndsWith(m.file, f))
CanFrame(r, f, asks, res, late, again) ==
    LET d == RunActions(r, asks, res)
        m == Filed(d, f)
        e == RunActions(m, late, again)
    IN  Passed(d, m, e,
               /\ d.main /\ ~r.main => EndsWith(m.file, f)
               /\ e.main /\ ~m.main /\ Recalled(late) => EndsWith(e.file, f))

\* A CAN frame the record filter keeps out.
HiddenFrame(r, asks, res, late, again) ==
    LET d == RunActions(r, asks, res)
    IN  Passed(d, d, RunActions(d, late, again), TRUE)

\* accept_fr_row: rules, then the file.  Its frames are no part of rec.file.
FrFrame(r, asks, res) ==
    LET d == RunActions(r, asks, res)
    IN  Passed(d, d, d, d.main /\ ~r.main => d.recording)

\* ingest_eth: the sidecar, then the rules.
EthFrame(r, asks, res) ==
    LET d == RunActions(r, asks, res)
    IN  Passed(d, d, d, d.main /\ ~r.main => r.recording /\ r.side)

\* reset_run, the fields of this module.
ResetRun(r) == [r EXCEPT !.pre = << >>, !.roll = None]

\* start_virtual opens the file of an armed checkbox; mutant: it does not.
OpenArmedNot(r, res) == r
OpenArmed(r, res) == IF r.recording THEN Open(r, res) ELSE r

-----------------------------------------------------------------------------
Init ==
    /\ measuring = FALSE /\ preLimit \in PreLimits /\ n = 0 /\ rec = NoRecord
    /\ captured = TRUE /\ rolled = None

StartVirtual(res) ==
    /\ StartFails \/ res = "ok"
    /\ rec' = OpenArmed(ResetRun(Close(rec)), res)
    /\ measuring' = TRUE /\ n' = 0
    /\ UNCHANGED <<preLimit, captured, rolled>>

\* start_replay drops the Record state.
StartReplay ==
    /\ rec' = ResetRun([Close(rec) EXCEPT !.recording = FALSE])
    /\ measuring' = TRUE /\ n' = 0
    /\ UNCHANGED <<preLimit, captured, rolled>>

\* stop_bus, and a replay that reached its end.
Stop ==
    /\ measuring /\ measuring' = FALSE
    /\ rec' = Close(rec)
    /\ UNCHANGED <<preLimit, n, captured, rolled>>

\* halt_after_internal_error: a step panicked.
Halt ==
    /\ measuring /\ measuring' = FALSE
    /\ rec' = [Close(rec) EXCEPT !.recording = FALSE]
    /\ UNCHANGED <<preLimit, n, captured, rolled>>

Toggle(res) ==
    /\ rec' = ToggleRecord(rec, res)
    /\ UNCHANGED <<measuring, preLimit, n, captured, rolled>>

SetRunLimits(limit) ==
    /\ LiveLimits \/ ~measuring
    /\ preLimit' = limit
    /\ UNCHANGED <<measuring, n, rec, captured, rolled>>

\* A frame of the running step, with what the rules ask for on it, and the E2E
\* rules of a CAN frame after them.
Frame(kind, asks, res, late, again) ==
    LET out == CASE kind = "can" -> CanFrame(rec, n + 1, asks, res, late, again)
                 [] kind = "hidden" -> HiddenFrame(rec, asks, res, late, again)
                 [] kind = "fr" -> FrFrame(rec, asks, res)
                 [] kind = "eth" -> EthFrame(rec, asks, res)
        d == out.judged
        m == out.filed
    IN  /\ measuring
        /\ kind = "can" => n < MaxFrames
        /\ rec' = out.rec
        /\ n' = IF kind = "can" THEN n + 1 ELSE n
        /\ captured' = (captured /\ out.caught)
        /\ rolled' = IF d.roll # None /\ m.roll = None /\ d.main
                     THEN [asked |-> d.asked, got |-> Len(m.file) - d.mark]
                     ELSE rolled
        /\ UNCHANGED <<measuring, preLimit>>

\* Rules that fire without a frame: timeouts, variables and derived values, at
\* the end of a step.
Sweep(asks, res) ==
    /\ measuring /\ asks # << >>
    /\ rec' = RunActions(rec, asks, res)
    /\ UNCHANGED <<measuring, preLimit, n, captured, rolled>>

\* E2E rules judge CAN frames only; and only a start opens a file.
LateOf(kind) == {<< >>} \cup IF kind \in {"can", "hidden"} THEN LateAsks ELSE {}
ResultsOf(asks) ==
    IF \E i \in DOMAIN asks : asks[i].ask = "start" THEN OpenResults ELSE {"ok"}

Next ==
    \/ StartReplay \/ Stop \/ Halt
    \/ \E res \in OpenResults :
          \/ StartVirtual(res) \/ Toggle(res)
          \/ \E asks \in Asks : Sweep(asks, res)
    \/ \E kind \in Kinds, asks \in Asks :
          \E late \in LateOf(kind), res \in ResultsOf(asks) :
             /\ Len(asks) + Len(late) <= MaxAsks
             /\ \E again \in ResultsOf(late) : Frame(kind, asks, res, late, again)
    \/ \E limit \in PreLimits : SetRunLimits(limit)

Spec == Init /\ [][Next]_vars

-----------------------------------------------------------------------------
(* Properties.                                                             *)

\* The record is well formed, and while nobody lowers it the pre-trigger memory
\* of a run stays within its limit.
TypeOK ==
    /\ measuring \in BOOLEAN /\ captured \in BOOLEAN
    /\ preLimit \in PreLimits /\ n \in 0 .. MaxFrames
    /\ rec \in [recording : BOOLEAN, main : BOOLEAN, side : BOOLEAN,
                pre : Seq(Nat), roll : Nat \cup {None}, file : Seq(Nat),
                lead : Nat, cap : Nat, asked : Nat, mark : Nat]
    /\ measuring /\ ~LiveLimits => Len(rec.pre) <= preLimit

\* No file grows behind an unticked checkbox or a stopped run, whichever of
\* the eight ways a recording can end ended it; and the sidecar a start left
\* open whose main file failed (Recorder::open) does not outlive the run.
NoStrayFile ==
    /\ rec.main => rec.recording /\ measuring
    /\ rec.side => measuring

\* "The file itself is created by the next measurement start" (Recorder): a
\* run with Record ticked has a file.
ArmedHasFile == measuring /\ rec.recording => rec.main

\* "A trigger that starts a recording captures the very frame that fired it"
\* (step, eval_eth_triggers).  Of an E2E rule that is so only where it takes the
\* frame from the pre-trigger memory (Recalled): the frame has passed the file.
CauseCaptured == captured

\* A file begins with at most as many frames as the pre-trigger limit in force
\* when it was opened ("pre-trigger frames kept for trigger-started recordings").
LeadWithinLimit == rec.lead <= rec.cap

\* A post-roll that ran out put exactly the frames asked for into the file, at
\* least one, beginning with the frame that fired it, or with the next one if an
\* E2E rule or a rule without a frame did.
RollRunsOut ==
    rolled # None => rolled.got = IF rolled.asked = 0 THEN 1 ELSE rolled.asked

\* What a recording owes its cause: a file at all, the frame that started it
\* (of an E2E rule only from the memory), and the post-roll asked for, to the frame.
CauseToRoll == ArmedHasFile /\ CauseCaptured /\ RollRunsOut

Contract == INSTANCE RecordFile WITH seen <- n, open <- rec.main, kept <- rec.file

\* Whatever opens and closes it, a file is one unbroken run of the traffic.
FileIsUnbroken == Contract!Spec
=============================================================================
