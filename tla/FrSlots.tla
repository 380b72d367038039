------------------------------- MODULE FrSlots -------------------------------
(***************************************************************************)
(* A static FlexRay slot and the frames that share it in turn.  The        *)
(* schedule says which frame a communication cycle carries; the generator, *)
(* setpoints, buttons and scripts put payloads into the slot; every row is *)
(* tallied under the frame its cycle belongs to, and what is shown of the  *)
(* slot's signals is decoded by that frame's plan.                         *)
(***************************************************************************)
EXTENDS SignalCodec

CONSTANTS
    Schedules,    \* the schedules a description may give the slot; <<>> is
                  \* no description at all
    SlotCycles,   \* communication cycles before the count starts again: 64
    Mixes,        \* bound: who puts rows into the slot together
    Written,      \* what is written into a signal
    Watched,      \* is the bus known without a description, by its port
    EmptyCycles,  \* are setpoints written in cycles the slot is empty in
    MaxCycle,     \* bound: cycles that pass
    MaxRows,      \* bound: rows of the run, and edits of the entry
    MaxEdits,
    MaxKept       \* the rows the ring keeps

VARIABLES
    senders,      \* who does in this behaviour
    schedule,     \* the frames of the slot, in the order of the description
    cycle,        \* cycles that have passed
    frEntry,      \* the generator's entry
    waiting,      \* the row asked for and not yet sent
    ring,         \* the rows kept
    tally,        \* rows counted by who they belong to
    frShown,      \* what is shown of each signal
    rows,         \* how many rows there have been
    edits,        \* how often the entry has been edited
    counted,      \* history: the rows the tallies stand for
    judged        \* history: who sent the last row, what it was to show, and
                  \* whose it was

arrivals == <<ring, tally, frShown, rows, counted, judged>>

slotVars == <<senders, schedule, cycle, frEntry, edits, waiting, arrivals>>

NoEntry == [frame |-> 0, data |-> <<>>, len |-> 0, every |-> 0, next |-> 0, on |-> FALSE]

NoFrame == 0

Nobody == [by |-> "nobody", asked |-> <<>>, owner |-> NoFrame]

NoShown == 99

(* ----------------------------- the schedule ---------------------------- *)

\* A frame of the slot: [base, every, channel, length, plan].
ActiveAt(f, c) == c % f.every = f.base % f.every

FrCycle(t) == t % SlotCycles

Covers(channel, ab) == ab = 2 \/ channel = 2 \/ channel = ab

FirstOf(hits) == IF hits = {} THEN NoFrame ELSE Min(hits)

\* The frame a cycle carries: one declared for this channel if there is one.
FrameIxAt(frames, c, ab) ==
    LET active == {i \in DOMAIN frames : ActiveAt(frames[i], c)}
        exact == {i \in active : Covers(frames[i].channel, ab)}
    IN  FirstOf(IF exact # {} THEN exact ELSE active)

CarriedNow == FrameIxAt(schedule, FrCycle(cycle), 2)

\* The first frame of the slot, whatever the cycle.
FrameIxOfSlot == IF schedule # <<>> THEN 1 ELSE NoFrame

NamesIn(f) == {f.plan[k].signal : k \in DOMAIN f.plan}

NamesOf(i) == NamesIn(schedule[i])

SignalNames(frames) == UNION {NamesIn(frames[i]) : i \in DOMAIN frames}

AllNames == UNION {SignalNames(f) : f \in Schedules}

\* The start values of a panel's frame are zero here.
Encode(i, asked) ==
    EncodePayload(schedule[i].plan,
                  [k \in DOMAIN schedule[i].plan |->
                      [signal |-> schedule[i].plan[k].signal,
                       value  |-> IF Wanted(asked, schedule[i].plan[k].signal) = {} THEN 0
                                  ELSE CHOOSE v \in Wanted(asked, schedule[i].plan[k].signal) : TRUE]],
                  Zeros(schedule[i].length))

EncodeOne(i, name, v, p) ==
    EncodePayload(schedule[i].plan, <<[signal |-> name, value |-> v]>>, p)

Filled(bytes) == [b \in 0 .. bytes * Byte - 1 |-> 1]

(* ------------------------------ the entry ------------------------------ *)

Edit ==
    /\ edits < MaxEdits
    /\ edits' = edits + 1

\* Named after the first frame of the slot, sent as often as that frame is.
AddFrEntry ==
    /\ Edit
    /\ "generator" \in senders
    /\ frEntry = NoEntry
    /\ frEntry' = IF FrameIxOfSlot = NoFrame
                  THEN [NoEntry EXCEPT !.frame = 1, !.data = Zeros(1), !.len = 1, !.every = 1]
                  ELSE [frame |-> 1, data |-> Zeros(schedule[1].length), len |-> schedule[1].length,
                        every |-> schedule[1].every, next |-> 0, on |-> FALSE]
    /\ UNCHANGED <<senders, schedule, cycle, waiting, arrivals>>

SetFrEntryActive ==
    /\ Edit
    /\ frEntry # NoEntry
    /\ frEntry' = [frEntry EXCEPT !.on = ~@, !.next = IF frEntry.on THEN @ ELSE cycle]
    /\ UNCHANGED <<senders, schedule, cycle, waiting, arrivals>>

\* The hex box: what the slot declares, padded; longer bytes are refused.
SetFrEntryHex(bytes) ==
    /\ Edit
    /\ frEntry # NoEntry
    /\ LET len == IF FrameIxOfSlot = NoFrame THEN frEntry.len ELSE schedule[1].length
       IN  /\ bytes <= len
           /\ frEntry' = [frEntry EXCEPT !.data = Resized(Filled(bytes), len),
                                         !.len = len]
    /\ UNCHANGED <<senders, schedule, cycle, waiting, arrivals>>

\* A script's write goes into the stored bytes, by the place the first frame
\* of the slot gives the signal; without a description it is dropped.
SetFrSig(name, v) ==
    /\ Edit
    /\ frEntry # NoEntry
    /\ FrameIxOfSlot # NoFrame
    /\ name \in NamesOf(1)
    /\ frEntry' = [frEntry EXCEPT !.data = Resized(EncodeOne(1, name, v, @), frEntry.len)]
    /\ UNCHANGED <<senders, schedule, cycle, waiting, arrivals>>

(* ----------------------- what is put into the slot ---------------------- *)

Ask(by, c, payload, asked) ==
    /\ by \in senders
    /\ waiting = <<>>
    /\ rows < MaxRows
    /\ waiting' = <<[by |-> by, cycle |-> c, payload |-> payload, asked |-> asked]>>
    /\ UNCHANGED <<senders, schedule, cycle, frEntry, edits, arrivals>>

Occupant == IF CarriedNow # NoFrame THEN CarriedNow ELSE FrameIxOfSlot

\* A setpoint: into zeroed bytes of the frame that is there now, else of the
\* first, and dated now.
PanelWriteFrSignal(name, v) ==
    /\ Occupant # NoFrame
    /\ EmptyCycles \/ CarriedNow # NoFrame
    /\ name \in NamesOf(Occupant)
    /\ Ask("setpoint", FrCycle(cycle),
           EncodeOne(Occupant, name, v, Zeros(schedule[Occupant].length)),
           <<[signal |-> name, value |-> v]>>)

\* A button: the same frame, but dated in a cycle that carries it.
\* Mutant: dated now, like a setpoint.
ButtonCycleNow == FrCycle(cycle)

ButtonCycle ==
    IF CarriedNow # NoFrame THEN FrCycle(cycle) ELSE schedule[Occupant].base

PanelSendFrFrame(name, v) ==
    /\ Occupant # NoFrame
    /\ name \in NamesOf(Occupant)
    /\ LET asked == <<[signal |-> name, value |-> v]>>
       IN  Ask("button", ButtonCycle, Encode(Occupant, asked), asked)

\* Raw bytes from a button or a script: as long as the first frame of the slot.
RawCycle(by) ==
    IF schedule = <<>> THEN 0
    ELSE IF by = "script" \/ CarriedNow # NoFrame THEN FrCycle(cycle) ELSE schedule[1].base

RawBytes(by, bytes) ==
    /\ schedule # <<>> \/ (by = "script" /\ Watched)
    /\ schedule # <<>> => bytes <= schedule[1].length
    /\ Ask(by, RawCycle(by),
           IF schedule = <<>> THEN Filled(bytes) ELSE Resized(Filled(bytes), schedule[1].length),
           <<>>)

(* ------------------------------- arrivals ------------------------------ *)

\* A row belongs to the frame of its cycle, or to the name its log gives it,
\* or to nobody; this is what it is tallied under.
OwnerOf(frames, row) ==
    IF FrameIxAt(frames, row.cycle, row.ab) # NoFrame
    THEN FrameIxAt(frames, row.cycle, row.ab) ELSE row.logged

Counted(counts, owner) ==
    [o \in DOMAIN counts \cup {owner} |->
        (IF o \in DOMAIN counts THEN counts[o] ELSE 0) + (IF o = owner THEN 1 ELSE 0)]

\* The signals the frame of a row shows.
Decoded(row) ==
    LET i == FrameIxAt(schedule, row.cycle, row.ab)
    IN  IF i = NoFrame THEN {} ELSE DecodePayload(schedule[i].plan, row.payload)

AcceptFrRow(row, by, asked) ==
    /\ rows < MaxRows
    /\ rows' = rows + 1
    /\ tally' = Counted(tally, OwnerOf(schedule, row))
    /\ frShown' = [n \in DOMAIN frShown |->
                      IF \E d \in Decoded(row) : d.signal = n
                      THEN (CHOOSE d \in Decoded(row) : d.signal = n).value ELSE frShown[n]]
    /\ ring' = IF Len(ring) < MaxKept THEN Append(ring, row) ELSE Append(Tail(ring), row)
    /\ counted' = Append(counted, row)
    /\ judged' = [by |-> by, asked |-> asked, owner |-> OwnerOf(schedule, row)]

Row(c, ab, payload, logged) == [cycle |-> c, ab |-> ab, payload |-> payload, logged |-> logged]

SendWaiting ==
    /\ waiting # <<>>
    /\ AcceptFrRow(Row(waiting[1].cycle, 2, waiting[1].payload, NoFrame),
                   waiting[1].by, waiting[1].asked)
    /\ waiting' = <<>>
    /\ UNCHANGED <<senders, schedule, cycle, frEntry, edits>>

\* The generator's turn: the slot of its own stamp, catching up one at a time.
SendDue ==
    /\ waiting = <<>>
    /\ frEntry.on
    /\ frEntry.next <= cycle
    /\ frEntry' = [frEntry EXCEPT !.next = @ + frEntry.every]
    /\ AcceptFrRow(Row(IF schedule = <<>> THEN 0 ELSE FrCycle(frEntry.next), 2, frEntry.data, NoFrame),
                   "generator", <<>>)
    /\ UNCHANGED <<senders, schedule, cycle, edits, waiting>>

\* A row of a port, or of a log that may name its frame.
Logged == -1

ReceiveFrRow(c, ab, logged, bit) ==
    /\ "bus" \in senders
    /\ waiting = <<>>
    /\ AcceptFrRow(Row(c, ab, [b \in 0 .. Byte - 1 |-> bit], logged), "bus", <<>>)
    /\ UNCHANGED <<senders, schedule, cycle, frEntry, edits, waiting>>

PassCycle ==
    /\ cycle < MaxCycle
    /\ waiting = <<>>
    /\ frEntry.on => frEntry.next > cycle
    /\ cycle' = cycle + 1
    /\ UNCHANGED <<senders, schedule, frEntry, edits, waiting, arrivals>>

(* --------------------------- the description --------------------------- *)

\* Loading or dropping the description counts the rows still kept again.
NoCounts == [o \in {} |-> 0]

\* Mutant: what was counted stays counted as it was.
NotRebuilt(frames) == tally

RebuildFrAggs(frames) ==
    FoldLeft(LAMBDA acc, row : Counted(acc, OwnerOf(frames, row)), NoCounts, ring)

SetFrDb(frames) ==
    /\ waiting = <<>>
    /\ frames # schedule
    /\ schedule' = frames
    /\ tally' = RebuildFrAggs(frames)
    /\ counted' = ring
    /\ judged' = Nobody
    /\ UNCHANGED <<senders, cycle, frEntry, edits, waiting, ring, frShown, rows>>

(* ----------------------------- the behaviour --------------------------- *)

InitSlots ==
    /\ senders \in Mixes
    /\ schedule \in Schedules
    /\ cycle = 0
    /\ frEntry = NoEntry
    /\ waiting = <<>>
    /\ ring = <<>>
    /\ tally = NoCounts
    /\ frShown = [n \in AllNames |-> NoShown]
    /\ rows = 0
    /\ edits = 0
    /\ counted = <<>>
    /\ judged = Nobody

NextSlots ==
    \/ AddFrEntry
    \/ SetFrEntryActive
    \/ \E bytes \in 1 .. 2 : SetFrEntryHex(bytes)
    \/ \E n \in AllNames, v \in Written : SetFrSig(n, v)
    \/ \E n \in AllNames, v \in Written : PanelWriteFrSignal(n, v)
    \/ \E n \in AllNames, v \in Written : PanelSendFrFrame(n, v)
    \/ \E by \in {"button", "script"}, bytes \in 1 .. 2 : RawBytes(by, bytes)
    \/ SendWaiting
    \/ SendDue
    \/ \E c \in 0 .. SlotCycles - 1, ab \in 0 .. 2, logged \in {NoFrame, Logged}, bit \in {0, 1} :
          ReceiveFrRow(c, ab, logged, bit)
    \/ PassCycle
    \/ \E frames \in Schedules : SetFrDb(frames)

SpecSlots == InitSlots /\ [][NextSlots]_slotVars

(* ------------------------------ properties ----------------------------- *)

\* Every row that counts is counted under the frame whose cycle it is by the
\* description of now, and under no other, whenever the description came.
TallyHonest ==
    \A o \in DOMAIN tally \cup {OwnerOf(schedule, counted[k]) : k \in DOMAIN counted} :
        /\ o \in DOMAIN tally
        /\ tally[o] = Cardinality({k \in DOMAIN counted : OwnerOf(schedule, counted[k]) = o})

\* What a button, a setpoint or a script asked the slot to carry is what is
\* shown once its row has arrived: the row is dated in a cycle of the frame
\* it was encoded for.
SlotShows ==
    \A k \in DOMAIN judged.asked : frShown[judged.asked[k].signal] = judged.asked[k].value

\* The generator sends a frame in that frame's cycles.
SlotSendsItsOccupant == judged.by = "generator" => judged.owner \in {NoFrame, frEntry.frame}
=============================================================================
