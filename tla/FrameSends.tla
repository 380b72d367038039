----------------------------- MODULE FrameSends -----------------------------
(***************************************************************************)
(* The signals of one CAN message on their way out and back: the stored    *)
(* bytes of a generator entry with its waveforms, setpoints and buttons of *)
(* a panel, reactions that mirror the frame they answer, and what the      *)
(* views are told when each of these frames goes over the internal bus.    *)
(***************************************************************************)
EXTENDS SignalCodec

CONSTANTS
    Messages,    \* the messages a database may declare
    Values,      \* what is written into a signal
    Waves,       \* the waveforms: the values at even and odd stamps
    MaxFrames,   \* bound: frames on the bus
    MaxCommands  \* bound: what is asked for

VARIABLES
    message,     \* the message of this database, with its plan
    plan,
    entry,       \* the generator's entry for it
    queued,      \* frames a button or a reaction asked for, not yet sent
    at,          \* the stamp, of which only the parity matters
    wire,        \* the last frame on the bus
    shown,       \* what is shown of each signal
    sent,        \* frames that have been on the bus, and commands given
    asked,
    pins         \* history: what each signal is held at by a setpoint

sendVars == <<message, plan, entry, queued, at, wire, shown, sent, asked, pins>>

bus == <<at, wire, shown, sent>>

Nothing == [data |-> <<>>, len |-> 0, srcs |-> {}]

NoValue == 99

\* MAX_CAN_FD_LEN: an entry stores the largest frame, whatever it sends.
Room == message.length + 1

Names == {s.signal : s \in SignalsOf(message)}

SignalOf(name) == CHOOSE s \in SignalsOf(message) : s.signal = name

ReadOf(name) == plan[CHOOSE k \in DOMAIN plan : plan[k].signal = name]

InRange(name, v) == Bounded(SignalOf(name), v)

\* A value the bits of the signal can hold.
Representable(s, v) ==
    /\ (v - s.offset) % s.factor = 0
    /\ LET raw == (v - s.offset) \div s.factor
       IN  IF s.signed THEN raw \in -(2^(s.size - 1)) .. 2^(s.size - 1) - 1
           ELSE raw \in 0 .. 2^s.size - 1

(* ------------------------------ the entry ------------------------------ *)

WaveOf(name) == (CHOOSE w \in entry.srcs : w.signal = name).wave

\* The bytes of a generated frame: the stored ones with every driven signal
\* at its value at this stamp; driven signals stretch the frame to their end.
Driven == SelectSeq(message.signals, LAMBDA s : \E w \in entry.srcs : w.signal = s.signal)

TxPayload(t) ==
    LET values == [k \in DOMAIN Driven |->
                      [signal |-> Driven[k].signal,
                       value  |-> WaveOf(Driven[k].signal)[t + 1]]]
        needs  == {(ReadOf(values[k].signal).start + ReadOf(values[k].signal).size
                       + Byte - 1) \div Byte : k \in DOMAIN values}
    IN  [data |-> EncodePayload(plan, values, entry.data),
         len  |-> Max({entry.len} \cup {IF n < Room THEN n ELSE Room : n \in needs})]

Frame(f) == Resized(f.data, f.len)

\* One request waits at a time: a step sends what is queued before anything else.
Command ==
    /\ asked < MaxCommands
    /\ queued = <<>>
    /\ asked' = asked + 1

AddCanEntry ==
    /\ queued = <<>>
    /\ entry = Nothing
    /\ entry' = [data |-> Zeros(Room), len |-> message.length, srcs |-> {}]
    /\ UNCHANGED <<message, plan, queued, asked, bus, pins>>

\* A waveform for a signal replaces the one it had; the pin is over, and so is
\* that of every signal that shares bits with it.
BitsOf(name) == LET r == ReadOf(name) IN
                {Places(r.start, r.size, r.big)[i] : i \in 0 .. r.size - 1}

Overlaid(name) == {n \in Names : BitsOf(n) \cap BitsOf(name) # {}}

PinsWithout(names) == [n \in Names |-> IF n \in names THEN NoValue ELSE pins[n]]

SetEntrySource(name, w) ==
    /\ Command
    /\ entry # Nothing
    /\ entry' = [entry EXCEPT !.srcs = {x \in @ : x.signal # name}
                                          \cup {[signal |-> name, wave |-> w]}]
    /\ pins' = PinsWithout(Overlaid(name))
    /\ UNCHANGED <<message, plan, queued, bus>>

ClearEntrySource(name) ==
    /\ Command
    /\ entry # Nothing
    /\ \E w \in entry.srcs : w.signal = name
    /\ entry' = [entry EXCEPT !.srcs = {x \in @ : x.signal # name}]
    /\ UNCHANGED <<message, plan, queued, bus, pins>>

\* The hex box of the generator: whole bytes, and the frame is as long as they.
SetEntryHex(bytes, bit) ==
    /\ Command
    /\ entry # Nothing
    /\ entry' = [entry EXCEPT !.data = Resized([b \in 0 .. bytes * Byte - 1 |-> bit], Room),
                              !.len = bytes]
    /\ pins' = PinsWithout(Names)
    /\ UNCHANGED <<message, plan, queued, bus>>

(* ------------------------------ the panel ------------------------------ *)

\* A setpoint: into the stored bytes, with the other signals as they are; the
\* signal's waveform is dropped, so the value holds, and one frame is asked for.
\* Mutant: the other signals of the frame are lost.
StoredAfresh == Zeros(Room)

Stored == IF entry = Nothing THEN Zeros(Room) ELSE entry.data

Kept(name) == IF entry = Nothing THEN {} ELSE {x \in entry.srcs : x.signal # name}

\* Other waveforms that drive the same bits go on driving them.
DrivenOver(name) == \E n \in Overlaid(name) \ {name} : \E x \in Kept(name) : x.signal = n

PanelWriteSignal(name, v) ==
    /\ Command
    /\ entry' = [data |-> EncodePayload(plan, <<[signal |-> name, value |-> InRange(name, v)]>>,
                                        Stored),
                 len  |-> Max({message.length,
                               IF entry = Nothing THEN message.length ELSE entry.len}),
                 srcs |-> Kept(name)]
    /\ queued' = Append(queued, [kind |-> "entry", values |-> <<>>])
    /\ pins' = [n \in Names |->
                   IF n = name
                   THEN IF DrivenOver(n) \/ ~Representable(SignalOf(n), InRange(n, v))
                        THEN NoValue ELSE InRange(n, v)
                   ELSE IF n \in Overlaid(name) THEN NoValue ELSE pins[n]]
    /\ UNCHANGED <<message, plan, bus>>

\* A button, or a script's frame: every signal of the message, those not named
\* at their declared start value, encoded into a frame of the message's length.
SignalPayload(wanted) ==
    EncodePayload(plan,
        [k \in DOMAIN message.signals |->
            LET s == message.signals[k]
            IN  [signal |-> s.signal,
                 value  |-> IF Wanted(wanted, s.signal) = {} THEN s.initial
                            ELSE Bounded(s, CHOOSE v \in Wanted(wanted, s.signal) : TRUE)]],
        Zeros(message.length))

PanelSendFrame(wanted) ==
    /\ Command
    /\ queued' = Append(queued, [kind |-> "button", values |-> wanted])
    /\ UNCHANGED <<message, plan, entry, bus, pins>>

\* A reaction sends the entry as it is driven now, with the signals of the
\* frame it answers written over it, as far as the frame is long.
React(mirror) ==
    /\ Command
    /\ entry # Nothing
    /\ queued' = Append(queued, [kind |-> "entry", values |-> mirror])
    /\ UNCHANGED <<message, plan, entry, bus, pins>>

(* ------------------------------- the bus ------------------------------- *)

OneShot(mirror) ==
    LET f == IF entry.srcs = {} THEN [data |-> entry.data, len |-> entry.len]
             ELSE TxPayload(at)
    IN  EncodePayload(plan, mirror, Frame(f))

\* Every subscribed signal that the frame shows takes its value.
Ingest(p) ==
    LET seen == {ModelSignalDecoded(SignalOf(d.signal), d) : d \in DecodePayload(plan, p)}
    IN  [n \in Names |-> IF \E d \in seen : d.signal = n
                         THEN CHOOSE d \in seen : d.signal = n ELSE shown[n]]

Arrives(p) ==
    /\ sent < MaxFrames
    /\ sent' = sent + 1
    /\ at' = 1 - at
    /\ wire' = p
    /\ shown' = Ingest(p)
    /\ UNCHANGED <<message, plan, entry, asked, pins>>

SendQueued ==
    /\ queued # <<>>
    /\ Arrives(IF Head(queued).kind = "button" THEN SignalPayload(Head(queued).values)
               ELSE OneShot(Head(queued).values))
    /\ queued' = Tail(queued)

SendCyclic ==
    /\ entry # Nothing
    /\ queued = <<>>
    /\ Arrives(OneShot(<<>>))
    /\ UNCHANGED queued

\* A frame of another node: any bytes, perhaps fewer than declared.
Receive(p) ==
    /\ queued = <<>>
    /\ Arrives(p)
    /\ UNCHANGED queued

(* ----------------------------- the behaviour --------------------------- *)

InitSends ==
    /\ message \in Messages
    /\ plan = DbcPlan(message)
    /\ entry = Nothing
    /\ queued = <<>>
    /\ at = 0
    /\ wire = <<>>
    /\ sent = 0
    /\ asked = 0
    /\ shown = [n \in Names |-> [signal |-> n, value |-> NoValue, raw |-> NoValue, label |-> ""]]
    /\ pins = [n \in Names |-> NoValue]

Asked == {<<>>} \cup {<<[signal |-> n, value |-> v]>> : n \in Names, v \in Values}

NextSends ==
    \/ AddCanEntry
    \/ \E n \in Names, w \in Waves : SetEntrySource(n, w)
    \/ \E n \in Names : ClearEntrySource(n)
    \/ \E b \in 1 .. message.length, bit \in {0, 1} : SetEntryHex(b, bit)
    \/ \E n \in Names, v \in Values : PanelWriteSignal(n, v)
    \/ \E wanted \in Asked : PanelSendFrame(wanted)
    \/ \E wanted \in Asked : React(wanted)
    \/ SendQueued
    \/ SendCyclic
    \/ \E bytes \in 1 .. message.length :
          \E p \in [0 .. bytes * Byte - 1 -> {0, 1}] : Receive(p)

SpecSends == InitSends /\ [][NextSends]_sendVars

(* ------------------------------ properties ----------------------------- *)

\* A setpoint holds: until its signal is driven, overwritten or reset, every
\* frame of the entry that shows the signal shows the value that was set, and
\* neither the other waveforms nor other setpoints disturb it.
PinsHold ==
    entry # Nothing =>
        \A d \in DecodePayload(plan, OneShot(<<>>)) :
            pins[d.signal] # NoValue => d.value = pins[d.signal]

\* What one writes one reads: whatever the bytes, a value the signal can hold
\* comes back from the frame when it fits, and no other bit has changed.
ReadsBack ==
    \A n \in Names, v \in Values :
        LET p == IF entry = Nothing THEN Zeros(Room) ELSE entry.data
            q == EncodePayload(plan, <<[signal |-> n, value |-> v]>>, p)
        IN  Fits(ReadOf(n), p) =>
               /\ \A b \in DOMAIN p \ BitsOf(n) : q[b] = p[b]
               /\ LET r == ReadOf(n)
                      got == ToPhysical(RawOf(r, q), r.size, r.signed, r.factor, r.offset)
                  IN  Representable(SignalOf(n), v) => got = v

\* What is shown of a signal is what the last frame says, read from the same
\* bytes, when the switches above it, all the way up, select it; and a signal
\* they do not select is not in the frame.  A signal whose switch is switched
\* itself is left out of the first half.
SwitchHolds(c, p) ==
    LET r == ReadOf(c.signal) IN Fits(r, p) /\ RawOf(r, p) \in c.values

Selected(s, p) ==
    \E chain \in SUBSET Names :
        /\ s.signal \in chain
        /\ \A n \in chain : \A c \in Own(message, SignalOf(n)) :
              c.signal \in chain /\ SwitchHolds(c, p)

Flat(s) == \A c \in Own(message, s) : Own(message, SignalOf(c.signal)) = {}

ShownHonest ==
    sent > 0 =>
        \A s \in SignalsOf(message) :
            LET r == ReadOf(s.signal)
            IN  IF Selected(s, wire) /\ Fits(r, wire)
                THEN Flat(s) => shown[s.signal].value =
                        ToPhysical(RawOf(r, wire), r.size, r.signed, r.factor, r.offset)
                ELSE s.signal \notin {d.signal : d \in DecodePayload(plan, wire)}

\* A button shows what it says: the values of the frame it sends are those
\* asked for, of every signal the frame shows.
ButtonSays ==
    queued # <<>> /\ Head(queued).kind = "button" =>
        \A d \in DecodePayload(plan, SignalPayload(Head(queued).values)) :
            \A v \in Wanted(Head(queued).values, d.signal) :
                Representable(SignalOf(d.signal), InRange(d.signal, v))
                    => d.value = InRange(d.signal, v)

\* A signal is shown when all its bits are in the frame.
AllBitsThere(r, p) == \A i \in 0 .. r.size - 1 : Places(r.start, r.size, r.big)[i] \in DOMAIN p

ShowsWhatIsThere ==
    \A r \in ToSet(plan) : AllBitsThere(r, Zeros(message.length)) => Fits(r, Zeros(message.length))

\* The label of a value is the one the database gives it.
LabelsMatch ==
    \A n \in Names :
        shown[n].value # NoValue =>
            \A l \in SignalOf(n).labels :
                (shown[n].value - SignalOf(n).offset) \div SignalOf(n).factor = l.code
                    => shown[n].label = l.text
=============================================================================
