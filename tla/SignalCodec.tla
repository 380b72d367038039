----------------------------- MODULE SignalCodec -----------------------------
(***************************************************************************)
(* How the signals of a frame are read out of its bytes and written into   *)
(* them.  A payload is the function of its bits (bit 0 is the lowest bit   *)
(* of the first byte); a decode plan is the sequence of the places its     *)
(* signals have in it.  Physical values, factors and offsets are integers. *)
(***************************************************************************)
EXTENDS Integers, Sequences, FiniteSets, FiniteSetsExt, SequencesExt

CONSTANT Byte   \* the bits of a byte: 8 in the code

Zeros(bytes) == [b \in 0 .. bytes * Byte - 1 |-> 0]

Bits(p) == Cardinality(DOMAIN p)

\* The payload cut, or padded with zeros, to so many bytes.
Resized(p, bytes) ==
    [b \in 0 .. bytes * Byte - 1 |-> IF b \in DOMAIN p THEN p[b] ELSE 0]

(* ------------------------------ raw values ----------------------------- *)

\* The bit that holds each bit of a raw value, the lowest first: Intel counts
\* up from the start; Motorola starts at the highest bit and walks down,
\* over the end of each byte to the top of the next.
Down(b) == IF b % Byte = 0 THEN b + 2 * Byte - 1 ELSE b - 1

Places(start, size, big) ==
    LET walk[k \in 0 .. size - 1] == IF k = 0 THEN start ELSE Down(walk[k - 1])
    IN  [i \in 0 .. size - 1 |-> IF big THEN walk[size - 1 - i] ELSE start + i]

ExtractRaw(p, start, size, big) ==
    LET at == Places(start, size, big)
    IN  MapThenSumSet(LAMBDA i : IF at[i] \in DOMAIN p THEN p[at[i]] * 2^i ELSE 0,
                      0 .. size - 1)

PackRaw(p, start, size, big, raw) ==
    LET at == Places(start, size, big)
    IN  [b \in DOMAIN p |->
            LET is == {i \in 0 .. size - 1 : at[i] = b}
            IN  IF is = {} THEN p[b]
                ELSE LET i == CHOOSE i \in is : TRUE IN (raw \div 2^i) % 2]

ToPhysical(raw, size, signed, factor, offset) ==
    (IF signed /\ raw >= 2^(size - 1) THEN raw - 2^size ELSE raw) * factor + offset

\* To the nearest raw value, half away from zero, clamped to what the bits hold.
Clamp(v, lo, hi) == IF v < lo THEN lo ELSE IF v > hi THEN hi ELSE v

Rounded(n, d) ==
    LET m == IF (n < 0) = (d < 0) THEN 1 ELSE -1
        q == (2 * (IF n < 0 THEN -n ELSE n) + (IF d < 0 THEN -d ELSE d))
                 \div (2 * (IF d < 0 THEN -d ELSE d))
    IN  m * q

FromPhysical(phys, size, signed, factor, offset) ==
    Clamp(Rounded(phys - offset, factor),
          IF signed THEN -(2^(size - 1)) ELSE 0,
          IF signed THEN 2^(size - 1) - 1 ELSE 2^size - 1) % 2^size

(* -------------------------------- a plan ------------------------------- *)

\* A place in a plan: a signal with its position, its gate in a container and
\* the conditions of the switches it depends on.
NoGate == [at |-> -1, id |-> 0]

NoBit == -1

\* Whether the header of the container names this part and says it is long
\* enough: one byte of identifier and one of length stand for the header.
ContainerAllows(p, gate, end) ==
    \/ gate = NoGate
    \/ LET field(b) == MapThenSumSet(LAMBDA i : p[b + i] * 2^i, 0 .. Byte - 1)
       IN  /\ gate.at % Byte = 0
           /\ gate.at + 2 * Byte <= Bits(p)
           /\ field(gate.at) = gate.id
           /\ end <= gate.at + 2 * Byte + field(gate.at + Byte) * Byte

\* The bounds test of the code: the position of the last bit, counted up.
Fits(r, p) == r.start + r.size <= Bits(p)

Admitted(r, p) == ContainerAllows(p, r.gate, r.start + r.size)

RawOf(r, p) == ExtractRaw(p, r.start, r.size, r.big)

\* The switches a frame shows: only what is not switched itself.
Selectors(plan, p) ==
    {r \in ToSet(plan) : Admitted(r, p) /\ Fits(r, p) /\ r.mux = {}}

ConditionHolds(c, plan, p) ==
    IF c.signal # "field"
    THEN \E r \in Selectors(plan, p) : r.signal = c.signal /\ RawOf(r, p) \in c.values
    ELSE /\ c.start + c.size <= Bits(p)
         /\ ExtractRaw(p, c.start, c.size, FALSE) \in c.values

Updated(r, p) == r.update = NoBit \/ (r.update < Bits(p) /\ p[r.update] = 1)

Present(r, plan, p) ==
    /\ Admitted(r, p)
    /\ \A c \in r.mux : ConditionHolds(c, plan, p)
    /\ Updated(r, p)

\* What a payload shows: the physical value of every signal that is present
\* and fits (a present signal that does not fit has none).
DecodePayload(plan, p) ==
    {[signal |-> r.signal,
      raw |-> RawOf(r, p),
      value |-> ToPhysical(RawOf(r, p), r.size, r.signed, r.factor, r.offset)] :
        r \in {q \in ToSet(plan) : Present(q, plan, p) /\ Fits(q, p)}}

\* One value written: the first value given for the signal, at every place of
\* the plan that has it, with its update bit.
Wanted(values, signal) ==
    LET named == SelectSeq(values, LAMBDA v : v.signal = signal)
    IN  IF named = <<>> THEN {} ELSE {named[1].value}

WriteAt(p, w, phys) ==
    LET packed == PackRaw(p, w.start, w.size, w.big,
                          FromPhysical(phys, w.size, w.signed, w.factor, w.offset))
    IN  IF w.update # NoBit /\ w.update < Bits(p)
        THEN [packed EXCEPT ![w.update] = 1] ELSE packed

EncodePayload(plan, values, p) ==
    FoldLeft(LAMBDA acc, w :
                IF Admitted(w, acc) /\ Wanted(values, w.signal) # {} /\ Fits(w, acc)
                THEN WriteAt(acc, w, CHOOSE v \in Wanted(values, w.signal) : TRUE)
                ELSE acc,
             p, plan)

-----------------------------------------------------------------------------
(* From a database to a decode plan: the conditions of multiplexed signals  *)
(* in a DBC message, the merge of several files, and the flattening of an   *)
(* AUTOSAR frame's PDUs.                                                    *)
NoCode == -1

\* A condition on a switch: on a signal of the frame, or on bits of it.
OnSignal(name, values) == [signal |-> name, start |-> 0, size |-> 0, values |-> values]

OnField(start, size, values) ==
    [signal |-> "field", start |-> start, size |-> size, values |-> values]

(* ------------------------------ DBC tables ----------------------------- *)

\* A message: [key, cycle, length, signals], a signal:
\*   [signal, start, size, big, signed, factor, offset, low, high, initial,
\*    mark \in {"-", "M", "m", "mM"}, code, extended, labels]
\* where `extended` are the SG_MUL_VAL_ conditions of the signal.
SignalsOf(m) == ToSet(m.signals)

TopSwitch(m) ==
    LET tops == SelectSeq(m.signals, LAMBDA s : s.mark = "M")
    IN  IF tops = <<>> THEN {} ELSE {tops[1].signal}

\* A signal's own conditions: what SG_MUL_VAL_ says replaces its m marker.
Own(m, s) ==
    IF s.extended # {} THEN s.extended
    ELSE IF s.mark \in {"m", "mM"}
         THEN {OnSignal(t, {s.code}) : t \in TopSwitch(m)}
         ELSE {}

\* The switches above a signal, all the way up: a cycle just ends the walk.
Above(m, s) ==
    LET step(names) == names \cup {c.signal : c \in UNION {Own(m, x) :
                            x \in {y \in SignalsOf(m) : y.signal \in names}}}
        reach[k \in 0 .. Len(m.signals)] ==
            IF k = 0 THEN {c.signal : c \in Own(m, s)} ELSE step(reach[k - 1])
    IN  reach[Len(m.signals)]

\* The conditions of a signal with those of every switch above it; the same
\* switch met twice gives the values of both.
MuxWhen(m, s) ==
    LET all == Own(m, s) \cup UNION {Own(m, x) :
                   x \in {y \in SignalsOf(m) : y.signal \in Above(m, s)}}
    IN  {OnSignal(w, UNION {c.values : c \in {d \in all : d.signal = w}}) :
            w \in {c.signal : c \in all}}

\* The bound of a signal's values: none when both ends are zero.
Bounded(s, v) ==
    IF (s.low # 0 \/ s.high # 0) /\ s.high > s.low THEN Clamp(v, s.low, s.high) ELSE v

\* The plan of a message: one place for each of its signals, with the
\* conditions whose switch the message has.
ApplyDbcMux(m, s) ==
    {c \in MuxWhen(m, s) : \E x \in SignalsOf(m) : x.signal = c.signal}

PlaceOf(s, base, mux, gate) ==
    [signal |-> s.signal, start |-> base + s.start, size |-> s.size, big |-> s.big,
     signed |-> s.signed, factor |-> s.factor, offset |-> s.offset,
     update |-> IF s.update = NoBit THEN NoBit ELSE base + s.update,
     mux |-> mux, gate |-> gate]

DbcPlan(m) == [k \in DOMAIN m.signals |->
                  PlaceOf(m.signals[k], 0, ApplyDbcMux(m, m.signals[k]), NoGate)]

(* ---------------------------- AUTOSAR frames --------------------------- *)

\* A frame: [flexray, pdus]; a PDU in it: [at, kind, header, signals, selector,
\* parts].  A container's part is [offset, id, signals], a multiplexed PDU's
\* [code, signals], with NoCode for the static part.
FrameBase(f) == IF f.flexray /\ f.pdus # <<>>
                THEN Min({f.pdus[k].at : k \in DOMAIN f.pdus}) ELSE 0

ExpandPdu(signals, base, mux, gate) ==
    [k \in DOMAIN signals |-> PlaceOf(signals[k], base, mux, gate)]

Expand(reads) == FlattenSeq(reads)

\* A container's header names the part that travels in this frame; a selector
\* chooses the parts of a multiplexed PDU that are there.
ReadsOfPdu(pdu, base) ==
    CASE pdu.kind = "signal" -> ExpandPdu(pdu.signals, base, {}, NoGate)
      [] pdu.kind = "container" ->
            Expand([i \in DOMAIN pdu.parts |->
                LET c == pdu.parts[i]
                IN  ExpandPdu(c.signals, base + c.offset * Byte, {},
                              IF pdu.header /\ c.id # 0 THEN [at |-> base, id |-> c.id]
                              ELSE NoGate)])
      [] pdu.kind = "multiplexed" ->
            ExpandPdu(pdu.signals, base, {}, NoGate)
            \o Expand([i \in DOMAIN pdu.parts |->
                LET c == pdu.parts[i]
                IN  ExpandPdu(c.signals, base,
                              IF c.code = NoCode THEN {}
                              ELSE {OnField(base + pdu.selector.start, pdu.selector.size, {c.code})},
                              NoGate)])
      [] pdu.kind = "secured" ->
            ExpandPdu(pdu.signals, base + pdu.headerBytes * Byte, {}, NoGate)

BuildDecodePlan(f) ==
    Expand([i \in DOMAIN f.pdus |-> ReadsOfPdu(f.pdus[i], f.pdus[i].at - FrameBase(f))])

(* ------------------------- what the views are told --------------------- *)

\* The raw value of a signal goes out as the bits, not sign-extended, and its
\* label is looked up with them.
ModelSignalDecoded(s, d) ==
    [signal |-> d.signal, value |-> d.value, raw |-> d.raw,
     label |-> IF \E l \in s.labels : l.code = d.raw
               THEN (CHOOSE l \in s.labels : l.code = d.raw).text ELSE ""]
=============================================================================
