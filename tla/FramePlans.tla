----------------------------- MODULE FramePlans -----------------------------
(***************************************************************************)
(* An AUTOSAR frame's decode plan against the frame's own structure: what  *)
(* the flattened plan shows of any payload is what the PDUs show of their  *)
(* own bytes, wherever the frame, a container, a multiplexor or a security *)
(* header puts them.                                                       *)
(***************************************************************************)
EXTENDS SignalCodec

CONSTANTS
    Frames,      \* the frames a description may declare
    FrameBytes   \* bound: the length of a payload

VARIABLES frame, framePlan, payload

planVars == <<frame, framePlan, payload>>

InitPlans ==
    /\ frame \in Frames
    /\ framePlan = BuildDecodePlan(frame)
    /\ payload = <<>>

\* A frame of this description arrives.
FrameArrives(p) ==
    /\ payload' = p
    /\ UNCHANGED <<frame, framePlan>>

NextPlans ==
    /\ payload = <<>>
    /\ \E n \in 1 .. FrameBytes : \E p \in [0 .. n * Byte - 1 -> {0, 1}] : FrameArrives(p)

SpecPlans == InitPlans /\ [][NextPlans]_planVars

(* ------------------------------ property ------------------------------- *)

\* The bytes from a bit on.
From(p, b) == [i \in 0 .. Bits(p) - b - 1 |-> p[b + i]]

Field(p, start, size) == ExtractRaw(p, start, size, FALSE)

SignalsWithin(signals, q, bits) ==
    {[signal |-> s.signal,
      value |-> ToPhysical(ExtractRaw(q, s.start, s.size, s.big),
                           s.size, s.signed, s.factor, s.offset)] :
        s \in {x \in ToSet(signals) :
                  /\ x.start + x.size <= bits
                  /\ x.update # NoBit => x.update < Bits(q) /\ q[x.update] = 1}}

SignalsIn(signals, q) == SignalsWithin(signals, q, Bits(q))

\* What a PDU shows of its own bytes.  The header of a container names the
\* part that travels and how many bytes of it; a part without an identifier,
\* and those of a container without headers, are always there.
HeaderNames(pdu, c, q) ==
    \/ ~pdu.header
    \/ c.id = 0
    \/ Bits(q) >= 2 * Byte /\ Field(q, 0, Byte) = c.id

CarriedBits(pdu, c, q) ==
    IF pdu.header /\ c.id # 0
    THEN Min({Bits(q), 2 * Byte + Field(q, Byte, Byte) * Byte}) ELSE Bits(q)

PduShows(pdu, q) ==
    CASE pdu.kind = "signal" -> SignalsIn(pdu.signals, q)
      [] pdu.kind = "container" ->
            UNION {IF c.offset * Byte <= Bits(q)
                   THEN SignalsWithin(c.signals, From(q, c.offset * Byte),
                                      CarriedBits(pdu, c, q) - c.offset * Byte)
                   ELSE {} :
                   c \in {x \in ToSet(pdu.parts) : HeaderNames(pdu, x, q)}}
      [] pdu.kind = "multiplexed" ->
            SignalsIn(pdu.signals, q) \cup
            UNION {SignalsIn(c.signals, q) :
                   c \in {x \in ToSet(pdu.parts) :
                             \/ x.code = NoCode
                             \/ /\ pdu.selector.start + pdu.selector.size <= Bits(q)
                                /\ Field(q, pdu.selector.start, pdu.selector.size) = x.code}}
      [] pdu.kind = "secured" ->
            IF pdu.headerBytes * Byte <= Bits(q)
            THEN SignalsIn(pdu.signals, From(q, pdu.headerBytes * Byte)) ELSE {}

\* A FlexRay payload begins with the first of its PDUs.
PlanReadsThePdus ==
    LET begins == IF frame.flexray THEN Min({frame.pdus[k].at : k \in DOMAIN frame.pdus}) ELSE 0
    IN  {[signal |-> d.signal, value |-> d.value] : d \in DecodePayload(framePlan, payload)}
            = UNION {PduShows(frame.pdus[k], From(payload, frame.pdus[k].at - begins)) :
                     k \in {j \in DOMAIN frame.pdus : frame.pdus[j].at - begins <= Bits(payload)}}
=============================================================================
