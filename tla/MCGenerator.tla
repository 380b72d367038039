----------------------------- MODULE MCGenerator -----------------------------
(* What is sent, on one TLC run: the schedule of the entries, with one CAN   *)
(* entry of a node; the signals of a CAN message; a FlexRay slot; the plans  *)
(* of AUTOSAR frames.  They share no variable, so a behaviour runs one of    *)
(* them and leaves the others where they started.                            *)
EXTENDS Generator, FrameSends, FrSlots, FramePlans

CONSTANTS free, owned, slot, node

VARIABLE part

MCNodeOf == [e \in Entries |-> IF e = owned THEN node ELSE None]

(* Signals: [signal, start, size, big, ...], on bytes of two bits.           *)
Intel(n, start, size) ==
  [signal |-> n, start |-> start, size |-> size, big |-> FALSE, signed |-> FALSE,
   factor |-> 1, offset |-> 0, low |-> 0, high |-> 0, initial |-> 0, update |-> NoBit,
   mark |-> "-", code |-> 0, extended |-> {}, labels |-> {}]

(* A plain message with a scaled, a signed Motorola and a labelled signal    *)
(* (two of them overlap), a multiplexed one and one whose switch is          *)
(* switched.                                                                 *)
Plain ==
  [key |-> 1, length |-> 2,
   signals |-> <<[Intel("a", 1, 1) EXCEPT !.factor = 2, !.offset = -1, !.initial = -1],
                 [Intel("b", 0, 2) EXCEPT !.big = TRUE, !.signed = TRUE],
                 [Intel("c", 2, 1) EXCEPT !.labels = {[code |-> 1, text |-> "on"]}]>>]
Muxed ==
  [key |-> 2, length |-> 2,
   signals |-> <<[Intel("m", 0, 1) EXCEPT !.mark = "M"],
                 [Intel("a", 1, 2) EXCEPT !.mark = "m"],
                 [Intel("b", 2, 2) EXCEPT !.mark = "m", !.code = 1]>>]
Nested ==
  [key |-> 3, length |-> 2,
   signals |-> <<[Intel("m", 0, 1) EXCEPT !.mark = "M"],
                 [Intel("a", 1, 1) EXCEPT !.mark = "mM", !.code = 1],
                 [Intel("b", 2, 2) EXCEPT !.extended = {OnSignal("a", {1})}]>>]
MCMessages == {Plain, Muxed, Nested}
MCValues == {-1, 1, 2}
MCWaves == {<<0, 1>>, <<1, 1>>}

(* A slot shared by two frames in turn, one with two frames of which each    *)
(* has a channel, one that is empty in some cycles, and no description.      *)
Place(n, start, size) == PlaceOf(Intel(n, start, size), 0, {}, NoGate)
Frame1 == [base |-> 0, every |-> 2, channel |-> 2, length |-> 1, plan |-> <<Place("a", 0, 2)>>]
Frame2 == [base |-> 1, every |-> 2, channel |-> 0, length |-> 2, plan |-> <<Place("b", 1, 2)>>]
Frame3 == [base |-> 1, every |-> 1, channel |-> 1, length |-> 1, plan |-> <<Place("c", 0, 1)>>]
MCSchedules == {<<>>, <<Frame2>>, <<Frame1, Frame2>>, <<Frame2, Frame3>>}
MCMixes == {{"generator"}, {"setpoint", "script"}, {"button", "bus"}}

(* A FlexRay frame with an update bit and a multiplexed PDU, a CAN frame     *)
(* with a secured PDU, and a container.                                      *)
SignalPdu(pos, signals) == [at |-> pos, kind |-> "signal", signals |-> signals]
Secured ==
  [at |-> 2, kind |-> "secured", headerBytes |-> 1, signals |-> <<Intel("s", 0, 2)>>]
Container ==
  [at |-> 0, kind |-> "container", header |-> TRUE,
   parts |-> <<[offset |-> 2, id |-> 1, signals |-> <<Intel("x", 1, 2)>>],
               [offset |-> 2, id |-> 2, signals |-> <<[Intel("y", 0, 2) EXCEPT !.update = 2]>>],
               [offset |-> 3, id |-> 0, signals |-> <<Intel("z", 0, 1)>>]>>]
Multiplexed ==
  [at |-> 2, kind |-> "multiplexed", selector |-> [start |-> 0, size |-> 1],
   signals |-> <<Intel("sw", 0, 1)>>,
   parts |-> <<[code |-> NoCode, signals |-> <<Intel("st", 1, 1)>>],
               [code |-> 0, signals |-> <<Intel("p", 2, 2)>>],
               [code |-> 1, signals |-> <<[Intel("q", 2, 2) EXCEPT !.big = TRUE]>>]>>]
MCFrames ==
  {[flexray |-> TRUE,
    pdus |-> <<SignalPdu(4, <<[Intel("a", 0, 2) EXCEPT !.update = 2]>>), Multiplexed>>],
   [flexray |-> FALSE,
    pdus |-> <<SignalPdu(0, <<[Intel("a", 0, 2) EXCEPT !.big = TRUE]>>), Secured>>],
   [flexray |-> FALSE, pdus |-> <<Container>>]}

allVars == <<part, vars, sendVars, slotVars, planVars>>

MCInit ==
  /\ part \in {"schedule", "signals", "slots", "plans"}
  /\ Init /\ InitSends /\ InitSlots /\ InitPlans
  /\ part # "signals" => message = Plain
  /\ part # "slots" => schedule = <<>> /\ senders = {"generator"}
  /\ part # "plans" => frame.flexray

MCNext ==
  \/ part = "schedule" /\ Next /\ UNCHANGED <<part, sendVars, slotVars, planVars>>
  \/ part = "signals" /\ NextSends /\ UNCHANGED <<part, vars, slotVars, planVars>>
  \/ part = "slots" /\ NextSlots /\ UNCHANGED <<part, vars, sendVars, planVars>>
  \/ part = "plans" /\ NextPlans /\ UNCHANGED <<part, vars, sendVars, slotVars>>

MCSpec == MCInit /\ [][MCNext]_allVars

(* The signals of a frame mean the same on the way out and on the way back   *)
(* (FrameSends, FramePlans); a shared FlexRay slot is counted and shown by   *)
(* the frame of the cycle (FrSlots).                                         *)
FramesHonest ==
  PinsHold /\ ReadsBack /\ ShownHonest /\ LabelsMatch /\ PlanReadsThePdus
  /\ TallyHonest /\ SlotShows
=============================================================================
