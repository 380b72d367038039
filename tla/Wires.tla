------------------------------- MODULE Wires -------------------------------
(* Hardware ports (src/src/hw/mod.rs and its callers in src/src/bus.rs): the *)
(* CAN adapters, FlexRay watches and Ethernet ports of the buses, the switch *)
(* between Real bus and Simulated, the receive queues the step drains, and   *)
(* the latch that makes one line of a wire that refuses writes.  The drivers *)
(* behind a port are external: frames arrive, writes are taken or refused.   *)
EXTENDS Naturals, Sequences

CONSTANTS MaxWires,      \* CAN channels a project starts with
          MaxQueue,      \* frames a driver holds (bound)
          MaxPorts,      \* attachments of a behaviour (bound)
          RemovePending  \* whether a bus may go while a refusal waits

ASSUME WiresAssumption ==
  /\ MaxWires \in Nat \ {0} /\ MaxQueue \in Nat /\ MaxPorts \in Nat
  /\ RemovePending \in BOOLEAN

VARIABLES live, running, wires, frWatch, eth, pending, news, heard, wrote, ports
wireVars == <<live, running, wires, frWatch, eth, pending, news, heard, wrote, ports>>

(* wires[b], frWatch, eth: a port or NoPort.  A port is known by a number    *)
(* (history) and holds its receive queue; a queued frame records whether a   *)
(* poll of a parked step has passed over it.                                 *)
NoPort == [id |-> 0]
Fresh(id) == [id |-> id, queue |-> <<>>, tx_fail |-> 0]
Wired == DOMAIN wires
IsPort(p) == p.id # 0

(* pending[b]: how many waiting lines name bus b.                            *)
NoLines == [b \in 1..MaxWires |-> 0]

WiresInit ==
  /\ live = TRUE /\ running = FALSE
  /\ wires = [b \in 1..MaxWires |-> NoPort] /\ frWatch = NoPort /\ eth = NoPort
  /\ pending = NoLines
  /\ news = [p \in 1..MaxPorts |-> 0]    \* history: lines written about port p
  /\ heard = {}                         \* the marks of the frames the last step delivered
  /\ wrote = "none"                     \* history: a wire written, and the mode
  /\ ports = 0

-----------------------------------------------------------------------------
(* Attaching and detaching (a command): a new port starts with a clean       *)
(* record, and a refusal waiting about the old one is forgotten.             *)
Quiet == heard' = {} /\ wrote' = "none"

Attach(b) ==
  /\ ports < MaxPorts /\ ports' = ports + 1
  /\ wires' = [wires EXCEPT ![b] = Fresh(ports + 1)]
  /\ pending' = [pending EXCEPT ![b] = 0]
  /\ Quiet
  /\ UNCHANGED <<live, running, frWatch, eth, news>>

Detach(b) ==
  /\ wires' = [wires EXCEPT ![b] = NoPort]
  /\ Quiet
  /\ UNCHANGED <<live, running, frWatch, eth, pending, news, ports>>

AttachOther ==
  /\ ports < MaxPorts /\ ports' = ports + 1
  /\ \/ frWatch' = Fresh(ports + 1) /\ UNCHANGED eth
     \/ eth' = Fresh(ports + 1) /\ UNCHANGED frWatch
  /\ Quiet
  /\ UNCHANGED <<live, running, wires, pending, news>>

(* The driver is reopened: every Vector port closes, CAN and FlexRay.        *)
RefreshHardware ==
  /\ wires' = [b \in Wired |-> NoPort] /\ frWatch' = NoPort
  /\ Quiet
  /\ UNCHANGED <<live, running, eth, pending, news, ports>>

(* Ports above the removed bus move down with it; waiting refusals do not.   *)
ShiftedDown(b) == [c \in 1..(Len(wires) - 1) |-> IF c < b THEN wires[c] ELSE wires[c + 1]]

RemoveWire(b) ==
  /\ Len(wires) > 1
  /\ RemovePending \/ pending = NoLines
  /\ wires' = ShiftedDown(b)
  /\ Quiet
  /\ UNCHANGED <<live, running, frWatch, eth, pending, news, ports>>

SetBusMode(real) ==
  /\ live' = real
  /\ Quiet
  /\ UNCHANGED <<running, wires, frWatch, eth, pending, news, ports>>

StartStop ==
  /\ running' = ~running
  /\ Quiet
  /\ UNCHANGED <<live, wires, frWatch, eth, pending, news, ports>>

(* The world: a frame arrives at a port.                                     *)
Queued(p) == [p EXCEPT !.queue = Append(@, FALSE)]
HasRoom(p) == IsPort(p) /\ Len(p.queue) < MaxQueue

Arrives ==
  /\ \/ \E b \in Wired : HasRoom(wires[b]) /\ wires' = [wires EXCEPT ![b] = Queued(@)]
                         /\ UNCHANGED <<frWatch, eth>>
     \/ HasRoom(frWatch) /\ frWatch' = Queued(frWatch) /\ UNCHANGED <<wires, eth>>
     \/ HasRoom(eth) /\ eth' = Queued(eth) /\ UNCHANGED <<wires, frWatch>>
  /\ UNCHANGED <<live, running, pending, news, heard, wrote, ports>>

-----------------------------------------------------------------------------
(* The latch: the first refusal of a port waits to be told, the next ones    *)
(* only count (the count stops at 2 here).  It serves a refused write and a  *)
(* driver's report that nobody acknowledged; n lines wait for the bus.       *)
Latched(p) == [p EXCEPT !.tx_fail = IF p.tx_fail < 2 THEN p.tx_fail + 1 ELSE 2]

WaitingAlways(p, n) == IF n < 2 THEN n + 1 ELSE 2

Waiting(p, n) == IF p.tx_fail = 0 THEN n + 1 ELSE n

WriteIfLive(b, refused) ==
  /\ IF live /\ IsPort(wires[b]) /\ refused
     THEN /\ wires' = [wires EXCEPT ![b] = Latched(@)]
          /\ pending' = [pending EXCEPT ![b] = Waiting(wires[b], @)]
     ELSE UNCHANGED <<wires, pending>>
  /\ wrote' = IF live /\ IsPort(wires[b]) THEN "live" ELSE "none"
  /\ heard' = {}
  /\ UNCHANGED <<live, running, frWatch, eth, news, ports>>

(* emit_eth: an attached port is written whatever the mode.                  *)
EmitEth ==
  /\ IsPort(eth)
  /\ wrote' = IF live THEN "live" ELSE "parked"
  /\ heard' = {}
  /\ UNCHANGED <<live, running, wires, frWatch, eth, pending, news, ports>>

(* A poll empties a queue, and drops what it took while parked.              *)
PolledParkedKept(p) ==
  IF ~IsPort(p) THEN p
  ELSE IF live THEN [p EXCEPT !.queue = <<>>]
  ELSE [p EXCEPT !.queue = [k \in DOMAIN @ |-> TRUE]]

Polled(p) == IF IsPort(p) THEN [p EXCEPT !.queue = <<>>] ELSE p

(* poll_eth leaves at once when parked: the queue stays.                     *)
PolledEth(p) == PolledParkedKept(p)

Marks(p) == IF IsPort(p) /\ live THEN {p.queue[k] : k \in DOMAIN p.queue} ELSE {}

(* A poll of live CAN ports also latches what their drivers report.          *)
Reporting(b, reports) == live /\ b \in reports /\ IsPort(wires[b])

AfterPoll(reports) ==
  [b \in Wired |-> IF Reporting(b, reports) THEN Latched(Polled(wires[b])) ELSE Polled(wires[b])]

AfterReports(reports) ==
  [b \in 1..MaxWires |->
    IF b \in Wired /\ Reporting(b, reports) THEN Waiting(wires[b], pending[b]) ELSE pending[b]]

(* The line of a waiting refusal names the bus; it is lost when the bus has  *)
(* no port, or none that failed.                                             *)
Failing(ws, p) == {b \in DOMAIN ws : ws[b].id = p /\ ws[b].tx_fail > 0}

Told(ws, w) ==
  [p \in 1..MaxPorts |->
    IF Failing(ws, p) = {} THEN news[p]
    ELSE LET n == news[p] + w[CHOOSE b \in Failing(ws, p) : TRUE] IN IF n > 2 THEN 2 ELSE n]

(* One step of a live run: every port is polled, then the refusals told.     *)
StepHardware(reports) ==
  /\ running
  /\ heard' = (UNION {Marks(wires[b]) : b \in Wired}) \cup Marks(frWatch)
  /\ wires' = AfterPoll(reports)
  /\ frWatch' = Polled(frWatch)
  /\ eth' = PolledEth(eth)
  /\ news' = Told(AfterPoll(reports), AfterReports(reports))
  /\ pending' = NoLines
  /\ wrote' = "none"
  /\ UNCHANGED <<live, running, ports>>

WiresNext ==
  \/ \E b \in Wired : Attach(b) \/ Detach(b) \/ RemoveWire(b)
  \/ \E b \in Wired, refused \in BOOLEAN : WriteIfLive(b, refused)
  \/ AttachOther
  \/ RefreshHardware
  \/ \E real \in BOOLEAN : SetBusMode(real)
  \/ StartStop
  \/ Arrives
  \/ EmitEth
  \/ \E reports \in SUBSET Wired : StepHardware(reports)

WiresSpec == WiresInit /\ [][WiresNext]_wireVars

-----------------------------------------------------------------------------
PortOK(p) == p = NoPort \/ (p.id \in 1..ports /\ Len(p.queue) <= MaxQueue /\ p.tx_fail \in 0..2)

(* The state keeps its shape, and no port serves two buses.                  *)
WiresTypeOK ==
  /\ live \in BOOLEAN /\ running \in BOOLEAN /\ ports \in 0..MaxPorts
  /\ \A b \in Wired : PortOK(wires[b])
  /\ PortOK(frWatch) /\ PortOK(eth)
  /\ \A b, c \in Wired : wires[b].id = wires[c].id /\ IsPort(wires[b]) => b = c

(* One fault, one line: a port that is still attached and failed has a line  *)
(* waiting under its bus or was told of exactly once, however often it       *)
(* refused and whatever was attached, detached or removed around it          *)
(* (hw/mod.rs write_if_live, take_tx_fail_news).                             *)
OneLinePerFault ==
  /\ \A p \in 1..MaxPorts : news[p] <= 1
  /\ \A b \in Wired : IsPort(wires[b]) /\ wires[b].tx_fail > 0 =>
       news[wires[b].id] + pending[b] = 1

(* A frame that was queued when a parked step polled is never delivered:     *)
(* parked traffic stays off the timeline on CAN and FlexRay.                 *)
ParkedNotDelivered == TRUE \notin heard

(* The hardware ports keep their type; one line is told for each wire that   *)
(* refuses, and no parked traffic comes later.                               *)
PortsHonest == WiresTypeOK /\ OneLinePerFault /\ ParkedNotDelivered

(* The same of Ethernet: a parked poll leaves nothing behind.                *)
ParkedEthDropped ==
  [][(\E reports \in SUBSET Wired : StepHardware(reports)) /\ ~live /\ IsPort(eth)
      => eth'.queue = <<>>]_wireVars

(* A parked port is not written (hw/mod.rs 302-309).                         *)
ParkedNotWritten == wrote # "parked"
=============================================================================
