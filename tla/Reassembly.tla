----------------------------- MODULE Reassembly -----------------------------
(***************************************************************************)
(* The three reassemblers between a captured Ethernet frame and a SOME/IP   *)
(* message (eth/someip.rs): IP fragments (SomeIpIp), SOME/IP-TP segments    *)
(* (SomeIpTp) and the byte stream of a TCP connection (SomeIpTcp).          *)
(*                                                                         *)
(* The network delivers pieces in any order, any number of times, or never. *)
(* A capture carries one of the three (`carried`): they share no state.     *)
(* Content is counted in units: <<d, k>> is unit k of datagram or message d, *)
(* and a unit of a TCP stream is its position in it.                        *)
(***************************************************************************)
EXTENDS Integers, Sequences, FiniteSets, SequencesExt

CONSTANTS
    Datagrams,  \* what is cut into IP fragments or TP segments
    Size,       \* Size[d]: its units
    Key,        \* Key[d]: the flow it falls into (addresses, identification, session)
    TcpStarts,  \* where each message of the connection begins, and where the last one ends
    TcpModulus, \* the sequence number space (2^32 in the code)
    Origin,     \* the sequence number of the stream's first unit
    MaxStream   \* MAX_STREAM, in units

ASSUME ReassemblyAssumption ==
    /\ Size \in [Datagrams -> Nat \ {0}] /\ DOMAIN Key = Datagrams
    /\ -1 \notin Datagrams
    /\ TcpStarts \in Seq(Nat) /\ TcpStarts # <<>> /\ TcpStarts[1] = 0
    /\ \A m, n \in DOMAIN TcpStarts : m < n => TcpStarts[m] < TcpStarts[n]
    /\ TcpModulus \in Nat \ {0} /\ Origin \in Nat /\ MaxStream \in Nat

VARIABLES
    carried, \* what this capture carries: "ip", "tp" or "tcp"
    flows,  \* the flow of every key
    tcp,    \* the flow of the connection, or NoFlow
    out,    \* what the last piece completed
    seen,   \* history: the TCP messages handed on since the flow last took up the stream
    base,   \* history: where it took it up, or Absent if that was inside a message
            \* or a segment was missed since
    reach   \* history: the true position behind the sequence number it expects

pieceVars == <<carried, flows, tcp, out, seen, base, reach>>

FlowKeys == {Key[d] : d \in Datagrams}
Absent == -1
Unit(d, k) == <<d, k>>
Cut(d, from, to) == [i \in 1 .. to - from |-> Unit(d, from + i - 1)]
Whole(d) == Cut(d, 0, Size[d])

-----------------------------------------------------------------------------
(* IP fragments: SomeIpIp.  A flow keeps the header of its first fragment,   *)
(* its pieces by offset, and its length once the last fragment came.         *)

EmptyIp == [header |-> Absent, pieces |-> <<>>, total |-> Absent]
End(pieces, at) == at + Len(pieces[at])

\* A hole: a piece starts beyond what the pieces before it reach.
Hole(pieces) == \E at \in DOMAIN pieces :
    at > 0 /\ \A b \in DOMAIN pieces : b < at => End(pieces, b) < at
Reach(pieces) == CHOOSE n \in {End(pieces, at) : at \in DOMAIN pieces} :
    \A at \in DOMAIN pieces : End(pieces, at) <= n
\* mutant: overlapping pieces are put one behind the other
JoinedAppended(pieces) ==
    FoldLeft(LAMBDA units, at : units \o pieces[at], <<>>, SetToSortSeq(DOMAIN pieces, <))

\* Where pieces overlap, the one that starts first is taken.
Joined(pieces) == [k \in 1 .. Reach(pieces) |->
    LET over == {at \in DOMAIN pieces : at < k /\ k <= End(pieces, at)}
        first == CHOOSE at \in over : \A b \in over : at <= b
    IN  pieces[first][k - first]]

WithPiece(flow, d, from, to) ==
    [header |-> IF from = 0 THEN d ELSE flow.header,
     pieces |-> [at \in DOMAIN flow.pieces \cup {from} |->
                    IF at = from THEN Cut(d, from, to) ELSE flow.pieces[at]],
     total  |-> IF to = Size[d] THEN to ELSE flow.total]

Complete(flow) == /\ flow.header # Absent /\ flow.total # Absent
                  /\ ~ Hole(flow.pieces)
                  /\ Reach(flow.pieces) = flow.total

FeedIp(d, from, to) ==
    LET flow == WithPiece(flows[Key[d]], d, from, to) IN
    /\ carried = "ip"
    /\ 0 <= from /\ from < to /\ to <= Size[d]
    /\ to - from < Size[d]                  \* a frame that is no fragment passes through
    /\ IF Complete(flow)
         THEN /\ flows' = [flows EXCEPT ![Key[d]] = EmptyIp]
              /\ out' = [by |-> "ip", head |-> flow.header, units |-> Joined(flow.pieces)]
         ELSE /\ flows' = [flows EXCEPT ![Key[d]] = flow]
              /\ out' = [by |-> "none"]
    /\ UNCHANGED <<carried, tcp, seen, base, reach>>

-----------------------------------------------------------------------------
(* SOME/IP-TP segments: SomeIpTp.  The first segment empties the flow, the   *)
(* last one joins what is there or drops it.                                 *)

EmptyTp == <<>>
Contiguous(pieces) == \A at \in DOMAIN pieces :
    at = 0 \/ \E b \in DOMAIN pieces : b < at /\ End(pieces, b) = at

FeedTp(d, k) ==
    LET key == Key[d]
        old == IF k = 0 THEN EmptyTp ELSE flows[key]
        segments == [at \in DOMAIN old \cup {k} |->
                        IF at = k THEN Cut(d, k, k + 1) ELSE old[at]]
        whole == /\ 0 \in DOMAIN segments /\ Contiguous(segments)
                 /\ Reach(segments) = k + 1
    IN
    /\ carried = "tp"
    /\ k \in 0 .. Size[d] - 1
    /\ IF k + 1 < Size[d]                    \* "more segments"
         THEN flows' = [flows EXCEPT ![key] = segments] /\ out' = [by |-> "none"]
         ELSE /\ flows' = [flows EXCEPT ![key] = EmptyTp]
              /\ out' = IF whole THEN [by |-> "tp", head |-> d, units |-> Joined(segments)]
                                 ELSE [by |-> "none"]
    /\ UNCHANGED <<carried, tcp, seen, base, reach>>

-----------------------------------------------------------------------------
(* The TCP stream: SomeIpTcp.  Message m is the units of the stream from      *)
(* StartOf(m) to before StartOf(m + 1); the first is its SOME/IP header with  *)
(* the length.                                                                *)

Messages == 1 .. Len(TcpStarts) - 1
StartOf(m) == TcpStarts[m]
Units(m) == StartOf(m + 1) - StartOf(m)
Length == StartOf(Len(TcpStarts))
Half == TcpModulus \div 2
SeqNo(pos) == (Origin + pos) % TcpModulus
Behind(expected, seq) == (expected - seq) % TcpModulus

NoFlow == [next |-> Absent, buffer |-> <<>>]

\* mutant: the sequence number does not wrap
TakeUnwrapped(buffer, data, from, to) ==
    [next |-> SeqNo(from) + to - from, buffer |-> buffer \o data]

\* extend_from_slice, and the sequence number behind the segment
Take(buffer, data, from, to) ==
    [next |-> (SeqNo(from) + to - from) % TcpModulus, buffer |-> buffer \o data]

\* mutant: a retransmission that brings new data is taken whole
AcceptWhole(flow, from, to) ==
    LET payload == [i \in 1 .. to - from |-> from + i - 1]
        overlap == IF flow.next = Absent THEN 0 ELSE Behind(flow.next, SeqNo(from))
    IN  IF overlap \in to - from .. Half - 1 THEN flow
        ELSE Take(IF overlap < Half THEN flow.buffer ELSE <<>>, payload, from, to)

Accept(flow, from, to) ==
    LET payload == [i \in 1 .. to - from |-> from + i - 1]
        expected == IF flow.next = Absent THEN SeqNo(from) ELSE flow.next
        overlap == Behind(expected, SeqNo(from))
    IN  IF overlap = 0 THEN Take(flow.buffer, payload, from, to)
        ELSE IF Behind(SeqNo(from), expected) <= Half
          THEN Take(<<>>, payload, from, to)           \* a lost segment: do not guess
        ELSE IF overlap < to - from                     \* keep only the new tail
          THEN Take(flow.buffer, SubSeq(payload, overlap + 1, to - from), from, to)
          ELSE flow

\* mutant: one message is parsed of every segment
ScanOne(buffer) ==
    LET ms == IF buffer = <<>> THEN {} ELSE {m \in Messages : StartOf(m) = buffer[1]}
        m == CHOOSE m \in ms : TRUE
    IN  IF ms = {} THEN [msgs |-> <<>>, rest |-> <<>>, lost |-> buffer # <<>>]
        ELSE IF Units(m) > Len(buffer) THEN [msgs |-> <<>>, rest |-> buffer, lost |-> FALSE]
        ELSE [msgs |-> <<m>>, rest |-> SubSeq(buffer, Units(m) + 1, Len(buffer)), lost |-> FALSE]

\* The parse loop, from position i of the buffer on: the messages found, what
\* is left, and whether the flow still knows its place.  A unit in the middle
\* of a message, read as a header, announces an impossible length.
Scan(buffer) ==
    LET found[i \in 1 .. Len(buffer) + 1] ==
          IF i = Len(buffer) + 1 THEN [msgs |-> <<>>, rest |-> <<>>, lost |-> FALSE]
          ELSE LET ms == {m \in Messages : StartOf(m) = buffer[i]} IN
               IF ms = {} THEN [msgs |-> <<>>, rest |-> <<>>, lost |-> TRUE]
               ELSE LET m == CHOOSE m \in ms : TRUE
                        j == i + Units(m)
                    IN  IF Units(m) > MaxStream
                          THEN [msgs |-> <<>>, rest |-> <<>>, lost |-> TRUE]
                        ELSE IF j > Len(buffer) + 1
                          THEN [msgs |-> <<>>, rest |-> SubSeq(buffer, i, Len(buffer)),
                                lost |-> FALSE]
                          ELSE [found[j] EXCEPT !.msgs = <<m>> \o @]
    IN  found[1]

\* A segment starts where the sender's window allows, so that sequence numbers
\* half the space apart never meet.
InWindow(from) == tcp.next # Absent => /\ reach - from < Half
                                     /\ from - reach <= Half

FeedTcp(from, to) ==
    LET fresh == tcp.next = Absent
        got == Accept(tcp, from, to)
        scan == IF Len(got.buffer) > MaxStream
                  THEN [msgs |-> <<>>, rest |-> <<>>, lost |-> TRUE]
                  ELSE Scan(got.buffer)
        began == IF fresh THEN (IF \E m \in Messages : StartOf(m) = from THEN from ELSE Absent)
                          ELSE (IF from <= reach THEN base ELSE Absent)
    IN
    /\ carried = "tcp"
    /\ from < to
    /\ InWindow(from)
    /\ \E fin \in {FALSE, to = Length} :
         tcp' = IF fin THEN NoFlow
                ELSE [next |-> IF scan.lost THEN Absent ELSE got.next, buffer |-> scan.rest]
    /\ out' = [by |-> "tcp", msgs |-> scan.msgs]
    /\ seen' = (IF fresh THEN <<>> ELSE seen) \o scan.msgs
    /\ base' = IF scan.lost THEN Absent ELSE began
    /\ reach' = IF fresh \/ to > reach THEN to ELSE reach
    /\ UNCHANGED <<carried, flows>>

\* SYN: the flow starts anew at the next sequence number
Syn ==
    /\ carried = "tcp"
    /\ InWindow(0)
    /\ tcp' = [next |-> SeqNo(0), buffer |-> <<>>]
    /\ out' = [by |-> "tcp", msgs |-> <<>>]
    /\ seen' = <<>> /\ base' = 0 /\ reach' = 0
    /\ UNCHANGED <<carried, flows>>

-----------------------------------------------------------------------------

PiecesInit ==
    /\ carried \in {"ip", "tp", "tcp"}
    /\ flows = [k \in FlowKeys |-> IF carried = "ip" THEN EmptyIp ELSE EmptyTp]
    /\ tcp = NoFlow
    /\ out = [by |-> "none"]
    /\ seen = <<>> /\ base = Absent /\ reach = 0

PiecesNext ==
    \/ \E d \in Datagrams : \E from \in 0 .. Size[d] - 1, to \in 1 .. Size[d] :
           FeedIp(d, from, to)
    \/ \E d \in Datagrams : \E k \in 0 .. Size[d] - 1 : FeedTp(d, k)
    \/ \E from \in 0 .. Length - 1, to \in 1 .. Length : FeedTcp(from, to)
    \/ Syn

PiecesSpec == PiecesInit /\ [][PiecesNext]_pieceVars

-----------------------------------------------------------------------------

Content(d) == {Unit(d, k) : k \in 0 .. Size[d] - 1}
Contents == UNION {Content(d) : d \in Datagrams}

PiecesTyped ==
    /\ carried \in {"ip", "tp", "tcp"}
    /\ carried = "ip" => \A k \in FlowKeys : \A at \in DOMAIN flows[k].pieces :
                          \A i \in DOMAIN flows[k].pieces[at] : flows[k].pieces[at][i] \in Contents
    /\ carried = "tp" => \A k \in FlowKeys : \A at \in DOMAIN flows[k] : flows[k][at] \in Seq(Contents)
    /\ tcp.next \in {Absent} \cup 0 .. TcpModulus - 1
    /\ Len(tcp.buffer) <= MaxStream
    /\ base \in {Absent} \cup 0 .. Length /\ reach \in 0 .. Length

\* Whatever IP fragments and TP segments arrive, and however often and in
\* whatever order: what is put together has no hole and no unit twice, and
\* where no other datagram uses the same flow it is exactly what was sent.
WholeOrNothing == out.by \in {"ip", "tp"} =>
    /\ \A i \in DOMAIN out.units : out.units[i][2] = i - 1
    /\ (\A d \in Datagrams : Key[d] = Key[out.head] => d = out.head)
           => out.units = Whole(out.head)

\* A flow that knows its place hands every message on once and in order: a
\* retransmission, whole or with new data at its end, adds nothing twice.
InOrderOnce == \A i, j \in DOMAIN seen : i < j => seen[i] < seen[j]

\* As long as no segment was missed, what has been handed on is exactly the
\* messages whose last unit has arrived: none held back, none cut short.
NothingHeldBack == base # Absent =>
    LET whole == {m \in Messages : base <= StartOf(m) /\ StartOf(m + 1) <= reach}
    IN  ToSet(seen) = whole

\* The messages of a TCP stream come out once, in order, and none held back.
StreamsHonest == InOrderOnce /\ NothingHeldBack
=============================================================================
