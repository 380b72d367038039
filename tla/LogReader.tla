------------------------------ MODULE LogReader ------------------------------
(***************************************************************************)
(* A recorded file played back: BlfStream, AscStream and PcapStream        *)
(* (src/src/log), each read through the trait FrameStream by the laps of   *)
(* ReplaySource (src/src/source/replay.rs).  Playhead takes a log as three *)
(* sequences; here they come out of one file, container by container, with *)
(* the other two kinds queueing while one is asked for.                    *)
(***************************************************************************)
EXTENDS LogWriter, FiniteSets

CONSTANTS Unset, \* Option::None of t_base and next_t
          Sorted, \* is only a file read whose first object has its earliest stamp?
          Mixed   \* are files copied that hold kinds the tool has no use for?

VARIABLES rd,     \* the stream, or Unset before it is opened
          out,    \* history: what was delivered, per kind
          played, \* history: the playhead of the last lap, and the cached next_t
          copied  \* what a tool made of the whole file, or Unset

readerVars == <<rd, out, played, copied>>

-----------------------------------------------------------------------------
OfKind(kind, a, b) == SelectSeq([i \in 1 .. b - a + 1 |-> a + i - 1], LAMBDA i : told[i].kind = kind)
NewStream == [at |-> 0, can |-> <<>>, fr |-> <<>>, eth |-> <<>>, base |-> Unset,
              sawCan |-> FALSE, noCan |-> FALSE, done |-> FALSE]

\* rebase: the first stamp anyone looks at is the zero of all.
Based(r, i) == IF r.base = Unset THEN [r EXCEPT !.base = told[i].t] ELSE r
Rebased(r, i) == IF fmt = "asc" THEN told[i].t
                 ELSE IF told[i].t > r.base THEN told[i].t - r.base ELSE 0

\* BlfStream::enter_next_container, entered only while nothing is queued.
Idle(r) == r.can = <<>> /\ r.fr = <<>> /\ r.eth = <<>>
RECURSIVE Entered(_)
Entered(r) ==
    IF ~Idle(r) \/ r.at >= Len(disk) THEN r
    ELSE LET p == disk[r.at + 1] IN
         IF p.whole
         THEN [r EXCEPT !.at = @ + 1, !.can = OfKind("can", p.from, p.to),
                        !.fr = OfKind("fr", p.from, p.to), !.eth = OfKind("eth", p.from, p.to)]
         ELSE IF r.at + 1 = Len(disk) THEN [r EXCEPT !.at = @ + 1]
         ELSE Entered([r EXCEPT !.at = @ + 2])

\* AscStream::fill: up to the next CAN frame, one line after the other; rows met
\* on the way are queued.
Line(r) == IF \E i \in Readable : i > r.at THEN r.at + 1 ELSE 0
RECURSIVE Filled(_)
Filled(r) ==
    IF r.can # <<>> \/ Line(r) = 0 THEN r
    ELSE IF told[Line(r)].kind = "can" THEN [r EXCEPT !.at = @ + 1, !.can = <<Line(r)>>]
    ELSE Filled([r EXCEPT !.at = @ + 1, !.fr = Append(@, Line(r))])

\* peek_t, with the scan that proves a file has no CAN frame; it reports none
\* while the container at hand has others to deliver first.
\* Mutant: proven by the first container.
PeekCanHasty(r) ==
    CASE fmt = "pcap" -> r
      [] fmt = "asc" -> Filled(r)
      [] r.noCan -> r
      [] OTHER ->
           LET s == Entered(r) IN
           IF s.can # <<>> THEN [Based(s, s.can[1]) EXCEPT !.sawCan = TRUE]
           ELSE [s EXCEPT !.noCan = ~s.sawCan]
PeekCan(r) ==
    CASE fmt = "pcap" -> r
      [] fmt = "asc" -> Filled(r)
      [] r.noCan -> r
      [] OTHER ->
           LET s == Entered(r) IN
           IF s.can # <<>> THEN [Based(s, s.can[1]) EXCEPT !.sawCan = TRUE]
           ELSE IF Idle(s) THEN [s EXCEPT !.noCan = ~s.sawCan]
           ELSE s
\* A file known to have no CAN frames is not asked for them any more.
CanHead(r) == IF r.noCan \/ r.can = <<>> THEN {} ELSE {r.can[1]}

\* peek_fr_t, peek_eth_t.
PeekFr(r) == CASE fmt = "asc" -> IF r.fr = <<>> THEN Filled(r) ELSE r
               [] fmt = "pcap" -> r
               [] OTHER -> LET s == Entered(r) IN IF s.fr = <<>> THEN s ELSE Based(s, s.fr[1])
PeekEth(r) == IF fmt # "blf" THEN r
              ELSE LET s == Entered(r) IN IF s.eth = <<>> THEN s ELSE Based(s, s.eth[1])
Peeked(r) == PeekEth(PeekFr(PeekCan(r)))

Heads(r) == CanHead(r) \cup {q[1] : q \in {r.fr, r.eth} \ {<<>>}}
NextOf(r) == IF Heads(r) = {} THEN Unset
             ELSE CHOOSE t \in {Rebased(r, i) : i \in Heads(r)} : \A i \in Heads(r) : t <= Rebased(r, i)

-----------------------------------------------------------------------------
\* The loop of ReplaySource::poll: peek, take, peek again, up to the playhead.
RECURSIVE PullCan(_, _, _)
PullCan(r, upto, got) ==
    LET s == PeekCan(r) IN
    IF CanHead(s) = {} \/ Rebased(s, s.can[1]) > upto THEN <<s, got>>
    ELSE PullCan([s EXCEPT !.can = Tail(@)], upto, Append(got, s.can[1]))

\* poll_fr_rows, poll_eth_frames: the head of a queue, as far as it is due.
DueLen(q, r, upto) ==
    CHOOSE n \in 0 .. Len(q) :
        /\ \A i \in 1 .. n : Rebased(r, q[i]) <= upto
        /\ n < Len(q) => Rebased(r, q[n + 1]) > upto
PollFr(r, upto) == [r EXCEPT !.fr = SubSeq(@, DueLen(@, r, upto) + 1, Len(@))]
PollEth(r, upto) == [r EXCEPT !.eth = SubSeq(@, DueLen(@, r, upto) + 1, Len(@))]
Taken(before, after) == SubSeq(before, 1, Len(before) - Len(after))

ReaderInit == rd = Unset /\ out = [can |-> <<>>, fr |-> <<>>, eth |-> <<>>]
              /\ played = [pos |-> 0, next |-> Unset] /\ copied = Unset

Opened ==
    LET all == OfKind("eth", 1, mark) IN
    IF fmt # "pcap" THEN NewStream
    ELSE [NewStream EXCEPT !.eth = all,
            !.base = IF all = <<>> THEN 0
                     ELSE CHOOSE t \in 0 .. MaxT :
                            /\ \E i \in DOMAIN all : told[all[i]].t = t
                            /\ \A i \in DOMAIN all : t <= told[all[i]].t]

\* open_stream and ReplaySource::new.  A PCAP is parsed whole, and rebased to its
\* earliest stamp; a cut packet is an error.
OpenFile ==
    /\ rd = Unset /\ copied = Unset
    /\ fmt = "pcap" => Untorn(disk) = disk
    /\ Sorted => \A i \in DOMAIN told : told[1].t <= told[i].t
    /\ LET r == Peeked(Opened) IN rd' = r /\ played' = [pos |-> 0, next |-> NextOf(r)]
    /\ WriterGone
    /\ UNCHANGED <<out, copied>>

\* A lap: poll, poll_fr and poll_eth at one playhead.
Lap(upto) ==
    /\ rd # Unset /\ ~rd.done /\ upto >= played.pos
    /\ LET pulled == PullCan(rd, upto, <<>>)
           p == Peeked(pulled[1])
           q == [p EXCEPT !.done = Heads(p) = {}]
           f == PollFr(q, upto)
           g == IF fmt = "blf" THEN Entered(f) ELSE f \* poll_eth_frames may read on
           e == PollEth(g, upto)
       IN  /\ rd' = e
           /\ out' = [can |-> out.can \o pulled[2],
                      fr |-> out.fr \o Taken(q.fr, f.fr),
                      eth |-> out.eth \o Taken(g.eth, e.eth)]
           /\ played' = [pos |-> upto, next |-> NextOf(q)]
    /\ UNCHANGED <<copied, writerVars>>

\* The tools that read a file from end to end, and the kinds they take: the
\* command line's convert_log and export_signals_csv (with and without a FlexRay
\* description), the reference curves' load.
Tools == [convert |-> {"can", "fr"}, csv |-> {"can", "fr"}, canCsv |-> {"can"}, reference |-> {"can", "fr", "eth"}]

\* Their loop: ask for the head of every kind, take the earliest, end when there
\* is none.  convert_log takes the rows up to the CAN frame's stamp.
RECURSIVE Copied(_, _, _)
Copied(tool, r, lines) ==
    LET s1 == PeekCan(r)
        s2 == IF "fr" \in Tools[tool] THEN PeekFr(s1) ELSE s1
        s == IF "eth" \in Tools[tool] THEN PeekEth(s2) ELSE s2
        head == [can |-> CanHead(s), fr |-> {q[1] : q \in {s.fr} \ {<<>>}}, eth |-> {q[1] : q \in {s.eth} \ {<<>>}}]
        at(kind) == {Rebased(s, i) : i \in head[kind]}
        stamps == UNION {at(kind) : kind \in Tools[tool]}
        first == CHOOSE t \in stamps : \A u \in stamps : t <= u
    IN  IF stamps = {} THEN lines
        ELSE IF first \in at("can")
        THEN Copied(tool, [s EXCEPT !.can = Tail(@)], Append(lines, s.can[1]))
        ELSE IF first \in at("fr")
        THEN LET upto == IF tool = "convert" /\ at("can") # {} THEN Rebased(s, s.can[1]) ELSE first
                 left == PollFr(s, upto)
             IN  Copied(tool, left, lines \o Taken(s.fr, left.fr))
        ELSE LET left == PollEth(s, first) IN Copied(tool, left, lines \o Taken(s.eth, left.eth))

Copy(tool) ==
    /\ phase # "open" /\ rd = Unset /\ copied = Unset
    /\ fmt = "pcap" => Untorn(disk) = disk
    /\ Mixed \/ fmt # "blf" \/ \A i \in DOMAIN told : told[i].kind \in Tools[tool]
    /\ copied' = [tool |-> tool, lines |-> Copied(tool, Opened, <<>>)]
    /\ UNCHANGED <<rd, out, played, writerVars>>

ReaderNext == (\E upto \in 0 .. MaxT : Lap(upto)) \/ OpenFile \/ \E tool \in DOMAIN Tools : Copy(tool)

FileInit == WriterInit /\ ReaderInit
FileNext == (WriterNext /\ UNCHANGED readerVars) \/ ReaderNext
FileSpec == FileInit /\ [][FileNext]_<<writerVars, readerVars>>

-----------------------------------------------------------------------------
\* Every kind comes out in file order, none early, none twice, none left out; a
\* replay that is done has delivered whatever can be read back.
ReplaysTheFile ==
    rd # Unset =>
      \A kind \in {"can", "fr", "eth"} :
        LET all == SelectSeq([i \in DOMAIN told |-> i], LAMBDA i : i \in Readable /\ told[i].kind = kind)
        IN  /\ Len(out[kind]) <= Len(all)
            /\ out[kind] = SubSeq(all, 1, Len(out[kind]))
            /\ rd.done => out[kind] = all
            /\ \A i \in DOMAIN out[kind] : Rebased(rd, out[kind][i]) <= played.pos

\* The moment the source names for its next lap is never after anything that is
\* still in the file, if that was recorded in order (ReplaySource::next_deadline).
NextInTime ==
    (rd # Unset /\ ~rd.done /\ \A i \in DOMAIN told : i = 1 \/ told[i - 1].t <= told[i].t) =>
      \A i \in Readable :
        (\A kind \in {"can", "fr", "eth"} : \A j \in DOMAIN out[kind] : out[kind][j] # i)
          => played.next # Unset /\ played.next <= Rebased(rd, i)

\* A tool makes of a file everything the file has for it ("a mixed log stays
\* mixed", convert_log), each once, and of a file recorded in order a file in
\* order ("that is what keeps a CAN and a FlexRay write interleaved"), unless a
\* BLF file begins with a FlexRay row or an Ethernet frame (see SpacingKept).
EverythingCrosses ==
    copied # Unset =>
        LET wanted == {i \in Readable : told[i].kind \in Tools[copied.tool]}
            stamps == [k \in DOMAIN copied.lines |-> told[copied.lines[k]].t]
        IN  /\ {copied.lines[k] : k \in DOMAIN copied.lines} = wanted
            /\ Len(copied.lines) = Cardinality(wanted)
            /\ (/\ \A i \in DOMAIN told : i = 1 \/ told[i - 1].t <= told[i].t
                /\ \/ fmt = "asc" \/ (1 \in Readable /\ told[1].kind = "can")
                   \/ \A i, j \in Readable : told[i].kind = told[j].kind) =>
                 \A k \in DOMAIN stamps : k = 1 \/ stamps[k - 1] <= stamps[k]

\* The spacing of the recording is that of the replay: its first object is at
\* zero and each other as far behind it as it was ("matches the log's opening
\* record", BlfStream::t_base).
SpacingKept ==
    (rd # Unset /\ fmt # "asc" /\ rd.base # Unset) =>
      \A i \in Readable : told[i].t >= rd.base
=============================================================================
