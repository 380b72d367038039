------------------------------ MODULE LogWriter ------------------------------
(***************************************************************************)
(* How a recording reaches the disk: the three writers behind Recorder     *)
(* (src/src/log/blf.rs, asc.rs, pcap.rs), and what is left when the        *)
(* process dies.  Objects are numbered as they are handed over (told); a   *)
(* BLF container and a written stretch of an ASC or PCAP file are a piece  *)
(* of the disk, from one number to another.  A piece that is not whole was *)
(* cut: a container in the middle, or a single line or packet.             *)
(***************************************************************************)
EXTENDS Naturals, Sequences

CONSTANTS
    Formats,      \* the formats recorded: subset of {"blf", "asc", "pcap"}
    Tears,        \* those whose last line or packet a full buffer or a kill may cut
    Full,         \* objects that make a container, or fill the buffer of a text file
    Interval,     \* CONTAINER_FLUSH_INTERVAL
    Faults,       \* "container": one may be written in part; "patch": a header
    MaxObjects, MaxT            \* bounds: objects, the clock

ASSUME WriterAssumption ==
    /\ Formats \subseteq {"blf", "asc", "pcap"} /\ Tears \subseteq Formats
    /\ Full \in Nat \ {0} /\ Interval \in Nat /\ Faults \subseteq {"container", "patch"}
    /\ MaxObjects \in Nat /\ MaxT \in Nat

VARIABLES
    fmt, phase,   \* of the file: "open", "closed" or "killed"
    told,         \* history: what was handed over: kind, stamp, when
    mark,         \* the objects after it are in memory only (pending, BufWriter)
    disk,         \* the pieces written
    header,       \* what the BLF header says: containers, span (0 where no stop
                  \* time is there yet); is its stop time torn?
    containers,   \* of BlfWriter: those written whole
    astray,       \* was the write position left in the header?
    flushed,      \* last_container
    now,
    settled       \* history: how much was told, and when, at the last end of a step

mediumVars == <<mark, disk, header, containers, astray, flushed>>
writerVars == <<fmt, phase, told, now, settled, mediumVars>>

-----------------------------------------------------------------------------
Takes == [blf |-> {"can", "fr", "eth"}, asc |-> {"can", "fr"}, pcap |-> {"eth"}]

Piece(a, b, whole) == [from |-> a, to |-> b, whole |-> whole]
Untorn(d) == IF d # <<>> /\ ~d[Len(d)].whole THEN SubSeq(d, 1, Len(d) - 1) ELSE d

\* note_ts, stop_time: the span the objects cover, whatever their order.
SpanOf(stamps) ==
    IF stamps = {} THEN 0
    ELSE CHOOSE s \in 0 .. MaxT : \E a, b \in stamps :
             /\ s = b - a /\ b >= a
             /\ \A t \in stamps : a <= t /\ t <= b

Span(objects) == SpanOf({objects[i].t : i \in DOMAIN objects})

\* The objects in memory become a container at the end of the file; where the
\* position is astray, bytes over the header and the first containers.
Landed(whole) ==
    IF ~astray THEN disk' = Append(disk, Piece(mark + 1, Len(told'), whole))
    ELSE \E k \in 0 .. Len(disk) :
           disk' = [j \in DOMAIN disk |-> IF j <= k THEN [disk[j] EXCEPT !.whole = FALSE] ELSE disk[j]]

\* patch_header writes the count, then the eight fields of the stop time.  What
\* the header is after all of it, and where it ends at any point.
Patched(count) == [count |-> count, span |-> Span(told'), torn |-> FALSE]
Patching(count) ==
    {header, [header EXCEPT !.count = count],
     [header EXCEPT !.count = count, !.torn = TRUE], Patched(count)}

\* A patch that fails leaves the position where it was, or where it failed.
PatchHeader ==
    \/ header' = Patched(containers') /\ astray' = FALSE
    \/ "patch" \in Faults /\ header' \in Patching(containers') /\ astray' \in {astray, TRUE}

\* One write; only its success is counted and stamps the container.  The memory
\* is emptied either way.
WriteContainer ==
    /\ mark' = Len(told')
    /\ \/ mark = Len(told') /\ UNCHANGED <<disk, containers, flushed>>
       \/ mark < Len(told') /\ Landed(TRUE) /\ containers' = containers + 1 /\ flushed' = now
       \/ /\ "container" \in Faults /\ mark < Len(told')
          /\ Landed(FALSE) /\ UNCHANGED <<containers, flushed>>

\* BlfWriter::flush_container patches the header for a container, finish in any
\* case.
FlushContainer ==
    /\ WriteContainer
    /\ IF containers' # containers THEN PatchHeader ELSE UNCHANGED <<header, astray>>
Finish == WriteContainer /\ PatchHeader

\* BufWriter: everything up to object n is on the disk, and of the next one
\* perhaps a part.
Drained(n, torn) ==
    /\ mark' = n
    /\ disk' = LET d == Untorn(disk)
                   e == IF n > mark THEN Append(d, Piece(mark + 1, n, TRUE)) ELSE d
               IN  IF torn THEN Append(e, Piece(n + 1, n + 1, FALSE)) ELSE e
    /\ UNCHANGED <<header, containers, astray, flushed>>

-----------------------------------------------------------------------------
WriterInit ==
    /\ fmt \in Formats /\ phase = "open"
    /\ told = <<>> /\ mark = 0 /\ disk = <<>>
    /\ header = [count |-> 0, span |-> 0, torn |-> FALSE] /\ containers = 0 /\ astray = FALSE
    /\ flushed = 0 /\ now = 0 /\ settled = [count |-> 0, at |-> 0]

\* Recorder::write, write_fr, write_eth are handed an object.  Stamps are near the
\* clock and need not rise: the walk of a step has the frames of several senders.
Handed(kind, t) ==
    /\ Len(told) < MaxObjects /\ kind \in Takes[fmt]
    /\ t <= now /\ now <= t + 1
    /\ told' = Append(told, [kind |-> kind, t |-> t, at |-> now])

Write(kind, t) ==
    /\ phase = "open" /\ Handed(kind, t)
    /\ IF fmt = "blf"
       THEN IF Len(told') - mark >= Full THEN FlushContainer ELSE UNCHANGED mediumVars
       ELSE \/ /\ Len(told') - mark > Full
               /\ \E torn \in {FALSE} \cup {fmt \in Tears} : Drained(Len(told), torn)
            \/ Len(told') - mark <= Full /\ UNCHANGED mediumVars
    /\ UNCHANGED <<fmt, phase, now, settled>>

\* A container waits for its interval, CONTAINER_FLUSH_INTERVAL.
\* Mutant: for longer.
ContainerDueLate == now - flushed > Interval
ContainerDue == now - flushed >= Interval

\* Recorder::flush at the end of every step: a text file is drained.
Flush ==
    /\ phase = "open"
    /\ settled' = [count |-> Len(told), at |-> now]
    /\ UNCHANGED <<fmt, phase, told, now>>
    /\ IF fmt # "blf" THEN Drained(Len(told), FALSE)
       ELSE IF ContainerDue THEN FlushContainer
       ELSE UNCHANGED mediumVars

\* finish, and Drop for a writer nobody finished (a panic, a replaced recorder).
CloseFile ==
    /\ phase = "open" /\ phase' = "closed"
    /\ UNCHANGED <<fmt, told, now, settled>>
    /\ IF fmt = "blf" THEN FlushContainer \/ Finish ELSE Drained(Len(told), FALSE)

\* The process is killed: between two writes, or in one.  That may be on the way
\* of an object, in a container, or between the parts of its patch.
Kill ==
    /\ phase = "open" /\ phase' = "killed"
    /\ told' = told \/ \E kind \in {"can", "fr", "eth"}, t \in 0 .. MaxT : Handed(kind, t)
    /\ UNCHANGED <<fmt, now, settled>>
    /\ \/ UNCHANGED mediumVars
       \/ /\ fmt = "blf" /\ mark < Len(told') /\ UNCHANGED <<mark, containers, astray, flushed>>
          /\ \/ Landed(FALSE) /\ UNCHANGED header
             \/ Landed(TRUE) /\ header' \in Patching(containers + 1)
       \/ /\ fmt # "blf"
          /\ \E n \in mark .. Len(told'), torn \in {FALSE} \cup {fmt \in Tears} :
               (torn => n < Len(told')) /\ Drained(n, torn)

Tick == phase = "open" /\ now < MaxT /\ now' = now + 1
        /\ UNCHANGED <<fmt, phase, told, settled, mediumVars>>

WriterNext ==
    \/ \E kind \in {"can", "fr", "eth"}, t \in 0 .. MaxT : Write(kind, t)
    \/ Flush \/ CloseFile \/ Kill \/ Tick

\* The writer is gone, and its clocks with it, when the file is opened again.
WriterGone ==
    /\ phase # "open"
    /\ now' = 0 /\ flushed' = 0 /\ settled' = [count |-> 0, at |-> 0]
    /\ told' = [i \in DOMAIN told |-> [told[i] EXCEPT !.at = 0]]
    /\ UNCHANGED <<fmt, phase, mark, disk, header, containers, astray>>

WriterSpec == WriterInit /\ [][WriterNext \/ WriterGone]_writerVars

-----------------------------------------------------------------------------
\* The pieces a BLF reader comes to: past a cut one it goes on from where that
\* should have ended, in the middle of the next.
Reached ==
    LET entered[k \in 0 .. Len(disk)] ==
            k = 0 \/ k = 1 \/ ~(entered[k - 1] /\ ~disk[k - 1].whole)
    IN  {k \in DOMAIN disk : entered[k] /\ disk[k].whole}

\* The objects that can be read back.  One cut packet makes a PCAP unreadable
\* (parse_classic); a cut line is dropped or read with less data (parse_asc_row),
\* and not among these.
Readable ==
    IF fmt = "pcap" /\ disk # <<>> /\ ~disk[Len(disk)].whole THEN {}
    ELSE UNION {disk[k].from .. disk[k].to :
                  k \in IF fmt = "blf" THEN Reached ELSE {j \in DOMAIN disk : disk[j].whole}}

WriterTypeOK ==
    /\ phase \in {"open", "closed", "killed"}
    /\ mark \in 0 .. Len(told)
    /\ \A k \in DOMAIN disk : disk[k].from <= disk[k].to /\ disk[k].to <= Len(told)
    /\ header.count <= Len(disk) /\ flushed <= now

\* What a step left on the disk can be read back from then on, however the
\* process ends: every object of a text file, those of a BLF file once they are
\* an interval old; a file that was closed has them all.  And what can be read is
\* the beginning of what was recorded, without a hole (Recorder::flush).
SurvivesAKill ==
    /\ \A i \in 1 .. settled.count :
         (fmt # "blf" \/ told[i].at + Interval <= settled.at) => i \in Readable
    /\ phase = "closed" => Readable = DOMAIN told
    /\ \A i \in Readable : \A j \in 1 .. i : j \in Readable

\* The span of the first k containers.
SpanTo(k) == IF k = 0 THEN 0 ELSE Span(SubSeq(told, 1, disk[k].to))

\* The header of a BLF file tells of containers that are there, whole, and of the
\* time they span, at any moment of the recording (flush_container's patch).  A
\* kill may leave it one container behind; between the parts of the patch, with
\* the last container counted and the span that of those before, or a torn one.
HeaderHonest ==
    fmt = "blf" =>
        /\ Len(disk) <= header.count + 1
        /\ \A k \in 1 .. header.count : disk[k].whole
        /\ \/ ~header.torn /\ header.span = SpanTo(header.count)
           \/ /\ phase = "killed" /\ header.count = Len(disk)
              /\ header.torn \/ header.span = SpanTo(header.count - 1)
        /\ phase # "killed" => header.count = Len(disk)

\* What a recording leaves on the disk is whole, and told of truly, at every
\* moment and after any end (blf.rs, asc.rs, pcap.rs).
DiskHonest == WriterTypeOK /\ SurvivesAKill /\ HeaderHonest
=============================================================================
