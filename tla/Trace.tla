-------------------------------- MODULE Trace --------------------------------
(* The trace of a run, from the rings of the core to the table in the        *)
(* browser (src/src/trace.rs, eth/ring.rs, web.rs TraceStore): three bounded *)
(* rings, the archive file behind the CAN ring, the merged log the web       *)
(* thread keeps of the published rings (how a client polls it: TraceFeed).   *)
EXTENDS Naturals, FiniteSets, FiniteSetsExt, SequencesExt

CONSTANTS Seal,      \* SEAL_FRAMES: rows in a sealed chunk
          Limit,     \* trace_limit, of the CAN ring and of the FlexRay ring
          EthRows,   \* cap_rows of the Ethernet ring
          EthBytes,  \* cap_bytes of it
          Channels,  \* CAN channels (bound)
          Sizes,     \* bytes of an Ethernet frame
          LogCap,    \* TRACE_LOG_CAP, of the log and of the browser's table
          MaxRows,   \* rows of a run (bound)
          MaxFr, MaxEth, \* those on FlexRay and on Ethernet (bounds)
          MaxClears, \* runs and clears (bound)
          Settled    \* whether a ring is cleared only before the archive is
                     \* written, a bus removed likewise, and synced before it fills

ASSUME TraceAssumption ==
  /\ {Seal, Limit, LogCap} \subseteq Nat \ {0}
  /\ {EthRows, EthBytes, MaxRows, MaxFr, MaxEth, MaxClears} \subseteq Nat
  /\ Channels \subseteq Nat /\ Sizes \subseteq Nat
  /\ Settled \in BOOLEAN

VARIABLES can, fr, eth, archive, clears, store,
          run  \* what came in this run and was not removed, and how many rows did
traceVars == <<can, fr, eth, archive, run, clears, store>>

(* A row is known by its place in the run, n; rows come in pairs of one      *)
(* stamp.  "bus" is the CAN channel or FlexRay cluster it came on.           *)
TraceRow(kind, n, bus, size) ==
  [kind |-> kind, n |-> n, t |-> (n + 1) \div 2, bus |-> bus, size |-> size]

(* A ring: its rows, the oldest first, and the places at which its sealed    *)
(* chunks end; places count the rows that ever came.                         *)
EmptyRing == [rows |-> <<>>, ends |-> {}, dropped |-> 0]
Held(ring) == Len(ring.rows)
Total(ring) == Held(ring) + ring.dropped
Bytes(ring) == FoldLeft(LAMBDA sum, row : sum + row.size, 0, ring.rows)
SealedUpTo(ring) == Max(ring.ends \cup {ring.dropped})

(* push: the tail is sealed when it is full.                                 *)
Pushed(ring, row) ==
  LET longer == [ring EXCEPT !.rows = Append(@, row)]
  IN IF Total(longer) - SealedUpTo(ring) < Seal THEN longer
     ELSE [longer EXCEPT !.ends = @ \cup {Total(longer)}]

(* The first n rows leave: whole chunks, then the head of the next one.      *)
Shed(ring, n) ==
  [rows |-> SubSeq(ring.rows, n + 1, Held(ring)),
   ends |-> {e \in ring.ends : e > ring.dropped + n},
   dropped |-> ring.dropped + n]

(* enforce_limit of the CAN and the FlexRay ring.                            *)
Trimmed(ring) == IF Held(ring) <= Limit THEN ring ELSE Shed(ring, Held(ring) - Limit)

(* enforce_limit of the Ethernet ring: a head chunk goes as a whole when     *)
(* enough rows stay without it, row by row when bytes are over; a head chunk *)
(* that is needed for the rows, or that is empty, ends it.                   *)
Over(ring) == Held(ring) > 0 /\ (Bytes(ring) > EthBytes \/ Held(ring) > EthRows)
HeadLen(ring) == Min(ring.ends) - ring.dropped
HeadCut(ring, n) == [Shed(ring, n) EXCEPT !.ends = ring.ends]
HeadGone(ring) == Shed(ring, HeadLen(ring))
Excess(ring) ==
  Min({n \in 0..HeadLen(ring) : n = HeadLen(ring) \/ Bytes(Shed(ring, n)) <= EthBytes})

EthTurn(ring) ==
  IF ~Over(ring) THEN ring
  ELSE IF ring.ends = {} THEN Shed(ring, 1)
  ELSE IF Held(ring) > EthRows /\ Held(ring) - HeadLen(ring) >= EthRows THEN HeadGone(ring)
  ELSE IF Bytes(ring) > EthBytes /\ HeadLen(ring) > 0 THEN HeadCut(ring, Excess(ring))
  ELSE ring

(* Each turn of the loop that does something takes a row or a chunk away.    *)
EthTrimmed(ring) ==
  LET turns == Held(ring) + Cardinality(ring.ends)
      after[k \in 0..turns] == IF k = 0 THEN ring ELSE EthTurn(after[k - 1])
  IN after[turns]

(* rewrite, drop_bus: the rows of a removed bus go and are not counted as    *)
(* dropped; on CAN the buses above it move down.                             *)
Moved(row, gone) == IF row.bus > gone THEN [row EXCEPT !.bus = @ - 1] ELSE row
Stay(rows, gone) == {k \in DOMAIN rows : rows[k].bus # gone}
Chosen(rows, at) ==
  [j \in 1..Cardinality(at) |-> rows[CHOOSE k \in at : Cardinality({i \in at : i <= k}) = j]]
RowsWithout(rows, gone, shift) ==
  LET kept == Chosen(rows, Stay(rows, gone))
  IN IF shift THEN [k \in DOMAIN kept |-> Moved(kept[k], gone)] ELSE kept
Filtered(ring, gone, shift) ==
  [ring EXCEPT
     !.rows = RowsWithout(@, gone, shift),
     !.ends = {ring.dropped + Cardinality({k \in Stay(ring.rows, gone) : ring.dropped + k <= e}) : e \in @}]

-----------------------------------------------------------------------------
(* The archive: records at file positions.  A hole reads back as a record of *)
(* zeros.  Writes go on where the last one ended; a reset cuts the file and  *)
(* leaves the position.                                                      *)
NoArchive == [open |-> FALSE, file |-> <<>>, at |-> 0, frames |-> 0]
Blank == [kind |-> "can", n |-> 0, t |-> 0, bus |-> 0, size |-> 0]

(* Mutant: each batch is written at the beginning again.                     *)
SpilledOver(a, rows) ==
  IF rows = <<>> THEN a
  ELSE [open |-> TRUE, file |-> rows \o SubSeq(a.file, Len(rows) + 1, Len(a.file)),
        at |-> Len(rows), frames |-> a.frames + Len(rows)]

Spilled(a, rows) ==
  IF rows = <<>> THEN a
  ELSE [open |-> TRUE,
        file |-> [k \in 1..(a.at + Len(rows)) |->
                   IF k > a.at THEN rows[k - a.at]
                   ELSE IF k <= Len(a.file) THEN a.file[k] ELSE Blank],
        at |-> a.at + Len(rows), frames |-> a.frames + Len(rows)]

SpillReset(a) == [a EXCEPT !.file = <<>>, !.frames = 0]

-----------------------------------------------------------------------------
(* The merged log of the web thread.                                         *)

(* sort_by_key: by stamp, rows of one stamp stay in the order they came in.  *)
Rank(rows, k) ==
  Cardinality({i \in DOMAIN rows : rows[i].t < rows[k].t \/ (rows[i].t = rows[k].t /\ i <= k)})
ByStamp(rows) == [p \in DOMAIN rows |-> rows[CHOOSE k \in DOMAIN rows : Rank(rows, k) = p]]

LastN(rows, n) == SubSeq(rows, Len(rows) - n + 1, Len(rows))

Capped(rows) == IF Len(rows) <= LogCap THEN rows ELSE LastN(rows, LogCap)

Numbered(s, rows) ==
  [s EXCEPT !.log = Capped(@ \o [k \in DOMAIN rows |-> [seq |-> s.next_seq + k - 1, row |-> rows[k]]]),
            !.next_seq = @ + Len(rows)]

FreshStore == [epoch |-> 0, next_seq |-> 0, log |-> <<>>, last_total |-> 0,
               last_fr |-> 0, last_eth |-> 0, primed |-> FALSE]

Forgotten == [FreshStore EXCEPT !.epoch = store.epoch]

NewestFirst(ring, n) == Reverse(LastN(ring.rows, n))

Rewound(s) ==
  ~s.primed \/ Total(can) < s.last_total \/ Held(fr) < s.last_fr \/ Held(eth) < s.last_eth

(* The CAN ring counts what it lost, the others are told by their length.    *)
Delta(s) ==
  LET fresh(n, old) == IF n > old THEN n - old ELSE 0
  IN ByStamp(NewestFirst(can, Min({fresh(Total(can), s.last_total), Held(can)}))
             \o NewestFirst(fr, fresh(Held(fr), s.last_fr))
             \o NewestFirst(eth, fresh(Held(eth), s.last_eth)))

Synced(s) ==
  LET rows == Capped(ByStamp(can.rows \o fr.rows \o eth.rows))
      s1 == IF Rewound(s)
            THEN Numbered([s EXCEPT !.epoch = @ + 1, !.next_seq = 0, !.log = <<>>,
                                    !.primed = TRUE], rows)
            ELSE Numbered(s, Delta(s))
  IN [s1 EXCEPT !.last_total = Total(can), !.last_fr = Held(fr), !.last_eth = Held(eth)]

(* The log stands where the rings do.                                        *)
InStep == /\ store.primed /\ store.last_total = Total(can)
          /\ store.last_fr = Held(fr) /\ store.last_eth = Held(eth)

-----------------------------------------------------------------------------
NoRun == [n |-> 0, can |-> <<>>, fr |-> <<>>, eth |-> <<>>]

TraceInit ==
  /\ can = EmptyRing /\ fr = EmptyRing /\ eth = EmptyRing /\ archive = NoArchive
  /\ run = NoRun /\ clears = 0
  /\ store = FreshStore

(* With Settled, rows come again when the web thread has seen the rings.     *)
Fills == run.n < MaxRows /\ (Settled /\ store.primed => ~Rewound(store))

CanRow(bus) ==
  LET row == TraceRow("can", run.n + 1, bus, 0)
      ring == Pushed(can, row)
  IN /\ Fills
     /\ can' = Trimmed(ring)
     /\ archive' = Spilled(archive, SubSeq(ring.rows, 1, Held(ring) - Held(Trimmed(ring))))
     /\ run' = [run EXCEPT !.n = @ + 1, !.can = Append(@, row)]
     /\ UNCHANGED <<fr, eth, clears, store>>

FrRow(bus) ==
  LET row == TraceRow("fr", run.n + 1, bus, 0)
  IN /\ Fills /\ Len(run.fr) < MaxFr
     /\ fr' = Trimmed(Pushed(fr, row))
     /\ run' = [run EXCEPT !.n = @ + 1, !.fr = Append(@, row)]
     /\ UNCHANGED <<can, eth, archive, clears, store>>

EthRow(size) ==
  LET row == TraceRow("eth", run.n + 1, 0, size)
  IN /\ Fills /\ Len(run.eth) < MaxEth
     /\ eth' = EthTrimmed(Pushed(eth, row))
     /\ run' = [run EXCEPT !.n = @ + 1, !.eth = Append(@, row)]
     /\ UNCHANGED <<can, fr, archive, clears, store>>

(* A new run, or the clear of the trace window or of a rule.                 *)
Emptied ==
  /\ clears < MaxClears /\ clears' = clears + 1
  /\ Settled => archive.at = 0
  /\ can' = EmptyRing /\ fr' = EmptyRing /\ eth' = EmptyRing
  /\ archive' = SpillReset(archive)
  /\ run' = NoRun

Clear == Emptied /\ UNCHANGED store

(* A project is opened: the trace is cleared, the log forgotten.             *)
OpenProjectTrace == Emptied /\ store' = Forgotten

(* A removed bus: the web thread forgets its log at once.                    *)
RemoveChannel(gone) ==
  /\ Settled => archive.at = 0
  /\ can' = Filtered(can, gone, TRUE)
  /\ run' = [run EXCEPT !.can = RowsWithout(@, gone, TRUE)]
  /\ run' # run
  /\ store' = Forgotten
  /\ UNCHANGED <<fr, eth, archive, clears>>

RemoveFrBus(gone) ==
  /\ Settled => fr.dropped = 0 /\ InStep
  /\ fr' = Filtered(fr, gone, FALSE)
  /\ run' = [run EXCEPT !.fr = RowsWithout(@, gone, FALSE)]
  /\ run' # run
  /\ UNCHANGED <<can, eth, archive, clears, store>>

Sync ==
  /\ store' = Synced(store)
  /\ UNCHANGED <<can, fr, eth, archive, run, clears>>

TraceNext ==
  \/ \E bus \in Channels : CanRow(bus)
  \/ FrRow(1)
  \/ \E size \in Sizes : EthRow(size)
  \/ Clear
  \/ OpenProjectTrace
  \/ \E gone \in 0..1 : RemoveChannel(gone)
  \/ RemoveFrBus(1)
  \/ Sync

TraceSpec == TraceInit /\ [][TraceNext]_traceVars

-----------------------------------------------------------------------------
(* The state keeps its shape, and no ring outgrows its limit: the CAN and    *)
(* FlexRay rings keep to theirs, the Ethernet ring by at most a chunk.       *)
TraceTyped ==
  /\ Held(can) <= Limit /\ Held(fr) <= Limit /\ Held(eth) < EthRows + Seal
  /\ \A ring \in {can, fr, eth} : Total(ring) - SealedUpTo(ring) < Seal
  /\ clears \in 0..MaxClears /\ run.n <= MaxRows
  /\ Len(store.log) <= LogCap /\ store.primed \in BOOLEAN

(* Nothing of a run is lost: each ring holds its newest rows without a gap   *)
(* and counts the others, and the archive with the CAN ring behind it is the *)
(* whole run, in order (trace.rs "Frames the limit trims are not lost").     *)
Newest(ring, rows) == Total(ring) = Len(rows) /\ ring.rows = LastN(rows, Held(ring))
RunKept ==
  /\ Newest(can, run.can) /\ Newest(fr, run.fr) /\ Newest(eth, run.eth)
  /\ archive.file \o can.rows = run.can
  /\ archive.frames = can.dropped

(* What the web thread has seen of the rings is in its log: while nothing    *)
(* came since its last look, every row of the rings is there once, or pushed *)
(* out by newer ones, with ascending stamps (web.rs sync).                   *)
Logged == {store.log[k].row : k \in DOMAIN store.log}
LogIsRings ==
  /\ \A row \in ToSet(can.rows) \cup ToSet(fr.rows) \cup ToSet(eth.rows) :
       row \in Logged \/ (Len(store.log) = LogCap /\ \A r \in Logged : r.t >= row.t)
  /\ \A i, j \in DOMAIN store.log :
       i < j => store.log[i].row # store.log[j].row /\ store.log[i].row.t <= store.log[j].row.t
LogShowsRings == InStep /\ fr.dropped = 0 /\ eth.dropped = 0 => LogIsRings

(* The same once the FlexRay or the Ethernet ring is full.                   *)
LogShowsFullRings == InStep => LogIsRings

(* The Ethernet ring keeps to its bytes (ring.rs 11 "capped by bytes as      *)
(* well as rows").                                                           *)
BytesCapped == Bytes(eth) <= EthBytes
=============================================================================
