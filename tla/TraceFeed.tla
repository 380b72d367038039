------------------------------ MODULE TraceFeed ------------------------------
(* How the browser follows the trace log of the web thread (src/src/web.rs   *)
(* TraceStore and the state request, web/src/app.tsx): the log is a window   *)
(* of numbered rows under an epoch, and a poll brings a seed, or the rows    *)
(* after the number of the last poll.                                        *)
EXTENDS Trace, Integers

VARIABLES client
feedVars == <<traceVars, client>>

NoEpoch == -1

(* The numbers of the rows a request is answered with, the newest first.     *)
FirstSeq == IF store.log = <<>> THEN store.next_seq ELSE store.log[1].seq
Seqs(at) == LET sent == Reverse(Chosen(store.log, at)) IN [j \in DOMAIN sent |-> sent[j].seq]
Seed == Seqs(DOMAIN store.log)

After(seq) == Seqs({k \in DOMAIN store.log : store.log[k].seq > seq})

InLog(c) == c.epoch = store.epoch /\ FirstSeq <= c.seq /\ c.seq <= store.next_seq

(* The browser puts new rows before the ones it shows and keeps a table of   *)
(* bounded length.                                                           *)
InTable(rows) == IF Len(rows) <= LogCap THEN rows ELSE SubSeq(rows, 1, LogCap)
Tagged(seqs) == [j \in DOMAIN seqs |-> [epoch |-> store.epoch, seq |-> seqs[j]]]
Polled(c) ==
  [epoch |-> store.epoch, seq |-> store.next_seq,
   rows |-> IF InLog(c) THEN InTable(Tagged(After(c.seq)) \o c.rows) ELSE Tagged(Seed)]

PollTrace == client' = Polled(client) /\ UNCHANGED traceVars

FeedInit == TraceInit /\ client = [epoch |-> NoEpoch, seq |-> 0, rows |-> <<>>]

FeedNext == (TraceNext /\ UNCHANGED client) \/ PollTrace

FeedSpec == FeedInit /\ [][FeedNext]_feedVars

-----------------------------------------------------------------------------
(* The state keeps its shape.                                                *)
FeedTyped ==
  /\ TraceTyped
  /\ client.epoch \in -1..store.epoch /\ Len(client.rows) <= LogCap

(* A client shows no row twice, the newest first, and mixes no rows of two   *)
(* logs, over any order of polls, reseeds and forgotten logs (web.rs state,  *)
(* app.tsx).                                                                 *)
FeedOnce ==
  /\ \A i \in DOMAIN client.rows : client.rows[i].epoch = client.epoch
  /\ \A i, j \in DOMAIN client.rows : i < j => client.rows[i].seq > client.rows[j].seq

(* The archive holds the run, the merged log shows the rings, the browser    *)
(* shows each row once.                                                      *)
TraceHonest == RunKept /\ LogShowsRings /\ FeedOnce

(* A client that has polled shows what the log holds (web.rs 4279 "only the  *)
(* frames appended since the client's last sequence afterwards").            *)
ClientSeesAll ==
  client.epoch = store.epoch /\ client.seq = store.next_seq =>
    \A k \in DOMAIN store.log : \E i \in DOMAIN client.rows : client.rows[i].seq = store.log[k].seq
=============================================================================
