---------------------------- MODULE ReplayBlocks ----------------------------
(* Replay blocks (src/src/block.rs and their commands in src/src/bus.rs): a  *)
(* recording, filtered, played back onto a bus of a live run.  A block holds *)
(* its declaration and the queue the last load made of it; the step emits    *)
(* what the clock has passed, and all blocks share the step's budget.        *)
EXTENDS Naturals, FiniteSets, SequencesExt

CONSTANTS Logs,       \* the recordings a block may name; any other path fails
          Recorded,   \* Recorded[l]: the frames of log l, a sequence of [t, node]
          Paths,      \* what a declaration may hold as its path
          Filters,    \* the node filters; NoFilter passes every frame
          NoFilter,
          Table,      \* the nodes of the bus's symbol table (a DBC)
          Model,      \* the nodes of the bus's communication model
          Budget,     \* MAX_TX_CATCHUP
          MaxBlocks, MaxSim, MaxId

VARIABLES sim, mode, measuring, blocks, counter
vars == <<sim, mode, measuring, blocks, counter>>

(* A block is declared, has a queue of offsets, a cursor and an anchor.      *)
(* "heard" and "since" are history: the stamps emitted since the last load   *)
(* or rewind, and the clock at it.                                           *)
Declared(id, path, filter, on) ==
  [id |-> id, path |-> path, filter |-> filter, enabled |-> on, failed |-> FALSE,
   queue |-> <<>>, cursor |-> 0, anchor |-> 0, heard |-> <<>>, since |-> 0]

Matching(path, filter) ==
  SelectSeq(Recorded[path], LAMBDA f : filter = NoFilter \/ f.node = filter)

(* The offsets of the matching frames from the first of them.                *)
Offsets(path, filter) ==
  LET m == Matching(path, filter) IN [k \in DOMAIN m |-> m[k].t - m[1].t]

(* A load fails without a readable log, with a node nobody knows, and when   *)
(* the filters leave nothing.  "nodes" is who the caller looked the node up  *)
(* with: the table alone, or the model first.                                *)
Loads(b, nodes) ==
  /\ b.path \in Logs
  /\ b.filter \in nodes \cup {NoFilter}
  /\ Matching(b.path, b.filter) # <<>>

LoadedAtZero(b, nodes, now) ==
  LET ok == Loads(b, nodes)
  IN [b EXCEPT !.queue = IF ok THEN Offsets(b.path, b.filter) ELSE <<>>,
               !.cursor = 0, !.anchor = 0, !.heard = <<>>, !.since = now,
               !.enabled = ok /\ @, !.failed = ~ok]

Loaded(b, nodes, now) ==
  LET ok == Loads(b, nodes)
  IN [b EXCEPT !.queue = IF ok THEN Offsets(b.path, b.filter) ELSE <<>>,
               !.cursor = 0, !.anchor = now, !.heard = <<>>, !.since = now,
               !.enabled = ok /\ @, !.failed = ~ok]

Rewound(b) == [b EXCEPT !.cursor = 0, !.anchor = 0, !.heard = <<>>, !.since = 0]

(* The frames one poll may emit: those the clock has passed, in queue order, *)
(* while the shared output is below the budget.                              *)
DueUnshared(b, now, room) ==
  IF ~b.enabled THEN 0
  ELSE LET due == {k \in 1..Len(b.queue) : k > b.cursor /\ b.anchor + b.queue[k] <= now}
       IN IF Cardinality(due) <= Budget THEN Cardinality(due) ELSE Budget

Due(b, now, room) ==
  IF ~b.enabled THEN 0
  ELSE LET due == {k \in 1..Len(b.queue) : k > b.cursor /\ b.anchor + b.queue[k] <= now}
       IN IF Cardinality(due) <= room THEN Cardinality(due) ELSE room

Emitted(b, n) ==
  [b EXCEPT !.cursor = @ + n,
            !.heard = @ \o [k \in 1..n |-> b.anchor + b.queue[b.cursor + k]]]

(* What the blocks before the i-th leave of the budget: f[i] frames out.     *)
Out(bs, now) ==
  LET out[i \in 0..Len(bs)] ==
        IF i = 0 THEN 0 ELSE out[i - 1] + Due(bs[i], now, Budget - out[i - 1])
  IN out

PollAll(bs, now) ==
  LET out == Out(bs, now)
  IN [i \in DOMAIN bs |-> Emitted(bs[i], out[i] - out[i - 1])]

Init ==
  /\ sim = 0 /\ mode = "virtual" /\ measuring = FALSE
  /\ blocks = <<>> /\ counter = 0

(* The ids come from a counter that never goes back.                         *)
AddReplayBlock(path, filter) ==
  /\ Len(blocks) < MaxBlocks /\ counter < MaxId
  /\ counter' = counter + 1
  /\ blocks' = Append(blocks, Declared(counter + 1, path, filter, FALSE))
  /\ UNCHANGED <<sim, mode, measuring>>

(* An enabled block reloads against the table, without the model.            *)
SetReplayBlock(i, path, filter) ==
  LET b == [blocks[i] EXCEPT !.path = path, !.filter = filter]
  IN /\ blocks' = [blocks EXCEPT ![i] = IF b.enabled THEN Loaded(b, Table, sim) ELSE b]
     /\ UNCHANGED <<sim, mode, measuring, counter>>

SetReplayBlockEnabled(i, on) ==
  LET b == [blocks[i] EXCEPT !.enabled = on]
  IN /\ blocks' = [blocks EXCEPT ![i] = IF on THEN Loaded(b, Table \cup Model, sim) ELSE b]
     /\ UNCHANGED <<sim, mode, measuring, counter>>

RemoveReplayBlock(i) ==
  /\ blocks' = RemoveAt(blocks, i)
  /\ UNCHANGED <<sim, mode, measuring, counter>>

(* A project load replaces every block, the enabled ones loaded.             *)
SetReplayBlocks(decls) ==
  LET fresh(k) == Declared(counter + k, decls[k].path, decls[k].filter, decls[k].enabled)
  IN /\ counter + Len(decls) <= MaxId
     /\ counter' = counter + Len(decls)
     /\ blocks' = [k \in DOMAIN decls |->
                    IF decls[k].enabled THEN Loaded(fresh(k), Table \cup Model, sim)
                    ELSE fresh(k)]
     /\ UNCHANGED <<sim, mode, measuring>>

(* reset_run rewinds, and the start loads every enabled block again.         *)
StartVirtual ==
  /\ sim' = 0 /\ mode' = "virtual" /\ measuring' = TRUE
  /\ blocks' = [i \in DOMAIN blocks |->
                 IF blocks[i].enabled THEN Loaded(Rewound(blocks[i]), Table, 0)
                 ELSE Rewound(blocks[i])]
  /\ UNCHANGED counter

AttachLog ==
  /\ sim' = 0 /\ mode' = "replay" /\ measuring' = TRUE
  /\ blocks' = [i \in DOMAIN blocks |-> Rewound(blocks[i])]
  /\ UNCHANGED counter

StopRun ==
  /\ measuring /\ measuring' = FALSE
  /\ UNCHANGED <<sim, mode, blocks, counter>>

(* A step moves the clock by any amount and polls, except in a replay.       *)
Step(now) ==
  /\ measuring /\ now >= sim
  /\ sim' = now
  /\ blocks' = IF mode = "replay" THEN blocks ELSE PollAll(blocks, now)
  /\ UNCHANGED <<mode, measuring, counter>>

Next ==
  \/ \E p \in Paths, f \in Filters : AddReplayBlock(p, f)
  \/ \E i \in DOMAIN blocks, p \in Paths, f \in Filters : SetReplayBlock(i, p, f)
  \/ \E i \in DOMAIN blocks, on \in BOOLEAN : SetReplayBlockEnabled(i, on)
  \/ \E i \in DOMAIN blocks : RemoveReplayBlock(i)
  \/ \E p \in Paths, on \in BOOLEAN :
       SetReplayBlocks(<<[path |-> p, filter |-> NoFilter, enabled |-> on]>>)
  \/ StartVirtual
  \/ AttachLog
  \/ StopRun
  \/ \E now \in sim..MaxSim : Step(now)

Spec == Init /\ [][Next]_vars

-----------------------------------------------------------------------------
(* The state keeps its shape; a cursor never leaves its queue.               *)
TypeOK ==
  /\ sim \in 0..MaxSim /\ mode \in {"virtual", "replay"} /\ measuring \in BOOLEAN
  /\ counter \in 0..MaxId /\ Len(blocks) <= MaxBlocks
  /\ \A i \in DOMAIN blocks :
       LET b == blocks[i]
       IN /\ b.id \in 1..counter /\ b.path \in Paths /\ b.filter \in Filters
          /\ b.enabled \in BOOLEAN /\ b.failed \in BOOLEAN
          /\ b.cursor \in 0..Len(b.queue) /\ b.anchor \in 0..MaxSim

(* A block that plays, plays its recording: what was heard of it since it    *)
(* was loaded is a prefix of the matching frames, each stamped by its        *)
(* recorded distance from the load, none twice, none skipped, none ahead of  *)
(* the clock (block.rs poll, against edits, restarts and attached logs).     *)
PlayedAsRecorded ==
  \A i \in DOMAIN blocks :
    LET b == blocks[i]
    IN b.enabled =>
         /\ IsPrefix(b.heard, [k \in DOMAIN Offsets(b.path, b.filter) |->
                                b.since + Offsets(b.path, b.filter)[k]])
         /\ \A k \in DOMAIN b.heard : b.heard[k] <= sim

(* A step in which the blocks send at most the budget between them, and      *)
(* leave a due frame behind only when it is spent.                           *)
Shares ==
  LET sent == FoldFunction(+, 0, [i \in DOMAIN blocks |->
                                   Len(blocks'[i].heard) - Len(blocks[i].heard)])
  IN /\ sent <= Budget
     /\ sent < Budget => \A i \in DOMAIN blocks' : Due(blocks'[i], sim', 1) = 0

(* Every block plays as it was recorded, and the blocks share one budget of  *)
(* frames a step: a block with a long backlog delays the others but nothing  *)
(* is lost (block.rs poll; bus.rs step, MAX_TX_CATCHUP).                     *)
BlocksHonest ==
  [][/\ PlayedAsRecorded'
     /\ (mode = "virtual" /\ \E now \in sim..MaxSim : Step(now)) => Shares]_vars

(* A block that is on stays on when a run starts: the start reads the same   *)
(* log against the same description as the enabling did (bus.rs 7702).       *)
StartKeepsEnabled ==
  [][StartVirtual => \A i \in DOMAIN blocks : blocks[i].enabled => blocks'[i].enabled]_vars
=============================================================================
