# roxy-can verification

TLA+ models of the concurrent, time-dependent and stateful core of roxy-can, a CAN, FlexRay and automotive-Ethernet
bus tool written in Rust. TLC checks the models on small instances; TLAPS proves results about seven of them for
every value of their constants. Paths are relative to the repository; its crate is in `src/`.

## 1. The system

One *core thread* (`core_loop.rs`, `spawn_lane`) owns a `BusCore` (`bus.rs`). The frontends (terminal UI, GUI pages,
web server) post `BusCommand`s into its queue and read what it publishes. Lap by lap the thread waits for a command
or a deadline, applies all queued commands, and runs one `BusCore::step`: it pulls frames from a replayed log or the
hardware, lets senders and replay blocks transmit, puts Ethernet messages together, and *walks* the frames of the
step through aggregates, rules, recorder and node scripts. A second thread (`web.rs`, `app_loop`) owns the `App`,
takes the commands of browser pages, and answers their polls from what the core published.

| component | state it keeps | correct when | modules |
|---|---|---|---|
| replay source (`source/replay.rs`, `log/vec_stream.rs`) | playhead, speed, play-to limit, three read positions, cached next stamp | the three streams keep log order, nothing passes a play target, the deadline is never late, `done` means drained | `Playhead` |
| core thread, run control (`core_loop.rs`, `bus.rs`) | wall-clock anchor, pause stamp, queue; mode, measuring, paused, sim clock | frozen time is never earned, targets hold and end, a replay ends with the log delivered | `ReplayControl`, `ReplayProofs` |
| periodic senders (`bus.rs`, `generator.rs`) | transmit lists with one absolute next slot per entry, roles, stored payloads with waveforms, setpoints, buttons | no slot from before the entry was let send, even spacing through bursts, the thread wakes in time; a setpoint holds | `Generator`, `GeneratorProofs`, `FrameSends`, `FrSlots` |
| recording (`recorder.rs`, `bus.rs`) | Record intent, main file, sidecar, pre-trigger memory, post-roll | a file is one unbroken span of the traffic, holds its cause and its lead, and does not outlive its recording | `RecordFile`, `Recording`, `RecordingProofs` |
| rules and the walk (`trigger.rs`, `bus.rs`) | level, fires, cooldown stamp of each rule; `buf`; reaction count | latches fire once, and do fire; what reactions send is walked in the same step; a step ends | `RuleWalk`, `RuleWalkProofs` |
| specification watch, silence (`spec.rs`, `bus.rs`) | last stamp of a message, Dropped verdict, level of a CycleTimeout rule | watch and rule agree, each dropout is an edge | `Silence`, `SessionProofs` |
| channel and cluster removal (`bus.rs`, `channel.rs`) | some twenty collections keyed by position, cluster or FlexRay index; windows of the frontend | removing by renumbering is removing by name | `NamedBuses`, `Buses`, `BusProofs` |
| replay blocks, channel map (`block.rs`, `replay_map.rs`) | per-block queue, cursor, anchor; a cluster per logged bus | what plays is what was recorded, no frame twice or early | `ReplayBlocks`, `Buses` |
| SOME/IP and network management (`eth/someip.rs`, `bus.rs`) | fragments, segments, streams; session numbers, pending requests, offers, subscribers; NM states | whole messages or none, an answer meets its request or the request expires, a sleep is earned | `Reassembly`, `SomeIp`, `NetworkManagement`, `SessionProofs` |
| node runtime (`node.rs`) | source, runtime, timers, panel actions | what runs is what the editor shows, timers keep their beat | `ScriptNodes`, `ScriptProofs` |
| script language (`script/`) | tokens, tree, code, VM stack; debugger control | a script does what its text says; a shown pause is real, a parked core is let go | `ScriptParser`, `ScriptCompiler`, `ScriptVm`, `ScriptDebug` |
| trace rings (`trace.rs`, `eth/ring.rs`, `web.rs`) | three bounded rings with chunks, archive file, merged log, epoch and numbers | archive and log show the run, a browser shows no row twice | `Trace`, `TraceFeed`, `WebProofs` |
| observers, derived curves (`observe.rs`, `derived.rs`) | sampled histories, definitions, charts | a curve is its expression over the histories of its sources | `Curves` |
| log formats (`log/`, `cli.rs`) | writer buffers, containers, header; reader queues | what reached the disk survives the process, comes back whole, and is what it was | `LogWriter`, `LogReader`, `LogCodec` |
| databases, model, decoding (`dbc.rs`, `fr_db.rs`, `eth/db.rs`, `model/`, `decode.rs`) | files bound to a bus, merged databases, decode plans | a bus knows what its files say; a signal means the same on the way out and back | `Descriptions`, `SignalCodec`, `FramePlans` |
| hardware drivers (`hw/`) | attached ports, receive queues, refusals | one line is told per refusing wire, no parked traffic comes later | `Wires`, `BusProofs` |
| projects (`project.rs`, `workspace.rs`) | the file | a project opens as it was saved | `ProjectFile` |
| frontend and web session (`app.rs`, `web.rs`) | lanes, rows of windows, picks, rate window | what is shown is sampled and what is sampled is shown | `WebSession`, `WebProofs`, `Buses`, `TraceFeed`, `Curves` |

How they interact: frontends to core by the command queue only; core to frontends by published snapshots, which are
old by the time somebody acts on them; within a step by direct calls in a fixed order (source, senders, blocks,
Ethernet ingestion, walk, sweep, watch). What is hard:

- **four clocks.** Wall time since the run's anchor, the playhead in log time, the sim clock, and the stamps of
  frames. Pauses, stops, speed changes, manual steps and restarts move some of them and must leave the others
  consistent; commands run between two laps, when the thread's own stamps are old.
- **one absolute slot per sender**, looked at only while the sender may send; whatever switches it on again must
  move the slot.
- **positions and names.** A CAN bus is a position to the core, a cluster to signals, either to a project; every
  collection that keeps one is renumbered by hand, and windows are renumbered from a snapshot.
- **order within a frame's handling**: rules first or file first, memory before or after the roll.
- **re-entrance**: reactions and scripts feed the walk that runs them; the debugger parks the thread inside it.
- **state that outlives a run**, above all that of the rules.
- **a hostile order of pieces**: fragments and segments in any order, files that change under a running
  measurement, a process that dies between two writes.

The full list, line by line, is `hazards` in `PROJECT.json`.

## 2. The modules

*Run control.* **`Playhead`** has no variables. One record is the fields of `ReplaySource`; `Poll`, `PollFr`,
`PollEth`, `ShiftTime`, `StepForward`, `SetPollLimit`, `NextDeadline` are its methods. A log is three sequences of
stamps. `position` (an `f64`) is fixed point with `Scale` units per microsecond, so that half speed and the
truncating cast exist; `Inf` is `f64::INFINITY`. **`ReplayControl`** adds the thread: `pc` is where `spawn_lane` is,
`Wake` is `recv_timeout` returning, `Apply` one command of `drain`, `QueueEmpty` the re-anchoring of the wall clock,
`LapStep`, `LapPaused`, `LapIdle` the branches of a lap. `Post` is a frontend and may come between any two of these;
`Tick` moves the wall clock, also between two commands, because a command such as `start_replay` blocks on a file.
`earned` is a history: the log time a run has a right to.

*What is sent.* **`Generator`** is the sender half of `step` and every command that touches an entry, a role or the
muted ids; `Step(d)` sends `Slots` of every entry that is `Sending` and moves its next slot to `Advance`; `since`,
`prev`, `out` are histories. **`SignalCodec`** reads and writes signals in a payload bit by bit, with multiplexing,
update bits and containers, and flattens an AUTOSAR frame into its decode plan (`BuildDecodePlan`, from a DBC
message by `DbcPlan`). **`FrameSends`** is a CAN message's stored bytes with waveforms, setpoints, buttons and
reactions; **`FrSlots`** a FlexRay slot shared by several frames; **`FramePlans`** sets a frame's plan against the
frame's own structure.

*What is kept.* **`Recording`** has the record `rec` for `Recorder`, `pre_buffer` and `post_roll`; frames are numbers,
in order of arrival, and what the rules ask for on a frame, before it is filed and (E2E rules) after, is chosen
freely. It implements **`RecordFile`**, the contract of a file. **`LogWriter`** is how a file reaches the disk in BLF
containers or text buffers, with a kill at any point, between the writes of the header patch too; **`LogReader`**
plays it back, kind by kind, under a replay or a tool; **`LogCodec`** is what any sequence of trips through the three
formats leaves of an object.

*What reacts.* **`RuleWalk`** is the walk with an explicit call stack `work`; conditions are reduced to the frames a
rule has an opinion on (`watch`), those that raise its level (`hits`), and whether the level drops again. **`Silence`**
is the two judges of one silence over a cut-down clock. **`ScriptNodes`** is the life of a node and its timers;
**`ScriptDebug`** the line debugger, the core thread on one side of its mutex and the browser on the other.
**`ScriptParser`** reads token sequences into trees, **`ScriptCompiler`** and **`ScriptVm`** compile and run them.

*What is named.* **`Buses`** has every kind of collection that names a bus, the command queue and the windows;
**`NamedBuses`** is the abstract specification in which buses have names and removal takes exactly what hung on
them; `Buses` implements it (`BusesByName`). **`ProjectFile`** extends `Buses` by saving and opening.
**`ReplayBlocks`**, **`Wires`** and **`Descriptions`** are what else hangs on a bus: blocks, ports and files.

*What arrives and is shown.* **`Reassembly`** puts IP fragments, SOME/IP-TP segments and TCP streams together;
**`SomeIp`** has sessions, requests, offers and subscriptions; **`NetworkManagement`** the NM states. **`Trace`** has
the rings, the archive and the merged log, **`TraceFeed`** adds the polls; **`Curves`** the histories, the computed curves
and the charts; **`WebSession`** the commands of the pages that plot, list, define, remove and
open. A computed channel has an identity no other ever has (`DerivedPanel.tsx:143`) besides its name, which is part of its
key; until the next `PublishState` the lanes hold what it was called before (`lag`).

The `MC…` modules give constants their values and compose components that share no variable: a behaviour chooses a
`part` and runs it while the others stay where they started, so one run checks several components without taking
their product. Components that do share state are composed for real: `ReplayControl` extends `Playhead`, `LogReader`
extends `LogWriter`, `ProjectFile` extends `Buses`, `TraceFeed` extends `Trace`, `ScriptVm` extends `ScriptCompiler`, the three senders extend
`SignalCodec`. Definitions whose comment says "mutant" are an operator with a plausible mistake and no part of a
model: each property was seen to fail with one of them in place of the original (`mutants` in `PROJECT.json`).

The `…Proofs` modules hold the proofs (section 4).

## 3. The runs

Seven runs must pass; in five the code contradicts its own words.

| run | properties | distinct states |
|---|---|---|
| `replay_control` | `TypeOK ClocksHonest LogHonest NoOversleep TargetsHold` | 3.4 million |
| `replay_live` | `FinishedIsDrained EveryPlayEnds` | 133 thousand |
| `generator` | `TypeOK NoBackdatedSlots FramesHonest EvenSpacing OnTimeByDeadline` | 276 thousand |
| `recording` | `TypeOK NoStrayFile LeadWithinLimit CauseToRoll DiskHonest FilesHonest ObjectsSurvive FileIsUnbroken` | 535 thousand |
| `buses` | `WindowsFollow PortsHonest BusesByName AttachedHonest OpensAsSaved` | 287 thousand |
| `scripts` | `WalkHonest RunsItsSource TimersHonest PauseIsReal RunsAsWritten CoreGoesOn` | 215 thousand |
| `session` | `TraceHonest CurvesHonest WebHonest SessionsHonest WholeOrNothing StreamsHonest VerdictsFit DropoutFires NmHonest` | 363 thousand |

A property whose name says "honest" is a conjunction; its definition names the parts and the module each is in.

**`replay_control`.** Any four commands, at most two of them queued at once, over a log of CAN frames at 1 and 3,
FlexRay at 2, Ethernet at 3, at normal and unlimited speed, with laps up to two ticks late. `ClocksHonest` bounds
both clocks by the time the run was really running plus what was stepped by hand: a pause, a stop, a second start
must not leak in. `LogHonest` relates the three separately polled streams to each other and to the sim clock.
`TargetsHold` says play-to stops exactly at its target, neither before nor after. `NoOversleep` compares the cached
deadline with the moment each remaining frame falls due. Four commands are enough for start, pause, resume and a
step or target, and for two runs with one interruption; two in the queue are enough for a command applied before the
lap of its predecessor. Clock and log stop at 4, one more than the last stamp.

**`replay_live`.** A CAN burst of two with a poll cap of one, so that a replay needs several laps at one playhead,
and a FlexRay tail behind it, at half and double speed. A run that is finished delivered everything; a target is
reached or given up; a replay left alone ends. Commands stop after tick 1 and the clock at 11, enough for three
ticks of log at half speed.

**`generator`.** One CAN entry owned by a node, every command that anchors it, periods 0, 1, 3 and the default 2, a
catch-up budget of two and clock strides of 0, 1 and 3, so that the backlog exceeds the budget. One entry is enough
because entries do not influence each other except in the deadline's minimum, where the timers stand for the second
party. `NoBackdatedSlots` is the claim of the comment at `bus.rs:2628`; `EvenSpacing` that of the catch-up loop, over
any number of cut bursts; `OnTimeByDeadline` ties what `next_deadline` promised before a lap to what that lap sends.
`FramesHonest` is about the payloads, on bytes of two bits: a setpoint holds among waveforms, buttons and reactions,
what was written reads back, what is shown of a frame is what its bytes say, in plain, multiplexed and nested messages
with Intel, Motorola, signed, scaled and labelled signals; the flattened plan of an AUTOSAR frame shows what the PDUs
show of their own bytes, for every payload of up to four bytes; a FlexRay slot shared in turn is tallied and shown by
the frame of the cycle.

**`recording`.** CAN, hidden and FlexRay frames (three CAN frames a run: enough for a memory of two that has dropped
one, for a post-roll of two, and for a file opened after another was closed), lead limits 0 and 2, own `pre_frames` of
one or none, post-rolls of 0 and 2. Up to two actions are taken on a frame (`MaxAsks`), any of them by an E2E rule
(`LateAsks`), which judges the frame when it is ingested: after the file, the memory and the post-roll (`bus.rs:8577`,
8920, 6041, 9507). `FileIsUnbroken` is the refinement; the invariants fix what it leaves open: the frame that fires a
start is in the file (of an E2E rule, where the memory can give it, `Recalled`), the lead keeps to its limit, a
post-roll writes as many frames as asked, a ticked box means a file and an unticked one means none, and a sidecar
whose main file failed to open does not outlive the run. `DiskHonest` and `FilesHonest`: files of three objects in
three formats, with buffers of two objects, flushed at every tick, killed anywhere, in a container and between the
writes of the header patch: what was settled survives and the header tells of it, as far as `HeaderHonest` says; a
replay delivers every kind once and in time, and a tool reads all there is. `ObjectsSurvive`: up to three trips
through any formats, for payloads of lengths on both sides of the DLC codes (0, 5, 8, 12, 64), named and unnamed
FlexRay rows, tagged Ethernet.

**`buses`.** Up to four clusters, one reference of each kind, one row of a window, two commands on the way.
`BusesByName` is the refinement of `NamedBuses`. One reference is enough because the handlers treat each element of
a collection alone; four clusters allow a removal before, at and behind it, twice. `OpensAsSaved` compares what hangs
on the buses before saving and after opening. `PortsHonest`: two CAN ports, a FlexRay watch
and an Ethernet port with queues; three attachments make a port follow another on its bus. `AttachedHonest`: two
blocks with a budget of two over four frames, two of them at one stamp; and two files of each kind that share names,
change once and may vanish: the databases, models, catalog and looked-up names of a bus are those of the files bound
to it (`DescriptionsHonest` of `Descriptions`).

**`scripts`.** Four rules (an appearance that answers itself, a level that clears the trace, a timeout with a
maximum, a flow with cooldown and maximum that answers itself on Ethernet) and two scripts that answer each other for
ever, with bursts of two frames, in two runs. A node with a one-shot and a
periodic timer whose handlers queue every short program of timer operations, edited, toggled and restarted. A
debugger with two nodes, two lines and three requests of a browser that then disappears. `CoreGoesOn` is the liveness
of both: the walk of a step ends (`StepEnds`), a parked core thread is released (`CoreReleased`). Every body of up to two
statements of a loop in a handler, compiled and run against its meaning; token sequences read against the grammar.

**`session`.** Nine parts: the silence watch over eight ticks; rings of two rows in chunks of two, with a log of three
rows, and polls of that log while up to four CAN rows come; charts and curves over two signals of one name; three commands of the pages; one SOME/IP
call with session numbers modulo 3; one NM PDU with two timings over eight ticks; two datagrams sharing a flow and one of
their own; a TCP stream of four messages across the end of the sequence space. In each the bound exceeds the capacity
whose limit is the hazard (rows over ring size, stamps over history span, sends over session numbers).

The five violations (the line of code and the words it contradicts are in `findings`):

- `trace_client`: a browser that polls while frames come loses the first frame after every poll.
- `log_convert`: a tool that does not take every kind of object in a BLF file stops in its middle and reports success.
- `script_slots`: `break` and `continue` leave the locals of their block on the stack.
- `project_reopen`: a project saved after a bus was removed opens with its rows on the wrong buses.
- `web_rates`: a replay paused at its play target and played on shows a rate taken over the time it stood still.

### Fairness

`replay_live` assumes weak fairness of each move of the thread and of the clock. The thread's `recv_timeout` is
bounded by `IDLE_SLEEP_US`, and no branch of a lap waits for anybody, so it always moves on; a user owes it no
command. The bound `MaxLate` on ticks between two wakes is the same timeout seen from the clock. `scripts` assumes
weak fairness of `Core`: the moves within a step (the thread is in the middle of a call and waits for nothing) and
the wait of the debugger (a condition variable with a timeout). Steps themselves, requests and commands are not fair.

Deadlock checking is off in every run: each stops at a bound on clock, commands or frames, and the program itself may
sit idle.

### What the passing runs keep out

Some situations break a property for a reason of their own. They are excluded by a named constant, or by the choice of
log, rules, files or commands, so that the rest can be said; each was met while modelling and is listed here so that
nobody takes a run for more than it is. Setting the constant as in the first column reproduces it; the name after the
arrow is the property that then fails.

*Run control and senders*

| set | situation |
|---|---|
| `EarlyStep = TRUE` → `ClocksHonest` | a Step queued behind its own StartReplay steps at a clock of 0, and the next lap adds all the wall time to the playhead |
| `SetpointModes` with `"Replay"` → `LogHonest` | a panel's CAN setpoint in a replay is stamped with the wall clock and, last in `buf`, drags the sim clock off the log's timeline; in a virtual run it is ahead of the sim clock after a pause |
| `MaxPoll` below the burst → `LogHonest`, `TargetsHold` | a capped CAN poll lets FlexRay and Ethernet overtake, and play-to pauses early |
| a log tail after the last CAN frame, at unlimited speed, with a target in it | `position()` is then the duration of the CAN stream (`bus.rs:8205`), and a target past it is never reached |
| `LiveEdits` with `"cycle"`, `"restore"`, `"map"` → `NoBackdatedSlots` | edits of a period (`bus.rs:2669`), restored rows, pinned roles and a new log map during a run do not anchor the slots |
| FlexRay entries only → `OnTimeByDeadline` | `next_deadline` looks at neither FlexRay slots nor, with no CAN entry due, node timers |
| a button pressed for a multiplexed message → `ButtonSays` | signals that are not selected together are written over one another (`bus.rs:6926-6931`) |
| a Motorola signal in the last byte → `ShowsWhatIsThere` | it fails the length check (`runtime.rs:205`, 272, 336) |
| a label with a negative code → `LabelsMatch` | the raw value it is compared with is not sign-extended (`bus.rs:6182-6188`) |
| `EmptyCycles = TRUE` → `SlotShows` | a setpoint written in a cycle the slot is empty in (`bus.rs:7401-7456`); see also `SlotSendsItsOccupant` |

*Recording and logs*

| set | situation |
|---|---|
| `StartFails = TRUE` → `CauseToRoll` | the armed file of a starting run fails to open: Record stays ticked without a file |
| `LiveLimits = TRUE` → `LeadWithinLimit` | a lead limit lowered during a run is not applied to the memory already held |
| `Kinds` with `"eth"` → `CauseToRoll` | the Ethernet frame whose rule starts a recording is not in it; its sidecar was written before the rules ran |
| `Recalled`, in `CauseCaptured` | an E2E rule judges its frame after it was filed (`bus.rs:8577`, 8920, 6041, 9507); with no pre-trigger memory, or a `pre_frames` of 0 of its own, the recording it starts lacks the frame that fired it, against `bus.rs:8546-8548`. Without this conjunct `CauseToRoll` fails in the run |
| `HeaderHonest`, its second case | a kill between `blf.rs:1229` and 1234 leaves the header with the last container counted and the stop time of those before it, or a torn one; the property says that no more than this is wrong, and only after a kill |
| (counting) | the post-roll counts the frame that stopped it: a post-roll of n adds n - 1 frames, where the manual suggests n |
| `Tears` with `"pcap"`, `Faults = {"container"}` → `DiskHonest` | a packet or a container cut in the middle makes the rest unreadable |
| `Faults = {"patch"}` → `DiskHonest` | the result of a header patch is dropped (`blf.rs:1195`): a failed one leaves the header behind or torn, and the write position perhaps in it, so that the next container is written over the header and the first ones |
| `Sorted = TRUE` to see `SpacingKept` hold | stamps are rebased to the first object read, not the earliest; earlier ones collapse to 0 |
| `UntaggedBlf = TRUE` → `ObjectsSurvive` | an untagged Ethernet frame comes back from BLF with a tag (`blf.rs:1048` against 564-565) |
| `Names` with `"hex"` → `ObjectsSurvive` | a FlexRay name of hex digits is read as payload (`asc.rs:262-292`) |
| `Prios = {0, 3}` or `MaxTags = 2` → `SameFlowEverywhere` | a frame gets another flow by the path it came |
| `Lengths` with 9 → `ObjectsSurvive` | lengths between two DLC codes grow in some formats |

Also: comments in BLF (`blf.rs:911-912`) say what `write` does not do; error frames lose their direction in BLF; a
FlexRay row loses its name in BLF and bus and CRC in ASC; up to one interval of BLF data stays in memory while paused.

*Rules, scripts*

| set | situation |
|---|---|
| two Ethernet frames → `LatchesOnce` | a frame the flow rule does not wait for drops its latch (`bus.rs:9539-9541` against 9511-9513) |
| sweep rules that send → `SentIsWalked` | a frame a sweep sends is wiped by the next step |
| `Replies <- FrameEcho`, `RuleList <- OneRule` → `CoreGoesOn` | an answer through a frame's own `send` is not counted against the reaction limit (`bus.rs:7275` against 52-56); two clearing rules that answer each other, and flow rules that answer each other on Ethernet (`bus.rs:10276`), do the same |
| → `FiresInEveryRun` | a latch or a maximum spent in one run silences the rule in the next (`bus.rs:7791`) |
| → `VerdictsAgree` | in a replay, or after a pause, the timeout rule and the Dropped verdict read different clocks and disagree |
| `watched`, in `DropoutFires` | a rule switched off during a dropout and on again has a stale level and misses the next |
| internal bus only | a role gates what a node writes to the wire, not what it puts in the walk; a reply is on the wire before the limit is checked (`bus.rs:10355`, 3603) |
| `Oneshots = {"x", "y"}` → `CancelHolds` | a handler that cancels a one-shot due in the same pass comes too late (`node.rs:1301-1339`, `docs/script_language.md:352`) |
| → `StopsAtEveryEntry` | a breakpoint on a line entered again without leaving it is passed over (`docs/script_language.md:776`) |
| `Escapes = TRUE` → `SlotsMatchLocals` | run `script_slots` |

Read against `docs/script_language.md`: equality binds looser than `<` in the parser; the subject of a `switch` is
read again for each label (`parser.rs:1005-1022`); `a[i()] += v` evaluates the index twice; statements such as
`a[0];` are refused.

*Buses, projects, files*

| set | situation |
|---|---|
| `CrossRules = TRUE` → `BusesByName` | a rule that watches no CAN bus is skipped before its Send is renumbered (`bus.rs:6593-6617`) |
| `Lanes = {1}` → `BusesByName` | derived definitions keep the cluster of a removed bus (`bus.rs:6537-6548`) |
| `Sends` with `"fr"`, `FrBuses = {0, 1}` → `OpensAsSaved`, `BusesByName` | a FlexRay Send is saved and removed as if it were a CAN position (`project.rs:448-454`, 917-926; `bus.rs:6685`) |
| `Prompt = FALSE` → `WindowsFollow` | two removals posted from one snapshot rename the windows twice by the old numbers (`channel.rs:214-232`) |
| `RowsAnytime = TRUE` → `OpensAsSaved` | run `project_reopen` |
| `Table = {}` → `StartKeepsEnabled` | a block whose bus has no database is switched off by the start (`bus.rs:7721`, `block.rs:99-101`) |
| `RemovePending = TRUE` → `PortsHonest` (`OneLinePerFault`) | a bus removed while its refusal waits passes it to another |
| → `ParkedNotWritten` | parked ports are written after all (`hw/mod.rs:299-306`); a parked poll leaves Ethernet frames in their queue (`ParkedEthDropped`, 396-401) |
| `StopsFirst` without `"can"` → `AttachedHonest` (`DescriptionsHonest`) | a model set while running resolves names the next start resolves from the DBC table |

Files, not in `MCTexts`: CAN ARXML files that declare an element differently (the later wins, against
`model/mod.rs:1076-1078`); a CAN id in both DBC and ARXML; removing one description while another has vanished keeps
the old model (`channel.rs:614-631`); hot reload ends after one sweep saw a broken file (`bus.rs:6332`); when all
files fail, the table goes and running nodes keep the old map (`bus.rs:5674-5697`); removing one FlexRay description
whose siblings disagree on timing removes the bus; a FlexRay and an Ethernet frame of one name collapse
(`import.rs`); NM timing stays that of the first description; slots of ARXML frames follow a hash order.

*What is shown*

| set | situation |
|---|---|
| `BadPayloads = TRUE` → `WebHonest` | a rule edited with a payload that is not hex ends the session thread (`web.rs:3965`, 3978) |
| `OpenFails = TRUE`, `PageLags = TRUE` → `WebHonest` | a project that cannot be read leaves lanes without subscriptions; a page that acts on an old snapshot adds lanes twice, rows of dead clusters, edits another row |
| → `StrideIsAsked`, `RowsFollowDefinition` | the plot stride the session asks for is lost when a project is opened (`web.rs:2693-2695`, `project.rs:999-1003`); rows of a deleted definition stay (`app.rs:734-736`) |
| `Late = TRUE` → `CurvesHonest` | stamps from before the last step are not swept; forward references lag a sweep; a curve whose pins changed keeps its history (`bus.rs:5342`) |
| `Ordered = FALSE` → `CurvesHonest` | a chart drawn from after one common stamp misses samples of a slower curve |
| `Settled = FALSE` → `TraceHonest` | a ring cleared before the archive is written leaves a hole (`trace.rs:502-507`); the log after it shows half-full rings |
| `BytesCapped` | the Ethernet ring passes its byte cap by one chunk (`eth/ring.rs:85`) |
| `Catalogued = {k1}` → `AnswersWhileOffered` | a catalogued method is answered after its offer stopped |
| `Targets = TRUE` → `RateHonest` | run `web_rates` |

Reassembly: a flow is forgotten at FIN, so a retransmitted last segment is delivered again; a SYN passes the limit on
flows; maps of IP and TP flows are unbounded; reuse of an identification mixes datagrams (`WholeOrNothing` speaks of the
content only where a flow carries one).

## 4. Proofs

Forty-one theorems, in eight modules, for every value of the constants; from-nothing times on two cores are
between half a minute and some ten minutes (`WebProofs`) a module. Assumptions on constants say what a constant is (a set of numbers,
a log, a rule list); where a theorem needs more, the extra hypothesis is in its statement, and is a row of the tables
above, which say how the statement fails without it. (`Kinds \subseteq Sited \cup {"tx"}` in `BusesAreNamed` is the
collections a project file keeps: opening a project drops what hangs on the buses by any other.)

| module | theorem | run's property | hypotheses |
|---|---|---|---|
| `ReplayProofs` | `TypeCorrect` | `TypeOK` | |
| | `FinishedDrained` | `FinishedIsDrained` | |
| | `NeverOversleeps` | `NoOversleep` | |
| | `TargetsAreExact` | `TargetsHold` | `MaxPoll >= Len(CanLog)` |
| | `LogIsHonest` | `LogHonest` | `LogFits`, `"Replay" \notin SetpointModes` |
| | `ClocksAreHonest` | `ClocksHonest` | `~EarlyStep` |
| `GeneratorProofs` | `TypeCorrect` | `TypeOK` | |
| | `NeverBackdated` | `NoBackdatedSlots` | `LiveEdits = {}` |
| | `SpacingIsEven` | `EvenSpacing` | |
| | `LapsAreOnTime` | `OnTimeByDeadline` | |
| `RecordingProofs` | `TypeCorrect` | `TypeOK` | |
| | `NoFileLeftOpen` | `NoStrayFile` | |
| | `LeadBounded` | `LeadWithinLimit` | `~LiveLimits` |
| | `FileUnbroken` | `FileIsUnbroken` (refinement) | |
| | `RollExact` | part of `CauseToRoll` | |
| | `CauseRecorded` | `CauseToRoll` | `~StartFails`, `"eth" \notin Kinds` |
| | `RecordingSurvives` | `DiskHonest` | `CleanWrites` |
| | `ObjectsSurviveTrips` | `ObjectsSurvive` | `PlainObjects` |
| `BusProofs` | `WindowsStay` | `WindowsFollow` | `Prompt`, `~RowsAnytime` |
| | `ProjectsReturn` | `OpensAsSaved` | those and `Narrow` |
| | `BusesAreNamed` | `BusesByName` (refinement) | those and `Kinds \subseteq Sited \cup {"tx"}` |
| | `PortsAreHonest` | `PortsHonest` | `~RemovePending` |
| `RuleWalkProofs` | `MetRulesFire` | part of `WalkHonest` | |
| | `WalkIsHonest` | `WalkHonest` | `FlowsHear`, `QuietSweeps` |
| | `ReactionsBounded` | (type invariant of `RuleWalk`) | `OnlyCanSend` |
| `SessionProofs` | `TypeCorrect` | (type invariant of `Silence`) | |
| | `AgreeWhereClocksDo`, `RuleCovers`, `VerdictsFitTogether` | `VerdictsFit`, in its two parts and whole | |
| | `EveryDropoutFires` | `DropoutFires` | |
| | `PutTogetherWhole` | `WholeOrNothing` | |
| | `StreamOnceInOrder` | `StreamsHonest` | |
| | `SleepIsEarned` | `NmHonest` | |
| | `SessionsAreHonest` | `SessionsHonest` | |
| | `SomeIpTypeCorrect` | (type invariant of `SomeIp`) | |
| `ScriptProofs` | `NodeRunsItsSource` | `RunsItsSource` | |
| | `NodeRunsCompiled` | (what it runs compiles) | |
| | `NodeTimersHonest` | `TimersHonest` | |
| | `DebugPauseIsReal` | `PauseIsReal` | |
| `WebProofs` | `SessionInStep` | `WebHonest` | `~PageLags`, `~OpenFails`, `~BadPayloads` |
| | `TraceIsHonest` | `TraceHonest` | `Settled` |

**`ReplayProofs`.** The properties speak of what was delivered and of deadlines; the source keeps cursors and a cached
stamp. `IInv` ties them together: every cursor is *sound* (it lies in its stream), the clocks are *in step* (a playing
replay's source is fed up to the lap that is being taken), a run that is under way is *anchored*, and the cached next
stamp is that of the cursor. `LogInv` adds that what was delivered lies before what is still to come over all three
streams, which holds only if each is sorted and no poll is cut short (`LogFits`). `ClockInv` bounds both clocks by
`earned`; its difficult case is a Step, which must wait for the lap that starts its replay. The deadline and the ends of
streams are least elements of sets of numbers: one lemma about them stands for the induction over data that the
provers cannot do.

**`GeneratorProofs`.** `NoBackdatedSlots` speaks of slots just sent and is not inductive. `IInv` adds that the clock is
not behind the start of any stretch, and *caught*: an entry that may send has its next slot at or after the moment it
was let send, except a replay's unanchored entry, whose slot is 0 and is moved to the playhead before it is used.
`CommandKeeps` asks of a command only that whatever may send afterwards either could before and kept its slot, or had
its slot moved to the clock. `Spacing` says of an entry that sent since it was let send that it may still send, and that
its next slot is one period after the last one. A burst is then the multiples of the period between two slots: the
catch-up loop's quotient is handled by `Quotient`, `Floor`, `Divides`, `Burst`, and `DeadlineIsLeast` makes the minimum
that `next_deadline` computes usable. `SpacingIsEven` and `LapsAreOnTime` need no hypothesis: with live edits a
period may begin late, but the slots of a stretch stay even.

**`RecordingProofs`.** `Good(rec, n)`: the record is well formed, an open file is a ticked one, the lead is within its
cap, and the memory is *recent*, that is, it holds the newest of the `n` frames of the run in order. The last is what the
refinement needs, for a triggered file begins with the end of the memory: `LeadIsSpan` says that end is a span up to
now, `PushKeeps` that the memory stays recent and bounded as a frame enters. `RunActionsKeeps` carries `Good` through
whatever one frame makes the rules do; `CanFrameKeeps` adds the write, the memory and the post-roll. `RollExact` needs
`Counting`: what is left of a running post-roll and what it has written add up to what was asked. E2E rules come after
the write, so a frame has two rounds of rules: `FiledKeeps` and `CanFrameKeeps` put the filing between them, and
`LateFileEnds` says that where the memory may hold anything it now ends with the frame, so that a file opened by the
second round ends with it too. Where it may not (`Recalled` is false) `CauseRecorded` claims nothing of that frame.

For the disk (`LogWriter`): the pieces on it follow one another without a gap and only the last may be cut (`Tiled`);
what a container or a buffer holds is the stretch from the end of the last whole piece to the last object entered.
`WriterInv` adds to this how old the objects in memory are and, for BLF (`BlfInv`), that the containers counted are
whole and on the disk with at most one more behind them. `BlfHeader` says what the header tells: exactly those, with the
span of their objects (`SpanStays`: it does not change as others follow); or, after a kill within the patch, the last
container too, perhaps with the time of those before it or a torn one. `KilledInContainer` goes through the points the
kill can fall at. That every object lies in one piece is had from the least piece that ends behind it (`Covered`), not
by induction. `CleanWrites` (no write of a container and no patch fails, no kill cuts a PCAP packet) is three rows of
the table above.

For the trips (`LogCodec`): `TripKeeps`, for each kind and format, says that a trip keeps every field the format carries
and that what any other format can carry of the object does not shrink. So every field that all formats taken so far
carry is as in the first object, by induction over the trips and not over the data (`CodecInv`). `PlainObjects` leaves
out the objects the code changes, which are four rows of the table above.

**`SessionProofs`.** For the watch and the rule: the last stepped lap is not after the wall clock, a virtual run no
pause holds up has stepped up to it, and where the clocks agree a watching rule is silent only if the watch says
dropped. `RuleCovers` rests on the sim clock being behind the wall clock and on `SilenceGrows`: a silence seen on the
earlier clock is one on the later.

**`BusProofs`.** Both sides keep numbers; what makes a number mean a bus is the inductive invariant. `Places`: no
cluster is at two positions and none is given out again. `Pending`: the commands on the way are those of a frontend
that waited (a witness, `Plan`, carries the list of buses each of them will find). `Windows` and `Keyed` then say that
the picks and rows of the frontend, read with the removals on the way applied, name the buses they were made for;
`Filed` that every reference of the core names a bus that is there; `Hangs`, for a saved file, that what it says, read
with the numbers it holds, is what hung on the buses. One lemma for each handler shows all of them kept. TLC had
checked the whole invariant before, over 273 thousand states with two FlexRay buses and over 10 million with more
rows. `BusesAreNamed` maps `Buses` to `NamedBuses`: `Renumbered` removal is removal by name because positions behind
the gap move down together. `Narrow` is `~CrossRules`, no FlexRay sends and no computed channel: three rows of the
table.

**`RuleWalkProofs`.** `Shape` types the stack and the histories; `FreshUntilFired` says that an appearance rule that
brought nothing along and has not fired has a level, a count and a stamp that let it fire; `FiredHeldDown` that one that
fired is held down until it is re-armed; `WalkedOut` that whatever is queued is walked before the step ends, with
`QuietSweeps` for the one place that queues after the walk. `Reacted` bounds the answers of the scripts by a count over
the queue, a finite set whose cardinality grows by at most one for each answer that `can_send` counts.

For what is put together: every stored piece is cut out of a datagram of its flow, and the end of a flow is the length of
one of them (`PiecesOf`). *Covered*: where the code sees no hole, every unit up to the reach lies in a piece; so what
`Joined` makes has each unit once, in its place (`JoinedWhole`), whatever order, overlap and number the pieces came
in.

For the TCP stream, `StreamInv` says what a flow holds: it has read up to some place of the stream and keeps the stretch
from the beginning of the message it is inside up to there; the messages handed on rise and lie before that one, and,
while no segment was missed, they are all that arrived whole since the flow was taken up. The code sees residues:
`Window` says that the difference of two sequence numbers, modulo the size of the space, tells before from after as long
as a segment lies within half of it of what was read, which is the protocol's own condition (`InWindow`). The
parse loop is a recursive function; that it exists is had from the least turn that is wrong (`TurnsExist`), and
`ScanFound` says what it makes of a stretch that begins at a message, `ScanAstray` of one that does not. A
retransmission, an overlap, a gap and a new beginning are four ways to extend or replace one stretch.

For NM, `NmInv` relates the state of a PDU to the history: ready since the announcement, preparing since
later than the shortest ready time; a change of timings between two looks does not disturb it, as only the shortest
count.

For SOME/IP: `Waiting` puts the list of pending requests and the requests of the run in correspondence (each wait names
one open request, with its identity and deadline, and each open request has one wait); `Ended` says how a request that
is no longer open ended, and needs the history of what was heard. `Heeded` relates the subscriptions to the wishes: one
for each eventgroup somebody wants, at the endpoint last asked for. `Delivered` says of what the last handler sent that
its notifications and the subscriptions of their service are in bijection, so that counting them is `FS_Bijection`. A
list that loses elements (`Vec::retain`) is written by the ranks of what stays; `NthEnumerates` shows once that the
ranks of a finite set of positions enumerate it. Each thing a handler may do (count, note, answer, send, reply,
acknowledge, run a script) has a lemma about the record it works on, and a step is those lemmas in the order of the
code.

**`ScriptProofs`.** `RunsItsSource` is about running nodes only, and a failed one may hold a runtime of another source;
what is inductive (`Bound`) is that a node has a runtime only while it is on and measured, and that the runtime is of the
source in the editor unless the node failed since. What timers and handlers do to a runtime does not matter to it.
`NodeTimersHonest` is about two recursive functions: the operations a handler queued, applied in order, and the pass
over the due slots, each with its handler and its operations. That such a function exists and keeps an invariant is had
from the least wrong index (`LeastNat`), once for each. The invariant is `Coherent`: a periodic timer is due a whole
number of periods after its first beat; and the arms of a one-shot that have not fired are
accounted for, one by the slot if it is armed and one by the pass if it has taken the timer out of its slot and its
handler is still to run. The last is what a stop, a cancel or a new arming in the middle of a pass must keep.
`NodeAssumption` says that programs are lists of timer operations and that the pass visits each slot once. For the
debugger, `Claimed` adds to the property that the debugger is enabled: with that, a thread that leaves its wait has
lost its claim before.

The hardware wires, a module of their own: `Owns` counts lines: an attached port that never refused has none, one that did has exactly one, told
or waiting under its bus. To keep it through attachments, no port may serve two buses (`Unshared`), none has a
line before it is attached, and a line waiting under a bus must not outlive a removal, which is the hypothesis. The
queues of CAN and FlexRay ports hold no frame a parked poll has seen; those of an Ethernet port may.

**`WebProofs`.** A key names a signal and what it is called, so a rename gives lanes, rows and subscriptions a new one
at different moments. `IInv` therefore compares by identity (`Id`). `Kept`: a signal has one lane at most and one row,
plotted lanes come first, every plotted lane has its row, every row of something that is there (`Alive`) has its plotted
lane, in the order of the rows (`Recorded`); the same holds of the rows in the file. `Published`: once the pages have
been shown what there is, the lanes have its names. `Sampled`: what is shown and has its bus is subscribed,
what is defined is subscribed, and nothing else. Four lemmas say what may happen to lanes and rows that correspond: both
lose the same (`Thinned`), both gain the same (`Grown`), one row moves with its lane (`MovedRow`), and the names change
(`RenamedIs`, `FollowIs`). Rows are filtered by ranks, as in `SomeIp` (`RetainedLeads`). The proof showed an error of an
earlier model, which had given one identity to every computed channel: a definition deleted and made again under its old
name is another channel, and no run of three commands is long enough to see the difference. The hypotheses are
three rows of the table above.

For the trace, the model keeps what came in the run, and `FeedInv` relates the rings, the archive, the log and the
browser to it. `Ringed`: a ring holds the end of what came of its kind and counts the rest, its chunks end within it, and
the archive is the rest of the CAN rows, with the next write at its end. `Seen` is what makes the merge right: the web
thread keeps three counters, and unless a ring was rewound or has lost rows it does not count, there is one place `m` of
the run at which all three split what came; the log has no row after `m`, its stamps ascend, and a row of the rings up to
`m` is in it or was pushed out by a full log of rows no older. A look therefore adds what came after `m`, once
(`SyncedIs`), and moves `m` to the end. `Followed`: the rows of the browser are of one epoch, descend in number, and
are numbered below the number it will ask with. `ByStamp` sorts by rank, which is one to one from the
places of the rows to themselves (`ByStampIs`); the loop that trims the Ethernet ring is a recursive function, and what is needed of it (a ring that is the end
of the one before) is had from the least turn that is wrong, whatever the bytes add up to. `Settled` says that the trace
is cleared, and a CAN bus removed, only while nothing has gone to the archive; a FlexRay bus only while its ring has
lost nothing and the web thread has seen all rings; and that rows come again only when it has seen a rewound ring: a row
of the table above.

Model-checked only, and why:

- liveness (`EveryPlayEnds`, `CoreGoesOn`): fairness and `ENABLED` are beyond the provers;
- what is computed by recursion over data: the shared budget of `ReplayBlocks`, container by container reading
  (`LogReader`, in `FilesHonest`), the compiler, the machine and the parser of scripts (`RunsAsWritten`). The first uses folds, whose value for every input needs an induction the provers cannot instantiate; the others are in
  modules with recursive operators;
- `CurvesHonest`: its model filters sequences (`SelectSeq`) and folds over them, and what those return has no theorem in
  the library;
- `FramesHonest` and the descriptions of `AttachedHonest`: bits and merged lists are built by folds, too.

## 5. Plan

Done: the models of section 2, their runs, and the proofs of section 4.

Left, in this order:

1. What a fold or a filter returns, lemma by lemma: the induction an operator parameter would give can be had from the
   least element of a set of numbers, once for each function it is needed of, as for the timers of a node; a filter
   can be written by ranks, as in `SomeIp`. Next `TallyHonest` (`FrSlots`).
2. Readers of AUTOSAR and FIBEX files (`model/arxml.rs`, `fr_db.rs`, `eth/db.rs`): what the three readers of one file
   disagree on (section 6) as a model of references and defaults.
3. Host calls of scripts (`script/vm.rs`, `node.rs`).

## 6. What is not modelled

- Hardware vendor calls, compression, byte layouts of files, floating-point arithmetic of waveforms, aggregates, bus
  loads and load windows; period, jitter and length verdicts of the watch; text, layout and styling of views.
- Strings, floats, arrays and buffers of scripts, and their host calls, except timers and frames sent.
- The record whitelist, except that a hidden frame exists; conditions of rules as far as they differ only in what
  they match; the label heuristics that guess a replay map; one-shot file work (exports, profiles, dialogs).
- Damaged files of other programs; the DBC reload sweep inside a lap (it is an action of `Descriptions`).
- Service schemas and their (de)serialisation (`eth/arxml_service.rs`).
- Parsers of DBC, FIBEX and ARXML. Read side by side, the readers of one description disagree in places, which
  nothing here checks: labels of a `COMPU-METHOD` need both `V` and `VT` in one of them only; denominators of rational
  coefficients are ignored by `FrDb`; a dangling I-SIGNAL reference gives `FrDb` a one-bit signal; an absent `SLOT-ID`
  is 1 in `FrDb` and 0 in the model; a frame triggered twice keeps its last triggering in `FrDb`, its first in the
  model; the model takes FlexRay timing from other tags (`arxml.rs:1263-1320`, `fr_db.rs:2062-2100`); signed base
  types are not read by `FrDb`; coefficients of a `SYSTEM-SIGNAL` not by `EthDb`.

Time is in ticks: nothing depends on a microsecond, and the 64-bit counters cannot overflow in the life of a run;
counters that do wrap (session numbers, TCP sequence numbers, communication cycles) wrap in the models at a small modulus.
