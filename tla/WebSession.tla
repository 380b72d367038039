----------------------------- MODULE WebSession -----------------------------
(* The web session (src/src/web.rs app_loop): one thread owns the App, takes *)
(* the commands of the pages one by one, and publishes now and then.  What   *)
(* is plotted lives in the session (SignalStore), what is listed in the      *)
(* windows of the project (src/src/workspace.rs), what is sampled in the     *)
(* core; the commands keep the three together.                               *)
EXTENDS Naturals, FiniteSets, SequencesExt

CONSTANTS
  Clusters,    \* the CAN channels of the project, by cluster
  Names,       \* names a definition of a computed channel may have
  Watchers,    \* the windows beside Graphics that list signals
  MaxCommands, \* commands that edit the project (bound)
  MaxSpans,    \* unbroken stretches of running (bound)
  PageLags,    \* whether a page may command from what was published last
  OpenFails,   \* whether a project file may be unreadable
  Targets,     \* whether a replay is played to a target
  BadPayloads  \* whether a rule may be edited with a payload that is not hex

VARIABLES lanes,    \* SignalStore.selected
          rows,     \* [window -> keys listed, in order]
          keep,     \* session_chart_keep
          subs,     \* the subscriptions of the core
          name,     \* the name of the computed channel, "" without one
          identity,       \* its identity, which no other channel ever has
          live,     \* the clusters that have a channel
          saved,    \* the project file
          page,     \* what the pages last saw
          lag,      \* whether there is something they have yet to see
          served,   \* whether app_loop still runs
          plotStride, \* plot_stride_us is the session's
          commands,
          running, held, span, window  \* the run, and the stretches in rate_window

chartVars == <<lanes, rows, keep, subs, name, identity, live, saved, page, lag, plotStride, commands>>
rateVars == <<running, held, span, window>>
webVars == <<chartVars, served, rateVars>>

Windows == Watchers \cup {"graphics"}
Can(c) == <<"can", c>>
Derived(d, n) == <<"derived", d, n>>
IsDerived(key) == key[1] = "derived"
Definition == IF name = "" THEN {} ELSE {Derived(identity, name)}
Keys == {Can(c) : c \in live} \cup Definition

(* bind_key: a computed channel always binds, a signal while its channel is. *)
Binds(key) == IsDerived(key) \/ key[2] \in live

KeysOf(ls) == {ls[i].key : i \in DOMAIN ls}
Listed(r) == UNION {ToSet(r[w]) : w \in Windows}

(* Vec::retain: what stands at the places `at`, in its order.                *)
NthOf(at, j) == CHOOSE i \in at : Cardinality({k \in at : k <= i}) = j
Remaining(s, at) == [j \in 1..Cardinality(at) |-> s[NthOf(at, j)]]
Unlisted(keys, key) == Remaining(keys, {i \in DOMAIN keys : keys[i] # key})
NoLane(ls, key) == Remaining(ls, {i \in DOMAIN ls : ls[i].key # key})
PlaceOf(keys, key) == CHOOSE i \in DOMAIN keys : keys[i] = key

(* Plotted lanes come before the read ones.                                  *)
FirstRead(ls) ==
  LET reads == {i \in DOMAIN ls : ls[i].read}
  IN IF reads = {} THEN Len(ls) + 1 ELSE CHOOSE i \in reads : \A j \in reads : i <= j
Plotted(ls) == FirstRead(ls) - 1
LaneKeys(ls) == [i \in DOMAIN ls |-> ls[i].key]

(* select_key_mode *)
SelectKeyMode(ls, key, read) ==
  LET others == NoLane(ls, key)
      at == IF read THEN Len(others) + 1 ELSE FirstRead(others)
  IN IF Binds(key) THEN InsertAt(others, at, [key |-> key, read |-> read]) ELSE ls

Watched(s, key) == IF Binds(key) THEN s \cup {key} ELSE s

(* Mutant: the lanes are forgotten.                                          *)
PrunedByRows(s, keys, r, kept) == {key \in s : key \notin keys \/ IsDerived(key) \/ key \in Listed(r)}
(* prune_signal: a computed channel's subscription is its definition's.      *)
Pruned(s, keys, r, kept) ==
  {key \in s : key \notin keys \/ IsDerived(key) \/ key \in kept \cup Listed(r)}

(* set_win_signal *)
Row(r, w, key) == IF key \in ToSet(r[w]) THEN r ELSE [r EXCEPT ![w] = Append(@, key)]
NoRow(r, w, key) == [r EXCEPT ![w] = Unlisted(@, key)]

Command ==
  /\ served /\ commands < MaxCommands /\ commands' = commands + 1
  /\ UNCHANGED <<served, saved, page>>
Charting == Command /\ UNCHANGED <<name, identity, live, lag, plotStride, rateVars>>

-----------------------------------------------------------------------------
Shown(key) == \E i \in DOMAIN lanes : lanes[i].key = key
IsRead(key) == \E i \in DOMAIN lanes : lanes[i] = [key |-> key, read |-> TRUE]

(* A page names what it was shown, mostly when that is all there is.         *)
Offered == IF PageLags \/ ~lag THEN page ELSE {}

(* set_signal_mode: plotted or read only; a plotted lane is listed in the    *)
(* first Graphics window as well.                                            *)
SelectSignal(key, read) ==
  LET ls == SelectKeyMode(lanes, key, read) IN
  /\ Charting
  /\ Shown(key) => IsRead(key) # read
  /\ lanes' = ls /\ keep' = KeysOf(ls)
  /\ IF read
     THEN /\ rows' = IF Shown(key) THEN NoRow(rows, "graphics", key) ELSE rows
          /\ subs' = IF Shown(key) THEN Pruned(subs, {key}, rows', keep') ELSE Watched(subs, key)
     ELSE rows' = Row(rows, "graphics", key) /\ subs' = Watched(subs, key)

(* Unselect, and the menu's remove: the lane goes, then its row; who else    *)
(* lists the signal keeps its subscription.                                  *)
UnselectSignal(key) ==
  /\ Charting /\ Shown(key)
  /\ lanes' = NoLane(lanes, key) /\ keep' = KeysOf(lanes')
  /\ rows' = NoRow(rows, "graphics", key)
  /\ subs' = Pruned(subs, {key}, rows', keep')

(* chart_move: the row follows its lane, beside the neighbours it now has.   *)
Beside(ls, key, to) ==
  LET others == Unlisted(rows["graphics"], key)
      after == IF to < Plotted(ls) THEN ls[to + 1].key ELSE key
      before == IF to > 1 THEN ls[to - 1].key ELSE key
  IN CASE after \in ToSet(others) -> InsertAt(others, PlaceOf(others, after), key)
       [] after \notin ToSet(others) /\ before \in ToSet(others) ->
            InsertAt(others, PlaceOf(others, before) + 1, key)
       [] OTHER -> Append(others, key)
MoveSignal(key, to) ==
  LET from == PlaceOf(LaneKeys(lanes), key)
      others == NoLane(lanes, key)
  IN /\ Charting /\ Shown(key) /\ ~IsRead(key) /\ to <= Plotted(lanes) /\ to # from
     /\ lanes' = InsertAt(others, to, lanes[from])
     /\ rows' = IF key \in ToSet(rows["graphics"])
                THEN [rows EXCEPT !["graphics"] = Beside(lanes', key, to)] ELSE rows
     /\ UNCHANGED <<keep, subs>>

Watch(w, key) ==
  /\ Charting /\ key \notin ToSet(rows[w])
  /\ rows' = Row(rows, w, key) /\ subs' = Watched(subs, key)
  /\ UNCHANGED <<lanes, keep>>

(* Removing a row first tells the App what the chart holds.                  *)
Unwatch(w, key) ==
  /\ Charting /\ key \in ToSet(rows[w])
  /\ keep' = KeysOf(lanes)
  /\ rows' = NoRow(rows, w, key)
  /\ subs' = Pruned(subs, {key}, rows', keep')
  /\ UNCHANGED lanes

ClearWatch(w) ==
  /\ Charting /\ rows[w] # <<>>
  /\ keep' = KeysOf(lanes)
  /\ rows' = [rows EXCEPT ![w] = <<>>]
  /\ subs' = Pruned(subs, ToSet(rows[w]), rows', keep')
  /\ UNCHANGED lanes

(* set_derived_defs: a new channel has a new identity; a rename follows into *)
(* the rows; rows that nothing defines go, those of Graphics excepted.       *)
Renamed(keys, new) ==
  [i \in DOMAIN keys |-> IF keys[i] = Derived(identity, name) THEN Derived(identity, new) ELSE keys[i]]
Owned(keys, n, d) == Remaining(keys, {i \in DOMAIN keys : IsDerived(keys[i]) => n # "" /\ keys[i][2] = d})
SetDerived(new) ==
  /\ Command /\ name # new /\ name' = new /\ lag' = TRUE
  /\ identity' = IF name = "" THEN commands' ELSE identity
  /\ LET called == [w \in Windows |-> IF name # "" /\ new # "" THEN Renamed(rows[w], new) ELSE rows[w]]
     IN rows' = [w \in Windows |-> IF w = "graphics" THEN called[w] ELSE Owned(called[w], new, identity')]
  /\ subs' = (subs \ Definition) \cup (IF new = "" THEN {} ELSE {Derived(identity', new)})
  /\ UNCHANGED <<lanes, keep, live, plotStride, rateVars>>

Stopped == running' = FALSE /\ UNCHANGED <<held, span, window>>

(* RemoveBus: the cluster takes its lanes, rows and subscriptions along.     *)
RemoveBus(c) ==
  /\ Command /\ c \in live /\ live' = live \ {c} /\ lag' = TRUE
  /\ lanes' = NoLane(lanes, Can(c))
  /\ rows' = [w \in Windows |-> Unlisted(rows[w], Can(c))]
  /\ subs' = subs \ {Can(c)}
  /\ running' = FALSE /\ window' = {} /\ UNCHANGED <<held, span>>
  /\ UNCHANGED <<keep, name, identity, plotStride>>

(* seed_chart_selection: the lanes of a session start as the rows.           *)
Seeded(keys) == [i \in DOMAIN keys |-> [key |-> keys[i], read |-> FALSE]]

SaveProject ==
  /\ served /\ saved' = [rows |-> rows, name |-> name, identity |-> identity, live |-> live] /\ saved' # saved
  /\ UNCHANGED <<lanes, rows, keep, subs, name, identity, live, page, lag, served, plotStride, commands,
                 rateVars>>

(* open_project_session: the subscriptions of the chart go first; a file     *)
(* that opens brings a new App, whose windows subscribe again.               *)
OpenProject ==
  /\ Command
  /\ rows' = saved.rows /\ name' = saved.name /\ identity' = saved.identity /\ live' = saved.live
  /\ lag' = TRUE
  /\ lanes' = Seeded(rows'["graphics"])
  /\ keep' = {} /\ plotStride' = FALSE
  /\ subs' = {key \in Listed(rows') : IsDerived(key) \/ key[2] \in live'}
               \cup (IF name' = "" THEN {} ELSE {Derived(identity', name')})
  /\ running' = FALSE /\ window' = {} /\ UNCHANGED <<held, span>>

OpenUnreadable ==
  /\ OpenFails /\ Command /\ lag' = TRUE
  /\ lanes' = Seeded(rows["graphics"])
  /\ subs' = (subs \ KeysOf(lanes)) \cup {key \in KeysOf(lanes') : Binds(key)}
  /\ running' = FALSE /\ window' = {} /\ UNCHANGED <<held, span>>
  /\ UNCHANGED <<rows, keep, name, identity, live, plotStride>>

(* EditTrigger: a payload that does not parse ends the loop, where every     *)
(* other refusal goes on with the next command.                              *)
EditTrigger(parses) ==
  /\ served /\ (BadPayloads \/ parses)
  /\ served' = parses
  /\ UNCHANGED <<chartVars, rateVars>>

-----------------------------------------------------------------------------
(* The run: Start, Stop, Pause and mode changes.                             *)
Transport == served /\ UNCHANGED <<chartVars, served>>

WebStart ==
  /\ Transport /\ ~running /\ span < MaxSpans
  /\ running' = TRUE /\ held' = FALSE /\ span' = span + 1 /\ window' = {}

WebStop == Transport /\ running /\ running' = FALSE /\ window' = {} /\ UNCHANGED <<held, span>>

SetRunMode == Transport /\ running /\ Stopped

Pause(on) ==
  /\ Transport /\ held # on /\ (on \/ span < MaxSpans)
  /\ held' = on /\ window' = {}
  /\ span' = IF on THEN span ELSE span + 1
  /\ UNCHANGED running

(* A replay played to a target pauses there, and goes on with the next one.  *)
TargetReached ==
  /\ Transport /\ Targets /\ running /\ ~held /\ held' = TRUE
  /\ UNCHANGED <<running, span, window>>
ReplayPlayTo ==
  /\ Transport /\ Targets /\ running /\ held /\ span < MaxSpans
  /\ held' = FALSE /\ span' = span + 1
  /\ UNCHANGED <<running, window>>

(* Every PUBLISH_EVERY: one more point of the rate window, the lanes follow  *)
(* the definitions, and the pages see what there is.                         *)
Defined(key) == IsDerived(key) => name # "" /\ key[2] = identity
FollowDefinition(ls) ==
  LET kept == Remaining(ls, {i \in DOMAIN ls : Defined(ls[i].key)}) IN
  [i \in DOMAIN kept |->
     IF IsDerived(kept[i].key) THEN [kept[i] EXCEPT !.key = Derived(identity, name)] ELSE kept[i]]
PublishState ==
  /\ served
  /\ window' = IF running /\ ~held THEN window \cup {span} ELSE window
  /\ lanes' = FollowDefinition(lanes)
  /\ page' = Keys /\ lag' = FALSE
  /\ UNCHANGED <<rows, keep, subs, name, identity, live, saved, served, plotStride, commands,
                 running, held, span>>

WebInit ==
  /\ lanes = <<>> /\ rows = [w \in Windows |-> <<>>] /\ keep = {} /\ subs = {}
  /\ name = "" /\ identity = 0 /\ live = Clusters
  /\ saved = [rows |-> rows, name |-> name, identity |-> identity, live |-> live]
  /\ page = Keys /\ lag = FALSE /\ served = TRUE /\ plotStride = TRUE /\ commands = 0
  /\ running = FALSE /\ held = FALSE /\ span = 0 /\ window = {}

WebNext ==
  \/ \E key \in Offered :
       \/ \E read \in BOOLEAN : SelectSignal(key, read)
       \/ UnselectSignal(key)
       \/ \E to \in 1..(Cardinality(Clusters) + 1) : MoveSignal(key, to)
       \/ \E w \in Watchers : Watch(w, key) \/ Unwatch(w, key)
  \/ \E w \in Watchers : ClearWatch(w)
  \/ \E new \in Names \cup {""} : SetDerived(new)
  \/ \E c \in Clusters : RemoveBus(c)
  \/ SaveProject \/ OpenProject \/ OpenUnreadable
  \/ \E parses \in BOOLEAN : EditTrigger(parses)
  \/ WebStart \/ WebStop \/ SetRunMode
  \/ \E on \in BOOLEAN : Pause(on)
  \/ TargetReached \/ ReplayPlayTo
  \/ PublishState

WebSpec == WebInit /\ [][WebNext]_webVars

-----------------------------------------------------------------------------
(* The state keeps its shape.                                                *)
Signals == {Can(c) : c \in Clusters} \cup {Derived(d, n) : d \in 0..MaxCommands, n \in Names}
WebTyped ==
  /\ lanes \in Seq([key : Signals, read : BOOLEAN])
  /\ \A w \in Windows : rows[w] \in Seq(Signals)
  /\ keep \cup subs \cup page \subseteq Signals
  /\ commands \in 0..MaxCommands /\ identity \in 0..commands /\ span \in 0..MaxSpans

(* What is plotted or listed is subscribed, so no lane and no row stays      *)
(* empty while its signal is on the bus (web.rs, workspace.rs                *)
(* set_win_signal).                                                          *)
ShownIsSampled ==
  \A key \in KeysOf(FollowDefinition(lanes)) \cup Listed(rows) :
    key \in Keys => key \in subs

(* And nothing stays subscribed that nobody shows (observe.rs prune_signal). *)
SampledIsShown ==
  \A key \in subs : IsDerived(key) \/ key \in KeysOf(lanes) \cup Listed(rows)

(* A signal has one lane, the read ones come last, and the plotted ones are, *)
(* in their order, what the project records; what is recorded is plotted,    *)
(* the rows of deleted definitions excepted (web.rs chart_move,              *)
(* seed_chart_selection).                                                    *)
OneLane == \A i, j \in DOMAIN lanes : lanes[i].key = lanes[j].key => i = j
ReadsLast == \A i, j \in DOMAIN lanes : i < j /\ lanes[i].read => lanes[j].read
PlottedIsRecorded ==
  LET order == rows["graphics"]
      plotted == {i \in DOMAIN lanes : ~lanes[i].read}
  IN /\ {lanes[i].key : i \in plotted} \ {key \in KeysOf(lanes) : IsDerived(key)}
           = {key \in ToSet(order) : ~IsDerived(key)}
     /\ ~lag => {lanes[i].key : i \in plotted} = {key \in ToSet(order) : Defined(key)}
     /\ \A i, j \in plotted : \A p, q \in DOMAIN order :
          i < j /\ order[p] = lanes[i].key /\ order[q] = lanes[j].key => p < q
LanesRecorded == OneLane /\ ReadsLast /\ PlottedIsRecorded

(* The rows of a deleted definition go with it (app.rs set_derived_defs).    *)
RowsFollowDefinition == \A key \in Listed(rows) : IsDerived(key) => key \in Definition

(* No rate is taken over a time the run stood still (web.rs Pause).          *)
RateHonest == Cardinality(window) <= 1

(* A refused command leaves the session serving (web.rs app_loop).           *)
StaysServing == served

(* The pages, the windows, the project and the subscriptions of a session    *)
(* that goes on serving agree.                                               *)
WebHonest == ShownIsSampled /\ SampledIsShown /\ LanesRecorded /\ StaysServing

(* The charts are sampled at the stride the session asked for (web.rs        *)
(* app_loop, plot_stride_us).                                                *)
StrideIsAsked == plotStride
=============================================================================
