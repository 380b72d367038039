------------------------------- MODULE Buses -------------------------------
(***************************************************************************)
(* Adding and removing buses (bus.rs: add_channel, remove_channel,           *)
(* remove_fr_bus; channel.rs: the same on the frontend).                    *)
(*                                                                         *)
(* A CAN bus is a position in a list, and everything of it that stores the   *)
(* position is renumbered when an earlier bus goes.  A FlexRay bus is its    *)
(* cluster number and keeps it.  Signal keys and the replay map name the     *)
(* cluster, an identity that is never given out twice.  The frontend keeps   *)
(* window state of both kinds and renumbers it from its last snapshot.      *)
(***************************************************************************)
EXTENDS Integers, Sequences, FiniteSets, SequencesExt

CONSTANTS
    Kinds,      \* the collections of the core that store a CAN bus by position
    MaxCluster, \* bound: clusters ever given out
    MaxItems,   \* bound: references at a time
    MaxShown,   \* bound: rows of windows at a time
    MaxInbox,   \* bound: commands on the way
    FrBuses,    \* bound: the FlexRay cluster numbers
    Sends,      \* the spaces a rule may send on
    CrossRules, \* whether a rule that watches no CAN bus may send on one
    Lanes,      \* the derived channels somebody may define
    Prompt      \* whether the frontend waits for the core before it removes a bus

ASSUME BusesAssumption ==
    /\ MaxCluster \in Nat /\ MaxItems \in Nat /\ MaxShown \in Nat /\ MaxInbox \in Nat
    /\ FrBuses \subseteq Nat /\ IsFiniteSet(FrBuses)
    /\ Sends \subseteq {"can", "fr"} /\ Lanes \subseteq Nat
    /\ CrossRules \in BOOLEAN /\ Prompt \in BOOLEAN

VARIABLES
    can,      \* can_cluster_ids: the cluster of each CAN bus, by position
    fr,       \* fr_cluster_ids: the cluster of a FlexRay bus, 0 if there is none
    next,     \* cluster_ids: the next identity to give out
    items,    \* tx_list, nodes, replay_blocks, aggs, trace rows, verdicts, ports, ...
    rules,    \* triggers: where each one watches and sends
    subs,     \* the keys of subs: by cluster, or of a derived channel
    map,      \* replay_map of one log channel of each kind: Same, Drop or a cluster
    inbox,    \* commands of the frontend the core has not taken
    snap,     \* the snapshot the frontend works from
    frBuses,  \* fr_buses of the frontend: the FlexRay buses it describes
    picks,    \* window state by position (scopes, manual picks, remembered ports); `of`
              \* is history: the bus it was made for
    curves    \* the signal keys of window rows, by cluster

core == <<can, fr, next, items, rules, subs, map>>
vars == <<core, inbox, snap, frBuses, picks, curves>>

NoBus == -1
Same == 0
Drop == -1
Positions == 0 .. Len(can) - 1
Cluster(ch) == can[ch + 1]
View == [can |-> can, fr |-> fr]

\* What a rule can watch or send on.  "none" is a system variable or derived channel
\* to watch, and no frame to send.
Ends == [space : {"can"}, bus : 0 .. MaxCluster] \cup [space : {"fr"}, bus : FrBuses]
           \cup [space : {"none"}, bus : {NoBus}]

-----------------------------------------------------------------------------
(* remove_channel                                                           *)

Shifted(ch, gone) == IF ch > gone THEN ch - 1 ELSE ch

\* mutant: what follows the removed bus keeps its number
ItemsUnshifted(gone) == {i \in items : i.ch # gone}
\* retain, then one step down: the policy of every collection that holds a position
ItemsWithout(gone) ==
    {[i EXCEPT !.ch = Shifted(@, gone)] : i \in {j \in items : j.ch # gone}}

CanBus(ch) == [space |-> "can", bus |-> ch]

\* A rule under other bus numbers.
Renumbered(r, watched, sent) ==
    [watch |-> [space |-> r.watch.space, bus |-> watched],
     send |-> [space |-> r.send.space, bus |-> sent], n |-> r.n]

\* mutant: a rule goes with the bus it watches, not with the one it sends on
RulesWatching(gone) ==
    {Renumbered(r, IF r.watch.space = "can" THEN Shifted(r.watch.bus, gone) ELSE r.watch.bus,
                IF r.send.space = "can" THEN Shifted(r.send.bus, gone) ELSE r.send.bus)
     : r \in {q \in rules : q.watch # CanBus(gone)}}
\* A rule that watches no CAN bus is skipped before its action is renumbered.
RulesWithout(gone) ==
    {IF r.watch.space # "can" THEN r
     ELSE Renumbered(r, Shifted(r.watch.bus, gone),
                     IF r.send.space = "can" THEN Shifted(r.send.bus, gone) ELSE r.send.bus)
     : r \in {q \in rules : CanBus(gone) \notin {q.watch, q.send}}}

\* key_bus
Alive(key, cans, frs) == \/ key.space = "can" /\ key.cluster \in ToSet(cans)
                         \/ key.space = "fr" /\ \E b \in FrBuses : frs[b] = key.cluster

\* drop_cluster
MapWithout(kind, gone) == [map EXCEPT ![kind] = IF @ = gone THEN Drop ELSE @]

RemoveChannel(ch) ==
    IF Len(can) <= 1 \/ ch \notin Positions THEN UNCHANGED core
    ELSE /\ can' = RemoveAt(can, ch + 1)
         /\ items' = ItemsWithout(ch)
         /\ rules' = RulesWithout(ch)
         /\ subs' = {k \in subs : Alive(k, can', fr)}
         /\ map' = MapWithout("can", Cluster(ch))
         /\ UNCHANGED <<fr, next>>

AddChannel == can' = Append(can, next) /\ next' = next + 1
              /\ UNCHANGED <<fr, items, rules, subs, map>>

-----------------------------------------------------------------------------
(* FlexRay: the descriptions arrive as one map, which drops and allocates    *)
(* clusters (rebuild_fr_models); RemoveFrBus then clears what it holds.      *)

SetFrDbs(described) ==
    LET fresh == {b \in described : fr[b] = 0}
        Rank(b) == Cardinality({c \in fresh : c < b})
    IN  /\ fr' = [b \in FrBuses |-> IF b \notin described THEN 0
                                    ELSE IF b \in fresh THEN next + Rank(b) ELSE fr[b]]
        /\ next' = next + Cardinality(fresh)
        /\ UNCHANGED <<can, items, rules, subs, map>>

\* By now the cluster of the bus is gone, unless it was removed without SetFrDbs.
RemoveFrBus(b) ==
    /\ fr' = [fr EXCEPT ![b] = 0]
    /\ subs' = {k \in subs : k.space = "fr" => Alive(k, can, fr')}
    /\ rules' = {r \in rules : r.watch # [space |-> "fr", bus |-> b]}
    /\ map' = IF fr[b] # 0 THEN MapWithout("fr", fr[b]) ELSE map
    /\ UNCHANGED <<can, next, items>>

-----------------------------------------------------------------------------
(* Everything else that attaches something, each command on what is there.   *)

AddItem(k, ch, n) ==
    /\ ch \in Positions
    /\ items' = items \cup {[kind |-> k, n |-> n, ch |-> ch]}
    /\ UNCHANGED <<can, fr, next, rules, subs, map>>

AddRule(watch, send, n) ==
    /\ \A end \in {watch, send} : CASE end.space = "can" -> end.bus \in Positions
                                  [] end.space = "fr" -> fr[end.bus] # 0
                                  [] end.space = "none" -> TRUE
    /\ send.space \in Sends \cup {"none"}
    /\ send.space = "can" => watch.space = "can" \/ CrossRules
    /\ rules' = rules \cup {[watch |-> watch, send |-> send, n |-> n]}
    /\ UNCHANGED <<can, fr, next, items, subs, map>>

\* Subscribe: bind_key takes a derived key as it is and any other only while its
\* cluster is there.  set_derived subscribes its own.
Subscribe(key) ==
    /\ key.space = "derived" \/ Alive(key, can, fr)
    /\ subs' = subs \cup {key}
    /\ UNCHANGED <<can, fr, next, items, rules, map>>

SetReplayMap(kind, to) ==
    /\ map' = [map EXCEPT ![kind] = to]
    /\ UNCHANGED <<can, fr, next, items, rules, subs>>

-----------------------------------------------------------------------------
(* The frontend: App::send posts and goes on with the snapshot it has.       *)

Post(cmds) == inbox' = inbox \o cmds /\ Len(inbox') <= MaxInbox

\* mutant: a scope on a later bus is not renumbered
PicksUnshifted(gone) == {p \in picks : p.ch # gone}
PicksWithout(gone) == {[p EXCEPT !.ch = Shifted(@, gone)] : p \in {q \in picks : q.ch # gone}}

Settled == inbox = <<>> /\ snap = View

AppRemoveChannel(ch) ==
    /\ Prompt => Settled
    /\ Len(snap.can) > 1 /\ ch < Len(snap.can)
    /\ Post(<<[cmd |-> "RemoveChannel", ch |-> ch]>>)
    /\ picks' = PicksWithout(ch)
    /\ curves' = {k \in curves : k.cluster # snap.can[ch + 1]}
    /\ UNCHANGED <<core, snap, frBuses>>

AppAddChannel == /\ Post(<<[cmd |-> "AddChannel"]>>)
                 /\ UNCHANGED <<core, snap, frBuses, picks, curves>>

\* next_flexray_bus: the smallest number without a description
AppAddFrBus ==
    /\ \E b \in FrBuses \ frBuses :
          /\ \A c \in FrBuses \ frBuses : b <= c
          /\ frBuses' = frBuses \cup {b}
    /\ Post(<<[cmd |-> "SetFrDbs", described |-> frBuses']>>)
    /\ UNCHANGED <<core, snap, picks, curves>>

AppRemoveFrBus(b) ==
    /\ b \in frBuses
    /\ frBuses' = frBuses \ {b}
    /\ Post(<<[cmd |-> "SetFrDbs", described |-> frBuses'],
              [cmd |-> "RemoveFrBus", bus |-> b]>>)
    /\ curves' = {k \in curves : k.cluster # snap.fr[b]}
    /\ UNCHANGED <<core, snap, picks>>

\* A window takes a bus or a signal the snapshot shows.
Show(ch) ==
    /\ ch < Len(snap.can)
    /\ Prompt => Settled
    /\ Cardinality(curves) < MaxShown
    /\ picks' = picks \cup {[ch |-> ch, of |-> snap.can[ch + 1]]}
    /\ curves' = curves \cup {[space |-> "can", cluster |-> snap.can[ch + 1]]}
    /\ UNCHANGED <<core, inbox, snap, frBuses>>
ShowFr(b) ==
    /\ b \in frBuses /\ snap.fr[b] # 0
    /\ Prompt => Settled
    /\ Cardinality(curves) < MaxShown
    /\ curves' = curves \cup {[space |-> "fr", cluster |-> snap.fr[b]]}
    /\ UNCHANGED <<core, inbox, snap, frBuses, picks>>

\* read_snapshot
Read == snap' = View /\ UNCHANGED <<core, inbox, frBuses, picks, curves>>

Handle ==
    /\ inbox # <<>>
    /\ LET c == Head(inbox) IN
          \/ c.cmd = "RemoveChannel" /\ RemoveChannel(c.ch)
          \/ c.cmd = "AddChannel" /\ AddChannel
          \/ c.cmd = "SetFrDbs" /\ SetFrDbs(c.described)
          \/ c.cmd = "RemoveFrBus" /\ RemoveFrBus(c.bus)
    /\ inbox' = Tail(inbox)
    /\ UNCHANGED <<snap, frBuses, picks, curves>>

Attached == Cardinality(items) + Cardinality(rules) + Cardinality(subs)

Attaching ==
    /\ Attached < MaxItems
    /\ LET n == Attached + 1 IN
          \/ \E k \in Kinds, ch \in Positions : AddItem(k, ch, n)
          \/ \E w, s \in Ends : AddRule(w, s, n)
          \/ \E ch \in Positions : Subscribe([space |-> "can", cluster |-> Cluster(ch)])
          \/ \E b \in FrBuses : fr[b] # 0 /\ Subscribe([space |-> "fr", cluster |-> fr[b]])
          \/ \E l \in Lanes : Subscribe([space |-> "derived", cluster |-> l])
    /\ UNCHANGED <<inbox, snap, frBuses, picks, curves>>

Routing == /\ \/ \E to \in {Same, Drop} \cup ToSet(can) : SetReplayMap("can", to)
              \/ \E b \in FrBuses : fr[b] # 0 /\ SetReplayMap("fr", fr[b])
           /\ UNCHANGED <<inbox, snap, frBuses, picks, curves>>

Init ==
    /\ can = <<1, 2>> /\ next = 3
    /\ fr = [b \in FrBuses |-> 0]
    /\ items = {} /\ rules = {} /\ subs = {} /\ map = [k \in {"can", "fr"} |-> Same]
    /\ inbox = <<>> /\ snap = View
    /\ frBuses = {} /\ picks = {} /\ curves = {}

Room == next + Len(inbox) <= MaxCluster

Next ==
    \/ \E ch \in 0 .. Len(snap.can) - 1 : AppRemoveChannel(ch)
    \/ Room /\ AppAddChannel
    \/ Room /\ AppAddFrBus
    \/ \E b \in FrBuses : AppRemoveFrBus(b)
    \/ \E ch \in 0 .. Len(snap.can) - 1 : Show(ch)
    \/ \E b \in FrBuses : ShowFr(b)
    \/ Read
    \/ Handle
    \/ Attaching
    \/ Routing

Spec == Init /\ [][Next]_vars

-----------------------------------------------------------------------------

TypeOK ==
    /\ can \in Seq(1 .. MaxCluster) /\ can # <<>>
    /\ fr \in [FrBuses -> 0 .. MaxCluster]
    /\ \A i \in items : i.ch \in Positions /\ i.kind \in Kinds
    /\ \A r \in rules : {r.watch, r.send} \subseteq Ends
    /\ map \in [{"can", "fr"} -> {Same, Drop} \cup 1 .. MaxCluster]

CanClusters == ToSet(can)
FrClusters == {fr[b] : b \in FrBuses} \ {0}
Live == CanClusters \cup FrClusters

\* What each reference means now.  What still names a FlexRay bus whose description
\* is gone means nothing any more: the command that clears it follows.
Nowhere == 0
Where(space, bus) == CASE space = "can" -> {IF bus \in Positions THEN Cluster(bus) ELSE Nowhere}
                       [] space = "fr" -> {fr[bus]}
                       [] space = "none" -> {}

ByName ==
    {[of |-> <<"item", i.kind, i.n>>, on |-> Where("can", i.ch)] : i \in items}
    \cup {[of |-> <<"rule", r.watch.space, r.n>>,
           on |-> Where(r.watch.space, r.watch.bus) \cup Where(r.send.space, r.send.bus)]
          : r \in {q \in rules : q.watch.space = "fr" => fr[q.watch.bus] # 0}}
    \cup {[of |-> <<"sub", k.space>>, on |-> IF k.space = "derived" THEN {} ELSE {k.cluster}]
          : k \in {q \in subs : q.space = "derived" \/ q.cluster \in Live}}
    \cup {[of |-> <<"map", k>>, on |-> {map[k]}]
          : k \in {q \in DOMAIN map : map[q] \notin {Same, Drop} /\ map[q] \in Live}}

\* Removing a bus is what it promises to be (NamedBuses): everything on it goes,
\* everything else stays on the bus it was on, though most of it is renumbered, in
\* some twenty collections, by one handler.
Named == INSTANCE NamedBuses WITH live <- Live, refs <- ByName
BusesByName == Named!NamedSpec

\* Whatever buses come and go, once the frontend has read what the core did, the
\* window state that stores a position means the bus it was made for, no row is left
\* on a bus that is gone, and no identity is used twice.
WindowsFollow == Settled =>
    /\ \A p \in picks : p.ch \in Positions /\ Cluster(p.ch) = p.of
    /\ \A k \in curves : Alive(k, can, fr)
    /\ \A i, j \in DOMAIN can : can[i] = can[j] => i = j
    /\ CanClusters \cap FrClusters = {}
=============================================================================
