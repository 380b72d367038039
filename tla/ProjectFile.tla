---------------------------- MODULE ProjectFile ----------------------------
(***************************************************************************)
(* The project file (project.rs, config.rs): what it keeps of a workspace   *)
(* and what opening it makes of that.                                       *)
(*                                                                         *)
(* The file names a bus by its cluster where the core counts positions      *)
(* (senders, rules) and by its position where the core names clusters       *)
(* (rows of windows).  Opening builds a new core, whose clusters are        *)
(* numbered from 1, attaches everything to it, and gives the buses their    *)
(* saved numbers at the very end.                                           *)
(***************************************************************************)
EXTENDS Buses

CONSTANT RowsAnytime  \* whether a project with rows may be saved once its clusters are
                      \* no longer numbered as those of a new core

VARIABLE file         \* the project file, until it is opened

projectVars == <<vars, file>>

NoProject == [can |-> <<>>]
Sited == {"node", "block"}  \* what a project keeps by position; senders it keeps by cluster

-----------------------------------------------------------------------------
(* Saving: from_app reads the snapshot.                                      *)

\* generators
SavedSenders == {[i EXCEPT !.ch = Cluster(@)] : i \in {j \in items : j.kind = "tx"}}

\* A rule whose bus has no cluster is left out.  Of what it sends only a CAN bus is kept.
SavedRules ==
    {[n |-> r.n,
      watch |-> CASE r.watch.space = "can" -> CanBus(Cluster(r.watch.bus))
                  [] r.watch.space = "fr" -> [space |-> "fr", bus |-> fr[r.watch.bus]]
                  [] r.watch.space = "none" -> r.watch,
      send |-> CASE r.send.space = "can" -> CanBus(Cluster(r.send.bus))
                 [] r.send.space = "fr" -> [space |-> "fr", bus |-> 0]
                 [] r.send.space = "none" -> r.send]
     : r \in {q \in rules : q.watch.space = "fr" => fr[q.watch.bus] # 0}}

\* can_bus_of, flexray_bus_of and key_bus: the bus of a cluster
BusOf(space, cluster, cans, frs) ==
    IF space = "can" THEN CHOOSE ch \in 0 .. Len(cans) - 1 : cans[ch + 1] = cluster
    ELSE CHOOSE b \in DOMAIN frs : frs[b] = cluster

\* The row of a key whose cluster is gone is kept as one of bus 0.
SavedRows ==
    {[space |-> k.space,
      bus |-> IF Alive(k, can, fr) THEN BusOf(k.space, k.cluster, can, fr) ELSE 0] : k \in curves}

Settings == [sited |-> {i \in items : i.kind \in Sited}, picks |-> picks, rows |-> SavedRows]

FromApp == [can |-> can, fr |-> [b \in frBuses |-> fr[b]], next |-> next,
            senders |-> SavedSenders, rules |-> SavedRules, map |-> map, settings |-> Settings]

-----------------------------------------------------------------------------
(* Opening.                                                                  *)

\* A new core has CAN buses 1 and 2; buses are removed from the end, never the last,
\* or added.  The FlexRay buses follow in the order of the file.
FreshCan(n) == [i \in 1 .. (IF n = 0 THEN 1 ELSE n) |-> i]
FreshNext(n) == IF n > 2 THEN n + 1 ELSE 3
FreshFr(n, buses) ==
    [b \in buses |-> FreshNext(n) + Cardinality({c \in buses : c < b})]

Numbered == /\ can = FreshCan(Len(can))
            /\ \A b \in frBuses : fr[b] = FreshFr(Len(can), frBuses)[b]

BusIn(space, cluster) == BusOf(space, cluster, file.can, file.fr)

\* restore_generators
RestoredSenders == {[i EXCEPT !.ch = BusIn("can", @)] : i \in file.senders}

\* mutant: the cluster of a rule is taken for the position of its bus
RestoredRulesByNumber ==
    {Renumbered(r, IF r.watch.space = "fr" THEN BusIn("fr", r.watch.bus) ELSE r.watch.bus,
                IF r.send.space = "can" THEN BusIn("can", r.send.bus) ELSE r.send.bus)
     : r \in file.rules}
\* restore_triggers
RestoredRules ==
    {Renumbered(r, IF r.watch.space # "none" THEN BusIn(r.watch.space, r.watch.bus) ELSE r.watch.bus,
                IF r.send.space = "can" THEN BusIn("can", r.send.bus) ELSE r.send.bus)
     : r \in file.rules}

\* sig_keys: a row gets the cluster its bus has in the core being filled.
RestoredRows ==
    LET cans == FreshCan(Len(file.can))
        frs == FreshFr(Len(file.can), DOMAIN file.fr)
    IN  {[space |-> r.space, cluster |-> IF r.space = "can" THEN cans[r.bus + 1] ELSE frs[r.bus]]
         : r \in file.settings.rows}

\* Nodes and blocks cross wholesale; a row is subscribed once it has its key.
ApplySettings ==
    /\ items' = RestoredSenders \cup file.settings.sited
    /\ picks' = file.settings.picks
    /\ curves' = RestoredRows
    /\ subs' = RestoredRows

\* SetClusterIds renames the buses, not the keys.
SetClusterIds ==
    /\ can' = file.can
    /\ fr' = [b \in FrBuses |-> IF b \in DOMAIN file.fr THEN file.fr[b] ELSE 0]
    /\ next' = file.next

SaveProject ==
    /\ file = NoProject /\ Settled
    /\ RowsAnytime \/ curves = {} \/ Numbered
    /\ file' = FromApp
    /\ UNCHANGED vars

\* apply, posted to the core command by command and settled at the end
OpenProject ==
    /\ file # NoProject
    /\ frBuses' = DOMAIN file.fr
    /\ rules' = RestoredRules /\ map' = file.map
    /\ ApplySettings
    /\ SetClusterIds
    /\ inbox' = <<>> /\ snap' = View'
    /\ file' = NoProject

ProjectInit == Init /\ file = NoProject

\* Bound: a project is opened as soon as it is saved; nothing of the workspace it is
\* opened in outlives reset_to_defaults.
ProjectNext ==
    \/ file = NoProject /\ Next /\ UNCHANGED file
    \/ SaveProject
    \/ OpenProject

ProjectSpec == ProjectInit /\ [][ProjectNext]_projectVars

-----------------------------------------------------------------------------

\* A project that was saved opens as it was: every bus with its number, every sender,
\* rule, route, pick and row on the bus it was on, and every row with a subscription
\* of a bus that is there.
OpensAsSaved ==
    [][file # NoProject /\ file' = NoProject =>
         /\ UNCHANGED <<can, fr, next, rules, map, frBuses, picks, curves>>
         /\ items' = {i \in items : i.kind \in Sited \cup {"tx"}}
         /\ curves' \subseteq subs'
         /\ \A k \in subs' : Alive(k, can', fr')]_projectVars
=============================================================================
