---------------------------- MODULE Descriptions ----------------------------
(***************************************************************************)
(* Binding description files to buses.  A bus carries any number of files; *)
(* what it knows is merged from them, a name keeping its first declaration *)
(* (dbc.rs absorb, fr_db.rs merge, eth/db.rs merge).  The merged databases *)
(* become the communication model (model/import.rs, dbc_import.rs), the    *)
(* services of all the Ethernet files one catalog, and running scripts     *)
(* have the names they read looked up again.  Files change on disk.        *)
(***************************************************************************)
EXTENDS Naturals, Sequences, FiniteSets, SequencesExt, Functions, TLC

CONSTANTS
    FilesOf,      \* the files of each kind: "fr", "eth", "dbc" and "xml"
    TextsOf,      \* what a file may hold: a set of texts for each path
    Gone,         \* what a file holds that cannot be read,
    Broken,       \* or cannot be parsed
    NumBuses,     \* FlexRay and Ethernet buses are 0 .. NumBuses - 1
    Refs,         \* the names the running script reads
    StopsFirst,   \* protocols whose page stops a run before it edits files
    MaxWrites     \* bound: how often a file changes on disk

VARIABLES
    disk,         \* what each file holds
    writes,       \* how often one has changed
    frSources, frDbs, frModels,   \* FlexRay: files, database, model of a bus
    frWatched,                    \* the buses with a port
    ethSources, ethDbs, ethModels,
    catalog,      \* the services: the buses each is on
    canPaths, canSums, canTable,  \* the CAN bus: DBC files, what was read of
                                  \* them, the table they make
    canArxml, canListed,          \* its ARXML files, as the frontend lists them
    canXml, canModel,             \* and as the core does, what they make, the model
    running, reads,   \* is the run on, and what the script's names stand for
    frTaken, ethTaken, xmlTaken   \* history: the texts last read of the files

frVars == <<frSources, frDbs, frModels, frWatched, frTaken>>
ethVars == <<ethSources, ethDbs, ethModels, catalog, ethTaken>>
dbcVars == <<canPaths, canSums, canTable>>
canVars == <<dbcVars, canArxml, canListed, canXml, canModel, xmlTaken>>
descVars == <<disk, writes, frVars, ethVars, canVars, running, reads>>

BusIds == 0 .. NumBuses - 1
Paths == UNION Range(FilesOf)

Parsed(t) == t \notin {Gone, Broken}
Readable(texts) == SelectSeq(texts, Parsed)
Texts(list) == [i \in DOMAIN list |-> disk[list[i]]]
Without(list, x) == SelectSeq(list, LAMBDA y : y # x)
Keyed(entries, Key(_)) == [k \in {Key(entries[i]) : i \in DOMAIN entries} |->
                             entries[CHOOSE i \in DOMAIN entries : Key(entries[i]) = k /\ \A j \in DOMAIN entries : j > i => Key(entries[j]) # k]]

\* What is new under its key joins; the first declaration of a key stays.
FirstWins(base, extra, Key(_)) ==
    FoldLeft(LAMBDA known, x : IF \E i \in DOMAIN known : Key(known[i]) = Key(x)
                               THEN known ELSE Append(known, x), base, extra)

(* ------------------------- databases of a file -------------------------- *)

\* A text: [timing, cluster, pdus, frames, services].  A PDU is [name, sigs],
\* a frame [name, at, pdus] with at its slot, its cluster or its message id
\* and pdus the PDUs it carries, [pdu, at]; a signal is [sig, at].
NoDb == [timing |-> 0, cluster |-> "", pdus |-> <<>>, frames |-> <<>>, services |-> {}]

PduKey(p) == p.name
FrFrameKey(f) == <<f.name, f.at>>
EthFrameKey(f) == <<f.name, f.at>>

SameTiming(base, other) == base.timing = other.timing

FrMerge(base, other) ==
    [base EXCEPT !.pdus = FirstWins(base.pdus, other.pdus, PduKey),
                 !.frames = FirstWins(base.frames, other.frames, FrFrameKey)]

EthMerge(base, other) ==
    [base EXCEPT !.pdus = FirstWins(base.pdus, other.pdus, PduKey),
                 !.frames = FirstWins(base.frames, other.frames, EthFrameKey)]

\* The PDU a name stands for: its first declaration.
PduIx(db, name) == {i \in DOMAIN db.pdus : db.pdus[i].name = name /\ \A j \in 1 .. i - 1 : db.pdus[j].name # name}

PduSignals(db, name) == LET ix == PduIx(db, name) IN IF ix = {} THEN <<>> ELSE db.pdus[CHOOSE i \in ix : TRUE].sigs

\* An Ethernet frame holds the signals of its PDUs itself.
EthParse(text) ==
    [text EXCEPT !.frames = [i \in DOMAIN text.frames |->
       [text.frames[i] EXCEPT !.pdus = [j \in DOMAIN text.frames[i].pdus |->
          [sigs |-> PduSignals(text, text.frames[i].pdus[j].pdu)] @@ text.frames[i].pdus[j]]]]]
EthTexts(texts) == [i \in DOMAIN texts |-> EthParse(texts[i])]

FrameBase(f) == LET starts == {f.pdus[i].at : i \in DOMAIN f.pdus}
                IN  IF starts = {} THEN 0 ELSE CHOOSE s \in starts : \A o \in starts : s <= o

\* The signals a frame carries and the bit each starts at, from its first PDU.
FrameChildren(db, f) ==
    UNION {{[sig |-> s.sig, at |-> f.pdus[i].at - FrameBase(f) + s.at] : s \in Range(PduSignals(db, f.pdus[i].pdu))} : i \in DOMAIN f.pdus}

SlotSignals(db) == UNION {{[slot |-> f.at, sig |-> c.sig] : c \in FrameChildren(db, f)} : f \in Range(db.frames)}

(* ------------------------------ the model ------------------------------- *)

\* Frames, mappings, PDUs and signals by the key of the element they come from.
NoModel == [frames |-> <<>>, maps |-> <<>>, pdus |-> <<>>, sigs |-> <<>>, services |-> {}]

\* Where the PDUs of the frames stand; a FlexRay payload begins at the first.
Places(tag, db) ==
    FlattenSeq([i \in DOMAIN db.frames |->
      [j \in DOMAIN db.frames[i].pdus |->
        [frame |-> db.frames[i].name, ix |-> j, pdu |-> db.frames[i].pdus[j].pdu,
         sigs |-> IF tag = "eth" THEN db.frames[i].pdus[j].sigs ELSE PduSignals(db, db.frames[i].pdus[j].pdu),
         at |-> db.frames[i].pdus[j].at - (IF tag = "fr" THEN FrameBase(db.frames[i]) ELSE 0)]]])

\* The key of a PDU: its name, or for Ethernet where it stands.
PduId(tag, p) == IF tag = "eth" THEN <<tag, p.frame, p.ix, p.pdu>> ELSE <<tag, p.pdu>>

\* The signals of each PDU placed, by the PDU's key.
Signals(tag, places) ==
    FlattenSeq([i \in DOMAIN places |->
      [j \in DOMAIN places[i].sigs |-> [pdu |-> PduId(tag, places[i]), sig |-> places[i].sigs[j]]]])

\* What import makes of frames: a frame of each name, a mapping of each of its
\* PDUs, and the signals of the PDU, under the keys a format gives them.
Import(tag, db) ==
    LET places == Places(tag, db)
        pdu(p) == PduId(tag, p)
        map(p) == <<tag, p.frame, p.ix, p.pdu>>
        signals == Signals(tag, places)
        frame == Keyed(db.frames, LAMBDA f : <<tag, f.name>>)
        mapped == Keyed(places, map)
        held == Keyed(signals, LAMBDA s : <<s.pdu, s.sig.sig>>)
    IN  [NoModel EXCEPT
          !.frames = [k \in DOMAIN frame |->
                        [name |-> k[2], at |-> frame[k].at, maps |-> [i \in DOMAIN frame[k].pdus |-> <<tag, k[2], i, frame[k].pdus[i].pdu>>]]],
          !.maps = [k \in DOMAIN mapped |-> [frame |-> <<tag, k[2]>>, pdu |-> pdu(mapped[k]), at |-> mapped[k].at]],
          !.pdus = Keyed(places, pdu),
          !.sigs = [k \in DOMAIN held |-> [pdu |-> k[1], at |-> held[k].sig.at]]]

ImportFrDb(db) == Import("fr", db)
ImportEthDb(db) == Import("eth", db)
ImportCluster(text) == Import("xml", text)

\* A table's messages, keyed by id: a frame, a PDU and a mapping each.
ImportTable(table) ==
    LET keys == {<<"dbc", id>> : id \in Range(table.order)}
        sigs(k) == table.messages[k[2]].sigs
        held(k) == Keyed(sigs(k), LAMBDA s : s.sig)
    IN  [NoModel EXCEPT
          !.frames = [k \in keys |-> [name |-> table.messages[k[2]].name, at |-> k[2], maps |-> <<k>>]],
          !.maps = [k \in keys |-> [frame |-> k, pdu |-> k, at |-> 0]],
          !.pdus = [k \in keys |-> k],
          !.sigs = [s \in UNION {{<<k, n>> : n \in DOMAIN held(k)} : k \in keys} |->
                      [pdu |-> s[1], at |-> held(s[1])[s[2]].at]]]

\* A second description of the cluster: an element of both is the second's.
MergeFrom(base, other) ==
    [base EXCEPT !.frames = other.frames @@ base.frames, !.maps = other.maps @@ base.maps,
                 !.pdus = other.pdus @@ base.pdus, !.sigs = other.sigs @@ base.sigs]

SignalLayouts(model, pdu) == {k \in DOMAIN model.sigs : model.sigs[k].pdu = pdu}

\* What the model decodes in a frame.
ModelShows(model, key) ==
    UNION {LET m == model.maps[model.frames[key].maps[i]]
           IN  {[sig |-> k[2], at |-> m.at + model.sigs[k].at] : k \in SignalLayouts(model, m.pdu)} :
           i \in DOMAIN model.frames[key].maps}

IntegrityIssues(model) ==
    {f \in DOMAIN model.frames : ~(Range(model.frames[f].maps) \subseteq DOMAIN model.maps)}
    \cup {m \in DOMAIN model.maps : model.maps[m].frame \notin DOMAIN model.frames \/ model.maps[m].pdu \notin DOMAIN model.pdus}
    \cup {s \in DOMAIN model.sigs : model.sigs[s].pdu \notin DOMAIN model.pdus}

(* ----------------------- what a script's names are ---------------------- *)

None == <<>>
Only(hits) == IF Cardinality(hits) = 1 THEN <<CHOOSE h \in hits : TRUE>> ELSE None

FrSlotOf(db, sig) == Only({s.slot : s \in {x \in SlotSignals(db) : x.sig = sig}})
FrBusByName(name) == Only({b \in DOMAIN frDbs : frDbs[b].cluster = name})
EthBusByName(name) == Only({b \in DOMAIN ethDbs : ethDbs[b].cluster = name})
EthSignalCheck(db, name, sig) ==
    LET hits == {i \in DOMAIN db.frames : db.frames[i].name = name /\ \A j \in 1 .. i - 1 : db.frames[j].name # name}
    IN  \E i \in hits : \E p \in Range(db.frames[i].pdus) : \E c \in Range(p.sigs) : c.sig = sig

NoTable == [order |-> <<>>, messages |-> <<>>]

\* The message of a name: the first in the order of the files.
MessageByName(table, name) ==
    LET hits == {i \in DOMAIN table.order : table.messages[table.order[i]].name = name}
    IN  IF hits = {} THEN None ELSE <<table.order[CHOOSE i \in hits : \A j \in hits : i <= j]>>

FrRead(r) == IF r.bus \in DOMAIN frDbs THEN FrSlotOf(frDbs[r.bus], r.sig) ELSE None
FrNamedRead(r) ==
    LET at == FrBusByName(r.cluster)
        slot == FrSlotOf(frDbs[at[1]], r.sig)
    IN  IF at = None \/ (at # None /\ slot = None) THEN None ELSE at \o slot
EthNamedRead(r) ==
    LET at == EthBusByName(r.cluster)
    IN  IF at = None THEN None ELSE IF EthSignalCheck(ethDbs[at[1]], r.frame, r.sig) THEN at ELSE None

RefsOf(kind) == {r \in Refs : r.kind = kind}
FrReads == [r \in RefsOf("fr") |-> FrRead(r)] @@ [r \in RefsOf("frName") |-> FrNamedRead(r)]
EthReads == [r \in RefsOf("ethName") |-> EthNamedRead(r)]
CanReads(table) == [r \in RefsOf("msg") |-> MessageByName(table, r.name)]
StartReads == FrReads @@ EthReads @@ CanReads(canTable)

\* The same from the model, as a running script has them looked up after a
\* change of the bus's ARXML files.
ModelReads(model) ==
    [r \in RefsOf("msg") |->
       LET hits == {k \in DOMAIN model.frames : model.frames[k].name = r.name}
       IN  IF hits = {} THEN None ELSE <<model.frames[CHOOSE k \in hits : TRUE].at>>]

Reread(now) == reads' = IF running THEN now @@ reads ELSE reads

\* The page stops a run before it edits the files of some protocols.
Editable(kind) == running => kind \notin StopsFirst

(* ------------------------------- FlexRay -------------------------------- *)

PushFrDbs(dbs) == /\ frDbs' = dbs
                  /\ frModels' = [b \in DOMAIN dbs |-> ImportFrDb(dbs[b])]
                  /\ Reread(FrReads')

Put(f, b, x) == (b :> x) @@ f
Drop(f, b) == [c \in DOMAIN f \ {b} |-> f[c]]

EnsureFlexrayBus(b) ==
    /\ b \notin DOMAIN frDbs
    /\ PushFrDbs(Put(frDbs, b, NoDb))
    /\ frSources' = (IF b \in DOMAIN frSources THEN frSources ELSE Put(frSources, b, <<>>))
    /\ frTaken' = Put(frTaken, b, <<>>)
    /\ UNCHANGED frWatched

FrListed(b) == IF b \in DOMAIN frSources THEN frSources[b] ELSE <<>>

AddFrDescription(b, p) ==
    /\ b \notin frWatched /\ p \notin Range(FrListed(b)) /\ Parsed(disk[p])
    /\ FrListed(b) # <<>> => SameTiming(frDbs[b], disk[p])
    /\ PushFrDbs(Put(frDbs, b, IF FrListed(b) # <<>> THEN FrMerge(frDbs[b], disk[p]) ELSE disk[p]))
    /\ frSources' = Put(frSources, b, Append(FrListed(b), p))
    /\ frTaken' = Put(frTaken, b, IF FrListed(b) # <<>> THEN Append(frTaken[b], disk[p]) ELSE <<disk[p]>>)
    /\ UNCHANGED frWatched

RemoveFrBus(b) ==
    /\ PushFrDbs(Drop(frDbs, b))
    /\ frSources' = Drop(frSources, b) /\ frTaken' = Drop(frTaken, b)
    /\ frWatched' = frWatched \ {b}

\* Merged again from the files that are left, as they are now.  Files whose
\* timing differs take the bus with them.
RebuildFr(b, list) ==
    LET texts == Readable(Texts(list))
    IN  IF texts # <<>> /\ \A i \in DOMAIN texts : SameTiming(texts[1], texts[i])
        THEN /\ PushFrDbs(Put(frDbs, b, FoldLeft(FrMerge, texts[1], Tail(texts))))
             /\ frSources' = Put(frSources, b, list) /\ frTaken' = Put(frTaken, b, texts)
             /\ UNCHANGED frWatched
        ELSE RemoveFrBus(b)

RemoveFrDescription(b, p) ==
    LET list == Without(FrListed(b), p)
    IN  /\ b \notin frWatched /\ p \in Range(FrListed(b))
        /\ IF list = <<>>
           THEN /\ PushFrDbs(Put(frDbs, b, NoDb))
                /\ frSources' = Put(frSources, b, list) /\ frTaken' = Put(frTaken, b, <<>>)
                /\ UNCHANGED frWatched
           ELSE RebuildFr(b, list)

\* A port is configured from the bus's first file and taken off again.
SetFrWatch(b) ==
    /\ FrListed(b) # <<>>
    /\ frWatched' = (IF b \in frWatched THEN frWatched \ {b} ELSE frWatched \cup {b})
    /\ UNCHANGED <<frSources, frDbs, frModels, frTaken, reads>>

FrNext ==
    /\ Editable("fr")
    /\ \E b \in BusIds :
         \/ EnsureFlexrayBus(b)
         \/ \E p \in FilesOf["fr"] : AddFrDescription(b, p) \/ RemoveFrDescription(b, p)
         \/ b \in DOMAIN frDbs /\ RemoveFrBus(b)
         \/ SetFrWatch(b)
    /\ UNCHANGED <<disk, writes, running, ethVars, canVars>>

(* ------------------------------- Ethernet ------------------------------- *)

\* The services of all the files as they are now, each with its buses.
Catalog(sources) ==
    LET on(b) == UNION {disk[p].services : p \in {q \in Range(sources[b]) : Parsed(disk[q])}}
    IN  [s \in UNION {on(b) : b \in DOMAIN sources} |-> {b \in DOMAIN sources : s \in on(b)}]

EthRuntimeBare(db, b, services) == ImportEthDb(db)

\* A rebuilt model has its bus's services again.
EthRuntime(db, b, services) ==
    [ImportEthDb(db) EXCEPT !.services = {s \in DOMAIN services : b \in services[s]}]

PushEthDbs(dbs, services) ==
    /\ ethDbs' = dbs /\ catalog' = services
    /\ ethModels' = [b \in DOMAIN dbs |-> EthRuntime(dbs[b], b, services)]
    /\ Reread(EthReads')

EnsureEthBus(b) ==
    /\ b \notin DOMAIN ethDbs
    /\ PushEthDbs(Put(ethDbs, b, NoDb), catalog)
    /\ ethSources' = (IF b \in DOMAIN ethSources THEN ethSources ELSE Put(ethSources, b, <<>>))
    /\ ethTaken' = Put(ethTaken, b, <<>>)

EthListed(b) == IF b \in DOMAIN ethSources THEN ethSources[b] ELSE <<>>

AddEthDescription(b, p) ==
    LET sources == Put(ethSources, b, Append(EthListed(b), p))
        bound == EthListed(b) # <<>>
    IN  /\ p \notin Range(EthListed(b)) /\ Parsed(disk[p])
        /\ ethSources' = sources
        /\ PushEthDbs(Put(ethDbs, b, IF bound THEN EthMerge(ethDbs[b], EthParse(disk[p])) ELSE EthParse(disk[p])), Catalog(sources))
        /\ ethTaken' = Put(ethTaken, b, IF bound THEN Append(ethTaken[b], disk[p]) ELSE <<disk[p]>>)

RemoveEthBus(b) ==
    /\ ethSources' = Drop(ethSources, b) /\ ethTaken' = Drop(ethTaken, b)
    /\ PushEthDbs(Drop(ethDbs, b), Catalog(Drop(ethSources, b)))

RemoveEthDescription(b, p) ==
    LET list == Without(EthListed(b), p)
        sources == Put(ethSources, b, list)
        texts == Readable(Texts(list))
    IN  /\ p \in Range(EthListed(b))
        /\ IF list # <<>> /\ texts = <<>>
           THEN RemoveEthBus(b)
           ELSE /\ ethSources' = sources /\ ethTaken' = Put(ethTaken, b, texts)
                /\ PushEthDbs(Put(ethDbs, b, IF list = <<>> THEN NoDb ELSE FoldLeft(EthMerge, EthTexts(texts)[1], Tail(EthTexts(texts)))),
                              Catalog(sources))

EthNext ==
    /\ Editable("eth")
    /\ \E b \in BusIds :
         \/ EnsureEthBus(b)
         \/ \E p \in FilesOf["eth"] : AddEthDescription(b, p) \/ RemoveEthDescription(b, p)
         \/ b \in DOMAIN ethDbs /\ RemoveEthBus(b)
    /\ UNCHANGED <<disk, writes, running, frVars, canVars>>

(* --------------------------------- CAN ---------------------------------- *)

\* One DBC file's table, and a further one folded into it.
TableOf(text) == [order |-> [i \in DOMAIN text.frames |-> text.frames[i].at],
                  messages |-> [id \in {f.at : f \in Range(text.frames)} |->
                                  LET f == text.frames[CHOOSE i \in DOMAIN text.frames : text.frames[i].at = id]
                                  IN  [name |-> f.name, sigs |-> PduSignals(text, f.pdus[1].pdu)]]]
Absorb(primary, extra) ==
    [order |-> FirstWins(primary.order, extra.order, LAMBDA id : id),
     messages |-> primary.messages @@ extra.messages]

\* The table's messages, then the ARXML files' elements.
RebuildCanModel(table, xml) == IF xml = <<>> THEN ImportTable(table) ELSE MergeFrom(ImportTable(table), xml[1])

\* Every file of the list is read again; one that cannot be is passed over.
\* The script's names are looked up only if one could.
LoadChannel(list) ==
    LET texts == Readable(Texts(list))
        tables == [i \in DOMAIN texts |-> TableOf(texts[i])]
        table == IF texts = <<>> THEN NoTable ELSE FoldLeft(Absorb, tables[1], Tail(tables))
    IN  /\ canPaths' = list /\ canSums' = texts
        /\ canTable' = table /\ canModel' = RebuildCanModel(table, canXml)
        /\ IF texts = <<>> THEN UNCHANGED reads ELSE Reread(CanReads(table))
        /\ UNCHANGED <<canArxml, canListed, canXml, xmlTaken>>

AddCanDbc(p) == p \notin Range(canPaths) /\ LoadChannel(Append(canPaths, p))
RemoveCanDbc(p) == p \in Range(canPaths) /\ LoadChannel(Without(canPaths, p))

\* The core looks now and then whether a file it has read has changed.
MaybeReloadChangedDbcs ==
    /\ Len(canPaths) = Len(canSums)
    /\ \E i \in DOMAIN canPaths : disk[canPaths[i]] \notin {Gone, canSums[i]}
    /\ LoadChannel(canPaths)
    /\ UNCHANGED <<disk, writes, running, frVars, ethVars>>

SetChannelModel(xml, list) ==
    /\ canXml' = xml /\ canListed' = list
    /\ canModel' = RebuildCanModel(canTable, xml)
    /\ Reread(ModelReads(canModel'))
    /\ UNCHANGED dbcVars

\* Imported again from every file; one that cannot be read stops it.
RebuildCanXml(list) ==
    LET texts == Texts(list)
        models == [i \in DOMAIN texts |-> ImportCluster(texts[i])]
    IN  /\ \A i \in DOMAIN texts : Parsed(texts[i])
        /\ SetChannelModel(IF list = <<>> THEN <<>> ELSE <<FoldLeft(MergeFrom, models[1], Tail(models))>>, list)
        /\ xmlTaken' = texts

LoadCanArxml(p) ==
    /\ p \notin Range(canArxml)
    /\ canArxml' = Append(canArxml, p)
    /\ RebuildCanXml(Append(canArxml, p))

RemoveCanArxml(p) ==
    /\ p \in Range(canArxml)
    /\ canArxml' = Without(canArxml, p)
    /\ \/ RebuildCanXml(Without(canArxml, p))
       \/ /\ \E q \in Range(Without(canArxml, p)) : ~Parsed(disk[q])
          /\ UNCHANGED <<dbcVars, canListed, canXml, canModel, xmlTaken, reads>>

ReloadArxmlModels == RebuildCanXml(canArxml) /\ UNCHANGED canArxml

CanNext ==
    /\ Editable("can")
    /\ \/ \E p \in FilesOf["dbc"] : AddCanDbc(p) \/ RemoveCanDbc(p)
       \/ \E p \in FilesOf["xml"] : LoadCanArxml(p) \/ RemoveCanArxml(p)
       \/ ReloadArxmlModels
    /\ UNCHANGED <<disk, writes, running, frVars, ethVars>>

(* ------------------------------- the rest ------------------------------- *)

\* Somebody saves a file, or is in the middle of it.
WriteFile ==
    /\ writes < MaxWrites /\ writes' = writes + 1
    /\ \E p \in Paths, t \in UNION Range(TextsOf) :
         t \in TextsOf[p] /\ t # disk[p] /\ disk' = [disk EXCEPT ![p] = t]
    /\ UNCHANGED <<frVars, ethVars, canVars, running, reads>>

StartRun == /\ ~running /\ running' = TRUE /\ reads' = StartReads
            /\ UNCHANGED <<disk, writes, frVars, ethVars, canVars>>
StopRun == /\ running /\ running' = FALSE /\ reads' = <<>>
           /\ UNCHANGED <<disk, writes, frVars, ethVars, canVars>>

DescInit ==
    /\ disk \in [Paths -> UNION Range(TextsOf)] /\ \A p \in Paths : disk[p] \in TextsOf[p]
    /\ writes = 0 /\ running = FALSE /\ reads = <<>>
    /\ frSources = <<>> /\ frDbs = <<>> /\ frModels = <<>> /\ frWatched = {} /\ frTaken = <<>>
    /\ ethSources = <<>> /\ ethDbs = <<>> /\ ethModels = <<>> /\ catalog = <<>> /\ ethTaken = <<>>
    /\ canPaths = <<>> /\ canSums = <<>> /\ canTable = NoTable
    /\ canArxml = <<>> /\ canListed = <<>> /\ canXml = <<>> /\ canModel = NoModel /\ xmlTaken = <<>>

DescNext == FrNext \/ EthNext \/ CanNext \/ MaybeReloadChangedDbcs \/ WriteFile \/ StartRun \/ StopRun

(* ------------------------------ properties ------------------------------ *)

\* The first of the texts to declare it under its key.
FirstOf(lists, Key(_), k) ==
    LET all == FlattenSeq(lists) IN all[CHOOSE i \in DOMAIN all : Key(all[i]) = k /\ \A j \in 1 .. i - 1 : Key(all[j]) # k]

MergedFirst(db, texts, Key(_)) ==
    LET pdus == [i \in DOMAIN texts |-> texts[i].pdus]
        frames == [i \in DOMAIN texts |-> texts[i].frames]
    IN  /\ {p.name : p \in Range(db.pdus)} = {p.name : p \in Range(FlattenSeq(pdus))}
        /\ \A p \in Range(db.pdus) : p = FirstOf(pdus, PduKey, p.name)
        /\ {Key(f) : f \in Range(db.frames)} = {Key(f) : f \in Range(FlattenSeq(frames))}
        /\ \A f \in Range(db.frames) : f = FirstOf(frames, Key, Key(f))

(* What a FlexRay bus knows is what its files say, of two declarations the   *)
(* first, however often files were bound, taken off and bound again; files   *)
(* of another timing are never mixed in; and the model carries each frame's  *)
(* signals at the bits its description gives them (channel.rs                *)
(* add_fr_description, rebuild_fr_from_sources; fr_db.rs merge; import.rs).  *)
FrBusesHonest ==
    \A b \in DOMAIN frDbs :
      /\ MergedFirst(frDbs[b], frTaken[b], FrFrameKey)
      /\ \A t \in Range(frTaken[b]) : SameTiming(frDbs[b], t)
      /\ IntegrityIssues(frModels[b]) = {}
      /\ \A f \in Range(frDbs[b].frames) :
           /\ frModels[b].frames[<<"fr", f.name>>].at = f.at
           /\ ModelShows(frModels[b], <<"fr", f.name>>) = FrameChildren(frDbs[b], f)

(* The same of an Ethernet bus, and its model offers the services of its     *)
(* files and no others, whichever was rebuilt last (channel.rs               *)
(* rebuild_someip_services, bus.rs rebuild_eth_models, adopt_someip_services). *)
EthBusesHonest ==
    /\ \A s \in DOMAIN catalog : catalog[s] # {} /\ catalog[s] \subseteq DOMAIN ethDbs
    /\ \A b \in DOMAIN ethDbs :
         /\ MergedFirst(ethDbs[b], EthTexts(ethTaken[b]), EthFrameKey)
         /\ IntegrityIssues(ethModels[b]) = {}
         /\ ethModels[b].services = {s \in DOMAIN catalog : b \in catalog[s]}
         /\ \A f \in Range(ethDbs[b].frames) : \A p \in Range(f.pdus) : \A c \in Range(p.sigs) :
              [sig |-> c.sig, at |-> p.at + c.at] \in ModelShows(ethModels[b], <<"eth", f.name>>)

(* A CAN bus decodes a message as the first of its DBC files declares it,    *)
(* and a frame of an ARXML file as that file does, whatever else is bound;   *)
(* what was taken off is gone (bus.rs load_channel, rebuild_can_model;       *)
(* channel.rs rebuild_can_xml).                                              *)
CanBusHonest ==
    LET tables == [i \in DOMAIN canSums |-> canSums[i].frames]
        Id(f) == f.at
    IN  /\ canListed = canArxml
        /\ IntegrityIssues(canModel) = {}
        /\ DOMAIN canModel.frames = {<<"dbc", f.at>> : f \in Range(FlattenSeq(tables))}
             \cup UNION {{<<"xml", f.name>> : f \in Range(t.frames)} : t \in Range(xmlTaken)}
        /\ \A f \in Range(FlattenSeq(tables)) :
             canModel.frames[<<"dbc", f.at>>].name = FirstOf(tables, Id, f.at).name
        /\ \A t \in Range(xmlTaken) : \A f \in Range(t.frames) :
             /\ canModel.frames[<<"xml", f.name>>].at = f.at
             /\ ModelShows(canModel, <<"xml", f.name>>) = ModelShows(ImportCluster(t), <<"xml", f.name>>)

(* A script that runs while descriptions change reads what one started now   *)
(* would (node.rs refresh_named_with, refresh_fr_named, refresh_eth_named).  *)
ReadsFollow == running => reads = StartReads

DescriptionsHonest == FrBusesHonest /\ EthBusesHonest /\ CanBusHonest /\ ReadsFollow
=============================================================================
