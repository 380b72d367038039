------------------------------- MODULE Curves -------------------------------
(* The sampled histories of the subscribed signals and the curves computed   *)
(* from them (src/src/observe.rs SampleCache and Subscription, src/src/bus.rs *)
(* set_derived and evaluate_derived).                                        *)
EXTENDS Integers, FiniteSets, FiniteSetsExt, SequencesExt

CONSTANTS
  Sources,      \* the keys of measured signals
  Label,        \* [key -> [bus, name]]: what a reference may call a source
  DefLists,     \* the lists of definitions the editor may save
  SampleValues, \* values of samples (bound)
  Stride,       \* the downsampling stride
  FastGap,      \* the smallest gap before a changed value (1 ms)
  SealPoints,   \* points of a sealed chunk
  HistorySpan,  \* the retention span
  LastStamp,    \* stamps (bound)
  MaxEdits,     \* subscriptions, definitions and restarts (bound)
  Late          \* whether a step may bring a stamp of an earlier step

VARIABLES clock, subs, derived, edits,
          used   \* history: the sources each curve was swept from since its reset

vars == <<clock, subs, derived, edits, used>>

NoValue == -1
NoPin == <<>>
NoSweep == -1

(* A cache: sealed chunks of points <<stamp, value>>, then an open tail.     *)
Empty == [chunks |-> <<>>, tail |-> <<>>]
Points(cache) == FlattenSeq(cache.chunks) \o cache.tail

PushPoint(cache, point) ==
  LET tail == Append(cache.tail, point) IN
  IF Len(tail) < SealPoints THEN [cache EXCEPT !.tail = tail]
  ELSE [chunks |-> Append(cache.chunks, tail), tail |-> <<>>]

Install(points) ==
  LET chunk(i) == SubSeq(points, (i - 1) * SealPoints + 1,
                         Min({i * SealPoints, Len(points)}))
  IN [chunks |-> [i \in 1..((Len(points) + SealPoints - 1) \div SealPoints) |-> chunk(i)],
      tail |-> <<>>]

(* Where a point belongs, and whether it keeps its distance there.           *)
Before(points, t) == Cardinality({i \in DOMAIN points : points[i][1] <= t})
Fits(points, t, gap) ==
  LET i == Before(points, t) IN
  /\ i > 0 => t >= points[i][1] + gap
  /\ i < Len(points) => t + gap <= points[i + 1][1]

Merge(cache, point, gap) ==
  LET points == Points(cache)
      t == point[1]
  IN IF points = <<>> \/ t >= Last(points)[1] + gap THEN PushPoint(cache, point)
     ELSE Install(IF Fits(points, t, gap) THEN InsertAt(points, Before(points, t) + 1, point)
                  ELSE points)

(* range: the chunks and the tail, each cut to the window.                   *)
Window(points, from, to) == SelectSeq(points, LAMBDA p : p[1] \in from..to)
RangeOf(cache, from, to) ==
  FlattenSeq([i \in DOMAIN cache.chunks |-> Window(cache.chunks[i], from, to)])
    \o Window(cache.tail, from, to)

(* at: the newest point at or before a stamp, by whole chunks first.         *)
HeldIn(points, t, before) ==
  LET i == Before(points, t) IN IF i > 0 THEN points[i][2] ELSE before
(* Mutant: a query between the chunks and the tail forgets the chunks.       *)
AtOpenOnly(cache, t) ==
  LET full == Cardinality({i \in DOMAIN cache.chunks : Last(cache.chunks[i])[1] <= t})
  IN HeldIn(IF full < Len(cache.chunks) THEN cache.chunks[full + 1] ELSE cache.tail, t, NoValue)
At(cache, t) ==
  LET full == Cardinality({i \in DOMAIN cache.chunks : Last(cache.chunks[i])[1] <= t})
      lastFull == IF full > 0 THEN Last(cache.chunks[full])[2] ELSE NoValue
  IN HeldIn(IF full < Len(cache.chunks) THEN cache.chunks[full + 1] ELSE cache.tail, t, lastFull)

Fresher(points, horizon) == SelectSeq(points, LAMBDA p : p[1] >= horizon)
TrimOldest(cache) ==
  LET points == Points(cache)
      newest == Last(points)[1]
      horizon == IF newest > HistorySpan THEN newest - HistorySpan ELSE 0
      left == SelectSeq(cache.chunks, LAMBDA c : Last(c)[1] >= horizon)
  IN IF points = <<>> THEN cache
     ELSE IF left = <<>> THEN [chunks |-> <<>>, tail |-> Fresher(cache.tail, horizon)]
     ELSE [chunks |-> <<Fresher(Head(left), horizon)>> \o Tail(left), tail |-> cache.tail]

(* push_sample: a change of value passes the stride.                         *)
GapOf(points, value) ==
  IF points = <<>> \/ Last(points)[2] # value THEN Min({Stride, FastGap}) ELSE Stride
PushSample(cache, point) == TrimOldest(Merge(cache, point, GapOf(Points(cache), point[2])))

-----------------------------------------------------------------------------
With(s, key) == IF key \in DOMAIN s THEN s ELSE [k \in DOMAIN s \cup {key} |-> IF k = key THEN Empty ELSE s[k]]
Without(s, key) == [k \in DOMAIN s \ {key} |-> s[k]]

Curve(def) == <<def.id, def.name>>

(* A reference names the pinned source, or the one subscribed key its text   *)
(* fits.                                                                     *)
Fit(ref, key) ==
  IF key \in Sources
  THEN Label[key].name = ref.name /\ (ref.bus # "" => Label[key].bus = ref.bus)
  ELSE key[2] = ref.name /\ ref.bus \in {"", "Derived"}
Candidates(s, def, ref) == {key \in DOMAIN s : key # Curve(def) /\ Fit(ref, key)}
Resolved(s, def, i) ==
  IF def.pins[i] # NoPin THEN {def.pins[i]}
  ELSE LET found == Candidates(s, def, def.refs[i]) IN IF Cardinality(found) = 1 THEN found ELSE {}

Resolves(s, def) == \A i \in DOMAIN def.refs : Resolved(s, def, i) # {}
SourcesOf(s, def) == [i \in DOMAIN def.refs |-> CHOOSE key \in Resolved(s, def, i) : TRUE]

(* An expression over its sources: their sum, none while one has no value.   *)
Value(s, keys, t) ==
  LET held(key) == IF key \in DOMAIN s THEN At(s[key], t) ELSE NoValue
  IN IF \E i \in DOMAIN keys : held(keys[i]) = NoValue THEN NoValue
     ELSE FoldLeft(LAMBDA sum, key : sum + held(key), 0, keys)

StampsIn(s, keys, since) ==
  UNION {{p[1] : p \in ToSet(RangeOf(s[key], since, LastStamp))} : key \in ToSet(keys) \cap DOMAIN s}

(* One sweep of a curve: the stamps since the last sweep, in order.          *)
Swept(s, keys, since) ==
  LET times == SetToSortSeq(StampsIn(s, keys, since), <)
      points == [i \in DOMAIN times |-> <<times[i], Value(s, keys, times[i])>>]
  IN SelectSeq(points, LAMBDA p : p[2] # NoValue)

(* evaluate_derived: the curves are swept in the order of their list, so a   *)
(* curve sees what this sweep gave an earlier one.                           *)
Sweep(st, i) ==
  LET def == st.derived[i].def
      keys == SourcesOf(st.subs, def)
      since == st.derived[i].last + 1
      curve == Curve(def)
      swept == FoldLeft(PushSample, st.subs[curve], Swept(st.subs, keys, since))
  IN IF ~Resolves(st.subs, def) THEN st
     ELSE IF StampsIn(st.subs, keys, since) = {} THEN st
     ELSE [subs |-> [st.subs EXCEPT ![curve] = swept],
           derived |-> [st.derived EXCEPT ![i].last = Max(StampsIn(st.subs, keys, since))],
           used |-> [st.used EXCEPT ![def.id] = @ \cup {keys}]]

EvaluateDerived(s, d, u) ==
  FoldLeft(Sweep, [subs |-> s, derived |-> d, used |-> u], [i \in DOMAIN d |-> i])

Evaluate(s, d, u) ==
  LET st == EvaluateDerived(s, d, u) IN
  subs' = st.subs /\ derived' = st.derived /\ used' = st.used

-----------------------------------------------------------------------------
(* step: samples of the subscribed sources, then the curves.                 *)
Step(to, batch) ==
  /\ clock' = to
  /\ Evaluate([key \in DOMAIN subs |->
                 IF key \in DOMAIN batch THEN PushSample(subs[key], batch[key]) ELSE subs[key]],
              derived, used)
  /\ UNCHANGED edits

Edited == edits < MaxEdits /\ edits' = edits + 1 /\ UNCHANGED clock

Subscribe(key) == Edited /\ key \notin DOMAIN subs /\ Evaluate(With(subs, key), derived, used)

(* Curves that were swept from a source keep what it gave them.              *)
Unsubscribe(key) ==
  /\ Edited /\ key \in DOMAIN subs
  /\ subs' = Without(subs, key)
  /\ used' = [id \in DOMAIN used |->
                IF \E keys \in used[id] : key \in ToSet(keys) THEN used[id] \cup {<<>>} ELSE used[id]]
  /\ UNCHANGED derived

(* set_derived: a definition whose expression and name are unchanged keeps   *)
(* its curve and its place in it, others start a fresh one.                  *)
OldOf(def) == {r \in ToSet(derived) : r.def.id = def.id}
KeptOf(def) == {r \in OldOf(def) : r.def.refs = def.refs /\ r.def.name = def.name}
SetDerived(defs) ==
  LET curves == {Curve(def) : def \in ToSet(defs)}
      fresh == {Curve(def) : def \in {d \in ToSet(defs) : KeptOf(d) = {}}}
      place(def) == IF KeptOf(def) = {} THEN NoSweep ELSE (CHOOSE r \in KeptOf(def) : TRUE).last
      freshIds == {c[1] : c \in fresh}
  IN /\ Edited
     /\ Evaluate([key \in (DOMAIN subs \cap Sources) \cup curves |->
                    IF key \in fresh \/ key \notin DOMAIN subs THEN Empty ELSE subs[key]],
                 [i \in DOMAIN defs |-> [def |-> defs[i], last |-> place(defs[i])]],
                 [id \in DOMAIN used |-> IF id \in freshIds \/ id \notin {c[1] : c \in curves}
                                         THEN {} ELSE used[id]])

(* begin_run: every history and every place in it starts over.               *)
Restart ==
  /\ edits < MaxEdits /\ edits' = edits + 1
  /\ clock' = 0
  /\ subs' = [key \in DOMAIN subs |-> Empty]
  /\ derived' = [i \in DOMAIN derived |-> [derived[i] EXCEPT !.last = NoSweep]]
  /\ used' = [id \in DOMAIN used |-> {}]

(* A project is open whose windows show every source.                       *)
Ids == UNION {{def.id : def \in ToSet(defs)} : defs \in DefLists}

Init ==
  /\ clock = 0 /\ edits = 0
  /\ subs = [key \in Sources |-> Empty]
  /\ derived = <<>>
  /\ used = [id \in Ids |-> {}]

Next ==
  \/ \E to \in (clock + 1)..LastStamp : \E heard \in SUBSET (DOMAIN subs \cap Sources) :
       \E batch \in [heard -> ((IF Late THEN 1 ELSE clock + 1)..to) \X SampleValues] : Step(to, batch)
  \/ \E key \in Sources : Subscribe(key) \/ Unsubscribe(key)
  \/ \E defs \in DefLists : SetDerived(defs)
  \/ Restart

-----------------------------------------------------------------------------
(* Every curve of a definition has its subscription, and no other.           *)
TypeOK ==
  /\ clock \in 0..LastStamp /\ edits \in 0..MaxEdits
  /\ DOMAIN subs \ Sources = {Curve(r.def) : r \in ToSet(derived)}

(* However a cache was filled, resealed and trimmed, its points ascend, no   *)
(* sealed chunk is empty, and a query by chunk answers as one over the whole *)
(* history would (observe.rs SampleCache).                                   *)
CacheHonest ==
  \A key \in DOMAIN subs :
    LET cache == subs[key]
        points == Points(cache)
    IN /\ \A i \in 1..(Len(points) - 1) : points[i][1] < points[i + 1][1]
       /\ \A i \in DOMAIN cache.chunks : cache.chunks[i] # <<>>
       /\ \A t \in 0..LastStamp :
            /\ At(cache, t) = HeldIn(points, t, NoValue)
            /\ RangeOf(cache, t, LastStamp) = Window(points, t, LastStamp)
       /\ points # <<>> => Last(points)[1] <= Head(points)[1] + HistorySpan

Undisturbed(r) == used[r.def.id] # {} /\ \E keys \in used[r.def.id] : used[r.def.id] = {keys} /\ keys # <<>>
SweptFrom(r) == CHOOSE keys \in used[r.def.id] : TRUE

(* A curve whose sources have stayed is what its expression says of their    *)
(* histories at that stamp (bus.rs evaluate_derived).                        *)
CurveHonest ==
  \A r \in {q \in ToSet(derived) : Undisturbed(q)} :
    \A p \in ToSet(Points(subs[Curve(r.def)])) :
      Value(subs, SweptFrom(r), p[1]) \in {p[2], NoValue}

(* And it misses no change of a source: at each stamp it was swept over it   *)
(* holds the value of the expression, but for a change within the smallest   *)
(* gap of a point (push_sample).                                             *)
CurveComplete ==
  \A r \in {q \in ToSet(derived) : Undisturbed(q)} :
    LET points == Points(subs[Curve(r.def)]) IN
    \A t \in {s \in StampsIn(subs, SweptFrom(r), 0) : s <= r.last} :
      \/ Value(subs, SweptFrom(r), t) \in {NoValue, At(subs[Curve(r.def)], t)}
      \/ \E p \in ToSet(points) : p[1] < t /\ t < p[1] + Min({Stride, FastGap})

-----------------------------------------------------------------------------
(* How the browser follows the charts (src/src/web.rs SignalStore and the    *)
(* state request, web/src/app.tsx): every plotted signal has a buffer of     *)
(* stamped samples, all under one epoch, and a poll brings a seed, or the    *)
(* samples after the newest stamp of the last poll.                          *)
CONSTANTS Series,    \* the plotted signals
          MaxT,      \* stamps of samples (bound)
          MaxRebuilds, \* rebuilt buffers (bound)
          PointCap,  \* SIGNAL_CAP
          Ordered    \* whether what a sync brings is later than all it brought before

VARIABLES charts, view, rebuilds
chartVars == <<charts, view, rebuilds>>

(* The charts: the samples of each series, by stamp, oldest first.           *)
LastT(points) == IF points = <<>> THEN 0 ELSE points[Len(points)]
MaxStamp == Max({0} \cup {LastT(charts.points[s]) : s \in Series})
Earliest ==
  LET firsts == {charts.points[s][1] : s \in {q \in Series : charts.points[q] # <<>>}}
  IN IF firsts = {} THEN MaxStamp ELSE Min(firsts)

CappedPoints(points) ==
  IF Len(points) <= PointCap THEN points ELSE SubSeq(points, Len(points) - PointCap + 1, Len(points))

(* sync: a series may have gained a sample after its last one.  Of one bus   *)
(* the samples come in order; between streams they need not.                 *)
SyncCharts(gained) ==
  /\ gained # <<>>
  /\ \A s \in DOMAIN gained : gained[s] > (IF Ordered THEN MaxStamp ELSE LastT(charts.points[s]))
  /\ charts' = [charts EXCEPT !.points =
                  [s \in Series |-> IF s \in DOMAIN gained
                                    THEN CappedPoints(Append(@[s], gained[s])) ELSE @[s]]]
  /\ UNCHANGED <<rebuilds, view>>

(* A lane is added, moved or removed, or the clock of a history went back:   *)
(* the buffers are rebuilt from the history of what is now on under a new    *)
(* epoch.                                                                    *)
RebuildCharts(t) ==
  /\ rebuilds < MaxRebuilds /\ rebuilds' = rebuilds + 1
  /\ charts' = [epoch |-> charts.epoch + 1, points |-> [s \in Series |-> IF t = 0 THEN <<>> ELSE <<t>>]]
  /\ UNCHANGED view

NewerAgain(points, since) == SelectSeq(points, LAMBDA t : t >= since)

Newer(points, since) == SelectSeq(points, LAMBDA t : t > since)

SyncedView == view.epoch = charts.epoch /\ view.since \in Earliest..MaxStamp

PollCharts ==
  /\ view' = [epoch |-> charts.epoch, since |-> MaxStamp,
              points |-> [s \in Series |->
                IF SyncedView THEN CappedPoints(view.points[s] \o Newer(charts.points[s], view.since))
                ELSE charts.points[s]]]
  /\ UNCHANGED <<rebuilds, charts>>

ChartsInit ==
  /\ rebuilds = 0
  /\ charts = [epoch |-> 1, points |-> [s \in Series |-> <<>>]]
  /\ view = [epoch |-> 0, since |-> 0, points |-> [s \in Series |-> <<>>]]

ChartsNext ==
  \/ \E which \in SUBSET Series : \E gained \in [which -> 1..MaxT] : SyncCharts(gained)
  \/ \E t \in 0..1 : RebuildCharts(t)
  \/ PollCharts

ChartsSpec == ChartsInit /\ [][ChartsNext]_chartVars

-----------------------------------------------------------------------------
(* The state keeps its shape.                                                *)
ChartsTyped ==
  /\ rebuilds \in 0..MaxRebuilds
  /\ \A s \in Series : Len(charts.points[s]) <= PointCap

(* A view that has polled draws what the buffers hold, no sample missing and *)
(* none twice (web.rs SignalStore after, app.tsx).                           *)
ViewDrawsAll ==
  view.epoch = charts.epoch /\ view.since = MaxStamp => view.points = charts.points
=============================================================================
