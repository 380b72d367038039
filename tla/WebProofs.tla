----------------------------- MODULE WebProofs -----------------------------
(***************************************************************************)
(* What a web session shows, samples and records stays in step, for any    *)
(* project, any windows and any number of commands, as long as the pages   *)
(* command what they were shown last.  The rows of a trace reach the       *)
(* archive, the merged log and the browser, each once.                     *)
(***************************************************************************)
EXTENDS WebSession, TraceFeed, FiniteSetTheorems, SequenceTheorems, FunctionTheorems,
        NaturalsInduction, WellFoundedInduction, TLAPS

-----------------------------------------------------------------------------
(* The invariant                                                            *)

\* A session whose pages keep up, whose project files can be read and whose
\* rules are edited with payloads that parse.
Steady ==
    /\ MaxCommands \in Nat
    /\ "graphics" \notin Watchers
    /\ ~PageLags /\ ~OpenFails /\ ~BadPayloads

\* What a signal is, whatever it is called.
Id(key) == <<key[1], key[2]>>
Lane == [key : Signals, read : BOOLEAN]
Lanes == Seq(Lane)
Rows == Seq(Signals)

\* A signal has one lane at most, and one row.
LanesApart(ls) == \A i, j \in DOMAIN ls : Id(ls[i].key) = Id(ls[j].key) => i = j
RowsApart(keys) == \A p, q \in DOMAIN keys : Id(keys[p]) = Id(keys[q]) => p = q
PlottedFirst(ls) == \A i, j \in DOMAIN ls : i < j /\ ls[i].read => ls[j].read

\* What is plotted has its row, and what has a row and is still there is
\* plotted, in the order of the rows.
HasRow(ls, keys) ==
    \A i \in DOMAIN ls : ~ls[i].read => \E p \in DOMAIN keys : Id(keys[p]) = Id(ls[i].key)
Alive(key, n, d) == IsDerived(key) => n # "" /\ key[2] = d
HasLane(ls, keys, n, d) ==
    \A p \in DOMAIN keys : Alive(keys[p], n, d) =>
      \E i \in DOMAIN ls : ~ls[i].read /\ Id(ls[i].key) = Id(keys[p])
SameOrder(ls, keys) ==
    \A i, j \in DOMAIN ls : \A p, q \in DOMAIN keys :
      /\ i < j /\ ~ls[i].read /\ ~ls[j].read
      /\ Id(keys[p]) = Id(ls[i].key) /\ Id(keys[q]) = Id(ls[j].key)
      => p < q
Recorded(ls, keys, n, d) ==
    /\ ls \in Lanes /\ keys \in Rows
    /\ LanesApart(ls) /\ RowsApart(keys) /\ PlottedFirst(ls)
    /\ HasRow(ls, keys) /\ HasLane(ls, keys, n, d) /\ SameOrder(ls, keys)

\* A row of the definition that is there has its name.
Called(keys, n, d) ==
    \A key \in ToSet(keys) : IsDerived(key) /\ n # "" /\ key[2] = d => key[3] = n
\* No identity is used before it is given out.
Known(keys, top) == \A key \in ToSet(keys) : IsDerived(key) => key[2] <= top

\* A set of rows a project may hold.
Project(rs, n, d, top) ==
    /\ DOMAIN rs = Windows /\ \A w \in Windows : rs[w] \in Rows
    /\ RowsApart(rs["graphics"]) /\ Called(rs["graphics"], n, d)
    /\ Known(rs["graphics"], top)
    /\ n \in Names \cup {""} /\ d \in 0..top

Kept ==
    /\ served /\ commands \in 0..MaxCommands /\ live \subseteq Clusters
    /\ Project(rows, name, identity, commands)
    /\ Recorded(lanes, rows["graphics"], name, identity)
    /\ Project(saved.rows, saved.name, saved.identity, commands)
    /\ saved.live \subseteq Clusters
Published ==
    /\ ~lag => page = Keys
    /\ ~lag => \A i \in DOMAIN lanes : IsDerived(lanes[i].key) => lanes[i].key \in Definition
\* The core samples what is shown (V) and what is defined, and nothing else.
SampledBy(V, s, lv, def) ==
    /\ s \subseteq Signals /\ def \subseteq s
    /\ \A key \in V : ~IsDerived(key) /\ key[2] \in lv => key \in s
    /\ \A key \in s : IsDerived(key) \/ key \in V
Sampled == SampledBy(KeysOf(lanes) \cup Listed(rows), subs, live, Definition)
IInv == Kept /\ Published /\ Sampled

-----------------------------------------------------------------------------
(* Lists of which some elements stay, or to which one comes                 *)

\* f leads from a list to the places it was taken from, in their order.
Leads(f, left, at) ==
    /\ f \in [DOMAIN left -> at]
    /\ \A i, j \in DOMAIN left : i < j => f[i] < f[j]
    /\ \A k \in at : \E j \in DOMAIN left : f[j] = k
\* e came to s at position `at`.
Put(more, s, at, e) ==
    /\ DOMAIN more = 1 .. Len(s) + 1
    /\ \A j \in DOMAIN more : more[j] = IF j < at THEN s[j] ELSE IF j = at THEN e ELSE s[j - 1]

\* The places of the lanes, and of the rows, of other signals.
OtherLanes(ls, key) == {i \in DOMAIN ls : ls[i].key # key}
OtherRows(keys, key) == {i \in DOMAIN keys : keys[i] # key}
\* What a list then holds: what s held, and e.
Holds(more, s, e) ==
    /\ \A i \in DOMAIN s : \E j \in DOMAIN more : more[j] = s[i]
    /\ \E j \in DOMAIN more : more[j] = e
    /\ \A j \in DOMAIN more : more[j] = e \/ \E i \in DOMAIN s : more[j] = s[i]
\* The places f leads to are places of t, in the order of left.
Back(f, left, t, at) ==
    \A i, j \in DOMAIN left : /\ f[i] \in DOMAIN t /\ f[i] \in at
                              /\ (f[i] < f[j] => i < j) /\ (f[i] = f[j] => i = j)

\* A set of naturals that is not empty has a least one.
LEMMA LeastNat ==
    ASSUME NEW S \in SUBSET Nat, S # {}
    PROVE  \E m \in S : \A n \in S : m <= n
<1> DEFINE R == {ss \in Nat \X Nat : ss[1] < ss[2]}
<1>1. IsWellFoundedOn(R, Nat)
  BY NatLessThanWellFounded DEF OpToRel
<1>2. \A x, y \in Nat : x < y => <<x, y>> \in R
  OBVIOUS
<1> HIDE DEF R
<1>3. PICK m \in S : \A n \in S : ~(<<n, m>> \in R)
  BY <1>1, WFMin
<1>4. ASSUME NEW n \in S PROVE m <= n
  <2>1. ~(n < m)
    BY <1>2, <1>3
  <2> QED
    BY <2>1
<1> QED
  BY <1>4

\* The ranks of a set of positions enumerate it.
LEMMA NthEnumerates ==
    ASSUME NEW n \in Nat, NEW kept \in SUBSET (1 .. n)
    PROVE  /\ Cardinality(kept) \in Nat
           /\ \A j \in 1 .. Cardinality(kept) : NthOf(kept, j) \in kept
           /\ \A i, j \in 1 .. Cardinality(kept) : i < j => NthOf(kept, i) < NthOf(kept, j)
           /\ \A i \in kept : \E j \in 1 .. Cardinality(kept) : NthOf(kept, j) = i
           /\ \A j \in 1 .. Cardinality(kept) : Cardinality({h \in kept : h <= NthOf(kept, j)}) = j
<1> DEFINE Upto(x) == {h \in kept : h <= x}
           rank == [x \in kept |-> Cardinality(Upto(x))]
           size == Cardinality(kept)
<1>1. IsFiniteSet(kept) /\ size \in Nat
  <2>1. IsFiniteSet(1 .. n)
    BY FS_Interval
  <2> QED
    BY <2>1, FS_Subset, FS_CardinalityType
<1>2. ASSUME NEW x \in kept
      PROVE  IsFiniteSet(Upto(x)) /\ Cardinality(Upto(x)) \in 1 .. size
  <2>1. Upto(x) \in SUBSET kept /\ x \in Upto(x)
    BY <1>2
  <2>2. IsFiniteSet(Upto(x)) /\ Cardinality(Upto(x)) <= size
    BY <1>1, <2>1, FS_Subset
  <2>3. Cardinality(Upto(x)) \in Nat
    BY <2>2, FS_CardinalityType
  <2>4. Cardinality(Upto(x)) # 0
    BY <2>1, <2>2, FS_EmptySet
  <2> QED
    BY <1>1, <2>2, <2>3, <2>4
<1>3. ASSUME NEW x \in kept, NEW y \in kept, x < y
      PROVE  Cardinality(Upto(x)) < Cardinality(Upto(y))
  <2>0. x \in Int /\ y \in Int /\ \A h \in kept : h \in Int
    OBVIOUS
  <2>1. Upto(x) \subseteq Upto(y)
    <3>1. ASSUME NEW h \in Upto(x)
          PROVE  h \in kept /\ h <= y
      <4>1. h \in kept /\ h <= x
        OBVIOUS
      <4> QED
        BY <1>3, <2>0, <4>1
    <3> QED
      BY <3>1
  <2>4. y \in Upto(y) /\ ~(y <= x)
    BY <1>3, <2>0
  <2>5. y \notin Upto(x)
    BY <2>4
  <2>2. /\ Cardinality(Upto(x)) <= Cardinality(Upto(y))
        /\ Cardinality(Upto(x)) # Cardinality(Upto(y))
    BY <1>2, <2>1, <2>4, <2>5, FS_Subset
  <2> QED
    BY <1>1, <1>2, <2>2
<1>4. rank \in Injection(kept, 1 .. size)
  <2>1. rank \in [kept -> 1 .. size]
    BY <1>2
  <2>2. ASSUME NEW x \in kept, NEW y \in kept, x # y
        PROVE  rank[x] # rank[y]
    <3>1. x < y \/ y < x
      BY <2>2
    <3> QED
      BY <1>1, <1>2, <1>3, <3>1
  <2> HIDE DEF rank
  <2> QED
    BY <2>1, <2>2, Fun_IsInj
<1>5. \A j \in 1 .. size : \E i \in kept : rank[i] = j
  <2>1. IsFiniteSet(1 .. size) /\ Cardinality(1 .. size) = size
    BY <1>1, FS_Interval
  <2>2. rank \in Surjection(kept, 1 .. size)
    <3> HIDE DEF rank
    <3> QED
      BY <1>4, <2>1, FS_Injection
  <2> HIDE DEF rank, size
  <2> QED
    BY <2>2, Fun_SurjectionProperties
<1>6. ASSUME NEW j \in 1 .. size
      PROVE  NthOf(kept, j) \in kept /\ rank[NthOf(kept, j)] = j
  <2>1. PICK i \in kept : rank[i] = j
    BY <1>5
  <2>2. Cardinality({h \in kept : h <= i}) = j
    BY <2>1
  <2> QED
    BY <2>2 DEF NthOf
<1>7. ASSUME NEW i \in kept
      PROVE  \E j \in 1 .. size : NthOf(kept, j) = i
  <2>1. rank[i] \in 1 .. size
    BY <1>2
  <2>2. NthOf(kept, rank[i]) \in kept /\ rank[NthOf(kept, rank[i])] = rank[i]
    BY <1>6, <2>1
  <2>3. \A x, y \in kept : rank[x] = rank[y] => x = y
    <3> HIDE DEF rank, size
    <3> QED
      BY <1>4, Fun_InjectionProperties
  <2> HIDE DEF rank, size
  <2> QED
    BY <2>1, <2>2, <2>3
<1>8. ASSUME NEW i \in 1 .. size, NEW j \in 1 .. size, i < j
      PROVE  NthOf(kept, i) < NthOf(kept, j)
  <2>1. PICK x \in kept : x = NthOf(kept, i) /\ rank[x] = i
    BY <1>6
  <2>2. PICK y \in kept : y = NthOf(kept, j) /\ rank[y] = j
    BY <1>6
  <2>3. x \in Int /\ y \in Int
    OBVIOUS
  <2>4. ~(y < x)
    <3>1. SUFFICES ASSUME y < x PROVE FALSE
      OBVIOUS
    <3>2. Cardinality(Upto(y)) < Cardinality(Upto(x))
      BY <1>3, <3>1
    <3>3. rank[y] < rank[x]
      BY <3>2
    <3> HIDE DEF rank
    <3> QED
      BY <1>8, <2>1, <2>2, <3>3
  <2>5. x # y
    BY <1>8, <2>1, <2>2
  <2> HIDE DEF rank
  <2> QED
    BY <2>1, <2>2, <2>3, <2>4, <2>5
<1>9. ASSUME NEW j \in 1 .. size
      PROVE  Cardinality({h \in kept : h <= NthOf(kept, j)}) = j
  BY <1>6
<1> HIDE DEF rank
<1> QED
  BY <1>1, <1>6, <1>7, <1>8, <1>9

\* What Vec::retain leaves: the elements at the kept positions, in order.
LEMMA RetainedLeads ==
    ASSUME NEW S, NEW s \in Seq(S), NEW kept \in SUBSET DOMAIN s
    PROVE  LET left == Remaining(s, kept) IN
           /\ left \in Seq(S)
           /\ \E f : Leads(f, left, kept) /\ \A j \in DOMAIN left : left[j] = s[f[j]]
<1> DEFINE left == Remaining(s, kept)
           f == [j \in 1 .. Cardinality(kept) |-> NthOf(kept, j)]
<1>1. Len(s) \in Nat /\ DOMAIN s = 1 .. Len(s) /\ \A i \in DOMAIN s : s[i] \in S
  OBVIOUS
<1>2. /\ Cardinality(kept) \in Nat
      /\ \A j \in 1 .. Cardinality(kept) : NthOf(kept, j) \in kept
      /\ \A i, j \in 1 .. Cardinality(kept) : i < j => NthOf(kept, i) < NthOf(kept, j)
      /\ \A i \in kept : \E j \in 1 .. Cardinality(kept) : NthOf(kept, j) = i
  <2> HIDE DEF left, f
  <2>1. PICK n \in Nat : n = Len(s)
    BY <1>1
  <2>2. kept \in SUBSET (1 .. n)
    BY <1>1, <2>1
  <2> QED
    BY ONLY <2>1, <2>2, NthEnumerates
<1>3. DOMAIN left = 1 .. Cardinality(kept)
  BY DEF Remaining
<1>4. \A j \in DOMAIN left : left[j] = s[f[j]]
  BY <1>3 DEF Remaining
<1>5. left \in Seq(S)
  <2>1. left \in [1 .. Cardinality(kept) -> S]
    BY <1>1, <1>2 DEF Remaining
  <2> HIDE DEF left
  <2> QED
    BY <1>2, <2>1
<1>6. Leads(f, left, kept)
  <2> HIDE DEF left
  <2> QED
    BY <1>2, <1>3 DEF Leads
<1> HIDE DEF left, f
<1>7. left \in Seq(S) /\ \E g : Leads(g, left, kept) /\ \A j \in DOMAIN left : left[j] = s[g[j]]
  BY <1>4, <1>5, <1>6
<1> QED
  BY <1>7 DEF left

\* All but one place kept: what came later moves down by one.
LEMMA AllButOne ==
    ASSUME NEW S, NEW s \in Seq(S), NEW x \in DOMAIN s
    PROVE  LET left == Remaining(s, DOMAIN s \ {x}) IN
           /\ left \in Seq(S) /\ Len(left) = Len(s) - 1
           /\ \A j \in DOMAIN left : left[j] = IF j < x THEN s[j] ELSE s[j + 1]
<1> DEFINE kept == DOMAIN s \ {x}
           left == Remaining(s, kept)
<1>1. PICK n \in Nat : n = Len(s) /\ DOMAIN s = 1 .. n /\ x \in 1 .. n
  OBVIOUS
<1>2. Cardinality(kept) = n - 1 /\ Cardinality(kept) \in Nat
  <2>1. IsFiniteSet(1 .. n) /\ Cardinality(1 .. n) = n
    BY FS_Interval
  <2>2. kept = (1 .. n) \ {x}
    BY <1>1
  <2>3. Cardinality((1 .. n) \ {x}) = n - 1
    BY <1>1, <2>1, FS_RemoveElement
  <2> QED
    BY <1>1, <2>2, <2>3
<1>3. /\ \A j \in 1 .. n - 1 : NthOf(kept, j) \in kept
      /\ \A i, j \in 1 .. n - 1 : i < j => NthOf(kept, i) < NthOf(kept, j)
      /\ \A i \in kept : \E j \in 1 .. n - 1 : NthOf(kept, j) = i
  <2>1. kept \in SUBSET (1 .. n)
    BY <1>1
  <2> HIDE DEF kept, left
  <2>2. /\ \A j \in 1 .. Cardinality(kept) : NthOf(kept, j) \in kept
        /\ \A i, j \in 1 .. Cardinality(kept) : i < j => NthOf(kept, i) < NthOf(kept, j)
        /\ \A i \in kept : \E j \in 1 .. Cardinality(kept) : NthOf(kept, j) = i
    BY ONLY <2>1, NthEnumerates, n \in Nat
  <2> QED
    BY <1>2, <2>2
<1>4. ASSUME NEW j \in 1 .. n - 1
      PROVE  NthOf(kept, j) = IF j < x THEN j ELSE j + 1
  <2> DEFINE k == IF j < x THEN j ELSE j + 1
  <2>1. k \in kept /\ k \in 1 .. n
    BY <1>1
  <2>2. Cardinality({h \in kept : h <= k}) = j
    <3>1. CASE j < x
      <4>1. {h \in kept : h <= k} = 1 .. j
        BY <1>1, <3>1
      <4>2. j \in Nat /\ 1 <= j
        OBVIOUS
      <4>3. Cardinality(1 .. j) = j
        BY ONLY <4>2, FS_Interval
      <4> HIDE DEF kept, left, k
      <4> QED
        BY <4>1, <4>3
    <3>2. CASE ~(j < x)
      <4>1. {h \in kept : h <= k} = (1 .. j + 1) \ {x}
        BY <1>1, <3>2
      <4>2. j \in Nat /\ x \in 1 .. j + 1
        BY <1>1, <3>2
      <4>3. IsFiniteSet(1 .. j + 1) /\ Cardinality(1 .. j + 1) = j + 1
        BY ONLY <4>2, FS_Interval
      <4>4. PICK T : T = 1 .. j + 1
        OBVIOUS
      <4>5. IsFiniteSet(T) /\ x \in T /\ Cardinality(T) = j + 1
        BY ONLY <4>2, <4>3, <4>4
      <4>6. Cardinality(T \ {x}) = Cardinality(T) - 1
        BY ONLY <4>5, FS_RemoveElement
      <4>7. Cardinality(T \ {x}) = j
        BY ONLY <4>2, <4>5, <4>6
      <4> HIDE DEF kept, left, k
      <4> QED
        BY ONLY <4>1, <4>4, <4>7
    <3> QED
      BY <3>1, <3>2
  <2>3. PICK i \in 1 .. n - 1 : NthOf(kept, i) = k
    BY <1>3, <2>1
  <2>4. Cardinality({h \in kept : h <= NthOf(kept, i)}) = i
    <3>1. kept \in SUBSET (1 .. n)
      BY <1>1
    <3> HIDE DEF kept, left
    <3>2. i \in 1 .. Cardinality(kept)
      BY <1>2
    <3> QED
      BY ONLY <3>1, <3>2, NthEnumerates, n \in Nat
  <2> HIDE DEF kept, k
  <2>5. i = j
    BY <2>2, <2>3, <2>4
  <2> QED
    BY <2>3, <2>5 DEF k
<1>5. DOMAIN left = 1 .. n - 1 /\ \A j \in 1 .. n - 1 : left[j] = s[NthOf(kept, j)]
  BY <1>2 DEF Remaining
<1>6. left \in Seq(S)
  <2>1. kept \in SUBSET DOMAIN s
    OBVIOUS
  <2> HIDE DEF kept
  <2> QED
    BY <2>1, RetainedLeads
<1>7. Len(left) = Len(s) - 1
  <2> HIDE DEF left
  <2>1. DOMAIN left = 1 .. Len(left) /\ Len(left) \in Nat
    BY <1>6
  <2> QED
    BY <1>1, <1>2, <1>5, <2>1
<1>8. \A j \in DOMAIN left : left[j] = IF j < x THEN s[j] ELSE s[j + 1]
  <2> HIDE DEF left, kept
  <2> QED
    BY <1>4, <1>5
<1> HIDE DEF left, kept
<1>9. /\ left \in Seq(S) /\ Len(left) = Len(s) - 1
      /\ \A j \in DOMAIN left : left[j] = IF j < x THEN s[j] ELSE s[j + 1]
  BY <1>6, <1>7, <1>8
<1> QED
  BY <1>9 DEF left, kept

LEMMA InsertPuts ==
    ASSUME NEW S, NEW s \in Seq(S), NEW e \in S, NEW at \in 1 .. Len(s) + 1
    PROVE  InsertAt(s, at, e) \in Seq(S) /\ Put(InsertAt(s, at, e), s, at, e)
<1> DEFINE a == SubSeq(s, 1, at - 1)
           b == SubSeq(s, at, Len(s))
           r == a \o <<e>> \o b
<1>1. Len(s) \in Nat
  OBVIOUS
<1>2. a \in Seq(S) /\ Len(a) = at - 1 /\ \A j \in 1 .. at - 1 : a[j] = s[j]
  BY <1>1
<1>3. b \in Seq(S) /\ Len(b) = Len(s) - at + 1 /\ \A j \in 1 .. Len(b) : b[j] = s[at + j - 1]
  BY <1>1
<1>4. /\ r \in Seq(S) /\ Len(r) = Len(s) + 1
      /\ \A j \in 1 .. Len(r) : r[j] = IF j < at THEN a[j] ELSE IF j = at THEN e ELSE b[j - at]
  <2> DEFINE c == a \o <<e>>
  <2> HIDE DEF a, b
  <2>1. <<e>> \in Seq(S) /\ Len(<<e>>) = 1 /\ <<e>>[1] = e
    OBVIOUS
  <2>2. /\ c \in Seq(S) /\ Len(c) = at
        /\ \A j \in 1 .. at : c[j] = IF j < at THEN a[j] ELSE e
    <3>1. c \in Seq(S) /\ Len(c) = Len(a) + 1
      BY <1>2, <2>1
    <3>2. ASSUME NEW j \in 1 .. at PROVE c[j] = IF j < at THEN a[j] ELSE e
      <4>1. CASE j < at
        BY <1>1, <1>2, <4>1
      <4>2. CASE j = at
        BY <1>1, <1>2, <4>2
      <4> HIDE DEF c
      <4> QED
        BY <1>1, <4>1, <4>2
    <3> HIDE DEF c
    <3> QED
      BY <1>1, <1>2, <3>1, <3>2
  <2> HIDE DEF c
  <2>6. c \in Seq(S) /\ b \in Seq(S)
    BY <1>3, <2>2
  <2>3. c \o b \in Seq(S) /\ Len(c \o b) = Len(c) + Len(b)
    BY ONLY <2>6, ConcatProperties
  <2>4. ASSUME NEW j \in 1 .. Len(s) + 1
        PROVE  (c \o b)[j] = IF j < at THEN a[j] ELSE IF j = at THEN e ELSE b[j - at]
    <3>1. CASE j <= at
      <4>1. (c \o b)[j] = c[j]
        BY <1>1, <1>3, <2>2, <3>1
      <4> QED
        BY <1>1, <2>2, <3>1, <4>1
    <3>2. CASE at < j
      <4>1. (c \o b)[j] = b[j - Len(c)]
        BY <1>1, <1>3, <2>2, <3>2
      <4> QED
        BY <1>1, <2>2, <3>2, <4>1
    <3>3. j <= at \/ at < j
      BY <1>1
    <3> QED
      BY ONLY <3>1, <3>2, <3>3, Zenon
  <2>5. Len(c \o b) = Len(s) + 1
    BY <1>1, <1>3, <2>2, <2>3
  <2> QED
    BY <2>3, <2>4, <2>5 DEF c
<1>5. InsertAt(s, at, e) = r
  BY DEF InsertAt
<1>6. ASSUME NEW j \in 1 .. Len(s) + 1
      PROVE  r[j] = IF j < at THEN s[j] ELSE IF j = at THEN e ELSE s[j - 1]
  <2> HIDE DEF a, b, r
  <2>1. CASE j <= at
    BY <1>1, <1>2, <1>4, <2>1
  <2>2. CASE at < j
    <3>1. r[j] = b[j - at] /\ j - at \in 1 .. Len(b)
      BY <1>1, <1>3, <1>4, <2>2
    <3>2. b[j - at] = s[at + (j - at) - 1]
      BY ONLY <1>3, <3>1
    <3>3. at + (j - at) - 1 = j - 1
      BY <1>1
    <3> QED
      BY <2>2, <3>1, <3>2, <3>3
  <2> QED
    BY <1>1, <2>1, <2>2
<1> HIDE DEF a, b, r
<1>7. DOMAIN r = 1 .. Len(s) + 1
  BY <1>4
<1> QED
  BY <1>4, <1>5, <1>6, <1>7 DEF Put

LEMMA AppendPuts ==
    ASSUME NEW S, NEW s \in Seq(S), NEW e \in S
    PROVE  Append(s, e) \in Seq(S) /\ Put(Append(s, e), s, Len(s) + 1, e)
<1>1. /\ Append(s, e) \in Seq(S) /\ Len(Append(s, e)) = Len(s) + 1 /\ Len(s) \in Nat
      /\ \A j \in 1 .. Len(s) : Append(s, e)[j] = s[j]
      /\ Append(s, e)[Len(s) + 1] = e
  BY AppendProperties
<1>2. DOMAIN Append(s, e) = 1 .. Len(s) + 1
  BY <1>1
<1>3. ASSUME NEW j \in 1 .. Len(s) + 1
      PROVE  Append(s, e)[j] = IF j < Len(s) + 1 THEN s[j] ELSE IF j = Len(s) + 1 THEN e ELSE s[j - 1]
  BY <1>1
<1> QED
  BY <1>1, <1>2, <1>3 DEF Put

\* What a list holds to which an element came.
LEMMA PutHolds ==
    ASSUME NEW S, NEW s \in Seq(S), NEW e, NEW at \in 1 .. Len(s) + 1, NEW more, Put(more, s, at, e)
    PROVE  Holds(more, s, e)
<1>1. PICK n \in Nat : n = Len(s) /\ DOMAIN s = 1 .. n
  OBVIOUS
<1>2. at \in DOMAIN more /\ more[at] = e
  BY <1>1 DEF Put
<1>3. ASSUME NEW i \in 1 .. n
      PROVE  \E j \in DOMAIN more : more[j] = s[i]
  <2>1. CASE i < at
    BY <1>1, <2>1 DEF Put
  <2>2. CASE ~(i < at)
    <3>1. i + 1 \in DOMAIN more /\ ~(i + 1 < at) /\ i + 1 # at /\ (i + 1) - 1 = i
      BY <1>1, <2>2 DEF Put
    <3>2. more[i + 1] = s[(i + 1) - 1]
      BY <3>1 DEF Put
    <3> QED
      BY <3>1, <3>2
  <2> QED
    BY <2>1, <2>2
<1>4. ASSUME NEW j \in DOMAIN more, more[j] # e
      PROVE  \E i \in 1 .. n : more[j] = s[i]
  <2>1. j \in 1 .. n + 1
    BY <1>1 DEF Put
  <2>2. CASE j < at
    BY <1>1, <2>1, <2>2 DEF Put
  <2>3. CASE j > at
    <3>1. j - 1 \in 1 .. n /\ ~(j < at) /\ j # at
      BY <1>1, <2>1, <2>3
    <3> QED
      BY <3>1 DEF Put
  <2> QED
    BY <1>1, <1>2, <1>4, <2>1, <2>2, <2>3
<1> QED
  BY <1>1, <1>2, <1>3, <1>4 DEF Holds

\* Where the lanes that are only read begin.
LEMMA FirstReadIs ==
    ASSUME NEW ls \in Lanes
    PROVE  /\ FirstRead(ls) \in 1 .. Len(ls) + 1
           /\ \A i \in DOMAIN ls : i < FirstRead(ls) => ~ls[i].read
           /\ FirstRead(ls) # Len(ls) + 1 =>
                FirstRead(ls) \in DOMAIN ls /\ ls[FirstRead(ls)].read
<1> DEFINE reads == {i \in DOMAIN ls : ls[i].read}
<1>1. PICK n \in Nat : n = Len(ls) /\ DOMAIN ls = 1 .. n
  BY DEF Lanes
<1>2. FirstRead(ls) = IF reads = {} THEN Len(ls) + 1
                      ELSE CHOOSE i \in reads : \A j \in reads : i <= j
  BY DEF FirstRead
<1>3. CASE reads = {}
  BY <1>1, <1>2, <1>3
<1>4. CASE reads # {}
  <2>1. reads \in SUBSET Nat
    BY <1>1
  <2>2. \E i \in reads : \A j \in reads : i <= j
    <3> HIDE DEF reads
    <3> QED
      BY <1>4, <2>1, LeastNat
  <2>3. FirstRead(ls) \in reads /\ \A j \in reads : FirstRead(ls) <= j
    <3> HIDE DEF reads
    <3> QED
      BY <1>2, <1>4, <2>2
  <2>4. ASSUME NEW i \in DOMAIN ls, i < FirstRead(ls)
        PROVE  ~ls[i].read
    <3>1. i \in Nat /\ FirstRead(ls) \in Nat /\ ~(FirstRead(ls) <= i)
      BY <1>1, <2>1, <2>3, <2>4
    <3> QED
      BY <2>3, <3>1
  <2> QED
    BY <1>1, <2>3, <2>4
<1> QED
  BY <1>3, <1>4

LEMMA PlottedOnes ==
    ASSUME NEW ls \in Lanes, PlottedFirst(ls), NEW i \in DOMAIN ls
    PROVE  i < FirstRead(ls) <=> ~ls[i].read
<1>1. PICK n \in Nat : n = Len(ls) /\ DOMAIN ls = 1 .. n
  BY DEF Lanes
<1>2. ASSUME ~(i < FirstRead(ls)) PROVE ls[i].read
  <2>1. FirstRead(ls) \in DOMAIN ls /\ ls[FirstRead(ls)].read /\ FirstRead(ls) \in 1 .. n
    BY <1>1, <1>2, FirstReadIs
  <2>2. CASE i = FirstRead(ls)
    BY <2>1, <2>2
  <2>3. CASE FirstRead(ls) < i
    BY <2>1, <2>3 DEF PlottedFirst
  <2> QED
    BY <1>1, <1>2, <2>1, <2>2, <2>3
<1> QED
  BY <1>2, FirstReadIs

\* A signal is its identity, a computed channel is its identity and its name.
LEMMA Keyed ==
    ASSUME NEW k \in Signals, NEW m \in Signals, Id(k) = Id(m)
    PROVE  /\ IsDerived(k) <=> IsDerived(m)
           /\ k[2] = m[2]
           /\ ~IsDerived(k) => k = m
           /\ IsDerived(k) /\ k[3] = m[3] => k = m
<1>1. k[1] = m[1] /\ k[2] = m[2]
  BY DEF Id
<1>2. \A x \in Signals : \/ \E c \in Clusters : x = Can(c)
                         \/ \E d \in 0 .. MaxCommands, n \in Names : x = Derived(d, n)
  BY DEF Signals
<1>3. \A c : Can(c)[1] = "can" /\ Can(c)[2] = c
  BY DEF Can
<1>4. \A d, n : Derived(d, n)[1] = "derived" /\ Derived(d, n)[2] = d /\ Derived(d, n)[3] = n
  BY DEF Derived
<1>5. CASE IsDerived(k)
  <2>1. k[1] = "derived" /\ m[1] = "derived"
    BY <1>1, <1>5 DEF IsDerived
  <2>2. PICK d, n : k = Derived(d, n)
    BY <1>2, <1>3, <2>1
  <2>3. PICK e, o : m = Derived(e, o)
    BY <1>2, <1>3, <2>1
  <2>4. d = e
    BY <1>1, <1>4, <2>2, <2>3
  <2>5. k[3] = m[3] => n = o
    BY <1>4, <2>2, <2>3
  <2> QED
    BY <1>1, <1>5, <2>1, <2>2, <2>3, <2>4, <2>5 DEF IsDerived
<1>6. CASE ~IsDerived(k)
  <2>1. k[1] # "derived" /\ m[1] # "derived"
    BY <1>1, <1>6 DEF IsDerived
  <2>2. PICK c : k = Can(c)
    BY <1>2, <1>4, <2>1
  <2>3. PICK e : m = Can(e)
    BY <1>2, <1>4, <2>1
  <2>4. c = e
    BY <1>1, <1>3, <2>2, <2>3
  <2> QED
    BY <1>1, <1>6, <2>1, <2>2, <2>3, <2>4 DEF IsDerived
<1> QED
  BY <1>5, <1>6

LEMMA Kinds ==
    /\ \A c : ~IsDerived(Can(c)) /\ Can(c)[2] = c
    /\ \A d, n : IsDerived(Derived(d, n)) /\ Derived(d, n)[2] = d /\ Derived(d, n)[3] = n
    /\ \A d, n, o : Id(Derived(d, n)) = Id(Derived(d, o))
    /\ \A c \in Clusters : Can(c) \in Signals
    /\ \A d \in 0 .. MaxCommands, n \in Names : Derived(d, n) \in Signals
    /\ \A k \in Signals : ~IsDerived(k) => k[2] \in Clusters /\ k = Can(k[2])
    /\ \A k \in Signals : IsDerived(k) => k[2] \in 0 .. MaxCommands /\ k[3] \in Names
                                          /\ k = Derived(k[2], k[3])
<1>1. \A c : Can(c)[1] = "can" /\ Can(c)[2] = c
  BY DEF Can
<1>2. \A d, n : Derived(d, n)[1] = "derived" /\ Derived(d, n)[2] = d /\ Derived(d, n)[3] = n
  BY DEF Derived
<1>3. \A x \in Signals : \/ \E c \in Clusters : x = Can(c)
                         \/ \E d \in 0 .. MaxCommands, n \in Names : x = Derived(d, n)
  BY DEF Signals
<1>4. \A c \in Clusters : Can(c) \in Signals
  BY DEF Signals
<1>5. \A d \in 0 .. MaxCommands, n \in Names : Derived(d, n) \in Signals
  BY DEF Signals
<1>6. \A d, n, o : Id(Derived(d, n)) = Id(Derived(d, o))
  BY <1>2 DEF Id
<1>7. ASSUME NEW k \in Signals, ~IsDerived(k)
      PROVE  k[2] \in Clusters /\ k = Can(k[2])
  BY <1>1, <1>2, <1>3, <1>7 DEF IsDerived
<1>8. ASSUME NEW k \in Signals, IsDerived(k)
      PROVE  k[2] \in 0 .. MaxCommands /\ k[3] \in Names /\ k = Derived(k[2], k[3])
  BY <1>1, <1>2, <1>3, <1>8 DEF IsDerived
<1>9. \A c : ~IsDerived(Can(c))
  BY <1>1 DEF IsDerived
<1>10. \A d, n : IsDerived(Derived(d, n))
  BY <1>2 DEF IsDerived
<1> QED
  BY <1>1, <1>2, <1>4, <1>5, <1>6, <1>7, <1>8, <1>9, <1>10

-----------------------------------------------------------------------------
(* What keeps the lanes and the rows in step                                *)

LEMMA AliveAlike ==
    ASSUME NEW k \in Signals, NEW l \in Signals, Id(k) = Id(l), NEW n, NEW d
    PROVE  Alive(k, n, d) <=> Alive(l, n, d)
BY Keyed DEF Alive

LEMMA LeadsBack ==
    ASSUME NEW S, NEW s \in Seq(S), NEW T, NEW t \in Seq(T), NEW at \in SUBSET DOMAIN t, NEW f,
           Leads(f, s, at)
    PROVE  Back(f, s, t, at)
<1> SUFFICES ASSUME NEW i \in DOMAIN s, NEW j \in DOMAIN s
             PROVE  /\ f[i] \in DOMAIN t /\ f[i] \in at
                    /\ f[i] < f[j] => i < j
                    /\ f[i] = f[j] => i = j
  BY DEF Back
<1>1. f[i] \in at /\ f[j] \in at
  BY DEF Leads
<1>2. i \in Nat /\ j \in Nat /\ f[i] \in Nat /\ f[j] \in Nat
  BY <1>1
<1>3. (i < j => f[i] < f[j]) /\ (j < i => f[j] < f[i])
  BY DEF Leads
<1> QED
  BY <1>1, <1>2, <1>3

\* What stays in step stays so when lanes and rows go together.
LEMMA Thinned ==
    ASSUME NEW ls, NEW keys, NEW n, NEW d, Recorded(ls, keys, n, d),
           NEW ls2 \in Lanes, NEW keys2 \in Rows, NEW m, NEW e,
           NEW A \in SUBSET DOMAIN ls, NEW B \in SUBSET DOMAIN keys, NEW f, NEW g,
           Leads(f, ls2, A), Leads(g, keys2, B),
           \A j \in DOMAIN ls2 : /\ ls2[j].read = ls[f[j]].read
                                 /\ Id(ls2[j].key) = Id(ls[f[j]].key),
           \A q \in DOMAIN keys2 : Id(keys2[q]) = Id(keys[g[q]]),
           \A i \in A, p \in DOMAIN keys :
             ~ls[i].read /\ Id(keys[p]) = Id(ls[i].key) => p \in B,
           \A p \in B, i \in DOMAIN ls :
             ~ls[i].read /\ Id(keys[p]) = Id(ls[i].key) /\ Alive(keys[p], m, e) => i \in A,
           \A p \in B : Alive(keys[p], m, e) => Alive(keys[p], n, d)
    PROVE  Recorded(ls2, keys2, m, e)
<1>1. /\ ls \in Lanes /\ keys \in Rows /\ LanesApart(ls) /\ RowsApart(keys)
      /\ PlottedFirst(ls) /\ HasRow(ls, keys) /\ HasLane(ls, keys, n, d) /\ SameOrder(ls, keys)
  BY DEF Recorded
<1>2. /\ \A i \in DOMAIN ls2 : f[i] \in A /\ f[i] \in DOMAIN ls
      /\ \A i, j \in DOMAIN ls2 : i < j => f[i] < f[j]
      /\ \A i, j \in DOMAIN ls2 : (f[i] < f[j] => i < j) /\ (f[i] = f[j] => i = j)
      /\ \A k \in A : \E j \in DOMAIN ls2 : f[j] = k
  <2>1. ls \in Seq(Lane) /\ ls2 \in Seq(Lane) /\ A \in SUBSET DOMAIN ls
    BY <1>1 DEF Lanes
  <2>2. Back(f, ls2, ls, A)
    BY <2>1, LeadsBack
  <2> QED
    BY <2>2 DEF Leads, Back
<1>3. /\ \A i \in DOMAIN keys2 : g[i] \in B /\ g[i] \in DOMAIN keys
      /\ \A i, j \in DOMAIN keys2 : (g[i] < g[j] => i < j) /\ (g[i] = g[j] => i = j)
      /\ \A k \in B : \E j \in DOMAIN keys2 : g[j] = k
  <2>1. keys \in Seq(Signals) /\ keys2 \in Seq(Signals) /\ B \in SUBSET DOMAIN keys
    BY <1>1 DEF Rows
  <2>2. Back(g, keys2, keys, B)
    BY <2>1, LeadsBack
  <2> QED
    BY <2>2 DEF Leads, Back
<1>4. LanesApart(ls2)
  BY <1>1, <1>2 DEF LanesApart
<1>5. RowsApart(keys2)
  BY <1>1, <1>3 DEF RowsApart
<1>6. PlottedFirst(ls2)
  BY <1>1, <1>2 DEF PlottedFirst
<1>7. HasRow(ls2, keys2)
  <2>1. ASSUME NEW i \in DOMAIN ls2, ~ls2[i].read
        PROVE  \E q \in DOMAIN keys2 : Id(keys2[q]) = Id(ls2[i].key)
    <3>1. PICK p \in DOMAIN keys : Id(keys[p]) = Id(ls[f[i]].key)
      BY <1>1, <1>2, <2>1 DEF HasRow
    <3>2. p \in B
      BY <1>2, <2>1, <3>1
    <3> QED
      BY <1>3, <3>1, <3>2
  <2> QED
    BY <2>1 DEF HasRow
<1>8. HasLane(ls2, keys2, m, e)
  <2>1. ASSUME NEW q \in DOMAIN keys2, Alive(keys2[q], m, e)
        PROVE  \E j \in DOMAIN ls2 : ~ls2[j].read /\ Id(ls2[j].key) = Id(keys2[q])
    <3>0. keys2[q] \in Signals /\ keys[g[q]] \in Signals
      BY <1>1, <1>3 DEF Rows
    <3>1. Alive(keys[g[q]], m, e)
      BY <2>1, <3>0, AliveAlike
    <3>2. Alive(keys[g[q]], n, d)
      BY <1>3, <3>1
    <3>3. PICK i \in DOMAIN ls : ~ls[i].read /\ Id(ls[i].key) = Id(keys[g[q]])
      BY <1>1, <1>3, <3>2 DEF HasLane
    <3>4. i \in A
      BY <1>3, <3>1, <3>3
    <3> QED
      BY <1>2, <3>3, <3>4
  <2> QED
    BY <2>1 DEF HasLane
<1>9. SameOrder(ls2, keys2)
  <2>1. ASSUME NEW i \in DOMAIN ls2, NEW j \in DOMAIN ls2, NEW p \in DOMAIN keys2,
               NEW q \in DOMAIN keys2, i < j, ~ls2[i].read, ~ls2[j].read,
               Id(keys2[p]) = Id(ls2[i].key), Id(keys2[q]) = Id(ls2[j].key)
        PROVE  p < q
    <3>1. /\ f[i] < f[j] /\ ~ls[f[i]].read /\ ~ls[f[j]].read
          /\ Id(keys[g[p]]) = Id(ls[f[i]].key) /\ Id(keys[g[q]]) = Id(ls[f[j]].key)
      BY <1>2, <2>1
    <3>2. g[p] < g[q]
      BY <1>1, <1>2, <1>3, <3>1 DEF SameOrder
    <3> QED
      BY <1>3, <3>2
  <2> QED
    BY <2>1 DEF SameOrder
<1> QED
  BY <1>4, <1>5, <1>6, <1>7, <1>8, <1>9 DEF Recorded

\* A list leads to itself.
LEMMA LeadsToAll ==
    ASSUME NEW S, NEW s \in Seq(S)
    PROVE  Leads([j \in DOMAIN s |-> j], s, DOMAIN s)
BY DEF Leads

\* What stays apart, and plotted first, when a lane comes.
LEMMA LanePut ==
    ASSUME NEW ls \in Lanes, NEW lane \in Lane, NEW at \in 1 .. Len(ls) + 1,
           NEW ls2 \in Lanes, Put(ls2, ls, at, lane), LanesApart(ls), PlottedFirst(ls),
           \A i \in DOMAIN ls : Id(ls[i].key) # Id(lane.key),
           at <= FirstRead(ls), lane.read => at = Len(ls) + 1
    PROVE  LanesApart(ls2) /\ PlottedFirst(ls2)
<1>1. PICK n \in Nat : n = Len(ls) /\ DOMAIN ls = 1 .. n /\ at \in 1 .. n + 1
  BY DEF Lanes
<1>2. DOMAIN ls2 = 1 .. n + 1
  BY <1>1 DEF Put
<1>3. \A j \in 1 .. n + 1 : ls2[j] = IF j < at THEN ls[j] ELSE IF j = at THEN lane ELSE ls[j - 1]
  BY <1>1 DEF Put
<1>4. LanesApart(ls2)
  <2>1. ASSUME NEW i \in 1 .. n + 1, NEW j \in 1 .. n + 1, i < j, Id(ls2[i].key) = Id(ls2[j].key)
        PROVE  FALSE
    <3>1. \A x, y \in 1 .. n : Id(ls[x].key) = Id(ls[y].key) => x = y
      BY <1>1 DEF LanesApart
    <3>2. CASE j < at
      BY <1>1, <1>3, <2>1, <3>1, <3>2
    <3>3. CASE j = at
      <4>1. ls2[j] = lane /\ ls2[i] = ls[i] /\ i \in 1 .. n
        BY <1>1, <1>3, <2>1, <3>3
      <4> QED
        BY <1>1, <2>1, <4>1
    <3>4. CASE at < j /\ i = at
      <4>1. ls2[i] = lane /\ ls2[j] = ls[j - 1] /\ j - 1 \in 1 .. n
        BY <1>1, <1>3, <2>1, <3>4
      <4> QED
        BY <1>1, <2>1, <4>1
    <3>5. CASE at < j /\ i < at
      <4>1. ls2[i] = ls[i] /\ ls2[j] = ls[j - 1] /\ j - 1 \in 1 .. n /\ i \in 1 .. n /\ i # j - 1
        BY <1>1, <1>3, <2>1, <3>5
      <4> QED
        BY <2>1, <3>1, <4>1
    <3>6. CASE at < j /\ at < i
      <4>1. /\ ls2[i] = ls[i - 1] /\ ls2[j] = ls[j - 1]
            /\ j - 1 \in 1 .. n /\ i - 1 \in 1 .. n /\ i - 1 # j - 1
        BY <1>1, <1>3, <2>1, <3>6
      <4> QED
        BY <2>1, <3>1, <4>1
    <3> QED
      BY <1>1, <2>1, <3>2, <3>3, <3>4, <3>5, <3>6
  <2>2. ASSUME NEW i \in 1 .. n + 1, NEW j \in 1 .. n + 1, Id(ls2[i].key) = Id(ls2[j].key)
        PROVE  i = j
    <3>1. ~(i < j)
      BY <2>1, <2>2
    <3>2. ~(j < i)
      BY <2>1, <2>2
    <3> QED
      BY <3>1, <3>2
  <2> QED
    BY <1>2, <2>2 DEF LanesApart
<1>5. PlottedFirst(ls2)
  <2>1. ASSUME NEW i \in 1 .. n + 1, NEW j \in 1 .. n + 1, i < j, ls2[i].read
        PROVE  ls2[j].read
    <3>1. \A x, y \in 1 .. n : x < y /\ ls[x].read => ls[y].read
      BY <1>1 DEF PlottedFirst
    <3>2. \A x \in 1 .. n : x < at => ~ls[x].read
      <4>1. \A x \in 1 .. n : x < FirstRead(ls) => ~ls[x].read
        BY <1>1, FirstReadIs
      <4>2. FirstRead(ls) \in 1 .. n + 1
        BY <1>1, FirstReadIs
      <4> QED
        BY <1>1, <4>1, <4>2
    <3>3. ~(i < at)
      BY <1>1, <1>3, <2>1, <3>2
    <3>4. i # at
      <4>1. SUFFICES ASSUME i = at PROVE FALSE
        OBVIOUS
      <4>2. lane.read
        BY <1>3, <2>1, <4>1
      <4> QED
        BY <1>1, <2>1, <4>1, <4>2
    <3>5. /\ ls2[i] = ls[i - 1] /\ ls2[j] = ls[j - 1]
          /\ j - 1 \in 1 .. n /\ i - 1 \in 1 .. n /\ i - 1 < j - 1
      BY <1>1, <1>3, <2>1, <3>3, <3>4
    <3> QED
      BY <2>1, <3>1, <3>5
  <2> QED
    BY <1>2, <2>1 DEF PlottedFirst
<1> QED
  BY <1>4, <1>5

LEMMA RowPut ==
    ASSUME NEW keys \in Rows, NEW key \in Signals, NEW pos \in 1 .. Len(keys) + 1,
           NEW keys2 \in Rows, Put(keys2, keys, pos, key), RowsApart(keys),
           \A p \in DOMAIN keys : Id(keys[p]) # Id(key)
    PROVE  RowsApart(keys2)
<1>1. PICK n \in Nat : n = Len(keys) /\ DOMAIN keys = 1 .. n /\ pos \in 1 .. n + 1
  BY DEF Rows
<1>2. DOMAIN keys2 = 1 .. n + 1
  BY <1>1 DEF Put
<1>3. \A j \in 1 .. n + 1 : keys2[j] = IF j < pos THEN keys[j] ELSE IF j = pos THEN key ELSE keys[j - 1]
  BY <1>1 DEF Put
<1>4. ASSUME NEW i \in 1 .. n + 1, NEW j \in 1 .. n + 1, i < j, Id(keys2[i]) = Id(keys2[j])
      PROVE  FALSE
  <2>1. \A x, y \in 1 .. n : Id(keys[x]) = Id(keys[y]) => x = y
    BY <1>1 DEF RowsApart
  <2>2. CASE j < pos
    BY <1>1, <1>3, <1>4, <2>1, <2>2
  <2>3. CASE j = pos
    <3>1. keys2[j] = key /\ keys2[i] = keys[i] /\ i \in 1 .. n
      BY <1>1, <1>3, <1>4, <2>3
    <3> QED
      BY <1>1, <1>4, <3>1
  <2>4. CASE pos < j /\ i = pos
    <3>1. keys2[i] = key /\ keys2[j] = keys[j - 1] /\ j - 1 \in 1 .. n
      BY <1>1, <1>3, <1>4, <2>4
    <3> QED
      BY <1>1, <1>4, <3>1
  <2>5. CASE pos < j /\ i < pos
    <3>1. keys2[i] = keys[i] /\ keys2[j] = keys[j - 1] /\ j - 1 \in 1 .. n /\ i \in 1 .. n /\ i # j - 1
      BY <1>1, <1>3, <1>4, <2>5
    <3> QED
      BY <1>4, <2>1, <3>1
  <2>6. CASE pos < j /\ pos < i
    <3>1. /\ keys2[i] = keys[i - 1] /\ keys2[j] = keys[j - 1]
          /\ j - 1 \in 1 .. n /\ i - 1 \in 1 .. n /\ i - 1 # j - 1
      BY <1>1, <1>3, <1>4, <2>6
    <3> QED
      BY <1>4, <2>1, <3>1
  <2> QED
    BY <1>1, <1>4, <2>2, <2>3, <2>4, <2>5, <2>6
<1>5. ASSUME NEW i \in 1 .. n + 1, NEW j \in 1 .. n + 1, Id(keys2[i]) = Id(keys2[j])
      PROVE  i = j
  <2>1. ~(i < j)
    BY <1>4, <1>5
  <2>2. ~(j < i)
    BY <1>4, <1>5
  <2> QED
    BY <2>1, <2>2
<1> QED
  BY <1>2, <1>5 DEF RowsApart

\* A plotted lane comes with its row where the order of the rows has it.
LEMMA Grown ==
    ASSUME NEW ls, NEW keys, NEW n, NEW d, Recorded(ls, keys, n, d),
           NEW key \in Signals, NEW at \in 1 .. Len(ls) + 1, NEW pos \in 1 .. Len(keys) + 1,
           NEW ls2 \in Lanes, Put(ls2, ls, at, [key |-> key, read |-> FALSE]),
           NEW keys2 \in Rows, Put(keys2, keys, pos, key),
           at <= FirstRead(ls),
           \A i \in DOMAIN ls : Id(ls[i].key) # Id(key),
           \A p \in DOMAIN keys : Id(keys[p]) # Id(key),
           \A i \in DOMAIN ls, p \in DOMAIN keys :
             ~ls[i].read /\ Id(keys[p]) = Id(ls[i].key) => (i < at <=> p < pos)
    PROVE  Recorded(ls2, keys2, n, d)
<1> DEFINE lane == [key |-> key, read |-> FALSE]
<1>1. /\ ls \in Lanes /\ keys \in Rows /\ LanesApart(ls) /\ RowsApart(keys)
      /\ PlottedFirst(ls) /\ HasRow(ls, keys) /\ HasLane(ls, keys, n, d) /\ SameOrder(ls, keys)
  BY DEF Recorded
<1>2. lane \in Lane /\ lane.key = key /\ ~lane.read
  BY DEF Lane
<1> HIDE DEF lane
<1>3. Put(ls2, ls, at, lane)
  BY DEF lane
<1>4. LanesApart(ls2) /\ PlottedFirst(ls2)
  BY <1>1, <1>2, <1>3, LanePut
<1>5. RowsApart(keys2)
  BY <1>1, RowPut
<1>6. /\ \A i \in DOMAIN ls : \E j \in DOMAIN ls2 : ls2[j] = ls[i]
      /\ \E j \in DOMAIN ls2 : ls2[j] = lane
      /\ \A j \in DOMAIN ls2 : ls2[j] = lane \/ \E i \in DOMAIN ls : ls2[j] = ls[i]
  <2>1. ls \in Seq(Lane)
    BY <1>1 DEF Lanes
  <2>2. Holds(ls2, ls, lane)
    BY <1>3, <2>1, PutHolds
  <2> QED
    BY <2>2 DEF Holds
<1>7. /\ \A p \in DOMAIN keys : \E q \in DOMAIN keys2 : keys2[q] = keys[p]
      /\ \E q \in DOMAIN keys2 : keys2[q] = key
      /\ \A q \in DOMAIN keys2 : keys2[q] = key \/ \E p \in DOMAIN keys : keys2[q] = keys[p]
  <2>1. keys \in Seq(Signals)
    BY <1>1 DEF Rows
  <2>2. Holds(keys2, keys, key)
    BY <2>1, PutHolds
  <2> QED
    BY <2>2 DEF Holds
<1>8. HasRow(ls2, keys2)
  <2>1. ASSUME NEW j \in DOMAIN ls2, ~ls2[j].read
        PROVE  \E q \in DOMAIN keys2 : Id(keys2[q]) = Id(ls2[j].key)
    <3>1. CASE ls2[j] = lane
      BY <1>2, <1>7, <3>1
    <3>2. CASE ls2[j] # lane
      <4>1. PICK i \in DOMAIN ls : ls2[j] = ls[i]
        BY <1>6, <3>2
      <4>2. PICK p \in DOMAIN keys : Id(keys[p]) = Id(ls[i].key)
        BY <1>1, <2>1, <4>1 DEF HasRow
      <4> QED
        BY <1>7, <4>1, <4>2
    <3> QED
      BY <3>1, <3>2
  <2> QED
    BY <2>1 DEF HasRow
<1>9. HasLane(ls2, keys2, n, d)
  <2>1. ASSUME NEW q \in DOMAIN keys2, Alive(keys2[q], n, d)
        PROVE  \E j \in DOMAIN ls2 : ~ls2[j].read /\ Id(ls2[j].key) = Id(keys2[q])
    <3>1. CASE keys2[q] = key
      BY <1>2, <1>6, <3>1
    <3>2. CASE keys2[q] # key
      <4>1. PICK p \in DOMAIN keys : keys2[q] = keys[p]
        BY <1>7, <3>2
      <4>2. PICK i \in DOMAIN ls : ~ls[i].read /\ Id(ls[i].key) = Id(keys[p])
        BY <1>1, <2>1, <4>1 DEF HasLane
      <4> QED
        BY <1>6, <4>1, <4>2
    <3> QED
      BY <3>1, <3>2
  <2> QED
    BY <2>1 DEF HasLane
<1>10. SameOrder(ls2, keys2)
  <2>1. PICK a \in Nat : a = Len(ls) /\ DOMAIN ls = 1 .. a /\ at \in 1 .. a + 1
    BY <1>1 DEF Lanes
  <2>2. PICK b \in Nat : b = Len(keys) /\ DOMAIN keys = 1 .. b /\ pos \in 1 .. b + 1
    BY <1>1 DEF Rows
  <2>3. /\ DOMAIN ls2 = 1 .. a + 1
        /\ \A j \in 1 .. a + 1 : ls2[j] = IF j < at THEN ls[j] ELSE IF j = at THEN lane ELSE ls[j - 1]
    BY <1>3, <2>1 DEF Put
  <2>4. /\ DOMAIN keys2 = 1 .. b + 1
        /\ \A j \in 1 .. b + 1 :
             keys2[j] = IF j < pos THEN keys[j] ELSE IF j = pos THEN key ELSE keys[j - 1]
    BY <2>2 DEF Put
  <2>5. ASSUME NEW j \in 1 .. a + 1, j # at
        PROVE  \E i \in 1 .. a : /\ ls2[j] = ls[i] /\ (j < at => i = j) /\ (at < j => i = j - 1)
                                 /\ (i < at <=> j < at)
    <3>1. CASE j < at
      BY <2>1, <2>3, <3>1
    <3>2. CASE at < j
      <4>1. j - 1 \in 1 .. a /\ ~(j < at) /\ ~(j - 1 < at)
        BY <2>1, <3>2
      <4> QED
        BY <2>1, <2>3, <2>5, <4>1
    <3> QED
      BY <2>1, <2>5, <3>1, <3>2
  <2>6. ASSUME NEW j \in 1 .. b + 1, j # pos
        PROVE  \E i \in 1 .. b : /\ keys2[j] = keys[i] /\ (j < pos => i = j) /\ (pos < j => i = j - 1)
                                 /\ (i < pos <=> j < pos)
    <3>1. CASE j < pos
      BY <2>2, <2>4, <3>1
    <3>2. CASE pos < j
      <4>1. j - 1 \in 1 .. b /\ ~(j < pos) /\ ~(j - 1 < pos)
        BY <2>2, <3>2
      <4> QED
        BY <2>2, <2>4, <2>6, <4>1
    <3> QED
      BY <2>2, <2>6, <3>1, <3>2
  <2>7. ls2[at] = lane /\ keys2[pos] = key
    BY <2>1, <2>2, <2>3, <2>4
  <2>8. ASSUME NEW i \in 1 .. a + 1, NEW j \in 1 .. a + 1, NEW p \in 1 .. b + 1,
               NEW q \in 1 .. b + 1, i < j, ~ls2[i].read, ~ls2[j].read,
               Id(keys2[p]) = Id(ls2[i].key), Id(keys2[q]) = Id(ls2[j].key)
        PROVE  p < q
    <3>1. (i = at <=> p = pos) /\ (j = at <=> q = pos)
      <4>1. \A x \in 1 .. a + 1, y \in 1 .. b + 1 :
              Id(keys2[y]) = Id(ls2[x].key) => (x = at <=> y = pos)
        <5>1. ASSUME NEW x \in 1 .. a + 1, NEW y \in 1 .. b + 1, Id(keys2[y]) = Id(ls2[x].key), x = at
              PROVE  y = pos
          <6>1. Id(keys2[y]) = Id(key)
            BY <1>2, <2>7, <5>1
          <6>2. SUFFICES ASSUME y # pos PROVE FALSE
            OBVIOUS
          <6>3. PICK o \in 1 .. b : keys2[y] = keys[o]
            BY <2>6, <6>2
          <6> QED
            BY <2>2, <6>1, <6>3
        <5>2. ASSUME NEW x \in 1 .. a + 1, NEW y \in 1 .. b + 1, Id(keys2[y]) = Id(ls2[x].key), y = pos
              PROVE  x = at
          <6>1. Id(ls2[x].key) = Id(key)
            BY <2>7, <5>2
          <6>2. SUFFICES ASSUME x # at PROVE FALSE
            OBVIOUS
          <6>3. PICK o \in 1 .. a : ls2[x] = ls[o]
            BY <2>5, <6>2
          <6> QED
            BY <2>1, <6>1, <6>3
        <5> QED
          BY <5>1, <5>2
      <4> QED
        BY <2>8, <4>1
    <3>2. \A x \in 1 .. a, y \in 1 .. b :
            ~ls[x].read /\ Id(keys[y]) = Id(ls[x].key) => (x < at <=> y < pos)
      BY <2>1, <2>2
    <3>3. CASE i = at
      <4>1. p = pos /\ j # at /\ q # pos /\ at < j
        BY <2>8, <3>1, <3>3
      <4>2. PICK x \in 1 .. a : ls2[j] = ls[x] /\ (x < at <=> j < at)
        BY <2>5, <4>1
      <4>3. PICK y \in 1 .. b : keys2[q] = keys[y] /\ (y < pos <=> q < pos)
        BY <2>6, <4>1
      <4>4. ~(q < pos)
        BY <2>1, <2>8, <3>2, <4>1, <4>2, <4>3
      <4> QED
        BY <2>2, <4>1, <4>4
    <3>4. CASE j = at
      <4>1. q = pos /\ i # at /\ p # pos /\ i < at
        BY <2>8, <3>1, <3>4
      <4>2. PICK x \in 1 .. a : ls2[i] = ls[x] /\ (x < at <=> i < at)
        BY <2>5, <4>1
      <4>3. PICK y \in 1 .. b : keys2[p] = keys[y] /\ (y < pos <=> p < pos)
        BY <2>6, <4>1
      <4> QED
        BY <2>8, <3>2, <4>1, <4>2, <4>3
    <3>5. CASE i # at /\ j # at
      <4>0. p # pos /\ q # pos
        BY <3>1, <3>5
      <4>1. PICK x \in 1 .. a : ls2[i] = ls[x] /\ (i < at => x = i) /\ (at < i => x = i - 1)
        BY <2>5, <3>5
      <4>2. PICK z \in 1 .. a : ls2[j] = ls[z] /\ (j < at => z = j) /\ (at < j => z = j - 1)
        BY <2>5, <3>5
      <4>3. PICK y \in 1 .. b : keys2[p] = keys[y] /\ (p < pos => y = p) /\ (pos < p => y = p - 1)
        BY <2>6, <4>0
      <4>4. PICK w \in 1 .. b : keys2[q] = keys[w] /\ (q < pos => w = q) /\ (pos < q => w = q - 1)
        BY <2>6, <4>0
      <4>5. x < z
        BY <2>1, <2>8, <3>5, <4>1, <4>2
      <4>6. y < w
        <5>1. x \in DOMAIN ls /\ z \in DOMAIN ls /\ y \in DOMAIN keys /\ w \in DOMAIN keys
          BY <2>1, <2>2
        <5>2. /\ ~ls[x].read /\ ~ls[z].read
              /\ Id(keys[y]) = Id(ls[x].key) /\ Id(keys[w]) = Id(ls[z].key)
          BY <2>8, <4>1, <4>2, <4>3, <4>4
        <5>3. SameOrder(ls, keys)
          BY <1>1
        <5> QED
          BY ONLY <4>5, <5>1, <5>2, <5>3 DEF SameOrder
      <4>7. p \in Nat /\ q \in Nat /\ pos \in Nat /\ y \in Nat /\ w \in Nat
        BY <2>2, <4>3, <4>4
      <4>8. /\ (p < pos => y = p) /\ (pos < p => y = p - 1)
            /\ (q < pos => w = q) /\ (pos < q => w = q - 1)
        BY <4>3, <4>4
      <4> QED
        BY ONLY <4>0, <4>6, <4>7, <4>8
    <3> QED
      BY <3>3, <3>4, <3>5
  <2> QED
    BY <2>3, <2>4, <2>8 DEF SameOrder
<1> QED
  BY <1>4, <1>5, <1>8, <1>9, <1>10 DEF Recorded

\* A lane that is only read goes last and has no row.
LEMMA ReadGrown ==
    ASSUME NEW ls, NEW keys, NEW n, NEW d, Recorded(ls, keys, n, d),
           NEW key \in Signals,
           NEW ls2 \in Lanes, Put(ls2, ls, Len(ls) + 1, [key |-> key, read |-> TRUE]),
           \A i \in DOMAIN ls : Id(ls[i].key) # Id(key)
    PROVE  Recorded(ls2, keys, n, d)
<1> DEFINE lane == [key |-> key, read |-> TRUE]
<1>1. /\ ls \in Lanes /\ keys \in Rows /\ LanesApart(ls) /\ RowsApart(keys)
      /\ PlottedFirst(ls) /\ HasRow(ls, keys) /\ HasLane(ls, keys, n, d) /\ SameOrder(ls, keys)
  BY DEF Recorded
<1>2. lane \in Lane /\ lane.key = key /\ lane.read
  BY DEF Lane
<1> HIDE DEF lane
<1>3. PICK a \in Nat : a = Len(ls) /\ DOMAIN ls = 1 .. a
  BY <1>1 DEF Lanes
<1>4. /\ DOMAIN ls2 = 1 .. a + 1 /\ ls2[a + 1] = lane
      /\ \A j \in 1 .. a : ls2[j] = ls[j]
  <2>1. Put(ls2, ls, a + 1, lane)
    BY <1>3 DEF lane
  <2>2. DOMAIN ls2 = 1 .. a + 1
    BY <1>3, <2>1 DEF Put
  <2>3. ASSUME NEW j \in 1 .. a PROVE ls2[j] = ls[j]
    BY <2>1, <2>2 DEF Put
  <2>4. ls2[a + 1] = lane
    BY <2>1, <2>2 DEF Put
  <2> QED
    BY <2>2, <2>3, <2>4
<1>5. LanesApart(ls2)
  <2>1. ASSUME NEW i \in 1 .. a + 1, NEW j \in 1 .. a + 1, Id(ls2[i].key) = Id(ls2[j].key)
        PROVE  i = j
    <3>1. CASE i \in 1 .. a /\ j \in 1 .. a
      BY <1>1, <1>3, <1>4, <2>1, <3>1 DEF LanesApart
    <3>2. CASE i = a + 1 /\ j \in 1 .. a
      BY <1>2, <1>3, <1>4, <2>1, <3>2
    <3>3. CASE j = a + 1 /\ i \in 1 .. a
      BY <1>2, <1>3, <1>4, <2>1, <3>3
    <3> QED
      BY <3>1, <3>2, <3>3
  <2> QED
    BY <1>4, <2>1 DEF LanesApart
<1>6. PlottedFirst(ls2)
  <2>1. ASSUME NEW i \in 1 .. a + 1, NEW j \in 1 .. a + 1, i < j, ls2[i].read
        PROVE  ls2[j].read
    <3>1. i \in 1 .. a
      BY <2>1
    <3>2. CASE j = a + 1
      BY <1>2, <1>4, <3>2
    <3>3. CASE j \in 1 .. a
      BY <1>1, <1>3, <1>4, <2>1, <3>1, <3>3 DEF PlottedFirst
    <3> QED
      BY <3>2, <3>3
  <2> QED
    BY <1>4, <2>1 DEF PlottedFirst
<1>7. \A i \in DOMAIN ls2 : ~ls2[i].read => i \in DOMAIN ls /\ ls2[i] = ls[i]
  BY <1>2, <1>3, <1>4
<1>8. \A i \in DOMAIN ls : i \in DOMAIN ls2 /\ ls2[i] = ls[i]
  BY <1>3, <1>4
<1>9. HasRow(ls2, keys)
  BY <1>1, <1>7 DEF HasRow
<1>10. HasLane(ls2, keys, n, d)
  BY <1>1, <1>8 DEF HasLane
<1>11. SameOrder(ls2, keys)
  BY <1>1, <1>7 DEF SameOrder
<1> QED
  BY <1>1, <1>5, <1>6, <1>9, <1>10, <1>11 DEF Recorded

-----------------------------------------------------------------------------
(* One signal's lane and row                                                *)

LEMMA NoLaneIs ==
    ASSUME NEW ls \in Lanes, NEW key
    PROVE  /\ NoLane(ls, key) \in Lanes
           /\ \E f : /\ Leads(f, NoLane(ls, key), OtherLanes(ls, key))
                     /\ \A j \in DOMAIN NoLane(ls, key) : NoLane(ls, key)[j] = ls[f[j]]
<1> DEFINE kept == {i \in DOMAIN ls : ls[i].key # key}
<1>1. kept \in SUBSET DOMAIN ls /\ ls \in Seq(Lane)
  BY DEF Lanes
<1>2. NoLane(ls, key) = Remaining(ls, kept)
  BY DEF NoLane
<1> HIDE DEF kept
<1>3. /\ NoLane(ls, key) \in Seq(Lane)
      /\ \E f : Leads(f, NoLane(ls, key), kept)
                /\ \A j \in DOMAIN NoLane(ls, key) : NoLane(ls, key)[j] = ls[f[j]]
  BY <1>1, <1>2, RetainedLeads
<1> QED
  BY <1>3 DEF Lanes, kept, OtherLanes

LEMMA UnlistedIs ==
    ASSUME NEW keys \in Rows, NEW key
    PROVE  /\ Unlisted(keys, key) \in Rows
           /\ \E g : /\ Leads(g, Unlisted(keys, key), OtherRows(keys, key))
                     /\ \A j \in DOMAIN Unlisted(keys, key) : Unlisted(keys, key)[j] = keys[g[j]]
<1> DEFINE kept == {i \in DOMAIN keys : keys[i] # key}
<1>1. kept \in SUBSET DOMAIN keys /\ keys \in Seq(Signals)
  BY DEF Rows
<1>2. Unlisted(keys, key) = Remaining(keys, kept)
  BY DEF Unlisted
<1> HIDE DEF kept
<1>3. /\ Unlisted(keys, key) \in Seq(Signals)
      /\ \E g : Leads(g, Unlisted(keys, key), kept)
                /\ \A j \in DOMAIN Unlisted(keys, key) : Unlisted(keys, key)[j] = keys[g[j]]
  BY <1>1, <1>2, RetainedLeads
<1> QED
  BY <1>3 DEF Rows, kept, OtherRows

LEMMA NoLaneKeys ==
    ASSUME NEW ls \in Lanes, NEW key
    PROVE  KeysOf(NoLane(ls, key)) = KeysOf(ls) \ {key}
<1> DEFINE left == NoLane(ls, key)
<1>1. PICK f : /\ Leads(f, left, OtherLanes(ls, key))
               /\ \A j \in DOMAIN left : left[j] = ls[f[j]]
  BY NoLaneIs
<1> HIDE DEF left
<1>2. \A j \in DOMAIN left : f[j] \in DOMAIN ls /\ ls[f[j]].key # key
  BY <1>1 DEF Leads, OtherLanes, OtherRows
<1>3. \A i \in DOMAIN ls : ls[i].key # key => \E j \in DOMAIN left : f[j] = i
  BY <1>1 DEF Leads, OtherLanes, OtherRows
<1>4. KeysOf(left) = KeysOf(ls) \ {key}
  BY <1>1, <1>2, <1>3 DEF KeysOf
<1> QED
  BY <1>4 DEF left

LEMMA UnlistedKeys ==
    ASSUME NEW keys \in Rows, NEW key
    PROVE  ToSet(Unlisted(keys, key)) = ToSet(keys) \ {key}
<1> DEFINE left == Unlisted(keys, key)
<1>1. PICK g : /\ Leads(g, left, OtherRows(keys, key))
               /\ \A j \in DOMAIN left : left[j] = keys[g[j]]
  BY UnlistedIs
<1> HIDE DEF left
<1>2. \A j \in DOMAIN left : g[j] \in DOMAIN keys /\ keys[g[j]] # key
  BY <1>1 DEF Leads, OtherLanes, OtherRows
<1>3. \A i \in DOMAIN keys : keys[i] # key => \E j \in DOMAIN left : g[j] = i
  BY <1>1 DEF Leads, OtherLanes, OtherRows
<1>4. ToSet(left) = ToSet(keys) \ {key}
  BY <1>1, <1>2, <1>3 DEF ToSet
<1> QED
  BY <1>4 DEF left

\* What a list holds that has one more.
LEMMA HoldsKeys ==
    ASSUME NEW keys, NEW more, NEW key, Holds(more, keys, key)
    PROVE  ToSet(more) = ToSet(keys) \cup {key}
BY DEF ToSet, Holds

LEMMA HoldsLanes ==
    ASSUME NEW ls, NEW more, NEW lane, Holds(more, ls, lane)
    PROVE  KeysOf(more) = KeysOf(ls) \cup {lane.key}
<1>1. KeysOf(more) \subseteq KeysOf(ls) \cup {lane.key}
  BY DEF KeysOf, Holds
<1>2. KeysOf(ls) \cup {lane.key} \subseteq KeysOf(more)
  BY DEF KeysOf, Holds
<1> QED
  BY <1>1, <1>2

LEMMA InsertHolds ==
    ASSUME NEW S, NEW s \in Seq(S), NEW e \in S, NEW at \in 1 .. Len(s) + 1
    PROVE  Holds(InsertAt(s, at, e), s, e)
BY InsertPuts, PutHolds

LEMMA AppendHolds ==
    ASSUME NEW S, NEW s \in Seq(S), NEW e \in S
    PROVE  Holds(Append(s, e), s, e)
<1>1. Put(Append(s, e), s, Len(s) + 1, e)
  BY AppendPuts
<1>2. Len(s) + 1 \in 1 .. Len(s) + 1
  OBVIOUS
<1> QED
  BY <1>1, <1>2, PutHolds

\* key is what every lane and row of its identity says.
Exact(ls, keys, key) ==
    /\ \A i \in DOMAIN ls : Id(ls[i].key) = Id(key) => ls[i].key = key
    /\ \A p \in DOMAIN keys : Id(keys[p]) = Id(key) => keys[p] = key
NoneOf(ls, key) == \A i \in DOMAIN ls : Id(ls[i].key) # Id(key)
NoRowOf(keys, key) == \A p \in DOMAIN keys : Id(keys[p]) # Id(key)

\* A lane goes with its row.
LEMMA BothGo ==
    ASSUME NEW ls, NEW keys, NEW n, NEW d, Recorded(ls, keys, n, d),
           NEW key \in Signals, Exact(ls, keys, key)
    PROVE  /\ Recorded(NoLane(ls, key), Unlisted(keys, key), n, d)
           /\ NoneOf(NoLane(ls, key), key) /\ NoRowOf(Unlisted(keys, key), key)
<1>0. ls \in Lanes /\ keys \in Rows
  BY DEF Recorded
<1>10. PICK f : /\ Leads(f, NoLane(ls, key), OtherLanes(ls, key))
                /\ \A j \in DOMAIN NoLane(ls, key) : NoLane(ls, key)[j] = ls[f[j]]
  BY <1>0, NoLaneIs
<1>11. PICK g : /\ Leads(g, Unlisted(keys, key), OtherRows(keys, key))
                /\ \A j \in DOMAIN Unlisted(keys, key) : Unlisted(keys, key)[j] = keys[g[j]]
  BY <1>0, UnlistedIs
<1> DEFINE left == NoLane(ls, key)
           rest == Unlisted(keys, key)
           A == OtherLanes(ls, key)
           B == OtherRows(keys, key)
<1>1. Leads(f, left, A) /\ \A j \in DOMAIN left : left[j] = ls[f[j]]
  BY <1>10
<1>2. Leads(g, rest, B) /\ \A j \in DOMAIN rest : rest[j] = keys[g[j]]
  BY <1>11
<1>3. left \in Lanes /\ rest \in Rows
  BY <1>0, NoLaneIs, UnlistedIs
<1>4. A \in SUBSET DOMAIN ls /\ B \in SUBSET DOMAIN keys
  BY DEF OtherLanes, OtherRows
<1>5. \A i \in A, p \in DOMAIN keys : ~ls[i].read /\ Id(keys[p]) = Id(ls[i].key) => p \in B
  BY DEF Exact, OtherLanes, OtherRows
<1>6. \A p \in B, i \in DOMAIN ls :
        ~ls[i].read /\ Id(keys[p]) = Id(ls[i].key) /\ Alive(keys[p], n, d) => i \in A
  BY DEF Exact, OtherLanes, OtherRows
<1>7. (\A i \in A : Id(ls[i].key) # Id(key)) /\ (\A p \in B : Id(keys[p]) # Id(key))
  BY DEF Exact, OtherLanes, OtherRows
<1> HIDE DEF left, rest, A, B
<1>8. Recorded(left, rest, n, d)
  <2>1. \A j \in DOMAIN left : left[j].read = ls[f[j]].read /\ Id(left[j].key) = Id(ls[f[j]].key)
    BY <1>1
  <2>2. \A q \in DOMAIN rest : Id(rest[q]) = Id(keys[g[q]])
    BY <1>2
  <2>3. \A p \in B : Alive(keys[p], n, d) => Alive(keys[p], n, d)
    OBVIOUS
  <2> QED
    BY <1>1, <1>2, <1>3, <1>4, <1>5, <1>6, <2>1, <2>2, <2>3, Thinned
<1>9. NoneOf(left, key) /\ NoRowOf(rest, key)
  BY <1>1, <1>2, <1>7 DEF NoneOf, NoRowOf, Leads
<1> QED
  BY <1>8, <1>9 DEF left, rest

\* A lane that is only read goes alone.
LEMMA LaneGoes ==
    ASSUME NEW ls, NEW keys, NEW n, NEW d, Recorded(ls, keys, n, d),
           NEW key \in Signals, Exact(ls, keys, key),
           \A i \in DOMAIN ls : ls[i].key = key => ls[i].read
    PROVE  Recorded(NoLane(ls, key), keys, n, d) /\ NoneOf(NoLane(ls, key), key)
<1> DEFINE left == NoLane(ls, key)
           A == OtherLanes(ls, key)
           B == DOMAIN keys
           g == [j \in DOMAIN keys |-> j]
<1>0. ls \in Lanes /\ keys \in Rows
  BY DEF Recorded
<1>1. PICK f : Leads(f, left, A) /\ \A j \in DOMAIN left : left[j] = ls[f[j]]
  BY <1>0, NoLaneIs
<1>2. Leads(g, keys, B) /\ \A j \in DOMAIN keys : keys[j] = keys[g[j]]
  BY <1>0, LeadsToAll DEF Rows
<1>3. left \in Lanes
  BY <1>0, NoLaneIs
<1>4. A \in SUBSET DOMAIN ls /\ B \in SUBSET DOMAIN keys
  BY DEF OtherLanes, OtherRows
<1>5. \A i \in A, p \in DOMAIN keys : ~ls[i].read /\ Id(keys[p]) = Id(ls[i].key) => p \in B
  OBVIOUS
<1>6. \A p \in B, i \in DOMAIN ls :
        ~ls[i].read /\ Id(keys[p]) = Id(ls[i].key) /\ Alive(keys[p], n, d) => i \in A
  BY DEF OtherLanes
<1>7. \A i \in A : Id(ls[i].key) # Id(key)
  BY DEF Exact, OtherLanes, OtherRows
<1> HIDE DEF left, A, B, g
<1>8. Recorded(left, keys, n, d)
  <2>1. \A j \in DOMAIN left : left[j].read = ls[f[j]].read /\ Id(left[j].key) = Id(ls[f[j]].key)
    BY <1>1
  <2>2. \A q \in DOMAIN keys : Id(keys[q]) = Id(keys[g[q]])
    BY <1>2
  <2>3. \A p \in B : Alive(keys[p], n, d) => Alive(keys[p], n, d)
    OBVIOUS
  <2> QED
    BY <1>0, <1>1, <1>2, <1>3, <1>4, <1>5, <1>6, <2>1, <2>2, <2>3, Thinned
<1>9. NoneOf(left, key)
  BY <1>1, <1>7 DEF NoneOf, Leads
<1> QED
  BY <1>8, <1>9 DEF left

-----------------------------------------------------------------------------
(* What is sampled                                                          *)

LEMMA SampledMore ==
    ASSUME NEW V, NEW s, NEW lv, NEW def, SampledBy(V, s, lv, def), NEW key \in Signals
    PROVE  SampledBy(V \cup {key}, s \cup {key}, lv, def)
BY DEF SampledBy

LEMMA SampledLess ==
    ASSUME NEW V, NEW s, NEW lv, NEW def, SampledBy(V, s, lv, def), NEW W \in SUBSET V, NEW K,
           V \ W \subseteq K, \A key \in def : IsDerived(key)
    PROVE  SampledBy(W, {key \in s : key \notin K \/ IsDerived(key) \/ key \in W}, lv, def)
BY DEF SampledBy

-----------------------------------------------------------------------------
(* The commands of the pages                                                *)

LEMMA Within ==
    ASSUME NEW b \in Nat, NEW c \in Nat, b <= c, NEW a \in 0 .. b
    PROVE  a \in 0 .. c /\ a <= c
OBVIOUS

LEMMA KeysTyped ==
    ASSUME Steady, IInv
    PROVE  /\ Keys \subseteq Signals /\ Definition \subseteq Signals
           /\ \A key \in Definition : IsDerived(key) /\ key = Derived(identity, name) /\ name # ""
           /\ \A key \in Keys : IsDerived(key) => key \in Definition
           /\ \A key \in Keys : Binds(key) /\ Alive(key, name, identity)
<1>1. /\ live \subseteq Clusters /\ name \in Names \cup {""} /\ identity \in 0 .. commands
      /\ commands \in 0 .. MaxCommands /\ MaxCommands \in Nat
  BY DEF Steady, IInv, Kept, Project
<1>2. identity \in 0 .. MaxCommands
  <2>1. commands \in 0 .. MaxCommands /\ MaxCommands \in Nat
    BY <1>1
  <2>2. commands \in Nat /\ commands <= MaxCommands
    BY ONLY <2>1
  <2> QED
    BY <1>1, <2>1, <2>2, Within
<1>3. \A key \in Definition : key = Derived(identity, name) /\ name # ""
  BY DEF Definition
<1>4. \A key \in Definition : IsDerived(key) /\ key \in Signals /\ key[2] = identity
  <2>1. ASSUME NEW key \in Definition
        PROVE  name \in Names /\ key = Derived(identity, name)
    BY <1>1, <1>3
  <2> QED
    BY <1>2, <2>1, Kinds
<1>5. \A key \in Keys : key \in Definition \/ \E c \in live : key = Can(c)
  BY DEF Keys
<1>6. \A c \in live : Can(c) \in Signals /\ ~IsDerived(Can(c)) /\ Can(c)[2] = c
  BY <1>1, Kinds
<1>7. \A key \in Keys : key \in Signals /\ (IsDerived(key) => key \in Definition)
  BY <1>4, <1>5, <1>6
<1>8. \A key \in Keys : Binds(key)
  BY <1>4, <1>5, <1>6 DEF Binds
<1>9. \A key \in Keys : Alive(key, name, identity)
  BY <1>3, <1>4, <1>7 DEF Alive
<1> QED
  BY <1>3, <1>4, <1>7, <1>8, <1>9

LEMMA RowsTyped ==
    ASSUME Steady, IInv
    PROVE  /\ DOMAIN rows = Windows /\ "graphics" \in Windows
           /\ \A w \in Windows : rows[w] \in Rows /\ rows[w] \in Seq(Signals)
           /\ lanes \in Lanes /\ lanes \in Seq(Lane)
           /\ Recorded(lanes, rows["graphics"], name, identity)
BY DEF IInv, Kept, Project, Recorded, Windows, Rows, Lanes

\* Once the pages have seen what there is, an identity is one signal.
LEMMA ExactFor ==
    ASSUME Steady, IInv, ~lag, NEW key \in Keys
    PROVE  Exact(lanes, rows["graphics"], key)
<1>1. ~lag /\ key \in Keys
  OBVIOUS
<1>2. key \in Signals
  BY <1>1, KeysTyped
<1>3. ASSUME NEW i \in DOMAIN lanes, Id(lanes[i].key) = Id(key)
      PROVE  lanes[i].key = key
  <2>1. lanes[i].key \in Signals
    <3>1. lanes \in Seq(Lane)
      BY RowsTyped
    <3>2. lanes[i] \in Lane
      BY <1>3, <3>1
    <3> QED
      BY <3>2 DEF Lane
  <2>2. CASE IsDerived(key)
    <3>1. IsDerived(lanes[i].key)
      BY <1>2, <1>3, <2>1, <2>2, Keyed
    <3>2. lanes[i].key \in Definition /\ key \in Definition
      BY <1>1, <2>2, <3>1, KeysTyped DEF IInv, Published
    <3> QED
      BY <3>2, KeysTyped
  <2>3. CASE ~IsDerived(key)
    BY <1>2, <1>3, <2>1, <2>3, Keyed
  <2> QED
    BY <2>2, <2>3
<1>4. ASSUME NEW p \in DOMAIN rows["graphics"], Id(rows["graphics"][p]) = Id(key)
      PROVE  rows["graphics"][p] = key
  <2> DEFINE row == rows["graphics"][p]
  <2>1. row \in Signals /\ row \in ToSet(rows["graphics"])
    BY RowsTyped DEF ToSet
  <2> HIDE DEF row
  <2>0. Id(row) = Id(key)
    BY <1>4 DEF row
  <2>2. CASE IsDerived(key)
    <3>1. IsDerived(row) /\ row[2] = key[2]
      BY <1>2, <2>0, <2>1, <2>2, Keyed
    <3>2. key = Derived(identity, name) /\ name # ""
      BY <1>1, <2>2, KeysTyped
    <3>3. row[2] = identity /\ key[3] = name
      BY <3>1, <3>2, Kinds
    <3>4. row[3] = name
      BY <2>1, <3>1, <3>2, <3>3 DEF IInv, Kept, Project, Called
    <3> QED
      BY <1>2, <2>0, <2>1, <2>2, <3>1, <3>3, <3>4, Keyed DEF row
  <2>3. CASE ~IsDerived(key)
    BY <1>2, <2>0, <2>1, <2>3, Keyed DEF row
  <2> QED
    BY <2>2, <2>3
<1> QED
  BY <1>3, <1>4 DEF Exact

\* A page that sees what there is means one signal.
LEMMA OfferedIs ==
    ASSUME Steady, IInv, NEW key \in Offered
    PROVE  ~lag /\ key \in Keys /\ key \in Signals /\ Exact(lanes, rows["graphics"], key)
<1>1. ~lag /\ key \in Keys
  BY DEF Offered, Steady, IInv, Published
<1> QED
  BY <1>1, KeysTyped, ExactFor

\* A project of before is one of later.
LEMMA ProjectLater ==
    ASSUME NEW rs, NEW n, NEW d, NEW b \in Nat, NEW c \in Nat, b <= c, Project(rs, n, d, b)
    PROVE  Project(rs, n, d, c)
<1>1. d \in 0 .. c
  BY Within DEF Project
<1>2. ASSUME NEW key \in ToSet(rs["graphics"]), IsDerived(key) PROVE key[2] <= c
  <2>1. rs["graphics"] \in Seq(Signals)
    BY DEF Rows, Project, Windows
  <2>2. key \in Signals
    BY <1>2, <2>1 DEF ToSet
  <2>3. key[2] \in 0 .. MaxCommands
    BY <1>2, <2>2, Kinds
  <2>4. key[2] <= b
    BY <1>2 DEF Project, Known
  <2> QED
    BY <2>3, <2>4
<1> QED
  BY <1>1, <1>2 DEF Project, Known

\* What a command keeps that edits lanes, rows and subscriptions only.
LEMMA Charted ==
    ASSUME Steady, IInv, Charting,
           DOMAIN rows' = Windows, \A w \in Windows : (rows')[w] \in Rows,
           Recorded(lanes', (rows')["graphics"], name, identity),
           ToSet((rows')["graphics"]) \subseteq ToSet(rows["graphics"]) \cup Keys,
           KeysOf(lanes') \subseteq KeysOf(lanes) \cup Keys,
           SampledBy(KeysOf(lanes') \cup Listed(rows'), subs', live, Definition)
    PROVE  IInv'
<1>1. /\ name' = name /\ identity' = identity /\ live' = live /\ lag' = lag /\ page' = page
      /\ served' = served /\ saved' = saved
      /\ commands < MaxCommands /\ commands' = commands + 1
  BY DEF Charting, Command
<1>2. /\ commands \in Nat /\ commands' \in 0 .. MaxCommands /\ MaxCommands \in Nat
      /\ commands' \in Nat /\ commands <= commands'
  BY <1>1 DEF Steady, IInv, Kept
<1>5. Project(saved.rows, saved.name, saved.identity, commands')
  BY <1>2, ProjectLater DEF IInv, Kept
<1>6. Project(rows', name, identity, commands')
  <2>1. RowsApart((rows')["graphics"])
    BY DEF Recorded
  <2>2. \A key \in Keys : IsDerived(key) => key[2] = identity /\ key[3] = name
    <3>1. \A key \in Keys : IsDerived(key) => key = Derived(identity, name)
      BY KeysTyped
    <3> QED
      BY <3>1, Kinds
  <2>3. Called((rows')["graphics"], name, identity)
    <3>1. Called(rows["graphics"], name, identity)
      BY DEF IInv, Kept, Project
    <3> QED
      BY <2>2, <3>1 DEF Called
  <2>4. name \in Names \cup {""} /\ identity \in 0 .. commands'
    <3>1. name \in Names \cup {""} /\ identity \in 0 .. commands
      BY DEF IInv, Kept, Project
    <3> QED
      BY <1>2, <3>1, Within
  <2>5. Known((rows')["graphics"], commands')
    <3>1. Known(rows["graphics"], commands')
      <4>1. Project(rows, name, identity, commands')
        BY <1>2, ProjectLater DEF IInv, Kept
      <4> QED
        BY <4>1 DEF Project
    <3>2. identity <= commands'
      <4>1. identity \in 0 .. commands
        BY DEF IInv, Kept, Project
      <4> QED
        BY <1>2, <4>1, Within
    <3> QED
      BY <2>2, <3>1, <3>2 DEF Known
  <2> QED
    BY <2>1, <2>3, <2>4, <2>5 DEF Project
<1>7. Kept'
  BY <1>1, <1>2, <1>5, <1>6 DEF Kept, IInv
<1>8. Definition' = Definition /\ Keys' = Keys
  BY <1>1 DEF Definition, Keys
<1>9. Published'
  <2>1. ASSUME ~lag
        PROVE  \A i \in DOMAIN lanes' : IsDerived((lanes')[i].key) => (lanes')[i].key \in Definition
    <3>1. ASSUME NEW i \in DOMAIN lanes', IsDerived((lanes')[i].key)
          PROVE  (lanes')[i].key \in Definition
      <4>1. (lanes')[i].key \in KeysOf(lanes) \cup Keys
        BY DEF KeysOf
      <4>2. CASE (lanes')[i].key \in Keys
        BY <3>1, <4>2, KeysTyped
      <4>3. CASE (lanes')[i].key \in KeysOf(lanes)
        BY <2>1, <3>1, <4>3 DEF KeysOf, IInv, Published
      <4> QED
        BY <4>1, <4>2, <4>3
    <3> QED
      BY <3>1
  <2> QED
    BY <1>1, <1>8, <2>1 DEF Published, IInv
<1>10. Sampled'
  BY <1>1, <1>8 DEF Sampled
<1> QED
  BY <1>7, <1>9, <1>10 DEF IInv

\* What is listed when one window changes.
Relisted(r2, r, w, keys) ==
    /\ DOMAIN r2 = Windows /\ r2[w] = keys
    /\ \A v \in Windows : v # w => r2[v] = r[v]
    /\ \A key : key \in Listed(r2) <=>
         key \in ToSet(keys) \/ \E v \in Windows \ {w} : key \in ToSet(r[v])
    /\ \A key : key \in Listed(r) <=>
         key \in ToSet(r[w]) \/ \E v \in Windows \ {w} : key \in ToSet(r[v])
LEMMA ListedNow ==
    ASSUME NEW r, DOMAIN r = Windows, NEW w \in Windows, NEW keys, NEW r2,
           r2 = [r EXCEPT ![w] = keys]
    PROVE  Relisted(r2, r, w, keys)
<1>1. DOMAIN r2 = Windows /\ r2[w] = keys /\ \A v \in Windows : v # w => r2[v] = r[v]
  OBVIOUS
<1>2. \A key : key \in Listed(r2) <=>
        key \in ToSet(keys) \/ \E v \in Windows \ {w} : key \in ToSet(r[v])
  BY <1>1 DEF Listed
<1>3. \A key : key \in Listed(r) <=>
        key \in ToSet(r[w]) \/ \E v \in Windows \ {w} : key \in ToSet(r[v])
  BY DEF Listed
<1> QED
  BY <1>1, <1>2, <1>3 DEF Relisted

LEMMA SelectKeeps ==
    ASSUME Steady, IInv, NEW key \in Offered, SelectSignal(key, FALSE)
    PROVE  IInv'
<1> DEFINE others == NoLane(lanes, key)
           R == rows["graphics"]
           lane == [key |-> key, read |-> FALSE]
<1>1. /\ ~lag /\ key \in Keys /\ key \in Signals /\ Exact(lanes, R, key)
      /\ Binds(key) /\ Alive(key, name, identity)
  BY OfferedIs, KeysTyped
<1>2. /\ DOMAIN rows = Windows /\ "graphics" \in Windows
      /\ \A w \in Windows : rows[w] \in Rows /\ rows[w] \in Seq(Signals)
      /\ lanes \in Lanes /\ lanes \in Seq(Lane) /\ Recorded(lanes, R, name, identity)
  BY RowsTyped
<1>3. /\ Charting /\ (Shown(key) => IsRead(key))
      /\ lanes' = InsertAt(others, FirstRead(others), lane)
      /\ rows' = Row(rows, "graphics", key) /\ subs' = subs \cup {key}
  <2>1. /\ Charting /\ lanes' = SelectKeyMode(lanes, key, FALSE)
        /\ rows' = Row(rows, "graphics", key) /\ subs' = Watched(subs, key)
    BY DEF SelectSignal
  <2>2. Shown(key) => IsRead(key)
    BY DEF SelectSignal, IsRead
  <2>3. SelectKeyMode(lanes, key, FALSE) = InsertAt(others, FirstRead(others), lane)
    BY <1>1 DEF SelectKeyMode
  <2> QED
    BY <1>1, <2>1, <2>2, <2>3 DEF Watched
<1>4. ASSUME NEW i \in DOMAIN lanes, lanes[i].key = key PROVE lanes[i].read
  <2>1. Shown(key)
    BY <1>4 DEF Shown
  <2>2. PICK j \in DOMAIN lanes : lanes[j] = [key |-> key, read |-> TRUE]
    BY <1>3, <2>1 DEF IsRead
  <2>3. i = j
    BY <1>2, <1>4, <2>2 DEF Recorded, LanesApart
  <2> QED
    BY <2>2, <2>3
<1>5. Recorded(others, R, name, identity) /\ NoneOf(others, key)
  BY <1>1, <1>2, <1>4, LaneGoes
<1>6. NoRowOf(R, key)
  <2>1. ASSUME NEW p \in DOMAIN R, Id(R[p]) = Id(key) PROVE FALSE
    <3>1. R[p] = key
      BY <1>1, <2>1 DEF Exact
    <3>2. PICK i \in DOMAIN lanes : ~lanes[i].read /\ Id(lanes[i].key) = Id(key)
      BY <1>1, <1>2, <3>1 DEF Recorded, HasLane
    <3> QED
      BY <1>1, <1>4, <3>2 DEF Exact
  <2> QED
    BY <2>1 DEF NoRowOf
<1>7. key \notin ToSet(R)
  BY <1>6 DEF NoRowOf, ToSet
<1> HIDE DEF others, R, lane
<1>8. others \in Lanes /\ others \in Seq(Lane) /\ R \in Rows /\ R \in Seq(Signals)
  BY <1>2, <1>5 DEF Recorded, Lanes, R
<1>9. lane \in Lane /\ lane.key = key
  BY <1>1 DEF lane, Lane
<1>10. FirstRead(others) \in 1 .. Len(others) + 1
  BY <1>8, FirstReadIs
<1>11. /\ lanes' \in Seq(Lane) /\ Put(lanes', others, FirstRead(others), lane)
       /\ Holds(lanes', others, lane)
  BY <1>3, <1>8, <1>9, <1>10, InsertPuts, InsertHolds
<1>12. rows' = [rows EXCEPT !["graphics"] = Append(R, key)]
  BY <1>3, <1>7 DEF Row, R
<1>13. /\ DOMAIN rows' = Windows /\ (rows')["graphics"] = Append(R, key)
       /\ \A v \in Windows : v # "graphics" => (rows')[v] = rows[v]
       /\ \A k : k \in Listed(rows') <=>
            k \in ToSet(Append(R, key)) \/ \E v \in Windows \ {"graphics"} : k \in ToSet(rows[v])
       /\ \A k : k \in Listed(rows) <=>
            k \in ToSet(R) \/ \E v \in Windows \ {"graphics"} : k \in ToSet(rows[v])
  <2>1. Relisted(rows', rows, "graphics", Append(R, key))
    BY <1>2, <1>12, ListedNow
  <2> QED
    BY <2>1 DEF Relisted, R
<1>14. /\ Append(R, key) \in Seq(Signals) /\ Put(Append(R, key), R, Len(R) + 1, key)
       /\ Holds(Append(R, key), R, key)
  BY <1>1, <1>8, AppendPuts, AppendHolds
<1>15. Recorded(lanes', Append(R, key), name, identity)
  <2>1. lanes' \in Lanes /\ Append(R, key) \in Rows
    BY <1>11, <1>14 DEF Lanes, Rows
  <2>2. PICK b \in Nat : b = Len(R) /\ DOMAIN R = 1 .. b
    BY <1>8
  <2>3. Len(R) + 1 \in 1 .. Len(R) + 1 /\ \A p \in DOMAIN R : p < Len(R) + 1
    BY <2>2
  <2>4. \A i \in DOMAIN others : ~others[i].read => i < FirstRead(others)
    BY <1>5, <1>8, PlottedOnes DEF Recorded
  <2>5. FirstRead(others) <= FirstRead(others)
    BY <1>10
  <2>6. (\A i \in DOMAIN others : Id(others[i].key) # Id(key)) /\ \A p \in DOMAIN R : Id(R[p]) # Id(key)
    BY <1>5, <1>6 DEF NoneOf, NoRowOf
  <2>7. Put(lanes', others, FirstRead(others), [key |-> key, read |-> FALSE])
    BY <1>11 DEF lane
  <2>8. \A i \in DOMAIN others, p \in DOMAIN R :
          ~others[i].read /\ Id(R[p]) = Id(others[i].key) =>
            (i < FirstRead(others) <=> p < Len(R) + 1)
    BY <2>3, <2>4
  <2> QED
    BY <1>1, <1>5, <1>10, <1>14, <2>1, <2>3, <2>5, <2>6, <2>7, <2>8, Grown
<1>16. ToSet(Append(R, key)) = ToSet(R) \cup {key}
  BY <1>14, HoldsKeys
<1>17. KeysOf(lanes') = KeysOf(lanes) \cup {key}
  <2>1. KeysOf(others) = KeysOf(lanes) \ {key}
    BY <1>2, NoLaneKeys DEF others
  <2>2. KeysOf(lanes') = KeysOf(others) \cup {key}
    BY <1>9, <1>11, HoldsLanes
  <2> QED
    BY <2>1, <2>2
<1>18. KeysOf(lanes') \cup Listed(rows') = (KeysOf(lanes) \cup Listed(rows)) \cup {key}
  BY <1>13, <1>16, <1>17
<1>19. SampledBy(KeysOf(lanes') \cup Listed(rows'), subs', live, Definition)
  BY <1>1, <1>3, <1>18, SampledMore DEF IInv, Sampled
<1>20. \A w \in Windows : (rows')[w] \in Rows
  BY <1>2, <1>13, <1>14 DEF Rows
<1> QED
  BY <1>1, <1>3, <1>13, <1>15, <1>16, <1>17, <1>19, <1>20, Charted DEF R

\* What is no longer shown is no longer sampled, and nothing else.
LEMMA PrunedSampled ==
    ASSUME Steady, IInv, NEW kept, NEW r2, NEW K, NEW s2, s2 = Pruned(subs, K, r2, kept),
           kept \cup Listed(r2) \subseteq KeysOf(lanes) \cup Listed(rows),
           (KeysOf(lanes) \cup Listed(rows)) \ (kept \cup Listed(r2)) \subseteq K
    PROVE  SampledBy(kept \cup Listed(r2), s2, live, Definition)
<1> DEFINE V == KeysOf(lanes) \cup Listed(rows)
           W == kept \cup Listed(r2)
<1>1. s2 = {key \in subs : key \notin K \/ IsDerived(key) \/ key \in W}
  BY DEF Pruned
<1>2. SampledBy(V, subs, live, Definition)
  BY DEF IInv, Sampled
<1>3. \A key \in Definition : IsDerived(key)
  BY KeysTyped
<1>4. W \in SUBSET V /\ V \ W \subseteq K
  OBVIOUS
<1> HIDE DEF V, W
<1>5. SampledBy(W, s2, live, Definition)
  BY <1>1, <1>2, <1>3, <1>4, SampledLess
<1> QED
  BY <1>5 DEF W

LEMMA UnlistedNow ==
    ASSUME Steady, IInv, NEW w \in Windows, NEW key, NEW r2, r2 = NoRow(rows, w, key)
    PROVE  /\ DOMAIN r2 = Windows /\ \A v \in Windows : r2[v] \in Rows
           /\ r2[w] = Unlisted(rows[w], key)
           /\ \A v \in Windows : v # w => r2[v] = rows[v]
           /\ Listed(r2) \subseteq Listed(rows) /\ Listed(rows) \subseteq Listed(r2) \cup {key}
<1>1. /\ DOMAIN rows = Windows /\ \A v \in Windows : rows[v] \in Rows
  BY RowsTyped
<1>2. r2 = [rows EXCEPT ![w] = Unlisted(rows[w], key)]
  BY <1>1 DEF NoRow
<1>3. Relisted(r2, rows, w, Unlisted(rows[w], key))
  BY <1>1, <1>2, ListedNow
<1>4. Unlisted(rows[w], key) \in Rows /\ ToSet(Unlisted(rows[w], key)) = ToSet(rows[w]) \ {key}
  BY <1>1, UnlistedIs, UnlistedKeys
<1>5. \A k : k \in Listed(r2) => k \in Listed(rows)
  BY <1>3, <1>4 DEF Relisted
<1>6. \A k : k \in Listed(rows) /\ k # key => k \in Listed(r2)
  BY <1>3, <1>4 DEF Relisted
<1>7. \A v \in Windows : r2[v] \in Rows
  BY <1>1, <1>3, <1>4 DEF Relisted
<1> QED
  BY <1>3, <1>5, <1>6, <1>7 DEF Relisted

LEMMA ReadKeeps ==
    ASSUME Steady, IInv, NEW key \in Offered, SelectSignal(key, TRUE)
    PROVE  IInv'
<1> DEFINE others == NoLane(lanes, key)
           R == rows["graphics"]
           lane == [key |-> key, read |-> TRUE]
<1>1. /\ ~lag /\ key \in Keys /\ key \in Signals /\ Exact(lanes, R, key)
      /\ Binds(key) /\ Alive(key, name, identity)
  BY OfferedIs, KeysTyped
<1>2. /\ DOMAIN rows = Windows /\ "graphics" \in Windows
      /\ \A w \in Windows : rows[w] \in Rows /\ rows[w] \in Seq(Signals)
      /\ lanes \in Lanes /\ lanes \in Seq(Lane) /\ Recorded(lanes, R, name, identity)
  BY RowsTyped
<1>3. /\ Charting
      /\ lanes' = InsertAt(others, Len(others) + 1, lane) /\ keep' = KeysOf(lanes')
      /\ rows' = IF Shown(key) THEN NoRow(rows, "graphics", key) ELSE rows
      /\ subs' = IF Shown(key) THEN Pruned(subs, {key}, rows', keep') ELSE subs \cup {key}
  <2>1. /\ Charting /\ lanes' = SelectKeyMode(lanes, key, TRUE) /\ keep' = KeysOf(lanes')
        /\ rows' = IF Shown(key) THEN NoRow(rows, "graphics", key) ELSE rows
        /\ subs' = IF Shown(key) THEN Pruned(subs, {key}, rows', keep') ELSE Watched(subs, key)
    BY DEF SelectSignal
  <2>2. SelectKeyMode(lanes, key, TRUE) = InsertAt(others, Len(others) + 1, lane)
    BY <1>1 DEF SelectKeyMode
  <2> QED
    BY <1>1, <2>1, <2>2 DEF Watched
<1>4. Recorded(others, R, name, identity) \/ Shown(key)
  <2>1. ~Shown(key) => \A i \in DOMAIN lanes : lanes[i].key = key => lanes[i].read
    BY DEF Shown
  <2> QED
    BY <1>1, <1>2, <2>1, LaneGoes
<1>5. Recorded(others, Unlisted(R, key), name, identity) /\ NoneOf(others, key)
  BY <1>1, <1>2, BothGo
<1>6. KeysOf(others) = KeysOf(lanes) \ {key}
  BY <1>2, NoLaneKeys
<1> HIDE DEF others, R, lane
<1>8. others \in Lanes /\ others \in Seq(Lane)
  BY <1>5 DEF Recorded, Lanes
<1>9. lane \in Lane /\ lane.key = key
  BY <1>1 DEF lane, Lane
<1>10. Len(others) + 1 \in 1 .. Len(others) + 1
  BY <1>8
<1>11. /\ lanes' \in Seq(Lane) /\ Put(lanes', others, Len(others) + 1, lane)
       /\ Holds(lanes', others, lane)
  BY <1>3, <1>8, <1>9, <1>10, InsertPuts, InsertHolds
<1>12. KeysOf(lanes') = KeysOf(lanes) \cup {key}
  <2>1. KeysOf(lanes') = KeysOf(others) \cup {key}
    BY <1>9, <1>11, HoldsLanes
  <2> QED
    BY <1>6, <2>1
<1>13. ASSUME NEW keys, Recorded(others, keys, name, identity)
       PROVE  Recorded(lanes', keys, name, identity)
  <2>1. Put(lanes', others, Len(others) + 1, [key |-> key, read |-> TRUE]) /\ lanes' \in Lanes
    BY <1>11 DEF lane, Lanes
  <2>2. \A i \in DOMAIN others : Id(others[i].key) # Id(key)
    BY <1>5 DEF NoneOf
  <2> QED
    BY <1>1, <1>13, <2>1, <2>2, ReadGrown
<1>14. CASE Shown(key)
  <2>1. rows' = NoRow(rows, "graphics", key) /\ subs' = Pruned(subs, {key}, rows', KeysOf(lanes'))
    BY <1>3, <1>14
  <2>2. /\ DOMAIN rows' = Windows /\ \A v \in Windows : (rows')[v] \in Rows
        /\ (rows')["graphics"] = Unlisted(R, key)
        /\ Listed(rows') \subseteq Listed(rows) /\ Listed(rows) \subseteq Listed(rows') \cup {key}
    BY <1>2, <2>1, UnlistedNow DEF R
  <2>3. key \in KeysOf(lanes)
    BY <1>14 DEF Shown, KeysOf
  <2>4. SampledBy(KeysOf(lanes') \cup Listed(rows'), subs', live, Definition)
    <3>1. /\ KeysOf(lanes') \cup Listed(rows') \subseteq KeysOf(lanes) \cup Listed(rows)
          /\ (KeysOf(lanes) \cup Listed(rows)) \ (KeysOf(lanes') \cup Listed(rows')) \subseteq {key}
      BY <1>12, <2>2, <2>3
    <3> QED
      BY <2>1, <3>1, PrunedSampled
  <2>5. ToSet(Unlisted(R, key)) \subseteq ToSet(R)
    BY <1>2, UnlistedKeys DEF R
  <2>6. Recorded(lanes', (rows')["graphics"], name, identity)
    BY <1>5, <1>13, <2>2
  <2> QED
    BY <1>1, <1>3, <1>12, <2>2, <2>4, <2>5, <2>6, Charted DEF R
<1>15. CASE ~Shown(key)
  <2>1. rows' = rows /\ subs' = subs \cup {key}
    BY <1>3, <1>15
  <2>2. Recorded(lanes', R, name, identity)
    BY <1>4, <1>13, <1>15
  <2>3. KeysOf(lanes') \cup Listed(rows') = (KeysOf(lanes) \cup Listed(rows)) \cup {key}
    BY <1>12, <2>1
  <2>4. SampledBy(KeysOf(lanes') \cup Listed(rows'), subs', live, Definition)
    BY <1>1, <2>1, <2>3, SampledMore DEF IInv, Sampled
  <2> QED
    BY <1>1, <1>2, <1>3, <1>12, <2>1, <2>2, <2>4, Charted DEF R
<1> QED
  BY <1>14, <1>15

LEMMA UnselectKeeps ==
    ASSUME Steady, IInv, NEW key \in Offered, UnselectSignal(key)
    PROVE  IInv'
<1> DEFINE others == NoLane(lanes, key)
           R == rows["graphics"]
<1>1. /\ key \in Keys /\ key \in Signals /\ Exact(lanes, R, key)
  BY OfferedIs
<1>2. /\ "graphics" \in Windows /\ R \in Rows
      /\ lanes \in Lanes /\ Recorded(lanes, R, name, identity)
  BY RowsTyped
<1>3. /\ Charting /\ Shown(key) /\ lanes' = others
      /\ rows' = NoRow(rows, "graphics", key)
      /\ subs' = Pruned(subs, {key}, rows', KeysOf(lanes'))
  BY DEF UnselectSignal
<1>4. Recorded(lanes', Unlisted(R, key), name, identity)
  BY <1>1, <1>2, <1>3, BothGo
<1>5. KeysOf(lanes') = KeysOf(lanes) \ {key}
  BY <1>2, <1>3, NoLaneKeys
<1>6. ToSet(Unlisted(R, key)) \subseteq ToSet(R)
  BY <1>2, UnlistedKeys
<1> HIDE DEF others, R
<1>7. /\ DOMAIN rows' = Windows /\ \A v \in Windows : (rows')[v] \in Rows
      /\ (rows')["graphics"] = Unlisted(R, key)
      /\ Listed(rows') \subseteq Listed(rows) /\ Listed(rows) \subseteq Listed(rows') \cup {key}
  BY <1>2, <1>3, UnlistedNow DEF R
<1>8. SampledBy(KeysOf(lanes') \cup Listed(rows'), subs', live, Definition)
  <2>1. /\ KeysOf(lanes') \cup Listed(rows') \subseteq KeysOf(lanes) \cup Listed(rows)
        /\ (KeysOf(lanes) \cup Listed(rows)) \ (KeysOf(lanes') \cup Listed(rows')) \subseteq {key}
    BY <1>5, <1>7
  <2> QED
    BY <1>3, <2>1, PrunedSampled
<1> QED
  BY <1>3, <1>4, <1>5, <1>6, <1>7, <1>8, Charted DEF R

\* The windows beside Graphics.
LEMMA WatchKeeps ==
    ASSUME Steady, IInv, NEW key \in Offered, NEW w \in Watchers, Watch(w, key)
    PROVE  IInv'
<1>1. key \in Keys /\ key \in Signals /\ Binds(key)
  BY OfferedIs, KeysTyped
<1>2. w \in Windows /\ w # "graphics" /\ "graphics" \in Windows
  BY DEF Windows, Steady
<1>3. /\ DOMAIN rows = Windows
      /\ \A v \in Windows : rows[v] \in Rows /\ rows[v] \in Seq(Signals)
      /\ Recorded(lanes, rows["graphics"], name, identity)
  BY RowsTyped
<1>4. /\ Charting /\ rows' = [rows EXCEPT ![w] = Append(rows[w], key)]
      /\ subs' = subs \cup {key} /\ lanes' = lanes
  BY <1>1, <1>3 DEF Watch, Row, Watched
<1>5. Relisted(rows', rows, w, Append(rows[w], key))
  BY <1>2, <1>3, <1>4, ListedNow
<1>6. Append(rows[w], key) \in Seq(Signals) /\ ToSet(Append(rows[w], key)) = ToSet(rows[w]) \cup {key}
  BY <1>1, <1>2, <1>3, AppendPuts, AppendHolds, HoldsKeys
<1>7. /\ DOMAIN rows' = Windows /\ (rows')["graphics"] = rows["graphics"]
      /\ \A v \in Windows : (rows')[v] \in Rows
  BY <1>2, <1>3, <1>5, <1>6 DEF Relisted, Rows
<1>8. \A k : k \in Listed(rows') <=> k \in Listed(rows) \cup {key}
  BY <1>5, <1>6 DEF Relisted
<1>9. KeysOf(lanes') \cup Listed(rows') = (KeysOf(lanes) \cup Listed(rows)) \cup {key}
  BY <1>4, <1>8
<1>10. SampledBy(KeysOf(lanes') \cup Listed(rows'), subs', live, Definition)
  BY <1>1, <1>4, <1>9, SampledMore DEF IInv, Sampled
<1> QED
  BY <1>3, <1>4, <1>7, <1>10, Charted

LEMMA UnwatchKeeps ==
    ASSUME Steady, IInv, NEW key \in Offered, NEW w \in Watchers, Unwatch(w, key)
    PROVE  IInv'
<1>1. w \in Windows /\ w # "graphics" /\ "graphics" \in Windows
  BY DEF Windows, Steady
<1>2. Recorded(lanes, rows["graphics"], name, identity)
  BY RowsTyped
<1>3. /\ Charting /\ rows' = NoRow(rows, w, key) /\ lanes' = lanes
      /\ subs' = Pruned(subs, {key}, rows', KeysOf(lanes'))
  BY DEF Unwatch
<1>4. /\ DOMAIN rows' = Windows /\ \A v \in Windows : (rows')[v] \in Rows
      /\ (rows')["graphics"] = rows["graphics"]
      /\ Listed(rows') \subseteq Listed(rows) /\ Listed(rows) \subseteq Listed(rows') \cup {key}
  BY <1>1, <1>3, UnlistedNow
<1>5. SampledBy(KeysOf(lanes') \cup Listed(rows'), subs', live, Definition)
  <2>1. /\ KeysOf(lanes') \cup Listed(rows') \subseteq KeysOf(lanes) \cup Listed(rows)
        /\ (KeysOf(lanes) \cup Listed(rows)) \ (KeysOf(lanes') \cup Listed(rows')) \subseteq {key}
    BY <1>3, <1>4
  <2> QED
    BY <1>3, <2>1, PrunedSampled
<1> QED
  BY <1>2, <1>3, <1>4, <1>5, Charted

LEMMA ClearWatchKeeps ==
    ASSUME Steady, IInv, NEW w \in Watchers, ClearWatch(w)
    PROVE  IInv'
<1>1. w \in Windows /\ w # "graphics" /\ "graphics" \in Windows
  BY DEF Windows, Steady
<1>2. /\ DOMAIN rows = Windows /\ \A v \in Windows : rows[v] \in Rows
      /\ Recorded(lanes, rows["graphics"], name, identity)
  BY RowsTyped
<1>3. /\ Charting /\ rows' = [rows EXCEPT ![w] = <<>>] /\ lanes' = lanes
      /\ subs' = Pruned(subs, ToSet(rows[w]), rows', KeysOf(lanes'))
  BY DEF ClearWatch
<1>4. Relisted(rows', rows, w, <<>>)
  BY <1>1, <1>2, <1>3, ListedNow
<1>5. <<>> \in Rows /\ ToSet(<<>>) = {}
  BY DEF Rows, ToSet
<1>6. /\ DOMAIN rows' = Windows /\ (rows')["graphics"] = rows["graphics"]
      /\ \A v \in Windows : (rows')[v] \in Rows
  BY <1>1, <1>2, <1>4, <1>5 DEF Relisted
<1>7. \A k : /\ k \in Listed(rows') => k \in Listed(rows)
             /\ k \in Listed(rows) => k \in Listed(rows') \cup ToSet(rows[w])
  BY <1>4, <1>5 DEF Relisted
<1>8. SampledBy(KeysOf(lanes') \cup Listed(rows'), subs', live, Definition)
  <2>1. /\ KeysOf(lanes') \cup Listed(rows') \subseteq KeysOf(lanes) \cup Listed(rows)
        /\ (KeysOf(lanes) \cup Listed(rows)) \ (KeysOf(lanes') \cup Listed(rows'))
             \subseteq ToSet(rows[w])
    BY <1>3, <1>7
  <2> QED
    BY <1>3, <2>1, PrunedSampled
<1> QED
  BY <1>2, <1>3, <1>6, <1>8, Charted

\* The row of a lane that is shown says what the lane says.
LEMMA RowOfLane ==
    ASSUME Steady, IInv, ~lag, NEW k \in KeysOf(lanes), NEW r \in ToSet(rows["graphics"]),
           Id(r) = Id(k)
    PROVE  r = k
<1>1. k \in Signals
  <2>1. PICK i \in DOMAIN lanes : k = lanes[i].key
    BY DEF KeysOf
  <2>2. lanes \in Seq(Lane)
    BY RowsTyped
  <2>3. lanes[i] \in Lane
    BY <2>1, <2>2
  <2> QED
    BY <2>1, <2>3 DEF Lane
<1>2. r \in Signals
  BY RowsTyped DEF ToSet
<1>3. CASE IsDerived(k)
  <2>1. k \in Keys
    BY <1>3 DEF KeysOf, IInv, Published, Keys
  <2> QED
    BY <2>1, ExactFor DEF Exact, ToSet
<1>4. CASE ~IsDerived(k)
  BY <1>1, <1>2, <1>4, Keyed
<1> QED
  BY <1>3, <1>4

\* Where a lane goes that moves.
LEMMA MovedLane ==
    ASSUME Steady, IInv, NEW key, Shown(key), ~IsRead(key),
           NEW to \in Nat, 1 <= to, to <= Plotted(lanes)
    PROVE  /\ lanes[PlaceOf(LaneKeys(lanes), key)] = [key |-> key, read |-> FALSE]
           /\ to <= FirstRead(NoLane(lanes, key))
<1> DEFINE from == PlaceOf(LaneKeys(lanes), key)
           others == NoLane(lanes, key)
<1>1. lanes \in Lanes /\ lanes \in Seq(Lane) /\ LanesApart(lanes) /\ PlottedFirst(lanes)
  BY RowsTyped DEF Recorded
<1>2. from \in DOMAIN lanes /\ lanes[from].key = key
  <2>1. \E i \in DOMAIN LaneKeys(lanes) : LaneKeys(lanes)[i] = key
    BY DEF LaneKeys, Shown
  <2>2. from \in DOMAIN LaneKeys(lanes) /\ LaneKeys(lanes)[from] = key
    BY <2>1 DEF PlaceOf
  <2> HIDE DEF from
  <2> QED
    BY <2>2 DEF LaneKeys
<1> HIDE DEF from
<1>3. lanes[from] = [key |-> key, read |-> FALSE]
  <2>1. lanes[from] \in Lane
    BY <1>1, <1>2
  <2>2. lanes[from] = [key |-> key, read |-> lanes[from].read] /\ lanes[from].read \in BOOLEAN
    BY <1>2, <2>1 DEF Lane
  <2>3. lanes[from] # [key |-> key, read |-> TRUE]
    BY <1>2 DEF IsRead
  <2> QED
    BY <2>2, <2>3
<1>4. OtherLanes(lanes, key) = DOMAIN lanes \ {from}
  BY <1>1, <1>2 DEF OtherLanes, LanesApart
<1>5. others = Remaining(lanes, DOMAIN lanes \ {from})
  BY <1>4 DEF NoLane, OtherLanes
<1> HIDE DEF others
<1>6. /\ others \in Seq(Lane) /\ Len(others) = Len(lanes) - 1
      /\ \A j \in DOMAIN others : others[j] = IF j < from THEN lanes[j] ELSE lanes[j + 1]
  BY <1>1, <1>2, <1>5, AllButOne
<1>7. PICK n \in Nat : n = Len(lanes) /\ DOMAIN lanes = 1 .. n
  BY <1>1
<1>8. Len(others) = n - 1 /\ DOMAIN others = 1 .. n - 1
  BY <1>6, <1>7
<1>9. /\ FirstRead(lanes) \in 1 .. n + 1 /\ from < FirstRead(lanes) /\ to < FirstRead(lanes)
  <2>1. FirstRead(lanes) \in 1 .. n + 1
    BY <1>1, <1>7, FirstReadIs
  <2>2. from < FirstRead(lanes)
    BY <1>1, <1>2, <1>3, PlottedOnes
  <2>3. to < FirstRead(lanes)
    BY <2>1 DEF Plotted
  <2> QED
    BY <2>1, <2>2, <2>3
<1>10. /\ FirstRead(others) \in 1 .. n
       /\ FirstRead(others) # n => FirstRead(others) \in 1 .. n - 1 /\ others[FirstRead(others)].read
  <2>1. others \in Lanes
    BY <1>6 DEF Lanes
  <2>2. /\ FirstRead(others) \in 1 .. Len(others) + 1
        /\ FirstRead(others) # Len(others) + 1 =>
             FirstRead(others) \in DOMAIN others /\ others[FirstRead(others)].read
    BY <2>1, FirstReadIs
  <2>3. Len(others) + 1 = n
    BY <1>7, <1>8
  <2> QED
    BY <1>8, <2>2, <2>3
<1>11. to <= FirstRead(others)
  <2>1. CASE FirstRead(others) = n
    BY <1>7, <1>9, <2>1
  <2>2. CASE FirstRead(others) # n
    <3>1. PICK r \in 1 .. n - 1 : r = FirstRead(others) /\ others[r].read
      BY <1>10, <2>2
    <3>2. \A i \in 1 .. n : i < FirstRead(lanes) => ~lanes[i].read
      BY <1>1, <1>7, FirstReadIs
    <3>3. CASE r < from
      <4>1. lanes[r].read /\ r \in 1 .. n /\ r < FirstRead(lanes)
        BY <1>2, <1>6, <1>7, <1>8, <1>9, <3>1, <3>3
      <4> QED
        BY <3>2, <4>1
    <3>4. CASE ~(r < from)
      <4>1. lanes[r + 1].read /\ r + 1 \in 1 .. n
        BY <1>6, <1>7, <1>8, <3>1, <3>4
      <4>2. ~(r + 1 < FirstRead(lanes))
        BY <3>2, <4>1
      <4> QED
        BY <1>7, <1>9, <3>1, <4>2
    <3> QED
      BY <3>3, <3>4
  <2> QED
    BY <2>1, <2>2
<1> QED
  BY <1>3, <1>11 DEF from, others

\* Where its row goes.
Comes(keys, ls, key, to) ==
  LET after == IF to < Plotted(ls) THEN ls[to + 1].key ELSE key
      before == IF to > 1 THEN ls[to - 1].key ELSE key
  IN CASE after \in ToSet(keys) -> InsertAt(keys, PlaceOf(keys, after), key)
       [] after \notin ToSet(keys) /\ before \in ToSet(keys) ->
            InsertAt(keys, PlaceOf(keys, before) + 1, key)
       [] OTHER -> Append(keys, key)
LEMMA MovedRow ==
    ASSUME NEW ls, NEW keys, NEW n, NEW d, Recorded(ls, keys, n, d),
           \A i \in DOMAIN ls : ~ls[i].read => ls[i].key \in ToSet(keys),
           NEW key \in Signals, NoneOf(ls, key), NoRowOf(keys, key),
           NEW to \in 1 .. Len(ls) + 1, to <= FirstRead(ls),
           NEW ls2 \in Lanes, Put(ls2, ls, to, [key |-> key, read |-> FALSE]),
           NEW keys2, keys2 = Comes(keys, ls2, key, to)
    PROVE  keys2 \in Rows /\ Holds(keys2, keys, key) /\ Recorded(ls2, keys2, n, d)
<1> DEFINE lane == [key |-> key, read |-> FALSE]
           after == IF to < Plotted(ls2) THEN ls2[to + 1].key ELSE key
           before == IF to > 1 THEN ls2[to - 1].key ELSE key
<1>0. keys2 = CASE after \in ToSet(keys) -> InsertAt(keys, PlaceOf(keys, after), key)
                [] after \notin ToSet(keys) /\ before \in ToSet(keys) ->
                     InsertAt(keys, PlaceOf(keys, before) + 1, key)
                [] OTHER -> Append(keys, key)
  BY DEF Comes
<1>1. /\ ls \in Lanes /\ keys \in Rows /\ LanesApart(ls) /\ RowsApart(keys)
      /\ PlottedFirst(ls) /\ HasRow(ls, keys) /\ SameOrder(ls, keys)
  BY DEF Recorded
<1>2. lane \in Lane /\ lane.key = key /\ ~lane.read
  BY DEF Lane
<1> HIDE DEF lane
<1>3. Put(ls2, ls, to, lane)
  BY DEF lane
<1>4. PICK a \in Nat : a = Len(ls) /\ DOMAIN ls = 1 .. a /\ to \in 1 .. a + 1
  BY <1>1 DEF Lanes
<1>5. /\ DOMAIN ls2 = 1 .. a + 1 /\ Len(ls2) = a + 1
      /\ \A j \in 1 .. a + 1 : ls2[j] = IF j < to THEN ls[j] ELSE IF j = to THEN lane ELSE ls[j - 1]
  <2>1. /\ DOMAIN ls2 = 1 .. a + 1
        /\ \A j \in 1 .. a + 1 : ls2[j] = IF j < to THEN ls[j] ELSE IF j = to THEN lane ELSE ls[j - 1]
    BY <1>3, <1>4 DEF Put
  <2>2. Len(ls2) = a + 1
    BY <1>4, <2>1 DEF Lanes
  <2> QED
    BY <2>1, <2>2
<1>6. PlottedFirst(ls2)
  <2>1. \A i \in DOMAIN ls : Id(ls[i].key) # Id(lane.key)
    BY <1>2 DEF NoneOf
  <2>2. ~lane.read /\ to \in 1 .. Len(ls) + 1
    BY <1>2
  <2> QED
    BY <1>1, <1>2, <1>3, <2>1, <2>2, LanePut
<1>7. FirstRead(ls2) \in 1 .. a + 2
  <2>1. FirstRead(ls2) \in 1 .. Len(ls2) + 1
    BY FirstReadIs
  <2> QED
    BY <1>4, <1>5, <2>1
<1>8. \A i \in 1 .. a : i < to => ~ls[i].read
  <2>1. FirstRead(ls) \in 1 .. a + 1 /\ \A i \in 1 .. a : i < FirstRead(ls) => ~ls[i].read
    BY <1>1, <1>4, FirstReadIs
  <2> QED
    BY <1>4, <2>1
<1>9. PICK b \in Nat : b = Len(keys) /\ DOMAIN keys = 1 .. b
  BY <1>1 DEF Rows
<1>10. key \notin ToSet(keys)
  BY DEF NoRowOf, ToSet
<1>11. ASSUME NEW k \in ToSet(keys)
       PROVE  PlaceOf(keys, k) \in 1 .. b /\ keys[PlaceOf(keys, k)] = k
  BY <1>9 DEF PlaceOf, ToSet
<1>12. ASSUME NEW pos \in 1 .. b + 1,
              keys2 = InsertAt(keys, pos, key) \/ (pos = b + 1 /\ keys2 = Append(keys, key)),
              \A i \in 1 .. a, p \in 1 .. b :
                ~ls[i].read /\ Id(keys[p]) = Id(ls[i].key) => (i < to <=> p < pos)
       PROVE  keys2 \in Rows /\ Holds(keys2, keys, key) /\ Recorded(ls2, keys2, n, d)
  <2>1. keys \in Seq(Signals) /\ pos \in 1 .. Len(keys) + 1
    BY <1>1, <1>9 DEF Rows
  <2>2. keys2 \in Seq(Signals) /\ Put(keys2, keys, pos, key)
    <3>1. CASE keys2 = InsertAt(keys, pos, key)
      BY <2>1, <3>1, InsertPuts
    <3>2. CASE pos = b + 1 /\ keys2 = Append(keys, key)
      <4>1. pos = Len(keys) + 1
        BY <1>9, <3>2
      <4> QED
        BY <2>1, <3>2, <4>1, AppendPuts
    <3> QED
      BY <1>12, <3>1, <3>2
  <2>3. Holds(keys2, keys, key)
    BY <2>1, <2>2, PutHolds
  <2>4. keys2 \in Rows
    BY <2>2 DEF Rows
  <2>5. /\ \A i \in DOMAIN ls : Id(ls[i].key) # Id(key)
        /\ \A p \in DOMAIN keys : Id(keys[p]) # Id(key)
    BY DEF NoneOf, NoRowOf
  <2>6. \A i \in DOMAIN ls, p \in DOMAIN keys :
          ~ls[i].read /\ Id(keys[p]) = Id(ls[i].key) => (i < to <=> p < pos)
    BY <1>4, <1>9, <1>12
  <2>7. Recorded(ls2, keys2, n, d)
    <3>1. /\ Recorded(ls, keys, n, d) /\ key \in Signals /\ to \in 1 .. Len(ls) + 1
          /\ ls2 \in Lanes /\ Put(ls2, ls, to, [key |-> key, read |-> FALSE]) /\ to <= FirstRead(ls)
      OBVIOUS
    <3> QED
      BY ONLY <2>1, <2>2, <2>4, <2>5, <2>6, <3>1, Grown
  <2> QED
    BY <2>3, <2>4, <2>7
<1>13. \A i \in 1 .. a, j \in 1 .. a, p \in 1 .. b, q \in 1 .. b :
         /\ i < j /\ ~ls[i].read /\ ~ls[j].read
         /\ Id(keys[p]) = Id(ls[i].key) /\ Id(keys[q]) = Id(ls[j].key)
         => p < q
  BY <1>1, <1>4, <1>9 DEF SameOrder
<1>14. \A p, q \in 1 .. b : Id(keys[p]) = Id(keys[q]) => p = q
  BY <1>1, <1>9 DEF RowsApart
<1>15. CASE to < Plotted(ls2)
  <2>1. to + 1 \in 1 .. a + 1 /\ to \in 1 .. a /\ to + 1 < FirstRead(ls2)
    BY <1>4, <1>7, <1>15 DEF Plotted
  <2>2. ls2[to + 1] = ls[to]
    BY <1>4, <1>5, <2>1
  <2>3. ~ls[to].read
    BY <1>5, <2>1, <2>2, FirstReadIs
  <2>4. after = ls[to].key
    BY <1>15, <2>2
  <2>5. after \in ToSet(keys)
    BY <1>4, <2>1, <2>3, <2>4
  <2>6. keys2 = InsertAt(keys, PlaceOf(keys, after), key)
    BY <1>0, <2>5
  <2>7. PICK pos \in 1 .. b : pos = PlaceOf(keys, after) /\ keys[pos] = after
    BY <1>11, <2>5
  <2>8. ASSUME NEW i \in 1 .. a, NEW p \in 1 .. b, ~ls[i].read, Id(keys[p]) = Id(ls[i].key)
        PROVE  i < to <=> p < pos
    <3>1. CASE i < to
      BY <1>13, <2>1, <2>3, <2>4, <2>7, <2>8, <3>1
    <3>2. CASE i = to
      BY <1>14, <2>4, <2>7, <2>8, <3>2
    <3>3. CASE to < i
      <4>1. pos < p
        BY <1>13, <2>1, <2>3, <2>4, <2>7, <2>8, <3>3
      <4> QED
        BY <2>1, <3>3, <4>1
    <3> QED
      BY <2>1, <3>1, <3>2, <3>3
  <2>9. pos \in 1 .. b + 1
    BY <1>9
  <2> QED
    BY <1>12, <2>6, <2>7, <2>8, <2>9
<1>16. CASE ~(to < Plotted(ls2))
  <2>1. after \notin ToSet(keys)
    BY <1>10, <1>16
  <2>2. \A i \in 1 .. a : ~ls[i].read => i < to
    <3>1. ASSUME NEW i \in 1 .. a, ~ls[i].read, ~(i < to)
          PROVE  FALSE
      <4>1. i + 1 \in 1 .. a + 1 /\ ~(i + 1 < to) /\ i + 1 # to /\ (i + 1) - 1 = i
        BY <1>4, <3>1
      <4>2. ls2[i + 1] = ls[i]
        BY <1>5, <4>1
      <4>3. i + 1 < FirstRead(ls2)
        BY <1>5, <1>6, <3>1, <4>1, <4>2, PlottedOnes
      <4> QED
        BY <1>4, <1>7, <1>16, <3>1, <4>3 DEF Plotted
    <3> QED
      BY <3>1
  <2>3. CASE to > 1
    <3>1. to - 1 \in 1 .. a /\ to - 1 \in 1 .. a + 1 /\ to - 1 < to
      BY <1>4, <2>3
    <3>2. before = ls[to - 1].key
      BY <1>5, <2>3, <3>1
    <3>3. ~ls[to - 1].read
      BY <1>8, <3>1
    <3>4. before \in ToSet(keys)
      BY <1>4, <3>1, <3>2, <3>3
    <3>5. keys2 = InsertAt(keys, PlaceOf(keys, before) + 1, key)
      BY <1>0, <2>1, <3>4
    <3>6. PICK q \in 1 .. b : q = PlaceOf(keys, before) /\ keys[q] = before
      BY <1>11, <3>4
    <3>7. q + 1 \in 1 .. b + 1 /\ keys2 = InsertAt(keys, q + 1, key)
      <4>1. keys2 = InsertAt(keys, q + 1, key)
        BY ONLY <3>5, <3>6
      <4>2. q + 1 \in 1 .. b + 1
        OBVIOUS
      <4> QED
        BY ONLY <4>1, <4>2
    <3>8. ASSUME NEW i \in 1 .. a, NEW p \in 1 .. b, ~ls[i].read, Id(keys[p]) = Id(ls[i].key)
          PROVE  i < to <=> p < q + 1
      <4>1. i < to
        BY <2>2, <3>8
      <4>2. CASE i = to - 1
        <5>1. p = q
          BY <1>14, <3>2, <3>6, <3>8, <4>2
        <5> QED
          BY <4>1, <5>1
      <4>3. CASE i # to - 1
        <5>1. i < to - 1
          BY <1>4, <4>1, <4>3
        <5>2. p < q
          BY <1>13, <3>1, <3>2, <3>3, <3>6, <3>8, <5>1
        <5> QED
          BY <4>1, <5>2
      <4> QED
        BY <4>2, <4>3
    <3> QED
      BY <1>12, <3>7, <3>8
  <2>4. CASE ~(to > 1)
    <3>1. to = 1
      BY <1>4, <2>4
    <3>2. before \notin ToSet(keys)
      BY <1>10, <2>4
    <3>3. keys2 = Append(keys, key)
      BY <1>0, <2>1, <3>2
    <3>4. \A i \in 1 .. a : ls[i].read
      BY <2>2, <3>1
    <3>5. b + 1 \in 1 .. b + 1
      BY <1>9
    <3> QED
      BY <1>12, <3>3, <3>4, <3>5
  <2> QED
    BY <2>3, <2>4
<1> QED
  BY <1>15, <1>16

LEMMA MoveKeeps ==
    ASSUME Steady, IInv, NEW key \in Offered, NEW to \in Nat, 1 <= to, MoveSignal(key, to)
    PROVE  IInv'
<1> DEFINE others == NoLane(lanes, key)
           R == rows["graphics"]
           O == Unlisted(R, key)
           lane == [key |-> key, read |-> FALSE]
<1>1. ~lag /\ key \in Keys /\ key \in Signals /\ Exact(lanes, R, key)
  BY OfferedIs
<1>2. /\ DOMAIN rows = Windows /\ "graphics" \in Windows
      /\ \A w \in Windows : rows[w] \in Rows /\ rows[w] \in Seq(Signals)
      /\ lanes \in Lanes /\ lanes \in Seq(Lane) /\ Recorded(lanes, R, name, identity)
  BY RowsTyped
<1>3. /\ Charting /\ Shown(key) /\ ~IsRead(key) /\ to <= Plotted(lanes)
      /\ lanes' = InsertAt(others, to, lanes[PlaceOf(LaneKeys(lanes), key)])
      /\ rows' = IF key \in ToSet(R) THEN [rows EXCEPT !["graphics"] = Beside(lanes', key, to)]
                 ELSE rows
      /\ subs' = subs
  BY DEF MoveSignal
<1>4. lanes[PlaceOf(LaneKeys(lanes), key)] = lane /\ to <= FirstRead(others)
  BY <1>3, MovedLane
<1>5. Recorded(others, O, name, identity) /\ NoneOf(others, key) /\ NoRowOf(O, key)
  BY <1>1, <1>2, BothGo
<1>6. others \in Seq(Lane) /\ others \in Lanes
  BY <1>5 DEF Recorded, Lanes
<1>7. to \in 1 .. Len(others) + 1
  <2>1. FirstRead(others) \in 1 .. Len(others) + 1
    BY <1>6, FirstReadIs
  <2> HIDE DEF others
  <2>2. Len(others) \in Nat
    BY <1>6
  <2> QED
    BY <1>4, <2>1, <2>2
<1>8. KeysOf(others) = KeysOf(lanes) \ {key} /\ key \in KeysOf(lanes)
  BY <1>2, <1>3, NoLaneKeys DEF Shown, KeysOf
<1>9. lane \in Lane /\ lane.key = key
  BY <1>1 DEF Lane
<1> HIDE DEF others, lane
<1>10. lanes' \in Seq(Lane) /\ Put(lanes', others, to, lane) /\ Holds(lanes', others, lane)
  BY <1>3, <1>4, <1>6, <1>7, <1>9, InsertPuts, InsertHolds
<1>11. KeysOf(lanes') = KeysOf(lanes)
  <2>1. KeysOf(lanes') = KeysOf(others) \cup {key}
    BY <1>9, <1>10, HoldsLanes
  <2> QED
    BY <1>8, <2>1
<1>12. ASSUME NEW i \in DOMAIN lanes, ~lanes[i].read
       PROVE  lanes[i].key \in ToSet(R)
  <2>1. PICK p \in DOMAIN R : Id(R[p]) = Id(lanes[i].key)
    BY <1>2, <1>12 DEF Recorded, HasRow
  <2>2. lanes[i].key \in KeysOf(lanes) /\ R[p] \in ToSet(R)
    BY DEF KeysOf, ToSet
  <2>3. R[p] = lanes[i].key
    BY <1>1, <2>1, <2>2, RowOfLane
  <2> QED
    BY <2>2, <2>3
<1>13. key \in ToSet(R)
  <2>1. PICK i \in DOMAIN lanes : lanes[i] = lane
    <3>1. PICK i \in DOMAIN lanes : lanes[i].key = key
      BY <1>3 DEF Shown
    <3>2. lanes[i] \in Lane
      BY <1>2
    <3>3. lanes[i] = [key |-> key, read |-> lanes[i].read] /\ lanes[i].read \in BOOLEAN
      BY <3>1, <3>2 DEF Lane
    <3>4. lanes[i] # [key |-> key, read |-> TRUE]
      BY <1>3 DEF IsRead
    <3> QED
      BY <3>3, <3>4 DEF lane
  <2> QED
    BY <1>12, <2>1 DEF lane
<1>14. \A i \in DOMAIN others : ~others[i].read => others[i].key \in ToSet(O)
  <2>1. ASSUME NEW i \in DOMAIN others, ~others[i].read PROVE others[i].key \in ToSet(O)
    <3>1. PICK f : /\ Leads(f, others, OtherLanes(lanes, key))
                   /\ \A j \in DOMAIN others : others[j] = lanes[f[j]]
      BY <1>2, NoLaneIs DEF others
    <3>2. f[i] \in DOMAIN lanes /\ others[i] = lanes[f[i]] /\ lanes[f[i]].key # key
      BY <3>1 DEF Leads, OtherLanes
    <3>3. ToSet(O) = ToSet(R) \ {key}
      BY <1>2, UnlistedKeys
    <3> QED
      BY <1>12, <2>1, <3>2, <3>3
  <2> QED
    BY <2>1
<1>15. Beside(lanes', key, to) = Comes(O, lanes', key, to)
  BY DEF Beside, Comes
<1>16. rows' = [rows EXCEPT !["graphics"] = Beside(lanes', key, to)]
  BY <1>3, <1>13
<1> DEFINE B == Beside(lanes', key, to)
<1>17. ToSet(O) = ToSet(R) \ {key}
  BY <1>2, UnlistedKeys
<1> HIDE DEF O, R, B
<1>18. B \in Rows /\ Holds(B, O, key) /\ Recorded(lanes', B, name, identity)
  <2>1. Put(lanes', others, to, [key |-> key, read |-> FALSE]) /\ lanes' \in Lanes
    BY <1>10 DEF lane, Lanes
  <2>2. B = Comes(O, lanes', key, to)
    BY <1>15 DEF B
  <2> QED
    BY ONLY <1>1, <1>4, <1>5, <1>7, <1>14, <2>1, <2>2, MovedRow
<1>19. Relisted(rows', rows, "graphics", B)
  BY <1>2, <1>16, ListedNow DEF B
<1>20. ToSet(B) = ToSet(R)
  <2>1. ToSet(B) = ToSet(O) \cup {key}
    BY <1>18, HoldsKeys
  <2> QED
    BY <1>13, <1>17, <2>1
<1>21. /\ DOMAIN rows' = Windows /\ (rows')["graphics"] = B
       /\ \A w \in Windows : (rows')[w] \in Rows
  BY <1>2, <1>18, <1>19 DEF Relisted
<1>22. \A k : k \in Listed(rows') <=> k \in Listed(rows)
  BY <1>19, <1>20 DEF Relisted, R
<1>23. KeysOf(lanes') \cup Listed(rows') = KeysOf(lanes) \cup Listed(rows)
  BY <1>11, <1>22
<1>24. SampledBy(KeysOf(lanes') \cup Listed(rows'), subs', live, Definition)
  BY <1>3, <1>23 DEF IInv, Sampled
<1> QED
  BY <1>3, <1>11, <1>18, <1>20, <1>21, <1>24, Charted DEF R

-----------------------------------------------------------------------------
(* The definition, the buses and the project                                *)

\* Fewer signals that are there.
LEMMA RecordedAlive ==
    ASSUME NEW ls, NEW keys, NEW n, NEW d, Recorded(ls, keys, n, d), NEW m, NEW e,
           \A p \in DOMAIN keys : Alive(keys[p], m, e) => Alive(keys[p], n, d)
    PROVE  Recorded(ls, keys, m, e)
BY DEF Recorded, HasLane

\* A new definition brings its own subscription.
LEMMA SampledRedefined ==
    ASSUME NEW V, NEW s, NEW lv, NEW def, SampledBy(V, s, lv, def), NEW W, NEW def2,
           \A k \in def : IsDerived(k), \A k \in def2 : IsDerived(k) /\ k \in Signals,
           \A k : ~IsDerived(k) => (k \in V <=> k \in W)
    PROVE  SampledBy(W, (s \ def) \cup def2, lv, def2)
BY DEF SampledBy

\* A command counts.
LEMMA Counted ==
    ASSUME Steady, IInv, Command
    PROVE  /\ commands \in Nat /\ commands' \in Nat /\ commands <= commands'
           /\ commands' \in 0 .. MaxCommands /\ commands < commands'
           /\ served' = served /\ saved' = saved /\ page' = page
           /\ Project(rows, name, identity, commands')
           /\ Project(saved.rows, saved.name, saved.identity, commands')
<1>1. commands < MaxCommands /\ commands' = commands + 1
  BY DEF Command
<1>2. commands \in 0 .. MaxCommands /\ MaxCommands \in Nat
  BY DEF IInv, Kept, Steady
<1>3. /\ commands \in Nat /\ commands' \in Nat /\ commands <= commands'
      /\ commands' \in 0 .. MaxCommands /\ commands < commands'
  BY ONLY <1>1, <1>2
<1>4. /\ Project(rows, name, identity, commands)
      /\ Project(saved.rows, saved.name, saved.identity, commands)
  BY DEF IInv, Kept
<1>5. /\ Project(rows, name, identity, commands')
      /\ Project(saved.rows, saved.name, saved.identity, commands')
  BY <1>3, <1>4, ProjectLater
<1> QED
  BY <1>3, <1>5 DEF Command

\* A rename follows into a list.
LEMMA RenamedIs ==
    ASSUME Steady, IInv, NEW keys \in Rows, NEW new \in Names, name # ""
    PROVE  LET r == Renamed(keys, new) IN
           /\ r \in Rows /\ DOMAIN r = DOMAIN keys
           /\ \A p \in DOMAIN keys : Id(r[p]) = Id(keys[p]) /\ r[p] \in Signals
           /\ \A p \in DOMAIN keys :
                r[p] = IF keys[p] = Derived(identity, name) THEN Derived(identity, new) ELSE keys[p]
           /\ \A k : ~IsDerived(k) => (k \in ToSet(r) <=> k \in ToSet(keys))
<1> DEFINE r == Renamed(keys, new)
<1>1. identity \in 0 .. MaxCommands
  <2>1. commands \in 0 .. MaxCommands /\ MaxCommands \in Nat /\ identity \in 0 .. commands
    BY DEF IInv, Kept, Project, Steady
  <2>2. commands \in Nat /\ commands <= MaxCommands
    BY ONLY <2>1
  <2> QED
    BY <2>1, <2>2, Within
<1>2. /\ DOMAIN r = DOMAIN keys
      /\ \A p \in DOMAIN keys :
           r[p] = IF keys[p] = Derived(identity, name) THEN Derived(identity, new) ELSE keys[p]
  BY DEF Renamed
<1>3. keys \in Seq(Signals)
  BY DEF Rows
<1>4. Derived(identity, new) \in Signals /\ Id(Derived(identity, new)) = Id(Derived(identity, name))
  <2>1. \A n \in Names : Derived(identity, n) \in Signals
    BY <1>1, Kinds
  <2>2. \A n, o : Id(Derived(identity, n)) = Id(Derived(identity, o))
    BY Kinds
  <2> QED
    BY <2>1, <2>2
<1>5. \A p \in DOMAIN keys : Id(r[p]) = Id(keys[p]) /\ r[p] \in Signals
  <2> HIDE DEF r
  <2>1. \A p \in DOMAIN keys : keys[p] \in Signals
    BY ONLY <1>3
  <2> QED
    BY <1>2, <1>4, <2>1
<1>6. r \in Rows
  <2>1. PICK n \in Nat : DOMAIN keys = 1 .. n
    <3> HIDE DEF r
    <3> QED
      BY ONLY <1>3
  <2>2. r \in [1 .. n -> Signals]
    BY <1>2, <1>5, <2>1 DEF Renamed
  <2> HIDE DEF r
  <2>3. r \in Seq(Signals)
    BY ONLY <2>2, n \in Nat
  <2> QED
    BY <2>3 DEF Rows
<1>7. \A k : ~IsDerived(k) => (k \in ToSet(r) <=> k \in ToSet(keys))
  <2>1. IsDerived(Derived(identity, name)) /\ IsDerived(Derived(identity, new))
    BY Kinds
  <2>2. \A k : ~IsDerived(k) /\ k \in ToSet(r) => k \in ToSet(keys)
    <3> HIDE DEF r
    <3> QED
      BY <1>2, <2>1 DEF ToSet
  <2>3. \A k : ~IsDerived(k) /\ k \in ToSet(keys) => k \in ToSet(r)
    <3> HIDE DEF r
    <3> QED
      BY <1>2, <2>1 DEF ToSet
  <2> QED
    BY <2>2, <2>3
<1> HIDE DEF r
<1>8. /\ r \in Rows /\ DOMAIN r = DOMAIN keys
      /\ \A p \in DOMAIN keys : Id(r[p]) = Id(keys[p]) /\ r[p] \in Signals
      /\ \A p \in DOMAIN keys :
           r[p] = IF keys[p] = Derived(identity, name) THEN Derived(identity, new) ELSE keys[p]
      /\ \A k : ~IsDerived(k) => (k \in ToSet(r) <=> k \in ToSet(keys))
  BY <1>2, <1>5, <1>6, <1>7
<1> QED
  BY <1>8 DEF r

\* What is owned by a definition that is there, and what is no definition's.
LEMMA OwnedIs ==
    ASSUME NEW keys \in Rows, NEW n, NEW d
    PROVE  /\ Owned(keys, n, d) \in Rows
           /\ \A k : ~IsDerived(k) => (k \in ToSet(Owned(keys, n, d)) <=> k \in ToSet(keys))
<1> DEFINE kept == {i \in DOMAIN keys : IsDerived(keys[i]) => n # "" /\ keys[i][2] = d}
           left == Owned(keys, n, d)
<1>1. kept \in SUBSET DOMAIN keys /\ keys \in Seq(Signals)
  BY DEF Rows
<1>2. left = Remaining(keys, kept)
  BY DEF Owned
<1>3. \A i \in DOMAIN keys : ~IsDerived(keys[i]) => i \in kept
  OBVIOUS
<1> HIDE DEF kept
<1>4. /\ left \in Seq(Signals)
      /\ \E g : Leads(g, left, kept) /\ \A j \in DOMAIN left : left[j] = keys[g[j]]
  BY <1>1, <1>2, RetainedLeads
<1> HIDE DEF left
<1>5. PICK g : Leads(g, left, kept) /\ \A j \in DOMAIN left : left[j] = keys[g[j]]
  BY <1>4
<1>6. ToSet(left) \subseteq ToSet(keys)
  <2>1. \A j \in DOMAIN left : g[j] \in DOMAIN keys
    BY <1>1, <1>5 DEF Leads
  <2> QED
    BY <1>5, <2>1 DEF ToSet
<1>7. ASSUME NEW i \in DOMAIN keys, ~IsDerived(keys[i]) PROVE keys[i] \in ToSet(left)
  <2>1. PICK j \in DOMAIN left : g[j] = i
    BY <1>3, <1>5, <1>7 DEF Leads
  <2> QED
    BY <1>5, <2>1 DEF ToSet
<1>8. \A k : ~IsDerived(k) => (k \in ToSet(left) <=> k \in ToSet(keys))
  BY <1>6, <1>7 DEF ToSet
<1> QED
  BY <1>4, <1>8 DEF Rows, left

LEMMA SetDerivedKeeps ==
    ASSUME Steady, IInv, NEW new, new \in Names \cup {""}, SetDerived(new)
    PROVE  IInv'
<1> DEFINE R == rows["graphics"]
<1>1. /\ commands \in Nat /\ commands' \in Nat /\ commands <= commands'
      /\ commands' \in 0 .. MaxCommands /\ commands < commands'
      /\ served' = served /\ saved' = saved
      /\ Project(rows, name, identity, commands')
      /\ Project(saved.rows, saved.name, saved.identity, commands')
  BY Counted DEF SetDerived
<1>2. /\ DOMAIN rows = Windows /\ "graphics" \in Windows
      /\ \A w \in Windows : rows[w] \in Rows /\ rows[w] \in Seq(Signals)
      /\ Recorded(lanes, R, name, identity)
  BY RowsTyped
<1>3. /\ name # new /\ name' = new /\ lag' = TRUE /\ lanes' = lanes /\ live' = live
      /\ identity' = IF name = "" THEN commands' ELSE identity
      /\ subs' = (subs \ Definition) \cup (IF new = "" THEN {} ELSE {Derived(identity', new)})
  BY DEF SetDerived
<1>4. /\ DOMAIN rows' = Windows
      /\ \A w \in Windows :
           LET called == IF name # "" /\ new # "" THEN Renamed(rows[w], new) ELSE rows[w]
           IN  (rows')[w] = IF w = "graphics" THEN called ELSE Owned(called, new, identity')
  BY DEF SetDerived
<1>5. /\ name # "" /\ new # "" =>
           /\ (rows')["graphics"] = Renamed(R, new)
           /\ \A w \in Windows : w # "graphics" =>
                (rows')[w] = Owned(Renamed(rows[w], new), new, identity')
      /\ ~(name # "" /\ new # "") =>
           /\ (rows')["graphics"] = R
           /\ \A w \in Windows : w # "graphics" => (rows')[w] = Owned(rows[w], new, identity')
  BY <1>2, <1>4
<1>6. ~(name # "" /\ new # "") =>
        /\ \A w \in Windows : (rows')[w] \in Rows
        /\ \A k : ~IsDerived(k) => (k \in Listed(rows') <=> k \in Listed(rows))
  <2>1. ASSUME ~(name # "" /\ new # ""), NEW w \in Windows
        PROVE  /\ (rows')[w] \in Rows
               /\ \A k : ~IsDerived(k) => (k \in ToSet((rows')[w]) <=> k \in ToSet(rows[w]))
    <3>1. CASE w = "graphics"
      BY <1>2, <1>5, <2>1, <3>1
    <3>2. CASE w # "graphics"
      <4>1. (rows')[w] = Owned(rows[w], new, identity')
        BY <1>5, <2>1, <3>2
      <4> QED
        BY <1>2, <4>1, OwnedIs
    <3> QED
      BY <3>1, <3>2
  <2> QED
    BY <2>1 DEF Listed
<1>7. /\ Called(R, name, identity) /\ Known(R, commands) /\ Known(R, commands')
      /\ name \in Names \cup {""} /\ identity \in 0 .. commands'
  BY <1>1 DEF IInv, Kept, Project
<1>8. identity' \in 0 .. commands'
  <2> DEFINE top == commands'
  <2>1. top \in Nat
    BY <1>1
  <2> HIDE DEF top
  <2>2. top \in 0 .. top
    BY ONLY <2>1
  <2>3. commands' \in 0 .. commands'
    BY <2>2 DEF top
  <2>4. CASE name = ""
    BY <1>3, <2>3, <2>4
  <2>5. CASE name # ""
    BY <1>3, <1>7, <2>5
  <2> QED
    BY <2>4, <2>5
<1>9. \A k \in ToSet(R) : k \in Signals
  <2>1. R \in Seq(Signals)
    BY <1>2
  <2> HIDE DEF R
  <2>2. \A p \in DOMAIN R : R[p] \in Signals
    BY ONLY <2>1
  <2> QED
    BY <2>2 DEF ToSet
<1>10. /\ DOMAIN rows' = Windows /\ \A w \in Windows : (rows')[w] \in Rows
       /\ \A k : ~IsDerived(k) => (k \in Listed(rows') <=> k \in Listed(rows))
       /\ Recorded(lanes, (rows')["graphics"], new, identity')
       /\ Called((rows')["graphics"], new, identity') /\ Known((rows')["graphics"], commands')
  <2>1. CASE name # "" /\ new # ""
    <3>1. identity' = identity /\ new \in Names
      BY <1>3, <2>1
    <3>2. (rows')["graphics"] = Renamed(R, new)
      BY <1>5, <2>1
    <3>3. DOMAIN rows' = Windows
      BY <1>4
    <3>4. ASSUME NEW w \in Windows
          PROVE  /\ (rows')[w] \in Rows
                 /\ \A k : ~IsDerived(k) => (k \in ToSet((rows')[w]) <=> k \in ToSet(rows[w]))
      <4>1. /\ Renamed(rows[w], new) \in Rows
            /\ \A k : ~IsDerived(k) => (k \in ToSet(Renamed(rows[w], new)) <=> k \in ToSet(rows[w]))
        BY <1>2, <2>1, <3>1, RenamedIs
      <4>2. CASE w = "graphics"
        BY <3>2, <4>1, <4>2
      <4>3. CASE w # "graphics"
        <5>1. (rows')[w] = Owned(Renamed(rows[w], new), new, identity')
          BY <1>5, <2>1, <4>3
        <5> QED
          BY <4>1, <5>1, OwnedIs
      <4> QED
        BY <4>2, <4>3
    <3>5. \A k : ~IsDerived(k) => (k \in Listed(rows') <=> k \in Listed(rows))
      BY <3>4 DEF Listed
    <3> DEFINE N == Renamed(R, new)
    <3>6. /\ N \in Rows /\ DOMAIN N = DOMAIN R
          /\ \A p \in DOMAIN R : Id(N[p]) = Id(R[p]) /\ N[p] \in Signals
          /\ \A p \in DOMAIN R :
               N[p] = IF R[p] = Derived(identity, name) THEN Derived(identity, new) ELSE R[p]
      BY <1>2, <2>1, <3>1, RenamedIs
    <3> HIDE DEF N, R
    <3>7. Recorded(lanes, N, name, identity)
      <4>1. Recorded(lanes, R, name, identity) /\ R \in Seq(Signals)
        BY <1>2 DEF R
      <4>2. \A p \in DOMAIN R : R[p] \in Signals
        BY ONLY <4>1
      <4>3. \A p \in DOMAIN R : Alive(N[p], name, identity) => Alive(R[p], name, identity)
        BY <3>6, <4>2, AliveAlike
      <4>4. DOMAIN N = DOMAIN R /\ \A p \in DOMAIN R : Id(N[p]) = Id(R[p])
        BY <3>6
      <4>5. lanes \in Lanes /\ N \in Rows /\ LanesApart(lanes) /\ PlottedFirst(lanes)
        BY <3>6, <4>1 DEF Recorded
      <4>6. RowsApart(N)
        <5>1. RowsApart(R)
          BY <4>1 DEF Recorded
        <5> QED
          BY <4>4, <5>1 DEF RowsApart
      <4>7. HasRow(lanes, N)
        <5>1. HasRow(lanes, R)
          BY <4>1 DEF Recorded
        <5> QED
          BY <4>4, <5>1 DEF HasRow
      <4>8. HasLane(lanes, N, name, identity)
        <5>1. HasLane(lanes, R, name, identity)
          BY <4>1 DEF Recorded
        <5> QED
          BY <4>3, <4>4, <5>1 DEF HasLane
      <4>9. SameOrder(lanes, N)
        <5>1. SameOrder(lanes, R)
          BY <4>1 DEF Recorded
        <5> QED
          BY <4>4, <5>1 DEF SameOrder
      <4> QED
        BY <4>5, <4>6, <4>7, <4>8, <4>9 DEF Recorded
    <3>8. \A p \in DOMAIN N : Alive(N[p], new, identity) => Alive(N[p], name, identity)
      BY <2>1 DEF Alive
    <3>9. Recorded(lanes, N, new, identity)
      BY <3>7, <3>8, RecordedAlive
    <3>10. ASSUME NEW k \in ToSet(N), IsDerived(k)
           PROVE  (k[2] = identity => k[3] = new) /\ k[2] <= commands'
      <4>1. PICK p \in DOMAIN R : k = N[p] /\ R[p] \in ToSet(R)
        BY <3>6, <3>10 DEF ToSet
      <4>2. CASE R[p] = Derived(identity, name)
        <5>1. k = Derived(identity, new)
          BY <3>6, <4>1, <4>2
        <5>2. k[2] = identity /\ k[3] = new
          BY <5>1, Kinds
        <5>3. identity <= commands'
          <6>1. commands' \in Nat /\ identity \in 0 .. commands'
            BY <1>1, <1>7
          <6>2. commands' <= commands'
            BY ONLY <6>1
          <6> QED
            BY <6>1, <6>2, Within
        <5> QED
          BY <5>2, <5>3
      <4>3. CASE R[p] # Derived(identity, name)
        <5>1. k = R[p] /\ k \in Signals
          BY <1>9, <3>6, <4>1, <4>3
        <5>2. k[2] <= commands'
          BY <1>7, <3>10, <4>1, <5>1 DEF Known
        <5>3. k[2] # identity
          <6>1. SUFFICES ASSUME k[2] = identity PROVE FALSE
            OBVIOUS
          <6>2. k[3] = name
            BY <1>7, <2>1, <3>10, <4>1, <5>1, <6>1 DEF Called
          <6> QED
            BY <3>10, <4>3, <5>1, <6>1, <6>2, Kinds
        <5> QED
          BY <5>2, <5>3
      <4> QED
        BY <4>2, <4>3
    <3>11. Called(N, new, identity) /\ Known(N, commands')
      BY <3>10 DEF Called, Known
    <3>12. (rows')["graphics"] = N
      BY <3>2 DEF N, R
    <3> QED
      BY <3>1, <3>3, <3>4, <3>5, <3>9, <3>11, <3>12
  <2>2. CASE name # "" /\ new = ""
    <3>1. identity' = identity
      BY <1>3, <2>2
    <3>2. DOMAIN rows' = Windows /\ (rows')["graphics"] = R
      BY <1>4, <1>5, <2>2
    <3>3. /\ \A w \in Windows : (rows')[w] \in Rows
          /\ \A k : ~IsDerived(k) => (k \in Listed(rows') <=> k \in Listed(rows))
      BY <1>6, <2>2
    <3>5. \A p \in DOMAIN R : Alive(R[p], new, identity) => Alive(R[p], name, identity)
      BY <2>2 DEF Alive
    <3> HIDE DEF R
    <3>6. Recorded(lanes, R, new, identity)
      BY <1>2, <3>5, RecordedAlive
    <3>7. Called(R, new, identity)
      BY <2>2 DEF Called
    <3> QED
      BY <1>7, <3>1, <3>2, <3>3, <3>6, <3>7
  <2>3. CASE name = ""
    <3>1. identity' = commands' /\ DOMAIN rows' = Windows /\ (rows')["graphics"] = R
      BY <1>3, <1>4, <1>5, <2>3
    <3>6. /\ \A w \in Windows : (rows')[w] \in Rows
          /\ \A k : ~IsDerived(k) => (k \in Listed(rows') <=> k \in Listed(rows))
      BY <1>6, <2>3
    <3>2. ASSUME NEW k \in ToSet(R), IsDerived(k) PROVE k[2] # commands'
      <4>1. k \in Signals /\ k[2] <= commands
        BY <1>7, <1>9, <3>2 DEF Known
      <4>2. k[2] \in 0 .. MaxCommands /\ MaxCommands \in Nat
        BY <3>2, <4>1, Kinds DEF Steady
      <4>3. commands \in Nat /\ commands' \in Nat /\ commands < commands' /\ k[2] <= commands
        BY <1>1, <4>1
      <4> DEFINE a == k[2]
                 top == commands'
      <4>4. a \in 0 .. MaxCommands /\ top \in Nat /\ commands < top /\ a <= commands
        BY <4>2, <4>3
      <4> HIDE DEF a, top
      <4>5. a # top
        BY ONLY <4>2, <4>3, <4>4
      <4> QED
        BY <4>5 DEF a, top
    <3> HIDE DEF R
    <3>3. \A p \in DOMAIN R : Alive(R[p], new, commands') => Alive(R[p], name, identity)
      BY <3>2 DEF Alive, ToSet
    <3>4. Recorded(lanes, R, new, commands')
      BY <1>2, <3>3, RecordedAlive
    <3>5. Called(R, new, commands')
      BY <3>2 DEF Called
    <3> QED
      BY <1>7, <3>1, <3>4, <3>5, <3>6
  <2> QED
    BY <2>1, <2>2, <2>3
<1>11. Kept'
  <2>1. RowsApart((rows')["graphics"])
    BY <1>10 DEF Recorded
  <2>2. Project(rows', new, identity', commands')
    BY <1>8, <1>10, <2>1 DEF Project
  <2>3. served /\ live \subseteq Clusters /\ saved.live \subseteq Clusters
    BY DEF IInv, Kept
  <2> QED
    BY <1>1, <1>3, <1>10, <2>2, <2>3 DEF Kept
<1>12. Published'
  BY <1>3 DEF Published
<1>13. Sampled'
  <2> DEFINE V == KeysOf(lanes) \cup Listed(rows)
             W == KeysOf(lanes) \cup Listed(rows')
  <2>1. Definition' = IF new = "" THEN {} ELSE {Derived(identity', new)}
    BY <1>3 DEF Definition
  <2>2. \A k \in Definition' : IsDerived(k) /\ k \in Signals
    <3>1. identity' \in 0 .. MaxCommands
      <4>1. commands' \in Nat /\ commands' \in 0 .. MaxCommands /\ MaxCommands \in Nat
        BY <1>1 DEF Steady
      <4>2. commands' <= MaxCommands
        BY ONLY <4>1
      <4> QED
        BY <1>8, <4>1, <4>2, Within
    <3>2. \A n \in Names : Derived(identity', n) \in Signals
      BY <3>1, Kinds
    <3>3. \A n : IsDerived(Derived(identity', n))
      BY Kinds
    <3>4. CASE new = ""
      <4>1. Definition' = {}
        BY <2>1, <3>4
      <4> QED
        BY <4>1
    <3>5. CASE new # ""
      <4>1. Definition' = {Derived(identity', new)} /\ new \in Names
        BY <2>1, <3>5
      <4> QED
        BY <3>2, <3>3, <4>1
    <3> QED
      BY <3>4, <3>5
  <2>3. \A k \in Definition : IsDerived(k)
    BY KeysTyped
  <2>4. SampledBy(V, subs, live, Definition)
    BY DEF IInv, Sampled
  <2>5. \A k : ~IsDerived(k) => (k \in V <=> k \in W)
    BY <1>10
  <2>6. subs' = (subs \ Definition) \cup Definition'
    BY <1>3, <2>1
  <2> HIDE DEF V, W
  <2>7. SampledBy(W, subs', live, Definition')
    BY <2>2, <2>3, <2>4, <2>5, <2>6, SampledRedefined
  <2>8. W = KeysOf(lanes') \cup Listed(rows')
    BY <1>3 DEF W
  <2>9. SampledBy(KeysOf(lanes') \cup Listed(rows'), subs', live', Definition')
    BY <1>3, <2>7, <2>8
  <2> QED
    BY <2>9 DEF Sampled
<1> QED
  BY <1>11, <1>12, <1>13 DEF IInv

LEMMA RemoveBusKeeps ==
    ASSUME Steady, IInv, NEW c \in Clusters, RemoveBus(c)
    PROVE  IInv'
<1> DEFINE R == rows["graphics"]
           key == Can(c)
<1>1. /\ commands' \in 0 .. MaxCommands /\ served' = served /\ saved' = saved
      /\ Project(rows, name, identity, commands')
      /\ Project(saved.rows, saved.name, saved.identity, commands')
  BY Counted DEF RemoveBus
<1>2. /\ DOMAIN rows = Windows /\ "graphics" \in Windows
      /\ \A w \in Windows : rows[w] \in Rows
      /\ lanes \in Lanes /\ Recorded(lanes, R, name, identity)
  BY RowsTyped
<1>3. /\ live' = live \ {c} /\ lag' = TRUE /\ lanes' = NoLane(lanes, key)
      /\ rows' = [w \in Windows |-> Unlisted(rows[w], key)]
      /\ subs' = subs \ {key} /\ name' = name /\ identity' = identity
  BY DEF RemoveBus
<1>4. key \in Signals /\ ~IsDerived(key) /\ key[2] = c
  BY Kinds
<1> HIDE DEF key
<1>5. Exact(lanes, R, key)
  <2>1. \A i \in DOMAIN lanes : lanes[i].key \in Signals
    <3>1. \A i \in DOMAIN lanes : lanes[i] \in Lane
      BY <1>2 DEF Lanes
    <3> QED
      BY <3>1 DEF Lane
  <2>2. \A p \in DOMAIN R : R[p] \in Signals
    BY <1>2 DEF Rows
  <2> QED
    BY <1>4, <2>1, <2>2, Keyed DEF Exact
<1>6. Recorded(lanes', Unlisted(R, key), name, identity)
  BY <1>2, <1>3, <1>4, <1>5, BothGo
<1>7. /\ DOMAIN rows' = Windows
      /\ \A w \in Windows : /\ (rows')[w] = Unlisted(rows[w], key) /\ (rows')[w] \in Rows
                            /\ ToSet((rows')[w]) = ToSet(rows[w]) \ {key}
  <2>1. \A w \in Windows : (rows')[w] = Unlisted(rows[w], key)
    BY <1>3
  <2> QED
    BY <1>2, <1>3, <2>1, UnlistedIs, UnlistedKeys
<1>8. KeysOf(lanes') = KeysOf(lanes) \ {key}
  BY <1>2, <1>3, NoLaneKeys
<1>9. Kept'
  <2>1. Recorded(lanes', (rows')["graphics"], name, identity) /\ RowsApart((rows')["graphics"])
    BY <1>2, <1>6, <1>7 DEF Recorded
  <2>2. ToSet((rows')["graphics"]) \subseteq ToSet(R)
    BY <1>2, <1>7
  <2>3. Called((rows')["graphics"], name, identity) /\ Known((rows')["graphics"], commands')
    BY <1>1, <2>2 DEF Project, Called, Known
  <2>4. Project(rows', name, identity, commands')
    BY <1>1, <1>7, <2>1, <2>3 DEF Project
  <2>5. served /\ live' \subseteq Clusters /\ saved.live \subseteq Clusters
    BY <1>3 DEF IInv, Kept
  <2> QED
    BY <1>1, <1>3, <2>1, <2>4, <2>5 DEF Kept
<1>10. Published'
  BY <1>3 DEF Published
<1>11. Sampled'
  <2>1. SampledBy(KeysOf(lanes) \cup Listed(rows), subs, live, Definition)
    BY DEF IInv, Sampled
  <2>2. \A k : k \in Listed(rows') <=> k \in Listed(rows) /\ k # key
    BY <1>7 DEF Listed
  <2>3. \A k \in Definition : IsDerived(k)
    BY KeysTyped
  <2>4. Definition' = Definition
    BY <1>3 DEF Definition
  <2>5. SampledBy(KeysOf(lanes') \cup Listed(rows'), subs', live', Definition)
    BY <1>3, <1>4, <1>8, <2>1, <2>2, <2>3 DEF SampledBy
  <2> QED
    BY <2>4, <2>5 DEF Sampled
<1> QED
  BY <1>9, <1>10, <1>11 DEF IInv

\* A session that starts has a lane for every row.
LEMMA SeededIs ==
    ASSUME NEW keys \in Rows, RowsApart(keys), NEW n, NEW d
    PROVE  Recorded(Seeded(keys), keys, n, d) /\ KeysOf(Seeded(keys)) = ToSet(keys)
<1> DEFINE ls == Seeded(keys)
<1>1. /\ DOMAIN ls = DOMAIN keys
      /\ \A i \in DOMAIN keys : ls[i] = [key |-> keys[i], read |-> FALSE]
  BY DEF Seeded
<1>2. keys \in Seq(Signals)
  BY DEF Rows
<1>3. \A i \in DOMAIN keys : keys[i] \in Signals
  BY ONLY <1>2
<1>4. ls \in Lanes
  <2>1. PICK a \in Nat : DOMAIN keys = 1 .. a
    <3> HIDE DEF ls
    <3> QED
      BY ONLY <1>2
  <2>2. ls \in [1 .. a -> Lane]
    BY <1>1, <1>3, <2>1 DEF Seeded, Lane
  <2> HIDE DEF ls
  <2>3. ls \in Seq(Lane)
    BY ONLY <2>2, a \in Nat
  <2> QED
    BY <2>3 DEF Lanes
<1> HIDE DEF ls
<1>5. \A i \in DOMAIN ls : ls[i].key = keys[i] /\ ~ls[i].read
  BY <1>1
<1>6. LanesApart(ls)
  BY <1>1, <1>5 DEF LanesApart, RowsApart
<1>7. PlottedFirst(ls) /\ HasRow(ls, keys) /\ HasLane(ls, keys, n, d)
  BY <1>1, <1>5 DEF PlottedFirst, HasRow, HasLane
<1>8. SameOrder(ls, keys)
  <2>1. ASSUME NEW i \in DOMAIN keys, NEW p \in DOMAIN keys, Id(keys[p]) = Id(ls[i].key)
        PROVE  p = i
    BY <1>1, <1>5, <2>1 DEF RowsApart
  <2> QED
    BY <1>1, <2>1 DEF SameOrder
<1>9. KeysOf(ls) = ToSet(keys)
  BY <1>1, <1>5 DEF KeysOf, ToSet
<1> QED
  BY <1>4, <1>6, <1>7, <1>8, <1>9 DEF Recorded, ls

LEMMA OpenKeeps ==
    ASSUME Steady, IInv, OpenProject
    PROVE  IInv'
<1>1. /\ commands' \in 0 .. MaxCommands /\ commands' \in Nat /\ served' = served /\ saved' = saved
      /\ Project(saved.rows, saved.name, saved.identity, commands')
  BY Counted DEF OpenProject
<1>2. /\ rows' = saved.rows /\ name' = saved.name /\ identity' = saved.identity
      /\ live' = saved.live /\ lag' = TRUE /\ lanes' = Seeded((rows')["graphics"])
      /\ subs' = {key \in Listed(rows') : IsDerived(key) \/ key[2] \in live'}
                   \cup (IF name' = "" THEN {} ELSE {Derived(identity', name')})
  BY DEF OpenProject
<1>3. Project(rows', name', identity', commands')
  BY <1>1, <1>2
<1>4. /\ "graphics" \in Windows /\ \A w \in Windows : (rows')[w] \in Rows
      /\ RowsApart((rows')["graphics"])
  BY <1>3 DEF Project, Windows
<1>5. /\ Recorded(lanes', (rows')["graphics"], name', identity')
      /\ KeysOf(lanes') = ToSet((rows')["graphics"])
  BY <1>2, <1>4, SeededIs
<1>6. Kept'
  <2>1. served /\ saved.live \subseteq Clusters
    BY DEF IInv, Kept
  <2> QED
    BY <1>1, <1>2, <1>3, <1>5, <2>1 DEF Kept
<1>7. Published'
  BY <1>2 DEF Published
<1>8. Sampled'
  <2>1. Definition' = IF name' = "" THEN {} ELSE {Derived(identity', name')}
    BY DEF Definition
  <2>2. Definition' \subseteq Signals /\ \A k \in Definition' : IsDerived(k)
    <3>1. name' # "" => name' \in Names
      BY <1>3 DEF Project
    <3>2. identity' \in 0 .. MaxCommands
      <4>1. commands' <= MaxCommands /\ MaxCommands \in Nat
        BY <1>1 DEF Steady
      <4>2. identity' \in 0 .. commands'
        BY <1>3 DEF Project
      <4> QED
        BY <1>1, <4>1, <4>2, Within
    <3>3. \A n \in Names : Derived(identity', n) \in Signals
      BY <3>2, Kinds
    <3>4. \A n : IsDerived(Derived(identity', n))
      BY Kinds
    <3>5. CASE name' = ""
      <4>1. Definition' = {}
        BY <2>1, <3>5
      <4> QED
        BY <4>1
    <3>6. CASE name' # ""
      <4>1. Definition' = {Derived(identity', name')} /\ name' \in Names
        BY <2>1, <3>1, <3>6
      <4> QED
        BY <3>3, <3>4, <4>1
    <3> QED
      BY <3>5, <3>6
  <2>3. Listed(rows') \subseteq Signals
    <3>1. \A w \in Windows : (rows')[w] \in Seq(Signals)
      BY <1>4 DEF Rows
    <3> QED
      BY <3>1 DEF Listed, ToSet
  <2>4. KeysOf(lanes') \subseteq Listed(rows')
    BY <1>4, <1>5 DEF Listed
  <2>5. subs' = {key \in Listed(rows') : IsDerived(key) \/ key[2] \in live'} \cup Definition'
    BY <1>2, <2>1
  <2>6. SampledBy(KeysOf(lanes') \cup Listed(rows'), subs', live', Definition')
    BY <2>2, <2>3, <2>4, <2>5 DEF SampledBy
  <2> QED
    BY <2>6 DEF Sampled
<1> QED
  BY <1>6, <1>7, <1>8 DEF IInv

LEMMA SaveKeeps ==
    ASSUME Steady, IInv, SaveProject
    PROVE  IInv'
<1>1. /\ saved' = [rows |-> rows, name |-> name, identity |-> identity, live |-> live]
      /\ UNCHANGED <<lanes, rows, subs, name, identity, live, page, lag, served, commands>>
  BY DEF SaveProject
<1>2. /\ (saved').rows = rows /\ (saved').name = name /\ (saved').identity = identity
      /\ (saved').live = live
  BY <1>1
<1>3. Kept'
  BY <1>1, <1>2 DEF IInv, Kept
<1>4. Published' /\ Sampled'
  BY <1>1 DEF IInv, Published, Sampled, Definition, Keys
<1> QED
  BY <1>3, <1>4 DEF IInv

\* The lanes follow what the definition has become.
LEMMA FollowIs ==
    ASSUME Steady, IInv
    PROVE  LET ls == FollowDefinition(lanes) IN
           /\ Recorded(ls, rows["graphics"], name, identity)
           /\ \A i \in DOMAIN ls : IsDerived(ls[i].key) => ls[i].key \in Definition
           /\ \A k : ~IsDerived(k) => (k \in KeysOf(ls) <=> k \in KeysOf(lanes))
<1> DEFINE A == {i \in DOMAIN lanes : Defined(lanes[i].key)}
           kept == Remaining(lanes, A)
           ls == FollowDefinition(lanes)
           R == rows["graphics"]
<1>1. lanes \in Seq(Lane) /\ Recorded(lanes, R, name, identity) /\ R \in Rows
  BY RowsTyped DEF Recorded
<1>2. A \in SUBSET DOMAIN lanes
  OBVIOUS
<1>3. ls = [i \in DOMAIN kept |->
             IF IsDerived(kept[i].key) THEN [kept[i] EXCEPT !.key = Derived(identity, name)] ELSE kept[i]]
  BY DEF FollowDefinition
<1>4. \A i \in DOMAIN lanes : i \in A <=> Defined(lanes[i].key)
  OBVIOUS
<1> HIDE DEF A
<1>5. kept \in Seq(Lane) /\ \E f : Leads(f, kept, A) /\ \A j \in DOMAIN kept : kept[j] = lanes[f[j]]
  BY <1>1, <1>2, RetainedLeads
<1> HIDE DEF kept
<1>6. PICK f : Leads(f, kept, A) /\ \A j \in DOMAIN kept : kept[j] = lanes[f[j]]
  BY <1>5
<1>7. \A j \in DOMAIN kept : f[j] \in A /\ f[j] \in DOMAIN lanes
  BY <1>2, <1>6 DEF Leads
<1>8. \A j \in DOMAIN kept : kept[j] \in Lane
  BY ONLY <1>5
<1>9. \A j \in DOMAIN kept : /\ kept[j].key \in Signals /\ kept[j].read \in BOOLEAN
                             /\ IsDerived(kept[j].key) => name # "" /\ kept[j].key[2] = identity
  <2>1. \A j \in DOMAIN kept : kept[j].key \in Signals /\ kept[j].read \in BOOLEAN
    BY <1>8 DEF Lane
  <2>2. \A j \in DOMAIN kept : Defined(kept[j].key)
    BY <1>4, <1>6, <1>7
  <2> QED
    BY <2>1, <2>2 DEF Defined
<1>10. ASSUME NEW j \in DOMAIN kept
       PROVE  /\ ls[j].read = kept[j].read /\ ls[j] \in Lane
              /\ Id(ls[j].key) = Id(kept[j].key)
              /\ IsDerived(kept[j].key) => ls[j].key = Derived(identity, name) /\ name # ""
              /\ ~IsDerived(kept[j].key) => ls[j] = kept[j]
  <2>1. kept[j] = [key |-> kept[j].key, read |-> kept[j].read]
    BY <1>8 DEF Lane
  <2>2. CASE IsDerived(kept[j].key)
    <3>1. ls[j] = [kept[j] EXCEPT !.key = Derived(identity, name)]
      BY <1>3, <2>2
    <3>2. ls[j].key = Derived(identity, name) /\ ls[j] = [key |-> Derived(identity, name), read |-> kept[j].read]
      <4> HIDE DEF ls
      <4> QED
        BY <2>1, <3>1
    <3>3. name # "" /\ kept[j].key[2] = identity
      BY <1>9, <2>2
    <3>4. Id(Derived(identity, name)) = Id(kept[j].key)
      <4>1. kept[j].key = Derived(identity, kept[j].key[3])
        BY <1>9, <2>2, <3>3, Kinds
      <4> QED
        BY <4>1, Kinds
    <3>5. Derived(identity, name) \in Signals
      BY <3>3, KeysTyped DEF Definition
    <3>6. ls[j] \in Lane /\ ls[j].read = kept[j].read
      <4>1. kept[j].read \in BOOLEAN
        BY <1>9
      <4>2. [key |-> Derived(identity, name), read |-> kept[j].read] \in Lane
        <5> DEFINE k == Derived(identity, name)
                   b == kept[j].read
        <5>1. k \in Signals /\ b \in BOOLEAN
          BY <3>5, <4>1
        <5> HIDE DEF k, b
        <5>2. [key |-> k, read |-> b] \in Lane
          BY ONLY <5>1 DEF Lane
        <5> QED
          BY <5>2 DEF k, b
      <4> HIDE DEF ls
      <4>3. ls[j].read = kept[j].read
        BY <3>2
      <4> QED
        BY <3>2, <4>2, <4>3
    <3> HIDE DEF ls
    <3> QED
      BY <2>2, <3>2, <3>3, <3>4, <3>6
  <2>3. CASE ~IsDerived(kept[j].key)
    <3>1. ls[j] = kept[j]
      BY <1>3, <2>3
    <3> HIDE DEF ls
    <3> QED
      BY <1>8, <2>3, <3>1
  <2> QED
    BY <2>2, <2>3
<1>11. DOMAIN ls = DOMAIN kept
  BY <1>3
<1>12. ls \in Lanes
  <2>1. PICK n \in Nat : DOMAIN kept = 1 .. n
    BY ONLY <1>5
  <2>2. ls \in [1 .. n -> Lane]
    <3>1. \A j \in DOMAIN kept : ls[j] \in Lane
      BY <1>10
    <3>2. ls = [j \in DOMAIN kept |-> ls[j]]
      BY <1>3
    <3> HIDE DEF ls
    <3> QED
      BY <2>1, <3>1, <3>2
  <2> HIDE DEF ls
  <2>3. ls \in Seq(Lane)
    BY ONLY <2>2, n \in Nat
  <2> QED
    BY <2>3 DEF Lanes
<1> HIDE DEF ls, R
<1>13. Recorded(ls, R, name, identity)
  <2> DEFINE g == [j \in DOMAIN R |-> j]
             B == DOMAIN R
  <2>1. Leads(g, R, B) /\ \A p \in DOMAIN R : R[p] = R[g[p]]
    BY <1>1, LeadsToAll DEF Rows
  <2>2. Leads(f, ls, A)
    BY <1>6, <1>11 DEF Leads
  <2>3. \A j \in DOMAIN ls : ls[j].read = lanes[f[j]].read /\ Id(ls[j].key) = Id(lanes[f[j]].key)
    BY <1>6, <1>10, <1>11
  <2>4. B \in SUBSET DOMAIN R
    OBVIOUS
  <2>5. \A i \in A, p \in DOMAIN R : ~lanes[i].read /\ Id(R[p]) = Id(lanes[i].key) => p \in B
    OBVIOUS
  <2>6. \A p \in B, i \in DOMAIN lanes :
          ~lanes[i].read /\ Id(R[p]) = Id(lanes[i].key) /\ Alive(R[p], name, identity) => i \in A
    <3>1. ASSUME NEW p \in DOMAIN R, NEW i \in DOMAIN lanes, Id(R[p]) = Id(lanes[i].key),
                 Alive(R[p], name, identity)
          PROVE  i \in A
      <4>1. R[p] \in Signals
        BY <1>1 DEF Rows
      <4>2. lanes[i] \in Lane
        BY ONLY <1>1, i \in DOMAIN lanes
      <4>3. lanes[i].key \in Signals
        BY <4>2 DEF Lane
      <4>4. Alive(lanes[i].key, name, identity)
        BY <3>1, <4>1, <4>3, AliveAlike
      <4> QED
        BY <1>4, <4>4 DEF Alive, Defined
    <3> QED
      BY <3>1
  <2>7. \A p \in B : Alive(R[p], name, identity) => Alive(R[p], name, identity)
    OBVIOUS
  <2>8. \A p \in DOMAIN R : Id(R[p]) = Id(R[g[p]])
    BY <2>1
  <2> HIDE DEF g, B
  <2> QED
    BY <1>1, <1>2, <1>12, <2>1, <2>2, <2>3, <2>4, <2>5, <2>6, <2>7, <2>8, Thinned
<1>14. \A i \in DOMAIN ls : IsDerived(ls[i].key) => ls[i].key \in Definition
  BY <1>10, <1>11 DEF Definition
<1>15. \A k : ~IsDerived(k) => (k \in KeysOf(ls) <=> k \in KeysOf(lanes))
  <2>1. ASSUME NEW k, ~IsDerived(k), k \in KeysOf(ls) PROVE k \in KeysOf(lanes)
    <3>1. PICK j \in DOMAIN kept : k = ls[j].key
      BY <1>11, <2>1 DEF KeysOf
    <3>2. IsDerived(Derived(identity, name))
      BY Kinds
    <3>3. ~IsDerived(kept[j].key)
      BY <1>10, <2>1, <3>1, <3>2
    <3>4. k = lanes[f[j]].key /\ f[j] \in DOMAIN lanes
      BY <1>6, <1>7, <1>10, <3>1, <3>3
    <3> QED
      BY <3>4 DEF KeysOf
  <2>2. ASSUME NEW k, ~IsDerived(k), k \in KeysOf(lanes) PROVE k \in KeysOf(ls)
    <3>1. PICK i \in DOMAIN lanes : k = lanes[i].key
      BY <2>2 DEF KeysOf
    <3>2. i \in A
      BY <1>4, <2>2, <3>1 DEF Defined
    <3>3. PICK j \in DOMAIN kept : f[j] = i
      BY <1>6, <3>2 DEF Leads
    <3>4. kept[j].key = k
      BY <1>6, <3>1, <3>3
    <3>5. ls[j].key = k
      BY <1>10, <2>2, <3>4
    <3> QED
      BY <1>11, <3>5 DEF KeysOf
  <2> QED
    BY <2>1, <2>2
<1>16. /\ Recorded(ls, rows["graphics"], name, identity)
       /\ \A i \in DOMAIN ls : IsDerived(ls[i].key) => ls[i].key \in Definition
       /\ \A k : ~IsDerived(k) => (k \in KeysOf(ls) <=> k \in KeysOf(lanes))
  BY <1>13, <1>14, <1>15 DEF R
<1> QED
  BY <1>16 DEF ls

LEMMA PublishKeeps ==
    ASSUME Steady, IInv, PublishState
    PROVE  IInv'
<1>1. /\ lanes' = FollowDefinition(lanes) /\ page' = Keys /\ lag' = FALSE
      /\ UNCHANGED <<rows, subs, name, identity, live, saved, served, commands>>
  BY DEF PublishState
<1>2. /\ Recorded(lanes', rows["graphics"], name, identity)
      /\ \A i \in DOMAIN lanes' : IsDerived((lanes')[i].key) => (lanes')[i].key \in Definition
      /\ \A k : ~IsDerived(k) => (k \in KeysOf(lanes') <=> k \in KeysOf(lanes))
  BY <1>1, FollowIs
<1>3. Kept'
  BY <1>1, <1>2 DEF IInv, Kept
<1>4. Definition' = Definition /\ Keys' = Keys
  BY <1>1 DEF Definition, Keys
<1>5. Published'
  BY <1>1, <1>2, <1>4 DEF Published
<1>6. Sampled'
  <2>1. SampledBy(KeysOf(lanes) \cup Listed(rows), subs, live, Definition)
    BY DEF IInv, Sampled
  <2>2. SampledBy(KeysOf(lanes') \cup Listed(rows), subs, live, Definition)
    BY <1>2, <2>1 DEF SampledBy
  <2> QED
    BY <1>1, <1>4, <2>2 DEF Sampled
<1> QED
  BY <1>3, <1>5, <1>6 DEF IInv

-----------------------------------------------------------------------------
(* The session                                                              *)

LEMMA InvStays ==
    ASSUME IInv, UNCHANGED <<chartVars, served>>
    PROVE  IInv'
<1>1. UNCHANGED <<lanes, rows, subs, name, identity, live, saved, page, lag, served, commands>>
  BY DEF chartVars
<1>2. Definition' = Definition /\ Keys' = Keys
  BY <1>1 DEF Definition, Keys
<1> QED
  BY <1>1, <1>2 DEF IInv, Kept, Published, Sampled

LEMMA InvInit ==
    ASSUME Steady, WebInit
    PROVE  IInv
<1>1. /\ lanes = <<>> /\ rows = [w \in Windows |-> <<>>] /\ subs = {} /\ name = "" /\ identity = 0
      /\ live = Clusters /\ page = Keys /\ served = TRUE /\ commands = 0
      /\ saved = [rows |-> rows, name |-> name, identity |-> identity, live |-> live]
  BY DEF WebInit
<1>2. <<>> \in Rows /\ <<>> \in Lanes
  BY DEF Rows, Lanes
<1>3. DOMAIN rows = Windows /\ \A w \in Windows : rows[w] = <<>>
  BY <1>1
<1>4. "graphics" \in Windows
  BY DEF Windows
<1>5. Recorded(<<>>, <<>>, "", 0)
  BY <1>2 DEF Recorded, LanesApart, RowsApart, PlottedFirst, HasRow, HasLane, SameOrder
<1>6. KeysOf(<<>>) = {} /\ ToSet(<<>>) = {} /\ Listed(rows) = {}
  <2>1. KeysOf(<<>>) = {} /\ ToSet(<<>>) = {}
    BY DEF KeysOf, ToSet
  <2> QED
    BY <1>3, <2>1 DEF Listed
<1>7. Project(rows, "", 0, 0)
  <2>1. RowsApart(<<>>)
    BY <1>5 DEF Recorded
  <2>2. Called(<<>>, "", 0) /\ Known(<<>>, 0)
    BY <1>6 DEF Called, Known
  <2>3. "" \in Names \cup {""} /\ 0 \in 0 .. 0
    OBVIOUS
  <2>4. rows["graphics"] = <<>> /\ \A w \in Windows : rows[w] \in Rows
    BY <1>2, <1>3, <1>4
  <2> QED
    BY <1>3, <2>1, <2>2, <2>3, <2>4 DEF Project
<1>8. saved.rows = rows /\ saved.name = "" /\ saved.identity = 0 /\ saved.live = Clusters
  BY <1>1
<1>9. Kept
  <2>1. MaxCommands \in Nat
    BY DEF Steady
  <2>2. commands = 0 /\ 0 \in 0 .. MaxCommands
    <3>1. 0 \in 0 .. MaxCommands
      BY ONLY <2>1
    <3> QED
      BY <1>1, <3>1
  <2>3. Recorded(lanes, rows["graphics"], name, identity)
    BY <1>1, <1>3, <1>4, <1>5
  <2>4. /\ Project(rows, name, identity, commands)
        /\ Project(saved.rows, saved.name, saved.identity, commands)
    BY <1>1, <1>7, <1>8
  <2> QED
    BY <1>1, <1>8, <2>2, <2>3, <2>4 DEF Kept
<1>10. Published
  <2>1. \A i : i \notin DOMAIN <<>>
    OBVIOUS
  <2> QED
    BY <1>1, <2>1 DEF Published
<1>11. Definition = {}
  BY <1>1 DEF Definition
<1>12. Sampled
  BY <1>1, <1>6, <1>11 DEF Sampled, SampledBy
<1> QED
  BY <1>9, <1>10, <1>12 DEF IInv

LEMMA InvNext ==
    ASSUME Steady, IInv, [WebNext]_webVars
    PROVE  IInv'
<1>1. CASE UNCHANGED webVars
  BY <1>1, InvStays DEF webVars
<1>2. CASE \E key \in Offered : \E read \in BOOLEAN : SelectSignal(key, read)
  <2>1. PICK key \in Offered : SelectSignal(key, TRUE) \/ SelectSignal(key, FALSE)
    BY <1>2
  <2> QED
    BY <2>1, SelectKeeps, ReadKeeps
<1>3. CASE \E key \in Offered : UnselectSignal(key)
  BY <1>3, UnselectKeeps
<1>4. CASE \E key \in Offered : \E to \in 1..(Cardinality(Clusters) + 1) : MoveSignal(key, to)
  <2>1. PICK key \in Offered : \E to \in 1..(Cardinality(Clusters) + 1) : MoveSignal(key, to)
    BY <1>4
  <2>2. PICK to \in 1..(Cardinality(Clusters) + 1) : MoveSignal(key, to)
    BY <2>1
  <2>3. to \in Nat /\ 1 <= to
    OBVIOUS
  <2> QED
    BY <2>2, <2>3, MoveKeeps
<1>5. CASE \E key \in Offered : \E w \in Watchers : Watch(w, key) \/ Unwatch(w, key)
  BY <1>5, WatchKeeps, UnwatchKeeps
<1>6. CASE \E w \in Watchers : ClearWatch(w)
  BY <1>6, ClearWatchKeeps
<1>7. CASE \E new \in Names \cup {""} : SetDerived(new)
  BY <1>7, SetDerivedKeeps
<1>8. CASE \E c \in Clusters : RemoveBus(c)
  BY <1>8, RemoveBusKeeps
<1>9. CASE SaveProject
  BY <1>9, SaveKeeps
<1>10. CASE OpenProject
  BY <1>10, OpenKeeps
<1>11. CASE OpenUnreadable
  BY <1>11 DEF OpenUnreadable, Steady
<1>12. CASE \E parses \in BOOLEAN : EditTrigger(parses)
  <2>1. served' = TRUE /\ served = TRUE /\ UNCHANGED chartVars
    BY <1>12 DEF EditTrigger, Steady
  <2> QED
    BY <2>1, InvStays
<1>13. CASE \/ WebStart \/ WebStop \/ SetRunMode \/ (\E on \in BOOLEAN : Pause(on))
            \/ TargetReached \/ ReplayPlayTo
  <2>1. Transport
    BY <1>13 DEF WebStart, WebStop, SetRunMode, Pause, TargetReached, ReplayPlayTo
  <2> QED
    BY <2>1, InvStays DEF Transport
<1>14. CASE PublishState
  BY <1>14, PublishKeeps
<1> QED
  BY <1>1, <1>2, <1>3, <1>4, <1>5, <1>6, <1>7, <1>8, <1>9, <1>10, <1>11, <1>12, <1>13, <1>14
  DEF WebNext

LEMMA InvHonest ==
    ASSUME Steady, IInv
    PROVE  WebHonest
<1> DEFINE R == rows["graphics"]
<1>1. /\ lanes \in Seq(Lane) /\ Recorded(lanes, R, name, identity) /\ R \in Seq(Signals)
  BY RowsTyped
<1>2. \A i \in DOMAIN lanes : /\ lanes[i].key \in Signals /\ lanes[i].key \in KeysOf(lanes)
                              /\ lanes[i].read \in BOOLEAN
  <2>1. \A i \in DOMAIN lanes : lanes[i] \in Lane
    BY ONLY <1>1
  <2> QED
    BY <2>1 DEF Lane, KeysOf
<1>3. \A p \in DOMAIN R : R[p] \in Signals /\ R[p] \in ToSet(R)
  <2>1. \A p \in DOMAIN R : R[p] \in Signals
    BY ONLY <1>1
  <2> QED
    BY <2>1 DEF ToSet
<1>4. SampledBy(KeysOf(lanes) \cup Listed(rows), subs, live, Definition)
  BY DEF IInv, Sampled
<1>5. ShownIsSampled
  <2>1. ASSUME NEW key \in KeysOf(FollowDefinition(lanes)) \cup Listed(rows), key \in Keys
        PROVE  key \in subs
    <3>1. CASE IsDerived(key)
      BY <1>4, <2>1, <3>1, KeysTyped DEF SampledBy
    <3>2. CASE ~IsDerived(key)
      <4>1. key \in KeysOf(lanes) \cup Listed(rows)
        BY <3>2, FollowIs
      <4>2. key[2] \in live
        BY <2>1, <3>2, KeysTyped DEF Binds
      <4> QED
        BY <1>4, <3>2, <4>1, <4>2 DEF SampledBy
    <3> QED
      BY <3>1, <3>2
  <2> QED
    BY <2>1 DEF ShownIsSampled
<1>6. SampledIsShown
  BY <1>4 DEF SampledIsShown, SampledBy
<1>7. OneLane
  BY <1>1 DEF OneLane, Recorded, LanesApart
<1>8. ReadsLast
  BY <1>1 DEF ReadsLast, Recorded, PlottedFirst
<1>9. /\ \A i \in DOMAIN lanes : ~lanes[i].read => \E p \in DOMAIN R : Id(R[p]) = Id(lanes[i].key)
      /\ \A p \in DOMAIN R : Alive(R[p], name, identity) =>
           \E i \in DOMAIN lanes : ~lanes[i].read /\ Id(lanes[i].key) = Id(R[p])
      /\ SameOrder(lanes, R)
  BY <1>1 DEF Recorded, HasRow, HasLane
<1>10. {lanes[i].key : i \in {j \in DOMAIN lanes : ~lanes[j].read}} \ {key \in KeysOf(lanes) : IsDerived(key)}
         = {key \in ToSet(R) : ~IsDerived(key)}
  <2>1. ASSUME NEW i \in DOMAIN lanes, ~lanes[i].read, ~IsDerived(lanes[i].key)
        PROVE  lanes[i].key \in ToSet(R)
    BY <1>2, <1>3, <1>9, <2>1, Keyed
  <2>2. ASSUME NEW p \in DOMAIN R, ~IsDerived(R[p])
        PROVE  \E i \in DOMAIN lanes : ~lanes[i].read /\ lanes[i].key = R[p]
    <3>1. PICK i \in DOMAIN lanes : ~lanes[i].read /\ Id(lanes[i].key) = Id(R[p])
      BY <1>9, <2>2 DEF Alive
    <3> QED
      BY <1>2, <1>3, <2>2, <3>1, Keyed
  <2>3. \A key \in ToSet(R) : \E p \in DOMAIN R : key = R[p]
    BY DEF ToSet
  <2> HIDE DEF R
  <2> QED
    BY <1>2, <2>1, <2>2, <2>3
<1>11. ~lag => {lanes[i].key : i \in {j \in DOMAIN lanes : ~lanes[j].read}} = {key \in ToSet(R) : Defined(key)}
  <2>1. ASSUME ~lag, NEW i \in DOMAIN lanes, ~lanes[i].read
        PROVE  lanes[i].key \in ToSet(R) /\ Defined(lanes[i].key)
    <3>1. PICK p \in DOMAIN R : Id(R[p]) = Id(lanes[i].key)
      BY <1>9, <2>1
    <3>2. R[p] = lanes[i].key
      BY <1>2, <1>3, <2>1, <3>1, RowOfLane
    <3>3. Defined(lanes[i].key)
      <4>1. CASE IsDerived(lanes[i].key)
        <5>1. lanes[i].key \in Definition
          BY <2>1, <4>1 DEF IInv, Published
        <5>2. lanes[i].key = Derived(identity, name) /\ name # ""
          BY <5>1, KeysTyped
        <5>3. Derived(identity, name)[2] = identity
          BY Kinds
        <5> QED
          BY <5>2, <5>3 DEF Defined
      <4>2. CASE ~IsDerived(lanes[i].key)
        BY <4>2 DEF Defined
      <4> QED
        BY <4>1, <4>2
    <3> QED
      BY <1>3, <3>2, <3>3
  <2>2. ASSUME ~lag, NEW p \in DOMAIN R, Defined(R[p])
        PROVE  \E i \in DOMAIN lanes : ~lanes[i].read /\ lanes[i].key = R[p]
    <3>1. PICK i \in DOMAIN lanes : ~lanes[i].read /\ Id(lanes[i].key) = Id(R[p])
      BY <1>9, <2>2 DEF Alive, Defined
    <3> QED
      BY <1>2, <1>3, <2>2, <3>1, RowOfLane
  <2>3. \A key \in ToSet(R) : \E p \in DOMAIN R : key = R[p]
    BY DEF ToSet
  <2> HIDE DEF R
  <2> QED
    BY <2>1, <2>2, <2>3
<1>12. \A i, j \in {k \in DOMAIN lanes : ~lanes[k].read} : \A p, q \in DOMAIN R :
         i < j /\ R[p] = lanes[i].key /\ R[q] = lanes[j].key => p < q
  BY <1>9 DEF SameOrder
<1>13. PlottedIsRecorded
  BY <1>10, <1>11, <1>12 DEF PlottedIsRecorded
<1>14. StaysServing
  BY DEF StaysServing, IInv, Kept
<1> QED
  BY <1>5, <1>6, <1>7, <1>8, <1>13, <1>14 DEF WebHonest, LanesRecorded

\* Whatever a steady session is told, everything it shows is sampled and nothing
\* else is, a signal has one lane, and what is plotted is, in its order, what the
\* project records: for any buses, names, windows and number of commands.
THEOREM SessionInStep == Steady /\ WebSpec => []WebHonest
<1>1. CASE Steady
  <2>1. WebInit => IInv
    BY <1>1, InvInit
  <2>2. IInv /\ [WebNext]_webVars => IInv'
    BY <1>1, InvNext
  <2>3. IInv => WebHonest
    BY <1>1, InvHonest
  <2> QED
    BY <2>1, <2>2, <2>3, PTL DEF WebSpec
<1>2. CASE ~Steady
  BY <1>2
<1> QED
  BY <1>1, <1>2

-----------------------------------------------------------------------------
(* The trace: what came, what the rings hold, what the log shows            *)

\* A row bears the stamp of its place.
TraceRows ==
    {r \in [kind : {"can", "fr", "eth"}, n : Nat, t : Nat, bus : Nat, size : Nat] :
       r.t = (r.n + 1) \div 2}

\* What came of one kind, in the order in which it came.
Came(list, kind, top) ==
    /\ list \in Seq(TraceRows)
    /\ \A i \in DOMAIN list : list[i].kind = kind /\ list[i].n \in 1 .. top
    /\ \A i, j \in DOMAIN list : i < j => list[i].n < list[j].n

\* A ring holds the end of it.
EndOf(ring, list) ==
    /\ ring = [rows |-> ring.rows, ends |-> ring.ends, dropped |-> ring.dropped]
    /\ ring.rows \in Seq(TraceRows) /\ ring.dropped \in 0 .. Len(list)
    /\ Len(ring.rows) = Len(list) - ring.dropped
    /\ \A i \in 1 .. Len(ring.rows) : ring.rows[i] = list[ring.dropped + i]

\* The sealed chunks of the Ethernet ring end within it.
Sealed(ring) ==
    /\ IsFiniteSet(ring.ends)
    /\ ring.ends \subseteq ring.dropped .. ring.dropped + Len(ring.rows)

Archived ==
    /\ archive = [open |-> archive.open, file |-> archive.file, at |-> archive.at,
                  frames |-> archive.frames]
    /\ archive.file \in Seq(TraceRows) /\ Len(archive.file) = can.dropped
    /\ archive.at = can.dropped /\ archive.frames = can.dropped
    /\ \A i \in 1 .. can.dropped : archive.file[i] = run.can[i]

Ringed ==
    /\ run = [n |-> run.n, can |-> run.can, fr |-> run.fr, eth |-> run.eth] /\ run.n \in Nat
    /\ Came(run.can, "can", run.n) /\ Came(run.fr, "fr", run.n) /\ Came(run.eth, "eth", run.n)
    /\ EndOf(can, run.can) /\ EndOf(fr, run.fr) /\ EndOf(eth, run.eth)
    /\ Sealed(eth)
    /\ Archived

\* The entries of the log are numbered in ascending order.
Entry == [seq : Nat, row : TraceRows]
IsStore(s) ==
    /\ s \in [epoch : Nat, next_seq : Nat, log : Seq(Entry), last_total : Nat,
              last_fr : Nat, last_eth : Nat, primed : BOOLEAN]
    /\ \A i \in DOMAIN s.log : s.log[i].seq < s.next_seq
    /\ \A i, j \in DOMAIN s.log : i < j => s.log[i].seq < s.log[j].seq
Stored == IsStore(store)

\* The rows of a log; rows that come one after another in time.
LogRows(log) == [k \in DOMAIN log |-> log[k].row]
InTime(list) ==
    \A i, j \in DOMAIN list : i < j => list[i] # list[j] /\ list[i].t <= list[j].t
Distinct(list) == \A i, j \in DOMAIN list : i < j => list[i] # list[j]
HoldsRow(list, row) == \E k \in DOMAIN list : list[k] = row
\* A row is shown, or newer ones have pushed it out.
ShownIn(row, list) ==
    \/ HoldsRow(list, row)
    \/ Len(list) = LogCap /\ \A k \in DOMAIN list : list[k].t >= row.t

\* The web thread has seen the first rows of each ring, those up to place m of
\* the run, and nothing else.
Split(list, last, m) == \A i \in DOMAIN list : i <= last <=> list[i].n <= m
SeenUpTo(m) ==
    /\ Split(run.can, store.last_total, m)
    /\ Split(run.fr, store.last_fr, m)
    /\ Split(run.eth, store.last_eth, m)
    /\ \A k \in DOMAIN store.log : store.log[k].row.n <= m
    /\ InTime(LogRows(store.log))
    /\ \A row \in ToSet(can.rows) \cup ToSet(fr.rows) \cup ToSet(eth.rows) :
         row.n <= m => ShownIn(row, LogRows(store.log))
Full == fr.dropped # 0 \/ eth.dropped # 0
Seen ==
    /\ store.primed /\ store.last_total = 0 /\ store.last_fr = 0 /\ store.last_eth = 0
         => store.log = <<>>
    /\ ~Rewound(store) /\ ~Full => \E m \in 0 .. run.n : SeenUpTo(m)

\* The browser shows rows of one log, the newest first.
Followed ==
    /\ client.epoch \in -1 .. store.epoch /\ client.seq \in Nat
    /\ client.rows \in Seq([epoch : Int, seq : Nat])
    /\ \A i \in DOMAIN client.rows :
         client.rows[i].epoch = client.epoch /\ client.rows[i].seq < client.seq
    /\ \A i, j \in DOMAIN client.rows : i < j => client.rows[i].seq > client.rows[j].seq

FeedInv == Ringed /\ Stored /\ Seen /\ Followed

-----------------------------------------------------------------------------
(* Sequences that are cut and put together                                  *)

\* What is left after n elements are cut off at the front.
LEMMA CutFront ==
    ASSUME NEW S, NEW s \in Seq(S), NEW n \in 0 .. Len(s)
    PROVE  /\ SubSeq(s, n + 1, Len(s)) \in Seq(S)
           /\ Len(SubSeq(s, n + 1, Len(s))) = Len(s) - n
           /\ \A i \in 1 .. Len(s) - n : SubSeq(s, n + 1, Len(s))[i] = s[n + i]
<1>1. Len(s) \in Nat /\ \A i \in 1 .. Len(s) : s[i] \in S
  OBVIOUS
<1>2. CASE n < Len(s)
  <2>1. n + 1 \in 1 .. Len(s) + 1 /\ Len(s) \in 0 .. Len(s)
    BY <1>1
  <2> QED
    BY <1>1, <2>1
<1>3. CASE n = Len(s)
  <2>1. SubSeq(s, n + 1, Len(s)) = <<>>
    BY <1>1, <1>3
  <2> QED
    BY <1>1, <1>3, <2>1
<1> QED
  BY <1>1, <1>2, <1>3

\* The first elements.
LEMMA CutBack ==
    ASSUME NEW S, NEW s \in Seq(S), NEW n \in 0 .. Len(s)
    PROVE  /\ SubSeq(s, 1, n) \in Seq(S)
           /\ Len(SubSeq(s, 1, n)) = n
           /\ \A i \in 1 .. n : SubSeq(s, 1, n)[i] = s[i]
<1>1. Len(s) \in Nat /\ \A i \in 1 .. Len(s) : s[i] \in S
  OBVIOUS
<1> QED
  BY <1>1

\* One sequence behind another.
LEMMA JoinedParts ==
    ASSUME NEW S, NEW a \in Seq(S), NEW b \in Seq(S)
    PROVE  /\ a \o b \in Seq(S)
           /\ Len(a) \in Nat /\ Len(b) \in Nat /\ Len(a \o b) = Len(a) + Len(b)
           /\ \A i \in 1 .. Len(a) : (a \o b)[i] = a[i]
           /\ \A i \in 1 .. Len(b) : (a \o b)[Len(a) + i] = b[i]
           /\ \A i \in 1 .. Len(a) + Len(b) :
                i \in 1 .. Len(a) \/ i - Len(a) \in 1 .. Len(b)
<1>1. /\ a \o b \in Seq(S)
      /\ Len(a) \in Nat /\ Len(b) \in Nat /\ Len(a \o b) = Len(a) + Len(b)
      /\ \A i \in 1 .. Len(a) : (a \o b)[i] = a[i]
  OBVIOUS
<1>2. \A i \in 1 .. Len(b) : (a \o b)[Len(a) + i] = b[i]
  OBVIOUS
<1> QED
  BY <1>1, <1>2

LEMMA AppendedOne ==
    ASSUME NEW S, NEW s \in Seq(S), NEW e \in S
    PROVE  /\ Append(s, e) \in Seq(S) /\ Len(s) \in Nat
           /\ Len(Append(s, e)) = Len(s) + 1
           /\ \A i \in 1 .. Len(s) : Append(s, e)[i] = s[i]
           /\ Append(s, e)[Len(s) + 1] = e
OBVIOUS

\* A sequence turned around.
LEMMA Reversed ==
    ASSUME NEW S, NEW s \in Seq(S)
    PROVE  /\ Reverse(s) \in Seq(S) /\ Len(Reverse(s)) = Len(s) /\ Len(s) \in Nat
           /\ \A i \in 1 .. Len(s) : Reverse(s)[i] = s[Len(s) - i + 1]
<1>1. Len(s) \in Nat /\ \A i \in 1 .. Len(s) : s[i] \in S
  OBVIOUS
<1>2. \A i \in 1 .. Len(s) : Len(s) - i + 1 \in 1 .. Len(s)
  BY <1>1
<1>3. Reverse(s) = [i \in 1 .. Len(s) |-> s[Len(s) - i + 1]]
  BY DEF Reverse
<1>4. Reverse(s) \in [1 .. Len(s) -> S]
  BY <1>1, <1>2, <1>3
<1> QED
  BY <1>1, <1>3, <1>4

\* The last n elements.
LEMMA LastOnes ==
    ASSUME NEW S, NEW s \in Seq(S), NEW n \in 0 .. Len(s)
    PROVE  /\ LastN(s, n) \in Seq(S) /\ Len(LastN(s, n)) = n /\ Len(s) \in Nat
           /\ \A i \in 1 .. n : LastN(s, n)[i] = s[Len(s) - n + i]
<1>1. Len(s) \in Nat
  OBVIOUS
<1> DEFINE k == Len(s) - n
<1>2. k \in 0 .. Len(s) /\ Len(s) - k = n
  BY <1>1
<1>3. LastN(s, n) = SubSeq(s, k + 1, Len(s))
  BY DEF LastN
<1> HIDE DEF k
<1>4. /\ SubSeq(s, k + 1, Len(s)) \in Seq(S)
      /\ Len(SubSeq(s, k + 1, Len(s))) = Len(s) - k
      /\ \A i \in 1 .. Len(s) - k : SubSeq(s, k + 1, Len(s))[i] = s[k + i]
  BY <1>2, CutFront
<1>5. k = Len(s) - n
  BY DEF k
<1> QED
  BY <1>1, <1>2, <1>3, <1>4, <1>5

\* Two sequences of one length that agree everywhere.
LEMMA SameSeq ==
    ASSUME NEW S, NEW s \in Seq(S), NEW u \in Seq(S), Len(s) = Len(u),
           \A i \in 1 .. Len(s) : s[i] = u[i]
    PROVE  s = u
OBVIOUS

-----------------------------------------------------------------------------
(* What a ring does                                                         *)

LEMMA ShedKeeps ==
    ASSUME NEW list \in Seq(TraceRows), NEW ring, EndOf(ring, list),
           NEW n \in 0 .. Len(ring.rows)
    PROVE  /\ EndOf(Shed(ring, n), list)
           /\ Shed(ring, n).dropped = ring.dropped + n
           /\ Len(Shed(ring, n).rows) = Len(ring.rows) - n
           /\ Shed(ring, n).ends = {e \in ring.ends : e > ring.dropped + n}
<1> DEFINE shed == Shed(ring, n)
           left == SubSeq(ring.rows, n + 1, Len(ring.rows))
<1>1. /\ ring.rows \in Seq(TraceRows) /\ ring.dropped \in 0 .. Len(list)
      /\ Len(ring.rows) = Len(list) - ring.dropped
      /\ \A i \in 1 .. Len(ring.rows) : ring.rows[i] = list[ring.dropped + i]
      /\ Len(list) \in Nat
  BY LenProperties DEF EndOf
<1>2. /\ left \in Seq(TraceRows) /\ Len(left) = Len(ring.rows) - n
      /\ \A i \in 1 .. Len(ring.rows) - n : left[i] = ring.rows[n + i]
  BY <1>1, CutFront
<1>3. /\ shed = [rows |-> left, ends |-> shed.ends, dropped |-> ring.dropped + n]
      /\ shed.ends = {e \in ring.ends : e > ring.dropped + n}
  BY DEF Shed, Held
<1> HIDE DEF shed, left
<1>4. /\ shed.rows = left /\ shed.dropped = ring.dropped + n
      /\ shed = [rows |-> shed.rows, ends |-> shed.ends, dropped |-> shed.dropped]
  BY <1>3
<1>5. \A i \in 1 .. Len(left) : left[i] = list[ring.dropped + n + i]
  <2>1. ASSUME NEW i \in 1 .. Len(left) PROVE left[i] = list[ring.dropped + n + i]
    <3>1. n + i \in 1 .. Len(ring.rows) /\ i \in 1 .. Len(ring.rows) - n
      BY <1>1, <1>2
    <3>2. ring.rows[n + i] = list[ring.dropped + (n + i)]
      BY <1>1, <3>1
    <3>3. ring.dropped + (n + i) = ring.dropped + n + i
      BY <1>1
    <3> QED
      BY <1>2, <3>1, <3>2, <3>3
  <2> QED
    BY <2>1
<1>6. EndOf(shed, list)
  <2>1. ring.dropped + n \in 0 .. Len(list) /\ Len(left) = Len(list) - (ring.dropped + n)
    BY <1>1, <1>2
  <2> QED
    BY <1>2, <1>4, <1>5, <2>1 DEF EndOf
<1>7. EndOf(shed, list) /\ shed.dropped = ring.dropped + n /\ Len(shed.rows) = Len(ring.rows) - n
  BY <1>2, <1>4, <1>6
<1> QED
  BY <1>3, <1>7 DEF shed

LEMMA RecordWithRows ==
    ASSUME NEW ring, ring = [rows |-> ring.rows, ends |-> ring.ends, dropped |-> ring.dropped],
           NEW row
    PROVE  [ring EXCEPT !.rows = Append(@, row)]
             = [rows |-> Append(ring.rows, row), ends |-> ring.ends, dropped |-> ring.dropped]
<1> DEFINE new == [ring EXCEPT !.rows = Append(@, row)]
<1>1. DOMAIN new = {"rows", "ends", "dropped"}
  OBVIOUS
<1>2. new.rows = Append(ring.rows, row) /\ new.ends = ring.ends /\ new.dropped = ring.dropped
  OBVIOUS
<1>3. new = [f \in DOMAIN new |-> new[f]]
  OBVIOUS
<1> HIDE DEF new
<1>4. new = [rows |-> Append(ring.rows, row), ends |-> ring.ends, dropped |-> ring.dropped]
  BY <1>1, <1>2, <1>3
<1> QED
  BY <1>4 DEF new

LEMMA PushedIs ==
    ASSUME NEW list \in Seq(TraceRows), NEW ring, EndOf(ring, list), NEW row \in TraceRows
    PROVE  /\ EndOf(Pushed(ring, row), Append(list, row))
           /\ Pushed(ring, row).dropped = ring.dropped
           /\ Pushed(ring, row).rows = Append(ring.rows, row)
           /\ \/ Pushed(ring, row).ends = ring.ends
              \/ Pushed(ring, row).ends = ring.ends \cup {ring.dropped + Len(ring.rows) + 1}
<1> DEFINE pushed == Pushed(ring, row)
           longer == Append(ring.rows, row)
<1>1. /\ ring.rows \in Seq(TraceRows) /\ ring.dropped \in 0 .. Len(list)
      /\ Len(ring.rows) = Len(list) - ring.dropped
      /\ \A i \in 1 .. Len(ring.rows) : ring.rows[i] = list[ring.dropped + i]
      /\ ring = [rows |-> ring.rows, ends |-> ring.ends, dropped |-> ring.dropped]
  BY DEF EndOf
<1>2. /\ longer \in Seq(TraceRows) /\ Len(ring.rows) \in Nat
      /\ Len(longer) = Len(ring.rows) + 1
      /\ \A i \in 1 .. Len(ring.rows) : longer[i] = ring.rows[i]
      /\ longer[Len(ring.rows) + 1] = row
  BY <1>1, AppendedOne
<1>3. /\ Append(list, row) \in Seq(TraceRows) /\ Len(list) \in Nat
      /\ Len(Append(list, row)) = Len(list) + 1
      /\ \A i \in 1 .. Len(list) : Append(list, row)[i] = list[i]
      /\ Append(list, row)[Len(list) + 1] = row
  BY AppendedOne
<1> DEFINE all == Append(list, row)
<1> HIDE DEF longer, all
<1>4. [ring EXCEPT !.rows = Append(@, row)]
        = [rows |-> longer, ends |-> ring.ends, dropped |-> ring.dropped]
  <2>1. [ring EXCEPT !.rows = Append(@, row)]
          = [rows |-> Append(ring.rows, row), ends |-> ring.ends, dropped |-> ring.dropped]
    BY ONLY <1>1, RecordWithRows
  <2> QED
    BY <2>1 DEF longer
<1>5. Total([rows |-> longer, ends |-> ring.ends, dropped |-> ring.dropped])
        = ring.dropped + Len(ring.rows) + 1
  BY <1>1, <1>2 DEF Total, Held
<1>6. \/ pushed = [rows |-> longer, ends |-> ring.ends, dropped |-> ring.dropped]
      \/ pushed = [rows |-> longer, ends |-> ring.ends \cup {ring.dropped + Len(ring.rows) + 1},
                   dropped |-> ring.dropped]
  BY <1>4, <1>5 DEF Pushed
<1> HIDE DEF pushed
<1>7. /\ pushed = [rows |-> pushed.rows, ends |-> pushed.ends, dropped |-> pushed.dropped]
      /\ pushed.rows = longer /\ pushed.dropped = ring.dropped
      /\ \/ pushed.ends = ring.ends
         \/ pushed.ends = ring.ends \cup {ring.dropped + Len(ring.rows) + 1}
  BY <1>6
<1>8. \A i \in 1 .. Len(longer) : longer[i] = all[ring.dropped + i]
  <2>1. ASSUME NEW i \in 1 .. Len(longer) PROVE longer[i] = all[ring.dropped + i]
    <3>1. CASE i \in 1 .. Len(ring.rows)
      <4>1. ring.dropped + i \in 1 .. Len(list)
        BY <1>1, <1>2, <1>3, <3>1
      <4> QED
        BY <1>1, <1>2, <1>3, <3>1, <4>1 DEF all
    <3>2. CASE i = Len(ring.rows) + 1
      <4>1. ring.dropped + i = Len(list) + 1
        BY <1>1, <1>2, <1>3, <3>2
      <4> QED
        BY <1>2, <1>3, <3>2, <4>1 DEF all
    <3> QED
      BY <1>2, <3>1, <3>2
  <2> QED
    BY <2>1
<1>9. EndOf(pushed, all)
  <2>1. /\ ring.dropped \in 0 .. Len(all) /\ Len(longer) = Len(all) - ring.dropped
    BY <1>1, <1>2, <1>3 DEF all
  <2> QED
    BY <1>2, <1>7, <1>8, <2>1 DEF EndOf
<1> QED
  BY <1>7, <1>9 DEF pushed, longer, all

LEMMA TrimmedKeeps ==
    ASSUME NEW list \in Seq(TraceRows), NEW ring, EndOf(ring, list), TraceAssumption
    PROVE  /\ EndOf(Trimmed(ring), list)
           /\ Trimmed(ring).dropped \in Nat /\ Trimmed(ring).dropped >= ring.dropped
<1>1. /\ Len(ring.rows) \in Nat /\ ring.dropped \in Nat /\ Limit \in Nat
  BY LenProperties DEF EndOf, TraceAssumption
<1>2. CASE Len(ring.rows) <= Limit
  BY <1>1, <1>2 DEF Trimmed, Held
<1>3. CASE ~(Len(ring.rows) <= Limit)
  <2> DEFINE n == Len(ring.rows) - Limit
  <2>1. n \in 0 .. Len(ring.rows) /\ n \in Nat
    BY <1>1, <1>3
  <2>2. Trimmed(ring) = Shed(ring, n)
    BY <1>3 DEF Trimmed, Held
  <2> HIDE DEF n
  <2>3. EndOf(Shed(ring, n), list) /\ Shed(ring, n).dropped = ring.dropped + n
    BY <2>1, ShedKeeps
  <2> QED
    BY <1>1, <2>1, <2>2, <2>3
<1> QED
  BY <1>2, <1>3

\* A finite set of natural numbers that is not empty has a least element.
LEMMA LeastEnd ==
    ASSUME NEW S \in SUBSET Nat, S # {}
    PROVE  Min(S) \in S /\ \A x \in S : Min(S) <= x
<1>1. \E m \in S : \A x \in S : m <= x
  BY LeastNat
<1> QED
  BY <1>1 DEF Min

LEMMA EthTurnKeeps ==
    ASSUME NEW list \in Seq(TraceRows), NEW ring, EndOf(ring, list), Sealed(ring), TraceAssumption
    PROVE  /\ EndOf(EthTurn(ring), list) /\ Sealed(EthTurn(ring))
           /\ EthTurn(ring).dropped >= ring.dropped
<1>1. /\ Len(ring.rows) \in Nat /\ ring.dropped \in Nat
      /\ IsFiniteSet(ring.ends) /\ ring.ends \subseteq ring.dropped .. ring.dropped + Len(ring.rows)
      /\ ring = [rows |-> ring.rows, ends |-> ring.ends, dropped |-> ring.dropped]
  BY LenProperties DEF EndOf, Sealed
<1> DEFINE Keeps(r) == EndOf(r, list) /\ Sealed(r) /\ r.dropped >= ring.dropped
<1>2. Keeps(ring)
  BY <1>1
<1>3. ASSUME NEW n \in 0 .. Len(ring.rows) PROVE Keeps(Shed(ring, n))
  <2> DEFINE shed == Shed(ring, n)
  <2>1. /\ EndOf(shed, list) /\ shed.dropped = ring.dropped + n
        /\ Len(shed.rows) = Len(ring.rows) - n
        /\ shed.ends = {e \in ring.ends : e > ring.dropped + n}
    BY ShedKeeps
  <2> HIDE DEF shed
  <2>2. IsFiniteSet(shed.ends)
    <3>1. shed.ends \subseteq ring.ends
      BY <2>1
    <3> QED
      BY <1>1, <3>1, FS_Subset
  <2>3. shed.ends \subseteq shed.dropped .. shed.dropped + Len(shed.rows)
    BY <1>1, <2>1, SMTT(30)
  <2>4. Keeps(shed)
    BY <1>1, <2>1, <2>2, <2>3, SMTT(30) DEF Sealed
  <2> QED
    BY <2>4 DEF shed
<1>4. ASSUME ring.ends # {}
      PROVE  HeadLen(ring) \in 0 .. Len(ring.rows) /\ \A e \in ring.ends : ring.dropped + HeadLen(ring) <= e
  <2>1. ring.ends \in SUBSET Nat
    BY <1>1
  <2>2. Min(ring.ends) \in ring.ends /\ \A e \in ring.ends : Min(ring.ends) <= e
    BY <1>4, <2>1, LeastEnd
  <2>3. PICK least \in ring.ends : least = Min(ring.ends)
    BY <2>2
  <2>4. least \in ring.dropped .. ring.dropped + Len(ring.rows) /\ HeadLen(ring) = least - ring.dropped
    BY <1>1, <2>3 DEF HeadLen
  <2>5. \A e \in ring.ends : e \in Nat
    BY <2>1
  <2> QED
    BY <1>1, <2>2, <2>3, <2>4, <2>5
<1>5. ASSUME ring.ends # {} PROVE Keeps(HeadGone(ring))
  BY <1>3, <1>4, <1>5 DEF HeadGone
<1>6. ASSUME ring.ends # {}, NEW n \in 0 .. HeadLen(ring) PROVE Keeps(HeadCut(ring, n))
  <2> DEFINE shed == Shed(ring, n)
             cut == HeadCut(ring, n)
  <2>1. n \in 0 .. Len(ring.rows)
    BY <1>1, <1>4, <1>6, SMTT(30)
  <2>2. /\ EndOf(shed, list) /\ shed.dropped = ring.dropped + n
        /\ Len(shed.rows) = Len(ring.rows) - n
    BY <2>1, ShedKeeps, SMTT(30)
  <2>3. shed = [rows |-> shed.rows, ends |-> shed.ends, dropped |-> shed.dropped]
    BY <2>2 DEF EndOf
  <2>4. cut = [shed EXCEPT !.ends = ring.ends]
    BY DEF HeadCut
  <2> HIDE DEF cut, shed
  <2>5. /\ cut = [rows |-> cut.rows, ends |-> cut.ends, dropped |-> cut.dropped]
        /\ cut.rows = shed.rows /\ cut.dropped = shed.dropped /\ cut.ends = ring.ends
    BY <2>3, <2>4
  <2>6. EndOf(cut, list)
    BY <2>2, <2>5 DEF EndOf
  <2>7. cut.ends \subseteq cut.dropped .. cut.dropped + Len(cut.rows)
    <3>1. ASSUME NEW e \in ring.ends
          PROVE  e \in ring.dropped + n .. ring.dropped + n + (Len(ring.rows) - n)
      <4>1. e \in ring.dropped .. ring.dropped + Len(ring.rows) /\ ring.dropped + HeadLen(ring) <= e
        BY <1>1, <1>4, <1>6
      <4>2. PICK h \in Int : h = HeadLen(ring)
        BY <1>4, <1>6, <1>1
      <4>3. n \in 0 .. h /\ ring.dropped + h <= e
        BY <1>6, <4>1, <4>2
      <4>4. ring.dropped + n + (Len(ring.rows) - n) = ring.dropped + Len(ring.rows)
        BY <1>1, <4>3, SMTT(30)
      <4>5. e \in Nat /\ ring.dropped + n <= e /\ e <= ring.dropped + Len(ring.rows)
        BY <1>1, <4>1, <4>2, <4>3, SMTT(30)
      <4> QED
        BY <1>1, <4>3, <4>4, <4>5
    <3> QED
      BY <2>2, <2>5, <3>1
  <2>8. Keeps(cut)
    BY <1>1, <2>1, <2>2, <2>5, <2>6, <2>7, SMTT(30) DEF Sealed
  <2> QED
    BY <2>8 DEF cut
<1>7. ASSUME ring.ends # {} PROVE Excess(ring) \in 0 .. HeadLen(ring)
  <2> DEFINE ns == {n \in 0..HeadLen(ring) : n = HeadLen(ring) \/ Bytes(Shed(ring, n)) <= EthBytes}
  <2>1. HeadLen(ring) \in Nat
    BY <1>1, <1>4, <1>7
  <2>2. HeadLen(ring) \in ns
    BY <2>1
  <2>3. ns \in SUBSET Nat /\ ns \subseteq 0 .. HeadLen(ring)
    BY <2>1
  <2>4. Excess(ring) = Min(ns)
    BY DEF Excess
  <2> HIDE DEF ns
  <2>5. Min(ns) \in ns
    BY <2>2, <2>3, LeastEnd
  <2> QED
    BY <2>3, <2>4, <2>5
<1>8. Keeps(EthTurn(ring))
  <2>1. CASE ~Over(ring)
    <3>1. EthTurn(ring) = ring
      BY <2>1 DEF EthTurn
    <3> QED
      BY <1>2, <3>1
  <2>2. CASE Over(ring) /\ ring.ends = {}
    <3>1. 1 \in 0 .. Len(ring.rows)
      BY <1>1, <2>2 DEF Over, Held
    <3>2. EthTurn(ring) = Shed(ring, 1)
      BY <2>2 DEF EthTurn
    <3> QED
      BY <1>3, <3>1, <3>2
  <2>3. CASE Over(ring) /\ ring.ends # {}
    <3>1. \/ EthTurn(ring) = HeadGone(ring) \/ EthTurn(ring) = HeadCut(ring, Excess(ring))
          \/ EthTurn(ring) = ring
      BY <2>3 DEF EthTurn
    <3>2. Keeps(HeadGone(ring)) /\ Keeps(HeadCut(ring, Excess(ring)))
      BY <1>5, <1>6, <1>7, <2>3
    <3> QED
      BY <1>2, <3>1, <3>2
  <2> QED
    BY <2>1, <2>2, <2>3
<1> QED
  BY <1>8

\* The turns of the loop that trims the Ethernet ring.
Turning(ring, f, n) == f = [k \in 0 .. n |-> IF k = 0 THEN ring ELSE EthTurn(f[k - 1])]

LEMMA TurningExists ==
    ASSUME NEW ring, NEW top \in Nat
    PROVE  \E f : Turning(ring, f, top)
<1> DEFINE Never == {n \in 0 .. top : ~\E f : Turning(ring, f, n)}
<1>1. ASSUME Never # {} PROVE FALSE
  <2>1. PICK n \in Never : \A k \in Never : n <= k
    <3>1. Never \in SUBSET Nat
      OBVIOUS
    <3> HIDE DEF Never
    <3> QED
      BY <1>1, <3>1, LeastNat
  <2>2. n \in 0 .. top /\ ~\E f : Turning(ring, f, n)
    OBVIOUS
  <2>3. n # 0
    <3> DEFINE f == [k \in 0 .. 0 |-> ring]
    <3>1. \A k \in 0 .. 0 : (IF k = 0 THEN ring ELSE EthTurn(f[k - 1])) = ring
      OBVIOUS
    <3>2. f = [k \in 0 .. 0 |-> ring]
      OBVIOUS
    <3> HIDE DEF f
    <3>3. f = [k \in 0 .. 0 |-> IF k = 0 THEN ring ELSE EthTurn(f[k - 1])]
      BY <3>1, <3>2
    <3>4. Turning(ring, f, 0)
      BY <3>3 DEF Turning
    <3> QED
      BY <2>2, <3>4
  <2>4. n - 1 \in 0 .. top /\ n - 1 \notin Never
    BY <2>1, <2>2, <2>3
  <2>5. PICK g : Turning(ring, g, n - 1)
    BY <2>4
  <2> DEFINE f == [k \in 0 .. n |-> IF k = 0 THEN ring ELSE EthTurn(g[k - 1])]
  <2>6. \A k \in 0 .. n - 1 : f[k] = g[k]
    <3>1. ASSUME NEW k \in 0 .. n - 1 PROVE f[k] = g[k]
      <4>1. f[k] = IF k = 0 THEN ring ELSE EthTurn(g[k - 1])
        BY <2>2, <2>3
      <4>2. g[k] = IF k = 0 THEN ring ELSE EthTurn(g[k - 1])
        BY <2>5 DEF Turning
      <4> QED
        BY <4>1, <4>2
    <3> QED
      BY <3>1
  <2>7. f = [k \in 0 .. n |-> IF k = 0 THEN ring ELSE EthTurn(g[k - 1])]
    OBVIOUS
  <2> HIDE DEF f, Never
  <2>8. \A k \in 0 .. n : (IF k = 0 THEN ring ELSE EthTurn(g[k - 1]))
                            = IF k = 0 THEN ring ELSE EthTurn(f[k - 1])
    <3>1. ASSUME NEW k \in 0 .. n, k # 0 PROVE g[k - 1] = f[k - 1]
      <4>1. k - 1 \in 0 .. n - 1
        BY <2>2, <3>1
      <4> QED
        BY <2>6, <4>1
    <3> QED
      BY <3>1
  <2>9. f = [k \in 0 .. n |-> IF k = 0 THEN ring ELSE EthTurn(f[k - 1])]
    BY <2>7, <2>8
  <2> QED
    BY <2>2, <2>9 DEF Turning
<1>2. top \in 0 .. top
  OBVIOUS
<1> QED
  BY <1>1, <1>2

LEMMA EthTrimmedKeeps ==
    ASSUME NEW list \in Seq(TraceRows), NEW ring, EndOf(ring, list), Sealed(ring), TraceAssumption
    PROVE  /\ EndOf(EthTrimmed(ring), list) /\ Sealed(EthTrimmed(ring))
           /\ EthTrimmed(ring).dropped >= ring.dropped
<1> DEFINE turns == Held(ring) + Cardinality(ring.ends)
           after == CHOOSE f : Turning(ring, f, turns)
<1>1. turns \in Nat /\ ring.dropped \in Nat
  <2>1. Cardinality(ring.ends) \in Nat
    BY FS_CardinalityType DEF Sealed
  <2> QED
    BY <2>1, LenProperties, SMTT(30) DEF EndOf, Held
<1>2. EthTrimmed(ring) = after[turns]
  BY DEF EthTrimmed, Turning
<1>3. Turning(ring, after, turns)
  <2>1. \E f : Turning(ring, f, turns)
    <3> HIDE DEF turns
    <3> QED
      BY <1>1, TurningExists
  <2> QED
    BY <2>1
<1> HIDE DEF after, turns
<1> DEFINE Keeps(r) == EndOf(r, list) /\ Sealed(r) /\ r.dropped >= ring.dropped
           Wrong == {k \in 0 .. turns : ~Keeps(after[k])}
<1>4. ASSUME Wrong # {} PROVE FALSE
  <2>1. PICK k \in Wrong : \A i \in Wrong : k <= i
    <3>1. Wrong \in SUBSET Nat
      BY <1>1
    <3> HIDE DEF Wrong
    <3> QED
      BY <1>4, <3>1, LeastNat
  <2>2. k \in 0 .. turns /\ ~Keeps(after[k])
    OBVIOUS
  <2>3. after[k] = IF k = 0 THEN ring ELSE EthTurn(after[k - 1])
    BY <1>3, <2>2 DEF Turning
  <2>4. k # 0
    BY <1>1, <2>2, <2>3
  <2>5. k - 1 \in 0 .. turns /\ k - 1 \notin Wrong
    BY <1>1, <2>1, <2>2, <2>4
  <2>6. Keeps(after[k - 1])
    BY <2>5
  <2> DEFINE before == after[k - 1]
  <2>7. EndOf(before, list) /\ Sealed(before) /\ before.dropped >= ring.dropped
    BY <2>6
  <2>8. before.dropped \in Nat
    BY <2>7, SMTT(30) DEF EndOf
  <2> HIDE DEF before, Wrong
  <2>9. /\ EndOf(EthTurn(before), list) /\ Sealed(EthTurn(before))
        /\ EthTurn(before).dropped >= before.dropped
    BY <2>7, EthTurnKeeps
  <2>10. EthTurn(before).dropped \in Nat
    BY <2>9 DEF EndOf
  <2>11. Keeps(EthTurn(before))
    BY <1>1, <2>7, <2>8, <2>9, <2>10
  <2> QED
    BY <2>2, <2>3, <2>4, <2>11 DEF before
<1>5. Keeps(after[turns])
  BY <1>1, <1>4, SMTT(30)
<1> QED
  BY <1>2, <1>5

LEMMA PushedSealed ==
    ASSUME NEW list \in Seq(TraceRows), NEW ring, EndOf(ring, list), Sealed(ring),
           NEW row \in TraceRows
    PROVE  Sealed(Pushed(ring, row))
<1> DEFINE pushed == Pushed(ring, row)
<1>1. /\ pushed.dropped = ring.dropped /\ pushed.rows = Append(ring.rows, row)
      /\ \/ pushed.ends = ring.ends
         \/ pushed.ends = ring.ends \cup {ring.dropped + Len(ring.rows) + 1}
  BY PushedIs
<1>2. ring.rows \in Seq(TraceRows) /\ Len(ring.rows) \in Nat /\ ring.dropped \in Nat
  BY LenProperties DEF EndOf
<1>3. Len(Append(ring.rows, row)) = Len(ring.rows) + 1
  BY <1>2, AppendedOne
<1>4. IsFiniteSet(ring.ends) /\ ring.ends \subseteq ring.dropped .. ring.dropped + Len(ring.rows)
  BY DEF Sealed
<1>5. IsFiniteSet(ring.ends \cup {ring.dropped + Len(ring.rows) + 1})
  BY <1>4, FS_AddElement
<1> HIDE DEF pushed
<1>6. pushed.ends \subseteq pushed.dropped .. pushed.dropped + Len(pushed.rows)
  <2>1. \A e \in ring.dropped .. ring.dropped + Len(ring.rows) :
          e \in ring.dropped .. ring.dropped + (Len(ring.rows) + 1)
    BY <1>2
  <2>2. ring.dropped + Len(ring.rows) + 1 \in ring.dropped .. ring.dropped + (Len(ring.rows) + 1)
    BY <1>2
  <2>3. Len(pushed.rows) = Len(ring.rows) + 1
    BY <1>1, <1>3
  <2> QED
    BY <1>1, <1>4, <2>1, <2>2, <2>3
<1>7. Sealed(pushed)
  BY <1>1, <1>4, <1>5, <1>6 DEF Sealed
<1> QED
  BY <1>7 DEF pushed

\* What is chosen of a list: the elements at some of its places, in order.
LEMMA ChosenLeads ==
    ASSUME NEW S, NEW s \in Seq(S), NEW at \in SUBSET DOMAIN s
    PROVE  /\ Chosen(s, at) \in Seq(S)
           /\ \E f : /\ Leads(f, Chosen(s, at), at)
                     /\ \A j \in DOMAIN Chosen(s, at) : Chosen(s, at)[j] = s[f[j]]
<1>1. Chosen(s, at) = Remaining(s, at)
  BY DEF Chosen, Remaining, NthOf
<1>2. LET left == Remaining(s, at) IN
        /\ left \in Seq(S)
        /\ \E f : Leads(f, left, at) /\ \A j \in DOMAIN left : left[j] = s[f[j]]
  BY RetainedLeads
<1> QED
  BY <1>1, <1>2

LEMMA ChosenAll ==
    ASSUME NEW S, NEW s \in Seq(S)
    PROVE  Chosen(s, DOMAIN s) = s
<1>1. Len(s) \in Nat /\ DOMAIN s = 1 .. Len(s)
  OBVIOUS
<1>2. Cardinality(1 .. Len(s)) = Len(s)
  BY <1>1, FS_Interval, SMTT(30)
<1>3. ASSUME NEW j \in 1 .. Len(s)
      PROVE  (CHOOSE k \in 1 .. Len(s) : Cardinality({i \in 1 .. Len(s) : i <= k}) = j) = j
  <2>1. ASSUME NEW k \in 1 .. Len(s) PROVE Cardinality({i \in 1 .. Len(s) : i <= k}) = k
    <3>1. {i \in 1 .. Len(s) : i <= k} = 1 .. k
      BY <1>1
    <3>2. k \in Nat /\ Cardinality(1 .. k) = k
      BY <1>1, FS_Interval
    <3> QED
      BY <3>1, <3>2
  <2>2. \A k \in 1 .. Len(s) : Cardinality({i \in 1 .. Len(s) : i <= k}) = j <=> k = j
    BY <2>1
  <2> QED
    BY <2>2
<1>4. Chosen(s, DOMAIN s) = [j \in 1 .. Len(s) |-> s[j]]
  <2>1. Chosen(s, DOMAIN s)
          = [j \in 1 .. Len(s) |-> s[CHOOSE k \in 1 .. Len(s) : Cardinality({i \in 1 .. Len(s) : i <= k}) = j]]
    <3>1. Chosen(s, 1 .. Len(s))
            = [j \in 1 .. Cardinality(1 .. Len(s)) |->
                 s[CHOOSE k \in 1 .. Len(s) : Cardinality({i \in 1 .. Len(s) : i <= k}) = j]]
      BY DEF Chosen
    <3> QED
      BY <1>1, <1>2, <3>1
  <2> QED
    BY <1>3, <2>1
<1> QED
  BY <1>1, <1>4

\* What is left of the rows of a kind when a bus is removed.
LEMMA WithoutCame ==
    ASSUME NEW kind, NEW top \in Nat, NEW list, Came(list, kind, top),
           NEW gone \in Nat, NEW shift \in BOOLEAN
    PROVE  /\ Came(RowsWithout(list, gone, shift), kind, top)
           /\ Len(RowsWithout(list, gone, shift)) \in 0 .. Len(list)
           /\ Len(RowsWithout(list, gone, shift)) = Len(list) /\ ~shift
                => RowsWithout(list, gone, shift) = list
<1> DEFINE at == Stay(list, gone)
           kept == Chosen(list, at)
           left == RowsWithout(list, gone, shift)
<1>1. /\ list \in Seq(TraceRows)
      /\ \A i \in DOMAIN list : list[i].kind = kind /\ list[i].n \in 1 .. top
      /\ \A i, j \in DOMAIN list : i < j => list[i].n < list[j].n
  BY DEF Came
<1>2. Len(list) \in Nat /\ DOMAIN list = 1 .. Len(list) /\ \A i \in DOMAIN list : list[i] \in TraceRows
  BY <1>1
<1>3. at \in SUBSET DOMAIN list
  BY DEF Stay
<1>4. kept \in Seq(TraceRows) /\ \E f : Leads(f, kept, at) /\ \A j \in DOMAIN kept : kept[j] = list[f[j]]
  <2> HIDE DEF at
  <2> QED
    BY <1>1, <1>3, ChosenLeads
<1>5. PICK f : Leads(f, kept, at) /\ \A j \in DOMAIN kept : kept[j] = list[f[j]]
  BY <1>4
<1>6. DOMAIN kept = 1 .. Cardinality(at)
  BY DEF Chosen
<1>7. Cardinality(at) \in Nat /\ Cardinality(at) <= Len(list)
      /\ (Cardinality(at) = Len(list) => at = DOMAIN list)
  <2>1. IsFiniteSet(1 .. Len(list)) /\ Cardinality(1 .. Len(list)) = Len(list)
    <3>1. PICK n \in Nat : n = Len(list)
      BY <1>2
    <3>2. IsFiniteSet(1 .. n) /\ Cardinality(1 .. n) = n
      BY FS_Interval
    <3> QED
      BY <3>1, <3>2
  <2>2. IsFiniteSet(DOMAIN list) /\ Cardinality(DOMAIN list) = Len(list)
    BY <1>2, <2>1
  <2> HIDE DEF at
  <2>3. IsFiniteSet(at) /\ Cardinality(at) <= Len(list) /\ (Cardinality(at) = Len(list) => at = DOMAIN list)
    BY <1>3, <2>2, FS_Subset
  <2> QED
    BY <2>3, FS_CardinalityType
<1> HIDE DEF at, kept
<1>8. DOMAIN left = DOMAIN kept
      /\ \A k \in DOMAIN kept : left[k] = kept[k] \/ left[k] = Moved(kept[k], gone)
  <2>1. CASE shift
    <3>1. left = [k \in DOMAIN kept |-> Moved(kept[k], gone)]
      BY <2>1 DEF RowsWithout, at, kept
    <3> QED
      BY <3>1
  <2>2. CASE ~shift
    <3>1. left = kept
      BY <2>2 DEF RowsWithout, at, kept
    <3> QED
      BY <3>1
  <2> QED
    BY <2>1, <2>2
<1>9. ~shift => left = kept
  BY DEF RowsWithout, at, kept
<1> HIDE DEF left
<1>10. ASSUME NEW k \in DOMAIN kept
       PROVE  left[k] \in TraceRows /\ left[k].n = kept[k].n /\ left[k].kind = kept[k].kind
  <2>1. kept[k] \in TraceRows
    BY <1>4
  <2>2. Moved(kept[k], gone) \in TraceRows /\ Moved(kept[k], gone).n = kept[k].n
        /\ Moved(kept[k], gone).kind = kept[k].kind
    <3>1. CASE kept[k].bus > gone
      <4>1. Moved(kept[k], gone) = [kept[k] EXCEPT !.bus = @ - 1]
        BY <3>1 DEF Moved
      <4>2. kept[k].bus - 1 \in Nat
        BY <2>1, <3>1 DEF TraceRows
      <4> QED
        BY <2>1, <4>1, <4>2 DEF TraceRows
    <3>2. CASE ~(kept[k].bus > gone)
      BY <2>1, <3>2 DEF Moved
    <3> QED
      BY <3>1, <3>2
  <2> QED
    BY <1>8, <2>1, <2>2
<1>11. left \in Seq(TraceRows) /\ Len(left) = Cardinality(at) /\ DOMAIN left = 1 .. Cardinality(at)
  <2>1. DOMAIN left = 1 .. Cardinality(at)
    BY <1>6, <1>8
  <2>2. left \in [1 .. Cardinality(at) -> TraceRows]
    <3>1. left = [k \in DOMAIN left |-> left[k]]
      <4>1. CASE shift
        BY <4>1 DEF left, RowsWithout
      <4>2. CASE ~shift
        BY <1>4, <1>9, <4>2
      <4> QED
        BY <4>1, <4>2
    <3> QED
      BY <1>6, <1>8, <1>10, <2>1, <3>1
  <2> QED
    BY <1>7, <2>1, <2>2
<1>12. /\ f \in [DOMAIN kept -> at]
       /\ \A i, j \in DOMAIN kept : i < j => f[i] < f[j]
  BY <1>5 DEF Leads
<1>13. Came(left, kind, top)
  <2>1. ASSUME NEW i \in DOMAIN left PROVE left[i].kind = kind /\ left[i].n \in 1 .. top
    <3>1. i \in DOMAIN kept /\ f[i] \in DOMAIN list
      BY <1>3, <1>8, <1>12
    <3> QED
      BY <1>1, <1>5, <1>10, <3>1
  <2>2. ASSUME NEW i \in DOMAIN left, NEW j \in DOMAIN left, i < j PROVE left[i].n < left[j].n
    <3>1. i \in DOMAIN kept /\ j \in DOMAIN kept /\ f[i] \in DOMAIN list /\ f[j] \in DOMAIN list
      BY <1>3, <1>8, <1>12
    <3>2. f[i] < f[j]
      BY <1>12, <2>2, <3>1
    <3> QED
      BY <1>1, <1>5, <1>10, <3>1, <3>2
  <2> QED
    BY <1>11, <2>1, <2>2 DEF Came
<1>14. Len(left) = Len(list) /\ ~shift => left = list
  <2>1. ASSUME Len(left) = Len(list), ~shift PROVE left = list
    <3>1. at = DOMAIN list
      BY <1>7, <1>11, <2>1
    <3> QED
      BY <1>1, <1>9, <2>1, <3>1, ChosenAll DEF kept
  <2> QED
    BY <2>1
<1> QED
  BY <1>7, <1>11, <1>13, <1>14 DEF left

\* A ring that lost nothing yet keeps what is left of the run.
LEMMA FilteredKeeps ==
    ASSUME NEW kind, NEW top \in Nat, NEW list, Came(list, kind, top), NEW ring,
           EndOf(ring, list), ring.dropped = 0, NEW gone \in Nat, NEW shift \in BOOLEAN
    PROVE  /\ EndOf(Filtered(ring, gone, shift), RowsWithout(list, gone, shift))
           /\ Filtered(ring, gone, shift).dropped = 0
           /\ Filtered(ring, gone, shift).rows = RowsWithout(list, gone, shift)
<1> DEFINE left == RowsWithout(list, gone, shift)
           filtered == Filtered(ring, gone, shift)
<1>1. /\ list \in Seq(TraceRows) /\ ring.rows \in Seq(TraceRows)
      /\ Len(ring.rows) = Len(list)
      /\ \A i \in 1 .. Len(ring.rows) : ring.rows[i] = list[i]
      /\ ring = [rows |-> ring.rows, ends |-> ring.ends, dropped |-> ring.dropped]
  <2>1. /\ ring.rows \in Seq(TraceRows) /\ Len(ring.rows) = Len(list) - 0
        /\ \A i \in 1 .. Len(ring.rows) : ring.rows[i] = list[0 + i]
        /\ ring = [rows |-> ring.rows, ends |-> ring.ends, dropped |-> ring.dropped]
    BY DEF EndOf
  <2>2. list \in Seq(TraceRows) /\ Len(list) \in Nat
    BY LenProperties DEF Came
  <2> QED
    BY <2>1, <2>2
<1>2. ring.rows = list
  BY <1>1, SameSeq
<1>3. left \in Seq(TraceRows)
  BY WithoutCame DEF Came
<1>4. /\ filtered.rows = left /\ filtered.dropped = 0
      /\ filtered = [rows |-> filtered.rows, ends |-> filtered.ends, dropped |-> filtered.dropped]
  <2> DEFINE ends == {ring.dropped + Cardinality({k \in Stay(ring.rows, gone) : ring.dropped + k <= e}) : e \in ring.ends}
  <2>1. filtered = [ring EXCEPT !.rows = left, !.ends = ends]
    BY <1>2 DEF Filtered
  <2> HIDE DEF ends, left, filtered
  <2>2. DOMAIN filtered = {"rows", "ends", "dropped"}
    BY <1>1, <2>1
  <2>3. filtered.rows = left /\ filtered.dropped = 0
    BY <1>1, <2>1
  <2>4. filtered = [x \in DOMAIN filtered |-> filtered[x]]
    BY <2>1
  <2> QED
    BY <2>2, <2>3, <2>4
<1> HIDE DEF left, filtered
<1>5. EndOf(filtered, left)
  <2>1. Len(left) \in Nat
    BY <1>3, LenProperties
  <2>2. 0 \in 0 .. Len(left) /\ Len(left) = Len(left) - 0 /\ \A i \in 1 .. Len(left) : left[i] = left[0 + i]
    BY <2>1
  <2> QED
    BY <1>3, <1>4, <2>2 DEF EndOf
<1> QED
  BY <1>4, <1>5 DEF left, filtered

\* What the ring sheds is written behind what the archive has.
LEMMA SpilledKeeps ==
    ASSUME NEW a, a.file \in Seq(TraceRows), a.at = Len(a.file), a.frames = Len(a.file),
           a = [open |-> a.open, file |-> a.file, at |-> a.at, frames |-> a.frames],
           NEW more \in Seq(TraceRows)
    PROVE  LET b == Spilled(a, more) IN
           /\ b = [open |-> b.open, file |-> b.file, at |-> b.at, frames |-> b.frames]
           /\ b.file \in Seq(TraceRows) /\ Len(b.file) = Len(a.file) + Len(more)
           /\ b.at = Len(b.file) /\ b.frames = Len(b.file)
           /\ \A i \in 1 .. Len(a.file) : b.file[i] = a.file[i]
           /\ \A i \in 1 .. Len(more) : b.file[Len(a.file) + i] = more[i]
<1> DEFINE b == Spilled(a, more)
           KeptRows(c) == /\ c = [open |-> c.open, file |-> c.file, at |-> c.at, frames |-> c.frames]
                          /\ c.file \in Seq(TraceRows) /\ Len(c.file) = Len(a.file) + Len(more)
                          /\ c.at = Len(c.file) /\ c.frames = Len(c.file)
                          /\ \A i \in 1 .. Len(a.file) : c.file[i] = a.file[i]
                          /\ \A i \in 1 .. Len(more) : c.file[Len(a.file) + i] = more[i]
<1>1. /\ Len(a.file) \in Nat /\ Len(more) \in Nat
      /\ \A i \in 1 .. Len(a.file) : a.file[i] \in TraceRows
      /\ \A i \in 1 .. Len(more) : more[i] \in TraceRows
  OBVIOUS
<1>2. CASE more = <<>>
  <2>1. b = a /\ Len(more) = 0
    BY <1>2 DEF Spilled
  <2> HIDE DEF b
  <2>2. KeptRows(b)
    BY <1>1, <2>1
  <2> QED
    BY <2>2 DEF b
<1>3. CASE more # <<>>
  <2> DEFINE all == Len(a.file) + Len(more)
             file == [k \in 1 .. all |-> IF k > Len(a.file) THEN more[k - Len(a.file)] ELSE a.file[k]]
  <2>1. ASSUME NEW k \in 1 .. all
        PROVE  file[k] \in TraceRows
    <3>1. CASE k > Len(a.file)
      <4>1. k - Len(a.file) \in 1 .. Len(more)
        BY <1>1, <3>1
      <4> QED
        BY <1>1, <3>1, <4>1
    <3>2. CASE ~(k > Len(a.file))
      <4>1. k \in 1 .. Len(a.file)
        BY <1>1, <3>2
      <4> QED
        BY <1>1, <3>2, <4>1
    <3> QED
      BY <3>1, <3>2
  <2>2. [k \in 1 .. (a.at + Len(more)) |->
           IF k > a.at THEN more[k - a.at] ELSE IF k <= Len(a.file) THEN a.file[k] ELSE Blank] = file
    <3>1. \A k \in 1 .. all : ~(k > Len(a.file)) => k <= Len(a.file)
      BY <1>1
    <3> QED
      BY <3>1
  <2>3. b = [open |-> TRUE, file |-> file, at |-> all, frames |-> all]
    BY <1>3, <2>2 DEF Spilled
  <2>4. file \in Seq(TraceRows) /\ Len(file) = all
    <3>1. file \in [1 .. all -> TraceRows] /\ all \in Nat
      BY <1>1, <2>1
    <3> HIDE DEF file, all
    <3> QED
      BY <3>1
  <2>5. \A i \in 1 .. Len(a.file) : file[i] = a.file[i]
    <3>1. \A i \in 1 .. Len(a.file) : i \in 1 .. all /\ ~(i > Len(a.file))
      BY <1>1
    <3> QED
      BY <3>1
  <2>6. \A i \in 1 .. Len(more) : file[Len(a.file) + i] = more[i]
    <3>1. \A i \in 1 .. Len(more) :
            Len(a.file) + i \in 1 .. all /\ Len(a.file) + i > Len(a.file) /\ Len(a.file) + i - Len(a.file) = i
      BY <1>1
    <3> QED
      BY <3>1, SMTT(30)
  <2> HIDE DEF file, b
  <2>7. b.file = file /\ b.at = all /\ b.frames = all /\ b.open = TRUE
        /\ b = [open |-> b.open, file |-> b.file, at |-> b.at, frames |-> b.frames]
    BY <2>3
  <2> HIDE DEF all
  <2>8. KeptRows(b)
    BY <2>4, <2>5, <2>6, <2>7 DEF all
  <2> QED
    BY <2>8 DEF b
<1> QED
  BY <1>2, <1>3


\* Rows sorted by their stamps are the same rows at other places.
LEMMA ByStampIs ==
    ASSUME NEW list \in Seq(TraceRows)
    PROVE  /\ ByStamp(list) \in Seq(TraceRows) /\ Len(ByStamp(list)) = Len(list) /\ Len(list) \in Nat
           /\ \E g \in [1 .. Len(list) -> 1 .. Len(list)] :
                /\ \A p \in 1 .. Len(list) : ByStamp(list)[p] = list[g[p]]
                /\ \A k \in 1 .. Len(list) : \E p \in 1 .. Len(list) : g[p] = k
                /\ \A p, q \in 1 .. Len(list) :
                     p < q => g[p] # g[q] /\ list[g[p]].t <= list[g[q]].t
<1>1. PICK n \in Nat : n = Len(list)
  OBVIOUS
<1>2. DOMAIN list = 1 .. n /\ \A k \in 1 .. n : list[k] \in TraceRows /\ list[k].t \in Nat
  BY <1>1 DEF TraceRows
<1> DEFINE Below(k) == {i \in 1 .. n : list[i].t < list[k].t \/ (list[i].t = list[k].t /\ i <= k)}
           rank == [k \in 1 .. n |-> Cardinality(Below(k))]
           g == [p \in 1 .. n |-> CHOOSE k \in 1 .. n : rank[k] = p]
<1>3. \A k \in 1 .. n : Rank(list, k) = rank[k]
  BY <1>2 DEF Rank
<1>4. IsFiniteSet(1 .. n) /\ Cardinality(1 .. n) = n
  BY FS_Interval
<1>5. ASSUME NEW k \in 1 .. n
      PROVE  IsFiniteSet(Below(k)) /\ Cardinality(Below(k)) \in 1 .. n
  <2>1. Below(k) \in SUBSET (1 .. n)
    OBVIOUS
  <2>2. k \in Below(k)
    BY <1>2
  <2> HIDE DEF Below
  <2>3. IsFiniteSet(Below(k)) /\ Cardinality(Below(k)) <= n
    BY <1>4, <2>1, FS_Subset
  <2>4. Cardinality(Below(k)) \in Nat /\ Cardinality(Below(k)) # 0
    BY <2>2, <2>3, FS_CardinalityType, FS_EmptySet
  <2> QED
    BY <2>3, <2>4
<1>6. ASSUME NEW i \in 1 .. n, NEW k \in 1 .. n, i # k, i \in Below(k)
      PROVE  Cardinality(Below(i)) < Cardinality(Below(k))
  <2>1. Below(i) \subseteq Below(k)
    <3>1. ASSUME NEW h \in Below(i) PROVE h \in Below(k)
      <4>1. h \in 1 .. n /\ list[h].t \in Nat /\ list[i].t \in Nat /\ list[k].t \in Nat
        BY <1>2
      <4> QED
        BY <1>6, <4>1
    <3> QED
      BY <3>1
  <2>2. k \notin Below(i)
    <3>1. list[i].t \in Nat /\ list[k].t \in Nat
      BY <1>2
    <3> QED
      BY <1>6, <3>1
  <2>3. k \in Below(k)
    BY <1>2
  <2>4. Below(i) # Below(k)
    BY <2>2, <2>3
  <2> HIDE DEF Below
  <2>5. Cardinality(Below(i)) <= Cardinality(Below(k)) /\ Cardinality(Below(i)) # Cardinality(Below(k))
    BY <1>5, <2>1, <2>4, FS_Subset
  <2> QED
    BY <1>5, <2>5
<1>7. ASSUME NEW i \in 1 .. n, NEW k \in 1 .. n PROVE i \in Below(k) \/ k \in Below(i)
  <2>1. list[i].t \in Nat /\ list[k].t \in Nat
    BY <1>2
  <2> QED
    BY <2>1
<1>8. ASSUME NEW i \in 1 .. n, NEW k \in 1 .. n, rank[i] <= rank[k]
      PROVE  list[i].t <= list[k].t
  <2>1. CASE i \in Below(k)
    BY <1>2, <2>1
  <2>2. CASE i \notin Below(k)
    <3>1. k \in Below(i) /\ i # k
      BY <1>2, <1>7, <2>2
    <3>2. Cardinality(Below(k)) < Cardinality(Below(i))
      BY <1>6, <3>1
    <3>3. rank[i] = Cardinality(Below(i)) /\ rank[k] = Cardinality(Below(k))
      OBVIOUS
    <3> HIDE DEF Below, rank
    <3> QED
      BY <1>5, <1>8, <3>2, <3>3
  <2> QED
    BY <2>1, <2>2
<1> HIDE DEF Below
<1>9. rank \in Injection(1 .. n, 1 .. n)
  <2>1. rank \in [1 .. n -> 1 .. n]
    BY <1>5
  <2>2. ASSUME NEW i \in 1 .. n, NEW k \in 1 .. n, i # k PROVE rank[i] # rank[k]
    BY <1>5, <1>6, <1>7, <2>2
  <2> QED
    BY <2>1, <2>2, Fun_IsInj
<1>10. \A k \in 1 .. n : rank[k] \in 1 .. n
  BY <1>5
<1> HIDE DEF rank
<1>11. \A p \in 1 .. n : \E k \in 1 .. n : rank[k] = p
  <2>1. rank \in Surjection(1 .. n, 1 .. n)
    BY <1>4, <1>9, FS_Injection
  <2> QED
    BY <2>1, Fun_SurjectionProperties
<1>12. \A i, k \in 1 .. n : rank[i] = rank[k] => i = k
  BY <1>9, Fun_InjectionProperties
<1>13. \A p \in 1 .. n : g[p] \in 1 .. n /\ rank[g[p]] = p
  BY <1>11
<1>14. g \in [1 .. n -> 1 .. n]
  BY <1>13
<1>15. ByStamp(list) = [p \in 1 .. n |-> list[g[p]]]
  <2>1. \A p \in 1 .. n : (CHOOSE k \in 1 .. n : Rank(list, k) = p) = g[p]
    <3>1. ASSUME NEW p \in 1 .. n PROVE (CHOOSE k \in 1 .. n : Rank(list, k) = p) = g[p]
      BY <1>3
    <3> QED
      BY <3>1
  <2>2. ByStamp(list) = [p \in DOMAIN list |-> list[CHOOSE k \in DOMAIN list : Rank(list, k) = p]]
    BY DEF ByStamp
  <2>3. ByStamp(list) = [p \in 1 .. n |-> list[CHOOSE k \in 1 .. n : Rank(list, k) = p]]
    BY <1>2, <2>2
  <2> HIDE DEF g
  <2> QED
    BY <2>1, <2>3
<1> HIDE DEF g
<1>16. \A k \in 1 .. n : \E p \in 1 .. n : g[p] = k
  BY <1>12, <1>10, <1>13
<1>17. ASSUME NEW p \in 1 .. n, NEW q \in 1 .. n, p < q
       PROVE  g[p] # g[q] /\ list[g[p]].t <= list[g[q]].t
  <2>1. g[p] \in 1 .. n /\ g[q] \in 1 .. n /\ rank[g[p]] = p /\ rank[g[q]] = q
    BY <1>13
  <2> QED
    BY <1>8, <1>17, <2>1
<1>18. ByStamp(list) \in [1 .. n -> TraceRows]
  BY <1>2, <1>14, <1>15
<1>19. ByStamp(list) \in Seq(TraceRows) /\ Len(ByStamp(list)) = n
  BY <1>18
<1>20. \A p \in 1 .. n : ByStamp(list)[p] = list[g[p]]
  BY <1>15
<1> QED
  BY <1>1, <1>14, <1>16, <1>17, <1>19, <1>20


-----------------------------------------------------------------------------
(* The log                                                                   *)

\* What the bounded log lets go of n rows.
Cut(n) == IF n <= LogCap THEN 0 ELSE n - LogCap

LEMMA CappedIs ==
    ASSUME NEW S, NEW list \in Seq(S), LogCap \in Nat \ {0}
    PROVE  /\ Capped(list) \in Seq(S)
           /\ Cut(Len(list)) \in 0 .. Len(list) /\ Len(list) \in Nat
           /\ Len(Capped(list)) = Len(list) - Cut(Len(list))
           /\ Cut(Len(list)) # 0 => Len(Capped(list)) = LogCap
           /\ \A i \in 1 .. Len(list) - Cut(Len(list)) : Capped(list)[i] = list[Cut(Len(list)) + i]
<1>1. LogCap \in Nat /\ Len(list) \in Nat
  OBVIOUS
<1>2. CASE Len(list) <= LogCap
  <2>1. Capped(list) = list /\ Cut(Len(list)) = 0
    BY <1>2 DEF Capped, Cut
  <2> QED
    BY <1>1, <2>1
<1>3. CASE ~(Len(list) <= LogCap)
  <2>1. Capped(list) = LastN(list, LogCap) /\ Cut(Len(list)) = Len(list) - LogCap
    BY <1>3 DEF Capped, Cut
  <2>2. LogCap \in 0 .. Len(list)
    BY <1>1, <1>3
  <2>3. /\ LastN(list, LogCap) \in Seq(S) /\ Len(LastN(list, LogCap)) = LogCap
        /\ \A i \in 1 .. LogCap : LastN(list, LogCap)[i] = list[Len(list) - LogCap + i]
    BY ONLY <2>2, LastOnes
  <2> QED
    BY <1>1, <1>3, <2>1, <2>3
<1> QED
  BY <1>2, <1>3

\* Rows that come one after another in time, and what is left of them.
LEMMA CappedShows ==
    ASSUME NEW list \in Seq(TraceRows), InTime(list), LogCap \in Nat \ {0}
    PROVE  /\ InTime(Capped(list))
           /\ \A row : HoldsRow(list, row) => ShownIn(row, Capped(list))
<1>1. /\ Capped(list) \in Seq(TraceRows)
      /\ Cut(Len(list)) \in 0 .. Len(list) /\ Len(list) \in Nat
      /\ Len(Capped(list)) = Len(list) - Cut(Len(list))
      /\ Cut(Len(list)) # 0 => Len(Capped(list)) = LogCap
      /\ \A i \in 1 .. Len(list) - Cut(Len(list)) : Capped(list)[i] = list[Cut(Len(list)) + i]
  BY CappedIs
<1>2. PICK cut \in Nat : cut = Cut(Len(list))
  BY <1>1
<1>3. PICK short : short = Capped(list)
  OBVIOUS
<1>4. /\ short \in Seq(TraceRows) /\ cut \in 0 .. Len(list) /\ Len(list) \in Nat
      /\ Len(short) = Len(list) - cut /\ (cut # 0 => Len(short) = LogCap)
      /\ DOMAIN short = 1 .. Len(short) /\ DOMAIN list = 1 .. Len(list)
      /\ \A i \in DOMAIN short : short[i] = list[cut + i] /\ cut + i \in DOMAIN list
  BY <1>1, <1>2, <1>3
<1>5. \A k \in DOMAIN list : list[k].t \in Nat
  <2>1. \A k \in DOMAIN list : list[k] \in TraceRows
    BY <1>4
  <2> QED
    BY <2>1 DEF TraceRows
<1>6. InTime(short)
  <2>1. ASSUME NEW i \in DOMAIN short, NEW j \in DOMAIN short, i < j
        PROVE  short[i] # short[j] /\ short[i].t <= short[j].t
    <3>1. cut + i \in DOMAIN list /\ cut + j \in DOMAIN list /\ cut + i < cut + j
      BY <1>4, <2>1
    <3>2. list[cut + i] # list[cut + j] /\ list[cut + i].t <= list[cut + j].t
      BY <3>1 DEF InTime
    <3> QED
      BY <1>4, <3>2
  <2> QED
    BY <2>1 DEF InTime
<1>7. ASSUME NEW row, NEW k \in DOMAIN list, list[k] = row PROVE ShownIn(row, short)
  <2>1. CASE k > cut
    <3>1. k - cut \in DOMAIN short /\ short[k - cut] = row
      <4>1. k - cut \in DOMAIN short /\ cut + (k - cut) = k
        BY <1>4, <2>1
      <4>2. short[k - cut] = list[cut + (k - cut)]
        BY <1>4, <4>1
      <4> QED
        BY <1>7, <4>1, <4>2
    <3> QED
      BY <3>1 DEF ShownIn, HoldsRow
  <2>2. CASE ~(k > cut)
    <3>1. cut # 0 /\ Len(short) = LogCap
      BY <1>4, <2>2
    <3>2. ASSUME NEW i \in DOMAIN short PROVE short[i].t >= row.t
      <4>1. short[i] = list[cut + i] /\ cut + i \in DOMAIN list /\ k < cut + i
        BY <1>4, <2>2
      <4>2. list[k].t <= list[cut + i].t
        BY <4>1 DEF InTime
      <4> QED
        BY <1>5, <1>7, <4>1, <4>2
    <3> QED
      BY <3>1, <3>2 DEF ShownIn
  <2> QED
    BY <2>1, <2>2
<1> QED
  BY <1>3, <1>6, <1>7 DEF HoldsRow

\* Rows that come later are put behind the others: what was shown stays, or is
\* pushed out.
LEMMA LaterShows ==
    ASSUME NEW old \in Seq(TraceRows), NEW more \in Seq(TraceRows), LogCap \in Nat \ {0},
           InTime(old), InTime(more),
           \A i \in DOMAIN old, j \in DOMAIN more : old[i] # more[j] /\ old[i].t <= more[j].t
    PROVE  /\ InTime(Capped(old \o more))
           /\ \A row \in TraceRows :
                ShownIn(row, old) \/ HoldsRow(more, row) => ShownIn(row, Capped(old \o more))
<1>1. PICK both : both = old \o more
  OBVIOUS
<1>2. /\ both \in Seq(TraceRows)
      /\ Len(old) \in Nat /\ Len(more) \in Nat /\ Len(both) = Len(old) + Len(more)
      /\ \A i \in 1 .. Len(old) : both[i] = old[i]
      /\ \A i \in 1 .. Len(more) : both[Len(old) + i] = more[i]
      /\ \A i \in 1 .. Len(old) + Len(more) : i \in 1 .. Len(old) \/ i - Len(old) \in 1 .. Len(more)
  <2>1. /\ old \o more \in Seq(TraceRows)
        /\ Len(old) \in Nat /\ Len(more) \in Nat /\ Len(old \o more) = Len(old) + Len(more)
        /\ \A i \in 1 .. Len(old) : (old \o more)[i] = old[i]
        /\ \A i \in 1 .. Len(more) : (old \o more)[Len(old) + i] = more[i]
        /\ \A i \in 1 .. Len(old) + Len(more) : i \in 1 .. Len(old) \/ i - Len(old) \in 1 .. Len(more)
    BY ONLY JoinedParts, old \in Seq(TraceRows), more \in Seq(TraceRows)
  <2> QED
    BY ONLY <1>1, <2>1
<1>3. DOMAIN old = 1 .. Len(old) /\ DOMAIN more = 1 .. Len(more) /\ DOMAIN both = 1 .. Len(both)
  BY <1>2
<1>4. ASSUME NEW i \in DOMAIN both, NEW j \in DOMAIN both, i < j
      PROVE  both[i] # both[j] /\ both[i].t <= both[j].t
  <2>1. CASE j \in 1 .. Len(old)
    <3>1. i \in DOMAIN old /\ j \in DOMAIN old /\ both[i] = old[i] /\ both[j] = old[j]
      BY <1>2, <1>3, <1>4, <2>1
    <3> QED
      BY <1>4, <3>1 DEF InTime
  <2>2. CASE j - Len(old) \in 1 .. Len(more)
    <3>1. both[j] = more[j - Len(old)] /\ j - Len(old) \in DOMAIN more
      <4>1. Len(old) + (j - Len(old)) = j
        BY <1>2, <1>3
      <4>2. both[Len(old) + (j - Len(old))] = more[j - Len(old)]
        BY <1>2, <2>2
      <4> QED
        BY <1>3, <2>2, <4>1, <4>2
    <3>2. CASE i \in 1 .. Len(old)
      BY <1>2, <1>3, <3>1, <3>2
    <3>3. CASE i - Len(old) \in 1 .. Len(more)
      <4>1. both[i] = more[i - Len(old)] /\ i - Len(old) \in DOMAIN more
        <5>1. Len(old) + (i - Len(old)) = i
          BY <1>2, <1>3
        <5>2. both[Len(old) + (i - Len(old))] = more[i - Len(old)]
          BY <1>2, <3>3
        <5> QED
          BY <1>3, <3>3, <5>1, <5>2
      <4>2. i - Len(old) < j - Len(old)
        BY <1>2, <1>3, <1>4
      <4> QED
        BY <3>1, <4>1, <4>2 DEF InTime
    <3> QED
      BY <1>2, <1>3, <3>2, <3>3
  <2> QED
    BY <1>2, <1>3, <2>1, <2>2
<1>5. InTime(both)
  BY <1>4 DEF InTime
<1>6. InTime(Capped(both)) /\ \A row : HoldsRow(both, row) => ShownIn(row, Capped(both))
  BY <1>2, <1>5, CappedShows
<1>7. \A row : HoldsRow(old, row) \/ HoldsRow(more, row) => HoldsRow(both, row)
  <2>1. ASSUME NEW k \in DOMAIN old PROVE k \in DOMAIN both /\ both[k] = old[k]
    BY <1>2, <1>3
  <2>2. ASSUME NEW k \in DOMAIN more PROVE Len(old) + k \in DOMAIN both /\ both[Len(old) + k] = more[k]
    BY <1>2, <1>3
  <2> QED
    BY <2>1, <2>2 DEF HoldsRow
<1>8. ASSUME NEW row \in TraceRows, Len(old) = LogCap, \A k \in DOMAIN old : old[k].t >= row.t
      PROVE  ShownIn(row, Capped(both))
  <2>1. PICK short : short = Capped(both)
    OBVIOUS
  <2>2. /\ short \in Seq(TraceRows) /\ Cut(Len(both)) \in 0 .. Len(both)
        /\ Len(short) = Len(both) - Cut(Len(both)) /\ (Cut(Len(both)) # 0 => Len(short) = LogCap)
        /\ \A i \in 1 .. Len(both) - Cut(Len(both)) : short[i] = both[Cut(Len(both)) + i]
    BY <1>2, <2>1, CappedIs
  <2>3. LogCap \in Nat \ {0}
    OBVIOUS
  <2>4. Len(short) = LogCap
    BY <1>2, <1>8, <2>2, <2>3 DEF Cut
  <2>5. PICK cut \in Nat : cut = Cut(Len(both))
    BY <1>2, <2>2
  <2>6. /\ DOMAIN short = 1 .. Len(short) /\ Len(short) = Len(both) - cut
         /\ \A i \in DOMAIN short : short[i] = both[cut + i] /\ cut + i \in DOMAIN both
    <3>1. Len(short) = Len(both) - cut /\ cut \in 0 .. Len(both) /\ Len(both) \in Nat
          /\ \A i \in 1 .. Len(both) - cut : short[i] = both[cut + i]
      BY <1>2, <2>2, <2>5
    <3>2. DOMAIN short = 1 .. Len(short)
      BY <2>2
    <3> QED
      BY <1>3, <3>1, <3>2
  <2>7. ASSUME NEW i \in DOMAIN short PROVE short[i].t >= row.t
    <3>1. short[i] = both[cut + i] /\ cut + i \in DOMAIN both
      BY <2>6
    <3>2. PICK j \in DOMAIN both : j = cut + i
      BY <3>1
    <3>3. row.t \in Nat /\ \A k \in DOMAIN both : both[k].t \in Nat
      <4>1. \A k \in DOMAIN both : both[k] \in TraceRows
        BY <1>2
      <4> QED
        BY <4>1 DEF TraceRows
    <3>4. 1 \in DOMAIN old
      BY <1>2, <1>3, <1>8, <2>3
    <3>5. both[1].t >= row.t /\ both[1] = old[1] /\ 1 \in DOMAIN both
      <4>1. 1 \in DOMAIN both /\ both[1] = old[1]
        BY <1>2, <1>3, <3>4
      <4>2. old[1].t >= row.t
        BY <1>8, <3>4
      <4> QED
        BY <4>1, <4>2
    <3>6. both[j].t >= both[1].t
      <4>1. CASE j = 1
        BY <3>3, <3>5, <4>1
      <4>2. CASE j # 1
        <5>1. 1 < j
          BY <1>3, <4>2
        <5> QED
          BY <1>4, <3>3, <3>5, <5>1
      <4> QED
        BY <4>1, <4>2
    <3>7. both[j].t >= row.t
      <4>1. both[j].t \in Nat /\ both[1].t \in Nat /\ row.t \in Nat
        BY <3>3, <3>5
      <4>2. both[j].t >= both[1].t /\ both[1].t >= row.t
        BY <3>5, <3>6
      <4> QED
        BY ONLY <4>1, <4>2
    <3> QED
      BY <3>1, <3>2, <3>7
  <2> QED
    BY <2>1, <2>4, <2>7 DEF ShownIn
<1> QED
  BY <1>1, <1>6, <1>7, <1>8 DEF ShownIn


\* The entries a store numbers: its log shows them behind the others.
LEMMA NumberedIs ==
    ASSUME NEW s, IsStore(s), NEW more \in Seq(TraceRows), LogCap \in Nat \ {0}
    PROVE  LET after == Numbered(s, more) IN
           /\ IsStore(after)
           /\ LogRows(after.log) = Capped(LogRows(s.log) \o more)
           /\ after.last_total = s.last_total /\ after.last_fr = s.last_fr
           /\ after.last_eth = s.last_eth /\ after.primed = s.primed /\ after.epoch = s.epoch
<1> DEFINE fresh == [k \in DOMAIN more |-> [seq |-> s.next_seq + k - 1, row |-> more[k]]]
           whole == s.log \o fresh
           shown == LogRows(s.log) \o more
           after == Numbered(s, more)
<1>1. /\ s \in [epoch : Nat, next_seq : Nat, log : Seq(Entry), last_total : Nat,
                last_fr : Nat, last_eth : Nat, primed : BOOLEAN]
      /\ \A i \in DOMAIN s.log : s.log[i].seq < s.next_seq
      /\ \A i, j \in DOMAIN s.log : i < j => s.log[i].seq < s.log[j].seq
  BY DEF IsStore
<1>2. s.log \in Seq(Entry) /\ s.next_seq \in Nat
  BY <1>1
<1>3. PICK n \in Nat : n = s.next_seq
  BY <1>2
<1>4. Len(more) \in Nat /\ DOMAIN more = 1 .. Len(more) /\ \A k \in DOMAIN more : more[k] \in TraceRows
  OBVIOUS
<1>5. fresh \in Seq(Entry) /\ Len(fresh) = Len(more) /\ DOMAIN fresh = DOMAIN more
  <2>1. fresh = [k \in 1 .. Len(more) |-> [seq |-> n + k - 1, row |-> more[k]]]
    BY <1>3, <1>4
  <2>2. \A k \in 1 .. Len(more) : [seq |-> n + k - 1, row |-> more[k]] \in Entry
    BY <1>4 DEF Entry
  <2>3. [k \in 1 .. Len(more) |-> [seq |-> n + k - 1, row |-> more[k]]] \in Seq(Entry)
        /\ Len([k \in 1 .. Len(more) |-> [seq |-> n + k - 1, row |-> more[k]]]) = Len(more)
    BY <1>4, <2>2
  <2> QED
    BY <1>4, <2>1, <2>3
<1>6. \A k \in DOMAIN more : fresh[k].seq = n + k - 1 /\ fresh[k].row = more[k]
  BY <1>3
<1> HIDE DEF fresh
<1>7. /\ whole \in Seq(Entry) /\ Len(s.log) \in Nat /\ Len(whole) = Len(s.log) + Len(more)
      /\ \A i \in 1 .. Len(s.log) : whole[i] = s.log[i]
      /\ \A i \in 1 .. Len(more) : whole[Len(s.log) + i] = fresh[i]
      /\ \A i \in 1 .. Len(s.log) + Len(more) : i \in 1 .. Len(s.log) \/ i - Len(s.log) \in 1 .. Len(more)
  <2>1. /\ s.log \o fresh \in Seq(Entry)
        /\ Len(s.log) \in Nat /\ Len(fresh) \in Nat /\ Len(s.log \o fresh) = Len(s.log) + Len(fresh)
        /\ \A i \in 1 .. Len(s.log) : (s.log \o fresh)[i] = s.log[i]
        /\ \A i \in 1 .. Len(fresh) : (s.log \o fresh)[Len(s.log) + i] = fresh[i]
        /\ \A i \in 1 .. Len(s.log) + Len(fresh) : i \in 1 .. Len(s.log) \/ i - Len(s.log) \in 1 .. Len(fresh)
    BY ONLY <1>2, <1>5, JoinedParts
  <2> QED
    BY ONLY <1>5, <2>1
<1> HIDE DEF whole
<1>8. PICK had \in Nat, new \in Nat : had = Len(s.log) /\ new = Len(more)
  BY <1>4, <1>7
<1>9. \A i \in 1 .. had + new :
        \/ i \in 1 .. had /\ whole[i] = s.log[i] /\ i \in DOMAIN s.log
        \/ /\ i > had /\ i - had \in DOMAIN more /\ whole[i] = fresh[i - had]
           /\ whole[i].seq = n + (i - had) - 1
  <2>1. DOMAIN s.log = 1 .. had
    BY <1>2, <1>8
  <2>2. ASSUME NEW i \in 1 .. had + new, i - had \in 1 .. new
        PROVE  i > had /\ i - had \in DOMAIN more /\ whole[i] = fresh[i - had]
               /\ whole[i].seq = n + (i - had) - 1
    <3>1. PICK k \in 1 .. new : k = i - had
      BY <2>2
    <3>2. k \in DOMAIN more /\ had + k = i
      BY <1>4, <1>8, <3>1
    <3>3. whole[had + k] = fresh[k]
      BY <1>7, <1>8
    <3>4. fresh[k].seq = n + k - 1
      BY <1>6, <3>2
    <3>5. whole[i] = fresh[k] /\ whole[i].seq = n + k - 1
      BY ONLY <3>2, <3>3, <3>4
    <3>6. i > had
      BY ONLY <3>1, <3>2, had \in Nat, k \in 1 .. new, new \in Nat
    <3> QED
      BY ONLY <3>1, <3>2, <3>5, <3>6
  <2> QED
    BY <1>7, <1>8, <2>1, <2>2
<1>10. /\ \A i \in 1 .. had + new : whole[i].seq \in Nat /\ whole[i].seq < n + new
       /\ \A i, j \in 1 .. had + new : i < j => whole[i].seq < whole[j].seq
  <2>1. ASSUME NEW i \in 1 .. had + new
        PROVE  whole[i].seq \in Nat /\ whole[i].seq < n + new
               /\ (i <= had => whole[i].seq < n)
               /\ (i > had => whole[i].seq = n + (i - had) - 1)
    <3>1. CASE i \in 1 .. had /\ whole[i] = s.log[i] /\ i \in DOMAIN s.log
      <4>1. s.log[i].seq < n
        BY <1>1, <1>3, <3>1
      <4>2. s.log[i] \in Entry
        BY <1>2, <3>1
      <4>3. s.log[i].seq \in Nat
        BY <4>2 DEF Entry
      <4> QED
        BY <3>1, <4>1, <4>3
    <3>2. CASE i > had /\ i - had \in DOMAIN more /\ whole[i].seq = n + (i - had) - 1
      <4>1. i - had <= new
        OBVIOUS
      <4> QED
        BY <3>2, <4>1
    <3> QED
      BY <1>9, <3>1, <3>2
  <2>2. ASSUME NEW i \in 1 .. had + new, NEW j \in 1 .. had + new, i < j
        PROVE  whole[i].seq < whole[j].seq
    <3>1. CASE j <= had
      <4>1. i \in DOMAIN s.log /\ j \in DOMAIN s.log /\ whole[i] = s.log[i] /\ whole[j] = s.log[j]
        BY <1>9, <2>2, <3>1
      <4> QED
        BY <1>1, <2>2, <4>1
    <3>2. CASE j > had
      <4>1. CASE i > had
        <5>1. whole[i].seq = n + (i - had) - 1 /\ whole[j].seq = n + (j - had) - 1
          BY <2>1, <3>2, <4>1
        <5> QED
          BY <2>2, <5>1
      <4>2. CASE ~(i > had)
        <5>1. whole[i].seq < n /\ whole[i].seq \in Nat /\ whole[j].seq = n + (j - had) - 1
          BY <2>1, <3>2, <4>2
        <5> QED
          BY <3>2, <5>1
      <4> QED
        BY <4>1, <4>2
    <3> QED
      BY <3>1, <3>2
  <2> QED
    BY <2>1, <2>2
<1>11. LogRows(s.log) \in Seq(TraceRows) /\ Len(LogRows(s.log)) = had
       /\ \A i \in 1 .. had : LogRows(s.log)[i] = s.log[i].row
  <2>1. \A i \in DOMAIN s.log : s.log[i].row \in TraceRows
    <3>1. \A i \in DOMAIN s.log : s.log[i] \in Entry
      BY <1>2
    <3> QED
      BY <3>1 DEF Entry
  <2>2. LogRows(s.log) = [k \in 1 .. had |-> s.log[k].row] /\ DOMAIN s.log = 1 .. had
    BY <1>2, <1>8 DEF LogRows
  <2> QED
    BY <2>1, <2>2
<1>12. PICK old : old = LogRows(s.log)
  OBVIOUS
<1>13. shown \in Seq(TraceRows) /\ Len(shown) = had + new
       /\ \A i \in 1 .. had + new : shown[i] = whole[i].row
  <2>1. old \in Seq(TraceRows) /\ Len(old) = had /\ \A i \in 1 .. had : old[i] = s.log[i].row
    BY <1>11, <1>12
  <2>2. /\ old \o more \in Seq(TraceRows)
        /\ Len(old) \in Nat /\ Len(more) \in Nat /\ Len(old \o more) = Len(old) + Len(more)
        /\ \A i \in 1 .. Len(old) : (old \o more)[i] = old[i]
        /\ \A i \in 1 .. Len(more) : (old \o more)[Len(old) + i] = more[i]
        /\ \A i \in 1 .. Len(old) + Len(more) : i \in 1 .. Len(old) \/ i - Len(old) \in 1 .. Len(more)
    BY ONLY <2>1, more \in Seq(TraceRows), JoinedParts
  <2>3. shown = old \o more
    BY <1>12
  <2>4. ASSUME NEW i \in 1 .. had + new PROVE (old \o more)[i] = whole[i].row
    <3>1. CASE i \in 1 .. had /\ whole[i] = s.log[i]
      BY <2>1, <2>2, <3>1
    <3>2. CASE i - had \in DOMAIN more /\ whole[i] = fresh[i - had]
      <4>1. PICK k \in DOMAIN more : k = i - had
        BY <3>2
      <4>2. had + k = i /\ k \in 1 .. Len(more)
        BY <1>4, <4>1
      <4>3. (old \o more)[had + k] = more[k]
        BY <2>1, <2>2, <4>2
      <4>4. whole[i] = fresh[k] /\ fresh[k].row = more[k]
        BY <1>6, <3>2, <4>1
      <4> QED
        BY <4>2, <4>3, <4>4
    <3> QED
      BY <1>9, <3>1, <3>2
  <2> HIDE DEF shown
  <2> QED
    BY <1>8, <2>1, <2>2, <2>3, <2>4
<1> HIDE DEF shown
<1>14. PICK cut \in Nat : cut = Cut(had + new)
  <2>1. Cut(Len(shown)) \in 0 .. Len(shown)
    BY <1>13, CappedIs
  <2> QED
    BY <1>8, <1>13, <2>1
<1>15. /\ Capped(whole) \in Seq(Entry) /\ Capped(shown) \in Seq(TraceRows)
       /\ Len(Capped(whole)) = had + new - cut /\ Len(Capped(shown)) = had + new - cut
       /\ cut \in 0 .. had + new
       /\ \A i \in 1 .. had + new - cut :
            Capped(whole)[i] = whole[cut + i] /\ Capped(shown)[i] = shown[cut + i]
  <2>1. /\ Capped(whole) \in Seq(Entry) /\ Cut(Len(whole)) \in 0 .. Len(whole)
        /\ Len(Capped(whole)) = Len(whole) - Cut(Len(whole))
        /\ \A i \in 1 .. Len(whole) - Cut(Len(whole)) : Capped(whole)[i] = whole[Cut(Len(whole)) + i]
    BY <1>7, CappedIs
  <2>2. /\ Capped(shown) \in Seq(TraceRows)
        /\ Len(Capped(shown)) = Len(shown) - Cut(Len(shown))
        /\ \A i \in 1 .. Len(shown) - Cut(Len(shown)) : Capped(shown)[i] = shown[Cut(Len(shown)) + i]
    BY <1>13, CappedIs
  <2>3. Len(whole) = had + new /\ Len(shown) = had + new
    BY <1>7, <1>8, <1>13
  <2>4. Cut(Len(whole)) = cut /\ Cut(Len(shown)) = cut
    BY <1>14, <2>3
  <2>5. /\ Len(Capped(whole)) = had + new - cut /\ cut \in 0 .. had + new
        /\ \A i \in 1 .. had + new - cut : Capped(whole)[i] = whole[cut + i]
    <3>1. /\ Len(Capped(whole)) = Len(whole) - cut /\ cut \in 0 .. Len(whole)
          /\ \A i \in 1 .. Len(whole) - cut : Capped(whole)[i] = whole[cut + i]
      BY ONLY <2>1, <2>4, Zenon
    <3> QED
      BY ONLY <2>3, <3>1
  <2>6. /\ Len(Capped(shown)) = had + new - cut
        /\ \A i \in 1 .. had + new - cut : Capped(shown)[i] = shown[cut + i]
    <3>1. /\ Len(Capped(shown)) = Len(shown) - cut
          /\ \A i \in 1 .. Len(shown) - cut : Capped(shown)[i] = shown[cut + i]
      BY ONLY <2>2, <2>4, Zenon
    <3> QED
      BY ONLY <2>3, <3>1
  <2> QED
    BY ONLY <2>1, <2>2, <2>5, <2>6
<1>16. PICK log \in Seq(Entry) : log = Capped(whole)
  BY <1>15
<1>17. PICK size \in Nat : size = had + new - cut
  BY <1>15
<1>18. /\ Len(log) = size /\ DOMAIN log = 1 .. size
       /\ \A i \in 1 .. size : log[i] = whole[cut + i] /\ cut + i \in 1 .. had + new
  BY <1>4, <1>15, <1>16, <1>17
<1>19. LogRows(log) = Capped(shown)
  <2>1. LogRows(log) = [k \in 1 .. size |-> log[k].row]
    BY <1>18 DEF LogRows
  <2>2. \A i \in 1 .. size : Capped(shown)[i] = log[i].row
    BY <1>13, <1>15, <1>17, <1>18
  <2>3. Capped(shown) = [k \in 1 .. size |-> Capped(shown)[k]]
    BY <1>15, <1>17
  <2> QED
    BY <2>1, <2>2, <2>3
<1>20. after = [epoch |-> s.epoch, next_seq |-> n + new, log |-> log, last_total |-> s.last_total,
                last_fr |-> s.last_fr, last_eth |-> s.last_eth, primed |-> s.primed]
  <2>1. after = [s EXCEPT !.log = Capped(@ \o fresh), !.next_seq = @ + Len(more)]
    BY DEF Numbered, fresh
  <2>2. after = [s EXCEPT !.log = log, !.next_seq = n + new]
    BY <1>3, <1>8, <1>16, <2>1 DEF whole
  <2> HIDE DEF after
  <2> QED
    BY <1>1, <2>2
<1>21. /\ after.log = log /\ after.next_seq = n + new
       /\ after.last_total = s.last_total /\ after.last_fr = s.last_fr
       /\ after.last_eth = s.last_eth /\ after.primed = s.primed /\ after.epoch = s.epoch
  BY <1>20
<1>22. IsStore(after)
  <2>1. after \in [epoch : Nat, next_seq : Nat, log : Seq(Entry), last_total : Nat,
                   last_fr : Nat, last_eth : Nat, primed : BOOLEAN]
    BY <1>1, <1>4, <1>20
  <2>2. ASSUME NEW i \in DOMAIN log PROVE log[i].seq < n + new
    BY <1>10, <1>18
  <2>3. ASSUME NEW i \in DOMAIN log, NEW j \in DOMAIN log, i < j PROVE log[i].seq < log[j].seq
    <3>1. cut + i \in 1 .. had + new /\ cut + j \in 1 .. had + new /\ cut + i < cut + j
      <4>1. i \in Nat /\ j \in Nat
        BY <1>18
      <4> QED
        BY <1>18, <2>3, <4>1
    <3>2. whole[cut + i].seq < whole[cut + j].seq
      BY <1>10, <3>1
    <3> QED
      BY <1>18, <3>2
  <2> HIDE DEF after
  <2> QED
    BY <1>21, <2>1, <2>2, <2>3 DEF IsStore
<1> QED
  BY <1>19, <1>21, <1>22 DEF shown


LEMMA SortedShows ==
    ASSUME NEW list \in Seq(TraceRows), Distinct(list)
    PROVE  /\ ByStamp(list) \in Seq(TraceRows) /\ InTime(ByStamp(list))
           /\ \A row : HoldsRow(ByStamp(list), row) <=> HoldsRow(list, row)
<1>1. PICK sorted : sorted = ByStamp(list)
  OBVIOUS
<1>2. sorted \in Seq(TraceRows) /\ Len(sorted) = Len(list) /\ Len(list) \in Nat
  BY <1>1, ByStampIs
<1>3. PICK g \in [1 .. Len(list) -> 1 .. Len(list)] :
        /\ \A p \in 1 .. Len(list) : sorted[p] = list[g[p]]
        /\ \A k \in 1 .. Len(list) : \E p \in 1 .. Len(list) : g[p] = k
        /\ \A p, q \in 1 .. Len(list) : p < q => g[p] # g[q] /\ list[g[p]].t <= list[g[q]].t
  BY <1>1, ByStampIs
<1>4. DOMAIN sorted = 1 .. Len(list) /\ DOMAIN list = 1 .. Len(list)
  BY <1>2
<1>5. ASSUME NEW i \in DOMAIN list, NEW j \in DOMAIN list, i # j PROVE list[i] # list[j]
  <2>1. i < j \/ j < i
    BY <1>2, <1>4, <1>5
  <2> QED
    BY <2>1 DEF Distinct
<1>6. ASSUME NEW p \in DOMAIN sorted, NEW q \in DOMAIN sorted, p < q
      PROVE  sorted[p] # sorted[q] /\ sorted[p].t <= sorted[q].t
  <2>1. g[p] \in DOMAIN list /\ g[q] \in DOMAIN list /\ g[p] # g[q] /\ list[g[p]].t <= list[g[q]].t
    BY <1>3, <1>4, <1>6
  <2> QED
    BY <1>3, <1>4, <1>5, <2>1, SMTT(30)
<1>7. ASSUME NEW row PROVE HoldsRow(sorted, row) <=> HoldsRow(list, row)
  <2>1. ASSUME NEW p \in DOMAIN sorted, sorted[p] = row PROVE HoldsRow(list, row)
    <3>1. g[p] \in DOMAIN list /\ list[g[p]] = row
      BY <1>3, <1>4, <2>1
    <3> QED
      BY <3>1 DEF HoldsRow
  <2>2. ASSUME NEW k \in DOMAIN list, list[k] = row PROVE HoldsRow(sorted, row)
    <3>1. PICK p \in DOMAIN sorted : g[p] = k
      BY <1>3, <1>4
    <3>2. sorted[p] = row
      BY <1>3, <1>4, <2>2, <3>1
    <3> QED
      BY <3>2 DEF HoldsRow
  <2> QED
    BY <2>1, <2>2 DEF HoldsRow
<1> QED
  BY <1>1, <1>2, <1>6, <1>7 DEF InTime

LEMMA BothDistinct ==
    ASSUME NEW a \in Seq(TraceRows), NEW b \in Seq(TraceRows), Distinct(a), Distinct(b),
           \A i \in DOMAIN a, j \in DOMAIN b : a[i] # b[j]
    PROVE  /\ a \o b \in Seq(TraceRows) /\ Distinct(a \o b)
           /\ \A row : HoldsRow(a \o b, row) <=> HoldsRow(a, row) \/ HoldsRow(b, row)
<1>1. PICK both : both = a \o b
  OBVIOUS
<1>2. PICK n \in Nat, m \in Nat : n = Len(a) /\ m = Len(b)
  OBVIOUS
<1>3. /\ both \in Seq(TraceRows) /\ Len(both) = n + m
      /\ \A i \in 1 .. n : both[i] = a[i]
      /\ \A i \in 1 .. m : both[n + i] = b[i]
  <2>1. /\ a \o b \in Seq(TraceRows)
        /\ Len(a) \in Nat /\ Len(b) \in Nat /\ Len(a \o b) = Len(a) + Len(b)
        /\ \A i \in 1 .. Len(a) : (a \o b)[i] = a[i]
        /\ \A i \in 1 .. Len(b) : (a \o b)[Len(a) + i] = b[i]
    BY ONLY JoinedParts, a \in Seq(TraceRows), b \in Seq(TraceRows)
  <2> QED
    BY ONLY <1>1, <1>2, <2>1
<1>4. DOMAIN a = 1 .. n /\ DOMAIN b = 1 .. m /\ DOMAIN both = 1 .. n + m
  BY <1>2, <1>3
<1>5. ASSUME NEW i \in 1 .. n + m
      PROVE  \/ i <= n /\ i \in DOMAIN a /\ both[i] = a[i]
             \/ i > n /\ i - n \in DOMAIN b /\ both[i] = b[i - n]
  <2>1. CASE i <= n
    BY <1>3, <1>4, <2>1
  <2>2. CASE i > n
    <3>1. PICK k \in 1 .. m : k = i - n
      BY <2>2
    <3>2. both[n + k] = b[k] /\ n + k = i
      BY <1>3, <3>1
    <3> QED
      BY <1>4, <2>2, <3>1, <3>2
  <2> QED
    BY <2>1, <2>2
<1>6. ASSUME NEW i \in 1 .. n + m, NEW j \in 1 .. n + m, i < j PROVE both[i] # both[j]
  <2>1. CASE j <= n
    <3>1. i \in DOMAIN a /\ j \in DOMAIN a /\ both[i] = a[i] /\ both[j] = a[j]
      BY <1>5, <1>6, <2>1
    <3> QED
      BY <1>6, <3>1 DEF Distinct
  <2>2. CASE i <= n /\ j > n
    <3>1. i \in DOMAIN a /\ j - n \in DOMAIN b /\ both[i] = a[i] /\ both[j] = b[j - n]
      BY <1>5, <2>2
    <3> QED
      BY <3>1
  <2>3. CASE i > n
    <3>1. i - n \in DOMAIN b /\ j - n \in DOMAIN b /\ both[i] = b[i - n] /\ both[j] = b[j - n] /\ i - n < j - n
      BY <1>5, <1>6, <2>3
    <3> QED
      BY <3>1 DEF Distinct
  <2> QED
    BY <2>1, <2>2, <2>3
<1>7. ASSUME NEW row PROVE HoldsRow(both, row) <=> HoldsRow(a, row) \/ HoldsRow(b, row)
  <2>1. ASSUME NEW i \in DOMAIN both, both[i] = row PROVE HoldsRow(a, row) \/ HoldsRow(b, row)
    BY <1>4, <1>5, <2>1 DEF HoldsRow
  <2>2. ASSUME NEW i \in DOMAIN a PROVE i \in DOMAIN both /\ both[i] = a[i]
    BY <1>3, <1>4
  <2>3. ASSUME NEW i \in DOMAIN b PROVE n + i \in DOMAIN both /\ both[n + i] = b[i]
    BY <1>3, <1>4
  <2> QED
    BY <2>1, <2>2, <2>3 DEF HoldsRow
<1> QED
  BY <1>1, <1>3, <1>4, <1>6, <1>7 DEF Distinct

\* Rows of one kind, none twice.
OfKind(list, kind) ==
    list \in Seq(TraceRows) /\ Distinct(list) /\ \A k \in DOMAIN list : list[k].kind = kind

LEMMA KindsSorted ==
    ASSUME NEW a, NEW b, NEW c, OfKind(a, "can"), OfKind(b, "fr"), OfKind(c, "eth")
    PROVE  /\ ByStamp(a \o b \o c) \in Seq(TraceRows) /\ InTime(ByStamp(a \o b \o c))
           /\ \A row : HoldsRow(ByStamp(a \o b \o c), row)
                        <=> HoldsRow(a, row) \/ HoldsRow(b, row) \/ HoldsRow(c, row)
<1>1. /\ a \in Seq(TraceRows) /\ Distinct(a) /\ \A k \in DOMAIN a : a[k].kind = "can"
      /\ b \in Seq(TraceRows) /\ Distinct(b) /\ \A k \in DOMAIN b : b[k].kind = "fr"
      /\ c \in Seq(TraceRows) /\ Distinct(c) /\ \A k \in DOMAIN c : c[k].kind = "eth"
  BY DEF OfKind
<1>2. \A i \in DOMAIN a, j \in DOMAIN b : a[i] # b[j]
  BY <1>1
<1>3. /\ a \o b \in Seq(TraceRows) /\ Distinct(a \o b)
      /\ \A row : HoldsRow(a \o b, row) <=> HoldsRow(a, row) \/ HoldsRow(b, row)
  BY ONLY <1>1, <1>2, BothDistinct
<1>4. PICK ab : ab = a \o b
  OBVIOUS
<1>5. \A i \in DOMAIN ab, j \in DOMAIN c : ab[i] # c[j]
  <2>1. ASSUME NEW i \in DOMAIN ab PROVE HoldsRow(a, ab[i]) \/ HoldsRow(b, ab[i])
    <3>1. HoldsRow(ab, ab[i])
      BY DEF HoldsRow
    <3> QED
      BY <1>3, <1>4, <3>1
  <2>2. ASSUME NEW i \in DOMAIN ab PROVE ab[i].kind # "eth"
    <3>1. CASE HoldsRow(a, ab[i])
      BY <1>1, <3>1 DEF HoldsRow
    <3>2. CASE HoldsRow(b, ab[i])
      BY <1>1, <3>2 DEF HoldsRow
    <3> QED
      BY <2>1, <3>1, <3>2
  <2> QED
    BY <1>1, <2>2
<1>6. /\ ab \o c \in Seq(TraceRows) /\ Distinct(ab \o c)
      /\ \A row : HoldsRow(ab \o c, row) <=> HoldsRow(ab, row) \/ HoldsRow(c, row)
  <2>1. ab \in Seq(TraceRows) /\ Distinct(ab)
    BY <1>3, <1>4
  <2> QED
    BY ONLY <1>1, <1>5, <2>1, BothDistinct
<1>7. PICK abc : abc = ab \o c
  OBVIOUS
<1>8. /\ ByStamp(abc) \in Seq(TraceRows) /\ InTime(ByStamp(abc))
      /\ \A row : HoldsRow(ByStamp(abc), row) <=> HoldsRow(abc, row)
  <2>1. abc \in Seq(TraceRows) /\ Distinct(abc)
    BY <1>6, <1>7
  <2> QED
    BY ONLY <2>1, SortedShows
<1>9. a \o b \o c = abc
  BY <1>4, <1>7
<1>10. \A row : HoldsRow(abc, row) <=> HoldsRow(a, row) \/ HoldsRow(b, row) \/ HoldsRow(c, row)
  BY <1>3, <1>4, <1>6, <1>7
<1> QED
  BY <1>8, <1>9, <1>10

\* The rows of a ring, and those of them that came after a place of the run.
LEMMA RingRows ==
    ASSUME NEW kind, NEW top \in Nat, NEW list, Came(list, kind, top), NEW ring, EndOf(ring, list)
    PROVE  OfKind(ring.rows, kind) /\ \A k \in DOMAIN ring.rows : ring.rows[k].n \in 1 .. top
<1>1. /\ list \in Seq(TraceRows)
      /\ \A i \in DOMAIN list : list[i].kind = kind /\ list[i].n \in 1 .. top
      /\ \A i, j \in DOMAIN list : i < j => list[i].n < list[j].n
  BY DEF Came
<1>2. /\ ring.rows \in Seq(TraceRows) /\ ring.dropped \in 0 .. Len(list)
      /\ Len(ring.rows) = Len(list) - ring.dropped
      /\ \A i \in 1 .. Len(ring.rows) : ring.rows[i] = list[ring.dropped + i]
  BY DEF EndOf
<1>3. PICK d \in Nat, n \in Nat, all \in Nat : d = ring.dropped /\ n = Len(ring.rows) /\ all = Len(list)
  BY <1>1, <1>2
<1>4. DOMAIN list = 1 .. all /\ DOMAIN ring.rows = 1 .. n /\ n = all - d
      /\ \A i \in 1 .. n : ring.rows[i] = list[d + i]
  BY <1>1, <1>2, <1>3
<1>5. ASSUME NEW i \in 1 .. n PROVE d + i \in DOMAIN list
  BY <1>4
<1>6. ASSUME NEW i \in DOMAIN ring.rows PROVE ring.rows[i].kind = kind /\ ring.rows[i].n \in 1 .. top
  BY <1>1, <1>4, <1>5
<1>7. ASSUME NEW i \in DOMAIN ring.rows, NEW j \in DOMAIN ring.rows, i < j
      PROVE  ring.rows[i] # ring.rows[j]
  <2>1. d + i \in DOMAIN list /\ d + j \in DOMAIN list /\ d + i < d + j
    BY <1>4, <1>5, <1>7
  <2>2. list[d + i].n < list[d + j].n /\ list[d + i].n \in Nat /\ list[d + j].n \in Nat
    BY <1>1, <2>1
  <2>3. ring.rows[i] = list[d + i] /\ ring.rows[j] = list[d + j]
    BY <1>4
  <2>4. list[d + i] # list[d + j]
    BY <2>2
  <2> QED
    BY <2>3, <2>4
<1> QED
  BY <1>2, <1>6, <1>7 DEF OfKind, Distinct

\* The newest n rows are those past a place.
PastIs(ring, last, n) ==
    /\ n \in 0 .. Len(ring.rows)
    /\ \A i \in 1 .. Len(ring.rows) : i > Len(ring.rows) - n <=> ring.dropped + i > last

LEMMA FreshRows ==
    ASSUME NEW kind, NEW top \in Nat, NEW list, Came(list, kind, top), NEW ring, EndOf(ring, list),
           NEW last \in Nat, NEW m \in Nat, Split(list, last, m),
           NEW n, PastIs(ring, last, n)
    PROVE  /\ OfKind(NewestFirst(ring, n), kind)
           /\ \A row : HoldsRow(NewestFirst(ring, n), row) <=> HoldsRow(ring.rows, row) /\ row.n > m
<1>1. /\ list \in Seq(TraceRows)
      /\ \A i \in DOMAIN list : list[i].kind = kind /\ list[i].n \in 1 .. top
  BY DEF Came
<1>2. OfKind(ring.rows, kind)
  BY RingRows
<1>3. /\ ring.rows \in Seq(TraceRows) /\ Distinct(ring.rows)
      /\ \A k \in DOMAIN ring.rows : ring.rows[k].kind = kind
  BY <1>2 DEF OfKind
<1>4. PICK frames : frames = ring.rows
  OBVIOUS
<1>5. PICK size \in Nat : size = Len(frames)
  BY <1>3, <1>4
<1>6. /\ frames \in Seq(TraceRows) /\ Distinct(frames) /\ n \in 0 .. size /\ DOMAIN frames = 1 .. size
      /\ \A k \in DOMAIN frames : frames[k].kind = kind
      /\ \A i \in 1 .. size : i > size - n <=> ring.dropped + i > last
  BY <1>3, <1>4, <1>5 DEF PastIs
<1>7. \A i \in 1 .. size : frames[i] = list[ring.dropped + i] /\ ring.dropped + i \in DOMAIN list
  <2>1. /\ ring.dropped \in 0 .. Len(list) /\ Len(ring.rows) = Len(list) - ring.dropped
        /\ \A i \in 1 .. Len(ring.rows) : ring.rows[i] = list[ring.dropped + i]
    BY DEF EndOf
  <2>2. PICK d \in Nat, all \in Nat : d = ring.dropped /\ all = Len(list) /\ DOMAIN list = 1 .. all
    BY <1>1, <2>1
  <2>3. size = all - d /\ \A i \in 1 .. size : frames[i] = list[d + i]
    BY <1>4, <1>5, <2>1, <2>2
  <2> QED
    BY <2>2, <2>3
<1>8. \A i \in 1 .. size : frames[i].n > m <=> i > size - n
  <2>1. ASSUME NEW i \in 1 .. size PROVE frames[i].n > m <=> i > size - n
    <3>1. PICK p \in DOMAIN list : p = ring.dropped + i
      BY <1>7
    <3>2. frames[i] = list[p] /\ (p <= last <=> list[p].n <= m) /\ list[p].n \in Nat /\ p \in Nat
      BY <1>1, <1>7, <3>1 DEF Split
    <3>3. i > size - n <=> p > last
      BY <1>6, <3>1
    <3> QED
      BY <3>2, <3>3
  <2> QED
    BY <2>1
<1>9. PICK tail : tail = LastN(frames, n)
  OBVIOUS
<1>10. tail \in Seq(TraceRows) /\ Len(tail) = n /\ \A i \in 1 .. n : tail[i] = frames[size - n + i]
  <2>1. n \in 0 .. Len(frames) /\ frames \in Seq(TraceRows)
    BY <1>5, <1>6
  <2>2. /\ LastN(frames, n) \in Seq(TraceRows) /\ Len(LastN(frames, n)) = n
        /\ \A i \in 1 .. n : LastN(frames, n)[i] = frames[Len(frames) - n + i]
    BY ONLY <2>1, LastOnes
  <2> QED
    BY <1>5, <1>9, <2>2
<1>11. PICK back : back = Reverse(tail)
  OBVIOUS
<1>12. back \in Seq(TraceRows) /\ DOMAIN back = 1 .. n /\ \A i \in 1 .. n : back[i] = frames[size - i + 1]
  <2>1. /\ Reverse(tail) \in Seq(TraceRows) /\ Len(Reverse(tail)) = Len(tail)
        /\ \A i \in 1 .. Len(tail) : Reverse(tail)[i] = tail[Len(tail) - i + 1]
    <3>1. tail \in Seq(TraceRows)
      BY <1>10
    <3> QED
      BY ONLY <3>1, Reversed
  <2>2. ASSUME NEW i \in 1 .. n PROVE back[i] = frames[size - i + 1]
    <3>1. PICK k \in 1 .. n : k = n - i + 1
      BY <1>6
    <3>2. back[i] = tail[k] /\ tail[k] = frames[size - n + k] /\ size - n + k = size - i + 1
      BY <1>6, <1>10, <1>11, <2>1, <3>1
    <3> QED
      BY <3>2
  <2> QED
    BY <1>10, <1>11, <2>1, <2>2
<1>13. ASSUME NEW i \in 1 .. n PROVE size - i + 1 \in DOMAIN frames /\ size - i + 1 > size - n
  BY <1>6
<1>14. ASSUME NEW i \in 1 .. n, NEW j \in 1 .. n, i < j PROVE back[i] # back[j]
  <2>1. PICK x \in DOMAIN frames, y \in DOMAIN frames : x = size - i + 1 /\ y = size - j + 1
    BY <1>13
  <2>2. y < x /\ back[i] = frames[x] /\ back[j] = frames[y]
    BY <1>12, <1>14, <2>1
  <2> QED
    BY <1>6, <2>2 DEF Distinct
<1>15. OfKind(back, kind)
  <2>1. \A i \in 1 .. n : back[i].kind = kind
    BY <1>6, <1>12, <1>13
  <2> QED
    BY <1>12, <1>14, <2>1 DEF OfKind, Distinct
<1>16. ASSUME NEW row PROVE HoldsRow(back, row) <=> HoldsRow(frames, row) /\ row.n > m
  <2>1. ASSUME NEW i \in 1 .. n, back[i] = row PROVE HoldsRow(frames, row) /\ row.n > m
    <3>1. PICK x \in 1 .. size : x = size - i + 1 /\ x > size - n
      BY <1>6, <1>13
    <3>2. frames[x] = row /\ frames[x].n > m
      BY <1>8, <1>12, <2>1, <3>1
    <3> QED
      BY <1>6, <3>2 DEF HoldsRow
  <2>2. ASSUME NEW k \in 1 .. size, frames[k] = row, row.n > m PROVE HoldsRow(back, row)
    <3>1. k > size - n
      BY <1>8, <2>2
    <3>2. PICK i \in 1 .. n : i = size - k + 1
      BY <1>6, <3>1
    <3>3. size - i + 1 = k
      BY <3>2
    <3>4. back[i] = row
      BY <1>12, <2>2, <3>3
    <3> QED
      BY <1>12, <3>4 DEF HoldsRow
  <2> QED
    BY <1>6, <1>12, <2>1, <2>2 DEF HoldsRow
<1>17. NewestFirst(ring, n) = back
  BY <1>4, <1>9, <1>11 DEF NewestFirst
<1> QED
  BY <1>4, <1>15, <1>16, <1>17


LEMMA SplitExists ==
    ASSUME NEW kind, NEW top \in Nat, NEW list, Came(list, kind, top), NEW last \in 0 .. Len(list)
    PROVE  \E m \in Nat : Split(list, last, m)
<1>1. /\ list \in Seq(TraceRows) /\ Len(list) \in Nat /\ DOMAIN list = 1 .. Len(list)
      /\ \A i \in DOMAIN list : list[i].n \in 1 .. top
      /\ \A i, j \in DOMAIN list : i < j => list[i].n < list[j].n
  BY DEF Came
<1>2. CASE last = 0
  <2>1. \A i \in DOMAIN list : ~(i <= last) /\ ~(list[i].n <= 0)
    BY <1>1, <1>2
  <2> QED
    BY <2>1 DEF Split
<1>3. CASE last # 0
  <2>1. last \in DOMAIN list /\ list[last].n \in Nat
    BY <1>1, <1>3
  <2>2. ASSUME NEW i \in DOMAIN list PROVE i <= last <=> list[i].n <= list[last].n
    <3>1. list[i].n \in Nat /\ i \in Nat /\ last \in Nat
      BY <1>1, <2>1
    <3>2. CASE i < last
      BY <1>1, <2>1, <3>1, <3>2
    <3>3. CASE i = last
      BY <2>1, <3>3
    <3>4. CASE i > last
      <4>1. list[last].n < list[i].n
        BY <1>1, <2>1, <3>1, <3>4
      <4> QED
        BY <2>1, <3>1, <3>4, <4>1
    <3> QED
      BY <3>1, <3>2, <3>3, <3>4
  <2> QED
    BY <2>1, <2>2 DEF Split
<1> QED
  BY <1>2, <1>3

\* The newest rows of a ring, and those of them that are past a place of the run.
LEMMA NewestRows ==
    ASSUME NEW kind, NEW top \in Nat, NEW list, Came(list, kind, top), NEW ring, EndOf(ring, list),
           NEW n \in 0 .. Len(ring.rows)
    PROVE  /\ OfKind(NewestFirst(ring, n), kind)
           /\ \A row : HoldsRow(NewestFirst(ring, n), row) => HoldsRow(ring.rows, row)
<1>1. /\ ring.dropped \in 0 .. Len(list) /\ Len(ring.rows) = Len(list) - ring.dropped
      /\ Len(list) \in Nat
  BY LenProperties DEF EndOf, Came
<1>2. PICK d \in Nat, size \in Nat, all \in Nat :
        d = ring.dropped /\ size = Len(ring.rows) /\ all = Len(list) /\ size = all - d
  BY <1>1
<1>3. PICK last \in 0 .. Len(list) : last = d + size - n
  <2>1. n \in 0 .. size
    BY <1>2
  <2>2. d + size - n = all - n /\ all - n \in 0 .. all
    BY <1>2, <2>1, SMTT(30)
  <2> QED
    BY <1>2, <2>2
<1>4. PICK m \in Nat : Split(list, last, m)
  BY ONLY Came(list, kind, top), <1>3, top \in Nat, SplitExists
<1>5. PastIs(ring, last, n)
  <2>1. n \in 0 .. size
    BY <1>2
  <2>2. \A i \in 1 .. size : i > size - n <=> d + i > last
    BY <1>3, <2>1
  <2> QED
    BY <1>2, <2>2 DEF PastIs
<1>6. last \in Nat
  BY <1>1, <1>3
<1> QED
  BY ONLY <1>4, <1>5, <1>6, FreshRows, Came(list, kind, top), EndOf(ring, list), top \in Nat

\* What is fresh to the web thread.
LEMMA DeltaIs ==
    ASSUME Ringed, Stored, ~Rewound(store)
    PROVE  /\ Delta(store) \in Seq(TraceRows) /\ InTime(Delta(store))
           /\ \A row : HoldsRow(Delta(store), row)
                        => HoldsRow(can.rows, row) \/ HoldsRow(fr.rows, row) \/ HoldsRow(eth.rows, row)
           /\ \A m \in Nat : \A row :
                /\ ~Full /\ Split(run.can, store.last_total, m)
                /\ Split(run.fr, store.last_fr, m) /\ Split(run.eth, store.last_eth, m)
                => (HoldsRow(Delta(store), row)
                      <=> (HoldsRow(can.rows, row) \/ HoldsRow(fr.rows, row) \/ HoldsRow(eth.rows, row))
                          /\ row.n > m)
<1>1. /\ run.n \in Nat
      /\ Came(run.can, "can", run.n) /\ Came(run.fr, "fr", run.n) /\ Came(run.eth, "eth", run.n)
      /\ EndOf(can, run.can) /\ EndOf(fr, run.fr) /\ EndOf(eth, run.eth)
  BY DEF Ringed
<1>2. store.last_total \in Nat /\ store.last_fr \in Nat /\ store.last_eth \in Nat
  BY DEF Stored, IsStore
<1>3. PICK lc \in Nat, lf \in Nat, le \in Nat :
        lc = store.last_total /\ lf = store.last_fr /\ le = store.last_eth
  BY <1>2
<1>4. /\ can.dropped \in Nat /\ Len(can.rows) \in Nat /\ Len(fr.rows) \in Nat /\ Len(eth.rows) \in Nat
      /\ fr.dropped \in Nat /\ eth.dropped \in Nat
  BY <1>1, LenProperties DEF EndOf, Came
<1>5. PICK dc \in Nat, hc \in Nat, hf \in Nat, he \in Nat :
        dc = can.dropped /\ hc = Len(can.rows) /\ hf = Len(fr.rows) /\ he = Len(eth.rows)
  BY <1>4
<1>6. hc + dc >= lc /\ hf >= lf /\ he >= le
  <2>1. /\ ~(Len(can.rows) + can.dropped < store.last_total)
        /\ ~(Len(fr.rows) < store.last_fr) /\ ~(Len(eth.rows) < store.last_eth)
    BY DEF Rewound, Total, Held
  <2>2. ~(hc + dc < lc) /\ ~(hf < lf) /\ ~(he < le)
    BY <1>3, <1>5, <2>1
  <2> QED
    BY <2>2
<1>7. PICK nc \in 0 .. hc : nc = Min({IF hc + dc > lc THEN (hc + dc) - lc ELSE 0, hc})
                            /\ \A i \in 1 .. hc : i > hc - nc <=> dc + i > lc
  <2> DEFINE new == IF hc + dc > lc THEN (hc + dc) - lc ELSE 0
  <2>1. new \in Nat /\ new = hc + dc - lc
    BY <1>6
  <2> HIDE DEF new
  <2>2. Min({new, hc}) \in {new, hc} /\ \A x \in {new, hc} : Min({new, hc}) <= x
    <3>1. {new, hc} \in SUBSET Nat /\ {new, hc} # {}
      BY <2>1
    <3> QED
      BY ONLY <3>1, LeastEnd
  <2>3. PICK nc : nc = Min({new, hc})
    OBVIOUS
  <2>4. nc \in 0 .. hc /\ nc <= new /\ (nc = new \/ nc = hc)
    BY <2>1, <2>2, <2>3
  <2>5. ASSUME NEW i \in 1 .. hc PROVE i > hc - nc <=> dc + i > lc
    BY <2>1, <2>4
  <2> QED
    BY <2>3, <2>4, <2>5 DEF new
<1>8. PICK nf \in 0 .. hf : nf = (IF hf > lf THEN hf - lf ELSE 0) /\ nf = hf - lf
  BY <1>6
<1>9. PICK ne \in 0 .. he : ne = (IF he > le THEN he - le ELSE 0) /\ ne = he - le
  BY <1>6
<1>10. PICK a, b, c : a = NewestFirst(can, nc) /\ b = NewestFirst(fr, nf) /\ c = NewestFirst(eth, ne)
  OBVIOUS
<1>11. Delta(store) = ByStamp(a \o b \o c)
  <2>1. PICK x, y, z :
          /\ x = Min({IF Len(can.rows) + can.dropped > store.last_total
                      THEN (Len(can.rows) + can.dropped) - store.last_total ELSE 0, Len(can.rows)})
          /\ y = (IF Len(fr.rows) > store.last_fr THEN Len(fr.rows) - store.last_fr ELSE 0)
          /\ z = (IF Len(eth.rows) > store.last_eth THEN Len(eth.rows) - store.last_eth ELSE 0)
    OBVIOUS
  <2>2. Delta(store) = ByStamp(NewestFirst(can, x) \o NewestFirst(fr, y) \o NewestFirst(eth, z))
    BY <2>1 DEF Delta, Total, Held
  <2>3. x = nc
    <3>1. x = Min({IF hc + dc > lc THEN (hc + dc) - lc ELSE 0, hc})
      BY ONLY <1>3, <1>5, <2>1, Zenon
    <3> QED
      BY ONLY <1>7, <3>1
  <2>4. y = nf /\ z = ne
    BY ONLY <1>3, <1>5, <1>8, <1>9, <2>1
  <2> QED
    BY ONLY <1>10, <2>2, <2>3, <2>4
<1>12. /\ OfKind(a, "can") /\ OfKind(b, "fr") /\ OfKind(c, "eth")
       /\ \A row : /\ HoldsRow(a, row) => HoldsRow(can.rows, row)
                   /\ HoldsRow(b, row) => HoldsRow(fr.rows, row)
                   /\ HoldsRow(c, row) => HoldsRow(eth.rows, row)
  <2>1. nc \in 0 .. Len(can.rows) /\ nf \in 0 .. Len(fr.rows) /\ ne \in 0 .. Len(eth.rows)
    BY <1>5, <1>7, <1>8, <1>9
  <2>2. /\ OfKind(NewestFirst(can, nc), "can")
        /\ \A row : HoldsRow(NewestFirst(can, nc), row) => HoldsRow(can.rows, row)
    BY ONLY <1>1, <2>1, NewestRows
  <2>3. /\ OfKind(NewestFirst(fr, nf), "fr")
        /\ \A row : HoldsRow(NewestFirst(fr, nf), row) => HoldsRow(fr.rows, row)
    BY ONLY <1>1, <2>1, NewestRows
  <2>4. /\ OfKind(NewestFirst(eth, ne), "eth")
        /\ \A row : HoldsRow(NewestFirst(eth, ne), row) => HoldsRow(eth.rows, row)
    BY ONLY <1>1, <2>1, NewestRows
  <2> QED
    BY <1>10, <2>2, <2>3, <2>4
<1>13. /\ Delta(store) \in Seq(TraceRows) /\ InTime(Delta(store))
       /\ \A row : HoldsRow(Delta(store), row) <=> HoldsRow(a, row) \/ HoldsRow(b, row) \/ HoldsRow(c, row)
  BY <1>11, <1>12, KindsSorted
<1>14. ASSUME NEW m \in Nat, ~Full, Split(run.can, store.last_total, m),
              Split(run.fr, store.last_fr, m), Split(run.eth, store.last_eth, m)
       PROVE  \A row : /\ HoldsRow(a, row) <=> HoldsRow(can.rows, row) /\ row.n > m
                       /\ HoldsRow(b, row) <=> HoldsRow(fr.rows, row) /\ row.n > m
                       /\ HoldsRow(c, row) <=> HoldsRow(eth.rows, row) /\ row.n > m
  <2>1. PastIs(can, lc, nc) /\ Split(run.can, lc, m)
    BY <1>3, <1>5, <1>7, <1>14 DEF PastIs
  <2>2. /\ OfKind(NewestFirst(can, nc), "can")
        /\ \A row : HoldsRow(NewestFirst(can, nc), row) <=> HoldsRow(can.rows, row) /\ row.n > m
    BY ONLY <1>1, <2>1, lc \in Nat, m \in Nat, FreshRows
  <2>3. PastIs(fr, lf, nf) /\ Split(run.fr, lf, m)
    <3>1. fr.dropped = 0
      BY <1>14 DEF Full
    <3>2. \A i \in 1 .. hf : i > hf - nf <=> 0 + i > lf
      BY <1>8
    <3> QED
      BY <1>3, <1>5, <1>8, <1>14, <3>1, <3>2 DEF PastIs
  <2>4. /\ OfKind(NewestFirst(fr, nf), "fr")
        /\ \A row : HoldsRow(NewestFirst(fr, nf), row) <=> HoldsRow(fr.rows, row) /\ row.n > m
    BY ONLY <1>1, <2>3, lf \in Nat, m \in Nat, FreshRows
  <2>5. PastIs(eth, le, ne) /\ Split(run.eth, le, m)
    <3>1. eth.dropped = 0
      BY <1>14 DEF Full
    <3>2. \A i \in 1 .. he : i > he - ne <=> 0 + i > le
      BY <1>9
    <3> QED
      BY <1>3, <1>5, <1>9, <1>14, <3>1, <3>2 DEF PastIs
  <2>6. /\ OfKind(NewestFirst(eth, ne), "eth")
        /\ \A row : HoldsRow(NewestFirst(eth, ne), row) <=> HoldsRow(eth.rows, row) /\ row.n > m
    BY ONLY <1>1, <2>5, le \in Nat, m \in Nat, FreshRows
  <2> QED
    BY <1>10, <2>2, <2>4, <2>6
<1>15. ASSUME NEW m \in Nat, NEW row, ~Full, Split(run.can, store.last_total, m),
              Split(run.fr, store.last_fr, m), Split(run.eth, store.last_eth, m)
       PROVE  HoldsRow(Delta(store), row)
                <=> (HoldsRow(can.rows, row) \/ HoldsRow(fr.rows, row) \/ HoldsRow(eth.rows, row)) /\ row.n > m
  BY <1>13, <1>14, <1>15
<1> QED
  BY <1>12, <1>13, <1>15


\* What a list holds: of a list in two parts, of the end of a list, of none.
LEMMA HeldRows ==
    ASSUME NEW list \in Seq(TraceRows)
    PROVE  /\ \A row : HoldsRow(list, row) => row \in TraceRows
           /\ (\A row : ~HoldsRow(list, row)) => list = <<>>
<1>1. ASSUME NEW k \in DOMAIN list PROVE list[k] \in TraceRows /\ HoldsRow(list, list[k])
  BY DEF HoldsRow
<1>2. (\A row : ~HoldsRow(list, row)) => DOMAIN list = {}
  BY <1>1
<1>3. DOMAIN list = {} => list = <<>>
  OBVIOUS
<1> QED
  BY <1>1, <1>2, <1>3 DEF HoldsRow

LEMMA HeldCapped ==
    ASSUME NEW list \in Seq(TraceRows), LogCap \in Nat \ {0}, NEW row, HoldsRow(Capped(list), row)
    PROVE  HoldsRow(list, row)
<1>1. /\ Capped(list) \in Seq(TraceRows) /\ Cut(Len(list)) \in 0 .. Len(list) /\ Len(list) \in Nat
      /\ Len(Capped(list)) = Len(list) - Cut(Len(list))
      /\ \A i \in 1 .. Len(list) - Cut(Len(list)) : Capped(list)[i] = list[Cut(Len(list)) + i]
  BY CappedIs
<1>2. PICK cut \in Nat, size \in Nat : cut = Cut(Len(list)) /\ size = Len(list)
  BY <1>1
<1>3. PICK k \in DOMAIN Capped(list) : Capped(list)[k] = row
  BY DEF HoldsRow
<1>4. k \in 1 .. size - cut /\ Capped(list)[k] = list[cut + k]
  <2>1. DOMAIN Capped(list) = 1 .. Len(Capped(list))
    BY <1>1
  <2>2. Len(Capped(list)) = size - cut
    BY ONLY <1>1, <1>2
  <2>3. \A i \in 1 .. size - cut : Capped(list)[i] = list[cut + i]
    BY ONLY <1>1, <1>2
  <2> QED
    BY <2>1, <2>2, <2>3
<1>5. cut + k \in 1 .. size /\ DOMAIN list = 1 .. size
  BY <1>2, <1>4
<1> QED
  BY <1>3, <1>4, <1>5 DEF HoldsRow

LEMMA HeldJoined ==
    ASSUME NEW a \in Seq(TraceRows), NEW b \in Seq(TraceRows), NEW row, HoldsRow(a \o b, row)
    PROVE  HoldsRow(a, row) \/ HoldsRow(b, row)
<1>1. PICK n \in Nat, m \in Nat : n = Len(a) /\ m = Len(b)
  OBVIOUS
<1>2. /\ a \o b \in Seq(TraceRows) /\ Len(a \o b) = n + m
      /\ \A i \in 1 .. n : (a \o b)[i] = a[i]
      /\ \A i \in 1 .. m : (a \o b)[n + i] = b[i]
  <2>1. /\ a \o b \in Seq(TraceRows)
        /\ Len(a) \in Nat /\ Len(b) \in Nat /\ Len(a \o b) = Len(a) + Len(b)
        /\ \A i \in 1 .. Len(a) : (a \o b)[i] = a[i]
        /\ \A i \in 1 .. Len(b) : (a \o b)[Len(a) + i] = b[i]
    BY ONLY JoinedParts, a \in Seq(TraceRows), b \in Seq(TraceRows)
  <2> QED
    BY ONLY <1>1, <2>1
<1>3. PICK k \in DOMAIN (a \o b) : (a \o b)[k] = row
  BY DEF HoldsRow
<1>4. k \in 1 .. n + m /\ DOMAIN a = 1 .. n /\ DOMAIN b = 1 .. m
  BY <1>1, <1>2
<1>5. CASE k <= n
  <2>1. k \in DOMAIN a /\ a[k] = row
    BY <1>2, <1>3, <1>4, <1>5
  <2> QED
    BY <2>1 DEF HoldsRow
<1>6. CASE k > n
  <2>1. PICK j \in 1 .. m : j = k - n
    BY <1>4, <1>6
  <2>2. n + j = k /\ (a \o b)[n + j] = b[j]
    BY <1>2, <1>4, <2>1
  <2> QED
    BY <1>3, <1>4, <2>2 DEF HoldsRow
<1> QED
  BY <1>4, <1>5, <1>6

\* A log that is full or not is not longer than it may be.
LEMMA CappedOnce ==
    ASSUME NEW list \in Seq(TraceRows), LogCap \in Nat \ {0}
    PROVE  Capped(Capped(list)) = Capped(list)
<1>1. /\ Capped(list) \in Seq(TraceRows) /\ Cut(Len(list)) \in 0 .. Len(list) /\ Len(list) \in Nat
      /\ Len(Capped(list)) = Len(list) - Cut(Len(list))
      /\ Cut(Len(list)) # 0 => Len(Capped(list)) = LogCap
  BY CappedIs
<1>2. Len(Capped(list)) <= LogCap
  <2>1. CASE Len(list) <= LogCap
    <3>1. Cut(Len(list)) = 0
      BY <2>1 DEF Cut
    <3> QED
      BY <1>1, <2>1, <3>1
  <2>2. CASE ~(Len(list) <= LogCap)
    <3>1. Cut(Len(list)) = Len(list) - LogCap
      BY <2>2 DEF Cut
    <3> QED
      BY <1>1, <2>2, <3>1
  <2> QED
    BY <2>1, <2>2
<1> QED
  BY <1>2 DEF Capped


-----------------------------------------------------------------------------
(* The web thread looks at the rings                                         *)

InRings(row) == HoldsRow(can.rows, row) \/ HoldsRow(fr.rows, row) \/ HoldsRow(eth.rows, row)

\* A list shows the rings: only rows of the run, in time, and every row of the rings.
ShowsRings(list) ==
    /\ \A k \in DOMAIN list : list[k].n <= run.n
    /\ InTime(list)
    /\ \A row : InRings(row) => ShownIn(row, list)

LEMMA RingsHeld ==
    ASSUME Ringed
    PROVE  /\ OfKind(can.rows, "can") /\ OfKind(fr.rows, "fr") /\ OfKind(eth.rows, "eth")
           /\ \A row : InRings(row) => row \in TraceRows /\ row.n \in 1 .. run.n
           /\ ToSet(can.rows) \cup ToSet(fr.rows) \cup ToSet(eth.rows) = {row \in TraceRows : InRings(row)}
<1>1. /\ run.n \in Nat
      /\ Came(run.can, "can", run.n) /\ Came(run.fr, "fr", run.n) /\ Came(run.eth, "eth", run.n)
      /\ EndOf(can, run.can) /\ EndOf(fr, run.fr) /\ EndOf(eth, run.eth)
  BY DEF Ringed
<1>2. OfKind(can.rows, "can") /\ \A k \in DOMAIN can.rows : can.rows[k].n \in 1 .. run.n
  BY ONLY <1>1, RingRows
<1>3. OfKind(fr.rows, "fr") /\ \A k \in DOMAIN fr.rows : fr.rows[k].n \in 1 .. run.n
  BY ONLY <1>1, RingRows
<1>4. OfKind(eth.rows, "eth") /\ \A k \in DOMAIN eth.rows : eth.rows[k].n \in 1 .. run.n
  BY ONLY <1>1, RingRows
<1>5. can.rows \in Seq(TraceRows) /\ fr.rows \in Seq(TraceRows) /\ eth.rows \in Seq(TraceRows)
  BY <1>2, <1>3, <1>4 DEF OfKind
<1>6. ASSUME NEW row, InRings(row) PROVE row \in TraceRows /\ row.n \in 1 .. run.n
  <2>1. row \in TraceRows
    BY <1>5, <1>6, HeldRows DEF InRings
  <2>2. row.n \in 1 .. run.n
    BY <1>2, <1>3, <1>4, <1>6 DEF InRings, HoldsRow
  <2> QED
    BY <2>1, <2>2
<1>7. \A row : row \in ToSet(can.rows) \cup ToSet(fr.rows) \cup ToSet(eth.rows) <=> InRings(row)
  BY DEF ToSet, InRings, HoldsRow
<1> QED
  BY <1>2, <1>3, <1>4, <1>6, <1>7

\* A log begun anew shows the rings, and so does one that has seen them up to a
\* place and is given what came after it.
LEMMA ShownAnew ==
    ASSUME Ringed, LogCap \in Nat \ {0}
    PROVE  LET list == Capped(ByStamp(can.rows \o fr.rows \o eth.rows)) IN
           /\ list \in Seq(TraceRows) /\ ShowsRings(list)
           /\ \A row : HoldsRow(list, row) => InRings(row)
<1>1. /\ OfKind(can.rows, "can") /\ OfKind(fr.rows, "fr") /\ OfKind(eth.rows, "eth")
      /\ \A row : InRings(row) => row \in TraceRows /\ row.n \in 1 .. run.n
  BY RingsHeld
<1>2. PICK all : all = ByStamp(can.rows \o fr.rows \o eth.rows)
  OBVIOUS
<1>3. /\ all \in Seq(TraceRows) /\ InTime(all)
      /\ \A row : HoldsRow(all, row) <=> InRings(row)
  BY <1>1, <1>2, KindsSorted DEF InRings
<1>4. /\ Capped(all) \in Seq(TraceRows) /\ InTime(Capped(all))
      /\ \A row : HoldsRow(all, row) => ShownIn(row, Capped(all))
      /\ \A row : HoldsRow(Capped(all), row) => HoldsRow(all, row)
  BY <1>3, CappedIs, CappedShows, HeldCapped
<1>5. PICK list : list = Capped(all)
  OBVIOUS
<1>6. ASSUME NEW k \in DOMAIN list PROVE list[k].n <= run.n
  <2>1. HoldsRow(list, list[k])
    BY DEF HoldsRow
  <2>2. list[k].n \in 1 .. run.n /\ run.n \in Nat
    BY <1>1, <1>3, <1>4, <1>5, <2>1 DEF Ringed
  <2> QED
    BY <2>2
<1>7. ShowsRings(list) /\ list \in Seq(TraceRows) /\ \A row : HoldsRow(list, row) => InRings(row)
  BY <1>3, <1>4, <1>5, <1>6 DEF ShowsRings
<1> QED
  BY <1>2, <1>5, <1>7

LEMMA ShownFurther ==
    ASSUME Ringed, Stored, LogCap \in Nat \ {0}, ~Rewound(store), ~Full,
           NEW m \in 0 .. run.n, SeenUpTo(m)
    PROVE  ShowsRings(Capped(LogRows(store.log) \o Delta(store)))
<1>1. /\ \A row : InRings(row) => row \in TraceRows /\ row.n \in 1 .. run.n
      /\ ToSet(can.rows) \cup ToSet(fr.rows) \cup ToSet(eth.rows) = {row \in TraceRows : InRings(row)}
      /\ run.n \in Nat
  BY RingsHeld DEF Ringed
<1>2. PICK old, more : old = LogRows(store.log) /\ more = Delta(store)
  OBVIOUS
<1>3. old \in Seq(TraceRows) /\ DOMAIN old = DOMAIN store.log
      /\ \A k \in DOMAIN old : old[k] = store.log[k].row
  <2>1. store.log \in Seq(Entry)
    BY DEF Stored, IsStore
  <2>2. \A k \in DOMAIN store.log : store.log[k] \in Entry
    BY <2>1
  <2>3. \A k \in DOMAIN store.log : store.log[k].row \in TraceRows
    BY <2>2 DEF Entry
  <2>4. old = [k \in 1 .. Len(store.log) |-> store.log[k].row] /\ DOMAIN store.log = 1 .. Len(store.log)
        /\ Len(store.log) \in Nat
    BY <1>2, <2>1 DEF LogRows
  <2> QED
    BY <2>3, <2>4
<1>4. /\ Split(run.can, store.last_total, m) /\ Split(run.fr, store.last_fr, m)
      /\ Split(run.eth, store.last_eth, m)
      /\ \A k \in DOMAIN old : old[k].n <= m
      /\ InTime(old)
      /\ \A row : InRings(row) /\ row.n <= m => ShownIn(row, old)
  BY <1>1, <1>2, <1>3 DEF SeenUpTo
<1>5. m \in Nat
  BY <1>1
<1>6. /\ more \in Seq(TraceRows) /\ InTime(more)
      /\ \A row : HoldsRow(more, row) <=> InRings(row) /\ row.n > m
  BY <1>2, <1>4, <1>5, DeltaIs DEF InRings
<1>7. ASSUME NEW i \in DOMAIN old, NEW j \in DOMAIN more
      PROVE  old[i] # more[j] /\ old[i].t <= more[j].t
  <2>1. old[i] \in TraceRows /\ more[j] \in TraceRows /\ old[i].n <= m
    BY <1>3, <1>4, <1>6
  <2>2. more[j].n > m
    <3>1. HoldsRow(more, more[j])
      BY DEF HoldsRow
    <3> QED
      BY <1>6, <3>1
  <2>3. PICK x \in Nat, y \in Nat : x = old[i].n /\ y = more[j].n
    BY <2>1 DEF TraceRows
  <2>4. x < y /\ old[i].t = (x + 1) \div 2 /\ more[j].t = (y + 1) \div 2
    BY <1>5, <2>1, <2>2, <2>3 DEF TraceRows
  <2>5. (x + 1) \div 2 <= (y + 1) \div 2
    BY <2>4
  <2> QED
    BY <2>3, <2>4, <2>5
<1>8. /\ InTime(Capped(old \o more))
      /\ \A row \in TraceRows : ShownIn(row, old) \/ HoldsRow(more, row) => ShownIn(row, Capped(old \o more))
  BY <1>3, <1>4, <1>6, <1>7, LaterShows
<1>9. PICK list : list = Capped(old \o more)
  OBVIOUS
<1>10. ASSUME NEW k \in DOMAIN list PROVE list[k].n <= run.n
  <2>1. HoldsRow(list, list[k])
    BY DEF HoldsRow
  <2>2. old \o more \in Seq(TraceRows)
    BY <1>3, <1>6
  <2>3. HoldsRow(old \o more, list[k])
    BY <1>9, <2>1, <2>2, HeldCapped
  <2>4. HoldsRow(old, list[k]) \/ HoldsRow(more, list[k])
    BY <1>3, <1>6, <2>3, HeldJoined
  <2>5. CASE HoldsRow(old, list[k])
    <3>1. PICK i \in DOMAIN old : old[i] = list[k]
      BY <2>5 DEF HoldsRow
    <3>2. old[i].n <= m /\ old[i] \in TraceRows
      BY <1>3, <1>4
    <3>3. old[i].n \in Nat
      BY <3>2 DEF TraceRows
    <3> QED
      BY <1>1, <1>5, <3>1, <3>2, <3>3
  <2>6. CASE HoldsRow(more, list[k])
    BY <1>1, <1>6, <2>6
  <2> QED
    BY <2>4, <2>5, <2>6
<1>11. ASSUME NEW row, InRings(row) PROVE ShownIn(row, list)
  <2>1. row \in TraceRows /\ row.n \in Nat
    BY <1>1, <1>11
  <2>2. CASE row.n <= m
    BY <1>4, <1>8, <1>9, <1>11, <2>1, <2>2
  <2>3. CASE ~(row.n <= m)
    <3>1. row.n > m
      BY <1>5, <2>1, <2>3
    <3> QED
      BY <1>6, <1>8, <1>9, <1>11, <2>1, <3>1
  <2> QED
    BY <2>2, <2>3
<1>12. ShowsRings(list)
  BY <1>8, <1>9, <1>10, <1>11 DEF ShowsRings
<1> QED
  BY <1>2, <1>9, <1>12


\* A store's log has an entry for each row it shows.
LEMMA LogShown ==
    ASSUME NEW s, IsStore(s)
    PROVE  /\ LogRows(s.log) \in Seq(TraceRows) /\ DOMAIN LogRows(s.log) = DOMAIN s.log
           /\ \A k \in DOMAIN s.log : LogRows(s.log)[k] = s.log[k].row
           /\ s.log = <<>> <=> LogRows(s.log) = <<>>
<1>1. s.log \in Seq(Entry)
  BY DEF IsStore
<1>2. DOMAIN s.log = 1 .. Len(s.log) /\ Len(s.log) \in Nat
  BY <1>1
<1>3. \A k \in DOMAIN s.log : s.log[k].row \in TraceRows
  <2>1. \A k \in DOMAIN s.log : s.log[k] \in Entry
    BY <1>1
  <2> QED
    BY <2>1 DEF Entry
<1>4. LogRows(s.log) = [k \in 1 .. Len(s.log) |-> s.log[k].row]
  BY <1>2 DEF LogRows
<1>5. LogRows(s.log) \in Seq(TraceRows) /\ Len(LogRows(s.log)) = Len(s.log)
  BY <1>2, <1>3, <1>4
<1>6. s.log = <<>> <=> LogRows(s.log) = <<>>
  <2>1. s.log = <<>> <=> Len(s.log) = 0
    BY <1>1
  <2>2. LogRows(s.log) = <<>> <=> Len(LogRows(s.log)) = 0
    BY <1>5
  <2> QED
    BY <1>5, <2>1, <2>2
<1> QED
  BY <1>2, <1>4, <1>5, <1>6

\* What a look at the rings leaves of the log.
LEMMA SyncedIs ==
    ASSUME Ringed, Stored, Seen, LogCap \in Nat \ {0}
    PROVE  LET after == Synced(store) IN
           /\ IsStore(after)
           /\ after.last_total = Total(can) /\ after.last_fr = Held(fr) /\ after.last_eth = Held(eth)
           /\ after.primed /\ after.epoch >= store.epoch
           /\ ~Full => ShowsRings(LogRows(after.log))
           /\ (Total(can) = 0 /\ Held(fr) = 0 /\ Held(eth) = 0) => after.log = <<>>
<1>1. PICK list : list = Capped(ByStamp(can.rows \o fr.rows \o eth.rows))
  OBVIOUS
<1>2. PICK begun : begun = [store EXCEPT !.epoch = @ + 1, !.next_seq = 0, !.log = <<>>, !.primed = TRUE]
  OBVIOUS
<1>3. PICK s1 : s1 = IF Rewound(store) THEN Numbered(begun, list) ELSE Numbered(store, Delta(store))
  OBVIOUS
<1>4. PICK after : after = [s1 EXCEPT !.last_total = Total(can), !.last_fr = Held(fr), !.last_eth = Held(eth)]
  OBVIOUS
<1>5. Synced(store) = after
  BY <1>1, <1>2, <1>3, <1>4 DEF Synced
<1>6. /\ can.rows \in Seq(TraceRows) /\ fr.rows \in Seq(TraceRows) /\ eth.rows \in Seq(TraceRows)
      /\ can.dropped \in Nat
  BY LenProperties DEF Ringed, EndOf, Came
<1>7. Total(can) \in Nat /\ Held(fr) \in Nat /\ Held(eth) \in Nat
      /\ (Total(can) = 0 => can.rows = <<>>) /\ (Held(fr) = 0 => fr.rows = <<>>)
      /\ (Held(eth) = 0 => eth.rows = <<>>)
  <2>1. Len(can.rows) \in Nat /\ (Len(can.rows) = 0 => can.rows = <<>>)
    BY <1>6
  <2>2. Len(fr.rows) \in Nat /\ (Len(fr.rows) = 0 => fr.rows = <<>>)
    BY <1>6
  <2>3. Len(eth.rows) \in Nat /\ (Len(eth.rows) = 0 => eth.rows = <<>>)
    BY <1>6
  <2> QED
    BY <1>6, <2>1, <2>2, <2>3 DEF Total, Held
<1>8. ASSUME Total(can) = 0, Held(fr) = 0, Held(eth) = 0 PROVE \A row : ~InRings(row)
  <2>1. can.rows = <<>> /\ fr.rows = <<>> /\ eth.rows = <<>>
    BY <1>7, <1>8
  <2>2. \A row : ~HoldsRow(<<>>, row)
    BY DEF HoldsRow
  <2> QED
    BY <2>1, <2>2 DEF InRings
<1>9. /\ IsStore(s1) /\ s1.primed /\ s1.epoch >= store.epoch
      /\ ~Full => ShowsRings(LogRows(s1.log))
      /\ (Total(can) = 0 /\ Held(fr) = 0 /\ Held(eth) = 0) => s1.log = <<>>
  <2>1. CASE Rewound(store)
    <3>1. list \in Seq(TraceRows) /\ ShowsRings(list) /\ \A row : HoldsRow(list, row) => InRings(row)
      BY <1>1, ShownAnew
    <3>2. begun = [epoch |-> store.epoch + 1, next_seq |-> 0, log |-> <<>>, last_total |-> store.last_total,
                   last_fr |-> store.last_fr, last_eth |-> store.last_eth, primed |-> TRUE]
      BY <1>2 DEF Stored, IsStore
    <3>3. IsStore(begun) /\ begun.log = <<>> /\ begun.primed
      BY <3>2 DEF Stored, IsStore
    <3>4. /\ IsStore(Numbered(begun, list))
          /\ LogRows(Numbered(begun, list).log) = Capped(LogRows(begun.log) \o list)
          /\ Numbered(begun, list).primed = begun.primed
          /\ Numbered(begun, list).epoch = begun.epoch
      BY ONLY <3>1, <3>3, NumberedIs, LogCap \in Nat \ {0}
    <3>5. LogRows(begun.log) = <<>>
      BY <3>3 DEF LogRows
    <3>6. <<>> \o list = list
      BY <3>1
    <3>7. Capped(list) = list
      <4>1. ByStamp(can.rows \o fr.rows \o eth.rows) \in Seq(TraceRows)
        BY RingsHeld, KindsSorted
      <4> QED
        BY <1>1, <4>1, CappedOnce
    <3>8. LogRows(s1.log) = list
      BY <1>3, <2>1, <3>4, <3>5, <3>6, <3>7
    <3>9. IsStore(s1) /\ s1.primed /\ s1.epoch >= store.epoch
      <4>1. begun.epoch = store.epoch + 1 /\ store.epoch \in Nat
        BY <3>2 DEF Stored, IsStore
      <4>2. s1.epoch = store.epoch + 1
        BY <1>3, <2>1, <3>4, <4>1
      <4>3. s1.epoch >= store.epoch
        BY <4>1, <4>2
      <4> QED
        BY <1>3, <2>1, <3>3, <3>4, <4>3
    <3>10. ASSUME Total(can) = 0, Held(fr) = 0, Held(eth) = 0 PROVE s1.log = <<>>
      <4>1. list = <<>>
        BY <1>8, <3>1, <3>10, HeldRows
      <4> QED
        BY <3>8, <3>9, <4>1, LogShown
    <3> QED
      BY <3>1, <3>8, <3>9, <3>10
  <2>2. CASE ~Rewound(store)
    <3>1. /\ Delta(store) \in Seq(TraceRows)
          /\ \A row : HoldsRow(Delta(store), row) => InRings(row)
      BY <2>2, DeltaIs DEF InRings
    <3>2. IsStore(store) /\ store.primed
      BY <2>2 DEF Stored, Rewound
    <3>3. PICK more : more = Delta(store)
      OBVIOUS
    <3>4. /\ IsStore(Numbered(store, more))
          /\ LogRows(Numbered(store, more).log) = Capped(LogRows(store.log) \o more)
          /\ Numbered(store, more).primed = store.primed
          /\ Numbered(store, more).epoch = store.epoch
      <4>1. more \in Seq(TraceRows)
        BY <3>1, <3>3
      <4> QED
        BY ONLY <3>2, <4>1, NumberedIs, LogCap \in Nat \ {0}
    <3>5. s1 = Numbered(store, more)
      BY <1>3, <2>2, <3>3
    <3>6. ASSUME ~Full PROVE ShowsRings(LogRows(s1.log))
      <4>1. PICK m \in 0 .. run.n : SeenUpTo(m)
        BY <2>2, <3>6 DEF Seen
      <4>2. ShowsRings(Capped(LogRows(store.log) \o Delta(store)))
        BY <2>2, <3>6, <4>1, ShownFurther
      <4> QED
        BY <3>3, <3>4, <3>5, <4>2
    <3>7. ASSUME Total(can) = 0, Held(fr) = 0, Held(eth) = 0 PROVE s1.log = <<>>
      <4>1. store.last_total = 0 /\ store.last_fr = 0 /\ store.last_eth = 0
        <5>1. store.last_total \in Nat /\ store.last_fr \in Nat /\ store.last_eth \in Nat
          BY <3>2 DEF IsStore
        <5>2. ~(0 < store.last_total) /\ ~(0 < store.last_fr) /\ ~(0 < store.last_eth)
          BY <2>2, <3>7 DEF Rewound
        <5> QED
          BY <5>1, <5>2
      <4>2. store.log = <<>>
        BY <3>2, <4>1 DEF Seen
      <4>3. LogRows(store.log) = <<>>
        BY <3>2, <4>2, LogShown
      <4>4. more = <<>>
        BY <1>8, <3>1, <3>3, <3>7, HeldRows
      <4>5. LogRows(s1.log) = Capped(<<>>)
        <5>1. <<>> \o <<>> = <<>>
          OBVIOUS
        <5> QED
          BY <3>4, <3>5, <4>3, <4>4, <5>1
      <4>6. Capped(<<>>) = <<>>
        BY DEF Capped
      <4> QED
        BY <3>4, <3>5, <4>5, <4>6, LogShown
    <3>8. s1.epoch >= store.epoch
      <4>1. store.epoch \in Nat
        BY <3>2 DEF IsStore
      <4> QED
        BY <3>4, <3>5, <4>1
    <3> QED
      BY <3>2, <3>4, <3>5, <3>6, <3>7, <3>8
  <2> QED
    BY <2>1, <2>2
<1>10. after = [epoch |-> s1.epoch, next_seq |-> s1.next_seq, log |-> s1.log, last_total |-> Total(can),
                last_fr |-> Held(fr), last_eth |-> Held(eth), primed |-> s1.primed]
  BY <1>4, <1>9 DEF IsStore
<1>11. IsStore(after) /\ after.log = s1.log /\ after.primed = s1.primed /\ after.epoch = s1.epoch
       /\ after.last_total = Total(can) /\ after.last_fr = Held(fr) /\ after.last_eth = Held(eth)
  BY <1>7, <1>9, <1>10 DEF IsStore
<1> QED
  BY <1>5, <1>9, <1>11

LEMMA SyncKeeps ==
    ASSUME Ringed, Stored, Seen, LogCap \in Nat \ {0}, Sync
    PROVE  Stored' /\ Seen' /\ Ringed' /\ store'.epoch >= store.epoch
<1>1. UNCHANGED <<can, fr, eth, archive, run>> /\ store' = Synced(store)
  BY DEF Sync
<1>2. /\ IsStore(store') /\ store'.primed /\ store'.epoch >= store.epoch
      /\ store'.last_total = Total(can) /\ store'.last_fr = Held(fr) /\ store'.last_eth = Held(eth)
      /\ ~Full => ShowsRings(LogRows(store'.log))
      /\ (Total(can) = 0 /\ Held(fr) = 0 /\ Held(eth) = 0) => store'.log = <<>>
  BY <1>1, SyncedIs
<1>3. Ringed'
  BY <1>1 DEF Ringed, Archived
<1>4. ASSUME ~Full PROVE SeenUpTo(run.n)'
  <2>1. /\ run.n \in Nat
        /\ Came(run.can, "can", run.n) /\ Came(run.fr, "fr", run.n) /\ Came(run.eth, "eth", run.n)
        /\ EndOf(can, run.can) /\ EndOf(fr, run.fr) /\ EndOf(eth, run.eth)
    BY DEF Ringed
  <2>2. fr.dropped = 0 /\ eth.dropped = 0
    BY <1>4 DEF Full
  <2>3. Total(can) = Len(run.can) /\ Held(fr) = Len(run.fr) /\ Held(eth) = Len(run.eth)
    <3>1. Len(run.can) \in Nat /\ Len(run.fr) \in Nat /\ Len(run.eth) \in Nat
      BY <2>1 DEF Came
    <3>2. can.dropped \in 0 .. Len(run.can) /\ Len(can.rows) = Len(run.can) - can.dropped
      BY <2>1 DEF EndOf
    <3>3. Len(fr.rows) = Len(run.fr) - fr.dropped /\ Len(eth.rows) = Len(run.eth) - eth.dropped
      BY <2>1 DEF EndOf
    <3> QED
      BY <2>2, <3>1, <3>2, <3>3 DEF Total, Held
  <2>4. ASSUME NEW list, NEW kind, Came(list, kind, run.n) PROVE Split(list, Len(list), run.n)
    <3>1. \A i \in DOMAIN list : i <= Len(list) /\ list[i].n <= run.n
      <4>1. list \in Seq(TraceRows) /\ \A i \in DOMAIN list : list[i].n \in 1 .. run.n
        BY <2>4 DEF Came
      <4>2. DOMAIN list = 1 .. Len(list) /\ Len(list) \in Nat
        BY <4>1
      <4> QED
        BY <2>1, <4>1, <4>2
    <3> QED
      BY <3>1 DEF Split
  <2>5. /\ Split(run.can, store'.last_total, run.n) /\ Split(run.fr, store'.last_fr, run.n)
        /\ Split(run.eth, store'.last_eth, run.n)
    BY <1>2, <2>1, <2>3, <2>4
  <2>6. /\ InTime(LogRows(store'.log))
        /\ \A k \in DOMAIN store'.log : store'.log[k].row.n <= run.n
        /\ \A row : InRings(row) => ShownIn(row, LogRows(store'.log))
    BY <1>2, <1>4, LogShown DEF ShowsRings
  <2>7. \A row \in ToSet(can.rows) \cup ToSet(fr.rows) \cup ToSet(eth.rows) : InRings(row)
    BY RingsHeld
  <2> QED
    BY <1>1, <2>5, <2>6, <2>7 DEF SeenUpTo
<1>5. run.n \in 0 .. run.n
  BY DEF Ringed
<1>6. Seen'
  <2>1. (store.primed /\ store.last_total = 0 /\ store.last_fr = 0 /\ store.last_eth = 0 => store.log = <<>>)'
    BY <1>2
  <2>2. (~Full)' => ~Full
    BY <1>1 DEF Full
  <2>3. (~Rewound(store) /\ ~Full => \E m \in 0 .. run.n : SeenUpTo(m))'
    <3>1. ASSUME (~Full)' PROVE (\E m \in 0 .. run.n : SeenUpTo(m))'
      <4>1. SeenUpTo(run.n)'
        BY <1>4, <2>2, <3>1
      <4>2. (run.n \in 0 .. run.n)'
        BY <1>1, <1>5
      <4> QED
        BY <4>1, <4>2
    <3> QED
      BY <3>1
  <2> QED
    BY <2>1, <2>3 DEF Seen
<1> QED
  BY <1>2, <1>3, <1>6 DEF Stored


-----------------------------------------------------------------------------
(* A row comes                                                               *)

LEMMA CameMore ==
    ASSUME NEW kind, NEW top \in Nat, NEW list, Came(list, kind, top)
    PROVE  /\ Came(list, kind, top + 1)
           /\ \A row \in TraceRows :
                row.kind = kind /\ row.n = top + 1 => Came(Append(list, row), kind, top + 1)
<1>1. /\ list \in Seq(TraceRows) /\ DOMAIN list = 1 .. Len(list) /\ Len(list) \in Nat
      /\ \A i \in DOMAIN list : list[i].kind = kind /\ list[i].n \in 1 .. top
      /\ \A i, j \in DOMAIN list : i < j => list[i].n < list[j].n
  BY DEF Came
<1>2. \A i \in DOMAIN list : list[i].n \in 1 .. top + 1 /\ list[i].n < top + 1
  BY <1>1
<1>3. ASSUME NEW row \in TraceRows, row.kind = kind, row.n = top + 1
      PROVE  Came(Append(list, row), kind, top + 1)
  <2>1. PICK n \in Nat : n = Len(list)
    BY <1>1
  <2>2. PICK longer : n = Len(list) /\ longer = Append(list, row)
    BY <2>1
  <2>3. /\ longer \in Seq(TraceRows) /\ Len(longer) = n + 1 /\ DOMAIN longer = 1 .. n + 1
        /\ \A i \in 1 .. n : longer[i] = list[i]
        /\ longer[n + 1] = row
    BY <1>1, <2>2, AppendedOne
  <2>4. \A i \in DOMAIN longer : longer[i].kind = kind /\ longer[i].n \in 1 .. top + 1
    <3>1. \A i \in DOMAIN longer : i \in 1 .. n \/ i = n + 1
      BY <2>3
    <3> QED
      BY <1>1, <1>2, <1>3, <2>2, <2>3, <3>1
  <2>5. ASSUME NEW i \in DOMAIN longer, NEW j \in DOMAIN longer, i < j PROVE longer[i].n < longer[j].n
    <3>1. i \in 1 .. n /\ (j \in 1 .. n \/ j = n + 1)
      BY <2>3, <2>5
    <3>2. CASE j \in 1 .. n
      BY <1>1, <2>2, <2>3, <2>5, <3>1, <3>2
    <3>3. CASE j = n + 1
      BY <1>1, <1>2, <1>3, <2>2, <2>3, <3>1, <3>3
    <3> QED
      BY <3>1, <3>2, <3>3
  <2> QED
    BY <2>2, <2>3, <2>4, <2>5 DEF Came
<1> QED
  BY <1>1, <1>2, <1>3 DEF Came

LEMMA SplitMore ==
    ASSUME NEW kind, NEW top \in Nat, NEW list, Came(list, kind, top), NEW last \in 0 .. Len(list),
           NEW m \in 0 .. top, Split(list, last, m), NEW row \in TraceRows, row.n = top + 1
    PROVE  Split(Append(list, row), last, m)
<1>1. list \in Seq(TraceRows) /\ DOMAIN list = 1 .. Len(list) /\ Len(list) \in Nat
  BY DEF Came
<1>2. PICK n \in Nat : n = Len(list)
  BY <1>1
<1>3. PICK longer : n = Len(list) /\ longer = Append(list, row)
  BY <1>2
<1>4. /\ DOMAIN longer = 1 .. n + 1 /\ DOMAIN list = 1 .. n
      /\ \A i \in 1 .. n : longer[i] = list[i]
      /\ longer[n + 1] = row
  BY <1>1, <1>3, AppendedOne
<1>5. ~(n + 1 <= last) /\ ~(row.n <= m)
  BY <1>3
<1>6. \A i \in DOMAIN longer : i \in DOMAIN list \/ i = n + 1
  BY <1>4
<1>7. \A i \in DOMAIN longer : i <= last <=> longer[i].n <= m
  BY <1>4, <1>5, <1>6 DEF Split
<1> QED
  BY <1>3, <1>7 DEF Split

\* A ring that went on holds nothing it had lost.
LEMMA NoOlder ==
    ASSUME NEW list \in Seq(TraceRows), NEW ring, EndOf(ring, list), NEW row \in TraceRows,
           NEW next, EndOf(next, Append(list, row)), next.dropped >= ring.dropped
    PROVE  \A r : HoldsRow(next.rows, r) => HoldsRow(ring.rows, r) \/ r = row
<1>1. PICK n \in Nat : n = Len(list)
  OBVIOUS
<1>2. PICK longer : n = Len(list) /\ longer = Append(list, row)
  BY <1>1
<1>3. /\ Len(longer) = n + 1 /\ \A i \in 1 .. n : longer[i] = list[i]
      /\ longer[n + 1] = row
  BY <1>2, AppendedOne
<1>4. /\ ring.rows \in Seq(TraceRows) /\ ring.dropped \in 0 .. n /\ Len(ring.rows) = n - ring.dropped
      /\ \A i \in 1 .. Len(ring.rows) : ring.rows[i] = list[ring.dropped + i]
  BY <1>2 DEF EndOf
<1>5. /\ next.rows \in Seq(TraceRows) /\ next.dropped \in 0 .. n + 1
      /\ Len(next.rows) = n + 1 - next.dropped
      /\ \A i \in 1 .. Len(next.rows) : next.rows[i] = longer[next.dropped + i]
  BY <1>2, <1>3, SMTT(30) DEF EndOf
<1>6. PICK d \in Nat, e \in Nat : d = ring.dropped /\ e = next.dropped
  BY <1>4, <1>5
<1>7. PICK a, b : d = ring.dropped /\ e = next.dropped /\ a = ring.rows /\ b = next.rows
  BY <1>6
<1>8. /\ d \in 0 .. n /\ e \in d .. n + 1
      /\ DOMAIN a = 1 .. n - d /\ \A i \in 1 .. n - d : a[i] = list[d + i]
      /\ DOMAIN b = 1 .. n + 1 - e /\ \A i \in 1 .. n + 1 - e : b[i] = longer[e + i]
  BY <1>4, <1>5, <1>7
<1>9. ASSUME NEW r, NEW k \in DOMAIN b, b[k] = r PROVE HoldsRow(a, r) \/ r = row
  <2>1. PICK p \in 1 .. n + 1 : p = e + k /\ r = longer[p]
    BY <1>8, <1>9, SMTT(30)
  <2>2. CASE p = n + 1
    BY <1>3, <2>1, <2>2
  <2>3. CASE p # n + 1
    <3>1. PICK j \in 1 .. n - d : j = p - d
      BY <1>8, <2>1, <2>3
    <3>2. d + j = p /\ p \in 1 .. n
      BY <2>1, <2>3, <3>1
    <3>3. a[j] = r
      BY <1>3, <1>8, <2>1, <3>2
    <3> QED
      BY <1>8, <3>3 DEF HoldsRow
  <2> QED
    BY <2>2, <2>3
<1> QED
  BY <1>7, <1>9 DEF HoldsRow

\* What the web thread has seen it has seen when more rows come.
LEMMA SeenOn ==
    ASSUME Ringed, Stored, Seen, Settled, Fills, store' = store,
           NEW row \in TraceRows, row.n = run.n + 1, run'.n = run.n + 1,
           run'.can = run.can \/ run'.can = Append(run.can, row),
           run'.fr = run.fr \/ run'.fr = Append(run.fr, row),
           run'.eth = run.eth \/ run'.eth = Append(run.eth, row),
           (~Full)' => ~Full,
           \A r : InRings(r)' => InRings(r) \/ r = row
    PROVE  Seen'
<1>1. /\ run.n \in Nat
      /\ Came(run.can, "can", run.n) /\ Came(run.fr, "fr", run.n) /\ Came(run.eth, "eth", run.n)
      /\ EndOf(can, run.can) /\ EndOf(fr, run.fr) /\ EndOf(eth, run.eth)
  BY DEF Ringed
<1>2. (store.primed /\ store.last_total = 0 /\ store.last_fr = 0 /\ store.last_eth = 0 => store.log = <<>>)'
  BY DEF Seen
<1>3. ASSUME (~Rewound(store))', (~Full)' PROVE (\E m \in 0 .. run.n : SeenUpTo(m))'
  <2>1. store.primed
    BY <1>3 DEF Rewound
  <2>2. ~Rewound(store)
    BY <2>1 DEF Fills
  <2>3. PICK m \in 0 .. run.n : SeenUpTo(m)
    BY <1>3, <2>2 DEF Seen
  <2>4. /\ store.last_total \in 0 .. Len(run.can) /\ store.last_fr \in 0 .. Len(run.fr)
        /\ store.last_eth \in 0 .. Len(run.eth)
    <3>1. store.last_total \in Nat /\ store.last_fr \in Nat /\ store.last_eth \in Nat
      BY DEF Stored, IsStore
    <3>2. ~(Len(can.rows) + can.dropped < store.last_total)
          /\ ~(Len(fr.rows) < store.last_fr) /\ ~(Len(eth.rows) < store.last_eth)
      BY <2>2 DEF Rewound, Total, Held
    <3>3. Len(run.can) \in Nat /\ Len(run.fr) \in Nat /\ Len(run.eth) \in Nat
      BY <1>1 DEF Came
    <3>4. /\ can.dropped \in 0 .. Len(run.can) /\ Len(can.rows) = Len(run.can) - can.dropped
          /\ fr.dropped \in 0 .. Len(run.fr) /\ Len(fr.rows) = Len(run.fr) - fr.dropped
          /\ eth.dropped \in 0 .. Len(run.eth) /\ Len(eth.rows) = Len(run.eth) - eth.dropped
      BY <1>1 DEF EndOf
    <3>5. ASSUME NEW a \in Nat, NEW b, NEW c \in Nat, NEW d \in 0 .. c, b = c - d, ~(b < a)
          PROVE  a \in 0 .. c
      BY <3>5
    <3>6. store.last_total \in 0 .. Len(run.can)
      BY <3>1, <3>2, <3>3, <3>4, SMTT(30)
    <3>7. store.last_fr \in 0 .. Len(run.fr)
      BY ONLY <3>5, <3>1, <3>2, <3>3, <3>4
    <3>8. store.last_eth \in 0 .. Len(run.eth)
      BY ONLY <3>5, <3>1, <3>2, <3>3, <3>4
    <3> QED
      BY <3>6, <3>7, <3>8
  <2>5. Split(run'.can, store.last_total, m)
    <3>1. Split(run.can, store.last_total, m)
      BY <2>3 DEF SeenUpTo
    <3>2. Split(Append(run.can, row), store.last_total, m)
      BY ONLY <1>1, <2>4, <3>1, m \in 0 .. run.n, row \in TraceRows, row.n = run.n + 1, SplitMore
    <3> QED
      BY <3>1, <3>2
  <2>6. Split(run'.fr, store.last_fr, m)
    <3>1. Split(run.fr, store.last_fr, m)
      BY <2>3 DEF SeenUpTo
    <3>2. Split(Append(run.fr, row), store.last_fr, m)
      BY ONLY <1>1, <2>4, <3>1, m \in 0 .. run.n, row \in TraceRows, row.n = run.n + 1, SplitMore
    <3> QED
      BY <3>1, <3>2
  <2>7. Split(run'.eth, store.last_eth, m)
    <3>1. Split(run.eth, store.last_eth, m)
      BY <2>3 DEF SeenUpTo
    <3>2. Split(Append(run.eth, row), store.last_eth, m)
      BY ONLY <1>1, <2>4, <3>1, m \in 0 .. run.n, row \in TraceRows, row.n = run.n + 1, SplitMore
    <3> QED
      BY <3>1, <3>2
  <2>8. ASSUME NEW r, InRings(r)', r.n <= m PROVE ShownIn(r, LogRows(store.log))
    <3>1. r # row
      BY <1>1, <2>3, <2>8
    <3>2. InRings(r)
      BY <2>8, <3>1
    <3>3. r \in ToSet(can.rows) \cup ToSet(fr.rows) \cup ToSet(eth.rows)
      BY <3>2, RingsHeld
    <3> QED
      BY <2>3, <2>8, <3>3 DEF SeenUpTo
  <2>9. \A r : (r \in ToSet(can.rows) \cup ToSet(fr.rows) \cup ToSet(eth.rows) => InRings(r))'
    BY DEF ToSet, InRings, HoldsRow
  <2>10. /\ \A k \in DOMAIN store.log : store.log[k].row.n <= m
         /\ InTime(LogRows(store.log))
    BY <2>3 DEF SeenUpTo
  <2>11. SeenUpTo(m)'
    BY <2>5, <2>6, <2>7, <2>8, <2>9, <2>10 DEF SeenUpTo
  <2>12. m \in 0 .. run'.n
    BY <1>1
  <2> QED
    BY <2>11, <2>12
<1> QED
  BY <1>2, <1>3 DEF Seen


\* The rows a turn of the core brings.
LEMMA RowIs ==
    ASSUME Ringed, NEW kind \in {"can", "fr", "eth"}, NEW bus \in Nat, NEW size \in Nat
    PROVE  LET row == TraceRow(kind, run.n + 1, bus, size) IN
           row \in TraceRows /\ row.n = run.n + 1 /\ row.kind = kind
<1>1. PICK n \in Nat : n = run.n
  BY DEF Ringed
<1>2. (n + 1 + 1) \div 2 \in Nat
  OBVIOUS
<1> QED
  BY <1>1, <1>2 DEF TraceRows, TraceRow

LEMMA CanRowKeeps ==
    ASSUME Ringed, Stored, Seen, Settled, NEW bus \in Channels, CanRow(bus)
    PROVE  Ringed' /\ Seen'
<1>1. PICK row, ring : row = TraceRow("can", run.n + 1, bus, 0) /\ ring = Pushed(can, row)
  OBVIOUS
<1>2. /\ Fills
      /\ can' = Trimmed(ring)
      /\ archive' = Spilled(archive, SubSeq(ring.rows, 1, Held(ring) - Held(Trimmed(ring))))
      /\ run' = [run EXCEPT !.n = @ + 1, !.can = Append(@, row)]
      /\ UNCHANGED <<fr, eth, clears, store>>
  BY <1>1 DEF CanRow
<1>3. row \in TraceRows /\ row.n = run.n + 1 /\ row.kind = "can"
  <2>1. bus \in Nat /\ 0 \in Nat
    BY TraceAssumption DEF TraceAssumption
  <2>2. /\ TraceRow("can", run.n + 1, bus, 0) \in TraceRows
        /\ TraceRow("can", run.n + 1, bus, 0).n = run.n + 1
        /\ TraceRow("can", run.n + 1, bus, 0).kind = "can"
    BY <2>1, RowIs
  <2> QED
    BY <1>1, <2>2
<1>4. /\ run = [n |-> run.n, can |-> run.can, fr |-> run.fr, eth |-> run.eth] /\ run.n \in Nat
      /\ Came(run.can, "can", run.n) /\ Came(run.fr, "fr", run.n) /\ Came(run.eth, "eth", run.n)
      /\ EndOf(can, run.can) /\ EndOf(fr, run.fr) /\ EndOf(eth, run.eth)
      /\ Sealed(eth)
  BY DEF Ringed
<1>5. run' = [n |-> run.n + 1, can |-> Append(run.can, row), fr |-> run.fr, eth |-> run.eth]
  BY <1>2, <1>4
<1>6. /\ run'.n = run.n + 1 /\ run'.can = Append(run.can, row) /\ run'.fr = run.fr /\ run'.eth = run.eth
      /\ run' = [n |-> run'.n, can |-> run'.can, fr |-> run'.fr, eth |-> run'.eth]
  BY <1>5
<1>7. /\ Came(Append(run.can, row), "can", run.n + 1) /\ Came(run.fr, "fr", run.n + 1)
      /\ Came(run.eth, "eth", run.n + 1)
  <2>1. Came(Append(run.can, row), "can", run.n + 1)
    BY ONLY <1>3, <1>4, CameMore
  <2>2. Came(run.fr, "fr", run.n + 1)
    BY ONLY <1>4, CameMore
  <2>3. Came(run.eth, "eth", run.n + 1)
    BY ONLY <1>4, CameMore
  <2> QED
    BY <2>1, <2>2, <2>3
<1>8. run.can \in Seq(TraceRows) /\ Append(run.can, row) \in Seq(TraceRows)
  BY <1>4, <1>7 DEF Came
<1>9. EndOf(ring, Append(run.can, row)) /\ ring.dropped = can.dropped /\ ring.rows = Append(can.rows, row)
  <2>1. /\ EndOf(Pushed(can, row), Append(run.can, row))
        /\ Pushed(can, row).dropped = can.dropped /\ Pushed(can, row).rows = Append(can.rows, row)
    BY ONLY <1>3, <1>4, <1>8, PushedIs
  <2> QED
    BY <1>1, <2>1
<1>10. EndOf(can', Append(run.can, row)) /\ can'.dropped >= can.dropped
  <2>1. EndOf(Trimmed(ring), Append(run.can, row)) /\ Trimmed(ring).dropped >= ring.dropped
    BY ONLY <1>8, <1>9, TraceAssumption, TrimmedKeeps
  <2> QED
    BY <1>2, <1>9, <2>1
<1>11. Archived'
  <2>1. PICK all : all = Append(run.can, row)
    OBVIOUS
  <2>2. PICK full \in Nat : full = Len(all)
    BY <1>8, <2>1
  <2>3. PICK d \in Nat, e \in Nat : d = can.dropped /\ e = can'.dropped
    <3>1. can.dropped \in Nat /\ can'.dropped \in Nat
      <4>1. Len(run.can) \in Nat /\ Len(Append(run.can, row)) \in Nat
        BY <1>8
      <4> QED
        BY <1>4, <1>10, <4>1 DEF EndOf
    <3> QED
      BY <3>1
  <2>4. /\ ring.rows \in Seq(TraceRows) /\ Len(ring.rows) = full - d
        /\ \A i \in 1 .. full - d : ring.rows[i] = all[d + i]
        /\ Len(can'.rows) = full - e /\ e \in d .. full
    <3>1. /\ ring.rows \in Seq(TraceRows) /\ Len(ring.rows) = full - d
          /\ \A i \in 1 .. full - d : ring.rows[i] = all[d + i]
      BY <1>9, <2>1, <2>2, <2>3 DEF EndOf
    <3>2. Len(can'.rows) = full - e /\ e \in 0 .. full /\ e >= d
      BY <1>10, <2>1, <2>2, <2>3 DEF EndOf
    <3> QED
      BY <3>1, <3>2
  <2>5. PICK gone : gone = SubSeq(ring.rows, 1, e - d)
    OBVIOUS
  <2>6. gone \in Seq(TraceRows) /\ Len(gone) = e - d /\ \A i \in 1 .. e - d : gone[i] = all[d + i]
    <3>1. e - d \in 0 .. Len(ring.rows)
      BY <2>4
    <3>2. /\ SubSeq(ring.rows, 1, e - d) \in Seq(TraceRows) /\ Len(SubSeq(ring.rows, 1, e - d)) = e - d
          /\ \A i \in 1 .. e - d : SubSeq(ring.rows, 1, e - d)[i] = ring.rows[i]
      BY ONLY <2>4, <3>1, CutBack
    <3>3. \A i \in 1 .. e - d : ring.rows[i] = all[d + i]
      <4>1. \A i \in 1 .. e - d : i \in 1 .. full - d
        BY <2>4
      <4> QED
        BY <2>4, <4>1
    <3> QED
      BY <2>5, <3>2, <3>3
  <2>7. archive' = Spilled(archive, gone)
    <3>1. Held(ring) = full - d /\ Held(Trimmed(ring)) = full - e
      BY <1>2, <2>4 DEF Held
    <3>2. Held(ring) - Held(Trimmed(ring)) = e - d
      BY <2>4, <3>1
    <3> QED
      BY <1>2, <2>5, <3>2
  <2>8. /\ archive.file \in Seq(TraceRows) /\ archive.at = Len(archive.file)
        /\ archive.frames = Len(archive.file) /\ Len(archive.file) = d
        /\ archive = [open |-> archive.open, file |-> archive.file, at |-> archive.at,
                      frames |-> archive.frames]
        /\ \A i \in 1 .. d : archive.file[i] = run.can[i]
    BY <2>3 DEF Ringed, Archived
  <2>9. /\ archive' = [open |-> archive'.open, file |-> archive'.file, at |-> archive'.at,
                       frames |-> archive'.frames]
        /\ archive'.file \in Seq(TraceRows) /\ Len(archive'.file) = Len(archive.file) + Len(gone)
        /\ archive'.at = Len(archive'.file) /\ archive'.frames = Len(archive'.file)
        /\ \A i \in 1 .. Len(archive.file) : archive'.file[i] = archive.file[i]
        /\ \A i \in 1 .. Len(gone) : archive'.file[Len(archive.file) + i] = gone[i]
    <3>1. PICK b : b = Spilled(archive, gone)
      OBVIOUS
    <3>2. archive.file \in Seq(TraceRows) /\ archive.at = Len(archive.file)
          /\ archive.frames = Len(archive.file) /\ gone \in Seq(TraceRows)
          /\ archive = [open |-> archive.open, file |-> archive.file, at |-> archive.at,
                        frames |-> archive.frames]
      BY ONLY <2>6, <2>8
    <3>3. LET c == Spilled(archive, gone) IN
          /\ c = [open |-> c.open, file |-> c.file, at |-> c.at, frames |-> c.frames]
          /\ c.file \in Seq(TraceRows) /\ Len(c.file) = Len(archive.file) + Len(gone)
          /\ c.at = Len(c.file) /\ c.frames = Len(c.file)
          /\ \A i \in 1 .. Len(archive.file) : c.file[i] = archive.file[i]
          /\ \A i \in 1 .. Len(gone) : c.file[Len(archive.file) + i] = gone[i]
      BY ONLY <3>2, SpilledKeeps, Zenon
    <3>4. /\ b = [open |-> b.open, file |-> b.file, at |-> b.at, frames |-> b.frames]
          /\ b.file \in Seq(TraceRows) /\ Len(b.file) = Len(archive.file) + Len(gone)
          /\ b.at = Len(b.file) /\ b.frames = Len(b.file)
          /\ \A i \in 1 .. Len(archive.file) : b.file[i] = archive.file[i]
          /\ \A i \in 1 .. Len(gone) : b.file[Len(archive.file) + i] = gone[i]
      BY ONLY <3>1, <3>3
    <3> QED
      BY ONLY <2>7, <3>1, <3>4
  <2>10. Len(archive'.file) = e
    <3>1. Len(archive'.file) = d + (e - d)
      BY ONLY <2>6, <2>8, <2>9
    <3> QED
      BY <3>1
  <2>11. ASSUME NEW i \in 1 .. e PROVE archive'.file[i] = all[i]
    <3>1. CASE i <= d
      <4>1. archive'.file[i] = run.can[i]
        BY <2>8, <2>9, <3>1
      <4>2. i \in 1 .. Len(run.can)
        <5>1. d \in 0 .. Len(run.can) /\ Len(run.can) \in Nat
          BY <1>4, <1>8, <2>3 DEF EndOf
        <5> QED
          BY <3>1, <5>1
      <4>3. all[i] = run.can[i]
        BY <1>3, <1>8, <2>1, <4>2, AppendedOne
      <4> QED
        BY <4>1, <4>3
    <3>2. CASE i > d
      <4>1. PICK k \in 1 .. e - d : k = i - d
        BY <3>2
      <4>2. gone[k] = all[d + k] /\ d + k = i
        BY <2>6, <4>1
      <4>3. \A j \in 1 .. e - d : archive'.file[d + j] = gone[j]
        BY ONLY <2>6, <2>8, <2>9
      <4> QED
        BY <4>2, <4>3
    <3> QED
      BY <3>1, <3>2
  <2> QED
    BY <1>6, <2>1, <2>3, <2>9, <2>10, <2>11 DEF Archived
<1>12. Ringed'
  <2>1. fr' = fr /\ eth' = eth /\ run'.n \in Nat
    BY <1>2, <1>4, <1>6
  <2>2. Sealed(eth)'
    BY <1>4, <2>1 DEF Sealed
  <2> QED
    BY <1>4, <1>6, <1>7, <1>10, <1>11, <2>1, <2>2 DEF Ringed
<1>13. \A r : InRings(r)' => InRings(r) \/ r = row
  <2>1. \A r : HoldsRow(can'.rows, r) => HoldsRow(can.rows, r) \/ r = row
    BY ONLY <1>3, <1>4, <1>8, <1>10, NoOlder
  <2> QED
    BY <1>2, <2>1 DEF InRings
<1>14. Seen'
  <2>1. (~Full)' => ~Full
    BY <1>2 DEF Full
  <2>2. store' = store /\ Fills
    BY <1>2
  <2> QED
    BY <1>3, <1>6, <1>13, <2>1, <2>2, SeenOn
<1> QED
  BY <1>12, <1>14


LEMMA FrRowKeeps ==
    ASSUME Ringed, Stored, Seen, Settled, FrRow(1)
    PROVE  Ringed' /\ Seen'
<1>1. PICK row : row = TraceRow("fr", run.n + 1, 1, 0)
  OBVIOUS
<1>2. /\ Fills
      /\ fr' = Trimmed(Pushed(fr, row))
      /\ run' = [run EXCEPT !.n = @ + 1, !.fr = Append(@, row)]
      /\ UNCHANGED <<can, eth, archive, clears, store>>
  BY <1>1 DEF FrRow
<1>3. row \in TraceRows /\ row.n = run.n + 1 /\ row.kind = "fr"
  <2>1. /\ TraceRow("fr", run.n + 1, 1, 0) \in TraceRows
        /\ TraceRow("fr", run.n + 1, 1, 0).n = run.n + 1
        /\ TraceRow("fr", run.n + 1, 1, 0).kind = "fr"
    BY RowIs
  <2> QED
    BY <1>1, <2>1
<1>4. /\ run = [n |-> run.n, can |-> run.can, fr |-> run.fr, eth |-> run.eth] /\ run.n \in Nat
      /\ Came(run.can, "can", run.n) /\ Came(run.fr, "fr", run.n) /\ Came(run.eth, "eth", run.n)
      /\ EndOf(can, run.can) /\ EndOf(fr, run.fr) /\ EndOf(eth, run.eth)
      /\ Sealed(eth)
  BY DEF Ringed
<1>5. run' = [n |-> run.n + 1, can |-> run.can, fr |-> Append(run.fr, row), eth |-> run.eth]
  BY <1>2, <1>4
<1>6. /\ run'.n = run.n + 1 /\ run'.can = run.can /\ run'.fr = Append(run.fr, row) /\ run'.eth = run.eth
      /\ run' = [n |-> run'.n, can |-> run'.can, fr |-> run'.fr, eth |-> run'.eth]
  BY <1>5
<1>7. /\ Came(run.can, "can", run.n + 1) /\ Came(Append(run.fr, row), "fr", run.n + 1)
      /\ Came(run.eth, "eth", run.n + 1)
  <2>1. Came(Append(run.fr, row), "fr", run.n + 1)
    BY ONLY <1>3, <1>4, CameMore
  <2>2. Came(run.can, "can", run.n + 1)
    BY ONLY <1>4, CameMore
  <2>3. Came(run.eth, "eth", run.n + 1)
    BY ONLY <1>4, CameMore
  <2> QED
    BY <2>1, <2>2, <2>3
<1>8. run.fr \in Seq(TraceRows) /\ Append(run.fr, row) \in Seq(TraceRows)
  BY <1>4, <1>7 DEF Came
<1>9. EndOf(fr', Append(run.fr, row)) /\ fr'.dropped >= fr.dropped /\ fr'.dropped \in Nat
      /\ fr.dropped \in Nat
  <2>1. PICK ring : ring = Pushed(fr, row)
    OBVIOUS
  <2>2. EndOf(ring, Append(run.fr, row)) /\ ring.dropped = fr.dropped
    <3>1. /\ EndOf(Pushed(fr, row), Append(run.fr, row)) /\ Pushed(fr, row).dropped = fr.dropped
      BY ONLY <1>3, <1>4, <1>8, PushedIs
    <3> QED
      BY <2>1, <3>1
  <2>3. /\ EndOf(Trimmed(ring), Append(run.fr, row)) /\ Trimmed(ring).dropped >= ring.dropped
        /\ Trimmed(ring).dropped \in Nat
    BY ONLY <1>8, <2>2, TraceAssumption, TrimmedKeeps
  <2>4. fr.dropped \in Nat
    <3>1. fr.dropped \in 0 .. Len(run.fr) /\ Len(run.fr) \in Nat
      BY <1>4, <1>8 DEF EndOf
    <3> QED
      BY <3>1
  <2> QED
    BY <1>2, <2>1, <2>2, <2>3, <2>4
<1>10. Ringed'
  <2>1. can' = can /\ eth' = eth /\ archive' = archive /\ run'.n \in Nat
    BY <1>2, <1>4, <1>6
  <2>2. Sealed(eth)'
    BY <1>4, <2>1 DEF Sealed
  <2>3. Archived'
    BY <1>6, <2>1 DEF Ringed, Archived
  <2> QED
    BY <1>4, <1>6, <1>7, <1>9, <2>1, <2>2, <2>3 DEF Ringed
<1>11. \A r : InRings(r)' => InRings(r) \/ r = row
  <2>1. \A r : HoldsRow(fr'.rows, r) => HoldsRow(fr.rows, r) \/ r = row
    BY ONLY <1>3, <1>4, <1>8, <1>9, NoOlder
  <2> QED
    BY <1>2, <2>1 DEF InRings
<1>12. Seen'
  <2>1. (~Full)' => ~Full
    BY <1>2, <1>9 DEF Full
  <2>2. store' = store /\ Fills
    BY <1>2
  <2> QED
    BY <1>3, <1>6, <1>11, <2>1, <2>2, SeenOn
<1> QED
  BY <1>10, <1>12

LEMMA EthRowKeeps ==
    ASSUME Ringed, Stored, Seen, Settled, NEW size \in Sizes, EthRow(size)
    PROVE  Ringed' /\ Seen'
<1>1. PICK row : row = TraceRow("eth", run.n + 1, 0, size)
  OBVIOUS
<1>2. /\ Fills
      /\ eth' = EthTrimmed(Pushed(eth, row))
      /\ run' = [run EXCEPT !.n = @ + 1, !.eth = Append(@, row)]
      /\ UNCHANGED <<can, fr, archive, clears, store>>
  BY <1>1 DEF EthRow
<1>3. row \in TraceRows /\ row.n = run.n + 1 /\ row.kind = "eth"
  <2>1. size \in Nat
    BY TraceAssumption DEF TraceAssumption
  <2>2. /\ TraceRow("eth", run.n + 1, 0, size) \in TraceRows
        /\ TraceRow("eth", run.n + 1, 0, size).n = run.n + 1
        /\ TraceRow("eth", run.n + 1, 0, size).kind = "eth"
    BY <2>1, RowIs
  <2> QED
    BY <1>1, <2>2
<1>4. /\ run = [n |-> run.n, can |-> run.can, fr |-> run.fr, eth |-> run.eth] /\ run.n \in Nat
      /\ Came(run.can, "can", run.n) /\ Came(run.fr, "fr", run.n) /\ Came(run.eth, "eth", run.n)
      /\ EndOf(can, run.can) /\ EndOf(fr, run.fr) /\ EndOf(eth, run.eth)
      /\ Sealed(eth)
  BY DEF Ringed
<1>5. run' = [n |-> run.n + 1, can |-> run.can, fr |-> run.fr, eth |-> Append(run.eth, row)]
  BY <1>2, <1>4
<1>6. /\ run'.n = run.n + 1 /\ run'.can = run.can /\ run'.fr = run.fr /\ run'.eth = Append(run.eth, row)
      /\ run' = [n |-> run'.n, can |-> run'.can, fr |-> run'.fr, eth |-> run'.eth]
  BY <1>5
<1>7. /\ Came(run.can, "can", run.n + 1) /\ Came(run.fr, "fr", run.n + 1)
      /\ Came(Append(run.eth, row), "eth", run.n + 1)
  <2>1. Came(Append(run.eth, row), "eth", run.n + 1)
    BY ONLY <1>3, <1>4, CameMore
  <2>2. Came(run.can, "can", run.n + 1)
    BY ONLY <1>4, CameMore
  <2>3. Came(run.fr, "fr", run.n + 1)
    BY ONLY <1>4, CameMore
  <2> QED
    BY <2>1, <2>2, <2>3
<1>8. run.eth \in Seq(TraceRows) /\ Append(run.eth, row) \in Seq(TraceRows)
  BY <1>4, <1>7 DEF Came
<1>9. /\ EndOf(eth', Append(run.eth, row)) /\ eth'.dropped >= eth.dropped
      /\ eth'.dropped \in Nat /\ eth.dropped \in Nat /\ Sealed(eth')
  <2>1. PICK ring : ring = Pushed(eth, row)
    OBVIOUS
  <2>2. EndOf(ring, Append(run.eth, row)) /\ ring.dropped = eth.dropped
    <3>1. /\ EndOf(Pushed(eth, row), Append(run.eth, row)) /\ Pushed(eth, row).dropped = eth.dropped
      BY ONLY <1>3, <1>4, <1>8, PushedIs
    <3> QED
      BY <2>1, <3>1
  <2>3. Sealed(ring)
    <3>1. Sealed(Pushed(eth, row))
      BY ONLY <1>3, <1>4, <1>8, PushedSealed
    <3> QED
      BY <2>1, <3>1
  <2>4. /\ EndOf(EthTrimmed(ring), Append(run.eth, row)) /\ Sealed(EthTrimmed(ring))
        /\ EthTrimmed(ring).dropped >= ring.dropped
    BY ONLY <1>8, <2>2, <2>3, TraceAssumption, EthTrimmedKeeps
  <2>5. eth' = EthTrimmed(ring)
    BY <1>2, <2>1
  <2>6. eth.dropped \in Nat /\ eth'.dropped \in Nat
    <3>1. Len(run.eth) \in Nat /\ Len(Append(run.eth, row)) \in Nat
      BY <1>8
    <3>2. eth.dropped \in 0 .. Len(run.eth) /\ eth'.dropped \in 0 .. Len(Append(run.eth, row))
      BY <1>4, <2>4, <2>5 DEF EndOf
    <3> QED
      BY <3>1, <3>2
  <2> QED
    BY <2>2, <2>4, <2>5, <2>6
<1>10. Ringed'
  <2>1. can' = can /\ fr' = fr /\ archive' = archive /\ run'.n \in Nat
    BY <1>2, <1>4, <1>6
  <2>2. Archived'
    BY <1>6, <2>1 DEF Ringed, Archived
  <2> QED
    BY <1>4, <1>6, <1>7, <1>9, <2>1, <2>2 DEF Ringed
<1>11. \A r : InRings(r)' => InRings(r) \/ r = row
  <2>1. \A r : HoldsRow(eth'.rows, r) => HoldsRow(eth.rows, r) \/ r = row
    BY ONLY <1>3, <1>4, <1>8, <1>9, NoOlder
  <2> QED
    BY <1>2, <2>1 DEF InRings
<1>12. Seen'
  <2>1. (~Full)' => ~Full
    BY <1>2, <1>9 DEF Full
  <2>2. store' = store /\ Fills
    BY <1>2
  <2> QED
    BY <1>3, <1>6, <1>11, <2>1, <2>2, SeenOn
<1> QED
  BY <1>10, <1>12

-----------------------------------------------------------------------------
(* The trace is emptied, a bus is removed                                    *)

LEMMA EmptyRinged ==
    /\ \A kind : Came(<<>>, kind, 0)
    /\ EndOf(EmptyRing, <<>>) /\ Sealed(EmptyRing)
<1>1. \A kind : Came(<<>>, kind, 0)
  BY DEF Came
<1>2. EndOf(EmptyRing, <<>>)
  <2>1. <<>> \in Seq(TraceRows) /\ Len(<<>>) = 0
    OBVIOUS
  <2> QED
    BY <2>1 DEF EndOf, EmptyRing
<1>3. Sealed(EmptyRing)
  BY FS_EmptySet DEF Sealed, EmptyRing
<1> QED
  BY <1>1, <1>2, <1>3

LEMMA EmptiedKeeps ==
    ASSUME Ringed, Settled, Emptied
    PROVE  Ringed'
<1>1. /\ archive.at = 0
      /\ can' = EmptyRing /\ fr' = EmptyRing /\ eth' = EmptyRing
      /\ archive' = SpillReset(archive)
      /\ run' = NoRun
  BY DEF Emptied
<1>2. /\ archive = [open |-> archive.open, file |-> archive.file, at |-> archive.at,
                    frames |-> archive.frames]
  BY DEF Ringed, Archived
<1>3. archive' = [open |-> archive.open, file |-> <<>>, at |-> 0, frames |-> 0]
  BY <1>1, <1>2 DEF SpillReset
<1>4. run'.n = 0 /\ run'.can = <<>> /\ run'.fr = <<>> /\ run'.eth = <<>>
      /\ run' = [n |-> run'.n, can |-> run'.can, fr |-> run'.fr, eth |-> run'.eth]
  BY <1>1 DEF NoRun
<1>5. Archived'
  <2>1. can'.dropped = 0 /\ <<>> \in Seq(TraceRows) /\ Len(<<>>) = 0
    BY <1>1 DEF EmptyRing
  <2>2. archive'.file = <<>> /\ archive'.at = 0 /\ archive'.frames = 0
        /\ archive' = [open |-> archive'.open, file |-> archive'.file, at |-> archive'.at,
                       frames |-> archive'.frames]
    BY <1>3
  <2> QED
    BY <2>1, <2>2 DEF Archived
<1>6. EndOf(can', run'.can) /\ EndOf(fr', run'.fr) /\ EndOf(eth', run'.eth) /\ Sealed(eth)'
  BY <1>1, <1>4, EmptyRinged DEF Sealed
<1>7. Came(run'.can, "can", run'.n) /\ Came(run'.fr, "fr", run'.n) /\ Came(run'.eth, "eth", run'.n)
  BY <1>4, EmptyRinged
<1> QED
  BY <1>4, <1>5, <1>6, <1>7 DEF Ringed

LEMMA ClearKeeps ==
    ASSUME Ringed, Stored, Seen, Settled, Clear
    PROVE  Ringed' /\ Seen'
<1>1. Ringed'
  BY EmptiedKeeps DEF Clear
<1>2. store' = store /\ can' = EmptyRing /\ fr' = EmptyRing /\ eth' = EmptyRing /\ run' = NoRun
  BY DEF Clear, Emptied
<1>3. ASSUME (~Rewound(store))' PROVE (SeenUpTo(0))'
  <2>1. store.primed /\ ~(0 < store.last_total) /\ ~(0 < store.last_fr) /\ ~(0 < store.last_eth)
    <3>1. Total(EmptyRing) = 0 /\ Held(EmptyRing) = 0
      BY DEF Total, Held, EmptyRing
    <3>2. /\ store.primed /\ ~(Total(EmptyRing) < store.last_total)
          /\ ~(Held(EmptyRing) < store.last_fr) /\ ~(Held(EmptyRing) < store.last_eth)
      BY <1>2, <1>3 DEF Rewound, Total, Held
    <3> QED
      BY <3>1, <3>2
  <2>2. store.last_total \in Nat /\ store.last_fr \in Nat /\ store.last_eth \in Nat
    BY DEF Stored, IsStore
  <2>3. store.log = <<>>
    BY <2>1, <2>2 DEF Seen
  <2>4. run'.can = <<>> /\ run'.fr = <<>> /\ run'.eth = <<>> /\ can'.rows = <<>> /\ fr'.rows = <<>>
        /\ eth'.rows = <<>>
    BY <1>2 DEF NoRun, EmptyRing
  <2>5. \A last : Split(<<>>, last, 0)
    BY DEF Split
  <2>6. ToSet(<<>>) = {} /\ LogRows(<<>>) = <<>> /\ InTime(<<>>)
    BY DEF ToSet, LogRows, InTime
  <2> QED
    BY <1>2, <2>3, <2>4, <2>5, <2>6 DEF SeenUpTo
<1>4. (0 \in 0 .. run.n)'
  BY <1>2 DEF NoRun
<1>5. (store.primed /\ store.last_total = 0 /\ store.last_fr = 0 /\ store.last_eth = 0 => store.log = <<>>)'
  BY <1>2 DEF Seen
<1>6. (~Rewound(store) /\ ~Full => \E m \in 0 .. run.n : SeenUpTo(m))'
  BY <1>3, <1>4
<1> QED
  BY <1>1, <1>5, <1>6 DEF Seen

\* A log that was forgotten has seen nothing.
LEMMA ForgottenSeen ==
    ASSUME Stored, store' = Forgotten
    PROVE  Stored' /\ Seen'
<1>1. store' = [epoch |-> store.epoch, next_seq |-> 0, log |-> <<>>, last_total |-> 0,
                last_fr |-> 0, last_eth |-> 0, primed |-> FALSE]
  BY DEF Forgotten, FreshStore
<1>2. store.epoch \in Nat
  BY DEF Stored, IsStore
<1>3. Stored'
  BY <1>1, <1>2 DEF Stored, IsStore
<1>4. ~store'.primed
  BY <1>1
<1> QED
  BY <1>3, <1>4 DEF Seen, Rewound

LEMMA RemoveChannelKeeps ==
    ASSUME Ringed, Settled, NEW gone \in 0 .. 1, RemoveChannel(gone)
    PROVE  Ringed'
<1>1. /\ archive.at = 0
      /\ can' = Filtered(can, gone, TRUE)
      /\ run' = [run EXCEPT !.can = RowsWithout(@, gone, TRUE)]
      /\ UNCHANGED <<fr, eth, archive, clears>>
  BY DEF RemoveChannel
<1>2. /\ run = [n |-> run.n, can |-> run.can, fr |-> run.fr, eth |-> run.eth] /\ run.n \in Nat
      /\ Came(run.can, "can", run.n) /\ Came(run.fr, "fr", run.n) /\ Came(run.eth, "eth", run.n)
      /\ EndOf(can, run.can) /\ EndOf(fr, run.fr) /\ EndOf(eth, run.eth)
      /\ Sealed(eth) /\ can.dropped = 0
      /\ archive = [open |-> archive.open, file |-> archive.file, at |-> archive.at,
                    frames |-> archive.frames]
      /\ archive.file \in Seq(TraceRows) /\ Len(archive.file) = 0 /\ archive.frames = 0
  BY <1>1 DEF Ringed, Archived
<1>3. gone \in Nat /\ TRUE \in BOOLEAN
  OBVIOUS
<1>4. PICK left : left = RowsWithout(run.can, gone, TRUE)
  OBVIOUS
<1>5. Came(left, "can", run.n)
  <2>1. Came(RowsWithout(run.can, gone, TRUE), "can", run.n)
    BY ONLY <1>2, <1>3, WithoutCame
  <2> QED
    BY <1>4, <2>1
<1>6. EndOf(can', left) /\ can'.dropped = 0
  <2>1. /\ EndOf(Filtered(can, gone, TRUE), RowsWithout(run.can, gone, TRUE))
        /\ Filtered(can, gone, TRUE).dropped = 0
        /\ Filtered(can, gone, TRUE).rows = RowsWithout(run.can, gone, TRUE)
    <3>1. PICK top \in Nat : top = run.n
      BY <1>2
    <3>2. PICK list, ring : list = run.can /\ ring = can
      OBVIOUS
    <3>3. Came(list, "can", top) /\ EndOf(ring, list) /\ ring.dropped = 0
      BY <1>2, <3>1, <3>2
    <3>4. ASSUME NEW shift \in BOOLEAN
          PROVE  /\ EndOf(Filtered(ring, gone, shift), RowsWithout(list, gone, shift))
                 /\ Filtered(ring, gone, shift).dropped = 0
                 /\ Filtered(ring, gone, shift).rows = RowsWithout(list, gone, shift)
      BY ONLY <1>3, <3>3, top \in Nat, shift \in BOOLEAN, FilteredKeeps
    <3>5. /\ EndOf(Filtered(ring, gone, TRUE), RowsWithout(list, gone, TRUE))
          /\ Filtered(ring, gone, TRUE).dropped = 0
          /\ Filtered(ring, gone, TRUE).rows = RowsWithout(list, gone, TRUE)
      BY ONLY <1>3, <3>4, Zenon
    <3> QED
      BY ONLY <3>2, <3>5, Zenon
  <2> QED
    BY <1>1, <1>4, <2>1
<1>7. run' = [n |-> run.n, can |-> left, fr |-> run.fr, eth |-> run.eth]
  BY <1>1, <1>2, <1>4
<1>8. /\ run'.n = run.n /\ run'.can = left /\ run'.fr = run.fr /\ run'.eth = run.eth
      /\ run' = [n |-> run'.n, can |-> run'.can, fr |-> run'.fr, eth |-> run'.eth]
  BY <1>7
<1>9. Archived'
  <2>1. archive' = archive /\ archive.at = 0 /\ \A i \in 1 .. can'.dropped : archive.file[i] = run'.can[i]
    <3>1. can'.dropped = 0 /\ 1 .. 0 = {}
      BY <1>6
    <3>2. \A i \in 1 .. can'.dropped : FALSE
      BY <3>1
    <3> QED
      BY <1>1, <3>2
  <2> QED
    BY <1>2, <1>6, <2>1 DEF Archived
<1>10. Sealed(eth)'
  BY <1>1, <1>2 DEF Sealed
<1> QED
  BY <1>1, <1>2, <1>5, <1>6, <1>8, <1>9, <1>10 DEF Ringed

LEMMA RemoveFrBusKeeps ==
    ASSUME Ringed, Stored, Seen, Settled, RemoveFrBus(1)
    PROVE  Ringed' /\ Seen'
<1>1. /\ fr.dropped = 0 /\ InStep
      /\ fr' = Filtered(fr, 1, FALSE)
      /\ run' = [run EXCEPT !.fr = RowsWithout(@, 1, FALSE)]
      /\ run' # run
      /\ UNCHANGED <<can, eth, archive, clears, store>>
  BY DEF RemoveFrBus
<1>2. /\ run = [n |-> run.n, can |-> run.can, fr |-> run.fr, eth |-> run.eth] /\ run.n \in Nat
      /\ Came(run.can, "can", run.n) /\ Came(run.fr, "fr", run.n) /\ Came(run.eth, "eth", run.n)
      /\ EndOf(can, run.can) /\ EndOf(fr, run.fr) /\ EndOf(eth, run.eth)
      /\ Sealed(eth) /\ fr.dropped = 0
  BY <1>1 DEF Ringed
<1>3. 1 \in Nat /\ FALSE \in BOOLEAN
  OBVIOUS
<1>4. PICK left : left = RowsWithout(run.fr, 1, FALSE)
  OBVIOUS
<1>5. Came(left, "fr", run.n) /\ Len(left) \in 0 .. Len(run.fr) /\ (Len(left) = Len(run.fr) => left = run.fr)
  <2>1. /\ Came(RowsWithout(run.fr, 1, FALSE), "fr", run.n)
        /\ Len(RowsWithout(run.fr, 1, FALSE)) \in 0 .. Len(run.fr)
        /\ Len(RowsWithout(run.fr, 1, FALSE)) = Len(run.fr) /\ ~FALSE
             => RowsWithout(run.fr, 1, FALSE) = run.fr
    BY ONLY <1>2, <1>3, WithoutCame
  <2> QED
    BY <1>4, <2>1
<1>6. EndOf(fr', left) /\ fr'.rows = left
  <2>1. /\ EndOf(Filtered(fr, 1, FALSE), RowsWithout(run.fr, 1, FALSE))
        /\ Filtered(fr, 1, FALSE).dropped = 0
        /\ Filtered(fr, 1, FALSE).rows = RowsWithout(run.fr, 1, FALSE)
    <3>1. PICK top \in Nat : top = run.n
      BY <1>2
    <3>2. PICK list, ring : list = run.fr /\ ring = fr
      OBVIOUS
    <3>3. Came(list, "fr", top) /\ EndOf(ring, list) /\ ring.dropped = 0
      BY <1>2, <3>1, <3>2
    <3>4. ASSUME NEW shift \in BOOLEAN
          PROVE  /\ EndOf(Filtered(ring, 1, shift), RowsWithout(list, 1, shift))
                 /\ Filtered(ring, 1, shift).dropped = 0
                 /\ Filtered(ring, 1, shift).rows = RowsWithout(list, 1, shift)
      BY ONLY <1>3, <3>3, top \in Nat, shift \in BOOLEAN, FilteredKeeps
    <3>5. /\ EndOf(Filtered(ring, 1, FALSE), RowsWithout(list, 1, FALSE))
          /\ Filtered(ring, 1, FALSE).dropped = 0
          /\ Filtered(ring, 1, FALSE).rows = RowsWithout(list, 1, FALSE)
      BY ONLY <1>3, <3>4, Zenon
    <3> QED
      BY ONLY <3>2, <3>5, Zenon
  <2> QED
    BY <1>1, <1>4, <2>1
<1>7. run' = [n |-> run.n, can |-> run.can, fr |-> left, eth |-> run.eth]
  BY <1>1, <1>2, <1>4
<1>8. /\ run'.n = run.n /\ run'.can = run.can /\ run'.fr = left /\ run'.eth = run.eth
      /\ run' = [n |-> run'.n, can |-> run'.can, fr |-> run'.fr, eth |-> run'.eth]
  BY <1>7
<1>9. Archived'
  BY <1>1, <1>8 DEF Ringed, Archived
<1>10. Sealed(eth)'
  BY <1>1, <1>2 DEF Sealed
<1>11. Ringed'
  BY <1>1, <1>2, <1>5, <1>6, <1>8, <1>9, <1>10 DEF Ringed
<1>12. Rewound(store)'
  <2>1. left # run.fr
    BY <1>1, <1>2, <1>7
  <2>2. Len(run.fr) \in Nat
    BY <1>2 DEF Came
  <2>3. Len(left) < Len(run.fr)
    BY <1>5, <2>1, <2>2
  <2>4. Len(fr.rows) = Len(run.fr)
    BY <1>2, <2>2 DEF EndOf
  <2>5. store'.last_fr = Len(run.fr)
    BY <1>1, <2>4 DEF InStep, Held
  <2> QED
    BY <1>6, <2>3, <2>5 DEF Rewound, Held
<1>13. (store.primed /\ store.last_total = 0 /\ store.last_fr = 0 /\ store.last_eth = 0 => store.log = <<>>)'
  BY <1>1 DEF Seen
<1> QED
  BY <1>11, <1>12, <1>13 DEF Seen


-----------------------------------------------------------------------------
(* The browser polls                                                         *)

\* The rows of an answer, the newest first.
LEMMA SeqsAre ==
    ASSUME Stored, NEW at \in SUBSET DOMAIN store.log
    PROVE  /\ Seqs(at) \in Seq(Nat)
           /\ \A j \in DOMAIN Seqs(at) : \E k \in at : Seqs(at)[j] = store.log[k].seq
           /\ \A i, j \in DOMAIN Seqs(at) : i < j => Seqs(at)[i] > Seqs(at)[j]
<1>1. /\ store.log \in Seq(Entry)
      /\ \A i, j \in DOMAIN store.log : i < j => store.log[i].seq < store.log[j].seq
  BY DEF Stored, IsStore
<1>2. \A k \in DOMAIN store.log : store.log[k].seq \in Nat
  <2>1. \A k \in DOMAIN store.log : store.log[k] \in Entry
    BY <1>1
  <2> QED
    BY <2>1 DEF Entry
<1>3. PICK left : left = Chosen(store.log, at)
  OBVIOUS
<1>4. left \in Seq(Entry)
      /\ \E f : Leads(f, left, at) /\ \A j \in DOMAIN left : left[j] = store.log[f[j]]
  BY <1>1, <1>3, ChosenLeads
<1>5. PICK f : Leads(f, left, at) /\ \A j \in DOMAIN left : left[j] = store.log[f[j]]
  BY <1>4
<1>6. PICK n \in Nat : n = Len(left)
  BY <1>4
<1>7. PICK sent : sent = Reverse(left)
  OBVIOUS
<1>8. DOMAIN left = 1 .. n /\ DOMAIN sent = 1 .. n /\ \A i \in 1 .. n : sent[i] = left[n - i + 1]
  <2>1. /\ Reverse(left) \in Seq(Entry) /\ Len(Reverse(left)) = Len(left)
        /\ \A i \in 1 .. Len(left) : Reverse(left)[i] = left[Len(left) - i + 1]
    BY ONLY <1>4, Reversed
  <2> QED
    BY <1>4, <1>6, <1>7, <2>1
<1>9. Seqs(at) = [j \in 1 .. n |-> sent[j].seq]
  BY <1>3, <1>7, <1>8 DEF Seqs
<1>10. f \in [1 .. n -> at] /\ \A i, j \in 1 .. n : i < j => f[i] < f[j]
  BY <1>5, <1>8 DEF Leads
<1>11. ASSUME NEW j \in 1 .. n
       PROVE  /\ n - j + 1 \in 1 .. n /\ f[n - j + 1] \in at /\ f[n - j + 1] \in DOMAIN store.log
              /\ sent[j].seq = store.log[f[n - j + 1]].seq /\ sent[j].seq \in Nat
  <2>1. n - j + 1 \in 1 .. n
    OBVIOUS
  <2>2. f[n - j + 1] \in at
    BY <1>10, <2>1
  <2>3. sent[j] = store.log[f[n - j + 1]]
    BY <1>5, <1>8, <2>1
  <2> QED
    BY <1>2, <2>1, <2>2, <2>3
<1>12. ASSUME NEW i \in 1 .. n, NEW j \in 1 .. n, i < j PROVE sent[i].seq > sent[j].seq
  <2>1. PICK x \in 1 .. n, y \in 1 .. n : x = n - i + 1 /\ y = n - j + 1 /\ y < x
    BY <1>12
  <2>2. f[y] < f[x] /\ f[x] \in DOMAIN store.log /\ f[y] \in DOMAIN store.log
        /\ sent[i].seq = store.log[f[x]].seq /\ sent[j].seq = store.log[f[y]].seq
    BY <1>10, <1>11, <2>1
  <2>3. sent[j].seq < sent[i].seq
    BY <1>1, <2>2
  <2> QED
    BY <1>11, <2>3
<1>13. Seqs(at) \in Seq(Nat)
  BY <1>9, <1>11
<1>14. DOMAIN Seqs(at) = 1 .. n /\ \A j \in 1 .. n : Seqs(at)[j] = sent[j].seq
  BY <1>9
<1>15. ASSUME NEW j \in 1 .. n PROVE \E k \in at : Seqs(at)[j] = store.log[k].seq
  BY <1>11, <1>14, SMTT(30)
<1> QED
  BY <1>12, <1>13, <1>14, <1>15

\* What a table shows: rows of one log, the newest first, of numbers below the next.
TableRow == [epoch : Int, seq : Nat]
TableOf(list, epoch, next) ==
    /\ list \in Seq(TableRow)
    /\ \A i \in DOMAIN list : list[i].epoch = epoch /\ list[i].seq < next
    /\ \A i, j \in DOMAIN list : i < j => list[i].seq > list[j].seq

LEMMA TaggedIs ==
    ASSUME Stored, NEW at \in SUBSET DOMAIN store.log
    PROVE  /\ TableOf(Tagged(Seqs(at)), store.epoch, store.next_seq)
           /\ \A j \in DOMAIN Tagged(Seqs(at)) : \E k \in at : Tagged(Seqs(at))[j].seq = store.log[k].seq
<1>1. PICK seqs : seqs = Seqs(at)
  OBVIOUS
<1>2. /\ seqs \in Seq(Nat)
      /\ \A j \in DOMAIN seqs : \E k \in at : seqs[j] = store.log[k].seq
      /\ \A i, j \in DOMAIN seqs : i < j => seqs[i] > seqs[j]
  BY <1>1, SeqsAre
<1>3. PICK n \in Nat : n = Len(seqs)
  BY <1>2
<1>4. DOMAIN seqs = 1 .. n /\ \A j \in 1 .. n : seqs[j] \in Nat
  BY <1>2, <1>3
<1>5. store.epoch \in Int /\ \A k \in DOMAIN store.log : store.log[k].seq < store.next_seq
  BY DEF Stored, IsStore
<1>6. PICK shown : shown = Tagged(seqs)
  OBVIOUS
<1>7. shown = [j \in 1 .. n |-> [epoch |-> store.epoch, seq |-> seqs[j]]]
  BY <1>4, <1>6 DEF Tagged
<1>8. DOMAIN shown = 1 .. n /\ \A j \in 1 .. n : shown[j].epoch = store.epoch /\ shown[j].seq = seqs[j]
  BY <1>7
<1>9. shown \in Seq(TableRow)
  <2>1. \A j \in 1 .. n : [epoch |-> store.epoch, seq |-> seqs[j]] \in TableRow
    BY <1>4, <1>5 DEF TableRow
  <2> QED
    BY <1>7, <2>1
<1>10. \A j \in 1 .. n : seqs[j] < store.next_seq
  BY <1>2, <1>4, <1>5
<1> QED
  BY <1>1, <1>2, <1>4, <1>6, <1>8, <1>9, <1>10 DEF TableOf

LEMMA PollKeeps ==
    ASSUME Stored, Followed, PollTrace
    PROVE  Followed'
<1>1. client' = Polled(client) /\ store' = store
  BY DEF PollTrace, traceVars
<1>2. /\ client.epoch \in -1 .. store.epoch /\ client.seq \in Nat
      /\ TableOf(client.rows, client.epoch, client.seq)
  BY DEF Followed, TableOf, TableRow
<1>3. store.epoch \in Nat /\ store.next_seq \in Nat
  BY DEF Stored, IsStore
<1>4. PICK list : list = IF InLog(client) THEN InTable(Tagged(After(client.seq)) \o client.rows)
                         ELSE Tagged(Seed)
  OBVIOUS
<1>5. client' = [epoch |-> store.epoch, seq |-> store.next_seq, rows |-> list]
  BY <1>1, <1>4 DEF Polled
<1>6. TableOf(list, store.epoch, store.next_seq)
  <2>1. CASE ~InLog(client)
    <3>1. TableOf(Tagged(Seqs(DOMAIN store.log)), store.epoch, store.next_seq)
      BY TaggedIs
    <3> QED
      BY <1>4, <2>1, <3>1 DEF Seed
  <2>2. CASE InLog(client)
    <3>1. client.epoch = store.epoch /\ client.seq <= store.next_seq
      BY <2>2 DEF InLog
    <3>2. PICK at : at = {k \in DOMAIN store.log : store.log[k].seq > client.seq}
      OBVIOUS
    <3>3. PICK a, b : a = Tagged(Seqs(at)) /\ b = client.rows
      OBVIOUS
    <3>4. /\ TableOf(a, store.epoch, store.next_seq)
          /\ \A j \in DOMAIN a : a[j].seq > client.seq
      <4>1. at \in SUBSET DOMAIN store.log /\ \A k \in at : store.log[k].seq > client.seq
        BY <3>2
      <4> QED
        BY <3>3, <4>1, TaggedIs
    <3>5. TableOf(b, store.epoch, client.seq)
      BY <1>2, <3>1, <3>3
    <3>6. PICK both : both = a \o b
      OBVIOUS
    <3>7. /\ a \in Seq(TableRow) /\ b \in Seq(TableRow)
      BY <3>4, <3>5 DEF TableOf
    <3>8. PICK n \in Nat, m \in Nat : n = Len(a) /\ m = Len(b)
      BY <3>7
    <3>9. /\ both \in Seq(TableRow) /\ Len(both) = n + m /\ DOMAIN both = 1 .. n + m
          /\ DOMAIN a = 1 .. n /\ DOMAIN b = 1 .. m
          /\ \A i \in 1 .. n : both[i] = a[i]
          /\ \A i \in 1 .. m : both[n + i] = b[i]
      <4>1. /\ a \o b \in Seq(TableRow)
            /\ Len(a) \in Nat /\ Len(b) \in Nat /\ Len(a \o b) = Len(a) + Len(b)
            /\ \A i \in 1 .. Len(a) : (a \o b)[i] = a[i]
            /\ \A i \in 1 .. Len(b) : (a \o b)[Len(a) + i] = b[i]
        BY ONLY <3>7, JoinedParts
      <4>2. /\ both \in Seq(TableRow) /\ Len(both) = n + m
            /\ \A i \in 1 .. n : both[i] = a[i]
            /\ \A i \in 1 .. m : both[n + i] = b[i]
        BY ONLY <3>6, <3>8, <4>1
      <4> QED
        BY <3>7, <3>8, <4>2
    <3>10. ASSUME NEW i \in 1 .. n + m
           PROVE  \/ i <= n /\ i \in DOMAIN a /\ both[i] = a[i]
                  \/ i > n /\ i - n \in DOMAIN b /\ both[i] = b[i - n]
      <4>1. CASE i <= n
        BY <3>9, <4>1
      <4>2. CASE i > n
        <5>1. PICK k \in 1 .. m : k = i - n
          BY <4>2
        <5>2. n + k = i
          BY <5>1
        <5> QED
          BY <3>9, <4>2, <5>1, <5>2
      <4> QED
        BY <4>1, <4>2
    <3>11. /\ \A i \in DOMAIN a : a[i].epoch = store.epoch /\ a[i].seq < store.next_seq
                                  /\ a[i].seq \in Nat /\ a[i].seq > client.seq
           /\ \A i \in DOMAIN b : b[i].epoch = store.epoch /\ b[i].seq < client.seq /\ b[i].seq \in Nat
      <4>1. \A i \in DOMAIN a : a[i] \in TableRow
        BY <3>7
      <4>2. \A i \in DOMAIN b : b[i] \in TableRow
        BY <3>7
      <4> QED
        BY <3>4, <3>5, <4>1, <4>2 DEF TableOf, TableRow
    <3>12. ASSUME NEW i \in DOMAIN both PROVE both[i].epoch = store.epoch /\ both[i].seq < store.next_seq
      <4>1. CASE i <= n /\ i \in DOMAIN a /\ both[i] = a[i]
        BY <3>11, <4>1
      <4>2. CASE i > n /\ i - n \in DOMAIN b /\ both[i] = b[i - n]
        <5>1. PICK x \in Nat : x = b[i - n].seq /\ x < client.seq
          BY <3>11, <4>2
        <5> QED
          BY <1>2, <1>3, <3>1, <3>11, <4>2, <5>1
      <4> QED
        BY <3>9, <3>10, <4>1, <4>2
    <3>13. ASSUME NEW i \in DOMAIN both, NEW j \in DOMAIN both, i < j PROVE both[i].seq > both[j].seq
      <4>1. CASE j <= n
        <5>1. i \in DOMAIN a /\ j \in DOMAIN a /\ both[i] = a[i] /\ both[j] = a[j]
          BY <3>9, <3>10, <3>13, <4>1
        <5> QED
          BY <3>4, <3>13, <5>1 DEF TableOf
      <4>2. CASE i <= n /\ j > n
        <5>1. i \in DOMAIN a /\ j - n \in DOMAIN b /\ both[i] = a[i] /\ both[j] = b[j - n]
          BY <3>9, <3>10, <4>2
        <5>2. PICK x \in Nat, y \in Nat : x = both[i].seq /\ y = both[j].seq /\ x > client.seq /\ y < client.seq
          BY <3>11, <5>1
        <5> QED
          BY <1>2, <5>2
      <4>3. CASE i > n
        <5>1. PICK p \in DOMAIN b, q \in DOMAIN b : both[i] = b[p] /\ both[j] = b[q] /\ p = i - n /\ q = j - n
          BY <3>9, <3>10, <3>13, <4>3
        <5>2. p < q
          BY <3>9, <3>13, <5>1
        <5> QED
          BY <3>5, <5>1, <5>2 DEF TableOf
      <4> QED
        BY <3>9, <4>1, <4>2, <4>3
    <3>14. list = InTable(both)
      BY <1>4, <2>2, <3>2, <3>3, <3>6 DEF After
    <3>15. CASE Len(both) <= LogCap
      <4>1. list = both
        BY <3>14, <3>15 DEF InTable
      <4> QED
        BY <3>9, <3>12, <3>13, <4>1 DEF TableOf
    <3>16. CASE ~(Len(both) <= LogCap)
      <4>1. list = SubSeq(both, 1, LogCap)
        BY <3>14, <3>16 DEF InTable
      <4>2. LogCap \in 0 .. Len(both)
        <5>1. LogCap \in Nat
          BY TraceAssumption DEF TraceAssumption
        <5> QED
          BY <3>9, <3>16, <5>1
      <4>3. /\ SubSeq(both, 1, LogCap) \in Seq(TableRow) /\ Len(SubSeq(both, 1, LogCap)) = LogCap
            /\ \A i \in 1 .. LogCap : SubSeq(both, 1, LogCap)[i] = both[i]
        BY ONLY <3>9, <4>2, CutBack
      <4>4. list \in Seq(TableRow) /\ \A i \in DOMAIN list : i \in DOMAIN both /\ list[i] = both[i]
        <5>1. DOMAIN list = 1 .. LogCap
          BY <4>1, <4>3
        <5>2. \A i \in 1 .. LogCap : i \in DOMAIN both
          BY <3>9, <4>2
        <5> QED
          BY <4>1, <4>3, <5>1, <5>2
      <4> QED
        BY <3>12, <3>13, <4>4 DEF TableOf
    <3> QED
      BY <3>15, <3>16
  <2> QED
    BY <2>1, <2>2
<1>7. client'.epoch = store.epoch /\ client'.seq = store.next_seq /\ client'.rows = list
  BY <1>5
<1>8. store.epoch \in -1 .. store.epoch
  BY <1>3
<1> QED
  BY <1>1, <1>3, <1>6, <1>7, <1>8 DEF Followed, TableOf, TableRow


\* The table is followed as long as the client and its log stay.
LEMMA FollowedOn ==
    ASSUME Followed, Stored, client' = client, store'.epoch \in Nat, store'.epoch >= store.epoch
    PROVE  Followed'
<1>1. client.epoch \in -1 .. store'.epoch
  <2>1. client.epoch \in -1 .. store.epoch /\ store.epoch \in Nat
    BY DEF Followed, Stored, IsStore
  <2> QED
    BY <2>1
<1> QED
  BY <1>1 DEF Followed

LEMMA TraceStarts ==
    ASSUME FeedInit
    PROVE  FeedInv
<1>1. /\ can = EmptyRing /\ fr = EmptyRing /\ eth = EmptyRing /\ archive = NoArchive
      /\ run = NoRun /\ store = FreshStore /\ client = [epoch |-> -1, seq |-> 0, rows |-> <<>>]
  BY DEF FeedInit, TraceInit, NoEpoch
<1>2. run.n = 0 /\ run.can = <<>> /\ run.fr = <<>> /\ run.eth = <<>>
      /\ run = [n |-> run.n, can |-> run.can, fr |-> run.fr, eth |-> run.eth]
  BY <1>1 DEF NoRun
<1>3. Archived
  <2>1. can.dropped = 0 /\ <<>> \in Seq(TraceRows) /\ Len(<<>>) = 0
    BY <1>1 DEF EmptyRing
  <2>2. archive.file = <<>> /\ archive.at = 0 /\ archive.frames = 0
        /\ archive = [open |-> archive.open, file |-> archive.file, at |-> archive.at,
                      frames |-> archive.frames]
    BY <1>1 DEF NoArchive
  <2> QED
    BY <2>1, <2>2 DEF Archived
<1>4. Ringed
  BY <1>1, <1>2, <1>3, EmptyRinged DEF Ringed
<1>5. Stored
  BY <1>1 DEF Stored, IsStore, FreshStore
<1>6. Seen
  BY <1>1 DEF Seen, FreshStore, Rewound
<1>7. Followed
  BY <1>1 DEF Followed, FreshStore
<1> QED
  BY <1>4, <1>5, <1>6, <1>7 DEF FeedInv

LEMMA TraceGoesOn ==
    ASSUME FeedInv, Settled, [FeedNext]_feedVars
    PROVE  FeedInv'
<1>1. Ringed /\ Stored /\ Seen /\ Followed
  BY DEF FeedInv
<1>2. store.epoch \in Nat
  BY <1>1 DEF Stored, IsStore
<1>3. ASSUME Ringed', Seen', store' = store, client' = client PROVE FeedInv'
  <2>1. Stored'
    BY <1>1, <1>3 DEF Stored
  <2>2. Followed'
    BY <1>1, <1>2, <1>3, FollowedOn
  <2> QED
    BY <1>3, <2>1, <2>2 DEF FeedInv
<1>4. CASE TraceNext /\ UNCHANGED client
  <2>1. CASE \E bus \in Channels : CanRow(bus)
    <3>1. PICK bus \in Channels : CanRow(bus)
      BY <2>1
    <3>2. store' = store
      BY <3>1 DEF CanRow
    <3>3. Ringed' /\ Seen'
      BY <1>1, <3>1, CanRowKeeps
    <3> QED
      BY <1>3, <1>4, <3>2, <3>3
  <2>2. CASE FrRow(1)
    <3>1. store' = store
      BY <2>2 DEF FrRow
    <3>2. Ringed' /\ Seen'
      BY <1>1, <2>2, FrRowKeeps
    <3> QED
      BY <1>3, <1>4, <3>1, <3>2
  <2>3. CASE \E size \in Sizes : EthRow(size)
    <3>1. PICK size \in Sizes : EthRow(size)
      BY <2>3
    <3>2. store' = store
      BY <3>1 DEF EthRow
    <3>3. Ringed' /\ Seen'
      BY <1>1, <3>1, EthRowKeeps
    <3> QED
      BY <1>3, <1>4, <3>2, <3>3
  <2>4. CASE Clear
    <3>1. store' = store
      BY <2>4 DEF Clear
    <3>2. Ringed' /\ Seen'
      BY <1>1, <2>4, ClearKeeps
    <3> QED
      BY <1>3, <1>4, <3>1, <3>2
  <2>5. ASSUME Ringed', store' = Forgotten PROVE FeedInv'
    <3>1. Stored' /\ Seen'
      BY <1>1, <2>5, ForgottenSeen
    <3>2. store'.epoch = store.epoch
      BY <2>5 DEF Forgotten, FreshStore
    <3>3. Followed'
      BY <1>1, <1>2, <1>4, <3>2, FollowedOn
    <3> QED
      BY <2>5, <3>1, <3>3 DEF FeedInv
  <2>6. CASE OpenProjectTrace
    <3>1. Ringed'
      BY <1>1, <2>6, EmptiedKeeps DEF OpenProjectTrace
    <3>2. store' = Forgotten
      BY <2>6 DEF OpenProjectTrace
    <3> QED
      BY <2>5, <3>1, <3>2
  <2>7. CASE \E gone \in 0 .. 1 : RemoveChannel(gone)
    <3>1. PICK gone \in 0 .. 1 : RemoveChannel(gone)
      BY <2>7
    <3>2. Ringed'
      BY <1>1, <3>1, RemoveChannelKeeps
    <3>3. store' = Forgotten
      BY <3>1 DEF RemoveChannel
    <3> QED
      BY <2>5, <3>2, <3>3
  <2>8. CASE RemoveFrBus(1)
    <3>1. store' = store
      BY <2>8 DEF RemoveFrBus
    <3>2. Ringed' /\ Seen'
      BY <1>1, <2>8, RemoveFrBusKeeps
    <3> QED
      BY <1>3, <1>4, <3>1, <3>2
  <2>9. CASE Sync
    <3>1. LogCap \in Nat \ {0}
      BY TraceAssumption DEF TraceAssumption
    <3>2. Stored' /\ Seen' /\ Ringed' /\ store'.epoch >= store.epoch
      BY <1>1, <2>9, <3>1, SyncKeeps
    <3>3. store'.epoch \in Nat
      BY <3>2 DEF Stored, IsStore
    <3>4. Followed'
      BY <1>1, <1>4, <3>2, <3>3, FollowedOn
    <3> QED
      BY <3>2, <3>4 DEF FeedInv
  <2> QED
    BY <1>4, <2>1, <2>2, <2>3, <2>4, <2>6, <2>7, <2>8, <2>9 DEF TraceNext
<1>5. CASE PollTrace
  <2>1. UNCHANGED <<can, fr, eth, archive, run, clears, store>>
    BY <1>5 DEF PollTrace, traceVars
  <2>2. Ringed' /\ Stored' /\ Seen'
    BY <1>1, <2>1 DEF Ringed, Archived, Sealed, Stored, Seen, Rewound, Full, SeenUpTo
  <2>3. Followed'
    BY <1>1, <1>5, PollKeeps
  <2> QED
    BY <2>2, <2>3 DEF FeedInv
<1>6. CASE UNCHANGED feedVars
  <2>1. UNCHANGED <<can, fr, eth, archive, run, clears, store, client>>
    BY <1>6 DEF feedVars, traceVars
  <2> QED
    BY <1>1, <2>1 DEF FeedInv, Ringed, Archived, Sealed, Stored, Seen, Rewound, Full, SeenUpTo, Followed
<1> QED
  BY <1>4, <1>5, <1>6 DEF FeedNext

\* A ring holds the newest rows.
LEMMA NewestHeld ==
    ASSUME NEW list \in Seq(TraceRows), NEW ring, EndOf(ring, list)
    PROVE  Newest(ring, list)
<1>1. /\ ring.rows \in Seq(TraceRows) /\ ring.dropped \in 0 .. Len(list)
      /\ Len(ring.rows) = Len(list) - ring.dropped
      /\ \A i \in 1 .. Len(ring.rows) : ring.rows[i] = list[ring.dropped + i]
  BY DEF EndOf
<1>2. PICK n \in Nat, d \in Nat, all \in Nat : n = Len(ring.rows) /\ d = ring.dropped /\ all = Len(list)
  BY <1>1
<1>3. n = all - d /\ n \in 0 .. Len(list) /\ all - n = d
  BY <1>1, <1>2
<1>4. /\ LastN(list, n) \in Seq(TraceRows) /\ Len(LastN(list, n)) = n
      /\ \A i \in 1 .. n : LastN(list, n)[i] = list[Len(list) - n + i]
  BY ONLY <1>3, list \in Seq(TraceRows), LastOnes
<1>5. \A i \in 1 .. n : ring.rows[i] = LastN(list, n)[i]
  BY <1>1, <1>2, <1>3, <1>4
<1>6. ring.rows = LastN(list, n)
  BY <1>1, <1>2, <1>4, <1>5, SameSeq
<1>7. n + d = all
  BY <1>3
<1> QED
  BY <1>2, <1>6, <1>7 DEF Newest, Total, Held

LEMMA InvKeepsRun ==
    ASSUME Ringed
    PROVE  RunKept
<1>1. /\ Came(run.can, "can", run.n) /\ Came(run.fr, "fr", run.n) /\ Came(run.eth, "eth", run.n)
      /\ EndOf(can, run.can) /\ EndOf(fr, run.fr) /\ EndOf(eth, run.eth)
      /\ archive.file \in Seq(TraceRows) /\ Len(archive.file) = can.dropped /\ archive.frames = can.dropped
      /\ \A i \in 1 .. can.dropped : archive.file[i] = run.can[i]
  BY DEF Ringed, Archived
<1>2. run.can \in Seq(TraceRows) /\ run.fr \in Seq(TraceRows) /\ run.eth \in Seq(TraceRows)
  BY <1>1 DEF Came
<1>3. Newest(can, run.can) /\ Newest(fr, run.fr) /\ Newest(eth, run.eth)
  BY <1>1, <1>2, NewestHeld
<1>4. /\ can.rows \in Seq(TraceRows) /\ can.dropped \in 0 .. Len(run.can)
      /\ Len(can.rows) = Len(run.can) - can.dropped
      /\ \A i \in 1 .. Len(can.rows) : can.rows[i] = run.can[can.dropped + i]
  BY <1>1 DEF EndOf
<1>5. PICK d \in Nat, all \in Nat : d = can.dropped /\ all = Len(run.can)
  BY <1>2, <1>4
<1>6. PICK both : both = archive.file \o can.rows
  OBVIOUS
<1>7. /\ both \in Seq(TraceRows) /\ Len(both) = all
      /\ \A i \in 1 .. d : both[i] = archive.file[i]
      /\ \A i \in 1 .. all - d : both[d + i] = can.rows[i]
  <2>1. PICK a \in Seq(TraceRows), b \in Seq(TraceRows) : a = archive.file /\ b = can.rows
    BY <1>1, <1>4
  <2>2. /\ a \o b \in Seq(TraceRows)
        /\ Len(a) \in Nat /\ Len(b) \in Nat /\ Len(a \o b) = Len(a) + Len(b)
        /\ \A i \in 1 .. Len(a) : (a \o b)[i] = a[i]
        /\ \A i \in 1 .. Len(b) : (a \o b)[Len(a) + i] = b[i]
    BY ONLY JoinedParts, a \in Seq(TraceRows), b \in Seq(TraceRows)
  <2>3. Len(a) = d /\ Len(b) = all - d /\ d + (all - d) = all
    BY <1>1, <1>4, <1>5, <2>1
  <2> QED
    BY <1>6, <2>1, <2>2, <2>3
<1>8. ASSUME NEW i \in 1 .. all PROVE both[i] = run.can[i]
  <2>1. CASE i <= d
    BY <1>1, <1>5, <1>7, <2>1
  <2>2. CASE i > d
    <3>1. PICK k \in 1 .. all - d : k = i - d
      BY <2>2
    <3>2. both[d + k] = can.rows[k]
      BY <1>7, <3>1
    <3>3. k \in 1 .. Len(can.rows)
      BY <1>4, <1>5, <3>1
    <3>4. can.rows[k] = run.can[d + k]
      BY ONLY <1>4, <1>5, <3>3
    <3>5. d + k = i
      BY ONLY <1>5, <3>1, d \in Nat, i \in 1 .. all, all \in Nat
    <3> QED
      BY ONLY <3>2, <3>4, <3>5
  <2> QED
    BY <2>1, <2>2
<1>9. both = run.can
  BY <1>2, <1>5, <1>7, <1>8, SameSeq
<1> QED
  BY <1>1, <1>3, <1>6, <1>9 DEF RunKept

LEMMA InvShowsRings ==
    ASSUME Ringed, Stored, Seen
    PROVE  LogShowsRings
<1> SUFFICES ASSUME InStep, fr.dropped = 0, eth.dropped = 0 PROVE LogIsRings
  BY DEF LogShowsRings
<1>1. /\ run.n \in Nat
      /\ Came(run.can, "can", run.n) /\ Came(run.fr, "fr", run.n) /\ Came(run.eth, "eth", run.n)
      /\ EndOf(can, run.can) /\ EndOf(fr, run.fr) /\ EndOf(eth, run.eth)
  BY DEF Ringed
<1>2. store.primed /\ store.last_total = Total(can) /\ store.last_fr = Held(fr) /\ store.last_eth = Held(eth)
  BY DEF InStep
<1>3. /\ can.dropped \in 0 .. Len(run.can) /\ Len(can.rows) = Len(run.can) - can.dropped
      /\ Len(fr.rows) = Len(run.fr) - 0 /\ Len(eth.rows) = Len(run.eth) - 0
      /\ Len(run.can) \in Nat /\ Len(run.fr) \in Nat /\ Len(run.eth) \in Nat
  BY <1>1, LenProperties DEF EndOf, Came
<1>4. Total(can) = Len(run.can) /\ Held(fr) = Len(run.fr) /\ Held(eth) = Len(run.eth)
  BY <1>3 DEF Total, Held
<1>5. ~Rewound(store)
  BY <1>2, <1>3, <1>4 DEF Rewound
<1>6. PICK m \in 0 .. run.n : SeenUpTo(m)
  BY <1>5 DEF Seen, Full
<1>7. ASSUME NEW list, NEW kind, NEW ring, Came(list, kind, run.n), EndOf(ring, list),
             Split(list, Len(list), m), NEW row, HoldsRow(ring.rows, row)
      PROVE  row.n <= m
  <2>1. /\ list \in Seq(TraceRows) /\ ring.dropped \in 0 .. Len(list)
        /\ Len(ring.rows) = Len(list) - ring.dropped /\ ring.rows \in Seq(TraceRows)
        /\ \A i \in 1 .. Len(ring.rows) : ring.rows[i] = list[ring.dropped + i]
    BY <1>7 DEF Came, EndOf
  <2>2. PICK n \in Nat, d \in Nat, all \in Nat : n = Len(ring.rows) /\ d = ring.dropped /\ all = Len(list)
    BY <2>1
  <2>3. PICK k \in 1 .. n : ring.rows[k] = row
    BY <1>7, <2>1, <2>2 DEF HoldsRow
  <2>4. PICK p \in 1 .. all : p = d + k
    BY <2>1, <2>2
  <2>5. row = list[p] /\ p \in DOMAIN list /\ p <= Len(list)
    BY <2>1, <2>2, <2>3, <2>4
  <2> QED
    BY <1>7, <2>5 DEF Split
<1>8. /\ Split(run.can, Len(run.can), m) /\ Split(run.fr, Len(run.fr), m)
      /\ Split(run.eth, Len(run.eth), m)
  BY <1>2, <1>4, <1>6 DEF SeenUpTo
<1>9. ASSUME NEW row, InRings(row) PROVE ShownIn(row, LogRows(store.log))
  <2>1. row.n <= m
    <3>1. CASE HoldsRow(can.rows, row)
      BY <1>1, <1>7, <1>8, <3>1
    <3>2. CASE HoldsRow(fr.rows, row)
      BY <1>1, <1>7, <1>8, <3>2
    <3>3. CASE HoldsRow(eth.rows, row)
      BY <1>1, <1>7, <1>8, <3>3
    <3> QED
      BY <1>9, <3>1, <3>2, <3>3 DEF InRings
  <2>2. row \in ToSet(can.rows) \cup ToSet(fr.rows) \cup ToSet(eth.rows)
    BY <1>9, RingsHeld
  <2> QED
    BY <1>6, <2>1, <2>2 DEF SeenUpTo
<1>10. PICK list : list = LogRows(store.log)
  OBVIOUS
<1>11. /\ list \in Seq(TraceRows) /\ DOMAIN list = DOMAIN store.log
       /\ \A k \in DOMAIN store.log : list[k] = store.log[k].row
       /\ store.log \in Seq(Entry)
  BY <1>10, LogShown DEF Stored, IsStore
<1>12. Len(list) = Len(store.log)
  BY <1>11
<1>13. ASSUME NEW row \in ToSet(can.rows) \cup ToSet(fr.rows) \cup ToSet(eth.rows)
       PROVE  row \in Logged \/ (Len(store.log) = LogCap /\ \A r \in Logged : r.t >= row.t)
  <2>1. ShownIn(row, list)
    BY <1>9, <1>10, RingsHeld
  <2>2. CASE HoldsRow(list, row)
    BY <1>11, <2>2 DEF HoldsRow, Logged
  <2>3. CASE Len(list) = LogCap /\ \A k \in DOMAIN list : list[k].t >= row.t
    BY <1>11, <1>12, <2>3 DEF Logged
  <2> QED
    BY <2>1, <2>2, <2>3 DEF ShownIn
<1>14. \A i, j \in DOMAIN store.log :
         i < j => store.log[i].row # store.log[j].row /\ store.log[i].row.t <= store.log[j].row.t
  <2>1. InTime(list)
    BY <1>6, <1>10 DEF SeenUpTo
  <2> QED
    BY <1>11, <2>1 DEF InTime
<1> QED
  BY <1>13, <1>14 DEF LogIsRings

\* Over any order of rows, clears, removed buses, opened projects, looks of the
\* web thread and polls, the archive and the rings are the whole run, the log
\* shows the rings and the browser shows each row once (TraceHonest), as long as
\* the trace is cleared before the archive is written and the web thread has
\* looked at a ring before it fills again.
THEOREM TraceIsHonest == Settled /\ FeedSpec => []TraceHonest
<1> SUFFICES ASSUME Settled PROVE FeedSpec => []TraceHonest
  OBVIOUS
<1>1. FeedInit => FeedInv
  BY TraceStarts
<1>2. FeedInv /\ [FeedNext]_feedVars => FeedInv'
  BY TraceGoesOn
<1>3. FeedInv => TraceHonest
  <2> SUFFICES ASSUME FeedInv PROVE TraceHonest
    OBVIOUS
  <2>1. RunKept /\ LogShowsRings
    BY InvKeepsRun, InvShowsRings DEF FeedInv
  <2>2. FeedOnce
    BY DEF FeedInv, Followed, FeedOnce
  <2> QED
    BY <2>1, <2>2 DEF TraceHonest
<1> QED
  BY <1>1, <1>2, <1>3, PTL DEF FeedSpec
=============================================================================
