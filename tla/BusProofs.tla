----------------------------- MODULE BusProofs -----------------------------
(***************************************************************************)
(* Buses come and go by name: what hangs on a bus goes with it, everything *)
(* else stays where it was, windows follow once they have read what the    *)
(* core did, and a project opens as it was saved -- for any number of      *)
(* buses, attached things and commands on the way. A wire that refuses is  *)
(* told of once, for any ports on any buses.                               *)
(***************************************************************************)
EXTENDS ProjectFile, Wires, FiniteSetTheorems, SequenceTheorems, TLAPS

-----------------------------------------------------------------------------
(* Lists with one element less, and numbers given out in order.            *)

\* Removing the i-th element moves the later ones down by one.
LEMMA RemoveAtIs ==
    ASSUME NEW S, NEW s \in Seq(S), NEW i \in 1 .. Len(s)
    PROVE  LET r == RemoveAt(s, i)
           IN  /\ r \in Seq(S) /\ Len(r) = Len(s) - 1
               /\ \A j \in 1 .. Len(s) - 1 : r[j] = IF j < i THEN s[j] ELSE s[j + 1]
<1> DEFINE a == SubSeq(s, 1, i - 1)
           b == SubSeq(s, i + 1, Len(s))
           r == a \o b
<1>1. Len(s) \in Nat
  OBVIOUS
<1>2. a \in Seq(S) /\ Len(a) = i - 1 /\ \A j \in 1 .. i - 1 : a[j] = s[j]
  BY <1>1
<1>3. /\ b \in Seq(S) /\ Len(b) = Len(s) - i
      /\ \A j \in 1 .. Len(s) - i : b[j] = s[i + j]
  BY <1>1
<1> HIDE DEF a, b
<1>4. r \in Seq(S) /\ Len(r) = Len(s) - 1
  <2>1. r \in Seq(S) /\ Len(r) = Len(a) + Len(b)
    BY <1>2, <1>3, ConcatProperties
  <2> QED
    BY <1>1, <1>2, <1>3, <2>1
<1>5. \A j \in 1 .. Len(s) - 1 : r[j] = IF j < i THEN s[j] ELSE s[j + 1]
  <2> SUFFICES ASSUME NEW j \in 1 .. Len(s) - 1
               PROVE  r[j] = IF j < i THEN s[j] ELSE s[j + 1]
    OBVIOUS
  <2>1. CASE j < i
    BY <1>1, <1>2, <1>3, <2>1
  <2>2. CASE ~(j < i)
    <3>1. j - (i - 1) \in 1 .. Len(s) - i /\ i + (j - (i - 1)) = j + 1
      BY <1>1, <2>2
    <3>2. r[j] = b[j - (i - 1)]
      BY <1>1, <1>2, <1>3, <2>2
    <3> QED
      BY <1>3, <2>2, <3>1, <3>2
  <2> QED
    BY <2>1, <2>2
<1> QED
  BY <1>4, <1>5 DEF RemoveAt, a, b

Rank(fresh, b) == Cardinality({c \in fresh : c < b})

\* The buses described for the first time are numbered from 0 up, each once.
LEMMA RankIs ==
    ASSUME NEW fresh, fresh \subseteq Nat, IsFiniteSet(fresh)
    PROVE  /\ Cardinality(fresh) \in Nat
           /\ \A b \in fresh : Rank(fresh, b) \in Nat /\ Rank(fresh, b) < Cardinality(fresh)
           /\ \A b, c \in fresh : b < c => Rank(fresh, b) < Rank(fresh, c)
<1> DEFINE Below(b) == {c \in fresh : c < b}
<1>1. \A b \in fresh : /\ IsFiniteSet(Below(b)) /\ Cardinality(Below(b)) \in Nat
                       /\ b \notin Below(b)
                       /\ IsFiniteSet(Below(b) \cup {b})
                       /\ Cardinality(Below(b) \cup {b}) = Cardinality(Below(b)) + 1
  <2> TAKE b \in fresh
  <2>1. Below(b) \subseteq fresh /\ b \notin Below(b)
    <3>1. b \in Nat /\ ~(b < b)
      OBVIOUS
    <3> QED
      BY <3>1
  <2> HIDE DEF Below
  <2>2. IsFiniteSet(Below(b))
    BY <2>1, FS_Subset
  <2> QED
    BY <2>1, <2>2, FS_AddElement, FS_CardinalityType
<1>2. \A b \in fresh : Below(b) \cup {b} \subseteq fresh
  BY Zenon
<1>3. \A b, c \in fresh : b < c => Below(b) \cup {b} \subseteq Below(c)
  <2> TAKE b, c \in fresh
  <2> HAVE b < c
  <2>1. ASSUME NEW x \in Below(b) \cup {b} PROVE x \in Below(c)
    <3>1. x \in fresh /\ (x < b \/ x = b)
      BY <2>1
    <3>2. x \in Nat /\ b \in Nat /\ c \in Nat
      BY <3>1
    <3> QED
      BY <3>1, <3>2
  <2> QED
    BY <2>1
<1>4. Cardinality(fresh) \in Nat
  BY FS_CardinalityType
<1> HIDE DEF Below
<1>5. \A b \in fresh : Cardinality(Below(b)) < Cardinality(fresh)
  <2> TAKE b \in fresh
  <2>1. Cardinality(Below(b) \cup {b}) <= Cardinality(fresh)
    BY <1>2, FS_Subset
  <2> QED
    BY <1>1, <1>4, <2>1
<1>6. \A b, c \in fresh : b < c => Cardinality(Below(b)) < Cardinality(Below(c))
  <2> TAKE b, c \in fresh
  <2> HAVE b < c
  <2>1. Cardinality(Below(b) \cup {b}) <= Cardinality(Below(c))
    BY <1>1, <1>3, FS_Subset
  <2>2. /\ Cardinality(Below(b)) \in Nat /\ Cardinality(Below(c)) \in Nat
        /\ Cardinality(Below(b) \cup {b}) = Cardinality(Below(b)) + 1
    BY <1>1
  <2> QED
    BY <2>1, <2>2
<1> QED
  BY <1>1, <1>4, <1>5, <1>6 DEF Below, Rank
-----------------------------------------------------------------------------
(* The buses and their identities.                                         *)

Command ==
    [cmd : {"RemoveChannel"}, ch : Nat] \cup [cmd : {"AddChannel"}]
      \cup [cmd : {"SetFrDbs"}, described : SUBSET FrBuses]
      \cup [cmd : {"RemoveFrBus"}, bus : FrBuses]

\* Every identity is that of one bus, and was given out.
Places ==
    /\ can \in Seq(Nat) /\ can # << >>
    /\ fr \in [FrBuses -> Nat] /\ next \in Nat
    /\ \A i \in 1 .. Len(can) : 0 < can[i] /\ can[i] < next
    /\ \A i, j \in 1 .. Len(can) : can[i] = can[j] => i = j
    /\ \A b \in FrBuses : fr[b] < next
    /\ \A b, c \in FrBuses : fr[b] = fr[c] /\ fr[b] # 0 => b = c
    /\ \A i \in 1 .. Len(can), b \in FrBuses : can[i] # fr[b]

Removable(ch) == Len(can) > 1 /\ ch \in Positions

LEMMA PlacesInit == Init => Places
<1> SUFFICES ASSUME Init PROVE Places
  OBVIOUS
<1>1. can = <<1, 2>> /\ next = 3 /\ fr = [b \in FrBuses |-> 0]
  BY DEF Init
<1>2. can \in Seq(Nat) /\ Len(can) = 2 /\ can # << >> /\ can[1] = 1 /\ can[2] = 2
  BY <1>1
<1>3. \A i \in 1 .. Len(can) : can[i] = i
  BY <1>2
<1> QED
  BY <1>1, <1>2, <1>3 DEF Places

LEMMA PlacesAddChannel ==
    ASSUME Places, AddChannel
    PROVE  /\ Places'
           /\ Len(can') = Len(can) + 1 /\ can'[Len(can) + 1] = next
           /\ \A i \in 1 .. Len(can) : can'[i] = can[i]
<1>1. /\ can' = Append(can, next) /\ next' = next + 1 /\ fr' = fr
      /\ can \in Seq(Nat) /\ next \in Nat
  BY DEF AddChannel, Places
<1>2. /\ can' \in Seq(Nat) /\ Len(can') = Len(can) + 1 /\ can'[Len(can) + 1] = next
      /\ \A i \in 1 .. Len(can) : can'[i] = can[i]
      /\ Len(can) \in Nat /\ can' # << >>
  BY <1>1
<1>3. \A i \in 1 .. Len(can') : i \in 1 .. Len(can) \/ i = Len(can) + 1
  BY <1>2
<1>4. \A i \in 1 .. Len(can) : can[i] \in Nat /\ can[i] < next /\ 0 < can[i]
  BY <1>1 DEF Places
<1>5. 0 < next
  <2>1. 1 \in 1 .. Len(can)
    BY <1>1 DEF Places
  <2> QED
    BY <1>1, <1>4, <2>1
<1>6. \A i \in 1 .. Len(can') : 0 < can'[i] /\ can'[i] < next'
  BY <1>1, <1>2, <1>3, <1>4, <1>5
<1>7. \A i, j \in 1 .. Len(can') : can'[i] = can'[j] => i = j
  <2> TAKE i, j \in 1 .. Len(can')
  <2>1. CASE i \in 1 .. Len(can) /\ j \in 1 .. Len(can)
    BY <1>2, <2>1 DEF Places
  <2>2. CASE i = Len(can) + 1 /\ j \in 1 .. Len(can)
    BY <1>1, <1>2, <1>4, <2>2
  <2>3. CASE j = Len(can) + 1 /\ i \in 1 .. Len(can)
    BY <1>1, <1>2, <1>4, <2>3
  <2> QED
    BY <1>3, <2>1, <2>2, <2>3
<1>8. \A b \in FrBuses : fr[b] \in Nat /\ fr[b] < next
  BY DEF Places
<1>9. \A i \in 1 .. Len(can'), b \in FrBuses : can'[i] # fr[b]
  BY <1>1, <1>2, <1>3, <1>8 DEF Places
<1>10. \A b \in FrBuses : fr[b] < next'
  BY <1>1, <1>8
<1> QED
  BY <1>1, <1>2, <1>6, <1>7, <1>9, <1>10 DEF Places

\* What a bus removed by position leaves: its neighbours, under their numbers.
LEMMA PlacesRemoveChannel ==
    ASSUME Places, NEW ch \in Nat, Removable(ch), RemoveChannel(ch)
    PROVE  /\ Places'
           /\ can' = RemoveAt(can, ch + 1) /\ Len(can') = Len(can) - 1
           /\ \A j \in 1 .. Len(can') : can'[j] = IF j < ch + 1 THEN can[j] ELSE can[j + 1]
           /\ ToSet(can') = ToSet(can) \ {Cluster(ch)}
           /\ \A c \in Positions : c # ch =>
                /\ Shifted(c, ch) \in 0 .. Len(can') - 1
                /\ can'[Shifted(c, ch) + 1] = can[c + 1]
<1>1. /\ can \in Seq(Nat) /\ Len(can) \in Nat /\ Len(can) > 1 /\ ch + 1 \in 1 .. Len(can)
      /\ can' = RemoveAt(can, ch + 1) /\ fr' = fr /\ next' = next /\ next \in Nat
  BY DEF RemoveChannel, Removable, Places, Positions
<1>2. /\ can' \in Seq(Nat) /\ Len(can') = Len(can) - 1
      /\ \A j \in 1 .. Len(can) - 1 : can'[j] = IF j < ch + 1 THEN can[j] ELSE can[j + 1]
  BY <1>1, RemoveAtIs
<1> DEFINE Old(j) == IF j < ch + 1 THEN j ELSE j + 1
<1>3. \A j \in 1 .. Len(can') : /\ Old(j) \in 1 .. Len(can) /\ Old(j) # ch + 1
                                /\ can'[j] = can[Old(j)]
  <2> TAKE j \in 1 .. Len(can')
  <2>1. j \in 1 .. Len(can) - 1 /\ j \in Nat /\ j + 1 \in 1 .. Len(can)
    BY <1>1, <1>2
  <2>2. CASE j < ch + 1
    <3>1. Old(j) = j /\ j \in 1 .. Len(can) /\ j # ch + 1
      BY <1>1, <2>1, <2>2
    <3> QED
      BY <1>2, <2>1, <2>2, <3>1
  <2>3. CASE ~(j < ch + 1)
    <3>1. Old(j) = j + 1 /\ j + 1 # ch + 1
      BY <1>1, <2>1, <2>3
    <3> QED
      BY <1>2, <2>1, <2>3, <3>1
  <2> QED
    BY <2>2, <2>3
<1>4. \A i, j \in 1 .. Len(can') : Old(i) = Old(j) => i = j
  <2> TAKE i, j \in 1 .. Len(can')
  <2>1. i \in Nat /\ j \in Nat
    BY <1>1, <1>2
  <2> QED
    BY <1>1, <2>1
<1>5. \A c \in Positions : c # ch =>
        /\ Shifted(c, ch) \in 0 .. Len(can') - 1
        /\ Old(Shifted(c, ch) + 1) = c + 1
  BY <1>1, <1>2, SMTT(40) DEF Positions, Shifted
<1> HIDE DEF Old
<1>6. can' # << >>
  BY <1>1, <1>2, SMTT(40)
<1>7. Places'
  <2>1. \A i \in 1 .. Len(can') : 0 < can'[i] /\ can'[i] < next'
    BY <1>1, <1>3 DEF Places
  <2>2. \A i, j \in 1 .. Len(can') : can'[i] = can'[j] => i = j
    <3> TAKE i, j \in 1 .. Len(can')
    <3> HAVE can'[i] = can'[j]
    <3>1. can[Old(i)] = can[Old(j)] /\ Old(i) \in 1 .. Len(can) /\ Old(j) \in 1 .. Len(can)
      BY <1>3
    <3>2. Old(i) = Old(j)
      BY <3>1 DEF Places
    <3> QED
      BY <1>4, <3>2
  <2>3. \A i \in 1 .. Len(can'), b \in FrBuses : can'[i] # fr'[b]
    <3> TAKE i \in 1 .. Len(can'), b \in FrBuses
    <3>1. can'[i] = can[Old(i)] /\ Old(i) \in 1 .. Len(can) /\ fr' = fr
      BY <1>1, <1>3
    <3> QED
      BY <3>1 DEF Places
  <2> QED
    BY <1>1, <1>2, <1>6, <2>1, <2>2, <2>3 DEF Places
<1>8. \A c \in Positions : c # ch =>
        /\ Shifted(c, ch) \in 0 .. Len(can') - 1
        /\ can'[Shifted(c, ch) + 1] = can[c + 1]
  <2> TAKE c \in Positions
  <2> HAVE c # ch
  <2>1. Shifted(c, ch) + 1 \in 1 .. Len(can')
    BY <1>1, <1>2, <1>5, SMTT(40)
  <2> QED
    BY <1>3, <1>5, <2>1
<1>9. ToSet(can') = ToSet(can) \ {Cluster(ch)}
  <2>1. DOMAIN can = 1 .. Len(can) /\ DOMAIN can' = 1 .. Len(can') /\ Cluster(ch) = can[ch + 1]
    BY <1>1, <1>2 DEF Cluster
  <2>2. ASSUME NEW x \in ToSet(can') PROVE x \in ToSet(can) /\ x # can[ch + 1]
    <3>1. PICK j \in 1 .. Len(can') : x = can'[j]
      BY <2>1, <2>2 DEF ToSet
    <3> QED
      BY <1>1, <1>3, <2>1, <3>1 DEF ToSet, Places
  <2>3. ASSUME NEW x \in ToSet(can), x # can[ch + 1] PROVE x \in ToSet(can')
    <3>1. PICK j \in 1 .. Len(can) : x = can[j]
      BY <2>1, <2>3 DEF ToSet
    <3>2. j - 1 \in Positions /\ j - 1 # ch /\ (j - 1) + 1 = j
      BY <1>1, <2>3, <3>1 DEF Positions
    <3>3. Shifted(j - 1, ch) \in 0 .. Len(can') - 1 /\ can'[Shifted(j - 1, ch) + 1] = x
      BY <1>8, <3>1, <3>2
    <3>4. Shifted(j - 1, ch) + 1 \in 1 .. Len(can')
      <4>1. Len(can') \in Nat
        BY <1>1, <1>2
      <4> QED
        BY <3>3, <4>1
    <3> QED
      BY <2>1, <3>3, <3>4 DEF ToSet
  <2> QED
    BY <2>1, <2>2, <2>3
<1> QED
  BY <1>1, <1>2, <1>7, <1>8, <1>9

\* What the descriptions leave of the FlexRay buses.
LEMMA PlacesSetFrDbs ==
    ASSUME Places, NEW described \in SUBSET FrBuses, SetFrDbs(described)
    PROVE  /\ Places'
           /\ can' = can /\ next <= next'
           /\ \A b \in FrBuses :
                /\ b \notin described => fr'[b] = 0
                /\ b \in described /\ fr[b] # 0 => fr'[b] = fr[b]
                /\ b \in described /\ fr[b] = 0 => fr'[b] # 0 /\ next <= fr'[b]
<1> DEFINE fresh == {b \in described : fr[b] = 0}
<1>1. /\ fr' = [b \in FrBuses |-> IF b \notin described THEN 0
                                  ELSE IF b \in fresh THEN next + Rank(fresh, b) ELSE fr[b]]
      /\ next' = next + Cardinality(fresh)
      /\ can' = can
  BY DEF SetFrDbs, Rank
<1>2. fresh \subseteq FrBuses /\ fresh \subseteq Nat /\ IsFiniteSet(fresh)
  <2>1. fresh \subseteq FrBuses
    OBVIOUS
  <2> QED
    BY <2>1, BusesAssumption, FS_Subset
<1>3. \A b \in fresh : b \in described /\ fr[b] = 0
  OBVIOUS
<1>4. \A b \in described : b \in fresh \/ fr[b] # 0
  OBVIOUS
<1> HIDE DEF fresh
<1>5. /\ Cardinality(fresh) \in Nat
      /\ \A b \in fresh : Rank(fresh, b) \in Nat /\ Rank(fresh, b) < Cardinality(fresh)
      /\ \A b, c \in fresh : b < c => Rank(fresh, b) < Rank(fresh, c)
  BY <1>2, RankIs
<1>6. /\ fr \in [FrBuses -> Nat] /\ next \in Nat /\ next > 0
      /\ can \in Seq(Nat) /\ can # << >>
      /\ \A b \in FrBuses : fr[b] \in Nat /\ fr[b] < next
      /\ \A i \in 1 .. Len(can) : can[i] \in Nat /\ can[i] < next /\ 0 < can[i]
  <2>1. 1 \in 1 .. Len(can) /\ can[1] \in Nat
    BY DEF Places
  <2> QED
    BY <2>1 DEF Places
<1>7. \A b \in FrBuses :
        \/ b \notin described /\ fr'[b] = 0
        \/ b \in described /\ b \notin fresh /\ fr[b] # 0 /\ fr'[b] = fr[b]
        \/ b \in described /\ b \in fresh /\ fr[b] = 0 /\ fr'[b] = next + Rank(fresh, b)
  BY <1>1, <1>3, <1>4
<1>8. \A b \in FrBuses : b \in fresh => /\ fr'[b] \in Nat /\ next <= fr'[b] /\ fr'[b] < next'
                                        /\ fr'[b] # 0
  BY <1>1, <1>5, <1>6, <1>7, <1>3
<1>9. fr' \in [FrBuses -> Nat] /\ next' \in Nat /\ next <= next'
  <2>1. \A b \in FrBuses : fr'[b] \in Nat
    BY <1>6, <1>7, <1>8
  <2> QED
    BY <1>1, <1>5, <1>6, <2>1
<1>10. \A b \in FrBuses : fr'[b] < next'
  BY <1>6, <1>7, <1>8, <1>9
<1>11. \A b, c \in FrBuses : fr'[b] = fr'[c] /\ fr'[b] # 0 => b = c
  <2> TAKE b, c \in FrBuses
  <2> HAVE fr'[b] = fr'[c] /\ fr'[b] # 0
  <2>1. CASE b \in fresh /\ c \in fresh
    <3>1. b \in Nat /\ c \in Nat
      BY <1>2, <2>1
    <3>2. Rank(fresh, b) = Rank(fresh, c) /\ Rank(fresh, b) \in Nat /\ Rank(fresh, c) \in Nat
      BY <1>3, <1>5, <1>6, <1>7, <2>1
    <3>3. ~(b < c) /\ ~(c < b)
      BY <1>5, <2>1, <3>2
    <3> QED
      BY <3>1, <3>3
  <2>2. CASE b \notin fresh /\ c \notin fresh
    BY <1>7, <2>2 DEF Places
  <2>3. CASE b \in fresh /\ c \notin fresh
    BY <1>6, <1>7, <1>8, <2>3
  <2>4. CASE b \notin fresh /\ c \in fresh
    BY <1>6, <1>7, <1>8, <2>4
  <2> QED
    BY <2>1, <2>2, <2>3, <2>4
<1>12. \A i \in 1 .. Len(can), b \in FrBuses : can[i] # fr'[b]
  <2> TAKE i \in 1 .. Len(can), b \in FrBuses
  <2>1. CASE b \in fresh
    BY <1>6, <1>8, <2>1
  <2>2. CASE b \notin fresh
    BY <1>6, <1>7, <2>2 DEF Places
  <2> QED
    BY <2>1, <2>2
<1>13. \A i \in 1 .. Len(can) : 0 < can[i] /\ can[i] < next'
  BY <1>6, <1>9
<1>14. Places'
  BY <1>1, <1>6, <1>9, <1>10, <1>11, <1>12, <1>13 DEF Places
<1> QED
  BY <1>1, <1>7, <1>8, <1>9, <1>14

-----------------------------------------------------------------------------
(* The commands on the way: what they will make of the FlexRay buses.      *)

Present == {b \in FrBuses : fr[b] # 0}
Forget(b) == [cmd |-> "RemoveFrBus", bus |-> b]
Describe(d) == [cmd |-> "SetFrDbs", described |-> d]

\* Command i of box turns the described buses a into d: one more, or one less
\* with the command that clears what it held right behind.
Planned(a, d, box, i) ==
    /\ box[i].cmd = "SetFrDbs" =>
         /\ d = box[i].described
         /\ \/ \E b \in FrBuses : d = a \cup {b}
            \/ \E b \in a : d = a \ {b} /\ i < Len(box) /\ box[i + 1] = Forget(b)
    /\ box[i].cmd # "SetFrDbs" => d = a
    /\ box[i].cmd = "RemoveFrBus" => box[i].bus \notin d

\* D[i] are the buses described once i commands of box are taken.
Plan(D, box, here, last) ==
    /\ D \in [0 .. Len(box) -> SUBSET FrBuses]
    /\ D[0] = here /\ D[Len(box)] = last
    /\ \A i \in 1 .. Len(box) : Planned(D[i - 1], D[i], box, i)

LEMMA PlanTaken ==
    ASSUME NEW box \in Seq(Command), box # << >>, NEW here, NEW last,
           NEW D, Plan(D, box, here, last)
    PROVE  /\ Planned(here, D[1], box, 1) /\ D[1] \in SUBSET FrBuses
           /\ \E E : Plan(E, Tail(box), D[1], last)
<1> DEFINE n == Len(box)
           t == Tail(box)
           E == [i \in 0 .. n - 1 |-> D[i + 1]]
<1>1. n \in Nat /\ n >= 1 /\ Len(t) = n - 1 /\ \A i \in 1 .. n - 1 : t[i] = box[i + 1]
  BY DEF t, n
<1>2. /\ D \in [0 .. n -> SUBSET FrBuses] /\ D[0] = here /\ D[n] = last
      /\ \A i \in 1 .. n : Planned(D[i - 1], D[i], box, i)
  BY DEF Plan
<1> HIDE DEF n, t
<1>3. E \in [0 .. n - 1 -> SUBSET FrBuses] /\ \A i \in 0 .. n - 1 : E[i] = D[i + 1]
  BY <1>1, <1>2
<1>4. E[0] = D[1] /\ E[n - 1] = last
  BY <1>1, <1>2, <1>3
<1> HIDE DEF E
<1>5. \A i \in 1 .. n - 1 : Planned(E[i - 1], E[i], t, i)
  <2> TAKE i \in 1 .. n - 1
  <2>1. E[i - 1] = D[i] /\ E[i] = D[i + 1] /\ t[i] = box[i + 1] /\ i + 1 \in 1 .. n
        /\ (i + 1) - 1 = i
    BY <1>1, <1>3
  <2>2. Planned(D[i], D[i + 1], box, i + 1)
    BY <1>2, <2>1
  <2>3. i + 1 < Len(box) => i < Len(t) /\ t[i + 1] = box[(i + 1) + 1]
    BY <1>1 DEF n
  <2> QED
    BY <2>1, <2>2, <2>3 DEF Planned
<1>6. Plan(E, t, D[1], last)
  BY <1>1, <1>3, <1>4, <1>5 DEF Plan
<1>7. Planned(here, D[1], box, 1) /\ D[1] \in SUBSET FrBuses
  <2>1. 1 \in 1 .. n /\ 1 - 1 = 0
    BY <1>1
  <2> QED
    BY <1>2, <2>1
<1> QED
  BY <1>6, <1>7 DEF t

LEMMA PlanGrows ==
    ASSUME NEW box \in Seq(Command), NEW more \in Seq(Command),
           NEW here, NEW last, NEW end, NEW D, NEW E,
           Plan(D, box, here, last), Plan(E, more, last, end)
    PROVE  \E F : Plan(F, box \o more, here, end)
<1> DEFINE n == Len(box)
           m == Len(more)
           all == box \o more
           F == [i \in 0 .. n + m |-> IF i <= n THEN D[i] ELSE E[i - n]]
<1>1. /\ n \in Nat /\ m \in Nat /\ Len(all) = n + m
      /\ \A i \in 1 .. n : all[i] = box[i]
      /\ \A i \in 1 .. m : all[n + i] = more[i]
  BY DEF n, m, all
<1>2. /\ D \in [0 .. n -> SUBSET FrBuses] /\ D[0] = here /\ D[n] = last
      /\ \A i \in 1 .. n : Planned(D[i - 1], D[i], box, i)
      /\ E \in [0 .. m -> SUBSET FrBuses] /\ E[0] = last /\ E[m] = end
      /\ \A i \in 1 .. m : Planned(E[i - 1], E[i], more, i)
  BY DEF Plan, n, m
<1>3. /\ \A i \in 0 .. n : F[i] = D[i]
      /\ \A i \in 0 .. m : F[n + i] = E[i]
      /\ F \in [0 .. n + m -> SUBSET FrBuses]
  <2>1. \A i \in 0 .. n : F[i] = D[i]
    BY <1>1
  <2>2. \A i \in 0 .. m : F[n + i] = E[i]
    <3> TAKE i \in 0 .. m
    <3>1. n + i \in 0 .. n + m /\ (n + i) - n = i
      BY <1>1
    <3>2. CASE i = 0
      BY <1>1, <1>2, <3>1, <3>2
    <3>3. CASE i # 0
      <4>1. ~(n + i <= n)
        BY <1>1, <3>3
      <4> QED
        BY <3>1, <4>1
    <3> QED
      BY <3>2, <3>3
  <2>3. \A i \in 0 .. n + m : F[i] \in SUBSET FrBuses
    <3> TAKE i \in 0 .. n + m
    <3> HIDE DEF F
    <3>1. CASE i <= n
      <4>1. i \in 0 .. n
        BY <1>1, <3>1
      <4> QED
        BY <1>2, <2>1, <4>1
    <3>2. CASE ~(i <= n)
      <4>1. i - n \in 0 .. m /\ n + (i - n) = i
        BY <1>1, <3>2
      <4> QED
        BY <1>2, <2>2, <4>1
    <3> QED
      BY <3>1, <3>2
  <2> QED
    BY <2>1, <2>2, <2>3
<1> HIDE DEF F, n, m, all
<1>4. \A i \in 1 .. n + m : Planned(F[i - 1], F[i], all, i)
  <2> TAKE i \in 1 .. n + m
  <2>1. CASE i <= n
    <3>1. i \in 1 .. n /\ i - 1 \in 0 .. n /\ i \in 0 .. n
      BY <1>1, <2>1
    <3>2. Planned(D[i - 1], D[i], box, i) /\ all[i] = box[i]
          /\ F[i - 1] = D[i - 1] /\ F[i] = D[i]
      BY <1>1, <1>2, <1>3, <3>1
    <3>3. i < Len(box) => i < Len(all) /\ all[i + 1] = box[i + 1]
      BY <1>1, <3>1 DEF n
    <3> QED
      BY <3>2, <3>3 DEF Planned
  <2>2. CASE ~(i <= n)
    <3> DEFINE j == i - n
    <3>1. j \in 1 .. m /\ j - 1 \in 0 .. m /\ j \in 0 .. m /\ n + j = i /\ n + (j - 1) = i - 1
      BY <1>1, <2>2
    <3> HIDE DEF j
    <3>2. Planned(E[j - 1], E[j], more, j) /\ all[i] = more[j]
          /\ F[i - 1] = E[j - 1] /\ F[i] = E[j]
      BY <1>1, <1>2, <1>3, <3>1
    <3>3. j < Len(more) => i < Len(all) /\ all[i + 1] = more[j + 1]
      <4> SUFFICES ASSUME j < m PROVE i < Len(all) /\ all[i + 1] = more[j + 1]
        BY DEF m
      <4>1. j + 1 \in 1 .. m /\ n + (j + 1) = i + 1
        BY <1>1, <3>1
      <4>2. all[n + (j + 1)] = more[j + 1]
        BY <1>1, <4>1
      <4>3. i < n + m
        BY <1>1, <4>1
      <4> QED
        BY <1>1, <4>1, <4>2, <4>3
    <3> QED
      BY <3>2, <3>3 DEF Planned
  <2> QED
    BY <2>1, <2>2
<1>5. F[0] = here /\ F[n + m] = end
  BY <1>1, <1>2, <1>3
<1>6. Plan(F, all, here, end)
  BY <1>1, <1>3, <1>4, <1>5 DEF Plan
<1> QED
  BY <1>6 DEF all

\* The plans of the commands the frontend posts.
LEMMA PlanOther ==
    ASSUME NEW c \in Command, c.cmd \in {"RemoveChannel", "AddChannel"},
           NEW last \in SUBSET FrBuses
    PROVE  \E E : Plan(E, <<c>>, last, last)
<1> DEFINE E == [i \in 0 .. 1 |-> last]
           box == <<c>>
<1>1. Len(box) = 1 /\ box[1] = c
  OBVIOUS
<1>2. E \in [0 .. 1 -> SUBSET FrBuses] /\ E[0] = last /\ E[1] = last
  OBVIOUS
<1> HIDE DEF E, box
<1>3. \A i \in 1 .. 1 : i = 1 /\ i - 1 = 0
  OBVIOUS
<1>4. Planned(E[0], E[1], box, 1)
  BY <1>1, <1>2 DEF Planned
<1>5. Plan(E, box, last, last)
  BY <1>1, <1>2, <1>3, <1>4 DEF Plan
<1> QED
  BY <1>5 DEF box

LEMMA PlanAdd ==
    ASSUME NEW last \in SUBSET FrBuses, NEW b \in FrBuses
    PROVE  \E E : Plan(E, <<Describe(last \cup {b})>>, last, last \cup {b})
<1> DEFINE d == last \cup {b}
           E == [i \in 0 .. 1 |-> IF i = 0 THEN last ELSE d]
           box == <<Describe(d)>>
<1>1. /\ Len(box) = 1 /\ box[1].cmd = "SetFrDbs" /\ box[1].described = d
      /\ d \in SUBSET FrBuses
  BY DEF Describe
<1>2. E \in [0 .. 1 -> SUBSET FrBuses] /\ E[0] = last /\ E[1] = d
  BY <1>1
<1> HIDE DEF E, box
<1>3. \A i \in 1 .. 1 : i = 1 /\ i - 1 = 0
  OBVIOUS
<1>4. Planned(E[0], E[1], box, 1)
  BY <1>1, <1>2 DEF Planned
<1>5. Plan(E, box, last, d)
  BY <1>1, <1>2, <1>3, <1>4 DEF Plan
<1> QED
  BY <1>5 DEF box

LEMMA PlanRemove ==
    ASSUME NEW last \in SUBSET FrBuses, NEW b \in last
    PROVE  \E E : Plan(E, <<Describe(last \ {b}), Forget(b)>>, last, last \ {b})
<1> DEFINE d == last \ {b}
           E == [i \in 0 .. 2 |-> IF i = 0 THEN last ELSE d]
           box == <<Describe(d), Forget(b)>>
<1>1. /\ Len(box) = 2 /\ box[1].cmd = "SetFrDbs" /\ box[1].described = d
      /\ box[2] = Forget(b) /\ box[2].cmd = "RemoveFrBus" /\ box[2].bus = b
      /\ d \in SUBSET FrBuses /\ b \notin d
  BY DEF Describe, Forget
<1>2. E \in [0 .. 2 -> SUBSET FrBuses] /\ E[0] = last /\ E[1] = d /\ E[2] = d
  BY <1>1
<1>3. d = last \ {b}
  OBVIOUS
<1> HIDE DEF E, box, d
<1>4. Planned(E[0], E[1], box, 1)
  <2>1. 1 < Len(box) /\ 1 + 1 = 2
    BY <1>1
  <2> QED
    BY <1>1, <1>2, <1>3, <2>1 DEF Planned
<1>5. Planned(E[1], E[2], box, 2)
  BY <1>1, <1>2 DEF Planned
<1>6. \A i \in 1 .. 2 : (i = 1 /\ i - 1 = 0) \/ (i = 2 /\ i - 1 = 1)
  OBVIOUS
<1>7. Plan(E, box, last, d)
  BY <1>1, <1>2, <1>4, <1>5, <1>6 DEF Plan
<1> QED
  BY <1>7 DEF box, d

\* What waits is well formed and leaves the buses the frontend describes.
Pending ==
    /\ inbox \in Seq(Command)
    /\ snap \in [can : Seq(Nat), fr : [FrBuses -> Nat]]
    /\ frBuses \in SUBSET FrBuses
    /\ \E D : Plan(D, inbox, Present, frBuses)

\* A bus by position is removed first or not at all, and is still there.
RemovesFirst ==
    \A i \in 1 .. Len(inbox) :
        inbox[i].cmd = "RemoveChannel" => i = 1 /\ Removable(inbox[i].ch)

LEMMA CommandIs ==
    ASSUME NEW c \in Command
    PROVE  /\ c.cmd \in {"RemoveChannel", "AddChannel", "SetFrDbs", "RemoveFrBus"}
           /\ c.cmd = "RemoveChannel" => c.ch \in Nat
           /\ c.cmd = "SetFrDbs" => c.described \in SUBSET FrBuses
           /\ c.cmd = "RemoveFrBus" => c.bus \in FrBuses
BY DEF Command

LEMMA PendingInit == Init => Pending /\ RemovesFirst
<1> SUFFICES ASSUME Init PROVE Pending /\ RemovesFirst
  OBVIOUS
<1> DEFINE D == [i \in 0 .. 0 |-> {}]
<1>1. /\ inbox = << >> /\ Len(inbox) = 0 /\ frBuses = {} /\ snap = View
      /\ fr = [b \in FrBuses |-> 0] /\ can = <<1, 2>>
  BY DEF Init
<1>2. Present = {}
  BY <1>1 DEF Present
<1>3. D \in [0 .. 0 -> SUBSET FrBuses] /\ D[0] = {}
  OBVIOUS
<1> HIDE DEF D
<1>4. Plan(D, inbox, Present, frBuses)
  BY <1>1, <1>2, <1>3 DEF Plan
<1>5. inbox \in Seq(Command) /\ snap \in [can : Seq(Nat), fr : [FrBuses -> Nat]]
  BY <1>1 DEF View
<1> QED
  BY <1>1, <1>4, <1>5 DEF Pending, RemovesFirst

\* Posting commands with a plan of their own.
LEMMA PendingPost ==
    ASSUME Pending, NEW cmds \in Seq(Command), inbox' = inbox \o cmds,
           UNCHANGED <<fr, snap>>, frBuses' \in SUBSET FrBuses,
           \E E : Plan(E, cmds, frBuses, frBuses')
    PROVE  Pending'
<1>1. PICK D : Plan(D, inbox, Present, frBuses)
  BY DEF Pending
<1>2. PICK E : Plan(E, cmds, frBuses, frBuses')
  OBVIOUS
<1>3. inbox \in Seq(Command) /\ inbox' \in Seq(Command)
  BY ConcatProperties DEF Pending
<1>4. Present' = Present
  BY DEF Present
<1>5. \E F : Plan(F, inbox', Present, frBuses')
  BY <1>1, <1>2, <1>3, PlanGrows
<1> QED
  BY <1>3, <1>4, <1>5 DEF Pending

LEMMA HandleIs ==
    ASSUME Places, Pending, RemovesFirst, Handle
    PROVE  LET c == inbox[1]
           IN  /\ c \in Command /\ inbox \in Seq(Command) /\ inbox # << >>
               /\ inbox' = Tail(inbox) /\ UNCHANGED <<snap, frBuses, picks, curves>>
               /\ Places' /\ Pending' /\ next <= next'
               /\ \/ /\ c.cmd = "RemoveChannel" /\ c.ch \in Nat
                     /\ Removable(c.ch) /\ RemoveChannel(c.ch)
                  \/ c.cmd = "AddChannel" /\ AddChannel
                  \/ /\ c.cmd = "SetFrDbs" /\ c.described \in SUBSET FrBuses
                     /\ SetFrDbs(c.described)
                     /\ \/ \E b \in FrBuses : c.described = Present \cup {b}
                        \/ \E b \in Present : /\ c.described = Present \ {b}
                                              /\ 1 < Len(inbox) /\ inbox[2] = Forget(b)
                  \/ /\ c.cmd = "RemoveFrBus" /\ c.bus \in FrBuses
                     /\ RemoveFrBus(c.bus) /\ fr[c.bus] = 0
                     /\ UNCHANGED <<can, fr, next, items, map>>
<1> DEFINE c == inbox[1]
<1>1. /\ inbox \in Seq(Command) /\ inbox # << >> /\ c \in Command /\ Head(inbox) = c
      /\ inbox' = Tail(inbox) /\ inbox' \in Seq(Command)
      /\ UNCHANGED <<snap, frBuses, picks, curves>>
      /\ 1 \in 1 .. Len(inbox)
  BY DEF Handle, Pending
<1>2. \/ c.cmd = "RemoveChannel" /\ RemoveChannel(c.ch)
      \/ c.cmd = "AddChannel" /\ AddChannel
      \/ c.cmd = "SetFrDbs" /\ SetFrDbs(c.described)
      \/ c.cmd = "RemoveFrBus" /\ RemoveFrBus(c.bus)
  BY <1>1 DEF Handle
<1>3. PICK D : Plan(D, inbox, Present, frBuses)
  BY DEF Pending
<1>4. /\ Planned(Present, D[1], inbox, 1) /\ D[1] \in SUBSET FrBuses
      /\ \E E : Plan(E, Tail(inbox), D[1], frBuses)
  BY <1>1, <1>3, PlanTaken
<1>5. /\ c.cmd = "SetFrDbs" =>
           /\ D[1] = c.described
           /\ \/ \E b \in FrBuses : c.described = Present \cup {b}
              \/ \E b \in Present : /\ c.described = Present \ {b}
                                    /\ 1 < Len(inbox) /\ inbox[2] = Forget(b)
      /\ c.cmd # "SetFrDbs" => D[1] = Present
      /\ c.cmd = "RemoveFrBus" => c.bus \notin Present
  <2>1. 1 + 1 = 2
    OBVIOUS
  <2> QED
    BY <1>4, <2>1 DEF Planned
<1>6. ASSUME Present' = D[1] PROVE Pending'
  BY <1>1, <1>4, <1>6 DEF Pending
<1> HIDE DEF c
<1>7. CASE c.cmd = "RemoveChannel"
  <2>1. RemoveChannel(c.ch) /\ c.ch \in Nat /\ Removable(c.ch)
    BY <1>1, <1>2, <1>7, CommandIs DEF RemovesFirst, c
  <2>2. Places' /\ fr' = fr /\ next' = next
    <3>1. Places'
      BY <2>1, PlacesRemoveChannel
    <3> QED
      BY <2>1, <3>1 DEF RemoveChannel, core
  <2>3. Present' = Present /\ next <= next'
    BY <2>2 DEF Present, Places
  <2> QED
    BY <1>1, <1>5, <1>6, <1>7, <2>1, <2>2, <2>3 DEF c
<1>8. CASE c.cmd = "AddChannel"
  <2>1. AddChannel
    BY <1>2, <1>8
  <2>2. Places' /\ fr' = fr /\ next' = next + 1
    BY <2>1, PlacesAddChannel DEF AddChannel
  <2>3. Present' = Present /\ next <= next'
    BY <2>2 DEF Present, Places
  <2> QED
    BY <1>1, <1>5, <1>6, <1>8, <2>1, <2>2, <2>3 DEF c
<1>9. CASE c.cmd = "SetFrDbs"
  <2>1. SetFrDbs(c.described) /\ c.described \in SUBSET FrBuses
    BY <1>1, <1>2, <1>9, CommandIs
  <2>2. /\ Places' /\ next <= next'
        /\ \A b \in FrBuses :
             /\ b \notin c.described => fr'[b] = 0
             /\ b \in c.described /\ fr[b] # 0 => fr'[b] = fr[b]
             /\ b \in c.described /\ fr[b] = 0 => fr'[b] # 0 /\ next <= fr'[b]
    BY <2>1, PlacesSetFrDbs
  <2>3. Present' = c.described
    BY <2>1, <2>2 DEF Present
  <2> QED
    BY <1>1, <1>5, <1>6, <1>9, <2>1, <2>2, <2>3 DEF c
<1>10. CASE c.cmd = "RemoveFrBus"
  <2>1. RemoveFrBus(c.bus) /\ c.bus \in FrBuses /\ fr[c.bus] = 0
    BY <1>1, <1>2, <1>5, <1>10, CommandIs DEF Present
  <2>2. fr' = [fr EXCEPT ![c.bus] = 0] /\ UNCHANGED <<can, next, items, map>>
    BY <2>1 DEF RemoveFrBus
  <2>3. fr \in [FrBuses -> Nat] /\ next \in Nat
    BY DEF Places
  <2>4. fr' = fr
    BY <2>1, <2>2, <2>3
  <2>5. Places'
    <3>1. can' = can /\ fr' = fr /\ next' = next
      BY <2>2, <2>4
    <3> QED
      BY <3>1 DEF Places
  <2>6. Present' = Present /\ next <= next'
    BY <2>2, <2>3, <2>4 DEF Present
  <2> QED
    BY <1>1, <1>5, <1>6, <1>10, <2>1, <2>2, <2>4, <2>5, <2>6 DEF c
<1> QED
  BY <1>1, <1>7, <1>8, <1>9, <1>10, CommandIs

-----------------------------------------------------------------------------
(* The windows of the frontend.                                            *)

\* The CAN buses once a removal on the way is done.
After == IF inbox # << >> /\ inbox[1].cmd = "RemoveChannel"
         THEN RemoveAt(can, inbox[1].ch + 1) ELSE can

\* State by position means its bus among those that will be left.
PickFits(p) == /\ p \in [ch : Nat, of : Nat]
               /\ p.ch + 1 \in 1 .. Len(After) /\ After[p.ch + 1] = p.of

\* A row is on a bus that will be left.
CanRow(k) == k.space = "can" /\ \E i \in 1 .. Len(After) : After[i] = k.cluster
FrRow(k, b) ==
    /\ k.space = "fr" /\ fr[b] = k.cluster /\ fr[b] # 0 /\ snap.fr[b] = k.cluster
    /\ \A i \in 1 .. Len(inbox) : /\ inbox[i].cmd = "SetFrDbs" => b \in inbox[i].described
                                  /\ inbox[i].cmd = "RemoveFrBus" => inbox[i].bus # b

Windows ==
    /\ RemovesFirst
    /\ \A p \in picks : PickFits(p)
    /\ \A k \in curves : CanRow(k) \/ \E b \in frBuses : FrRow(k, b)

\* Commands that remove no channel leave what waits for one as it is.
LEMMA AfterPost ==
    ASSUME Pending, RemovesFirst, NEW cmds \in Seq(Command),
           inbox' = inbox \o cmds, can' = can,
           \A i \in 1 .. Len(cmds) : cmds[i].cmd # "RemoveChannel"
    PROVE  /\ After' = After /\ RemovesFirst'
           /\ \A i \in 1 .. Len(inbox') :
                \/ i \in 1 .. Len(inbox) /\ inbox'[i] = inbox[i]
                \/ \E j \in 1 .. Len(cmds) : inbox'[i] = cmds[j]
<1> DEFINE n == Len(inbox)
           m == Len(cmds)
<1>1. /\ n \in Nat /\ m \in Nat /\ Len(inbox') = n + m
      /\ \A i \in 1 .. n : inbox'[i] = inbox[i]
      /\ \A i \in 1 .. m : inbox'[n + i] = cmds[i]
      /\ inbox = << >> <=> n = 0
      /\ inbox' = << >> <=> n + m = 0
  BY DEF Pending, n, m
<1> HIDE DEF n, m
<1>2. \A i \in 1 .. n + m : i \in 1 .. n \/ (i - n \in 1 .. m /\ n + (i - n) = i)
  BY <1>1
<1>3. \A i \in 1 .. n + m : \/ i \in 1 .. n /\ inbox'[i] = inbox[i]
                           \/ \E j \in 1 .. m : inbox'[i] = cmds[j]
  BY <1>1, <1>2
<1>4. \A i \in 1 .. n + m : inbox'[i].cmd = "RemoveChannel" =>
                             i \in 1 .. n /\ inbox'[i] = inbox[i]
  BY <1>3 DEF m
<1>5. RemovesFirst'
  <2> SUFFICES ASSUME NEW i \in 1 .. n + m, inbox'[i].cmd = "RemoveChannel"
               PROVE  i = 1 /\ Len(can) > 1 /\ inbox'[i].ch \in Positions
    BY <1>1 DEF RemovesFirst, Removable, Positions
  <2>1. i \in 1 .. n /\ inbox'[i] = inbox[i] /\ inbox[i].cmd = "RemoveChannel"
    BY <1>4
  <2> QED
    BY <2>1 DEF RemovesFirst, Removable, n
<1>6. After' = After
  <2>1. CASE n = 0
    <3>1. inbox' # << >> => 1 \in 1 .. n + m
      BY <1>1
    <3>2. inbox' # << >> => inbox'[1].cmd # "RemoveChannel"
      BY <1>4, <2>1, <3>1
    <3> QED
      BY <1>1, <2>1, <3>2 DEF After
  <2>2. CASE n # 0
    <3>1. inbox'[1] = inbox[1] /\ inbox' # << >> /\ inbox # << >>
      BY <1>1, <2>2
    <3> QED
      BY <3>1 DEF After
  <2> QED
    BY <2>1, <2>2
<1> QED
  BY <1>1, <1>3, <1>5, <1>6 DEF n, m

LEMMA WindowsHandle ==
    ASSUME Places, Pending, Windows, Handle
    PROVE  Windows'
<1> DEFINE c == inbox[1]
           t == Tail(inbox)
<1>1. /\ c \in Command /\ inbox \in Seq(Command) /\ inbox # << >>
      /\ inbox' = t /\ UNCHANGED <<snap, frBuses, picks, curves>>
      /\ \/ /\ c.cmd = "RemoveChannel" /\ c.ch \in Nat
            /\ Removable(c.ch) /\ RemoveChannel(c.ch)
         \/ c.cmd = "AddChannel" /\ AddChannel
         \/ c.cmd = "SetFrDbs" /\ c.described \in SUBSET FrBuses /\ SetFrDbs(c.described)
         \/ /\ c.cmd = "RemoveFrBus" /\ c.bus \in FrBuses
            /\ UNCHANGED <<can, fr>>
  BY HandleIs DEF Windows
<1>2. /\ Len(inbox) \in Nat /\ Len(inbox) >= 1 /\ Len(t) = Len(inbox) - 1
      /\ \A i \in 1 .. Len(t) : i + 1 \in 1 .. Len(inbox) /\ t[i] = inbox[i + 1] /\ i + 1 # 1
      /\ t # << >> => 1 \in 1 .. Len(t)
  BY <1>1
<1> HIDE DEF c, t
<1>3. \A i \in 1 .. Len(t) : t[i].cmd # "RemoveChannel"
  BY <1>2 DEF Windows, RemovesFirst
<1>4. RemovesFirst' /\ After' = can'
  BY <1>1, <1>2, <1>3 DEF RemovesFirst, After
<1>5. \A i \in 1 .. Len(After) : i \in 1 .. Len(can') /\ can'[i] = After[i]
  <2>1. CASE c.cmd = "RemoveChannel"
    <3>1. can' = RemoveAt(can, c.ch + 1)
      BY <1>1, <2>1, PlacesRemoveChannel
    <3>2. After = can'
      BY <1>1, <2>1, <3>1 DEF After, c
    <3> QED
      BY <3>2
  <2>2. CASE c.cmd = "AddChannel"
    <3>1. After = can /\ Len(can) \in Nat
      BY <1>1, <2>2 DEF After, c, Places
    <3>2. Len(can') = Len(can) + 1 /\ \A i \in 1 .. Len(can) : can'[i] = can[i]
      BY <1>1, <2>2, PlacesAddChannel
    <3> QED
      BY <3>1, <3>2
  <2>3. CASE c.cmd = "SetFrDbs" \/ c.cmd = "RemoveFrBus"
    <3>1. can' = can /\ After = can
      BY <1>1, <2>3 DEF After, c, SetFrDbs
    <3> QED
      BY <3>1
  <2> QED
    BY <1>1, <2>1, <2>2, <2>3
<1>6. \A p \in picks : PickFits(p)'
  BY <1>4, <1>5 DEF Windows, PickFits
<1>7. ASSUME NEW k \in curves, CanRow(k) PROVE CanRow(k)'
  BY <1>4, <1>5, <1>7 DEF CanRow
<1>8. ASSUME NEW k \in curves, NEW b \in frBuses, FrRow(k, b) PROVE FrRow(k, b)'
  <2>1. /\ \A i \in 1 .. Len(t) : /\ t[i].cmd = "SetFrDbs" => b \in t[i].described
                                  /\ t[i].cmd = "RemoveFrBus" => t[i].bus # b
        /\ c.cmd = "SetFrDbs" => b \in c.described
    BY <1>2, <1>8 DEF FrRow, c
  <2>2. fr[b] # 0 /\ b \in FrBuses
    BY <1>8 DEF FrRow, Pending
  <2>3. fr'[b] = fr[b]
    <3>1. CASE c.cmd = "RemoveChannel"
      BY <1>1, <3>1 DEF RemoveChannel, core
    <3>2. CASE c.cmd = "AddChannel"
      BY <1>1, <3>2 DEF AddChannel
    <3>3. CASE c.cmd = "SetFrDbs"
      BY <1>1, <2>1, <2>2, <3>3, PlacesSetFrDbs
    <3>4. CASE c.cmd = "RemoveFrBus"
      BY <1>1, <3>4
    <3> QED
      BY <1>1, <3>1, <3>2, <3>3, <3>4
  <2> QED
    BY <1>1, <1>8, <2>1, <2>3 DEF FrRow
<1> QED
  BY <1>1, <1>4, <1>6, <1>7, <1>8 DEF Windows

\* Everything the frontend does to its windows.
LEMMA WindowsRemoveChannel ==
    ASSUME Prompt, Places, Pending, Windows,
           NEW ch \in 0 .. Len(snap.can) - 1, AppRemoveChannel(ch)
    PROVE  Windows' /\ Places' /\ Pending'
<1> DEFINE c == [cmd |-> "RemoveChannel", ch |-> ch]
<1>1. /\ inbox = << >> /\ snap = View /\ inbox' = inbox \o <<c>>
      /\ Len(can) > 1 /\ ch < Len(can)
      /\ picks' = PicksWithout(ch)
      /\ curves' = {k \in curves : k.cluster # can[ch + 1]}
      /\ UNCHANGED <<can, fr, next, snap, frBuses>>
  BY DEF AppRemoveChannel, Settled, Post, View, core
<1>2. can \in Seq(Nat) /\ Len(can) \in Nat /\ ch \in Nat /\ ch + 1 \in 1 .. Len(can)
  BY <1>1 DEF Places, View
<1>3. inbox' = <<c>> /\ inbox' # << >> /\ Len(inbox') = 1 /\ inbox'[1] = c /\ c \in Command
  BY <1>1, <1>2 DEF Command
<1>4. After = can /\ After' = RemoveAt(can, ch + 1)
  BY <1>1, <1>3 DEF After
<1>5. /\ Len(After') = Len(can) - 1
      /\ \A j \in 1 .. Len(can) - 1 :
           After'[j] = IF j < ch + 1 THEN can[j] ELSE can[j + 1]
  BY <1>2, <1>4, RemoveAtIs
<1>6. RemovesFirst'
  BY <1>1, <1>2, <1>3 DEF RemovesFirst, Removable, Positions
<1>7. ASSUME NEW p \in picks' PROVE PickFits(p)'
  <2>1. PICK q \in picks : q.ch # ch /\ p = [q EXCEPT !.ch = Shifted(@, ch)]
    BY <1>1, <1>7 DEF PicksWithout
  <2>2. q \in [ch : Nat, of : Nat] /\ q.ch + 1 \in 1 .. Len(can) /\ can[q.ch + 1] = q.of
    BY <1>4 DEF Windows, PickFits
  <2>3. p.ch = Shifted(q.ch, ch) /\ p.of = q.of /\ p \in [ch : Nat, of : Nat]
    <3> DEFINE x == Shifted(q.ch, ch)
    <3>1. x \in Nat
      BY <1>2, <2>1, <2>2 DEF Shifted
    <3>2. p = [q EXCEPT !.ch = x]
      BY <2>1
    <3> HIDE DEF x
    <3>3. p.ch = x /\ p.of = q.of /\ p \in [ch : Nat, of : Nat]
      BY <2>2, <3>1, <3>2
    <3> QED
      BY <3>3 DEF x
  <2>4. CASE q.ch > ch
    <3>1. p.ch = q.ch - 1 /\ p.ch + 1 \in 1 .. Len(can) - 1 /\ ~(p.ch + 1 < ch + 1)
          /\ (p.ch + 1) + 1 = q.ch + 1
      BY <1>2, <2>2, <2>3, <2>4, SMTT(40) DEF Shifted
    <3> QED
      BY <1>5, <2>2, <2>3, <3>1 DEF PickFits
  <2>5. CASE q.ch < ch
    <3>1. p.ch = q.ch /\ p.ch + 1 \in 1 .. Len(can) - 1 /\ p.ch + 1 < ch + 1
      BY <1>2, <2>2, <2>3, <2>5 DEF Shifted
    <3> QED
      BY <1>5, <2>2, <2>3, <3>1 DEF PickFits
  <2> QED
    BY <1>2, <2>1, <2>2, <2>4, <2>5
<1>8. ASSUME NEW k \in curves' PROVE CanRow(k)' \/ \E b \in frBuses' : FrRow(k, b)'
  <2>1. k \in curves /\ k.cluster # can[ch + 1]
    BY <1>1, <1>8
  <2>2. CASE CanRow(k)
    <3>1. PICK i \in 1 .. Len(can) : can[i] = k.cluster
      BY <1>4, <2>2 DEF CanRow
    <3>2. i # ch + 1 /\ i \in Nat
      BY <1>2, <2>1, <3>1
    <3>3. CASE i < ch + 1
      <4>1. i \in 1 .. Len(can) - 1
        BY <1>2, <3>1, <3>3
      <4> QED
        BY <1>5, <2>2, <3>1, <3>3, <4>1 DEF CanRow
    <3>4. CASE i > ch + 1
      <4>1. i - 1 \in 1 .. Len(can) - 1 /\ ~(i - 1 < ch + 1) /\ (i - 1) + 1 = i
        BY <1>2, <3>1, <3>4
      <4> QED
        BY <1>5, <2>2, <3>1, <4>1 DEF CanRow
    <3> QED
      BY <1>2, <3>2, <3>3, <3>4
  <2>3. ASSUME NEW b \in frBuses, FrRow(k, b) PROVE FrRow(k, b)'
    BY <1>1, <1>3, <2>3 DEF FrRow
  <2> QED
    BY <1>1, <2>1, <2>2, <2>3 DEF Windows
<1>9. Places'
  BY <1>1 DEF Places
<1>10. Pending'
  <2>1. \E E : Plan(E, <<c>>, frBuses, frBuses')
    BY <1>1, <1>3, PlanOther DEF Pending
  <2>2. <<c>> \in Seq(Command)
    BY <1>3
  <2> QED
    BY <1>1, <2>1, <2>2, PendingPost DEF Pending
<1> QED
  BY <1>6, <1>7, <1>8, <1>9, <1>10 DEF Windows

LEMMA WindowsAddChannel ==
    ASSUME Places, Pending, Windows, AppAddChannel
    PROVE  Windows' /\ Places' /\ Pending'
<1> DEFINE c == [cmd |-> "AddChannel"]
           cs == <<c>>
<1>1. /\ c \in Command /\ cs \in Seq(Command) /\ Len(cs) = 1
      /\ \A i \in 1 .. 1 : cs[i] = c
  BY DEF Command
<1>2. c.cmd = "AddChannel"
  OBVIOUS
<1> HIDE DEF c
<1>3. /\ inbox' = inbox \o cs
      /\ UNCHANGED <<can, fr, next, snap, frBuses, picks, curves>>
  BY DEF AppAddChannel, Post, core, c
<1>4. Pending'
  <2>1. \E E : Plan(E, cs, frBuses, frBuses')
    BY <1>1, <1>2, <1>3, PlanOther DEF Pending
  <2> QED
    BY <1>1, <1>3, <2>1, PendingPost DEF Pending
<1> HIDE DEF cs
<1>5. /\ After' = After /\ RemovesFirst'
      /\ \A i \in 1 .. Len(inbox') :
           \/ i \in 1 .. Len(inbox) /\ inbox'[i] = inbox[i]
           \/ \E j \in 1 .. Len(cs) : inbox'[i] = cs[j]
  <2>1. \A i \in 1 .. Len(cs) : cs[i].cmd # "RemoveChannel"
    BY <1>1, <1>2
  <2> QED
    BY <1>1, <1>3, <2>1, AfterPost DEF Windows
<1>6. ASSUME NEW k, NEW b, FrRow(k, b) PROVE FrRow(k, b)'
  BY <1>1, <1>2, <1>3, <1>5, <1>6 DEF FrRow
<1>7. Windows'
  BY <1>3, <1>5, <1>6 DEF Windows, PickFits, CanRow
<1> QED
  BY <1>3, <1>4, <1>7 DEF Places

LEMMA WindowsAddFrBus ==
    ASSUME Places, Pending, Windows, AppAddFrBus
    PROVE  Windows' /\ Places' /\ Pending'
<1>1. PICK b \in FrBuses : frBuses' = frBuses \cup {b}
  BY DEF AppAddFrBus
<1> DEFINE c == Describe(frBuses \cup {b})
           cs == <<c>>
<1>2. frBuses \cup {b} \in SUBSET FrBuses
  BY DEF Pending
<1>3. /\ c \in Command /\ cs \in Seq(Command) /\ Len(cs) = 1
      /\ \A i \in 1 .. 1 : cs[i] = c
  BY <1>2 DEF Command, Describe
<1>4. c.cmd = "SetFrDbs" /\ c.described = frBuses \cup {b}
  BY DEF Describe
<1>5. /\ inbox' = inbox \o cs
      /\ UNCHANGED <<can, fr, next, snap, picks, curves>>
  BY <1>1 DEF AppAddFrBus, Post, core, Describe
<1>6. Pending'
  <2>1. \E E : Plan(E, cs, frBuses, frBuses')
    BY <1>1, PlanAdd DEF Pending
  <2> QED
    BY <1>1, <1>2, <1>3, <1>5, <2>1, PendingPost DEF Pending
<1> HIDE DEF cs, c
<1>7. /\ After' = After /\ RemovesFirst'
      /\ \A i \in 1 .. Len(inbox') :
           \/ i \in 1 .. Len(inbox) /\ inbox'[i] = inbox[i]
           \/ \E j \in 1 .. Len(cs) : inbox'[i] = cs[j]
  <2>1. \A i \in 1 .. Len(cs) : cs[i].cmd # "RemoveChannel"
    BY <1>3, <1>4
  <2> QED
    BY <1>3, <1>5, <2>1, AfterPost DEF Windows
<1>8. ASSUME NEW k, NEW e \in frBuses, FrRow(k, e) PROVE FrRow(k, e)'
  BY <1>3, <1>4, <1>5, <1>7, <1>8 DEF FrRow
<1>9. Windows'
  BY <1>1, <1>5, <1>7, <1>8 DEF Windows, PickFits, CanRow
<1> QED
  BY <1>5, <1>6, <1>9 DEF Places

LEMMA WindowsRemoveFrBus ==
    ASSUME Places, Pending, Windows, NEW b \in FrBuses, AppRemoveFrBus(b)
    PROVE  Windows' /\ Places' /\ Pending'
<1> DEFINE d == frBuses \ {b}
           cs == <<Describe(d), Forget(b)>>
<1>1. /\ b \in frBuses /\ frBuses' = d /\ d \in SUBSET FrBuses /\ frBuses \in SUBSET FrBuses
      /\ curves' = {k \in curves : k.cluster # snap.fr[b]}
  BY DEF AppRemoveFrBus, Pending
<1>2. /\ cs \in Seq(Command) /\ Len(cs) = 2
      /\ \A i \in 1 .. 2 : cs[i] = Describe(d) \/ cs[i] = Forget(b)
  <2>1. Describe(d) \in Command /\ Forget(b) \in Command
    BY <1>1 DEF Command, Describe, Forget
  <2> QED
    BY <2>1
<1>3. /\ Describe(d).cmd = "SetFrDbs" /\ Describe(d).described = d
      /\ Forget(b).cmd = "RemoveFrBus" /\ Forget(b).bus = b
  BY DEF Describe, Forget
<1>4. /\ inbox' = inbox \o cs
      /\ UNCHANGED <<can, fr, next, snap, picks>>
  BY <1>1 DEF AppRemoveFrBus, Post, core, Describe, Forget
<1>5. Pending'
  <2>1. \E E : Plan(E, cs, frBuses, frBuses')
    BY <1>1, PlanRemove
  <2> QED
    BY <1>1, <1>2, <1>4, <2>1, PendingPost
<1>6. \A e \in frBuses : e # b => e \in d
  OBVIOUS
<1> HIDE DEF cs, d
<1>7. /\ After' = After /\ RemovesFirst'
      /\ \A i \in 1 .. Len(inbox') :
           \/ i \in 1 .. Len(inbox) /\ inbox'[i] = inbox[i]
           \/ \E j \in 1 .. Len(cs) : inbox'[i] = cs[j]
  <2>1. \A i \in 1 .. Len(cs) : cs[i].cmd # "RemoveChannel"
    BY <1>2, <1>3
  <2> QED
    BY <1>2, <1>4, <2>1, AfterPost DEF Windows
<1>8. ASSUME NEW k \in curves', NEW e \in frBuses, FrRow(k, e)
      PROVE  e \in frBuses' /\ FrRow(k, e)'
  <2>1. k.cluster # snap.fr[b] /\ snap.fr[e] = k.cluster
    BY <1>1, <1>8 DEF FrRow
  <2>2. e # b
    BY <2>1
  <2>3. \A i \in 1 .. Len(inbox') :
           /\ inbox'[i].cmd = "SetFrDbs" => e \in inbox'[i].described
           /\ inbox'[i].cmd = "RemoveFrBus" => inbox'[i].bus # e
    <3> TAKE i \in 1 .. Len(inbox')
    <3>1. CASE i \in 1 .. Len(inbox) /\ inbox'[i] = inbox[i]
      BY <1>8, <3>1 DEF FrRow
    <3>2. CASE inbox'[i] = Describe(d) \/ inbox'[i] = Forget(b)
      BY <1>3, <1>6, <1>8, <2>2, <3>2
    <3> QED
      BY <1>2, <1>7, <3>1, <3>2
  <2> QED
    BY <1>1, <1>4, <1>6, <1>8, <2>2, <2>3 DEF FrRow
<1>9. Windows'
  <2>1. \A k \in curves' : CanRow(k) => CanRow(k)'
    BY <1>7 DEF CanRow
  <2>2. \A k \in curves' : k \in curves
    BY <1>1
  <2>3. \A k \in curves' : CanRow(k)' \/ \E e \in frBuses' : FrRow(k, e)'
    BY <1>8, <2>1, <2>2 DEF Windows
  <2> QED
    BY <1>4, <1>7, <2>3 DEF Windows, PickFits
<1> QED
  BY <1>4, <1>5, <1>9 DEF Places

\* Of what is there now a window may take anything.
LEMMA WindowsShow ==
    ASSUME Prompt, Places, Pending, Windows,
           NEW ch \in 0 .. Len(snap.can) - 1, Show(ch)
    PROVE  Windows' /\ Places' /\ Pending'
<1> DEFINE p == [ch |-> ch, of |-> can[ch + 1]]
           k == [space |-> "can", cluster |-> can[ch + 1]]
<1>1. /\ inbox = << >> /\ snap = View
      /\ picks' = picks \cup {p} /\ curves' = curves \cup {k}
      /\ UNCHANGED <<can, fr, next, inbox, snap, frBuses>>
  BY DEF Show, Settled, View, core
<1>2. can \in Seq(Nat) /\ ch \in Nat /\ ch + 1 \in 1 .. Len(can)
  BY <1>1 DEF Places, View
<1>3. After = can /\ After' = After /\ can[ch + 1] \in Nat
  BY <1>1, <1>2 DEF After
<1>4. PickFits(p)
  BY <1>2, <1>3 DEF PickFits
<1>5. CanRow(k)
  BY <1>2, <1>3 DEF CanRow
<1> HIDE DEF p, k
<1>6. Windows'
  <2>1. \A q \in picks' : PickFits(q)'
    BY <1>1, <1>3, <1>4 DEF Windows, PickFits
  <2>2. ASSUME NEW q \in curves' PROVE CanRow(q)' \/ \E b \in frBuses' : FrRow(q, b)'
    <3>1. CASE q = k
      BY <1>3, <1>5, <3>1 DEF CanRow
    <3>2. CASE q \in curves
      BY <1>1, <1>3, <3>2 DEF Windows, CanRow, FrRow
    <3> QED
      BY <1>1, <2>2, <3>1, <3>2
  <2>3. RemovesFirst'
    BY <1>1 DEF Windows, RemovesFirst, Removable, Positions
  <2> QED
    BY <2>1, <2>2, <2>3 DEF Windows
<1> QED
  BY <1>1, <1>6 DEF Places, Pending, Present

LEMMA WindowsShowFr ==
    ASSUME Prompt, Places, Pending, Windows, NEW b \in FrBuses, ShowFr(b)
    PROVE  Windows' /\ Places' /\ Pending'
<1> DEFINE k == [space |-> "fr", cluster |-> fr[b]]
<1>1. /\ inbox = << >> /\ snap = View /\ b \in frBuses
      /\ curves' = curves \cup {k} /\ fr[b] # 0 /\ snap.fr[b] = fr[b]
      /\ UNCHANGED <<can, fr, next, inbox, snap, frBuses, picks>>
  BY DEF ShowFr, Settled, View, core
<1>2. FrRow(k, b)
  BY <1>1 DEF FrRow
<1> HIDE DEF k
<1>3. After' = After
  BY <1>1 DEF After
<1>4. Windows'
  <2>1. ASSUME NEW q \in curves' PROVE CanRow(q)' \/ \E c \in frBuses' : FrRow(q, c)'
    <3>1. CASE q = k
      BY <1>1, <1>2, <3>1 DEF FrRow
    <3>2. CASE q \in curves
      BY <1>1, <1>3, <3>2 DEF Windows, CanRow, FrRow
    <3> QED
      BY <1>1, <2>1, <3>1, <3>2
  <2>2. RemovesFirst'
    BY <1>1 DEF Windows, RemovesFirst, Removable, Positions
  <2> QED
    BY <1>1, <1>3, <2>1, <2>2 DEF Windows, PickFits
<1> QED
  BY <1>1, <1>4 DEF Places, Pending, Present

LEMMA WindowsRead ==
    ASSUME Places, Pending, Windows, Read
    PROVE  Windows' /\ Places' /\ Pending'
<1>1. /\ snap' = [can |-> can, fr |-> fr]
      /\ UNCHANGED <<can, fr, next, inbox, frBuses, picks, curves>>
  BY DEF Read, View, core
<1>2. After' = After /\ snap'.fr = fr
  BY <1>1 DEF After
<1>3. Windows'
  <2>1. \A k \in curves, b \in frBuses : FrRow(k, b) => FrRow(k, b)'
    BY <1>1, <1>2 DEF FrRow
  <2>2. RemovesFirst'
    BY <1>1 DEF Windows, RemovesFirst, Removable, Positions
  <2> QED
    BY <1>1, <1>2, <2>1, <2>2 DEF Windows, PickFits, CanRow
<1>4. Places'
  BY <1>1 DEF Places
<1>5. snap' \in [can : Seq(Nat), fr : [FrBuses -> Nat]]
  BY <1>1 DEF Places
<1> QED
  BY <1>1, <1>3, <1>4, <1>5 DEF Pending, Present

LEMMA WindowsElse ==
    ASSUME Places, Pending, Windows,
           UNCHANGED <<can, fr, next, inbox, snap, frBuses, picks, curves>>
    PROVE  Windows' /\ Places' /\ Pending'
<1>1. After' = After
  BY DEF After
<1>2. Windows'
  BY <1>1 DEF Windows, PickFits, CanRow, FrRow, RemovesFirst, Removable, Positions
<1> QED
  BY <1>2 DEF Places, Pending, Present

Followed == Places /\ Pending /\ Windows

LEMMA FollowedInit == Init => Followed
<1> SUFFICES ASSUME Init PROVE Followed
  OBVIOUS
<1>1. picks = {} /\ curves = {}
  BY DEF Init
<1>2. Places /\ Pending /\ RemovesFirst
  BY PlacesInit, PendingInit
<1> QED
  BY <1>1, <1>2 DEF Followed, Windows

LEMMA FollowedNext == Prompt /\ Followed /\ [Next]_vars => Followed'
<1> SUFFICES ASSUME Prompt, Followed, [Next]_vars PROVE Followed'
  OBVIOUS
<1>1. Places /\ Pending /\ Windows
  BY DEF Followed
<1>2. ASSUME NEW ch \in 0 .. Len(snap.can) - 1, AppRemoveChannel(ch) PROVE Followed'
  BY <1>1, <1>2, WindowsRemoveChannel DEF Followed
<1>3. CASE AppAddChannel
  BY <1>1, <1>3, WindowsAddChannel DEF Followed
<1>4. CASE AppAddFrBus
  BY <1>1, <1>4, WindowsAddFrBus DEF Followed
<1>5. ASSUME NEW b \in FrBuses, AppRemoveFrBus(b) PROVE Followed'
  BY <1>1, <1>5, WindowsRemoveFrBus DEF Followed
<1>6. ASSUME NEW ch \in 0 .. Len(snap.can) - 1, Show(ch) PROVE Followed'
  BY <1>1, <1>6, WindowsShow DEF Followed
<1>7. ASSUME NEW b \in FrBuses, ShowFr(b) PROVE Followed'
  BY <1>1, <1>7, WindowsShowFr DEF Followed
<1>8. CASE Read
  BY <1>1, <1>8, WindowsRead DEF Followed
<1>9. CASE Handle
  <2>1. Windows'
    BY <1>1, <1>9, WindowsHandle
  <2>2. Places' /\ Pending'
    BY <1>1, <1>9, HandleIs DEF Windows
  <2> QED
    BY <2>1, <2>2 DEF Followed
<1>10. CASE Attaching
  <2>1. UNCHANGED <<can, fr, next, inbox, snap, frBuses, picks, curves>>
    BY <1>10 DEF Attaching, AddItem, AddRule, Subscribe
  <2> QED
    BY <1>1, <2>1, WindowsElse DEF Followed
<1>11. CASE Routing
  <2>1. UNCHANGED <<can, fr, next, inbox, snap, frBuses, picks, curves>>
    BY <1>11 DEF Routing, SetReplayMap
  <2> QED
    BY <1>1, <2>1, WindowsElse DEF Followed
<1>12. CASE UNCHANGED vars
  <2>1. UNCHANGED <<can, fr, next, inbox, snap, frBuses, picks, curves>>
    BY <1>12 DEF vars, core
  <2> QED
    BY <1>1, <2>1, WindowsElse DEF Followed
<1> QED
  BY <1>2, <1>3, <1>4, <1>5, <1>6, <1>7, <1>8, <1>9, <1>10, <1>11, <1>12 DEF Next

-----------------------------------------------------------------------------
(* Saving a project and opening it.                                        *)

Keyed == curves \in SUBSET [space : {"can", "fr"}, cluster : Nat]

\* A saved project is the workspace, which waits for it to be opened.
Filed == file # NoProject =>
    /\ Settled /\ file = FromApp
    /\ RowsAnytime \/ curves = {} \/ Numbered

LEMMA KeyedNext == Followed /\ Keyed /\ [Next]_vars => Keyed'
<1> SUFFICES ASSUME Followed, Keyed, [Next]_vars PROVE Keyed'
  OBVIOUS
<1>1. /\ snap \in [can : Seq(Nat), fr : [FrBuses -> Nat]]
      /\ \A ch \in 0 .. Len(snap.can) - 1 : snap.can[ch + 1] \in Nat
      /\ \A b \in FrBuses : snap.fr[b] \in Nat
  <2>1. snap \in [can : Seq(Nat), fr : [FrBuses -> Nat]]
    BY DEF Followed, Pending
  <2>2. snap.can \in Seq(Nat) /\ snap.fr \in [FrBuses -> Nat] /\ Len(snap.can) \in Nat
    BY <2>1
  <2>3. \A ch \in 0 .. Len(snap.can) - 1 : ch + 1 \in 1 .. Len(snap.can)
    BY <2>2
  <2> QED
    BY <2>1, <2>2, <2>3
<1>2. ASSUME NEW ch \in 0 .. Len(snap.can) - 1, AppRemoveChannel(ch) PROVE Keyed'
  BY <1>2 DEF AppRemoveChannel, Keyed
<1>3. ASSUME NEW b \in FrBuses, AppRemoveFrBus(b) PROVE Keyed'
  BY <1>3 DEF AppRemoveFrBus, Keyed
<1>4. ASSUME NEW ch \in 0 .. Len(snap.can) - 1, Show(ch) PROVE Keyed'
  BY <1>1, <1>4 DEF Show, Keyed
<1>5. ASSUME NEW b \in FrBuses, ShowFr(b) PROVE Keyed'
  BY <1>1, <1>5 DEF ShowFr, Keyed
<1>6. CASE curves' = curves
  BY <1>6 DEF Keyed
<1> QED
  BY <1>2, <1>3, <1>4, <1>5, <1>6
     DEF Next, AppAddChannel, AppAddFrBus, Read, Handle, Attaching, Routing, vars

\* Once the frontend has read what the core did, everything fits.
LEMMA FollowedMeans == Followed => WindowsFollow
<1> SUFFICES ASSUME Followed, Settled PROVE WindowsFollow
  BY DEF WindowsFollow
<1>1. Places /\ Windows /\ frBuses \in SUBSET FrBuses /\ After = can
  BY DEF Followed, Pending, Settled, After
<1>2. can \in Seq(Nat) /\ Len(can) \in Nat /\ DOMAIN can = 1 .. Len(can)
  BY <1>1 DEF Places
<1>3. \A p \in picks : p.ch \in Positions /\ Cluster(p.ch) = p.of
  <2> TAKE p \in picks
  <2>1. p.ch \in Nat /\ p.ch + 1 \in 1 .. Len(can) /\ can[p.ch + 1] = p.of
    BY <1>1 DEF Windows, PickFits
  <2> QED
    BY <1>2, <2>1 DEF Positions, Cluster
<1>4. \A k \in curves : Alive(k, can, fr)
  BY <1>1, <1>2 DEF Windows, CanRow, FrRow, Alive, ToSet
<1>5. \A i, j \in DOMAIN can : can[i] = can[j] => i = j
  BY <1>1, <1>2 DEF Places
<1>6. CanClusters \cap FrClusters = {}
  BY <1>1, <1>2 DEF Places, CanClusters, FrClusters, ToSet
<1> QED
  BY <1>3, <1>4, <1>5, <1>6 DEF WindowsFollow

LEMMA SettledPresent ==
    ASSUME Followed, Settled
    PROVE  /\ Present = frBuses /\ frBuses \in SUBSET FrBuses
           /\ \A b \in FrBuses : fr[b] # 0 <=> b \in frBuses
<1>1. PICK D : Plan(D, inbox, Present, frBuses)
  BY DEF Followed, Pending
<1>2. Len(inbox) = 0
  BY DEF Settled
<1>3. Present = frBuses /\ frBuses \in SUBSET FrBuses
  BY <1>1, <1>2 DEF Plan, Followed, Pending
<1> QED
  BY <1>3 DEF Present

\* The bus of an identity is the one that has it.
LEMMA BusOfCan ==
    ASSUME Places, NEW ch \in Nat, ch \in Positions, NEW frs
    PROVE  BusOf("can", can[ch + 1], can, frs) = ch
<1> DEFINE x == can[ch + 1]
<1>1. can \in Seq(Nat) /\ Len(can) \in Nat
  BY DEF Places
<1>2. ch \in 0 .. Len(can) - 1 /\ can[ch + 1] = x
  BY DEF Positions
<1>3. \A c \in 0 .. Len(can) - 1 : can[c + 1] = x => c = ch
  <2> TAKE c \in 0 .. Len(can) - 1
  <2> HAVE can[c + 1] = x
  <2>1. c + 1 \in 1 .. Len(can) /\ ch + 1 \in 1 .. Len(can)
    BY <1>1, <1>2
  <2>2. c + 1 = ch + 1
    BY <2>1 DEF Places
  <2> QED
    BY <1>1, <2>2
<1> HIDE DEF x
<1>4. (CHOOSE c \in 0 .. Len(can) - 1 : can[c + 1] = x) = ch
  BY <1>2, <1>3
<1> QED
  BY <1>4 DEF BusOf, x

LEMMA BusOfFr ==
    ASSUME Places, NEW frs, NEW cans, NEW b \in DOMAIN frs, DOMAIN frs \subseteq FrBuses,
           \A c \in DOMAIN frs : frs[c] = fr[c], fr[b] # 0
    PROVE  BusOf("fr", fr[b], cans, frs) = b
<1> DEFINE x == fr[b]
<1>1. frs[b] = x
  OBVIOUS
<1>2. \A c \in DOMAIN frs : frs[c] = x => c = b
  BY DEF Places
<1> HIDE DEF x
<1>3. (CHOOSE c \in DOMAIN frs : frs[c] = x) = b
  BY <1>1, <1>2
<1>4. "fr" # "can"
  OBVIOUS
<1> QED
  BY <1>3, <1>4 DEF BusOf, x

\* What was filed is what is there.
LEMMA FileIs ==
    ASSUME Followed, Filed, file # NoProject
    PROVE  /\ file.can = can /\ file.next = next /\ file.map = map
           /\ file.fr = [b \in frBuses |-> fr[b]] /\ DOMAIN file.fr = frBuses
           /\ \A b \in frBuses : file.fr[b] = fr[b]
           /\ file.senders = SavedSenders /\ file.rules = SavedRules
           /\ file.settings.sited = {i \in items : i.kind \in Sited}
           /\ file.settings.picks = picks /\ file.settings.rows = SavedRows
           /\ Settled /\ (RowsAnytime \/ curves = {} \/ Numbered)
<1>1. /\ file = FromApp
      /\ Settled /\ (RowsAnytime \/ curves = {} \/ Numbered)
  BY DEF Filed
<1>2. /\ file.can = can /\ file.next = next /\ file.map = map
      /\ file.fr = [b \in frBuses |-> fr[b]]
      /\ file.senders = SavedSenders /\ file.rules = SavedRules
      /\ file.settings = Settings
  BY <1>1 DEF FromApp
<1>3. /\ Settings.sited = {i \in items : i.kind \in Sited}
      /\ Settings.picks = picks /\ Settings.rows = SavedRows
  BY DEF Settings
<1> QED
  BY <1>1, <1>2, <1>3

\* A row finds its bus again, and the bus its identity.
LEMMA RowReturns ==
    ASSUME Followed, Keyed, Numbered, Settled, NEW k \in curves,
           NEW frs, frs = [b \in frBuses |-> fr[b]]
    PROVE  LET bus == IF Alive(k, can, fr) THEN BusOf(k.space, k.cluster, can, fr) ELSE 0
           IN  k.cluster = IF k.space = "can" THEN FreshCan(Len(can))[bus + 1]
                           ELSE FreshFr(Len(can), DOMAIN frs)[bus]
<1> DEFINE bus == IF Alive(k, can, fr) THEN BusOf(k.space, k.cluster, can, fr) ELSE 0
<1>1. Alive(k, can, fr)
  BY FollowedMeans DEF WindowsFollow
<1>2. Places /\ DOMAIN frs = frBuses /\ can \in Seq(Nat) /\ Len(can) \in Nat
  BY DEF Followed, Places
<1>3. bus = BusOf(k.space, k.cluster, can, fr)
  BY <1>1
<1>4. k.space \in {"can", "fr"}
  BY DEF Keyed
<1> HIDE DEF bus
<1>5. CASE k.space = "can"
  <2>1. PICK i \in 1 .. Len(can) : can[i] = k.cluster
    BY <1>1, <1>2, <1>5 DEF Alive, ToSet
  <2>2. i - 1 \in Nat /\ i - 1 \in Positions /\ (i - 1) + 1 = i
    BY <1>2, <2>1 DEF Positions
  <2>3. bus = i - 1
    BY <1>2, <1>3, <1>5, <2>1, <2>2, BusOfCan
  <2>4. FreshCan(Len(can))[bus + 1] = k.cluster
    BY <2>1, <2>2, <2>3 DEF Numbered
  <2> QED
    BY <1>5, <2>4 DEF bus
<1>6. CASE k.space = "fr"
  <2>1. PICK b \in FrBuses : fr[b] = k.cluster /\ fr[b] # 0 /\ b \in frBuses
    <3>1. CASE CanRow(k)
      BY <1>6, <3>1 DEF CanRow
    <3>2. CASE \E b \in frBuses : FrRow(k, b)
      BY <3>2 DEF FrRow, Followed, Pending
    <3> QED
      BY <3>1, <3>2 DEF Followed, Windows
  <2>2. bus = b
    <3>1. DOMAIN fr = FrBuses
      BY <1>2 DEF Places
    <3> QED
      BY <1>2, <1>3, <1>6, <2>1, <3>1, BusOfFr
  <2>3. FreshFr(Len(can), frBuses)[bus] = k.cluster
    BY <2>1, <2>2 DEF Numbered
  <2> QED
    BY <1>2, <1>6, <2>3 DEF bus
<1> QED
  BY <1>4, <1>5, <1>6

LEMMA RowsReturn ==
    ASSUME Followed, Keyed, Filed, ~RowsAnytime, file # NoProject
    PROVE  RestoredRows = curves
<1> DEFINE bus(k) == IF Alive(k, can, fr) THEN BusOf(k.space, k.cluster, can, fr) ELSE 0
           Row(k) == [space |-> k.space, bus |-> bus(k)]
           cans == FreshCan(Len(file.can))
           frs == FreshFr(Len(file.can), DOMAIN file.fr)
           Key(r) == [space |-> r.space,
                      cluster |-> IF r.space = "can" THEN cans[r.bus + 1] ELSE frs[r.bus]]
<1>1. RestoredRows = {Key(r) : r \in {Row(k) : k \in curves}}
  <2>1. file.settings.rows = SavedRows
    BY FileIs
  <2>2. SavedRows = {Row(k) : k \in curves}
    BY DEF SavedRows
  <2> QED
    BY <2>1, <2>2 DEF RestoredRows
<1>2. ASSUME NEW k \in curves PROVE Key(Row(k)) = k
  <2>1. Numbered /\ Settled /\ file.can = can /\ file.fr = [b \in frBuses |-> fr[b]]
    BY <1>2, FileIs
  <2>2. k.cluster = IF k.space = "can" THEN cans[bus(k) + 1] ELSE frs[bus(k)]
    BY <2>1, RowReturns
  <2>3. k = [space |-> k.space, cluster |-> k.cluster]
    BY DEF Keyed
  <2> HIDE DEF bus, cans, frs
  <2>4. Row(k).space = k.space /\ Row(k).bus = bus(k)
    OBVIOUS
  <2>5. Key(Row(k)) = [space |-> k.space, cluster |-> k.cluster]
    BY <2>2, <2>4
  <2> QED
    BY <2>3, <2>5
<1> HIDE DEF Key, Row
<1>3. {Key(r) : r \in {Row(k) : k \in curves}} = curves
  BY <1>2
<1> QED
  BY <1>1, <1>3

\* The core opens on the buses that were saved.
LEMMA OpenIs ==
    ASSUME Followed, Keyed, Filed, ~RowsAnytime, OpenProject
    PROVE  /\ UNCHANGED <<can, fr, next, inbox, snap, frBuses, picks, curves, map>>
           /\ subs' = curves /\ rules' = RestoredRules
           /\ items' = RestoredSenders \cup {i \in items : i.kind \in Sited}
<1>1. file # NoProject
  BY DEF OpenProject
<1>2. /\ can' = file.can /\ next' = file.next /\ map' = file.map
      /\ fr' = [b \in FrBuses |-> IF b \in DOMAIN file.fr THEN file.fr[b] ELSE 0]
      /\ frBuses' = DOMAIN file.fr /\ inbox' = << >> /\ snap' = [can |-> can', fr |-> fr']
      /\ picks' = file.settings.picks /\ curves' = RestoredRows
      /\ subs' = RestoredRows /\ rules' = RestoredRules
      /\ items' = RestoredSenders \cup file.settings.sited
  BY DEF OpenProject, SetClusterIds, ApplySettings, View
<1>3. /\ file.can = can /\ file.next = next /\ file.map = map
      /\ DOMAIN file.fr = frBuses /\ \A b \in frBuses : file.fr[b] = fr[b]
      /\ file.settings.sited = {i \in items : i.kind \in Sited}
      /\ file.settings.picks = picks /\ Settled
  BY <1>1, FileIs
<1>4. RestoredRows = curves
  BY <1>1, RowsReturn
<1>5. fr' = fr
  <2>1. fr \in [FrBuses -> Nat]
    BY DEF Followed, Places
  <2>2. \A b \in FrBuses : fr[b] # 0 <=> b \in frBuses
    BY <1>3, SettledPresent
  <2>3. \A b \in FrBuses : fr'[b] = fr[b]
    BY <1>2, <1>3, <2>2
  <2>4. fr' = [b \in FrBuses |-> fr'[b]] /\ fr = [b \in FrBuses |-> fr[b]]
    BY <1>2, <2>1
  <2> QED
    BY <2>3, <2>4
<1>6. inbox = << >> /\ snap = [can |-> can, fr |-> fr]
  BY <1>3 DEF Settled, View
<1> QED
  BY <1>2, <1>3, <1>4, <1>5, <1>6

LEMMA SameFile == UNCHANGED vars => FromApp' = FromApp
<1> SUFFICES ASSUME UNCHANGED vars PROVE FromApp' = FromApp
  OBVIOUS
<1>1. UNCHANGED <<can, fr, next, items, rules, map, frBuses, picks, curves>>
  BY DEF vars, core
<1>2. SavedSenders' = SavedSenders
  BY <1>1 DEF SavedSenders, Cluster
<1>3. SavedRules' = SavedRules
  BY <1>1 DEF SavedRules, Cluster, CanBus
<1>4. SavedRows' = SavedRows
  BY <1>1 DEF SavedRows, Alive, BusOf
<1>5. Settings' = Settings
  BY <1>1, <1>4 DEF Settings
<1>6. [b \in frBuses |-> fr[b]]' = [b \in frBuses |-> fr[b]]
  BY <1>1
<1> QED
  BY <1>1, <1>2, <1>3, <1>5, <1>6 DEF FromApp

LEMMA FiledSame == Filed /\ UNCHANGED <<vars, file>> => Filed'
<1> SUFFICES ASSUME Filed, UNCHANGED <<vars, file>>, file' # NoProject
             PROVE  /\ Settled' /\ file' = FromApp'
                    /\ (RowsAnytime \/ curves = {} \/ Numbered)'
  BY DEF Filed, NoProject
<1>1. /\ file' = file /\ FromApp' = FromApp /\ Settled /\ file = FromApp
      /\ (RowsAnytime \/ curves = {} \/ Numbered)
  BY SameFile DEF Filed
<1>2. Settled' /\ Numbered' = Numbered
  BY <1>1 DEF Settled, View, vars, core, Numbered
<1> QED
  BY <1>1, <1>2 DEF vars

SavedInv == Followed /\ Keyed /\ Filed

LEMMA SavedInit == ProjectInit => SavedInv
BY FollowedInit DEF ProjectInit, SavedInv, Keyed, Filed, Init

LEMMA SavedNext ==
    Prompt /\ ~RowsAnytime /\ SavedInv /\ [ProjectNext]_projectVars => SavedInv'
<1> SUFFICES ASSUME Prompt, ~RowsAnytime, SavedInv, [ProjectNext]_projectVars
             PROVE  SavedInv'
  OBVIOUS
<1>1. Followed /\ Keyed /\ Filed
  BY DEF SavedInv
<1>2. CASE file = NoProject /\ Next /\ UNCHANGED file
  <2>1. Followed' /\ Keyed'
    BY <1>1, <1>2, FollowedNext, KeyedNext
  <2>2. Filed'
    BY <1>2 DEF Filed, NoProject
  <2> QED
    BY <2>1, <2>2 DEF SavedInv
<1>3. CASE SaveProject
  <2>1. UNCHANGED vars
    BY <1>3 DEF SaveProject
  <2>2. Followed' /\ Keyed'
    BY <1>1, <2>1, FollowedNext, KeyedNext
  <2>3. Filed'
    <3>1. FromApp' = FromApp /\ file' = FromApp /\ Settled
          /\ (RowsAnytime \/ curves = {} \/ Numbered)
      BY <1>3, <2>1, SameFile DEF SaveProject
    <3>2. Settled' /\ Numbered' = Numbered /\ curves' = curves
      BY <2>1, <3>1 DEF Settled, View, vars, core, Numbered
    <3> QED
      BY <3>1, <3>2 DEF Filed
  <2> QED
    BY <2>2, <2>3 DEF SavedInv
<1>4. CASE OpenProject
  <2>1. UNCHANGED <<can, fr, next, inbox, snap, frBuses, picks, curves, map>>
    BY <1>1, <1>4, OpenIs
  <2>2. Followed'
    BY <1>1, <2>1, WindowsElse DEF Followed
  <2>3. Keyed' /\ Filed'
    BY <1>1, <1>4, <2>1 DEF Keyed, Filed, OpenProject, NoProject
  <2> QED
    BY <2>2, <2>3 DEF SavedInv
<1>5. CASE UNCHANGED projectVars
  <2>1. UNCHANGED vars /\ UNCHANGED file
    BY <1>5 DEF projectVars
  <2>2. Followed' /\ Keyed'
    BY <1>1, <2>1, FollowedNext, KeyedNext
  <2>3. Filed'
    BY <1>1, <2>1, FiledSame
  <2> QED
    BY <2>2, <2>3 DEF SavedInv
<1> QED
  BY <1>2, <1>3, <1>4, <1>5 DEF ProjectNext

\* However buses come and go on either side of the queue, the windows of a frontend
\* that has read what the core did are on the buses they were opened for.
THEOREM WindowsStay ==
    Prompt /\ ~RowsAnytime /\ ProjectSpec => []WindowsFollow
<1>1. CASE Prompt /\ ~RowsAnytime
  <2>1. SavedInv => WindowsFollow
    BY FollowedMeans DEF SavedInv
  <2>2. SavedInv /\ [ProjectNext]_projectVars => SavedInv'
    BY <1>1, SavedNext
  <2> QED
    BY <2>1, <2>2, SavedInit, PTL DEF ProjectSpec
<1> QED
  BY <1>1

-----------------------------------------------------------------------------
(* What hangs on the buses.                                                *)

End == [space : {"can"}, bus : Nat] \cup [space : {"fr"}, bus : FrBuses]
         \cup [space : {"none"}, bus : {NoBus}]

ItemFits(i) == i \in [kind : Kinds, n : {i.n}, ch : Nat] /\ i.ch \in Positions

\* A rule that sends on a CAN bus watches one; the bus it watches is there, or the
\* command that clears the rule comes next.
RuleFits(r) ==
    /\ r \in [watch : End, send : End, n : {r.n}]
    /\ r.watch.space = "can" => r.watch.bus \in Positions
    /\ r.send.space = "can" => r.send.bus \in Positions /\ r.watch.space = "can"
    /\ r.send.space # "fr"
    /\ r.watch.space = "fr" /\ fr[r.watch.bus] = 0 =>
         inbox # << >> /\ inbox[1] = Forget(r.watch.bus)

\* The key of a bus that is gone stays the key of nothing.
SubFits(k) ==
    \/ k.space = "can" /\ k.cluster \in ToSet(can)
    \/ /\ k.space = "fr" /\ k.cluster \in Nat /\ k.cluster < next
       /\ k.cluster \notin ToSet(can)

Hangs ==
    /\ \A i \in items : ItemFits(i)
    /\ \A r \in rules : RuleFits(r)
    /\ \A k \in subs : SubFits(k)
    /\ map \in [{"can", "fr"} -> Int]
    /\ \A s \in {"can", "fr"} : map[s] < next

Narrow == ~CrossRules /\ "fr" \notin Sends /\ Lanes = {}

LEMMA HangsInit == Init => Hangs
<1> SUFFICES ASSUME Init PROVE Hangs
  OBVIOUS
<1>1. /\ items = {} /\ rules = {} /\ subs = {} /\ next = 3
      /\ map = [k \in {"can", "fr"} |-> 0]
  BY DEF Init, Same
<1> QED
  BY <1>1 DEF Hangs

\* The core's collections after a bus is removed.
LEMMA ItemsRemoved ==
    ASSUME Places, NEW ch \in Nat, Removable(ch), RemoveChannel(ch), NEW i, ItemFits(i),
           i.ch # ch
    PROVE  LET j == [i EXCEPT !.ch = Shifted(@, ch)]
           IN  ItemFits(j)' /\ j.kind = i.kind /\ j.n = i.n /\ can'[j.ch + 1] = can[i.ch + 1]
<1>1. /\ Shifted(i.ch, ch) \in 0 .. Len(can') - 1
      /\ can'[Shifted(i.ch, ch) + 1] = can[i.ch + 1]
  BY PlacesRemoveChannel DEF ItemFits
<1>2. Len(can') \in Nat
  BY PlacesRemoveChannel DEF Places
<1>3. Shifted(i.ch, ch) \in Nat
  BY <1>1, <1>2
<1> DEFINE c == Shifted(i.ch, ch)
           j == [i EXCEPT !.ch = c]
<1> HIDE DEF c
<1>4. i \in [kind : Kinds, n : {i.n}, ch : Nat] /\ c \in Nat
  BY <1>3 DEF ItemFits, c
<1>5. j.kind = i.kind /\ j.n = i.n /\ j.ch = c /\ j \in [kind : Kinds, n : {j.n}, ch : Nat]
  BY <1>4
<1> QED
  BY <1>1, <1>5 DEF ItemFits, Positions, c

LEMMA RuleIs ==
    ASSUME NEW r, RuleFits(r)
    PROVE  /\ r.watch \in End /\ r.send \in End
           /\ r = [watch |-> r.watch, send |-> r.send, n |-> r.n]
           /\ r.watch = [space |-> r.watch.space, bus |-> r.watch.bus]
           /\ r.send = [space |-> r.send.space, bus |-> r.send.bus]
           /\ r.watch.space \in {"can", "fr", "none"} /\ r.send.space \in {"can", "none"}
           /\ r.watch.space = "can" => r.watch.bus \in Nat
           /\ r.send.space = "can" => r.send.bus \in Nat
           /\ r.watch.space = "fr" => r.watch.bus \in FrBuses
<1>1. r \in [watch : End, send : End, n : {r.n}]
  BY DEF RuleFits
<1>2. /\ r.watch \in End /\ r.send \in End
      /\ r = [watch |-> r.watch, send |-> r.send, n |-> r.n]
  BY <1>1
<1>3. \A e \in End : /\ e = [space |-> e.space, bus |-> e.bus]
                     /\ e.space \in {"can", "fr", "none"}
                     /\ e.space = "can" => e.bus \in Nat
                     /\ e.space = "fr" => e.bus \in FrBuses
  BY DEF End
<1> QED
  BY <1>2, <1>3 DEF RuleFits

LEMMA RulesRemoved ==
    ASSUME Places, NEW ch \in Nat, Removable(ch), RemoveChannel(ch), NEW r, RuleFits(r),
           CanBus(ch) \notin {r.watch, r.send}, r.watch.space = "can"
    PROVE  LET q == Renumbered(r, Shifted(r.watch.bus, ch),
                        IF r.send.space = "can" THEN Shifted(r.send.bus, ch) ELSE r.send.bus)
           IN  /\ RuleFits(q)' /\ q.watch.space = "can" /\ q.send.space = r.send.space
               /\ q.n = r.n
               /\ can'[q.watch.bus + 1] = can[r.watch.bus + 1]
               /\ q.send.space = "can" => can'[q.send.bus + 1] = can[r.send.bus + 1]
<1> DEFINE w == Shifted(r.watch.bus, ch)
           s == IF r.send.space = "can" THEN Shifted(r.send.bus, ch) ELSE r.send.bus
           q == Renumbered(r, w, s)
<1>1. /\ r.send.space \in {"can", "none"} /\ r.send \in End
      /\ r.watch.bus \in Positions
      /\ r.send.space = "can" => r.send.bus \in Positions
  BY RuleIs DEF RuleFits
<1>2. r.watch.bus # ch /\ (r.send.space = "can" => r.send.bus # ch)
  <2>1. /\ r.watch = [space |-> r.watch.space, bus |-> r.watch.bus]
        /\ r.send = [space |-> r.send.space, bus |-> r.send.bus]
    BY RuleIs
  <2> QED
    BY <2>1 DEF CanBus
<1>3. /\ Len(can') \in Nat
      /\ \A c \in Positions : c # ch =>
                /\ Shifted(c, ch) \in 0 .. Len(can') - 1
                /\ can'[Shifted(c, ch) + 1] = can[c + 1]
  BY PlacesRemoveChannel DEF Places
<1>4. w \in 0 .. Len(can') - 1 /\ w \in Nat /\ can'[w + 1] = can[r.watch.bus + 1]
  BY <1>1, <1>2, <1>3
<1>5. r.send.space = "can" =>
        s \in 0 .. Len(can') - 1 /\ s \in Nat /\ can'[s + 1] = can[r.send.bus + 1]
  BY <1>1, <1>2, <1>3
<1>6. r.send.space = "none" => s = NoBus
  BY <1>1 DEF End
<1> HIDE DEF w, s
<1>7. /\ q.watch = [space |-> "can", bus |-> w] /\ q.send = [space |-> r.send.space, bus |-> s]
      /\ q.n = r.n /\ q = [watch |-> q.watch, send |-> q.send, n |-> q.n]
  BY DEF Renumbered
<1>8. q.watch \in End /\ q.send \in End
  BY <1>1, <1>4, <1>5, <1>6, <1>7 DEF End
<1> HIDE DEF q
<1>9. q \in [watch : End, send : End, n : {q.n}]
  BY <1>7, <1>8
<1>10. RuleFits(q)'
  BY <1>1, <1>4, <1>5, <1>7, <1>9 DEF RuleFits, Positions
<1>11. /\ RuleFits(q)' /\ q.watch.space = "can" /\ q.send.space = r.send.space
       /\ q.n = r.n
       /\ can'[q.watch.bus + 1] = can[r.watch.bus + 1]
       /\ q.send.space = "can" => can'[q.send.bus + 1] = can[r.send.bus + 1]
  BY <1>4, <1>5, <1>7, <1>10
<1> QED
  BY <1>11 DEF q, w, s

\* What the core does with the head of the queue.
LEMMA HangsHandle ==
    ASSUME Places, Pending, RemovesFirst, Hangs, Handle
    PROVE  Hangs'
<1> DEFINE c == inbox[1]
<1>1. /\ c \in Command /\ inbox \in Seq(Command) /\ inbox # << >>
      /\ inbox' = Tail(inbox)
      /\ Places' /\ next <= next' /\ next' \in Nat /\ next \in Nat
      /\ \/ /\ c.cmd = "RemoveChannel" /\ c.ch \in Nat
            /\ Removable(c.ch) /\ RemoveChannel(c.ch)
         \/ c.cmd = "AddChannel" /\ AddChannel
         \/ /\ c.cmd = "SetFrDbs" /\ c.described \in SUBSET FrBuses
            /\ SetFrDbs(c.described)
            /\ \/ \E b \in FrBuses : c.described = Present \cup {b}
               \/ \E b \in Present : /\ c.described = Present \ {b}
                                     /\ 1 < Len(inbox) /\ inbox[2] = Forget(b)
         \/ /\ c.cmd = "RemoveFrBus" /\ c.bus \in FrBuses
            /\ RemoveFrBus(c.bus) /\ fr[c.bus] = 0
            /\ UNCHANGED <<can, fr, next, items, map>>
  BY HandleIs DEF Places
<1>2. /\ \A i \in items : ItemFits(i)
      /\ \A r \in rules : RuleFits(r)
      /\ \A k \in subs : SubFits(k)
      /\ map \in [{"can", "fr"} -> Int]
      /\ \A s \in {"can", "fr"} : map[s] < next
  BY DEF Hangs
<1>3. c.cmd # "RemoveFrBus" => \A r \in rules : r.watch.space = "fr" => fr[r.watch.bus] # 0
  <2> SUFFICES ASSUME NEW r \in rules, r.watch.space = "fr", fr[r.watch.bus] = 0
               PROVE  c.cmd = "RemoveFrBus"
    OBVIOUS
  <2>1. inbox[1] = Forget(r.watch.bus)
    BY <1>2 DEF RuleFits
  <2> QED
    BY <2>1 DEF Forget
<1> HIDE DEF c
<1>4. CASE c.cmd = "RemoveChannel"
  <2>0. PICK ch \in Nat : ch = c.ch
    BY <1>1, <1>4
  <2>1. /\ RemoveChannel(ch) /\ Removable(ch)
        /\ UNCHANGED <<fr, next>>
        /\ items' = ItemsWithout(ch) /\ rules' = RulesWithout(ch)
        /\ subs' = {k \in subs : Alive(k, can', fr)}
        /\ map' = MapWithout("can", Cluster(ch))
    BY <1>1, <1>4, <2>0 DEF RemoveChannel, Removable
  <2>2. \A i \in items' : ItemFits(i)'
    BY <1>2, <2>1, ItemsRemoved DEF ItemsWithout
  <2>3. ASSUME NEW q \in rules' PROVE RuleFits(q)'
    <3> DEFINE New(r) ==
          Renumbered(r, Shifted(r.watch.bus, ch),
                     IF r.send.space = "can" THEN Shifted(r.send.bus, ch) ELSE r.send.bus)
    <3>1. PICK r \in rules : /\ CanBus(ch) \notin {r.watch, r.send}
                             /\ q = IF r.watch.space # "can" THEN r ELSE New(r)
      BY <2>1, <2>3 DEF RulesWithout
    <3>2. CASE r.watch.space = "can"
      <4>1. RuleFits(New(r))'
        BY <1>2, <2>1, <3>1, <3>2, RulesRemoved
      <4> QED
        BY <3>1, <3>2, <4>1
    <3>3. CASE r.watch.space # "can"
      <4>1. q = r /\ RuleFits(r) /\ r.send.space # "can"
        BY <1>2, <3>1, <3>3 DEF RuleFits
      <4>2. r.watch.space = "fr" => fr[r.watch.bus] # 0
        BY <1>3, <1>4
      <4> QED
        BY <2>1, <3>3, <4>1, <4>2 DEF RuleFits
    <3> QED
      BY <3>2, <3>3
  <2>4. ASSUME NEW k \in subs' PROVE SubFits(k)'
    <3>1. k \in subs /\ Alive(k, can', fr) /\ SubFits(k) /\ next' = next
      BY <1>2, <2>1, <2>4
    <3>2. ToSet(can') = ToSet(can) \ {Cluster(ch)}
      BY <2>1, PlacesRemoveChannel
    <3> QED
      BY <3>1, <3>2 DEF SubFits, Alive
  <2>5. /\ map' \in [{"can", "fr"} -> Int]
        /\ \A s \in {"can", "fr"} : map'[s] < next'
    <3>1. map' = [map EXCEPT !["can"] = IF @ = Cluster(ch) THEN -1 ELSE @]
      BY <2>1 DEF MapWithout, Drop
    <3> QED
      BY <1>1, <1>2, <2>1, <3>1
  <2> QED
    BY <2>2, <2>3, <2>4, <2>5 DEF Hangs
<1>5. CASE c.cmd = "AddChannel"
  <2>1. /\ AddChannel /\ UNCHANGED <<fr, items, rules, subs, map>> /\ next' = next + 1
    BY <1>1, <1>5 DEF AddChannel
  <2>2. /\ Len(can') = Len(can) + 1 /\ can'[Len(can) + 1] = next /\ Len(can) \in Nat
        /\ \A i \in 1 .. Len(can) : can'[i] = can[i]
        /\ DOMAIN can' = 1 .. Len(can') /\ DOMAIN can = 1 .. Len(can)
    BY <2>1, PlacesAddChannel DEF Places
  <2>3. /\ \A ch \in Positions : ch \in Positions'
        /\ \A x \in ToSet(can') : x \in ToSet(can) \/ x = next
        /\ \A x \in ToSet(can) : x \in ToSet(can')
    BY <2>2 DEF Positions, ToSet
  <2>4. \A i \in items' : ItemFits(i)'
    BY <1>2, <2>1, <2>3 DEF ItemFits
  <2>5. \A r \in rules' : RuleFits(r)'
    <3> TAKE r \in rules'
    <3>1. RuleFits(r) /\ (r.watch.space = "fr" => fr[r.watch.bus] # 0)
      BY <1>2, <1>3, <1>5, <2>1
    <3> QED
      BY <2>1, <2>3, <3>1 DEF RuleFits
  <2>6. \A k \in subs' : SubFits(k)'
    BY <1>1, <1>2, <2>1, <2>3 DEF SubFits
  <2> QED
    BY <1>1, <1>2, <2>1, <2>4, <2>5, <2>6 DEF Hangs
<1>6. CASE c.cmd = "SetFrDbs"
  <2>1. /\ SetFrDbs(c.described) /\ UNCHANGED <<can, items, rules, subs, map>>
        /\ c.described \in SUBSET FrBuses
    BY <1>1, <1>6 DEF SetFrDbs
  <2>2. \A b \in FrBuses :
                /\ b \notin c.described => fr'[b] = 0
                /\ b \in c.described /\ fr[b] # 0 => fr'[b] = fr[b]
                /\ b \in c.described /\ fr[b] = 0 => fr'[b] # 0 /\ next <= fr'[b]
    BY <2>1, PlacesSetFrDbs
  <2>3. ASSUME NEW b \in FrBuses, fr[b] # 0, fr'[b] = 0
        PROVE  inbox' # << >> /\ inbox'[1] = Forget(b)
    <3>1. b \notin c.described /\ b \in Present
      BY <2>2, <2>3 DEF Present
    <3>2. 1 < Len(inbox) /\ inbox[2] = Forget(b)
      BY <1>1, <1>6, <3>1
    <3>3. Len(inbox') = Len(inbox) - 1 /\ inbox'[1] = inbox[2] /\ Len(inbox) \in Nat
      BY <1>1, <3>2
    <3> QED
      BY <3>2, <3>3
  <2>4. \A r \in rules' : RuleFits(r)'
    <3> TAKE r \in rules'
    <3>1. RuleFits(r) /\ (r.watch.space = "fr" => fr[r.watch.bus] # 0)
      BY <1>2, <1>3, <1>6, <2>1
    <3>2. r.watch.space = "fr" => r.watch.bus \in FrBuses
      BY <3>1, RuleIs
    <3> QED
      BY <2>1, <2>3, <3>1, <3>2 DEF RuleFits, Positions
  <2>5. \A k \in subs' : SubFits(k)'
    BY <1>1, <1>2, <2>1 DEF SubFits
  <2>6. \A i \in items' : ItemFits(i)'
    BY <1>2, <2>1 DEF ItemFits, Positions
  <2> QED
    BY <1>1, <1>2, <2>1, <2>4, <2>5, <2>6 DEF Hangs
<1>7. CASE c.cmd = "RemoveFrBus"
  <2>1. /\ UNCHANGED <<can, fr, next, items, map>> /\ c.bus \in FrBuses
        /\ subs' \subseteq subs
        /\ rules' = {r \in rules : r.watch # [space |-> "fr", bus |-> c.bus]}
    BY <1>1, <1>7 DEF RemoveFrBus
  <2>2. \A r \in rules' : RuleFits(r)'
    <3> TAKE r \in rules'
    <3>1. RuleFits(r) /\ r.watch # [space |-> "fr", bus |-> c.bus]
      BY <1>2, <2>1
    <3>2. r.watch = [space |-> r.watch.space, bus |-> r.watch.bus]
      BY <3>1, RuleIs
    <3>3. r.watch.space = "fr" => fr[r.watch.bus] # 0
      <4> SUFFICES ASSUME r.watch.space = "fr", fr[r.watch.bus] = 0 PROVE FALSE
        OBVIOUS
      <4>1. inbox[1] = Forget(r.watch.bus)
        BY <3>1 DEF RuleFits
      <4> QED
        BY <3>1, <3>2, <4>1 DEF Forget, c
    <3> QED
      BY <2>1, <3>1, <3>3 DEF RuleFits, Positions
  <2>3. \A k \in subs' : SubFits(k)'
    BY <1>2, <2>1 DEF SubFits
  <2>4. \A i \in items' : ItemFits(i)'
    BY <1>2, <2>1 DEF ItemFits, Positions
  <2> QED
    BY <1>2, <2>1, <2>2, <2>3, <2>4 DEF Hangs
<1> QED
  BY <1>1, <1>4, <1>5, <1>6, <1>7

\* Posting takes nothing from what hangs on the buses.
LEMMA FitsSame ==
    ASSUME UNCHANGED <<can, fr, next>>,
           inbox # << >> => inbox' # << >> /\ inbox'[1] = inbox[1]
    PROVE  /\ \A i : ItemFits(i) => ItemFits(i)'
           /\ \A r : RuleFits(r) => RuleFits(r)'
           /\ \A k : SubFits(k) => SubFits(k)'
<1>1. \A i : ItemFits(i) => ItemFits(i)'
  BY DEF ItemFits, Positions
<1>2. \A r : RuleFits(r) => RuleFits(r)'
  BY DEF RuleFits, Positions
<1>3. \A k : SubFits(k) => SubFits(k)'
  BY DEF SubFits
<1> QED
  BY <1>1, <1>2, <1>3

LEMMA PostKeeps ==
    ASSUME Pending, NEW cmds \in Seq(Command), inbox' = inbox \o cmds
    PROVE  inbox # << >> => inbox' # << >> /\ inbox'[1] = inbox[1]
<1> SUFFICES ASSUME inbox # << >> PROVE inbox' # << >> /\ inbox'[1] = inbox[1]
  OBVIOUS
<1>1. inbox \in Seq(Command) /\ 1 \in 1 .. Len(inbox)
  BY DEF Pending
<1> QED
  BY <1>1

\* What the frontend posts are commands.
LEMMA PostsAre ==
    ASSUME Followed, [Next]_vars, ~Handle
    PROVE  inbox # << >> => inbox' # << >> /\ inbox'[1] = inbox[1]
<1>1. Pending
  BY DEF Followed
<1>2. ASSUME NEW ch \in 0 .. Len(snap.can) - 1, AppRemoveChannel(ch)
      PROVE  inbox # << >> => inbox' # << >> /\ inbox'[1] = inbox[1]
  <2> DEFINE cs == <<[cmd |-> "RemoveChannel", ch |-> ch]>>
  <2>1. ch \in Nat
    BY <1>1 DEF Pending
  <2>2. cs \in Seq(Command) /\ inbox' = inbox \o cs
    BY <1>2, <2>1 DEF AppRemoveChannel, Post, Command
  <2> QED
    BY <1>1, <2>2, PostKeeps
<1>3. ASSUME AppAddChannel
      PROVE  inbox # << >> => inbox' # << >> /\ inbox'[1] = inbox[1]
  <2> DEFINE cs == <<[cmd |-> "AddChannel"]>>
  <2>1. cs \in Seq(Command) /\ inbox' = inbox \o cs
    BY <1>3 DEF AppAddChannel, Post, Command
  <2> QED
    BY <1>1, <2>1, PostKeeps
<1>4. ASSUME AppAddFrBus
      PROVE  inbox # << >> => inbox' # << >> /\ inbox'[1] = inbox[1]
  <2> DEFINE cs == <<Describe(frBuses')>>
  <2>1. frBuses' \in SUBSET FrBuses
    BY <1>1, <1>4 DEF AppAddFrBus, Pending
  <2>2. cs \in Seq(Command) /\ inbox' = inbox \o cs
    BY <1>4, <2>1 DEF AppAddFrBus, Post, Command, Describe
  <2> QED
    BY <1>1, <2>2, PostKeeps
<1>5. ASSUME NEW b \in FrBuses, AppRemoveFrBus(b)
      PROVE  inbox # << >> => inbox' # << >> /\ inbox'[1] = inbox[1]
  <2> DEFINE cs == <<Describe(frBuses'), Forget(b)>>
  <2>1. frBuses' \in SUBSET FrBuses
    BY <1>1, <1>5 DEF AppRemoveFrBus, Pending
  <2>2. Describe(frBuses') \in Command /\ Forget(b) \in Command
    BY <2>1 DEF Command, Describe, Forget
  <2>3. cs \in Seq(Command) /\ inbox' = inbox \o cs
    BY <1>5, <2>2 DEF AppRemoveFrBus, Post, Describe, Forget
  <2> QED
    BY <1>1, <2>3, PostKeeps
<1>6. ASSUME inbox' = inbox
      PROVE  inbox # << >> => inbox' # << >> /\ inbox'[1] = inbox[1]
  BY <1>6
<1> QED
  BY <1>2, <1>3, <1>4, <1>5, <1>6 DEF Next, Show, ShowFr, Read, Attaching, Routing, vars

\* A new sender, rule, key or route is on buses that are there.
LEMMA HangsAttaching ==
    ASSUME Places, Narrow, Hangs, Attaching
    PROVE  Hangs'
<1>1. UNCHANGED <<can, fr, next, inbox>>
  BY DEF Attaching, AddItem, AddRule, Subscribe
<1>2. /\ \A i : ItemFits(i) => ItemFits(i)'
      /\ \A r : RuleFits(r) => RuleFits(r)'
      /\ \A k : SubFits(k) => SubFits(k)'
  BY <1>1, FitsSame
<1> DEFINE n == Attached + 1
<1> HIDE DEF n
<1>3. \/ \E k \in Kinds, ch \in Positions : AddItem(k, ch, n)
      \/ \E w, s \in Ends : AddRule(w, s, n)
      \/ \E ch \in Positions : Subscribe([space |-> "can", cluster |-> Cluster(ch)])
      \/ \E b \in FrBuses : fr[b] # 0 /\ Subscribe([space |-> "fr", cluster |-> fr[b]])
  BY DEF Attaching, Narrow, n
<1>4. can \in Seq(Nat) /\ Len(can) \in Nat /\ DOMAIN can = 1 .. Len(can)
  BY DEF Places
<1>5. ASSUME NEW k \in Kinds, NEW ch \in Positions, AddItem(k, ch, n) PROVE Hangs'
  <2> DEFINE i == [kind |-> k, n |-> n, ch |-> ch]
  <2>1. items' = items \cup {i} /\ UNCHANGED <<rules, subs, map>>
    BY <1>5 DEF AddItem
  <2>2. ItemFits(i)
    BY <1>4 DEF ItemFits, Positions
  <2> HIDE DEF i
  <2> QED
    BY <1>1, <1>2, <2>1, <2>2 DEF Hangs
<1>6. ASSUME NEW w \in Ends, NEW s \in Ends, AddRule(w, s, n) PROVE Hangs'
  <2> DEFINE r == [watch |-> w, send |-> s, n |-> n]
  <2>1. rules' = rules \cup {r} /\ UNCHANGED <<items, subs, map>>
    BY <1>6 DEF AddRule
  <2>2. /\ \A e \in {w, s} : /\ e.space = "can" => e.bus \in Positions
                             /\ e.space = "fr" => fr[e.bus] # 0
        /\ s.space # "fr" /\ (s.space = "can" => w.space = "can")
    <3>1. \A e \in {w, s} : CASE e.space = "can" -> e.bus \in Positions
                              [] e.space = "fr" -> fr[e.bus] # 0
                              [] e.space = "none" -> TRUE
      BY <1>6 DEF AddRule
    <3>2. s.space \in Sends \cup {"none"} /\ (s.space = "can" => w.space = "can" \/ CrossRules)
      BY <1>6 DEF AddRule
    <3>3. \A e \in {w, s} : e.space \in {"can", "fr", "none"}
      BY DEF Ends
    <3> QED
      BY <3>1, <3>2, <3>3, BusesAssumption DEF Narrow
  <2>3. w \in End /\ s \in End
    <3>1. \A e \in Ends : e \in End
      BY BusesAssumption DEF Ends, End
    <3> QED
      BY <3>1
  <2>4. RuleFits(r)
    BY <2>2, <2>3 DEF RuleFits
  <2> HIDE DEF r
  <2> QED
    BY <1>1, <1>2, <2>1, <2>4 DEF Hangs
<1>7. ASSUME NEW ch \in Positions, Subscribe([space |-> "can", cluster |-> Cluster(ch)])
      PROVE  Hangs'
  <2> DEFINE k == [space |-> "can", cluster |-> Cluster(ch)]
  <2>1. subs' = subs \cup {k} /\ UNCHANGED <<items, rules, map>>
    BY <1>7 DEF Subscribe
  <2>2. SubFits(k)
    <3>1. ch + 1 \in DOMAIN can
      BY <1>4 DEF Positions
    <3> QED
      BY <3>1 DEF SubFits, Cluster, ToSet
  <2> HIDE DEF k
  <2> QED
    BY <1>1, <1>2, <2>1, <2>2 DEF Hangs
<1>8. ASSUME NEW b \in FrBuses, Subscribe([space |-> "fr", cluster |-> fr[b]]) PROVE Hangs'
  <2> DEFINE k == [space |-> "fr", cluster |-> fr[b]]
  <2>1. subs' = subs \cup {k} /\ UNCHANGED <<items, rules, map>>
    BY <1>8 DEF Subscribe
  <2>2. SubFits(k)
    BY <1>4 DEF SubFits, ToSet, Places
  <2> HIDE DEF k
  <2> QED
    BY <1>1, <1>2, <2>1, <2>2 DEF Hangs
<1> QED
  BY <1>3, <1>5, <1>6, <1>7, <1>8

LEMMA HangsRouting ==
    ASSUME Places, Hangs, Routing
    PROVE  Hangs'
<1>1. UNCHANGED <<can, fr, next, inbox, items, rules, subs>>
  BY DEF Routing, SetReplayMap
<1>2. /\ \A i : ItemFits(i) => ItemFits(i)'
      /\ \A r : RuleFits(r) => RuleFits(r)'
      /\ \A k : SubFits(k) => SubFits(k)'
  BY <1>1, FitsSame
<1>3. PICK s \in {"can", "fr"}, to \in Int : to < next /\ map' = [map EXCEPT ![s] = to]
  <2>1. next \in Nat /\ next > 0 /\ \A x \in ToSet(can) : x \in Int /\ x < next
    <3>1. can \in Seq(Nat) /\ DOMAIN can = 1 .. Len(can) /\ 1 \in 1 .. Len(can)
      BY DEF Places
    <3> QED
      BY <3>1 DEF Places, ToSet
  <2>2. \A b \in FrBuses : fr[b] \in Int /\ fr[b] < next
    BY DEF Places
  <2>3. \/ \E to \in {Same, Drop} \cup ToSet(can) : map' = [map EXCEPT !["can"] = to]
        \/ \E b \in FrBuses : map' = [map EXCEPT !["fr"] = fr[b]]
    BY DEF Routing, SetReplayMap
  <2> QED
    BY <2>1, <2>2, <2>3 DEF Same, Drop
<1>4. /\ map' \in [{"can", "fr"} -> Int]
      /\ \A k \in {"can", "fr"} : map'[k] < next'
  BY <1>1, <1>3 DEF Hangs
<1> QED
  BY <1>1, <1>2, <1>4 DEF Hangs

LEMMA HangsNext ==
    Prompt /\ Narrow /\ Followed /\ Hangs /\ [Next]_vars => Hangs'
<1> SUFFICES ASSUME Prompt, Narrow, Followed, Hangs, [Next]_vars PROVE Hangs'
  OBVIOUS
<1>1. Places /\ Pending /\ RemovesFirst
  BY DEF Followed, Windows
<1>2. CASE Handle
  BY <1>1, <1>2, HangsHandle
<1>3. CASE Attaching
  BY <1>1, <1>3, HangsAttaching
<1>4. CASE Routing
  BY <1>1, <1>4, HangsRouting
<1>5. CASE ~Handle /\ UNCHANGED core
  <2>1. UNCHANGED <<can, fr, next, items, rules, subs, map>>
    BY <1>5 DEF core
  <2>2. /\ \A i : ItemFits(i) => ItemFits(i)'
        /\ \A r : RuleFits(r) => RuleFits(r)'
        /\ \A k : SubFits(k) => SubFits(k)'
    BY <1>5, <2>1, PostsAre, FitsSame
  <2> QED
    BY <2>1, <2>2 DEF Hangs
<1> QED
  BY <1>2, <1>3, <1>4, <1>5 DEF Next, AppRemoveChannel, AppAddChannel, AppAddFrBus,
       AppRemoveFrBus, Show, ShowFr, Read, vars

-----------------------------------------------------------------------------
(* A project opens as it was saved.                                        *)

LEMMA SendersReturn ==
    ASSUME Followed, Hangs, Filed, file # NoProject
    PROVE  RestoredSenders = {i \in items : i.kind = "tx"}
<1> DEFINE Saved(i) == [i EXCEPT !.ch = Cluster(@)]
           Back(j) == [j EXCEPT !.ch = BusIn("can", @)]
<1>1. RestoredSenders = {Back(j) : j \in {Saved(i) : i \in {j \in items : j.kind = "tx"}}}
  BY FileIs DEF RestoredSenders, SavedSenders
<1>2. ASSUME NEW i \in items PROVE Back(Saved(i)) = i
  <2>1. i \in [kind : Kinds, n : {i.n}, ch : Nat] /\ i.ch \in Positions
    BY DEF Hangs, ItemFits
  <2>2. file.can = can
    BY FileIs
  <2>3. BusIn("can", can[i.ch + 1]) = i.ch
    BY <2>1, <2>2, BusOfCan DEF BusIn, Followed
  <2> DEFINE x == can[i.ch + 1]
             y == BusIn("can", x)
             j == [i EXCEPT !.ch = x]
  <2>4. Saved(i) = j
    BY DEF Cluster
  <2> HIDE DEF x
  <2>5. Back(j) = [j EXCEPT !.ch = y]
    BY <2>1
  <2>6. [j EXCEPT !.ch = y] = i
    <3>1. y = i.ch
      BY <2>3 DEF x
    <3> HIDE DEF y
    <3> QED
      BY <2>1, <3>1
  <2> HIDE DEF Saved, Back
  <2> QED
    BY <2>4, <2>5, <2>6
<1> HIDE DEF Saved, Back
<1> QED
  BY <1>1, <1>2

\* A rule finds the buses it watches and sends on again.
LEMMA RulesReturn ==
    ASSUME Followed, Hangs, Filed, file # NoProject
    PROVE  RestoredRules = rules
<1> DEFINE Watch(r) == CASE r.watch.space = "can" -> CanBus(Cluster(r.watch.bus))
                         [] r.watch.space = "fr" -> [space |-> "fr", bus |-> fr[r.watch.bus]]
                         [] r.watch.space = "none" -> r.watch
           Send(r) == CASE r.send.space = "can" -> CanBus(Cluster(r.send.bus))
                        [] r.send.space = "fr" -> [space |-> "fr", bus |-> 0]
                        [] r.send.space = "none" -> r.send
           Saved(r) == [n |-> r.n, watch |-> Watch(r), send |-> Send(r)]
           Back(q) == Renumbered(q,
               IF q.watch.space # "none" THEN BusIn(q.watch.space, q.watch.bus) ELSE q.watch.bus,
               IF q.send.space = "can" THEN BusIn("can", q.send.bus) ELSE q.send.bus)
<1>1. /\ file.can = can /\ file.fr = [b \in frBuses |-> fr[b]] /\ DOMAIN file.fr = frBuses
      /\ Settled /\ file.rules = SavedRules
  BY FileIs
<1>2. frBuses \in SUBSET FrBuses /\ \A b \in FrBuses : fr[b] # 0 <=> b \in frBuses
  BY <1>1, SettledPresent
<1>3. \A r \in rules : RuleFits(r) /\ (r.watch.space = "fr" => fr[r.watch.bus] # 0)
  BY <1>1 DEF Hangs, RuleFits, Settled
<1>4. SavedRules = {Saved(r) : r \in rules}
  <2>1. {q \in rules : q.watch.space = "fr" => fr[q.watch.bus] # 0} = rules
    BY <1>3
  <2>2. SavedRules = {Saved(r) : r \in
                        {q \in rules : q.watch.space = "fr" => fr[q.watch.bus] # 0}}
    BY DEF SavedRules
  <2> HIDE DEF Saved
  <2> QED
    BY <2>1, <2>2
<1>5. RestoredRules = {Back(q) : q \in {Saved(r) : r \in rules}}
  BY <1>1, <1>4 DEF RestoredRules
<1>6. ASSUME NEW r \in rules PROVE Back(Saved(r)) = r
  <2>1. /\ r = [watch |-> r.watch, send |-> r.send, n |-> r.n]
        /\ r.watch = [space |-> r.watch.space, bus |-> r.watch.bus]
        /\ r.send = [space |-> r.send.space, bus |-> r.send.bus]
        /\ r.watch.space \in {"can", "fr", "none"} /\ r.send.space \in {"can", "none"}
        /\ r.watch.space = "can" => r.watch.bus \in Nat
        /\ r.send.space = "can" => r.send.bus \in Nat
        /\ r.watch.space = "fr" => r.watch.bus \in FrBuses
    BY <1>3, RuleIs
  <2>2. /\ r.watch.space = "can" => r.watch.bus \in Positions
        /\ r.send.space = "can" => r.send.bus \in Positions
        /\ r.watch.space = "fr" => fr[r.watch.bus] # 0
    BY <1>3 DEF RuleFits
  <2>3. Places
    BY DEF Followed
  <2>4. /\ Watch(r).space = r.watch.space
        /\ r.watch.space # "none" => BusIn(r.watch.space, Watch(r).bus) = r.watch.bus
        /\ r.watch.space = "none" => Watch(r).bus = r.watch.bus
    <3>1. CASE r.watch.space = "can"
      <4>1. Watch(r) = [space |-> "can", bus |-> can[r.watch.bus + 1]]
        BY <3>1 DEF CanBus, Cluster
      <4>2. BusOf("can", can[r.watch.bus + 1], can, file.fr) = r.watch.bus
        BY <2>1, <2>2, <2>3, <3>1, BusOfCan
      <4> HIDE DEF Watch
      <4> QED
        BY <1>1, <3>1, <4>1, <4>2 DEF BusIn
    <3>2. CASE r.watch.space = "fr"
      <4>1. Watch(r) = [space |-> "fr", bus |-> fr[r.watch.bus]]
        BY <3>2
      <4>2. r.watch.bus \in frBuses
        BY <1>2, <2>1, <2>2, <3>2
      <4>3. BusOf("fr", fr[r.watch.bus], file.can, file.fr) = r.watch.bus
        BY <1>1, <1>2, <2>2, <2>3, <3>2, <4>2, BusOfFr
      <4> HIDE DEF Watch
      <4> QED
        BY <1>1, <3>2, <4>1, <4>3 DEF BusIn
    <3>3. CASE r.watch.space = "none"
      BY <3>3
    <3> QED
      BY <2>1, <3>1, <3>2, <3>3
  <2>5. /\ Send(r).space = r.send.space
        /\ r.send.space = "can" => BusIn("can", Send(r).bus) = r.send.bus
        /\ r.send.space # "can" => Send(r).bus = r.send.bus
    <3>1. CASE r.send.space = "can"
      <4>1. Send(r) = [space |-> "can", bus |-> can[r.send.bus + 1]]
        BY <3>1 DEF CanBus, Cluster
      <4>2. BusOf("can", can[r.send.bus + 1], can, file.fr) = r.send.bus
        BY <2>1, <2>2, <2>3, <3>1, BusOfCan
      <4> HIDE DEF Send
      <4> QED
        BY <1>1, <3>1, <4>1, <4>2 DEF BusIn
    <3>2. CASE r.send.space = "none"
      BY <3>2
    <3> QED
      BY <2>1, <3>1, <3>2
  <2> HIDE DEF Watch, Send
  <2>6. Saved(r).watch = Watch(r) /\ Saved(r).send = Send(r) /\ Saved(r).n = r.n
    OBVIOUS
  <2> HIDE DEF Saved
  <2>7. Back(Saved(r)) = [watch |-> [space |-> r.watch.space, bus |-> r.watch.bus],
                          send |-> [space |-> r.send.space, bus |-> r.send.bus], n |-> r.n]
    BY <2>4, <2>5, <2>6 DEF Renumbered
  <2> QED
    BY <2>1, <2>7
<1> HIDE DEF Saved, Back
<1> QED
  BY <1>5, <1>6

HungInv == SavedInv /\ Hangs

LEMMA HungInit == ProjectInit => HungInv
BY SavedInit, HangsInit DEF ProjectInit, HungInv

LEMMA OpenKeeps ==
    ASSUME HungInv, ~RowsAnytime, OpenProject
    PROVE  /\ UNCHANGED <<can, fr, next, inbox, snap, frBuses, picks, curves, map, rules>>
           /\ subs' = curves
           /\ items' = {i \in items : i.kind \in Sited \cup {"tx"}}
<1>1. Followed /\ Keyed /\ Filed /\ Hangs /\ file # NoProject
  BY DEF HungInv, SavedInv, OpenProject
<1>2. /\ UNCHANGED <<can, fr, next, inbox, snap, frBuses, picks, curves, map>>
      /\ subs' = curves /\ rules' = RestoredRules
      /\ items' = RestoredSenders \cup {i \in items : i.kind \in Sited}
  BY <1>1, OpenIs
<1>3. RestoredRules = rules /\ RestoredSenders = {i \in items : i.kind = "tx"}
  BY <1>1, RulesReturn, SendersReturn
<1> QED
  BY <1>2, <1>3

LEMMA HungNext ==
    Prompt /\ ~RowsAnytime /\ Narrow /\ HungInv /\ [ProjectNext]_projectVars => HungInv'
<1> SUFFICES ASSUME Prompt, ~RowsAnytime, Narrow, HungInv, [ProjectNext]_projectVars
             PROVE  HungInv'
  OBVIOUS
<1>1. SavedInv /\ Hangs /\ Followed
  BY DEF HungInv, SavedInv
<1>2. SavedInv'
  BY <1>1, SavedNext
<1>3. CASE [Next]_vars
  BY <1>1, <1>2, <1>3, HangsNext DEF HungInv
<1>4. CASE OpenProject
  <2>1. /\ UNCHANGED <<can, fr, next, inbox, curves, map, rules>>
        /\ subs' = curves /\ items' \subseteq items
    BY <1>4, OpenKeeps
  <2>2. /\ \A i : ItemFits(i) => ItemFits(i)'
        /\ \A r : RuleFits(r) => RuleFits(r)'
        /\ \A k : SubFits(k) => SubFits(k)'
    BY <2>1, FitsSame
  <2>3. \A k \in curves : SubFits(k)
    <3> TAKE k \in curves
    <3>1. Alive(k, can, fr) /\ Places
      BY <1>1, <1>4, FollowedMeans DEF WindowsFollow, OpenProject, SavedInv, Filed, Followed
    <3>2. DOMAIN can = 1 .. Len(can)
      BY <3>1 DEF Places
    <3> QED
      BY <3>1, <3>2 DEF Alive, SubFits, Places, ToSet
  <2>4. Hangs'
    BY <1>1, <2>1, <2>2, <2>3 DEF Hangs
  <2> QED
    BY <1>2, <2>4 DEF HungInv
<1> QED
  BY <1>3, <1>4 DEF ProjectNext, SaveProject, projectVars

\* Whatever was attached to the buses when the project was saved, with whatever numbers
\* they had by then, is attached to the same buses once it is opened.
THEOREM ProjectsReturn ==
    Prompt /\ ~RowsAnytime /\ Narrow /\ ProjectSpec => OpensAsSaved
<1>1. CASE Prompt /\ ~RowsAnytime /\ Narrow
  <2>1. HungInv /\ [ProjectNext]_projectVars => HungInv'
    BY <1>1, HungNext
  <2>2. HungInv /\ [ProjectNext]_projectVars =>
          [file # NoProject /\ file' = NoProject =>
             /\ UNCHANGED <<can, fr, next, rules, map, frBuses, picks, curves>>
             /\ items' = {i \in items : i.kind \in Sited \cup {"tx"}}
             /\ curves' \subseteq subs'
             /\ \A k \in subs' : Alive(k, can', fr')]_projectVars
    <3> SUFFICES ASSUME HungInv, ProjectNext, file # NoProject, file' = NoProject
                 PROVE  /\ UNCHANGED <<can, fr, next, rules, map, frBuses, picks, curves>>
                        /\ items' = {i \in items : i.kind \in Sited \cup {"tx"}}
                        /\ curves' \subseteq subs'
                        /\ \A k \in subs' : Alive(k, can', fr')
      OBVIOUS
    <3>1. OpenProject
      BY DEF ProjectNext, SaveProject
    <3>2. /\ UNCHANGED <<can, fr, next, inbox, snap, frBuses, picks, curves, map, rules>>
          /\ subs' = curves
          /\ items' = {i \in items : i.kind \in Sited \cup {"tx"}}
      BY <1>1, <3>1, OpenKeeps
    <3>3. \A k \in curves : Alive(k, can, fr)
      BY <3>1, FollowedMeans DEF WindowsFollow, OpenProject, HungInv, SavedInv, Filed
    <3> QED
      BY <3>2, <3>3
  <2> QED
    BY <2>1, <2>2, HungInit, PTL DEF ProjectSpec, OpensAsSaved
<1> QED
  BY <1>1

-----------------------------------------------------------------------------
(* By name: what each change of the core is to somebody who knows the      *)
(* buses by their identities only.                                         *)

ItemRef(i) == [of |-> <<"item", i.kind, i.n>>, on |-> Where("can", i.ch)]
RuleRef(r) == [of |-> <<"rule", r.watch.space, r.n>>,
               on |-> Where(r.watch.space, r.watch.bus) \cup Where(r.send.space, r.send.bus)]
SubRef(k) == [of |-> <<"sub", k.space>>, on |-> IF k.space = "derived" THEN {} ELSE {k.cluster}]
MapRef(s) == [of |-> <<"map", s>>, on |-> {map[s]}]

Heard(r) == r.watch.space = "fr" => fr[r.watch.bus] # 0
LiveSub(k) == k.space = "derived" \/ k.cluster \in Live
Routed(s) == map[s] \notin {Same, Drop} /\ map[s] \in Live

ItemRefs == {ItemRef(i) : i \in items}
RuleRefs == {RuleRef(r) : r \in {q \in rules : Heard(q)}}
SubRefs == {SubRef(k) : k \in {q \in subs : LiveSub(q)}}
MapRefs == {MapRef(s) : s \in {q \in DOMAIN map : Routed(q)}}

LEMMA ByNameIs ==
    /\ ByName = ItemRefs \cup RuleRefs \cup SubRefs \cup MapRefs
    /\ ByName' = ItemRefs' \cup RuleRefs' \cup SubRefs' \cup MapRefs'
<1>1. ByName = ItemRefs \cup RuleRefs \cup SubRefs \cup MapRefs
  BY DEF ByName, ItemRefs, RuleRefs, SubRefs, MapRefs, ItemRef, RuleRef, SubRef, MapRef,
         Heard, LiveSub, Routed
<1>2. ByName' = ItemRefs' \cup RuleRefs' \cup SubRefs' \cup MapRefs'
  BY DEF ByName, ItemRefs, RuleRefs, SubRefs, MapRefs, ItemRef, RuleRef, SubRef, MapRef,
         Heard, LiveSub, Routed
<1> QED
  BY <1>1, <1>2

LiveFit ==
    /\ \A x : x \in Live <=> \/ \E i \in 1 .. Len(can) : x = can[i]
                             \/ \E b \in FrBuses : x = fr[b] /\ fr[b] # 0
    /\ \A x \in Live : x \in Nat /\ 0 < x /\ x < next
    /\ CanClusters = ToSet(can)
    /\ \A x \in ToSet(can) : x \in Live
    /\ \A b \in FrBuses : fr[b] # 0 => fr[b] \in Live

LEMMA LiveIs == ASSUME Places PROVE LiveFit
<1>1. DOMAIN can = 1 .. Len(can) /\ can \in Seq(Nat) /\ fr \in [FrBuses -> Nat]
  BY DEF Places
<1>2. /\ \A x : x \in Live <=> \/ \E i \in 1 .. Len(can) : x = can[i]
                               \/ \E b \in FrBuses : x = fr[b] /\ fr[b] # 0
  BY <1>1 DEF Live, CanClusters, FrClusters, ToSet
<1>3. \A x \in Live : x \in Nat /\ 0 < x /\ x < next
  BY <1>1, <1>2 DEF Places
<1>4. \A x \in ToSet(can) : x \in Live
  BY <1>1, <1>2 DEF ToSet
<1>5. \A b \in FrBuses : fr[b] # 0 => fr[b] \in Live
  BY <1>2
<1> QED
  BY <1>2, <1>3, <1>4, <1>5 DEF CanClusters, LiveFit

\* What each reference names, as long as everything fits.
NamesFit ==
    /\ \A i \in items : ItemRef(i) = [of |-> <<"item", i.kind, i.n>>, on |-> {can[i.ch + 1]}]
    /\ \A r \in rules : RuleRef(r).on =
         (IF r.watch.space = "can" THEN {can[r.watch.bus + 1]}
          ELSE IF r.watch.space = "fr" THEN {fr[r.watch.bus]} ELSE {})
         \cup (IF r.send.space = "can" THEN {can[r.send.bus + 1]} ELSE {})
    /\ \A k \in subs : SubRef(k) = [of |-> <<"sub", k.space>>, on |-> {k.cluster}]

LEMMA NamesAre == ASSUME Places, Hangs PROVE NamesFit
<1>1. \A bus : Where("can", bus) = {IF bus \in Positions THEN can[bus + 1] ELSE 0}
  BY DEF Where, Cluster, Nowhere
<1>2. \A bus : Where("fr", bus) = {fr[bus]} /\ Where("none", bus) = {}
  BY DEF Where
<1>3. \A i \in items : ItemRef(i) = [of |-> <<"item", i.kind, i.n>>, on |-> {can[i.ch + 1]}]
  BY <1>1 DEF ItemRef, Hangs, ItemFits
<1>4. ASSUME NEW r \in rules
      PROVE  RuleRef(r).on =
                (IF r.watch.space = "can" THEN {can[r.watch.bus + 1]}
                 ELSE IF r.watch.space = "fr" THEN {fr[r.watch.bus]} ELSE {})
                \cup (IF r.send.space = "can" THEN {can[r.send.bus + 1]} ELSE {})
  <2>1. RuleFits(r)
    BY DEF Hangs
  <2>2. r.watch.space \in {"can", "fr", "none"} /\ r.send.space \in {"can", "none"}
    BY <2>1, RuleIs
  <2>3. Where(r.watch.space, r.watch.bus) =
          IF r.watch.space = "can" THEN {can[r.watch.bus + 1]}
          ELSE IF r.watch.space = "fr" THEN {fr[r.watch.bus]} ELSE {}
    BY <1>1, <1>2, <2>1, <2>2 DEF RuleFits
  <2>4. Where(r.send.space, r.send.bus) =
          IF r.send.space = "can" THEN {can[r.send.bus + 1]} ELSE {}
    BY <1>1, <1>2, <2>1, <2>2 DEF RuleFits
  <2> QED
    BY <2>3, <2>4 DEF RuleRef
<1>5. \A k \in subs : SubRef(k) = [of |-> <<"sub", k.space>>, on |-> {k.cluster}]
  BY DEF SubRef, Hangs, SubFits
<1> QED
  BY <1>3, <1>4, <1>5 DEF NamesFit

LEMMA NextFits == Places' /\ Hangs' => NamesFit' /\ LiveFit'
BY NamesAre, LiveIs, PTL

\* A reference to a bus that is there.
LEMMA NamesLive ==
    ASSUME Places, Hangs
    PROVE  /\ \A i \in items : ItemRef(i).on \subseteq Live
           /\ \A r \in rules : Heard(r) => RuleRef(r).on \subseteq Live
           /\ \A r \in ByName : r.on \subseteq Live
<1>1. /\ \A x \in ToSet(can) : x \in Live
      /\ \A b \in FrBuses : fr[b] # 0 => fr[b] \in Live
  BY LiveIs DEF LiveFit
<1>2. can \in Seq(Nat) /\ DOMAIN can = 1 .. Len(can) /\ Len(can) \in Nat
  BY DEF Places
<1>3. \A ch \in Positions : can[ch + 1] \in Live
  BY <1>1, <1>2 DEF Positions, ToSet
<1>4. \A i \in items : ItemRef(i).on \subseteq Live
  BY <1>3, NamesAre DEF NamesFit, Hangs, ItemFits
<1>5. ASSUME NEW r \in rules, Heard(r) PROVE RuleRef(r).on \subseteq Live
  <2>1. RuleFits(r)
    BY DEF Hangs
  <2>2. r.watch.space = "fr" => r.watch.bus \in FrBuses
    BY <2>1, RuleIs
  <2>3. /\ r.watch.space = "can" => can[r.watch.bus + 1] \in Live
        /\ r.watch.space = "fr" => fr[r.watch.bus] \in Live
        /\ r.send.space = "can" => can[r.send.bus + 1] \in Live
    BY <1>1, <1>3, <1>5, <2>1, <2>2 DEF RuleFits, Heard
  <2> QED
    BY <2>3, NamesAre DEF NamesFit
<1>6. \A k \in subs : LiveSub(k) => SubRef(k).on \subseteq Live
  <2> TAKE k \in subs
  <2>1. k.space # "derived"
    BY DEF Hangs, SubFits
  <2> QED
    BY <2>1, NamesAre DEF NamesFit, LiveSub
<1>7. \A s : Routed(s) => MapRef(s).on \subseteq Live
  BY DEF Routed, MapRef
<1>8. \A r \in ByName : r.on \subseteq Live
  <2> TAKE r \in ByName
  <2>1. CASE r \in ItemRefs
    BY <1>4, <2>1 DEF ItemRefs
  <2>2. CASE r \in RuleRefs
    BY <1>5, <2>2 DEF RuleRefs
  <2>3. CASE r \in SubRefs
    BY <1>6, <2>3 DEF SubRefs
  <2>4. CASE r \in MapRefs
    BY <1>7, <2>4 DEF MapRefs
  <2> QED
    BY <2>1, <2>2, <2>3, <2>4, ByNameIs
<1> QED
  BY <1>4, <1>5, <1>8

\* The steps of somebody who knows the buses by name.
LEMMA StepAdds ==
    ASSUME ByName' = ByName, NEW c, c \notin Live, Live' = Live \cup {c}
    PROVE  Named!NamedNext
<1>1. c \in Live' \ Live
  OBVIOUS
<1>2. Named!AddBus(c)
  BY DEF Named!AddBus
<1> QED
  BY <1>1, <1>2 DEF Named!NamedNext

LEMMA StepRemoves ==
    ASSUME NEW c \in Live, Live' = Live \ {c}, ByName' = {r \in ByName : c \notin r.on}
    PROVE  Named!NamedNext
<1>1. c \in Live \ Live'
  OBVIOUS
<1>2. Named!RemoveBus(c)
  BY DEF Named!RemoveBus
<1> QED
  BY <1>1, <1>2 DEF Named!NamedNext

LEMMA StepAttaches ==
    ASSUME Live' = Live, NEW r, r.on \subseteq Live, ByName' = ByName \cup {r}
    PROVE  [Named!NamedNext]_<<Live, ByName>>
<1>1. CASE r \in ByName
  <2>1. ByName' = ByName
    BY <1>1
  <2> QED
    BY <2>1
<1>2. CASE r \notin ByName
  <2>1. r \in ByName' \ ByName
    BY <1>2
  <2>2. Named!Attach(r)
    BY DEF Named!Attach
  <2> QED
    BY <2>1, <2>2 DEF Named!NamedNext
<1> QED
  BY <1>1, <1>2

\* What hangs on the removed bus goes, the rest keeps its bus under another number.
LEMMA StepRemoveChannel ==
    ASSUME Places, Hangs, Hangs', NEW ch \in Nat, Removable(ch), RemoveChannel(ch),
           \A r \in rules : r.watch.space = "fr" => fr[r.watch.bus] # 0
    PROVE  Named!NamedNext
<1> DEFINE c == can[ch + 1]
<1>1. /\ can' = RemoveAt(can, ch + 1)
      /\ items' = ItemsWithout(ch)
      /\ rules' = RulesWithout(ch)
      /\ subs' = {k \in subs : Alive(k, can', fr)}
      /\ map' = MapWithout("can", c)
      /\ UNCHANGED <<fr, next>>
  BY DEF RemoveChannel, Removable, Cluster
<1>2. Places' /\ NamesFit /\ NamesFit' /\ LiveFit /\ LiveFit'
  BY PlacesRemoveChannel, NamesAre, LiveIs, NextFits
<1>3. /\ can \in Seq(Nat) /\ Len(can) \in Nat /\ ch + 1 \in 1 .. Len(can)
      /\ DOMAIN can = 1 .. Len(can) /\ fr \in [FrBuses -> Nat]
  BY DEF Places, Removable, Positions
<1>4. ToSet(can') = ToSet(can) \ {c} /\ c \in ToSet(can)
  BY <1>3, PlacesRemoveChannel DEF Cluster, ToSet
<1>5. \A b \in FrBuses : fr[b] # c
  BY <1>3 DEF Places
<1>6. c \in Live /\ Live' = Live \ {c}
  <2>1. FrClusters' = FrClusters /\ c \notin FrClusters
    BY <1>1, <1>5 DEF FrClusters
  <2>2. CanClusters = ToSet(can) /\ CanClusters' = ToSet(can')
    BY <1>2 DEF LiveFit
  <2> QED
    BY <1>4, <2>1, <2>2 DEF Live
<1>7. \A i \in Positions : can[i + 1] = c => i = ch
  <2> TAKE i \in Positions
  <2> HAVE can[i + 1] = c
  <2>1. i + 1 \in 1 .. Len(can) /\ i \in Nat
    BY <1>3 DEF Positions
  <2>2. i + 1 = ch + 1
    BY <1>3, <2>1 DEF Places
  <2> QED
    BY <2>1, <2>2
<1> HIDE DEF c
<1>8. ItemRefs' = {r \in ItemRefs : c \notin r.on}
  <2> DEFINE To(i) == [i EXCEPT !.ch = Shifted(@, ch)]
  <2>1. items' = {To(i) : i \in {j \in items : j.ch # ch}}
    BY <1>1 DEF ItemsWithout
  <2>2. ASSUME NEW i \in items, i.ch # ch
        PROVE  ItemRef(To(i))' = ItemRef(i) /\ c \notin ItemRef(i).on
    <3>1. ItemFits(i)
      BY DEF Hangs
    <3>2. /\ To(i).kind = i.kind /\ To(i).n = i.n /\ can'[To(i).ch + 1] = can[i.ch + 1]
      BY <2>2, <3>1, ItemsRemoved
    <3>3. To(i) \in items'
      BY <2>1, <2>2
    <3> HIDE DEF To
    <3>4. ItemRef(To(i))' = [of |-> <<"item", To(i).kind, To(i).n>>, on |-> {can'[To(i).ch + 1]}]
      BY <1>2, <3>3 DEF NamesFit
    <3>5. ItemRef(i) = [of |-> <<"item", i.kind, i.n>>, on |-> {can[i.ch + 1]}]
      BY <1>2 DEF NamesFit
    <3>6. can[i.ch + 1] # c
      BY <1>7, <2>2, <3>1 DEF ItemFits
    <3> QED
      BY <3>2, <3>4, <3>5, <3>6
  <2>3. ASSUME NEW i \in items, i.ch = ch PROVE c \in ItemRef(i).on
    BY <1>2, <2>3 DEF NamesFit, c
  <2> HIDE DEF To
  <2>4. ItemRefs' = {ItemRef(j)' : j \in items'}
    BY DEF ItemRefs
  <2>5. ItemRefs' \subseteq {r \in ItemRefs : c \notin r.on}
    BY <2>1, <2>2, <2>4 DEF ItemRefs
  <2>6. {r \in ItemRefs : c \notin r.on} \subseteq ItemRefs'
    <3> SUFFICES ASSUME NEW i \in items, c \notin ItemRef(i).on PROVE ItemRef(i) \in ItemRefs'
      BY DEF ItemRefs
    <3>1. i.ch # ch
      BY <2>3
    <3>2. To(i) \in items' /\ ItemRef(To(i))' = ItemRef(i)
      BY <2>1, <2>2, <3>1
    <3> QED
      BY <2>4, <3>2
  <2> QED
    BY <2>5, <2>6
<1>9. SubRefs' = {r \in SubRefs : c \notin r.on}
  <2>1. SubRefs' = {SubRef(k)' : k \in {q \in subs' : LiveSub(q)'}}
    BY DEF SubRefs
  <2>2. \A k : SubRef(k)' = SubRef(k)
    BY DEF SubRef
  <2>3. ASSUME NEW k \in subs
        PROVE  (k \in subs' /\ LiveSub(k)') <=> (LiveSub(k) /\ c \notin SubRef(k).on)
    <3>1. SubFits(k) /\ SubRef(k).on = {k.cluster}
      BY <1>2 DEF Hangs, NamesFit
    <3>2. k.space # "derived" /\ (k.space = "can" \/ k.space = "fr")
      BY <3>1 DEF SubFits
    <3>3. LiveSub(k)' <=> k.cluster \in Live /\ k.cluster # c
      BY <1>6, <3>2 DEF LiveSub
    <3>4. LiveSub(k) <=> k.cluster \in Live
      BY <3>2 DEF LiveSub
    <3>5. ASSUME k.cluster \in Live, k.cluster # c PROVE Alive(k, can', fr)
      <4>1. CASE k.space = "can"
        BY <1>4, <3>1, <3>5, <4>1 DEF SubFits, Alive
      <4>2. CASE k.space = "fr"
        <5>1. k.cluster \notin ToSet(can)
          BY <3>1, <4>2 DEF SubFits
        <5>2. \E b \in FrBuses : fr[b] = k.cluster
          BY <1>2, <1>3, <3>5, <5>1 DEF LiveFit, ToSet
        <5> QED
          BY <4>2, <5>2 DEF Alive
      <4> QED
        BY <3>2, <4>1, <4>2
    <3> QED
      BY <1>1, <3>1, <3>3, <3>4, <3>5
  <2>4. \A k \in subs' : k \in subs
    BY <1>1
  <2> QED
    BY <2>1, <2>2, <2>3, <2>4 DEF SubRefs
<1>10. MapRefs' = {r \in MapRefs : c \notin r.on}
  <2>1. /\ map \in [{"can", "fr"} -> Int]
        /\ map' = [map EXCEPT !["can"] = IF @ = c THEN -1 ELSE @]
    BY <1>1 DEF Hangs, MapWithout, Drop
  <2>2. DOMAIN map = {"can", "fr"} /\ DOMAIN map' = {"can", "fr"}
    BY <2>1
  <2>3. ASSUME NEW s \in {"can", "fr"}
        PROVE  /\ Routed(s)' <=> (Routed(s) /\ map[s] # c)
               /\ Routed(s)' => map'[s] = map[s]
    BY <1>6, <2>1 DEF Routed, Drop
  <2>4. MapRefs' = {MapRef(s)' : s \in {q \in {"can", "fr"} : Routed(q)'}}
    BY <2>2 DEF MapRefs
  <2>5. MapRefs = {MapRef(s) : s \in {q \in {"can", "fr"} : Routed(q)}}
    BY <2>2 DEF MapRefs
  <2>6. \A s : /\ MapRef(s)' = [of |-> <<"map", s>>, on |-> {map'[s]}]
               /\ MapRef(s) = [of |-> <<"map", s>>, on |-> {map[s]}]
    BY DEF MapRef
  <2>7. \A s \in {"can", "fr"} : Routed(s)' => MapRef(s)' = MapRef(s) /\ c \notin MapRef(s).on
    BY <2>3, <2>6
  <2>8. \A s : c \notin MapRef(s).on => map[s] # c
    BY <2>6
  <2>9. MapRefs' \subseteq {r \in MapRefs : c \notin r.on}
    BY <2>3, <2>4, <2>5, <2>7
  <2>10. {r \in MapRefs : c \notin r.on} \subseteq MapRefs'
    BY <2>3, <2>4, <2>5, <2>7, <2>8
  <2> QED
    BY <2>9, <2>10
<1>11. RuleRefs' = {r \in RuleRefs : c \notin r.on}
  <2> DEFINE To(r) == IF r.watch.space # "can" THEN r
                      ELSE Renumbered(r, Shifted(r.watch.bus, ch),
                             IF r.send.space = "can" THEN Shifted(r.send.bus, ch) ELSE r.send.bus)
  <2>1. rules' = {To(r) : r \in {q \in rules : CanBus(ch) \notin {q.watch, q.send}}}
    BY <1>1 DEF RulesWithout
  <2>2. ASSUME NEW r \in rules, CanBus(ch) \notin {r.watch, r.send}
        PROVE  /\ RuleRef(To(r))' = RuleRef(r) /\ c \notin RuleRef(r).on
               /\ Heard(r) /\ Heard(To(r))'
    <3>1. RuleFits(r) /\ To(r) \in rules' /\ Heard(r)
      BY <2>1, <2>2 DEF Hangs, Heard
    <3>2. /\ r.watch = [space |-> r.watch.space, bus |-> r.watch.bus]
          /\ r.send = [space |-> r.send.space, bus |-> r.send.bus]
          /\ r.watch.space \in {"can", "fr", "none"} /\ r.send.space \in {"can", "none"}
          /\ r.watch.space = "fr" => r.watch.bus \in FrBuses
      BY <3>1, RuleIs
    <3>3. /\ r.watch.space = "can" => can[r.watch.bus + 1] # c
          /\ r.send.space = "can" => can[r.send.bus + 1] # c /\ r.watch.space = "can"
          /\ r.watch.space = "fr" => fr[r.watch.bus] # c
      <4>1. (r.watch.space = "can" => r.watch.bus # ch) /\ (r.send.space = "can" => r.send.bus # ch)
        BY <2>2, <3>2 DEF CanBus
      <4> QED
        BY <1>5, <1>7, <3>1, <3>2, <4>1 DEF RuleFits
    <3>4. /\ To(r).watch.space = r.watch.space /\ To(r).send.space = r.send.space
          /\ To(r).n = r.n
          /\ r.watch.space = "can" => can'[To(r).watch.bus + 1] = can[r.watch.bus + 1]
          /\ r.send.space = "can" => can'[To(r).send.bus + 1] = can[r.send.bus + 1]
          /\ r.watch.space # "can" => To(r).watch.bus = r.watch.bus
      <4>1. CASE r.watch.space = "can"
        <5> DEFINE q == Renumbered(r, Shifted(r.watch.bus, ch),
                            IF r.send.space = "can" THEN Shifted(r.send.bus, ch) ELSE r.send.bus)
        <5>1. To(r) = q
          BY <4>1
        <5>2. CanBus(ch) \notin {r.watch, r.send} /\ RuleFits(r)
          BY <2>2, <3>1
        <5>3. /\ q.watch.space = "can" /\ q.send.space = r.send.space /\ q.n = r.n
              /\ can'[q.watch.bus + 1] = can[r.watch.bus + 1]
              /\ q.send.space = "can" => can'[q.send.bus + 1] = can[r.send.bus + 1]
          BY <4>1, <5>2, RulesRemoved, ZenonT(40)
        <5> HIDE DEF q, To
        <5> QED
          BY <4>1, <5>1, <5>3
      <4>2. CASE r.watch.space # "can"
        BY <3>3, <4>2
      <4> QED
        BY <4>1, <4>2
    <3> HIDE DEF To
    <3>5. /\ RuleRef(r).on =
               (IF r.watch.space = "can" THEN {can[r.watch.bus + 1]}
                ELSE IF r.watch.space = "fr" THEN {fr[r.watch.bus]} ELSE {})
               \cup (IF r.send.space = "can" THEN {can[r.send.bus + 1]} ELSE {})
          /\ RuleRef(To(r)).on' =
               (IF r.watch.space = "can" THEN {can'[To(r).watch.bus + 1]}
                ELSE IF r.watch.space = "fr" THEN {fr'[To(r).watch.bus]} ELSE {})
               \cup (IF r.send.space = "can" THEN {can'[To(r).send.bus + 1]} ELSE {})
      BY <1>2, <3>1, <3>4 DEF NamesFit
    <3>6. RuleRef(To(r)).on' = RuleRef(r).on
      BY <1>1, <3>2, <3>4, <3>5
    <3>7. RuleRef(To(r))' = RuleRef(r)
      <4>1. RuleRef(r) = [of |-> <<"rule", r.watch.space, r.n>>, on |-> RuleRef(r).on]
        BY DEF RuleRef
      <4>2. RuleRef(To(r))' = [of |-> <<"rule", To(r).watch.space, To(r).n>>,
                               on |-> RuleRef(To(r)).on']
        BY DEF RuleRef
      <4> QED
        BY <3>4, <3>6, <4>1, <4>2
    <3>8. Heard(To(r))'
      BY <1>1, <3>1, <3>4 DEF Heard
    <3>9. c \notin RuleRef(r).on
      BY <3>3, <3>5
    <3> QED
      BY <3>1, <3>7, <3>8, <3>9
  <2>3. ASSUME NEW r \in rules, CanBus(ch) \in {r.watch, r.send} PROVE c \in RuleRef(r).on
    <3>1. \/ r.watch.space = "can" /\ r.watch.bus = ch
          \/ r.send.space = "can" /\ r.send.bus = ch
      BY <2>3 DEF CanBus
    <3> QED
      BY <1>2, <3>1 DEF NamesFit, c
  <2> HIDE DEF To
  <2>4. RuleRefs' = {RuleRef(q)' : q \in {p \in rules' : Heard(p)'}}
    BY DEF RuleRefs
  <2>5. RuleRefs' \subseteq {r \in RuleRefs : c \notin r.on}
    BY <2>1, <2>2, <2>4 DEF RuleRefs
  <2>6. {r \in RuleRefs : c \notin r.on} \subseteq RuleRefs'
    <3> SUFFICES ASSUME NEW r \in rules, c \notin RuleRef(r).on PROVE RuleRef(r) \in RuleRefs'
      BY DEF RuleRefs
    <3>1. CanBus(ch) \notin {r.watch, r.send}
      BY <2>3
    <3>2. To(r) \in rules' /\ RuleRef(To(r))' = RuleRef(r) /\ Heard(To(r))'
      BY <2>1, <2>2, <3>1
    <3> QED
      BY <2>4, <3>2
  <2> QED
    BY <2>5, <2>6
<1>12. ByName' = {r \in ByName : c \notin r.on}
  BY <1>8, <1>9, <1>10, <1>11, ByNameIs
<1> QED
  BY <1>6, <1>12, StepRemoves

\* A new bus has an identity nothing names.
LEMMA StepAddChannel ==
    ASSUME Places, Hangs, Hangs', AddChannel
    PROVE  Named!NamedNext
<1>1. /\ UNCHANGED <<fr, items, rules, subs, map>> /\ next' = next + 1
  BY DEF AddChannel
<1>2. Places' /\ NamesFit /\ NamesFit' /\ LiveFit /\ LiveFit'
  BY PlacesAddChannel, NamesAre, LiveIs, NextFits
<1>3. /\ can \in Seq(Nat) /\ Len(can) \in Nat /\ DOMAIN can = 1 .. Len(can)
      /\ DOMAIN can' = 1 .. Len(can') /\ next \in Nat
      /\ Len(can') = Len(can) + 1 /\ can'[Len(can) + 1] = next
      /\ \A i \in 1 .. Len(can) : can'[i] = can[i]
  BY <1>2, PlacesAddChannel DEF Places
<1>4. \A ch \in Positions : can'[ch + 1] = can[ch + 1]
  BY <1>3 DEF Positions
<1>5. next \notin Live /\ Live' = Live \cup {next}
  <2>1. \A x \in Live : x # next
    BY <1>2, <1>3 DEF LiveFit
  <2>2. FrClusters' = FrClusters
    BY <1>1 DEF FrClusters
  <2>3. ToSet(can') = ToSet(can) \cup {next}
    <3>1. \A i \in 1 .. Len(can') : i \in 1 .. Len(can) \/ i = Len(can) + 1
      BY <1>3
    <3>2. Len(can) + 1 \in 1 .. Len(can') /\ \A i \in 1 .. Len(can) : i \in 1 .. Len(can')
      BY <1>3
    <3> QED
      BY <1>3, <3>1, <3>2 DEF ToSet
  <2> QED
    BY <1>2, <2>1, <2>2, <2>3 DEF LiveFit, Live
<1>6. ItemRefs' = ItemRefs
  <2>1. \A i \in items : ItemRef(i)' = ItemRef(i)
    BY <1>1, <1>2, <1>4 DEF NamesFit, Hangs, ItemFits
  <2> QED
    BY <1>1, <2>1 DEF ItemRefs
<1>7. RuleRefs' = RuleRefs
  <2>1. ASSUME NEW r \in rules PROVE RuleRef(r)' = RuleRef(r)
    <3>1. RuleFits(r) /\ r \in rules'
      BY <1>1 DEF Hangs
    <3>2. /\ RuleRef(r).on =
               (IF r.watch.space = "can" THEN {can[r.watch.bus + 1]}
                ELSE IF r.watch.space = "fr" THEN {fr[r.watch.bus]} ELSE {})
               \cup (IF r.send.space = "can" THEN {can[r.send.bus + 1]} ELSE {})
          /\ RuleRef(r).on' =
               (IF r.watch.space = "can" THEN {can'[r.watch.bus + 1]}
                ELSE IF r.watch.space = "fr" THEN {fr'[r.watch.bus]} ELSE {})
               \cup (IF r.send.space = "can" THEN {can'[r.send.bus + 1]} ELSE {})
      BY <1>2, <3>1 DEF NamesFit
    <3>3. RuleRef(r).on' = RuleRef(r).on
      BY <1>1, <1>4, <3>1, <3>2 DEF RuleFits
    <3>4. /\ RuleRef(r) = [of |-> <<"rule", r.watch.space, r.n>>, on |-> RuleRef(r).on]
          /\ RuleRef(r)' = [of |-> <<"rule", r.watch.space, r.n>>, on |-> RuleRef(r).on']
      BY DEF RuleRef
    <3> QED
      BY <3>3, <3>4
  <2>2. \A r : Heard(r)' <=> Heard(r)
    BY <1>1 DEF Heard
  <2> QED
    BY <1>1, <2>1, <2>2 DEF RuleRefs
<1>8. SubRefs' = SubRefs
  <2>1. \A k \in subs : LiveSub(k)' <=> LiveSub(k)
    <3> TAKE k \in subs
    <3>1. SubFits(k) /\ k.cluster # next
      BY <1>2, <1>3 DEF Hangs, SubFits, LiveFit
    <3> QED
      BY <1>5, <3>1 DEF LiveSub
  <2>2. \A k : SubRef(k)' = SubRef(k)
    BY DEF SubRef
  <2> QED
    BY <1>1, <2>1, <2>2 DEF SubRefs
<1>9. MapRefs' = MapRefs
  <2>1. \A s \in DOMAIN map : Routed(s)' <=> Routed(s)
    <3> TAKE s \in DOMAIN map
    <3>1. map[s] # next
      BY <1>3 DEF Hangs
    <3> QED
      BY <1>1, <1>5, <3>1 DEF Routed
  <2>2. \A s : MapRef(s)' = MapRef(s)
    BY <1>1 DEF MapRef
  <2> QED
    BY <1>1, <2>1, <2>2 DEF MapRefs
<1> QED
  BY <1>5, <1>6, <1>7, <1>8, <1>9, ByNameIs, StepAdds

\* As long as no FlexRay bus goes, what it holds is heard as before.
LEMMA SameNames ==
    ASSUME Places, Hangs, UNCHANGED <<can, items, rules, subs, map>>, next' \in Nat,
           NEW c, Live' = Live \/ (next <= c /\ c \in Nat /\ Live' = Live \cup {c}),
           \A b \in FrBuses : fr[b] # 0 => fr'[b] = fr[b],
           \A r \in rules : r.watch.space = "fr" => fr[r.watch.bus] # 0
    PROVE  ByName' = ByName
<1>1. ItemRefs' = ItemRefs
  <2>1. \A i : ItemRef(i)' = ItemRef(i)
    BY DEF ItemRef, Where, Positions, Cluster
  <2> QED
    BY <2>1 DEF ItemRefs
<1>2. RuleRefs' = RuleRefs
  <2>1. ASSUME NEW r \in rules PROVE RuleRef(r)' = RuleRef(r) /\ Heard(r) /\ Heard(r)'
    <3>1. /\ r.watch.space \in {"can", "fr", "none"} /\ r.send.space \in {"can", "none"}
          /\ r.watch.space = "fr" => r.watch.bus \in FrBuses
      BY RuleIs DEF Hangs
    <3>2. \A bus : Where("can", bus)' = Where("can", bus) /\ Where("none", bus)' = Where("none", bus)
      BY DEF Where, Positions, Cluster
    <3>3. r.watch.space = "fr" => fr'[r.watch.bus] = fr[r.watch.bus]
      BY <3>1
    <3>4. r.watch.space = "fr" => Where("fr", r.watch.bus)' = Where("fr", r.watch.bus)
      BY <3>3 DEF Where
    <3>5. Where(r.watch.space, r.watch.bus)' = Where(r.watch.space, r.watch.bus)
      BY <3>1, <3>2, <3>4
    <3>6. Where(r.send.space, r.send.bus)' = Where(r.send.space, r.send.bus)
      BY <3>1, <3>2
    <3>7. Heard(r) /\ Heard(r)'
      BY <3>3 DEF Heard
    <3> QED
      BY <3>5, <3>6, <3>7 DEF RuleRef
  <2> QED
    BY <2>1 DEF RuleRefs
<1>3. \A x \in Int : x < next => (x \in Live' <=> x \in Live)
  BY DEF Places
<1>4. SubRefs' = SubRefs
  <2>1. \A k \in subs : LiveSub(k)' <=> LiveSub(k)
    <3> TAKE k \in subs
    <3>1. k.cluster \in Int /\ k.cluster < next
      <4>1. SubFits(k)
        BY DEF Hangs
      <4>2. \A x \in ToSet(can) : x \in Int /\ x < next
        <5>1. DOMAIN can = 1 .. Len(can)
          BY DEF Places
        <5> QED
          BY <5>1 DEF Places, ToSet
      <4> QED
        BY <4>1, <4>2 DEF SubFits
    <3> QED
      BY <1>3, <3>1 DEF LiveSub
  <2>2. \A k : SubRef(k)' = SubRef(k)
    BY DEF SubRef
  <2> QED
    BY <2>1, <2>2 DEF SubRefs
<1>5. MapRefs' = MapRefs
  <2>1. \A s \in DOMAIN map : Routed(s)' <=> Routed(s)
    BY <1>3 DEF Routed, Hangs
  <2>2. \A s : MapRef(s)' = MapRef(s)
    BY DEF MapRef
  <2> QED
    BY <2>1, <2>2 DEF MapRefs
<1> QED
  BY <1>1, <1>2, <1>4, <1>5, ByNameIs

\* A FlexRay bus goes with its description, and with it what it holds.
LEMMA StepForgetsFr ==
    ASSUME Places, Places', Hangs, Hangs', UNCHANGED <<can, items, rules, subs, map>>,
           NEW b \in FrBuses, fr[b] # 0, fr'[b] = 0,
           \A c \in FrBuses : c # b => fr'[c] = fr[c],
           \A r \in rules : r.watch.space = "fr" => fr[r.watch.bus] # 0
    PROVE  Named!NamedNext
<1> DEFINE c == fr[b]
<1>1. NamesFit /\ NamesFit' /\ LiveFit /\ LiveFit'
  BY NamesAre, LiveIs, NextFits
<1>2. /\ \A e \in FrBuses : fr[e] = c => e = b
      /\ \A i \in 1 .. Len(can) : can[i] # c
      /\ DOMAIN can = 1 .. Len(can) /\ can \in Seq(Nat) /\ Len(can) \in Nat
  BY DEF Places
<1>3. c \in Live /\ Live' = Live \ {c}
  <2>1. c \in Live
    BY <1>1 DEF LiveFit
  <2>2. \A x : x \in Live' <=> x \in Live /\ x # c
    BY <1>1, <1>2 DEF LiveFit
  <2> QED
    BY <2>1, <2>2
<1> HIDE DEF c
<1>4. ItemRefs' = {r \in ItemRefs : c \notin r.on}
  <2>1. \A i : ItemRef(i)' = ItemRef(i)
    BY DEF ItemRef, Where, Positions, Cluster
  <2>2. \A i \in items : c \notin ItemRef(i).on
    <3> TAKE i \in items
    <3>1. i.ch + 1 \in 1 .. Len(can)
      BY <1>2 DEF Hangs, ItemFits, Positions
    <3> QED
      BY <1>1, <1>2, <3>1 DEF NamesFit
  <2> QED
    BY <2>1, <2>2 DEF ItemRefs
<1>5. RuleRefs' = {r \in RuleRefs : c \notin r.on}
  <2>1. ASSUME NEW r \in rules
        PROVE  /\ Heard(r)
               /\ Heard(r)' <=> c \notin RuleRef(r).on
               /\ Heard(r)' => RuleRef(r)' = RuleRef(r)
    <3>1. RuleFits(r)
      BY DEF Hangs
    <3>2. /\ r.watch.space \in {"can", "fr", "none"} /\ r.send.space \in {"can", "none"}
          /\ r.watch.space = "fr" => r.watch.bus \in FrBuses
      BY <3>1, RuleIs
    <3>3. RuleRef(r).on =
               (IF r.watch.space = "can" THEN {can[r.watch.bus + 1]}
                ELSE IF r.watch.space = "fr" THEN {fr[r.watch.bus]} ELSE {})
               \cup (IF r.send.space = "can" THEN {can[r.send.bus + 1]} ELSE {})
      BY <1>1 DEF NamesFit
    <3>4. /\ r.watch.space = "can" => r.watch.bus + 1 \in 1 .. Len(can)
          /\ r.send.space = "can" => r.send.bus + 1 \in 1 .. Len(can)
      BY <1>2, <3>1 DEF RuleFits, Positions
    <3>5. c \in RuleRef(r).on <=> r.watch.space = "fr" /\ fr[r.watch.bus] = c
      BY <1>2, <3>2, <3>3, <3>4
    <3>6. c \in RuleRef(r).on <=> r.watch.space = "fr" /\ r.watch.bus = b
      BY <1>2, <3>2, <3>5 DEF c
    <3>7. Heard(r)' <=> c \notin RuleRef(r).on
      BY <3>2, <3>6 DEF Heard
    <3>8. ASSUME Heard(r)' PROVE RuleRef(r)' = RuleRef(r)
      <4>1. r.watch.space = "fr" => fr'[r.watch.bus] = fr[r.watch.bus]
        BY <3>2, <3>6, <3>7, <3>8
      <4>2. \A bus : Where("can", bus)' = Where("can", bus) /\ Where("none", bus)' = Where("none", bus)
        BY DEF Where, Positions, Cluster
      <4>3. r.watch.space = "fr" => Where("fr", r.watch.bus)' = Where("fr", r.watch.bus)
        BY <4>1 DEF Where
      <4>4. Where(r.watch.space, r.watch.bus)' = Where(r.watch.space, r.watch.bus)
        BY <3>2, <4>2, <4>3
      <4>5. Where(r.send.space, r.send.bus)' = Where(r.send.space, r.send.bus)
        BY <3>2, <4>2
      <4> QED
        BY <4>4, <4>5 DEF RuleRef
    <3> QED
      BY <3>7, <3>8 DEF Heard
  <2>2. RuleRefs' = {RuleRef(r)' : r \in {q \in rules : Heard(q)'}}
    BY DEF RuleRefs
  <2> QED
    BY <2>1, <2>2 DEF RuleRefs
<1>6. SubRefs' = {r \in SubRefs : c \notin r.on}
  <2>1. ASSUME NEW k \in subs PROVE LiveSub(k)' <=> LiveSub(k) /\ c \notin SubRef(k).on
    <3>1. k.space # "derived" /\ SubRef(k).on = {k.cluster}
      BY <1>1 DEF Hangs, SubFits, NamesFit
    <3> QED
      BY <1>3, <3>1 DEF LiveSub
  <2>2. \A k : SubRef(k)' = SubRef(k)
    BY DEF SubRef
  <2> QED
    BY <2>1, <2>2 DEF SubRefs
<1>7. MapRefs' = {r \in MapRefs : c \notin r.on}
  <2>1. \A s : Routed(s)' <=> Routed(s) /\ c \notin MapRef(s).on
    BY <1>3 DEF Routed, MapRef
  <2>2. \A s : MapRef(s)' = MapRef(s)
    BY DEF MapRef
  <2> QED
    BY <2>1, <2>2 DEF MapRefs
<1>8. ByName' = {r \in ByName : c \notin r.on}
  BY <1>4, <1>5, <1>6, <1>7, ByNameIs
<1> QED
  BY <1>3, <1>8, StepRemoves

LEMMA StepSetFrDbs ==
    ASSUME Places, Hangs, Hangs', NEW d \in SUBSET FrBuses, SetFrDbs(d),
           \/ \E b \in FrBuses : d = Present \cup {b}
           \/ \E b \in Present : d = Present \ {b},
           \A r \in rules : r.watch.space = "fr" => fr[r.watch.bus] # 0
    PROVE  [Named!NamedNext]_<<Live, ByName>>
<1>1. /\ UNCHANGED <<can, items, rules, subs, map>>
      /\ Places' /\ next <= next' /\ next' \in Nat /\ next \in Nat
      /\ \A b \in FrBuses :
                /\ b \notin d => fr'[b] = 0
                /\ b \in d /\ fr[b] # 0 => fr'[b] = fr[b]
                /\ b \in d /\ fr[b] = 0 => fr'[b] # 0 /\ next <= fr'[b]
  BY PlacesSetFrDbs DEF SetFrDbs, Places
<1>2. LiveFit /\ LiveFit'
  BY <1>1, LiveIs, NextFits
<1>3. ASSUME NEW b \in FrBuses, d = Present \cup {b}
      PROVE  [Named!NamedNext]_<<Live, ByName>>
  <2>1. \A c \in FrBuses : /\ fr[c] # 0 => fr'[c] = fr[c]
                           /\ c # b => fr'[c] = fr[c]
    BY <1>1, <1>3 DEF Present
  <2>2. CASE fr[b] # 0
    <3>1. \A x : x \in Live' <=> x \in Live
      BY <1>1, <1>2, <2>1, <2>2 DEF LiveFit
    <3>2. Live' = Live
      BY <3>1
    <3>3. ByName' = ByName
      BY <1>1, <2>1, <3>2, SameNames
    <3> QED
      BY <3>2, <3>3
  <2>3. CASE fr[b] = 0
    <3>1. fr'[b] # 0 /\ next <= fr'[b] /\ fr'[b] \in Nat
      BY <1>1, <1>3, <2>3 DEF Places
    <3>2. \A x : x \in Live' <=> x \in Live \/ x = fr'[b]
      BY <1>1, <1>2, <2>1, <2>3, <3>1 DEF LiveFit
    <3>3. Live' = Live \cup {fr'[b]}
      BY <3>2
    <3>4. ByName' = ByName
      BY <1>1, <2>1, <3>1, <3>3, SameNames
    <3>5. fr'[b] \notin Live
      BY <1>1, <1>2, <3>1 DEF LiveFit
    <3> QED
      BY <3>3, <3>4, <3>5, StepAdds
  <2> QED
    BY <2>2, <2>3
<1>4. ASSUME NEW b \in Present, d = Present \ {b} PROVE Named!NamedNext
  <2>1. b \in FrBuses /\ fr[b] # 0 /\ fr'[b] = 0
    BY <1>1, <1>4 DEF Present
  <2>2. \A c \in FrBuses : c # b => fr'[c] = fr[c]
    BY <1>1, <1>4 DEF Present
  <2> QED
    BY <1>1, <2>1, <2>2, StepForgetsFr
<1> QED
  BY <1>3, <1>4

\* What the command clears meant nothing any more.
LEMMA StepRemoveFrBus ==
    ASSUME Places, Hangs, NEW b \in FrBuses, RemoveFrBus(b), fr[b] = 0,
           UNCHANGED <<can, fr, next, items, map>>
    PROVE  UNCHANGED <<Live, ByName>>
<1>1. /\ subs' = {k \in subs : k.space = "fr" => Alive(k, can, fr)}
      /\ rules' = {r \in rules : r.watch # [space |-> "fr", bus |-> b]}
      /\ LiveFit /\ NamesFit
  BY LiveIs, NamesAre DEF RemoveFrBus
<1>2. Live' = Live
  BY DEF Live, CanClusters, FrClusters
<1>3. ItemRefs' = ItemRefs
  <2>1. \A i : ItemRef(i)' = ItemRef(i)
    BY DEF ItemRef, Where, Positions, Cluster
  <2> QED
    BY <2>1 DEF ItemRefs
<1>4. RuleRefs' = RuleRefs
  <2>1. \A r : RuleRef(r)' = RuleRef(r) /\ (Heard(r)' <=> Heard(r))
    BY DEF RuleRef, Where, Positions, Cluster, Heard
  <2>2. \A r \in rules : Heard(r) => r \in rules'
    BY <1>1 DEF Heard
  <2>3. \A r \in rules' : r \in rules
    BY <1>1
  <2> QED
    BY <2>1, <2>2, <2>3 DEF RuleRefs
<1>5. SubRefs' = SubRefs
  <2>1. \A k : SubRef(k)' = SubRef(k) /\ (LiveSub(k)' <=> LiveSub(k))
    BY <1>2 DEF SubRef, LiveSub
  <2>2. ASSUME NEW k \in subs, LiveSub(k) PROVE k \in subs'
    <3>1. SubFits(k)
      BY DEF Hangs
    <3>2. CASE k.space = "fr"
      <4>1. k.cluster \in Live /\ k.cluster \notin ToSet(can)
        BY <2>2, <3>1, <3>2 DEF LiveSub, SubFits
      <4>2. \E c \in FrBuses : fr[c] = k.cluster
        BY <1>1, <4>1 DEF LiveFit, Live, FrClusters
      <4> QED
        BY <1>1, <3>2, <4>2 DEF Alive
    <3>3. CASE k.space # "fr"
      BY <1>1, <3>3
    <3> QED
      BY <3>2, <3>3
  <2>3. \A k \in subs' : k \in subs
    BY <1>1
  <2> QED
    BY <2>1, <2>2, <2>3 DEF SubRefs
<1>6. MapRefs' = MapRefs
  <2>1. \A s : MapRef(s)' = MapRef(s) /\ (Routed(s)' <=> Routed(s))
    BY <1>2 DEF MapRef, Routed
  <2> QED
    BY <2>1 DEF MapRefs
<1> QED
  BY <1>2, <1>3, <1>4, <1>5, <1>6, ByNameIs

LEMMA StepHandle ==
    ASSUME Places, Pending, RemovesFirst, Hangs, Hangs', Handle
    PROVE  [Named!NamedNext]_<<Live, ByName>>
<1> DEFINE c == inbox[1]
<1>1. /\ \/ /\ c.cmd = "RemoveChannel" /\ c.ch \in Nat
            /\ Removable(c.ch) /\ RemoveChannel(c.ch)
         \/ c.cmd = "AddChannel" /\ AddChannel
         \/ /\ c.cmd = "SetFrDbs" /\ c.described \in SUBSET FrBuses
            /\ SetFrDbs(c.described)
            /\ \/ \E b \in FrBuses : c.described = Present \cup {b}
               \/ \E b \in Present : /\ c.described = Present \ {b}
                                     /\ 1 < Len(inbox) /\ inbox[2] = Forget(b)
         \/ /\ c.cmd = "RemoveFrBus" /\ c.bus \in FrBuses
            /\ RemoveFrBus(c.bus) /\ fr[c.bus] = 0
            /\ UNCHANGED <<can, fr, next, items, map>>
  BY HandleIs
<1>2. c.cmd # "RemoveFrBus" => \A r \in rules : r.watch.space = "fr" => fr[r.watch.bus] # 0
  <2> SUFFICES ASSUME NEW r \in rules, r.watch.space = "fr", fr[r.watch.bus] = 0
               PROVE  c.cmd = "RemoveFrBus"
    OBVIOUS
  <2>1. inbox[1] = Forget(r.watch.bus)
    BY DEF RuleFits, Hangs
  <2> QED
    BY <2>1 DEF Forget
<1> HIDE DEF c
<1>3. CASE c.cmd = "RemoveChannel"
  <2>1. PICK ch \in Nat : ch = c.ch
    BY <1>1, <1>3
  <2>2. Removable(ch) /\ RemoveChannel(ch)
    BY <1>1, <1>3, <2>1
  <2>3. \A r \in rules : r.watch.space = "fr" => fr[r.watch.bus] # 0
    BY <1>2, <1>3
  <2> QED
    BY <2>2, <2>3, StepRemoveChannel
<1>4. CASE c.cmd = "AddChannel"
  BY <1>1, <1>4, StepAddChannel
<1>5. CASE c.cmd = "SetFrDbs"
  <2>1. PICK d \in SUBSET FrBuses : d = c.described
    BY <1>1, <1>5
  <2>2. SetFrDbs(d) /\ (\/ \E b \in FrBuses : d = Present \cup {b}
                        \/ \E b \in Present : d = Present \ {b})
    BY <1>1, <1>5, <2>1
  <2>3. \A r \in rules : r.watch.space = "fr" => fr[r.watch.bus] # 0
    BY <1>2, <1>5
  <2> QED
    BY <2>2, <2>3, StepSetFrDbs
<1>6. CASE c.cmd = "RemoveFrBus"
  <2>1. PICK b \in FrBuses : b = c.bus
    BY <1>1, <1>6
  <2>2. RemoveFrBus(b) /\ fr[b] = 0 /\ UNCHANGED <<can, fr, next, items, map>>
    BY <1>1, <1>6, <2>1
  <2> QED
    BY <2>2, StepRemoveFrBus
<1> QED
  BY <1>1, <1>3, <1>4, <1>5, <1>6

\* Without a change of the buses each reference names what it named.
LEMMA SameOnes ==
    ASSUME UNCHANGED <<can, fr, next>>
    PROVE  /\ Live' = Live
           /\ \A i : ItemRef(i)' = ItemRef(i)
           /\ \A r : RuleRef(r)' = RuleRef(r) /\ (Heard(r)' <=> Heard(r))
           /\ \A k : SubRef(k)' = SubRef(k) /\ (LiveSub(k)' <=> LiveSub(k))
           /\ map' = map => MapRefs' = MapRefs
           /\ items' = items => ItemRefs' = ItemRefs
           /\ rules' = rules => RuleRefs' = RuleRefs
           /\ subs' = subs => SubRefs' = SubRefs
<1>1. Live' = Live
  BY DEF Live, CanClusters, FrClusters
<1>2. \A i : ItemRef(i)' = ItemRef(i)
  BY DEF ItemRef, Where, Positions, Cluster
<1>3. \A r : RuleRef(r)' = RuleRef(r) /\ (Heard(r)' <=> Heard(r))
  BY DEF RuleRef, Where, Positions, Cluster, Heard
<1>4. \A k : SubRef(k)' = SubRef(k) /\ (LiveSub(k)' <=> LiveSub(k))
  BY <1>1 DEF SubRef, LiveSub
<1>5. ASSUME map' = map PROVE MapRefs' = MapRefs
  <2>1. \A s : MapRef(s)' = MapRef(s) /\ (Routed(s)' <=> Routed(s))
    BY <1>1, <1>5 DEF MapRef, Routed
  <2> QED
    BY <1>5, <2>1 DEF MapRefs
<1>6. items' = items => ItemRefs' = ItemRefs
  BY <1>2 DEF ItemRefs
<1>7. rules' = rules => RuleRefs' = RuleRefs
  BY <1>3 DEF RuleRefs
<1>8. subs' = subs => SubRefs' = SubRefs
  BY <1>4 DEF SubRefs
<1> QED
  BY <1>1, <1>2, <1>3, <1>4, <1>5, <1>6, <1>7, <1>8

LEMMA StepAttaching ==
    ASSUME Places, Hangs, Hangs', Narrow, Attaching
    PROVE  [Named!NamedNext]_<<Live, ByName>>
<1>1. UNCHANGED <<can, fr, next, map>>
  BY DEF Attaching, AddItem, AddRule, Subscribe
<1>2. /\ Live' = Live
      /\ \A i : ItemRef(i)' = ItemRef(i)
      /\ \A r : RuleRef(r)' = RuleRef(r) /\ (Heard(r)' <=> Heard(r))
      /\ \A k : SubRef(k)' = SubRef(k) /\ (LiveSub(k)' <=> LiveSub(k))
      /\ MapRefs' = MapRefs
      /\ items' = items => ItemRefs' = ItemRefs
      /\ rules' = rules => RuleRefs' = RuleRefs
      /\ subs' = subs => SubRefs' = SubRefs
  BY <1>1, SameOnes
<1>3. Places'
  BY <1>1 DEF Places
<1>4. \A r \in ByName' : r.on \subseteq Live'
  <2>1. Places' /\ Hangs' => (\A r \in ByName : r.on \subseteq Live)'
    BY NamesLive, PTL
  <2> QED
    BY <1>3, <2>1
<1> DEFINE n == Attached + 1
<1> HIDE DEF n
<1>5. \/ \E k \in Kinds, ch \in Positions : AddItem(k, ch, n)
      \/ \E w, s \in Ends : AddRule(w, s, n)
      \/ \E ch \in Positions : Subscribe([space |-> "can", cluster |-> Cluster(ch)])
      \/ \E b \in FrBuses : fr[b] # 0 /\ Subscribe([space |-> "fr", cluster |-> fr[b]])
  BY DEF Attaching, Narrow, n
<1>6. ASSUME NEW r, ByName' = ByName \cup {r} PROVE [Named!NamedNext]_<<Live, ByName>>
  <2>1. r.on \subseteq Live
    BY <1>2, <1>4, <1>6
  <2> QED
    BY <1>2, <1>6, <2>1, StepAttaches
<1>7. ASSUME NEW i, items' = items \cup {i}, UNCHANGED <<rules, subs>>
      PROVE  [Named!NamedNext]_<<Live, ByName>>
  <2>1. ItemRefs' = ItemRefs \cup {ItemRef(i)}
    BY <1>2, <1>7 DEF ItemRefs
  <2>2. ByName' = ByName \cup {ItemRef(i)}
    BY <1>2, <1>7, <2>1, ByNameIs
  <2> QED
    BY <1>6, <2>2
<1>8. ASSUME NEW q, rules' = rules \cup {q}, UNCHANGED <<items, subs>>
      PROVE  [Named!NamedNext]_<<Live, ByName>>
  <2>1. RuleRefs' = RuleRefs \cup (IF Heard(q) THEN {RuleRef(q)} ELSE {})
    BY <1>2, <1>8 DEF RuleRefs
  <2>2. ByName' = ByName \cup (IF Heard(q) THEN {RuleRef(q)} ELSE {})
    BY <1>2, <1>8, <2>1, ByNameIs
  <2>3. CASE Heard(q)
    <3>1. ByName' = ByName \cup {RuleRef(q)}
      BY <2>2, <2>3
    <3> QED
      BY <1>6, <3>1
  <2>4. CASE ~Heard(q)
    <3>1. ByName' = ByName
      BY <2>2, <2>4
    <3> QED
      BY <1>2, <3>1
  <2> QED
    BY <2>3, <2>4
<1>9. ASSUME NEW k, subs' = subs \cup {k}, UNCHANGED <<items, rules>>
      PROVE  [Named!NamedNext]_<<Live, ByName>>
  <2>1. SubRefs' = SubRefs \cup (IF LiveSub(k) THEN {SubRef(k)} ELSE {})
    BY <1>2, <1>9 DEF SubRefs
  <2>2. ByName' = ByName \cup (IF LiveSub(k) THEN {SubRef(k)} ELSE {})
    BY <1>2, <1>9, <2>1, ByNameIs
  <2>3. CASE LiveSub(k)
    <3>1. ByName' = ByName \cup {SubRef(k)}
      BY <2>2, <2>3
    <3> QED
      BY <1>6, <3>1
  <2>4. CASE ~LiveSub(k)
    <3>1. ByName' = ByName
      BY <2>2, <2>4
    <3> QED
      BY <1>2, <3>1
  <2> QED
    BY <2>3, <2>4
<1>10. ASSUME NEW k \in Kinds, NEW ch \in Positions, AddItem(k, ch, n)
       PROVE  [Named!NamedNext]_<<Live, ByName>>
  <2>1. items' = items \cup {[kind |-> k, n |-> n, ch |-> ch]} /\ UNCHANGED <<rules, subs>>
    BY <1>10 DEF AddItem
  <2> QED
    BY <1>7, <2>1
<1>11. ASSUME NEW w \in Ends, NEW s \in Ends, AddRule(w, s, n)
       PROVE  [Named!NamedNext]_<<Live, ByName>>
  <2>1. rules' = rules \cup {[watch |-> w, send |-> s, n |-> n]} /\ UNCHANGED <<items, subs>>
    BY <1>11 DEF AddRule
  <2> QED
    BY <1>8, <2>1
<1>12. ASSUME NEW k, Subscribe(k) PROVE [Named!NamedNext]_<<Live, ByName>>
  BY <1>9, <1>12 DEF Subscribe
<1> QED
  BY <1>5, <1>10, <1>11, <1>12

LEMMA TagsDiffer ==
    ASSUME Hangs, NEW s, NEW x, NEW r, r = [of |-> <<"map", s>>, on |-> {x}]
    PROVE  r \notin ItemRefs /\ r \notin RuleRefs /\ r \notin SubRefs
<1>1. r.of = <<"map", s>> /\ r.of[1] = "map"
  OBVIOUS
<1>2. \A q \in ItemRefs : q.of[1] = "item"
  BY DEF ItemRefs, ItemRef
<1>3. \A q \in RuleRefs : q.of[1] = "rule"
  BY DEF RuleRefs, RuleRef
<1>4. \A q \in SubRefs : q.of[1] = "sub"
  BY DEF SubRefs, SubRef
<1> QED
  BY <1>1, <1>2, <1>3, <1>4

\* A route is named anew, given up, or moved.
LEMMA StepRouting ==
    ASSUME Places, Places', Hangs, Hangs', Routing
    PROVE  [Named!NamedNext]_<<Live, ByName>>
<1>1. UNCHANGED <<can, fr, next, items, rules, subs>>
  BY DEF Routing, SetReplayMap
<1>2. PICK s, to : s \in {"can", "fr"} /\ map' = [map EXCEPT ![s] = to]
  BY DEF Routing, SetReplayMap
<1>3. /\ Live' = Live /\ ItemRefs' = ItemRefs /\ RuleRefs' = RuleRefs /\ SubRefs' = SubRefs
  BY <1>1, SameOnes
<1>4. /\ map \in [{"can", "fr"} -> Int] /\ DOMAIN map = {"can", "fr"}
      /\ DOMAIN map' = {"can", "fr"} /\ \A q \in {"can", "fr"} : q # s => map'[q] = map[q]
  BY <1>2 DEF Hangs
<1> DEFINE M(m, q) == IF m[q] \notin {Same, Drop} /\ m[q] \in Live
                      THEN {[of |-> <<"map", q>>, on |-> {m[q]}]} ELSE {}
<1>5. MapRefs = M(map, "can") \cup M(map, "fr")
  BY <1>4 DEF MapRefs, MapRef, Routed
<1>6. MapRefs' = M(map', "can") \cup M(map', "fr")
  BY <1>3, <1>4 DEF MapRefs, MapRef, Routed
<1>7. PICK q \in {"can", "fr"} : q # s /\ {"can", "fr"} = {s, q}
  BY <1>2
<1> DEFINE other == ItemRefs \cup RuleRefs \cup SubRefs \cup M(map, q)
           r1 == [of |-> <<"map", s>>, on |-> {map[s]}]
           r2 == [of |-> <<"map", s>>, on |-> {map'[s]}]
           has1 == map[s] \notin {Same, Drop} /\ map[s] \in Live
           has2 == map'[s] \notin {Same, Drop} /\ map'[s] \in Live
<1>8. M(map', q) = M(map, q)
  BY <1>4, <1>7
<1>9. M(map, s) = IF has1 THEN {r1} ELSE {}
  OBVIOUS
<1>10. M(map', s) = IF has2 THEN {r2} ELSE {}
  OBVIOUS
<1>11. r1 \notin other /\ r2 \notin other
  <2>1. \A x : [of |-> <<"map", s>>, on |-> {x}] \notin ItemRefs \cup RuleRefs \cup SubRefs
    BY TagsDiffer
  <2>2. \A x : [of |-> <<"map", s>>, on |-> {x}] \notin M(map, q)
    <3> TAKE x
    <3>1. ASSUME [of |-> <<"map", s>>, on |-> {x}] = [of |-> <<"map", q>>, on |-> {map[q]}]
          PROVE  FALSE
      <4>1. <<"map", s>> = <<"map", q>>
        BY <3>1
      <4>2. <<"map", s>>[2] = <<"map", q>>[2]
        BY <4>1
      <4> QED
        BY <1>7, <4>2
    <3> QED
      BY <3>1
  <2> QED
    BY <2>1, <2>2
<1> HIDE DEF M
<1>12. ByName = other \cup M(map, s) /\ ByName' = other \cup M(map', s)
  <2>1. MapRefs = M(map, s) \cup M(map, q) /\ MapRefs' = M(map', s) \cup M(map, q)
    <3>1. (s = "can" /\ q = "fr") \/ (s = "fr" /\ q = "can")
      BY <1>2, <1>7
    <3> QED
      BY <1>5, <1>6, <1>8, <3>1
  <2> QED
    BY <1>3, <2>1, ByNameIs
<1>13. has1 => r1.on \subseteq Live
  OBVIOUS
<1>14. has2 => r2.on \subseteq Live
  OBVIOUS
<1>15. r1.of = r2.of
  OBVIOUS
<1> HIDE DEF other, r1, r2, has1, has2
<1>16. CASE ~has1 /\ ~has2
  BY <1>3, <1>9, <1>10, <1>12, <1>16
<1>17. CASE ~has1 /\ has2
  <2>1. ByName' = ByName \cup {r2}
    BY <1>9, <1>10, <1>12, <1>17
  <2> QED
    BY <1>3, <1>14, <1>17, <2>1, StepAttaches
<1>18. CASE has1 /\ ~has2
  <2>1. r1 \in ByName \ ByName' /\ ByName' = ByName \ {r1}
    BY <1>9, <1>10, <1>11, <1>12, <1>18
  <2>2. Named!Detach(r1)
    BY <1>3, <2>1 DEF Named!Detach
  <2> QED
    BY <2>1, <2>2 DEF Named!NamedNext
<1>19. CASE has1 /\ has2 /\ r1 = r2
  BY <1>3, <1>9, <1>10, <1>12, <1>19
<1>20. CASE has1 /\ has2 /\ r1 # r2
  <2>1. r1 \in ByName \ ByName' /\ r2 \in ByName' \ ByName /\ ByName' = (ByName \ {r1}) \cup {r2}
    BY <1>9, <1>10, <1>11, <1>12, <1>20
  <2>2. Named!Move(r1, r2)
    BY <1>3, <1>14, <1>15, <1>20, <2>1 DEF Named!Move
  <2> QED
    BY <2>1, <2>2 DEF Named!NamedNext
<1> QED
  BY <1>16, <1>17, <1>18, <1>19, <1>20

\* Opening a project brings back all but the keys no row asks for.
LEMMA StepOpen ==
    ASSUME HungInv, HungInv', ~RowsAnytime, Kinds \subseteq Sited \cup {"tx"}, OpenProject
    PROVE  [Named!NamedNext]_<<Live, ByName>>
<1>1. /\ UNCHANGED <<can, fr, next, map, rules>>
      /\ items' = {i \in items : i.kind \in Sited \cup {"tx"}}
  BY OpenKeeps
<1>2. Hangs /\ Places' /\ Hangs'
  BY DEF HungInv, SavedInv, Followed
<1>3. items' = items
  <2>1. \A i \in items : i.kind \in Kinds
    BY <1>2 DEF Hangs, ItemFits
  <2> QED
    BY <1>1, <2>1
<1>4. /\ Live' = Live /\ ItemRefs' = ItemRefs /\ RuleRefs' = RuleRefs /\ MapRefs' = MapRefs
  BY <1>1, <1>3, SameOnes
<1>5. \A r \in ByName' : r.on \subseteq Live
  <2>1. Places' /\ Hangs' => (\A r \in ByName : r.on \subseteq Live)'
    BY NamesLive, PTL
  <2> QED
    BY <1>2, <1>4, <2>1
<1>6. (\A q \in SubRefs : q.of[1] = "sub") /\ (\A q \in SubRefs' : q.of[1] = "sub")
  BY DEF SubRefs, SubRef
<1>7. Named!Kept(ByName') = Named!Kept(ByName)
  BY <1>4, <1>6, ByNameIs DEF Named!Kept
<1>8. Named!Reopen
  BY <1>4, <1>5, <1>7 DEF Named!Reopen
<1> QED
  BY <1>8 DEF Named!NamedNext

LEMMA StepNamed ==
    ASSUME Narrow, HungInv, HungInv', [Next]_vars
    PROVE  [Named!NamedNext]_<<Live, ByName>>
<1>1. Places /\ Places' /\ Pending /\ RemovesFirst /\ Hangs /\ Hangs'
  BY DEF HungInv, SavedInv, Followed, Windows
<1>2. CASE Handle
  BY <1>1, <1>2, StepHandle
<1>3. CASE Attaching
  BY <1>1, <1>3, StepAttaching
<1>4. CASE Routing
  BY <1>1, <1>4, StepRouting
<1>5. CASE UNCHANGED core
  <2>1. UNCHANGED <<can, fr, next, items, rules, subs, map>>
    BY <1>5 DEF core
  <2>2. UNCHANGED <<Live, ByName>>
    BY <2>1, SameOnes, ByNameIs
  <2> QED
    BY <2>2
<1> QED
  BY <1>2, <1>3, <1>4, <1>5 DEF Next, AppRemoveChannel, AppAddChannel, AppAddFrBus,
       AppRemoveFrBus, Show, ShowFr, Read, vars

LEMMA InitNamed == ProjectInit => Named!NamedInit
<1> SUFFICES ASSUME ProjectInit PROVE Named!NamedInit
  OBVIOUS
<1>1. /\ Places /\ Hangs
  BY PlacesInit, HangsInit DEF ProjectInit
<1>2. items = {} /\ rules = {} /\ subs = {} /\ map = [k \in {"can", "fr"} |-> Same]
  BY DEF ProjectInit, Init
<1>3. ByName = {}
  <2>1. ItemRefs = {} /\ RuleRefs = {} /\ SubRefs = {}
    BY <1>2 DEF ItemRefs, RuleRefs, SubRefs
  <2>2. MapRefs = {}
    BY <1>2 DEF MapRefs, Routed
  <2> QED
    BY <2>1, <2>2, ByNameIs
<1>4. Live \in SUBSET Nat
  BY <1>1, LiveIs DEF LiveFit
<1> QED
  BY <1>3, <1>4 DEF Named!NamedInit

\* Whatever the core renumbers, to somebody who names the buses a removal takes what was
\* attached to one bus and leaves everything else where it was.
THEOREM BusesAreNamed ==
    Prompt /\ ~RowsAnytime /\ Narrow /\ Kinds \subseteq Sited \cup {"tx"} /\ ProjectSpec
      => BusesByName
<1>1. CASE Prompt /\ ~RowsAnytime /\ Narrow /\ Kinds \subseteq Sited \cup {"tx"}
  <2>1. HungInv /\ [ProjectNext]_projectVars => HungInv'
    BY <1>1, HungNext
  <2>2. HungInv /\ HungInv' /\ [ProjectNext]_projectVars => [Named!NamedNext]_<<Live, ByName>>
    <3> SUFFICES ASSUME HungInv, HungInv', [ProjectNext]_projectVars
                 PROVE  [Named!NamedNext]_<<Live, ByName>>
      OBVIOUS
    <3>1. CASE [Next]_vars
      BY <1>1, <3>1, StepNamed
    <3>2. CASE OpenProject
      BY <1>1, <3>2, StepOpen
    <3> QED
      BY <3>1, <3>2 DEF ProjectNext, SaveProject, projectVars
  <2> QED
    BY <2>1, <2>2, HungInit, InitNamed, PTL DEF ProjectSpec, BusesByName, Named!NamedSpec
<1> QED
  BY <1>1

-----------------------------------------------------------------------------
(* Wires.  One line for each wire that refuses, and no parked traffic later:  *)
(* for any number of buses, ports and queued frames.  Bus removals are left to *)
(* moments when no refusal waits (RemovePending), as the line of a removed bus *)
(* is told of the bus that moves into its place.                             *)

\* The ports with clean queues: no frame a parked poll has passed over.  Only
\* an Ethernet port keeps such frames.
Ports(Mark) == [id : Nat \ {0}, queue : Seq(Mark), tx_fail : 0..2]
Sockets(Mark) == {NoPort} \cup Ports(Mark)

Sized(p, top) == IsPort(p) => p.id <= top /\ Len(p.queue) <= MaxQueue

\* An attached port that never refused owns no line; one that did owns one,
\* which waits or was told.
Owns(p, told, waiting) == IF p.tx_fail = 0 THEN told = 0 /\ waiting = 0 ELSE told + waiting = 1

Shape ==
  /\ live \in BOOLEAN /\ running \in BOOLEAN /\ ports \in 0..MaxPorts
  /\ \E n \in 1..MaxWires : wires \in [1..n -> Sockets({FALSE})]
  /\ frWatch \in Sockets({FALSE}) /\ eth \in Sockets(BOOLEAN)
  /\ Sized(frWatch, ports) /\ Sized(eth, ports) /\ \A b \in Wired : Sized(wires[b], ports)
  /\ pending \in [1..MaxWires -> Nat]
  /\ news \in [1..MaxPorts -> 0..1]

Unshared == \A b, c \in Wired : wires[b].id = wires[c].id /\ IsPort(wires[b]) => b = c

Lines ==
  /\ \A p \in 1..MaxPorts : p > ports => news[p] = 0
  /\ \A b \in Wired : IsPort(wires[b]) => Owns(wires[b], news[wires[b].id], pending[b])

IInv == Shape /\ Unshared /\ Lines /\ heard \subseteq {FALSE}

-----------------------------------------------------------------------------
(* Ports.                                                                    *)

LEMMA FunctionSeq ==
    ASSUME NEW S, NEW n \in Nat, NEW f \in [1..n -> S]
    PROVE  f \in Seq(S) /\ Len(f) = n
<1>1. f \in Seq(S)
  BY SeqDef, Zenon
<1>2. DOMAIN f = 1..n /\ DOMAIN f = 1..Len(f) /\ Len(f) \in Nat
  BY <1>1, LenProperties
<1> QED
  BY <1>1, <1>2

LEMMA Appended ==
    ASSUME NEW S, NEW x \in S, NEW s \in Seq(S)
    PROVE  Append(s, x) \in Seq(S) /\ Len(Append(s, x)) = Len(s) + 1
BY AppendProperties

LEMMA PortParts ==
    ASSUME NEW Mark, NEW p \in Sockets(Mark)
    PROVE  /\ IsPort(p) <=> p \in Ports(Mark)
           /\ ~IsPort(p) <=> p = NoPort
           /\ p.id \in Nat
BY DEF Sockets, Ports, IsPort, NoPort

LEMMA SizedMore ==
    ASSUME NEW Mark, NEW p \in Sockets(Mark), NEW n \in Nat, Sized(p, n)
    PROVE  Sized(p, n + 1)
BY PortParts DEF Sized

LEMMA FreshPort ==
    ASSUME NEW Mark, NEW n \in Nat \ {0}
    PROVE  /\ Fresh(n) \in Sockets(Mark) /\ IsPort(Fresh(n)) /\ Fresh(n).id = n
           /\ Fresh(n).tx_fail = 0 /\ Len(Fresh(n).queue) = 0
<1>1. <<>> \in Seq(Mark) /\ Len(<<>>) = 0
  OBVIOUS
<1>2. Fresh(n).queue = <<>>
  BY DEF Fresh
<1> QED
  BY <1>1, <1>2 DEF Fresh, Sockets, Ports, IsPort

LEMMA QueuedPort ==
    ASSUME NEW Mark, FALSE \in Mark, NEW p \in Sockets(Mark), IsPort(p)
    PROVE  /\ Queued(p) \in Sockets(Mark) /\ Queued(p).id = p.id /\ Queued(p).tx_fail = p.tx_fail
           /\ Len(Queued(p).queue) = Len(p.queue) + 1
<1>1. p \in Ports(Mark)
  BY PortParts
<1>2. p.queue \in Seq(Mark)
  BY <1>1 DEF Ports
<1>3. Append(p.queue, FALSE) \in Seq(Mark) /\ Len(Append(p.queue, FALSE)) = Len(p.queue) + 1
  BY <1>2, Appended, Zenon
<1>4. Queued(p) = [p EXCEPT !.queue = Append(p.queue, FALSE)]
  BY DEF Queued
<1> DEFINE q == Append(p.queue, FALSE)
<1> HIDE DEF q
<1>5. Queued(p) \in Ports(Mark) /\ Queued(p).id = p.id /\ Queued(p).tx_fail = p.tx_fail /\ Queued(p).queue = q
  <2>1. q \in Seq(Mark) /\ Queued(p) = [p EXCEPT !.queue = q]
    BY <1>3, <1>4 DEF q
  <2> QED
    BY <1>1, <2>1 DEF Ports
<1> QED
  BY <1>3, <1>5 DEF q, Sockets

LEMMA LatchedPort ==
    ASSUME NEW Mark, NEW p \in Sockets(Mark), IsPort(p)
    PROVE  /\ Latched(p) \in Sockets(Mark) /\ Latched(p).id = p.id /\ Latched(p).queue = p.queue
           /\ Latched(p).tx_fail > 0
<1>1. p \in Ports(Mark)
  BY PortParts
<1> DEFINE n == IF p.tx_fail < 2 THEN p.tx_fail + 1 ELSE 2
<1>2. n \in 0..2 /\ n > 0
  BY <1>1 DEF Ports
<1>3. Latched(p) = [p EXCEPT !.tx_fail = n]
  BY DEF Latched
<1> HIDE DEF n
<1> QED
  BY <1>1, <1>2, <1>3 DEF Ports, Sockets

LEMMA PolledPort ==
    ASSUME NEW Mark, NEW p \in Sockets(Mark)
    PROVE  /\ Polled(p) \in Sockets(Mark) /\ Polled(p).id = p.id
           /\ IsPort(p) => Polled(p).tx_fail = p.tx_fail /\ Len(Polled(p).queue) = 0
<1>1. CASE IsPort(p)
  <2>1. p \in Ports(Mark)
    BY <1>1, PortParts
  <2>2. Polled(p) = [p EXCEPT !.queue = <<>>]
    BY <1>1 DEF Polled
  <2>3. <<>> \in Seq(Mark) /\ Len(<<>>) = 0
    OBVIOUS
  <2>4. Polled(p) \in Ports(Mark) /\ Polled(p).queue = <<>> /\ Polled(p).id = p.id /\ Polled(p).tx_fail = p.tx_fail
    BY <2>1, <2>2, <2>3 DEF Ports
  <2> QED
    BY <2>3, <2>4 DEF Sockets
<1>2. CASE ~IsPort(p)
  BY <1>2 DEF Polled
<1> QED
  BY <1>1, <1>2

LEMMA PolledEthPort ==
    ASSUME NEW p \in Sockets(BOOLEAN)
    PROVE  /\ PolledEth(p) \in Sockets(BOOLEAN) /\ PolledEth(p).id = p.id
           /\ IsPort(p) => Len(PolledEth(p).queue) <= Len(p.queue)
<1>1. CASE ~IsPort(p)
  BY <1>1 DEF PolledEth, PolledParkedKept
<1>2. CASE IsPort(p)
  <2>1. p \in Ports(BOOLEAN) /\ p.queue \in Seq(BOOLEAN) /\ Len(p.queue) \in Nat
    BY <1>2, PortParts DEF Ports
  <2> DEFINE q == IF live THEN <<>> ELSE [k \in DOMAIN p.queue |-> TRUE]
  <2>2. q \in Seq(BOOLEAN) /\ Len(q) <= Len(p.queue)
    <3>1. CASE live
      BY <2>1, <3>1
    <3>2. CASE ~live
      <4>1. q = [k \in 1..Len(p.queue) |-> TRUE]
        BY <2>1, <3>2
      <4>2. q \in [1..Len(p.queue) -> BOOLEAN]
        BY <4>1
      <4> HIDE DEF q
      <4>3. q \in Seq(BOOLEAN) /\ Len(q) = Len(p.queue)
        BY <2>1, <4>2, FunctionSeq
      <4> QED
        BY <2>1, <4>3
    <3> QED
      BY <3>1, <3>2
  <2>3. PolledEth(p) = [p EXCEPT !.queue = q]
    BY <1>2 DEF PolledEth, PolledParkedKept
  <2> HIDE DEF q
  <2>4. PolledEth(p) \in Ports(BOOLEAN) /\ PolledEth(p).queue = q /\ PolledEth(p).id = p.id
    BY <2>1, <2>2, <2>3 DEF Ports
  <2> QED
    BY <2>2, <2>4 DEF Sockets
<1> QED
  BY <1>1, <1>2

LEMMA MarksOf ==
    ASSUME NEW p \in Sockets({FALSE})
    PROVE  Marks(p) \subseteq {FALSE}
<1>1. CASE IsPort(p)
  <2>1. p.queue \in Seq({FALSE})
    BY <1>1, PortParts DEF Ports
  <2>2. ASSUME NEW k \in DOMAIN p.queue PROVE p.queue[k] \in {FALSE}
    BY <2>1, LenProperties, Zenon
  <2> QED
    BY <2>2, Zenon DEF Marks
<1>2. CASE ~IsPort(p)
  BY <1>2 DEF Marks
<1> QED
  BY <1>1, <1>2

-----------------------------------------------------------------------------
(* The invariant.                                                            *)

LEMMA InvInit == WiresInit => IInv
<1> SUFFICES ASSUME WiresInit PROVE IInv
  OBVIOUS
<1>1. /\ wires = [b \in 1..MaxWires |-> NoPort] /\ frWatch = NoPort /\ eth = NoPort
      /\ pending = [b \in 1..MaxWires |-> 0] /\ news = [p \in 1..MaxPorts |-> 0]
      /\ ports = 0 /\ live \in BOOLEAN /\ running \in BOOLEAN /\ heard = {}
  BY DEF WiresInit, NoLines
<1>2. /\ \A Mark : NoPort \in Sockets(Mark)
      /\ ~IsPort(NoPort)
  BY DEF Sockets, NoPort, IsPort
<1>3. wires \in [1..MaxWires -> Sockets({FALSE})] /\ MaxWires \in 1..MaxWires
  BY <1>1, <1>2, WiresAssumption
<1>4. \A b \in Wired : ~IsPort(wires[b])
  BY <1>1, <1>2 DEF Wired
<1>5. Shape
  BY <1>1, <1>2, <1>3, <1>4, WiresAssumption DEF Shape, Sized
<1> QED
  BY <1>1, <1>4, <1>5 DEF IInv, Unshared, Lines

\* Where every wire keeps its port or loses it, no port comes to serve two.
LEMMA StillUnshared ==
    ASSUME Unshared, DOMAIN wires' = Wired,
           \A b \in Wired : wires'[b].id \in {0, wires[b].id}
    PROVE  Unshared'
BY DEF Unshared, Wired, IsPort

\* What Shape says of the wires, for a step that leaves the rest.
LEMMA WiresOf ==
    ASSUME Shape
    PROVE  \E n \in 1..MaxWires :
             /\ wires \in [1..n -> Sockets({FALSE})] /\ Wired = 1..n /\ Len(wires) = n
             /\ \A b \in Wired : wires[b] \in Sockets({FALSE}) /\ Sized(wires[b], ports) /\ b \in 1..MaxWires
<1>1. PICK n \in 1..MaxWires : wires \in [1..n -> Sockets({FALSE})]
  BY DEF Shape
<1>2. n \in Nat /\ Wired = 1..n
  BY <1>1, WiresAssumption DEF Wired
<1>3. Len(wires) = n
  BY <1>1, <1>2, FunctionSeq
<1>4. \A b \in Wired : wires[b] \in Sockets({FALSE}) /\ Sized(wires[b], ports)
  BY <1>1, <1>2 DEF Shape
<1>5. 1..n \subseteq 1..MaxWires
  BY WiresAssumption
<1> QED
  BY <1>1, <1>2, <1>3, <1>4, <1>5

LEMMA AttachKeeps ==
    ASSUME IInv, NEW b \in Wired, Attach(b)
    PROVE  IInv'
<1>1. /\ ports < MaxPorts /\ ports' = ports + 1 /\ ports \in Nat /\ ports + 1 \in 1..MaxPorts
      /\ wires' = [wires EXCEPT ![b] = Fresh(ports + 1)]
      /\ pending' = [pending EXCEPT ![b] = 0] /\ heard' = {}
      /\ UNCHANGED <<live, running, frWatch, eth, news>>
  BY WiresAssumption DEF Attach, Quiet, IInv, Shape
<1>2. PICK n \in 1..MaxWires :
         /\ wires \in [1..n -> Sockets({FALSE})] /\ Wired = 1..n
         /\ \A c \in Wired : wires[c] \in Sockets({FALSE}) /\ Sized(wires[c], ports) /\ c \in 1..MaxWires
  BY WiresOf DEF IInv
<1> DEFINE fresh == Fresh(ports + 1)
<1>3. /\ fresh \in Sockets({FALSE}) /\ IsPort(fresh) /\ fresh.id = ports + 1
      /\ fresh.tx_fail = 0 /\ Len(fresh.queue) = 0
  BY <1>1, FreshPort
<1> HIDE DEF fresh
<1>4. /\ wires' \in [1..n -> Sockets({FALSE})] /\ DOMAIN wires' = Wired
      /\ wires'[b] = fresh /\ \A c \in Wired : c # b => wires'[c] = wires[c]
  BY <1>1, <1>2, <1>3 DEF fresh
<1>5. \A c \in Wired : wires[c].id \in Nat /\ wires[c].id <= ports
  BY <1>1, <1>2, PortParts DEF Sized, NoPort
<1>6. \A c \in Wired : Sized(wires'[c], ports')
  <2>1. Sized(fresh, ports + 1)
    BY <1>1, <1>3, WiresAssumption DEF Sized
  <2>2. ASSUME NEW c \in Wired, c # b PROVE Sized(wires'[c], ports')
    BY <1>1, <1>2, <1>4, <2>2, SizedMore
  <2> QED
    BY <1>1, <1>4, <2>1, <2>2
<1>7. pending' \in [1..MaxWires -> Nat] /\ pending'[b] = 0
      /\ \A c \in Wired : c # b => pending'[c] = pending[c]
  BY <1>1, <1>2 DEF IInv, Shape
<1>8. Shape'
  <2>1. Sized(frWatch', ports') /\ Sized(eth', ports')
    BY <1>1, SizedMore DEF IInv, Shape
  <2>2. ports' \in 0..MaxPorts
    BY <1>1, WiresAssumption
  <2>3. \A c \in DOMAIN wires' : Sized(wires'[c], ports')
    BY <1>4, <1>6
  <2> QED
    BY <1>1, <1>4, <1>7, <2>1, <2>2, <2>3 DEF IInv, Shape, Wired
<1>9. Unshared'
  BY <1>1, <1>3, <1>4, <1>5 DEF IInv, Unshared, Wired, IsPort
<1>10. Lines'
  <2>1. \A p \in 1..MaxPorts : p > ports' => news'[p] = 0
    BY <1>1 DEF IInv, Lines
  <2>2. ASSUME NEW c \in Wired, IsPort(wires'[c]) PROVE Owns(wires'[c], news'[wires'[c].id], pending'[c])
    <3>1. CASE c = b
      BY <1>1, <1>3, <1>4, <1>7, <3>1 DEF IInv, Lines, Owns
    <3>2. CASE c # b
      BY <1>1, <1>4, <1>7, <2>2, <3>2 DEF IInv, Lines
    <3> QED
      BY <3>1, <3>2
  <2> QED
    BY <1>4, <2>1, <2>2 DEF Lines, Wired
<1> QED
  BY <1>1, <1>8, <1>9, <1>10 DEF IInv

\* Steps after which every wire has the port it had, with the line it owned,
\* or none.
LEMMA QuietKeeps ==
    ASSUME IInv, DOMAIN wires' = Wired, heard' \subseteq {FALSE},
           \A b \in Wired :
             \/ wires'[b] = NoPort
             \/ /\ wires'[b] \in Sockets({FALSE}) /\ Sized(wires'[b], ports')
                /\ wires'[b].id = wires[b].id
                /\ wires'[b].tx_fail = wires[b].tx_fail,
           live' \in BOOLEAN, running' \in BOOLEAN,
           ports' \in ports..MaxPorts, UNCHANGED <<pending, news>>,
           frWatch' \in Sockets({FALSE}), eth' \in Sockets(BOOLEAN),
           Sized(frWatch', ports'), Sized(eth', ports'), wires' = [b \in Wired |-> wires'[b]]
    PROVE  IInv'
<1>1. PICK n \in 1..MaxWires :
         /\ wires \in [1..n -> Sockets({FALSE})] /\ Wired = 1..n
         /\ \A c \in Wired : wires[c] \in Sockets({FALSE}) /\ Sized(wires[c], ports) /\ c \in 1..MaxWires
  BY WiresOf DEF IInv
<1>2. NoPort \in Sockets({FALSE}) /\ ~IsPort(NoPort) /\ NoPort.id = 0 /\ ports \in 0..MaxPorts
  BY DEF Sockets, NoPort, IsPort, IInv, Shape
<1>3. wires' \in [1..n -> Sockets({FALSE})]
  BY <1>1, <1>2
<1>4. \A b \in Wired : Sized(wires'[b], ports')
  BY <1>2 DEF Sized
<1>5. ports' \in 0..MaxPorts
  BY <1>2, WiresAssumption
<1>6. Shape'
  BY <1>3, <1>4, <1>5 DEF IInv, Shape, Wired
<1>7. Unshared'
  BY <1>2, StillUnshared DEF IInv
<1>8. Lines'
  <2>1. \A p \in 1..MaxPorts : p > ports' => news'[p] = 0
    BY <1>2, WiresAssumption DEF IInv, Lines
  <2>2. ASSUME NEW b \in Wired, IsPort(wires'[b]) PROVE Owns(wires'[b], news'[wires'[b].id], pending'[b])
    <3>1. wires'[b].id = wires[b].id /\ wires'[b].tx_fail = wires[b].tx_fail /\ IsPort(wires[b])
      BY <1>2, <2>2 DEF IsPort
    <3> QED
      BY <3>1 DEF IInv, Lines, Owns
  <2> QED
    BY <2>1, <2>2 DEF Lines, Wired
<1> QED
  BY <1>6, <1>7, <1>8 DEF IInv

\* The steps that leave the wires as they are, and those that close some.
LEMMA OthersKeep ==
    ASSUME IInv,
           \/ \E b \in Wired : Detach(b)
           \/ AttachOther
           \/ RefreshHardware
           \/ \E real \in BOOLEAN : SetBusMode(real)
           \/ StartStop
           \/ EmitEth
           \/ UNCHANGED wireVars
    PROVE  IInv'
<1>1. PICK n \in 1..MaxWires :
         /\ wires \in [1..n -> Sockets({FALSE})] /\ Wired = 1..n
         /\ \A c \in Wired : wires[c] \in Sockets({FALSE}) /\ Sized(wires[c], ports) /\ c \in 1..MaxWires
  BY WiresOf DEF IInv
<1>2. /\ frWatch \in Sockets({FALSE}) /\ eth \in Sockets(BOOLEAN)
      /\ Sized(frWatch, ports) /\ Sized(eth, ports)
      /\ live \in BOOLEAN /\ running \in BOOLEAN /\ ports \in 0..MaxPorts
      /\ NoPort \in Sockets({FALSE}) /\ Sized(NoPort, ports)
  BY DEF IInv, Shape, Sockets, Sized, NoPort, IsPort
<1>3. heard' \subseteq {FALSE} /\ UNCHANGED <<pending, news>>
  BY DEF IInv, Detach, AttachOther, RefreshHardware, SetBusMode, StartStop, EmitEth, wireVars, Quiet
<1>4. CASE \E b \in Wired : Detach(b)
  <2>1. PICK b \in Wired : /\ wires' = [wires EXCEPT ![b] = NoPort]
                           /\ UNCHANGED <<live, running, frWatch, eth, ports>>
    BY <1>4 DEF Detach
  <2>2. \A c \in Wired : wires'[c] = NoPort \/ wires'[c] = wires[c]
    BY <1>1, <2>1
  <2>3. DOMAIN wires' = Wired /\ wires' = [c \in Wired |-> wires'[c]]
    BY <1>1, <2>1
  <2>4. ports' \in ports..MaxPorts
    BY <1>2, <2>1
  <2> QED
    BY <1>1, <1>2, <1>3, <2>1, <2>2, <2>3, <2>4, QuietKeeps
<1>5. CASE AttachOther
  <2>1. /\ ports < MaxPorts /\ ports' = ports + 1 /\ ports' \in ports..MaxPorts /\ ports \in Nat
        /\ frWatch' \in {frWatch, Fresh(ports + 1)} /\ eth' \in {eth, Fresh(ports + 1)}
        /\ UNCHANGED <<live, running, wires>>
    BY <1>2, <1>5, WiresAssumption DEF AttachOther
  <2>2. /\ Fresh(ports + 1) \in Sockets({FALSE}) /\ Fresh(ports + 1) \in Sockets(BOOLEAN)
        /\ Fresh(ports + 1).id = ports + 1 /\ Len(Fresh(ports + 1).queue) = 0
    BY <2>1, FreshPort
  <2> DEFINE fresh == Fresh(ports + 1)
  <2>3. Sized(fresh, ports + 1)
    BY <2>1, <2>2, WiresAssumption DEF Sized
  <2> HIDE DEF fresh
  <2>4. /\ frWatch' \in Sockets({FALSE}) /\ Sized(frWatch', ports')
        /\ eth' \in Sockets(BOOLEAN) /\ Sized(eth', ports')
    BY <1>2, <2>1, <2>2, <2>3, SizedMore DEF fresh
  <2>5. \A c \in Wired : Sized(wires[c], ports + 1)
    BY <1>1, <2>1, SizedMore
  <2>6. DOMAIN wires' = Wired /\ wires' = [c \in Wired |-> wires'[c]]
    BY <1>1, <2>1
  <2> QED
    BY <1>1, <1>2, <1>3, <2>1, <2>4, <2>5, <2>6, QuietKeeps
<1>6. CASE RefreshHardware
  <2>1. /\ wires' = [b \in Wired |-> NoPort] /\ frWatch' = NoPort
        /\ UNCHANGED <<live, running, eth, ports>>
    BY <1>6 DEF RefreshHardware
  <2>2. \A c \in Wired : wires'[c] = NoPort
    BY <2>1
  <2>3. DOMAIN wires' = Wired /\ wires' = [c \in Wired |-> wires'[c]]
    BY <2>1
  <2>4. ports' \in ports..MaxPorts
    BY <1>2, <2>1
  <2> QED
    BY <1>1, <1>2, <1>3, <2>1, <2>2, <2>3, <2>4, QuietKeeps
<1>7. ASSUME \/ \E real \in BOOLEAN : SetBusMode(real)
             \/ StartStop
             \/ EmitEth
             \/ UNCHANGED wireVars
      PROVE  IInv'
  <2>1. /\ live' \in BOOLEAN /\ running' \in BOOLEAN
        /\ UNCHANGED <<wires, frWatch, eth, ports>>
    BY <1>2, <1>7, Zenon DEF SetBusMode, StartStop, EmitEth, wireVars
  <2>2. DOMAIN wires' = Wired /\ wires' = [c \in Wired |-> wires'[c]]
    BY <1>1, <2>1
  <2>3. ports' \in ports..MaxPorts
    BY <1>2, <2>1
  <2> QED
    BY <1>1, <1>2, <1>3, <2>1, <2>2, <2>3, QuietKeeps
<1> QED
  BY <1>4, <1>5, <1>6, <1>7

LEMMA ArrivesKeeps ==
    ASSUME IInv, Arrives
    PROVE  IInv'
<1>1. PICK n \in 1..MaxWires :
         /\ wires \in [1..n -> Sockets({FALSE})] /\ Wired = 1..n
         /\ \A c \in Wired : wires[c] \in Sockets({FALSE}) /\ Sized(wires[c], ports) /\ c \in 1..MaxWires
  BY WiresOf DEF IInv
<1>2. /\ frWatch \in Sockets({FALSE}) /\ eth \in Sockets(BOOLEAN)
      /\ Sized(frWatch, ports) /\ Sized(eth, ports)
      /\ live' \in BOOLEAN /\ running' \in BOOLEAN /\ ports \in 0..MaxPorts
      /\ heard' \subseteq {FALSE} /\ UNCHANGED <<live, running, pending, news, ports>>
  BY DEF IInv, Shape, Arrives
<1>3. ports' \in ports..MaxPorts
  BY <1>2
<1>4. ASSUME NEW Mark, FALSE \in Mark, NEW p \in Sockets(Mark), HasRoom(p), Sized(p, ports)
      PROVE  /\ Queued(p) \in Sockets(Mark) /\ Queued(p).id = p.id /\ Queued(p).tx_fail = p.tx_fail
             /\ Sized(Queued(p), ports)
  <2>1. IsPort(p) /\ Len(p.queue) < MaxQueue /\ p.id <= ports
    BY <1>4 DEF HasRoom, Sized
  <2>2. p.queue \in Seq(Mark)
    BY <2>1, PortParts DEF Ports
  <2>3. Len(p.queue) \in Nat
    BY <2>2
  <2>4. /\ Queued(p) \in Sockets(Mark) /\ Queued(p).id = p.id /\ Queued(p).tx_fail = p.tx_fail
        /\ Len(Queued(p).queue) = Len(p.queue) + 1
    BY <2>1, <1>4, QueuedPort
  <2> QED
    BY <2>1, <2>3, <2>4, WiresAssumption DEF Sized
<1>5. ASSUME NEW b \in Wired, HasRoom(wires[b]), wires' = [wires EXCEPT ![b] = Queued(@)],
             UNCHANGED <<frWatch, eth>>
      PROVE  IInv'
  <2>1. /\ Queued(wires[b]) \in Sockets({FALSE}) /\ Queued(wires[b]).id = wires[b].id
        /\ Queued(wires[b]).tx_fail = wires[b].tx_fail /\ Sized(Queued(wires[b]), ports)
    BY <1>1, <1>4, <1>5
  <2>2. /\ DOMAIN wires' = Wired /\ wires' = [c \in Wired |-> wires'[c]]
        /\ wires'[b] = Queued(wires[b]) /\ \A c \in Wired : c # b => wires'[c] = wires[c]
    BY <1>1, <1>5
  <2> QED
    BY <1>1, <1>2, <1>3, <1>5, <2>1, <2>2, QuietKeeps
<1>6. ASSUME /\ frWatch' = frWatch \/ (HasRoom(frWatch) /\ frWatch' = Queued(frWatch))
             /\ eth' = eth \/ (HasRoom(eth) /\ eth' = Queued(eth)),
             UNCHANGED wires
      PROVE  IInv'
  <2>1. /\ frWatch' \in Sockets({FALSE}) /\ Sized(frWatch', ports)
        /\ eth' \in Sockets(BOOLEAN) /\ Sized(eth', ports)
    BY <1>2, <1>4, <1>6
  <2>2. DOMAIN wires' = Wired /\ wires' = [c \in Wired |-> wires'[c]]
    BY <1>1, <1>6
  <2> QED
    BY <1>1, <1>2, <1>3, <1>6, <2>1, <2>2, QuietKeeps
<1> QED
  BY <1>5, <1>6 DEF Arrives

\* A wire that refuses owns its line from its first refusal on: Waiting adds
\* one where the port had none, Latched records it.
LEMMA LatchOwns ==
    ASSUME NEW p \in Sockets({FALSE}), IsPort(p), NEW q \in Sockets({FALSE}), IsPort(q),
           NEW told \in 0..1, NEW waiting \in Nat, Owns(p, told, waiting)
    PROVE  told + Waiting(p, waiting) = 1 /\ Owns(Latched(q), told, Waiting(p, waiting))
<1>1. p.tx_fail \in 0..2
  BY PortParts DEF Ports
<1>2. told + Waiting(p, waiting) = 1
  BY <1>1 DEF Owns, Waiting
<1>3. Latched(q).tx_fail # 0
  BY LatchedPort
<1> QED
  BY <1>2, <1>3 DEF Owns

LEMMA WriteKeeps ==
    ASSUME IInv, NEW b \in Wired, NEW refused \in BOOLEAN, WriteIfLive(b, refused)
    PROVE  IInv'
<1>1. PICK n \in 1..MaxWires :
         /\ wires \in [1..n -> Sockets({FALSE})] /\ Wired = 1..n
         /\ \A c \in Wired : wires[c] \in Sockets({FALSE}) /\ Sized(wires[c], ports) /\ c \in 1..MaxWires
  BY WiresOf DEF IInv
<1>2. heard' \subseteq {FALSE} /\ UNCHANGED <<live, running, frWatch, eth, news, ports>>
  BY DEF WriteIfLive
<1>3. CASE UNCHANGED <<wires, pending>>
  <2>1. Shape' /\ Unshared' /\ Lines'
    BY <1>2, <1>3 DEF IInv, Shape, Unshared, Lines, Wired
  <2> QED
    BY <1>2, <2>1 DEF IInv
<1>4. CASE live /\ IsPort(wires[b]) /\ refused
  <2> DEFINE p == wires[b]
             q == Latched(p)
             w == Waiting(p, pending[b])
  <2>1. wires' = [wires EXCEPT ![b] = q] /\ pending' = [pending EXCEPT ![b] = w]
    BY <1>4 DEF WriteIfLive
  <2>2. /\ p \in Sockets({FALSE}) /\ IsPort(p) /\ Sized(p, ports) /\ pending[b] \in Nat
        /\ pending \in [1..MaxWires -> Nat] /\ Owns(p, news[p.id], pending[b]) /\ b \in 1..MaxWires
    BY <1>1, <1>4 DEF IInv, Shape, Lines
  <2>3. news[p.id] \in 0..1
    <3>1. p.id \in Nat \ {0}
      BY <2>2, PortParts DEF IsPort
    <3>2. p.id \in 1..MaxPorts
      BY <2>2, <3>1, WiresAssumption DEF Sized, IInv, Shape
    <3> QED
      BY <3>2 DEF IInv, Shape
  <2>4. q \in Sockets({FALSE}) /\ q.id = p.id /\ q.queue = p.queue
    BY <2>2, LatchedPort
  <2>5. Owns(q, news[p.id], w)
    BY <2>2, <2>3, LatchOwns
  <2>6. w \in Nat
    BY <2>2 DEF Waiting
  <2> HIDE DEF q, w
  <2>7. /\ wires' \in [1..n -> Sockets({FALSE})] /\ DOMAIN wires' = Wired
        /\ wires'[b] = q /\ \A c \in Wired : c # b => wires'[c] = wires[c]
    BY <1>1, <2>1, <2>4
  <2>8. /\ pending' \in [1..MaxWires -> Nat] /\ pending'[b] = w
        /\ \A c \in Wired : c # b => pending'[c] = pending[c]
    BY <1>1, <2>1, <2>2, <2>6
  <2>9. Sized(q, ports)
    BY <2>2, <2>4 DEF Sized, IsPort
  <2>10. \A c \in DOMAIN wires' : Sized(wires'[c], ports')
    BY <1>1, <1>2, <2>7, <2>9
  <2>11. Shape'
    BY <1>2, <2>7, <2>8, <2>10 DEF IInv, Shape, Wired
  <2>12. Unshared'
    <3>1. \A c \in Wired : wires'[c].id \in {0, wires[c].id}
      BY <2>4, <2>7
    <3> QED
      BY <2>7, <3>1, StillUnshared DEF IInv
  <2>13. Lines'
    <3>1. \A r \in 1..MaxPorts : r > ports' => news'[r] = 0
      BY <1>2 DEF IInv, Lines
    <3>2. ASSUME NEW c \in Wired, IsPort(wires'[c]) PROVE Owns(wires'[c], news'[wires'[c].id], pending'[c])
      <4>1. CASE c = b
        BY <1>2, <2>4, <2>5, <2>7, <2>8, <4>1
      <4>2. CASE c # b
        BY <1>2, <2>7, <2>8, <3>2, <4>2 DEF IInv, Lines
      <4> QED
        BY <4>1, <4>2
    <3> QED
      BY <2>7, <3>1, <3>2 DEF Lines, Wired
  <2> QED
    BY <1>2, <2>11, <2>12, <2>13 DEF IInv
<1> QED
  BY <1>3, <1>4 DEF WriteIfLive

LEMMA RemoveKeeps ==
    ASSUME IInv, NEW b \in Wired, RemoveWire(b), pending = NoLines
    PROVE  IInv'
<1>1. PICK n \in 1..MaxWires :
         /\ wires \in [1..n -> Sockets({FALSE})] /\ Wired = 1..n /\ Len(wires) = n
         /\ \A c \in Wired : wires[c] \in Sockets({FALSE}) /\ Sized(wires[c], ports) /\ c \in 1..MaxWires
  BY WiresOf DEF IInv
<1>2. /\ Len(wires) > 1 /\ heard' = {}
      /\ wires' = [c \in 1..(Len(wires) - 1) |-> IF c < b THEN wires[c] ELSE wires[c + 1]]
      /\ UNCHANGED <<live, running, frWatch, eth, pending, news, ports>>
  BY DEF RemoveWire, Quiet, ShiftedDown
<1>3. n - 1 \in 1..MaxWires /\ n \in Nat /\ b \in 1..n
  BY <1>1, <1>2, WiresAssumption
<1> DEFINE old(c) == IF c < b THEN c ELSE c + 1
<1>4. ASSUME NEW c \in 1..(n - 1) PROVE old(c) \in Wired /\ wires'[c] = wires[old(c)] /\ c \in 1..MaxWires
  BY <1>1, <1>2, <1>3, WiresAssumption
<1>5. DOMAIN wires' = 1..(n - 1) /\ wires' = [c \in 1..(n - 1) |-> wires'[c]]
  BY <1>1, <1>2
<1>6. \A c, d \in 1..(n - 1) : old(c) = old(d) => c = d
  BY <1>3
<1> HIDE DEF old
<1>7. wires' \in [1..(n - 1) -> Sockets({FALSE})] /\ \A c \in DOMAIN wires' : Sized(wires'[c], ports')
  BY <1>1, <1>2, <1>4, <1>5
<1>8. Shape'
  BY <1>2, <1>3, <1>7 DEF IInv, Shape, Wired
<1>9. Unshared'
  BY <1>4, <1>5, <1>6 DEF IInv, Unshared, Wired
<1>10. Lines'
  <2>1. \A p \in 1..MaxPorts : p > ports' => news'[p] = 0
    BY <1>2 DEF IInv, Lines
  <2>2. ASSUME NEW c \in 1..(n - 1), IsPort(wires'[c]) PROVE Owns(wires'[c], news'[wires'[c].id], pending'[c])
    <3>1. old(c) \in 1..MaxWires /\ pending'[c] = 0 /\ pending[old(c)] = 0
      BY <1>1, <1>2, <1>4 DEF NoLines
    <3>2. Owns(wires[old(c)], news[wires[old(c)].id], pending[old(c)])
      BY <1>4, <2>2 DEF IInv, Lines
    <3> QED
      BY <1>2, <1>4, <3>1, <3>2
  <2> QED
    BY <1>5, <2>1, <2>2 DEF Lines, Wired
<1> QED
  BY <1>2, <1>8, <1>9, <1>10 DEF IInv

\* A step tells what waits and what its own polls report, then nothing waits.
LEMMA StepKeeps ==
    ASSUME IInv, NEW reports \in SUBSET Wired, StepHardware(reports)
    PROVE  IInv'
<1>1. PICK n \in 1..MaxWires :
         /\ wires \in [1..n -> Sockets({FALSE})] /\ Wired = 1..n
         /\ \A c \in Wired : wires[c] \in Sockets({FALSE}) /\ Sized(wires[c], ports) /\ c \in 1..MaxWires
  BY WiresOf DEF IInv
<1> DEFINE ws == AfterPoll(reports)
           w == AfterReports(reports)
<1>2. /\ wires' = ws /\ frWatch' = Polled(frWatch) /\ eth' = PolledEth(eth)
      /\ news' = Told(ws, w) /\ pending' = [b \in 1..MaxWires |-> 0]
      /\ UNCHANGED <<live, running, ports>>
      /\ heard' = (UNION {Marks(wires[b]) : b \in Wired}) \cup Marks(frWatch)
  BY DEF StepHardware, NoLines
<1>3. /\ frWatch \in Sockets({FALSE}) /\ eth \in Sockets(BOOLEAN) /\ ports \in 0..MaxPorts
      /\ Sized(frWatch, ports) /\ Sized(eth, ports)
      /\ pending \in [1..MaxWires -> Nat] /\ news \in [1..MaxPorts -> 0..1]
  BY DEF IInv, Shape
<1>4. /\ DOMAIN ws = Wired
      /\ \A b \in Wired : ws[b] = IF Reporting(b, reports) THEN Latched(Polled(wires[b])) ELSE Polled(wires[b])
      /\ \A b \in Wired : w[b] = IF Reporting(b, reports) THEN Waiting(wires[b], pending[b]) ELSE pending[b]
      /\ ws = [b \in Wired |-> ws[b]]
  BY <1>1, Zenon DEF AfterPoll, AfterReports
<1> HIDE DEF ws, w
<1>5. heard' \subseteq {FALSE}
  <2>1. Marks(frWatch) \subseteq {FALSE} /\ \A b \in Wired : Marks(wires[b]) \subseteq {FALSE}
    BY <1>1, <1>3, MarksOf
  <2> QED
    BY <1>2, <2>1, Zenon
<1>6. ASSUME NEW b \in Wired
      PROVE  /\ ws[b] \in Sockets({FALSE}) /\ ws[b].id = wires[b].id /\ Sized(ws[b], ports)
             /\ IsPort(ws[b]) => /\ Owns(ws[b], news[ws[b].id], w[b])
                                 /\ ws[b].id \in 1..MaxPorts /\ ws[b].id <= ports /\ ws[b].tx_fail \in 0..2
  <2> DEFINE p == wires[b]
             q == Polled(p)
  <2>1. /\ p \in Sockets({FALSE}) /\ Sized(p, ports) /\ b \in 1..MaxWires /\ pending[b] \in Nat
    BY <1>1, <1>3
  <2>2. /\ q \in Sockets({FALSE}) /\ q.id = p.id
        /\ IsPort(p) => q.tx_fail = p.tx_fail /\ Len(q.queue) = 0
    BY <2>1, PolledPort
  <2>3. Sized(q, ports) /\ (IsPort(q) <=> IsPort(p))
    BY <2>1, <2>2, WiresAssumption DEF Sized, IsPort
  <2>4. IsPort(p) => p.id \in 1..MaxPorts /\ p.id <= ports /\ news[p.id] \in 0..1
    <3>1. IsPort(p) => p.id \in Nat \ {0}
      BY <2>1, PortParts DEF IsPort
    <3> QED
      BY <1>3, <2>1, <3>1, WiresAssumption DEF Sized
  <2>5. IsPort(p) => Owns(p, news[p.id], pending[b])
    BY DEF IInv, Lines
  <2> HIDE DEF q
  <2>6. CASE Reporting(b, reports)
    <3>1. IsPort(p) /\ ws[b] = Latched(q) /\ w[b] = Waiting(p, pending[b])
      BY <1>4, <2>6 DEF Reporting, q
    <3>2. Latched(q) \in Sockets({FALSE}) /\ Latched(q).id = q.id /\ Latched(q).queue = q.queue
      BY <2>2, <2>3, <3>1, LatchedPort
    <3>3. Owns(Latched(q), news[p.id], w[b])
      BY <2>1, <2>2, <2>3, <2>4, <2>5, <3>1, LatchOwns
    <3>4. Sized(ws[b], ports)
      BY <2>3, <3>1, <3>2 DEF Sized, IsPort
    <3>5. IsPort(ws[b]) => ws[b].tx_fail \in 0..2
      BY <3>1, <3>2, PortParts DEF Ports
    <3> QED
      BY <2>2, <2>4, <3>1, <3>2, <3>3, <3>4, <3>5
  <2>7. CASE ~Reporting(b, reports)
    <3>1. ws[b] = q /\ w[b] = pending[b]
      BY <1>4, <2>7 DEF q
    <3>2. IsPort(q) => q.tx_fail \in 0..2
      BY <2>2, PortParts DEF Ports
    <3> QED
      BY <2>2, <2>3, <2>4, <2>5, <3>1, <3>2 DEF Owns
  <2> QED
    BY <2>6, <2>7
<1>7. \A b, c \in Wired : ws[b].id = ws[c].id /\ IsPort(ws[b]) => b = c
  BY <1>6 DEF IInv, Unshared, IsPort
<1>8. ASSUME NEW p \in 1..MaxPorts
      PROVE  /\ news'[p] \in 0..1
             /\ Failing(ws, p) = {} => news'[p] = news[p]
             /\ Failing(ws, p) # {} => news'[p] = 1
  <2>1. news'[p] = IF Failing(ws, p) = {} THEN news[p]
                   ELSE LET k == news[p] + w[CHOOSE b \in Failing(ws, p) : TRUE] IN IF k > 2 THEN 2 ELSE k
    BY <1>2 DEF Told
  <2>2. CASE Failing(ws, p) = {}
    BY <1>3, <2>1, <2>2
  <2>3. CASE Failing(ws, p) # {}
    <3> DEFINE b == CHOOSE c \in Failing(ws, p) : TRUE
    <3>1. b \in Failing(ws, p)
      BY <2>3
    <3> HIDE DEF b
    <3>2. b \in Wired /\ ws[b].id = p /\ ws[b].tx_fail > 0 /\ IsPort(ws[b])
      BY <1>4, <3>1 DEF Failing, IsPort
    <3>3. news[p] + w[b] = 1
      BY <1>6, <3>2 DEF Owns
    <3>4. news'[p] = LET k == news[p] + w[b] IN IF k > 2 THEN 2 ELSE k
      BY <2>1, <2>3 DEF b
    <3> QED
      BY <2>3, <3>3, <3>4
  <2> QED
    BY <2>2, <2>3
<1>9. news' \in [1..MaxPorts -> 0..1]
  <2>1. news' = [p \in 1..MaxPorts |-> news'[p]]
    BY <1>2 DEF Told
  <2> QED
    BY <1>8, <2>1
<1>10. Shape'
  <2>1. ws \in [1..n -> Sockets({FALSE})] /\ \A b \in DOMAIN ws : Sized(ws[b], ports)
    BY <1>1, <1>4, <1>6
  <2>2. frWatch' \in Sockets({FALSE}) /\ Sized(frWatch', ports)
    <3>1. Polled(frWatch) \in Sockets({FALSE}) /\ Polled(frWatch).id = frWatch.id
          /\ (IsPort(frWatch) => Len(Polled(frWatch).queue) = 0)
      BY <1>3, PolledPort
    <3> QED
      BY <1>2, <1>3, <3>1, WiresAssumption DEF Sized, IsPort
  <2>3. eth' \in Sockets(BOOLEAN) /\ Sized(eth', ports)
    <3>1. PolledEth(eth) \in Sockets(BOOLEAN) /\ PolledEth(eth).id = eth.id
          /\ (IsPort(eth) => Len(PolledEth(eth).queue) <= Len(eth.queue))
      BY <1>3, PolledEthPort
    <3>2. IsPort(eth) => Len(eth.queue) \in Nat
      BY <1>3, PortParts DEF Ports
    <3>3. IsPort(PolledEth(eth)) => Len(PolledEth(eth).queue) \in Nat
      BY <3>1, PortParts DEF Ports
    <3>4. IsPort(PolledEth(eth)) <=> IsPort(eth)
      BY <3>1 DEF IsPort
    <3> QED
      BY <1>2, <1>3, <3>1, <3>2, <3>3, <3>4, WiresAssumption DEF Sized
  <2>4. pending' \in [1..MaxWires -> Nat]
    BY <1>2
  <2> QED
    BY <1>2, <1>9, <2>1, <2>2, <2>3, <2>4 DEF IInv, Shape, Wired
<1>11. Unshared'
  BY <1>2, <1>4, <1>7 DEF Unshared, Wired
<1>12. Lines'
  <2>1. ASSUME NEW p \in 1..MaxPorts, p > ports' PROVE news'[p] = 0
    <3>1. Failing(ws, p) = {}
      <4>1. ASSUME NEW b \in Failing(ws, p) PROVE FALSE
        <5>1. b \in Wired /\ ws[b].id = p /\ IsPort(ws[b])
          BY <1>4, <4>1 DEF Failing, IsPort
        <5>2. p <= ports
          BY <1>6, <5>1
        <5> QED
          BY <1>2, <1>3, <2>1, <5>2, WiresAssumption
      <4> QED
        BY <4>1
    <3> QED
      BY <1>2, <1>8, <2>1, <3>1 DEF IInv, Lines
  <2>2. ASSUME NEW b \in Wired, IsPort(ws[b]) PROVE Owns(ws[b], news'[ws[b].id], 0)
    <3>1. /\ Owns(ws[b], news[ws[b].id], w[b]) /\ ws[b].id \in 1..MaxPorts /\ ws[b].tx_fail \in 0..2
      BY <1>6, <2>2
    <3>2. CASE ws[b].tx_fail = 0
      <4>1. ASSUME NEW c \in Failing(ws, ws[b].id) PROVE FALSE
        BY <1>4, <1>7, <2>2, <3>2, <4>1 DEF Failing
      <4>2. news'[ws[b].id] = news[ws[b].id]
        BY <1>8, <3>1, <4>1
      <4> QED
        BY <3>1, <3>2, <4>2 DEF Owns
    <3>3. CASE ws[b].tx_fail # 0
      <4>1. ws[b].tx_fail > 0
        BY <3>1, <3>3
      <4>2. b \in Failing(ws, ws[b].id)
        BY <1>4, <4>1 DEF Failing
      <4>3. news'[ws[b].id] = 1
        BY <1>8, <3>1, <4>2
      <4> QED
        BY <3>3, <4>3 DEF Owns
    <3> QED
      BY <3>2, <3>3
  <2>3. \A b \in Wired : pending'[b] = 0
    BY <1>1, <1>2
  <2> QED
    BY <1>2, <1>4, <2>1, <2>2, <2>3 DEF Lines, Wired
<1> QED
  BY <1>5, <1>10, <1>11, <1>12 DEF IInv

LEMMA InvNext == ~RemovePending /\ IInv /\ [WiresNext]_wireVars => IInv'
<1> SUFFICES ASSUME ~RemovePending, IInv, [WiresNext]_wireVars PROVE IInv'
  OBVIOUS
<1>1. ASSUME NEW b \in Wired, Attach(b) PROVE IInv'
  BY <1>1, AttachKeeps
<1>2. ASSUME NEW b \in Wired, RemoveWire(b) PROVE IInv'
  <2>1. pending = NoLines
    BY <1>2 DEF RemoveWire
  <2> QED
    BY <1>2, <2>1, RemoveKeeps
<1>3. ASSUME NEW b \in Wired, NEW refused \in BOOLEAN, WriteIfLive(b, refused) PROVE IInv'
  BY <1>3, WriteKeeps
<1>4. CASE Arrives
  BY <1>4, ArrivesKeeps
<1>5. ASSUME NEW reports \in SUBSET Wired, StepHardware(reports) PROVE IInv'
  BY <1>5, StepKeeps
<1> QED
  BY <1>1, <1>2, <1>3, <1>4, <1>5, OthersKeep, Zenon DEF WiresNext

\* What the invariant says of the properties.
LEMMA InvHonest == IInv => PortsHonest
<1> SUFFICES ASSUME IInv PROVE PortsHonest
  OBVIOUS
<1>1. PICK n \in 1..MaxWires :
         /\ wires \in [1..n -> Sockets({FALSE})] /\ Wired = 1..n
         /\ \A c \in Wired : wires[c] \in Sockets({FALSE}) /\ Sized(wires[c], ports) /\ c \in 1..MaxWires
  BY WiresOf DEF IInv
<1>2. ports \in Nat /\ ports \in 0..MaxPorts /\ live \in BOOLEAN /\ running \in BOOLEAN
  BY WiresAssumption DEF IInv, Shape
<1>3. ASSUME NEW Mark, NEW p \in Sockets(Mark), Sized(p, ports) PROVE PortOK(p)
  BY <1>2, <1>3, PortParts DEF PortOK, Sized, Ports
<1>4. PortOK(frWatch) /\ PortOK(eth) /\ \A b \in Wired : PortOK(wires[b])
  BY <1>1, <1>3 DEF IInv, Shape
<1>5. WiresTypeOK
  BY <1>2, <1>4 DEF WiresTypeOK, IInv, Unshared
<1>6. OneLinePerFault
  BY DEF OneLinePerFault, IInv, Shape, Lines, Owns
<1>7. ParkedNotDelivered
  BY DEF ParkedNotDelivered, IInv
<1> QED
  BY <1>5, <1>6, <1>7 DEF PortsHonest

-----------------------------------------------------------------------------
\* A wire that refuses is told of exactly once, however often it refuses and
\* whatever is attached, detached, reopened or removed around it; no port
\* serves two buses, and no frame a parked poll passed over is delivered
\* (hw/mod.rs write_if_live, latch_refused_wire, poll_rx, remove_bus).
THEOREM PortsAreHonest == ~RemovePending /\ WiresSpec => []PortsHonest
<1>1. CASE ~RemovePending
  <2>1. IInv /\ [WiresNext]_wireVars => IInv'
    BY <1>1, InvNext
  <2> QED
    BY <2>1, InvInit, InvHonest, PTL DEF WiresSpec
<1>2. CASE RemovePending
  BY <1>2
<1> QED
  BY <1>1, <1>2
=============================================================================
