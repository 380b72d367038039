--------------------------- MODULE RecordingProofs ---------------------------
(***************************************************************************)
(* The recorder keeps no stray file open, begins no file with more lead    *)
(* than its limit, and implements the contract of module RecordFile, for   *)
(* every set of limits and any number of frames; what a writer puts on the *)
(* disk survives the end of the process, for files of any length; and an   *)
(* object comes back from any trips through files as they allow.           *)
(***************************************************************************)
EXTENDS Recording, LogWriter, LogCodec, SequenceTheorems, WellFoundedInduction, TLAPS

Rec == [recording : BOOLEAN, main : BOOLEAN, side : BOOLEAN,
        pre : Seq(Nat), roll : Nat \cup {None}, file : Seq(Nat),
        lead : Nat, cap : Nat, asked : Nat, mark : Nat]

\* p holds the newest of the first k frames.
Recent(p, k) ==
    /\ p \in Seq(Nat) /\ Len(p) <= k
    /\ \A i \in 1 .. Len(p) : p[i] = k - Len(p) + i

\* What every operation on the recorder keeps, after k frames of the run.
Good(r, k) ==
    /\ r \in Rec
    /\ r.main => r.recording
    /\ Recent(r.pre, k)
    /\ LiveLimits \/ r.lead <= r.cap

\* The memory is within the limit now in force.
Bounded(r) == LiveLimits \/ Len(r.pre) <= preLimit

\* From r to d the file is left alone or opened, with a span of the past.
Opens(r, d, k) ==
    \/ d.main = r.main /\ d.file = r.file
    \/ ~r.main /\ d.main /\ d.file \in Contract!Opened(k)

-----------------------------------------------------------------------------
(* The pre-trigger memory.                                                 *)

\* The frames a triggered file begins with are a span that ends now.
LEMMA LeadIsSpan ==
    ASSUME NEW k \in Nat, NEW r, Recent(r.pre, k), NEW keep \in Nat \cup {None}
    PROVE  /\ Lead(r, keep) \in Seq(Nat) /\ Len(Lead(r, keep)) <= Len(r.pre)
           /\ Lead(r, keep) \in Contract!Opened(k)
<1> DEFINE p == r.pre
           m == IF keep = None \/ keep > Len(p) THEN Len(p) ELSE keep
           lead == SubSeq(p, Len(p) - m + 1, Len(p))
           start == k - m + 1
<1>1. p \in Seq(Nat) /\ Len(p) \in Nat /\ Len(p) <= k
  BY LenProperties DEF Recent
<1>2. m \in Nat /\ m <= Len(p)
  BY <1>1, RecordingAssumption
<1>3. Lead(r, keep) = lead
  BY DEF Lead
<1> HIDE DEF m
<1>4. \A i \in Len(p) - m + 1 .. Len(p) : p[i] \in Nat
  BY <1>1, <1>2, ElementOfSeq
<1>5. /\ lead \in Seq(Nat) /\ Len(lead) = m
      /\ \A i \in 1 .. m : lead[i] = p[Len(p) - m + i]
  <2>1. /\ lead \in Seq(Nat)
        /\ Len(lead) = IF Len(p) - m + 1 <= Len(p) THEN Len(p) - (Len(p) - m + 1) + 1 ELSE 0
        /\ \A i \in 1 .. Len(p) - (Len(p) - m + 1) + 1 : lead[i] = p[(Len(p) - m + 1) + i - 1]
    BY <1>1, <1>2, <1>4, SubSeqProperties
  <2> QED
    BY <1>1, <1>2, <2>1
<1>6. \A i \in 1 .. m : lead[i] = start + i - 1
  <2> SUFFICES ASSUME NEW i \in 1 .. m PROVE lead[i] = start + i - 1
    OBVIOUS
  <2>1. Len(p) - m + i \in 1 .. Len(p)
    BY <1>1, <1>2
  <2>2. p[Len(p) - m + i] = k - Len(p) + (Len(p) - m + i)
    BY <2>1 DEF Recent
  <2> QED
    BY <1>1, <1>2, <1>5, <2>2
<1>7. lead = Contract!Span(start, k)
  <2>1. lead \in [1 .. m -> Nat]
    BY <1>5, LenProperties
  <2>2. 1 .. m = 1 .. (k + 1 - start)
    BY <1>1, <1>2
  <2> HIDE DEF lead, start
  <2> QED
    BY <1>6, <2>1, <2>2 DEF Contract!Span
<1>8. start \in 1 .. k + 1
  BY <1>1, <1>2
<1> QED
  <2>1. lead \in Contract!Opened(k)
    BY <1>7, <1>8 DEF Contract!Opened
  <2> QED
    BY <1>2, <1>3, <1>5, <2>1

\* Pushing the next frame keeps the memory recent, and within a limit it was
\* within.
LEMMA PushKeeps ==
    ASSUME NEW k \in Nat, NEW p, Recent(p, k), preLimit \in Nat
    PROVE  /\ Recent(Push(p, k + 1), k + 1)
           /\ Len(p) <= preLimit => Len(Push(p, k + 1)) <= preLimit
<1> DEFINE q == Append(p, k + 1)
<1>1. p \in Seq(Nat) /\ Len(p) \in Nat /\ Len(p) <= k
  BY LenProperties DEF Recent
<1>2. /\ q \in Seq(Nat) /\ Len(q) = Len(p) + 1
      /\ \A i \in 1 .. Len(p) : q[i] = p[i]
      /\ q[Len(p) + 1] = k + 1
  BY <1>1, AppendProperties
<1>3. \A i \in 1 .. Len(q) : q[i] = k + 1 - Len(q) + i
  BY <1>1, <1>2 DEF Recent
<1>4. q # << >>
  BY <1>1, <1>2
<1>5. /\ Tail(q) \in Seq(Nat) /\ Len(Tail(q)) = Len(p)
      /\ \A i \in 1 .. Len(p) : Tail(q)[i] = q[i + 1]
  <2>1. /\ Tail(q) \in Seq(Nat) /\ Len(Tail(q)) = Len(q) - 1
        /\ \A i \in 1 .. Len(Tail(q)) : Tail(q)[i] = q[i + 1]
    BY <1>2, <1>4, HeadTailProperties
  <2> QED
    BY <1>1, <1>2, <2>1
<1>6. \A i \in 1 .. Len(p) : Tail(q)[i] = k + 1 - Len(p) + i
  <2> SUFFICES ASSUME NEW i \in 1 .. Len(p) PROVE Tail(q)[i] = k + 1 - Len(p) + i
    OBVIOUS
  <2>1. i + 1 \in 1 .. Len(q)
    BY <1>1, <1>2
  <2>2. Tail(q)[i] = k + 1 - Len(q) + (i + 1)
    BY <1>3, <1>5, <2>1
  <2> QED
    BY <1>1, <1>2, <2>2
<1>7. Push(p, k + 1) = IF Len(p) + 1 > preLimit THEN Tail(q) ELSE q
  BY DEF Push
<1> HIDE DEF q
<1>8. CASE Len(p) + 1 > preLimit
  <2>1. Push(p, k + 1) = Tail(q)
    BY <1>7, <1>8
  <2>2. Recent(Tail(q), k + 1)
    <3> DEFINE t == Tail(q)
    <3> HIDE DEF t
    <3>0. t \in Seq(Nat) /\ Len(t) = Len(p) /\ \A i \in 1 .. Len(p) : t[i] = k + 1 - Len(p) + i
      BY <1>5, <1>6 DEF t
    <3>1. \A i \in 1 .. Len(t) : t[i] = k + 1 - Len(t) + i
      BY <3>0
    <3>2. Len(t) <= k + 1
      BY <1>1, <3>0
    <3>3. Recent(t, k + 1)
      BY <3>0, <3>1, <3>2 DEF Recent
    <3> QED
      BY <3>3 DEF t
  <2> QED
    BY <1>5, <2>1, <2>2
<1>9. CASE ~(Len(p) + 1 > preLimit)
  <2>1. Push(p, k + 1) = q
    BY <1>7, <1>9
  <2>2. Recent(q, k + 1)
    BY <1>1, <1>2, <1>3 DEF Recent
  <2>3. Len(p) <= preLimit => Len(q) <= preLimit
    BY <1>1, <1>2, <1>9
  <2> QED
    BY <2>1, <2>2, <2>3
<1> QED
  BY <1>8, <1>9

-----------------------------------------------------------------------------
(* The actions of rules.                                                   *)

LEMMA AskTypes ==
    /\ \A a \in Starts : a.ask = "start" /\ a.keep \in Nat \cup {None}
    /\ \A a \in Stops : a.ask = "stop" /\ a.roll \in Nat
BY RecordingAssumption DEF Starts, Stops

\* Opening and closing leave a well-formed record.
LEMMA OpenClose ==
    ASSUME NEW r \in Rec, NEW res \in OpenResults
    PROVE  /\ Close(r) = [r EXCEPT !.main = FALSE, !.side = FALSE] /\ Close(r) \in Rec
           /\ Open(r, res) \in Rec
           /\ res = "ok" => /\ Open(r, res).main /\ Open(r, res).file = << >>
                            /\ Open(r, res).lead = 0
           /\ res # "ok" => /\ ~Open(r, res).main /\ Open(r, res).file = r.file
                            /\ Open(r, res).lead = r.lead
           /\ Open(r, res).recording = r.recording /\ Open(r, res).pre = r.pre
           /\ Open(r, res).cap = r.cap /\ Open(r, res).roll = r.roll
<1>1. << >> \in Seq(Nat)
  BY EmptySeq
<1> QED
  BY <1>1 DEF Close, Open, Rec, OpenResults

LEMMA StartKeeps ==
    ASSUME NEW k \in Nat, NEW r, Good(r, k), Bounded(r), preLimit \in Nat,
           NEW keep \in Nat \cup {None}, NEW res \in OpenResults
    PROVE  LET d == StartRecording(r, keep, res)
           IN  Good(d, k) /\ Bounded(d) /\ Opens(r, d, k)
<1> DEFINE d == StartRecording(r, keep, res)
<1>1. r \in Rec /\ Recent(r.pre, k)
  BY DEF Good
<1>2. CASE r.recording
  BY <1>2 DEF StartRecording, Opens
<1>3. CASE ~r.recording /\ res # "ok"
  <2>1. d = Open(r, res)
    BY <1>3 DEF StartRecording
  <2> HIDE DEF d
  <2>2. /\ d \in Rec /\ ~d.main /\ d.file = r.file
        /\ d.lead = r.lead /\ d.pre = r.pre /\ d.cap = r.cap
    <3>1. res # "ok"
      BY <1>3
    <3> QED
      BY <1>1, <2>1, <3>1, OpenClose
  <2>3. ~r.main
    BY <1>3 DEF Good
  <2>4. Good(d, k)
    BY <1>1, <2>2 DEF Good
  <2>5. Bounded(d)
    BY <2>2 DEF Bounded
  <2>6. Opens(r, d, k)
    <3>1. d.main \in BOOLEAN /\ r.main \in BOOLEAN
      BY <1>1, <2>2 DEF Rec
    <3> QED
      BY <2>2, <2>3, <3>1 DEF Opens
  <2> QED
    BY <2>4, <2>5, <2>6 DEF d
<1>4. CASE ~r.recording /\ res = "ok"
  <2> DEFINE o == Open(r, res)
             lead == Lead(r, keep)
  <2>1. d = [o EXCEPT !.recording = TRUE, !.roll = None, !.pre = << >>,
                      !.file = lead, !.lead = Len(lead), !.cap = preLimit]
    BY <1>4 DEF StartRecording
  <2>2. o \in Rec /\ o.main
    BY <1>1, <1>4, OpenClose
  <2>3. lead \in Seq(Nat) /\ Len(lead) \in Nat /\ Len(lead) <= Len(r.pre)
          /\ lead \in Contract!Opened(k)
    BY <1>1, LeadIsSpan, LenProperties
  <2>4. << >> \in Seq(Nat) /\ Len(<< >>) = 0
    BY EmptySeq
  <2> HIDE DEF o, lead, d
  <2>5. /\ d \in Rec /\ d.main /\ d.recording /\ d.pre = << >>
        /\ d.file = lead /\ d.lead = Len(lead) /\ d.cap = preLimit
    BY <2>1, <2>2, <2>3, <2>4 DEF Rec
  <2>6. LiveLimits \/ d.lead <= d.cap
    <3>1. Len(r.pre) \in Nat
      BY <1>1, LenProperties DEF Recent
    <3> QED
      BY <2>3, <2>5, <3>1 DEF Bounded
  <2>7. Recent(d.pre, k) /\ Len(d.pre) = 0
    BY <2>4, <2>5 DEF Recent
  <2>8. ~r.main
    BY <1>4 DEF Good
  <2>9. Good(d, k)
    BY <2>5, <2>6, <2>7 DEF Good
  <2>10. Bounded(d)
    BY <2>7 DEF Bounded
  <2>11. Opens(r, d, k)
    BY <2>3, <2>5, <2>8 DEF Opens
  <2> QED
    BY <2>9, <2>10, <2>11 DEF d
<1> QED
  BY <1>2, <1>3, <1>4

LEMMA StopKeeps ==
    ASSUME NEW k \in Nat, NEW r, Good(r, k), Bounded(r), NEW roll \in Nat
    PROVE  LET d == StopRecording(r, roll)
           IN  Good(d, k) /\ Bounded(d) /\ Opens(r, d, k)
<1> DEFINE d == StopRecording(r, roll)
<1>1. r \in Rec /\ Len(r.file) \in Nat
  BY LenProperties DEF Good, Rec
<1>2. /\ d \in Rec /\ d.main = r.main /\ d.file = r.file /\ d.recording = r.recording
      /\ d.pre = r.pre /\ d.lead = r.lead /\ d.cap = r.cap
  BY <1>1 DEF StopRecording, Rec
<1> HIDE DEF d
<1>3. Good(d, k) /\ Bounded(d) /\ Opens(r, d, k)
  BY <1>2 DEF Good, Bounded, Opens
<1> QED
  BY <1>3 DEF d

\* One action, and all the actions of a frame.
LEMMA RunActionKeeps ==
    ASSUME NEW k \in Nat, NEW r, Good(r, k), Bounded(r), preLimit \in Nat,
           NEW a \in Starts \cup Stops, NEW res \in OpenResults
    PROVE  LET d == RunAction(r, a, res)
           IN  Good(d, k) /\ Bounded(d) /\ Opens(r, d, k)
<1>1. CASE a \in Starts
  <2>1. a.ask = "start" /\ a.keep \in Nat \cup {None}
    BY <1>1, AskTypes
  <2>2. RunAction(r, a, res) = StartRecording(r, a.keep, res)
    BY <2>1 DEF RunAction
  <2> QED
    BY <2>1, <2>2, StartKeeps
<1>2. CASE a \in Stops
  <2>1. a.ask = "stop" /\ a.roll \in Nat
    BY <1>2, AskTypes
  <2>2. RunAction(r, a, res) = StopRecording(r, a.roll)
    BY <2>1 DEF RunAction
  <2> QED
    BY <2>1, <2>2, StopKeeps
<1> QED
  BY <1>1, <1>2

LEMMA RunActionsKeeps ==
    ASSUME NEW k \in Nat, NEW r, Good(r, k), Bounded(r), preLimit \in Nat,
           NEW asks \in Asks, NEW res \in OpenResults
    PROVE  LET d == RunActions(r, asks, res)
           IN  Good(d, k) /\ Bounded(d) /\ Opens(r, d, k)
<1>1. CASE asks = << >>
  BY <1>1 DEF RunActions, Opens
<1>2. ASSUME NEW a \in Starts \cup Stops, asks = <<a>>
      PROVE  LET d == RunActions(r, asks, res)
             IN  Good(d, k) /\ Bounded(d) /\ Opens(r, d, k)
  <2>1. RunActions(r, asks, res) = RunAction(r, a, res)
    BY <1>2 DEF RunActions
  <2> QED
    BY <2>1, RunActionKeeps
<1>3. ASSUME NEW a \in Starts \cup Stops, NEW b \in Starts \cup Stops, asks = <<a, b>>
      PROVE  LET d == RunActions(r, asks, res)
             IN  Good(d, k) /\ Bounded(d) /\ Opens(r, d, k)
  <2> DEFINE d1 == RunAction(r, a, res)
             d2 == RunAction(d1, b, res)
  <2>1. RunActions(r, asks, res) = d2
    BY <1>3 DEF RunActions
  <2>2. Good(d1, k) /\ Bounded(d1) /\ Opens(r, d1, k)
    BY RunActionKeeps
  <2> HIDE DEF d1
  <2>3. Good(d2, k) /\ Bounded(d2) /\ Opens(d1, d2, k)
    BY <2>2, RunActionKeeps
  <2> HIDE DEF d2
  <2>4. Opens(r, d2, k)
    BY <2>2, <2>3 DEF Opens
  <2> QED
    BY <2>1, <2>3, <2>4
<1> QED
  BY <1>1, <1>2, <1>3 DEF Asks

-----------------------------------------------------------------------------
(* A CAN frame.                                                            *)

\* The post-roll counter touches no frame, and closes more than it opens.
LEMMA RollDownKeeps ==
    ASSUME NEW x \in Rec
    PROVE  LET e == RollDown(x)
           IN  /\ e \in Rec /\ e.pre = x.pre /\ e.file = x.file
               /\ e.lead = x.lead /\ e.cap = x.cap
               /\ (x.main => x.recording) => (e.main => x.main /\ e.recording)
<1> DEFINE e == RollDown(x)
<1>1. CASE x.roll = None
  BY <1>1 DEF RollDown
<1>2. CASE x.roll # None /\ x.roll <= 1
  <2>1. e = [x EXCEPT !.main = FALSE, !.side = FALSE, !.roll = None, !.recording = FALSE]
    BY <1>2 DEF RollDown, Close, Rec
  <2> HIDE DEF e
  <2>2. e \in Rec /\ e.pre = x.pre /\ e.file = x.file /\ e.lead = x.lead /\ e.cap = x.cap /\ ~e.main
    BY <2>1 DEF Rec
  <2> QED
    BY <2>2 DEF e
<1>3. CASE x.roll # None /\ ~(x.roll <= 1)
  <2>1. e = [x EXCEPT !.roll = x.roll - 1]
    BY <1>3 DEF RollDown
  <2>2. x.roll - 1 \in Nat
    BY <1>3 DEF Rec
  <2> HIDE DEF e
  <2>3. /\ e \in Rec /\ e.pre = x.pre /\ e.file = x.file /\ e.lead = x.lead /\ e.cap = x.cap
        /\ e.main = x.main /\ e.recording = x.recording
    BY <2>1, <2>2 DEF Rec
  <2> QED
    BY <2>3 DEF e
<1> QED
  BY <1>1, <1>2, <1>3

\* What filing frame k + 1 may do to the file.
Arrives(r, e, k) ==
    \/ r.main /\ e.file = Append(r.file, k + 1)
    \/ ~r.main /\ \E s \in Contract!Opened(k) : e.file = Append(s, k + 1)
    \/ ~r.main /\ ~e.main /\ e.file = r.file

\* Until a CAN frame is ingested.
LEMMA FiledKeeps ==
    ASSUME NEW k \in Nat, NEW r, Good(r, k), Bounded(r), preLimit \in Nat,
           NEW asks \in Asks, NEW res \in OpenResults
    PROVE  LET m == Filed(RunActions(r, asks, res), k + 1)
           IN  Good(m, k + 1) /\ Bounded(m) /\ Arrives(r, m, k)
<1> DEFINE d == RunActions(r, asks, res)
           w == Written(d, k + 1)
           x == [w EXCEPT !.pre = Push(@, k + 1)]
           e == RollDown(x)
<1>1. Good(d, k) /\ Bounded(d) /\ Opens(r, d, k)
  BY RunActionsKeeps
<1>2. Filed(RunActions(r, asks, res), k + 1) = e
  BY DEF Filed
<1> HIDE DEF d
<1>3. /\ w \in Rec /\ w.main = d.main /\ w.recording = d.recording /\ w.pre = d.pre
      /\ w.lead = d.lead /\ w.cap = d.cap
      /\ d.main => w.file = Append(d.file, k + 1)
      /\ ~d.main => w.file = d.file
  <2>1. d \in Rec /\ d.file \in Seq(Nat)
    BY <1>1 DEF Good, Rec
  <2>2. Append(d.file, k + 1) \in Seq(Nat)
    BY <2>1, AppendProperties
  <2> QED
    BY <2>1, <2>2 DEF Written, Rec
<1> HIDE DEF w
<1>4. Recent(Push(d.pre, k + 1), k + 1) /\ (Len(d.pre) <= preLimit => Len(Push(d.pre, k + 1)) <= preLimit)
  BY <1>1, PushKeeps DEF Good
<1>5. /\ x \in Rec /\ x.main = w.main /\ x.recording = w.recording
      /\ x.pre = Push(d.pre, k + 1) /\ x.file = w.file /\ x.lead = w.lead /\ x.cap = w.cap
  <2>1. Push(d.pre, k + 1) \in Seq(Nat)
    BY <1>4 DEF Recent
  <2> QED
    BY <1>3, <2>1 DEF Rec
<1> HIDE DEF x
<1>6. x.main => x.recording
  BY <1>1, <1>3, <1>5 DEF Good
<1>7. /\ e \in Rec /\ e.pre = x.pre /\ e.file = x.file /\ e.lead = x.lead /\ e.cap = x.cap
      /\ e.main => x.main /\ e.recording
  BY <1>5, <1>6, RollDownKeeps
<1> HIDE DEF e
<1>8. Good(e, k + 1)
  <2>1. Recent(e.pre, k + 1)
    BY <1>4, <1>5, <1>7
  <2>2. LiveLimits \/ e.lead <= e.cap
    BY <1>1, <1>3, <1>5, <1>7 DEF Good
  <2> QED
    BY <1>7, <2>1, <2>2 DEF Good
<1>9. Bounded(e)
  BY <1>1, <1>4, <1>5, <1>7 DEF Bounded
<1>10. Arrives(r, e, k)
  <2>1. CASE r.main
    <3>1. d.main /\ d.file = r.file
      BY <1>1, <2>1 DEF Opens
    <3> QED
      BY <1>3, <1>5, <1>7, <2>1, <3>1 DEF Arrives
  <2>2. CASE ~r.main /\ d.main
    <3>1. d.file \in Contract!Opened(k)
      BY <1>1, <2>2 DEF Opens
    <3>2. e.file = Append(d.file, k + 1)
      BY <1>3, <1>5, <1>7, <2>2
    <3> QED
      BY <2>2, <3>1, <3>2 DEF Arrives
  <2>3. CASE ~r.main /\ ~d.main
    <3>1. d.file = r.file
      BY <1>1, <2>3 DEF Opens
    <3>2. ~e.main
      BY <1>3, <1>5, <1>7, <2>3
    <3> QED
      BY <1>3, <1>5, <1>7, <2>3, <3>1, <3>2 DEF Arrives
  <2> QED
    BY <2>1, <2>2, <2>3
<1> QED
  BY <1>2, <1>8, <1>9, <1>10

\* The E2E rules come after it.
LEMMA CanFrameKeeps ==
    ASSUME NEW k \in Nat, NEW r, Good(r, k), Bounded(r), preLimit \in Nat,
           NEW asks \in Asks, NEW res \in OpenResults, NEW late \in Asks, NEW again \in OpenResults
    PROVE  LET e == CanFrame(r, k + 1, asks, res, late, again).rec
           IN  /\ Good(e, k + 1) /\ Bounded(e)
               /\ Arrives(r, e, k) \/ (e.main /\ e.file \in Contract!Opened(k + 1))
<1> DEFINE m == Filed(RunActions(r, asks, res), k + 1)
           e == RunActions(m, late, again)
<1>1. CanFrame(r, k + 1, asks, res, late, again).rec = e
  BY DEF CanFrame, Passed
<1>2. Good(m, k + 1) /\ Bounded(m) /\ Arrives(r, m, k)
  BY FiledKeeps
<1> HIDE DEF m
<1>3. Good(e, k + 1) /\ Bounded(e) /\ Opens(m, e, k + 1)
  <2>1. k + 1 \in Nat
    OBVIOUS
  <2> QED
    BY <1>2, <2>1, RunActionsKeeps
<1> HIDE DEF e
<1>4. Arrives(r, e, k) \/ (e.main /\ e.file \in Contract!Opened(k + 1))
  BY <1>2, <1>3 DEF Opens, Arrives
<1> QED
  BY <1>1, <1>3, <1>4

-----------------------------------------------------------------------------
(* The inductive invariant, and every action as a step of the contract.    *)

IInv == TypeOK /\ NoStrayFile /\ Good(rec, n)

Implements == [Contract!Next]_(Contract!vars)

LEMMA InvFacts ==
    ASSUME IInv
    PROVE  /\ rec \in Rec /\ n \in Nat /\ preLimit \in Nat /\ MaxFrames \in Nat
           /\ measuring \in BOOLEAN /\ captured \in BOOLEAN
           /\ measuring => Bounded(rec)
BY RecordingAssumption DEF IInv, TypeOK, Rec, Bounded

\* A step keeps the invariant if its new recorder is good.
LEMMA StepKeeps ==
    ASSUME measuring' \in BOOLEAN, captured' \in BOOLEAN, preLimit' \in PreLimits,
           n' \in 0 .. MaxFrames, Good(rec', n'),
           measuring' => LiveLimits \/ Len(rec'.pre) <= preLimit',
           rec'.main \/ rec'.side => measuring'
    PROVE  IInv'
<1>1. rec' \in Rec /\ (rec'.main => rec'.recording)
  BY DEF Good
<1>2. TypeOK'
  BY <1>1 DEF TypeOK, Rec
<1>3. NoStrayFile'
  BY <1>1 DEF NoStrayFile
<1>4. Good(rec, n)'
  BY DEF Good, Recent
<1> QED
  BY <1>2, <1>3, <1>4 DEF IInv

\* Closing and resetting keep a good recorder.
LEMMA CloseKeeps ==
    ASSUME NEW r, NEW k \in Nat, Good(r, k)
    PROVE  /\ Good(Close(r), k) /\ ~Close(r).main /\ Close(r).file = r.file
           /\ ~Close(r).side /\ ~[Close(r) EXCEPT !.recording = FALSE].side
           /\ Close(r).pre = r.pre /\ Close(r).recording = r.recording
           /\ Good([Close(r) EXCEPT !.recording = FALSE], k)
           /\ ~[Close(r) EXCEPT !.recording = FALSE].main
           /\ [Close(r) EXCEPT !.recording = FALSE].file = r.file
           /\ [Close(r) EXCEPT !.recording = FALSE].pre = r.pre
           /\ ~[Close(r) EXCEPT !.recording = FALSE].recording
<1> DEFINE c == Close(r)
           o == [c EXCEPT !.recording = FALSE]
<1>1. r \in Rec
  BY DEF Good
<1>2. c = [r EXCEPT !.main = FALSE, !.side = FALSE]
  BY DEF Close
<1> HIDE DEF c
<1>3. /\ c \in Rec /\ ~c.main /\ ~c.side /\ c.file = r.file /\ c.pre = r.pre
      /\ c.recording = r.recording /\ c.lead = r.lead /\ c.cap = r.cap
  BY <1>1, <1>2 DEF Rec
<1>4. /\ o \in Rec /\ ~o.main /\ ~o.side /\ o.file = r.file /\ o.pre = r.pre
      /\ ~o.recording /\ o.lead = r.lead /\ o.cap = r.cap
  BY <1>3 DEF Rec
<1> HIDE DEF o
<1>5. Good(c, k) /\ Good(o, k)
  BY <1>3, <1>4 DEF Good
<1> QED
  BY <1>3, <1>4, <1>5 DEF c, o

LEMMA ResetKeeps ==
    ASSUME NEW r, NEW k \in Nat, Good(r, k)
    PROVE  /\ Good(ResetRun(r), 0) /\ ResetRun(r).pre = << >> /\ Len(ResetRun(r).pre) = 0
           /\ ResetRun(r).main = r.main /\ ResetRun(r).file = r.file
           /\ ResetRun(r).recording = r.recording
<1> DEFINE e == ResetRun(r)
<1>1. r \in Rec
  BY DEF Good
<1>2. << >> \in Seq(Nat) /\ Len(<< >>) = 0
  BY EmptySeq
<1>3. /\ e \in Rec /\ e.pre = << >> /\ e.main = r.main /\ e.file = r.file
      /\ e.recording = r.recording /\ e.lead = r.lead /\ e.cap = r.cap
  BY <1>1, <1>2 DEF ResetRun, Rec
<1> HIDE DEF e
<1>4. Good(e, 0)
  BY <1>2, <1>3 DEF Good, Recent
<1> QED
  BY <1>2, <1>3, <1>4 DEF e

\* Opening a recording that is ticked: a fresh file, or none.
LEMMA OpenKeeps ==
    ASSUME NEW r, NEW k \in Nat, Good(r, k), r.recording, NEW res \in OpenResults
    PROVE  /\ Good(Open(r, res), k) /\ Open(r, res).pre = r.pre
           /\ Open(r, res).file = IF Open(r, res).main THEN << >> ELSE r.file
           /\ Open(r, res).main \in BOOLEAN
<1> DEFINE o == Open(r, res)
<1>1. r \in Rec
  BY DEF Good
<1>2. /\ o \in Rec /\ o.recording = r.recording /\ o.pre = r.pre /\ o.cap = r.cap
      /\ o.file = IF o.main THEN << >> ELSE r.file
      /\ o.lead = IF o.main THEN 0 ELSE r.lead
  <2>1. CASE res = "ok"
    BY <1>1, <2>1, OpenClose
  <2>2. CASE res # "ok"
    BY <1>1, <2>2, OpenClose
  <2> QED
    BY <2>1, <2>2
<1> HIDE DEF o
<1>3. LiveLimits \/ o.lead <= o.cap
  BY <1>2 DEF Good, Rec
<1>4. Good(o, k)
  BY <1>2, <1>3 DEF Good
<1>5. o.main \in BOOLEAN
  BY <1>2 DEF Rec
<1> QED
  BY <1>2, <1>4, <1>5 DEF o

-----------------------------------------------------------------------------
(* Starts and ends of a run, and the checkbox.                             *)

LEMMA StartVirtualKeeps ==
    ASSUME IInv, NEW res \in OpenResults, StartVirtual(res)
    PROVE  IInv' /\ Implements
<1> DEFINE g == ResetRun(Close(rec))
           e == OpenArmed(g, res)
<1>1. rec' = e /\ measuring' = TRUE /\ n' = 0 /\ UNCHANGED <<preLimit, captured>>
  BY DEF StartVirtual
<1>2. Good(Close(rec), n) /\ ~Close(rec).main /\ Close(rec).file = rec.file /\ n \in Nat
  BY InvFacts, CloseKeeps DEF IInv
<1>3. Good(g, 0) /\ Len(g.pre) = 0 /\ ~g.main /\ g.file = rec.file
  BY <1>2, ResetKeeps
<1> HIDE DEF g
<1>4. /\ Good(e, 0) /\ Len(e.pre) = 0 /\ e.main \in BOOLEAN
      /\ e.file = IF e.main THEN << >> ELSE rec.file
  <2>1. CASE g.recording
    <3>1. e = Open(g, res)
      BY <2>1 DEF OpenArmed
    <3> HIDE DEF e
    <3> QED
      BY <1>3, <2>1, <3>1, OpenKeeps
  <2>2. CASE ~g.recording
    <3>1. e = g
      BY <2>2 DEF OpenArmed
    <3> HIDE DEF e
    <3>2. g.main \in BOOLEAN
      BY <1>3 DEF Good, Rec
    <3>3. e.file = IF e.main THEN << >> ELSE rec.file
      BY <1>3, <3>1
    <3> QED
      BY <1>3, <3>1, <3>2, <3>3
  <2> QED
    BY <2>1, <2>2
<1> HIDE DEF e
<1>5. IInv'
  <2>1. /\ measuring' \in BOOLEAN /\ captured' \in BOOLEAN /\ preLimit' \in PreLimits
        /\ preLimit' \in Nat /\ n' \in 0 .. MaxFrames
    BY <1>1, InvFacts, RecordingAssumption DEF IInv, TypeOK
  <2>2. Good(rec', n') /\ Len(rec'.pre) <= preLimit'
    BY <1>1, <1>4, <2>1
  <2> QED
    BY <1>1, <2>1, <2>2, StepKeeps
<1>6. Contract!Restart
  BY <1>1, <1>4 DEF Contract!Restart
<1> QED
  BY <1>5, <1>6 DEF Implements, Contract!Next

LEMMA StartReplayKeeps ==
    ASSUME IInv, StartReplay
    PROVE  IInv' /\ Implements
<1> DEFINE o == [Close(rec) EXCEPT !.recording = FALSE]
           e == ResetRun(o)
<1>1. rec' = e /\ measuring' = TRUE /\ n' = 0 /\ UNCHANGED <<preLimit, captured>>
  BY DEF StartReplay
<1>2. Good(o, n) /\ ~o.main /\ o.file = rec.file /\ n \in Nat
  BY InvFacts, CloseKeeps DEF IInv
<1> HIDE DEF o
<1>3. Good(e, 0) /\ Len(e.pre) = 0 /\ ~e.main /\ e.file = rec.file
  BY <1>2, ResetKeeps
<1> HIDE DEF e
<1>4. IInv'
  <2>1. /\ measuring' \in BOOLEAN /\ captured' \in BOOLEAN /\ preLimit' \in PreLimits
        /\ preLimit' \in Nat /\ n' \in 0 .. MaxFrames
    BY <1>1, InvFacts, RecordingAssumption DEF IInv, TypeOK
  <2>2. Good(rec', n') /\ Len(rec'.pre) <= preLimit'
    BY <1>1, <1>3, <2>1
  <2> QED
    BY <1>1, <2>1, <2>2, StepKeeps
<1>5. Contract!Restart
  <2>1. rec'.main \in BOOLEAN
    BY <1>1, <1>3 DEF Good, Rec
  <2> QED
    BY <1>1, <1>3, <2>1 DEF Contract!Restart
<1> QED
  BY <1>4, <1>5 DEF Implements, Contract!Next

\* stop_bus and the halt: the recorder is closed, ticked or not.
LEMMA EndKeeps ==
    ASSUME IInv, Stop \/ Halt
    PROVE  IInv' /\ Implements
<1>1. /\ measuring' = FALSE /\ UNCHANGED <<n, preLimit, captured>>
      /\ rec' \in {Close(rec), [Close(rec) EXCEPT !.recording = FALSE]}
  BY DEF Stop, Halt
<1>2. Good(rec', n) /\ ~rec'.main /\ ~rec'.side /\ rec'.file = rec.file
  <2>1. CASE rec' = Close(rec)
    BY <2>1, InvFacts, CloseKeeps DEF IInv
  <2>2. CASE rec' = [Close(rec) EXCEPT !.recording = FALSE]
    BY <2>2, InvFacts, CloseKeeps DEF IInv
  <2> QED
    BY <1>1, <2>1, <2>2
<1>3. IInv'
  <2>1. /\ measuring' \in BOOLEAN /\ captured' \in BOOLEAN /\ preLimit' \in PreLimits
        /\ n' \in 0 .. MaxFrames /\ Good(rec', n')
    BY <1>1, <1>2 DEF IInv, TypeOK
  <2> QED
    BY <1>1, <1>2, <2>1, StepKeeps
<1>4. Contract!Close \/ UNCHANGED Contract!vars
  <2>1. rec.main \in BOOLEAN /\ rec'.main \in BOOLEAN
    BY <1>2, InvFacts DEF Good, Rec
  <2>2. rec'.main = FALSE
    BY <1>2, <2>1
  <2>3. CASE rec.main
    BY <1>1, <1>2, <2>2, <2>3 DEF Contract!Close
  <2>4. CASE ~rec.main
    BY <1>1, <1>2, <2>1, <2>2, <2>4 DEF Contract!vars
  <2> QED
    BY <2>3, <2>4
<1> QED
  BY <1>3, <1>4 DEF Implements, Contract!Next

LEMMA ToggleKeeps ==
    ASSUME IInv, NEW res \in OpenResults, Toggle(res)
    PROVE  IInv' /\ Implements
<1> DEFINE s == [rec EXCEPT !.roll = None]
           e == ToggleRecord(rec, res)
<1>1. rec' = e /\ UNCHANGED <<measuring, preLimit, n, captured>>
  BY DEF Toggle
<1>2. /\ s \in Rec /\ Good(s, n) /\ s.main = rec.main /\ s.file = rec.file
      /\ s.pre = rec.pre /\ s.recording = rec.recording /\ s.side = rec.side
  <2>1. /\ s \in Rec /\ s.main = rec.main /\ s.file = rec.file /\ s.pre = rec.pre
        /\ s.side = rec.side
        /\ s.recording = rec.recording /\ s.lead = rec.lead /\ s.cap = rec.cap
    BY InvFacts DEF Rec
  <2> HIDE DEF s
  <2>2. Good(s, n)
    BY <2>1 DEF IInv, Good
  <2> QED
    BY <2>1, <2>2
<1>3. /\ n \in Nat /\ rec.main \in BOOLEAN /\ (rec.main => rec.recording /\ measuring)
      /\ rec.side => measuring
  BY InvFacts DEF IInv, NoStrayFile, Rec
<1>4. /\ Good(e, n) /\ e.pre = rec.pre /\ (e.side => measuring)
      /\ \/ ~e.main /\ e.file = rec.file
         \/ ~rec.main /\ e.main /\ e.file = << >> /\ measuring
  <2>1. CASE rec.recording
    <3>1. e = [Close(s) EXCEPT !.recording = FALSE]
      BY <2>1 DEF ToggleRecord
    <3> HIDE DEF e, s
    <3> QED
      BY <1>2, <1>3, <3>1, CloseKeeps
  <2>2. CASE ~rec.recording /\ ~measuring
    <3>1. e = [s EXCEPT !.recording = TRUE]
      BY <2>2 DEF ToggleRecord
    <3> HIDE DEF e, s
    <3>2. /\ e \in Rec /\ e.main = s.main /\ e.file = s.file /\ e.pre = s.pre
          /\ e.recording /\ e.lead = s.lead /\ e.cap = s.cap /\ e.side = s.side
      BY <1>2, <3>1 DEF Rec
    <3>3. Good(e, n)
      BY <1>2, <3>2 DEF Good
    <3>4. ~e.main
      BY <1>2, <1>3, <2>2, <3>2
    <3> QED
      BY <1>2, <1>3, <3>2, <3>3, <3>4
  <2>3. CASE ~rec.recording /\ measuring
    <3> DEFINE o == Open(s, res)
    <3>1. e = [o EXCEPT !.recording = (res = "ok")]
      BY <2>3 DEF ToggleRecord
    <3> HIDE DEF e, s
    <3>2. /\ o \in Rec /\ o.pre = s.pre /\ o.cap = s.cap
          /\ res = "ok" => o.main /\ o.file = << >> /\ o.lead = 0
          /\ res # "ok" => ~o.main /\ o.file = s.file /\ o.lead = s.lead
      BY <1>2, OpenClose
    <3> HIDE DEF o
    <3>3. /\ e \in Rec /\ e.main = o.main /\ e.file = o.file /\ e.pre = o.pre
          /\ e.lead = o.lead /\ e.cap = o.cap
          /\ res = "ok" => e.recording
      BY <3>1, <3>2 DEF Rec
    <3>4. LiveLimits \/ e.lead <= e.cap
      BY <1>2, <3>2, <3>3 DEF Good, Rec
    <3>5. e.main => e.recording
      BY <3>2, <3>3
    <3>6. Good(e, n)
      BY <1>2, <3>2, <3>3, <3>4, <3>5 DEF Good
    <3> QED
      BY <1>2, <1>3, <2>3, <3>2, <3>3, <3>6
  <2> QED
    BY <1>3, <2>1, <2>2, <2>3
<1> HIDE DEF e, s
<1>5. IInv'
  <2>1. /\ measuring' \in BOOLEAN /\ captured' \in BOOLEAN /\ preLimit' \in PreLimits
        /\ n' \in 0 .. MaxFrames /\ Good(rec', n')
    BY <1>1, <1>4 DEF IInv, TypeOK
  <2>2. measuring' => LiveLimits \/ Len(rec'.pre) <= preLimit'
    BY <1>1, <1>4 DEF IInv, TypeOK
  <2>3. rec'.main \/ rec'.side => measuring'
    BY <1>1, <1>4
  <2> QED
    BY <2>1, <2>2, <2>3, StepKeeps
<1>6. Contract!Open \/ Contract!Close \/ UNCHANGED Contract!vars
  <2>1. rec.main \in BOOLEAN /\ rec'.main \in BOOLEAN
    BY <1>1, <1>3, <1>4 DEF Good, Rec
  <2>2. CASE ~rec'.main /\ rec'.file = rec.file
    <3>1. CASE rec.main
      BY <1>1, <2>1, <2>2, <3>1 DEF Contract!Close
    <3>2. CASE ~rec.main
      BY <1>1, <2>1, <2>2, <3>2 DEF Contract!vars
    <3> QED
      BY <3>1, <3>2
  <2>3. CASE ~rec.main /\ rec'.main /\ rec'.file = << >>
    <3>1. << >> \in Contract!Opened(n)
      <4>1. n + 1 \in 1 .. n + 1
        BY <1>3
      <4>2. Contract!Span(n + 1, n) = << >>
        BY <1>3 DEF Contract!Span
      <4> QED
        BY <4>1, <4>2 DEF Contract!Opened
    <3> QED
      BY <1>1, <2>1, <2>3, <3>1 DEF Contract!Open
  <2> QED
    BY <1>1, <1>4, <2>2, <2>3
<1> QED
  BY <1>5, <1>6 DEF Implements, Contract!Next

-----------------------------------------------------------------------------
(* Frames and sweeps.                                                      *)

\* A step in which the rules act, once or twice, and no CAN frame is counted.
LEMMA RulesKeep ==
    ASSUME IInv, NEW asks \in Asks, NEW res \in OpenResults, NEW late \in Asks,
           NEW again \in OpenResults, measuring,
           rec' = RunActions(RunActions(rec, asks, res), late, again), captured' \in BOOLEAN,
           UNCHANGED <<measuring, preLimit, n>>
    PROVE  IInv' /\ Implements
<1>1. Good(rec', n) /\ Bounded(rec') /\ Opens(rec, rec', n)
  <2> DEFINE d == RunActions(rec, asks, res)
             e == RunActions(d, late, again)
  <2>1. Good(d, n) /\ Bounded(d) /\ Opens(rec, d, n)
    BY InvFacts, RunActionsKeeps DEF IInv
  <2> HIDE DEF d
  <2>2. Good(e, n) /\ Bounded(e) /\ Opens(d, e, n)
    BY <2>1, InvFacts, RunActionsKeeps
  <2>3. rec' = e
    BY DEF d
  <2> HIDE DEF e
  <2> QED
    BY <2>1, <2>2, <2>3 DEF Opens
<1>2. IInv'
  <2>1. /\ measuring' \in BOOLEAN /\ preLimit' \in PreLimits
        /\ n' \in 0 .. MaxFrames /\ Good(rec', n')
    BY <1>1 DEF IInv, TypeOK
  <2>2. LiveLimits \/ Len(rec'.pre) <= preLimit'
    BY <1>1 DEF Bounded
  <2>3. measuring'
    OBVIOUS
  <2> QED
    BY <2>1, <2>2, <2>3, StepKeeps
<1>3. Contract!Open \/ UNCHANGED Contract!vars
  <2>1. rec'.main \in BOOLEAN
    BY <1>1 DEF Good, Rec
  <2>2. CASE rec'.main = rec.main /\ rec'.file = rec.file
    BY <2>2 DEF Contract!vars
  <2>3. CASE ~rec.main /\ rec'.main /\ rec'.file \in Contract!Opened(n)
    BY <2>1, <2>3 DEF Contract!Open
  <2> QED
    BY <1>1, <2>2, <2>3 DEF Opens
<1> QED
  BY <1>2, <1>3 DEF Implements, Contract!Next

LEMMA CanStepKeeps ==
    ASSUME IInv, NEW asks \in Asks, NEW res \in OpenResults, NEW late \in Asks,
           NEW again \in OpenResults, measuring, n < MaxFrames,
           rec' = CanFrame(rec, n + 1, asks, res, late, again).rec, captured' \in BOOLEAN,
           n' = n + 1, UNCHANGED <<measuring, preLimit>>
    PROVE  IInv' /\ Implements
<1>1. /\ Good(rec', n + 1) /\ Bounded(rec')
      /\ Arrives(rec, rec', n) \/ (rec'.main /\ rec'.file \in Contract!Opened(n + 1))
  BY InvFacts, CanFrameKeeps DEF IInv
<1>2. IInv'
  <2>1. /\ measuring' \in BOOLEAN /\ preLimit' \in PreLimits /\ Good(rec', n')
        /\ n' \in 0 .. MaxFrames
    BY <1>1, InvFacts DEF IInv, TypeOK
  <2>2. LiveLimits \/ Len(rec'.pre) <= preLimit'
    BY <1>1 DEF Bounded
  <2> QED
    BY <2>1, <2>2, StepKeeps
<1>3. Contract!Arrive
  <2>1. rec'.main \in BOOLEAN /\ rec.main \in BOOLEAN
    BY <1>1, InvFacts DEF Good, Rec
  <2>2. CASE rec.main /\ rec'.file = Append(rec.file, n + 1)
    BY <2>1, <2>2 DEF Contract!Arrive
  <2>3. CASE ~rec.main /\ \E s \in Contract!Opened(n) : rec'.file = Append(s, n + 1)
    BY <2>1, <2>3 DEF Contract!Arrive
  <2>4. CASE ~rec.main /\ ~rec'.main /\ rec'.file = rec.file
    <3>1. rec'.main = rec.main
      BY <2>1, <2>4
    <3> QED
      BY <2>4, <3>1 DEF Contract!Arrive
  <2>5. CASE rec'.main /\ rec'.file \in Contract!Opened(n + 1)
    BY <2>1, <2>5 DEF Contract!Arrive
  <2> QED
    BY <1>1, <2>2, <2>3, <2>4, <2>5 DEF Arrives
<1> QED
  BY <1>2, <1>3 DEF Implements, Contract!Next

\* What is judged, filed and left of a frame that is no admitted CAN frame.
LEMMA OtherFrame ==
    ASSUME NEW kind \in Kinds, kind # "can", NEW asks \in Asks, NEW res \in OpenResults,
           NEW late \in LateOf(kind), NEW again \in OpenResults,
           Frame(kind, asks, res, late, again)
    PROVE  /\ n' = n /\ UNCHANGED <<measuring, preLimit, rolled>> /\ measuring
           /\ rec' = RunActions(RunActions(rec, asks, res), late, again)
           /\ captured \in BOOLEAN => captured' \in BOOLEAN
<1> DEFINE d == RunActions(rec, asks, res)
<1>1. /\ measuring /\ n' = n /\ UNCHANGED <<measuring, preLimit>>
  BY DEF Frame
<1>2. RunActions(d, << >>, again) = d
  BY DEF RunActions
<1> HIDE DEF d
<1>3. CASE kind = "hidden"
  <2>1. /\ rec' = RunActions(d, late, again) /\ captured' = (captured /\ TRUE)
        /\ rolled' = IF d.roll # None /\ d.roll = None /\ d.main
                     THEN [asked |-> d.asked, got |-> Len(d.file) - d.mark] ELSE rolled
    BY <1>3 DEF Frame, HiddenFrame, Passed, d
  <2> QED
    BY <1>1, <2>1 DEF d
<1>4. CASE kind \in {"fr", "eth"}
  <2>1. late = << >>
    BY <1>4 DEF LateOf
  <2>2. /\ rec' = d
        /\ rolled' = IF d.roll # None /\ d.roll = None /\ d.main
                     THEN [asked |-> d.asked, got |-> Len(d.file) - d.mark] ELSE rolled
    BY <1>4 DEF Frame, FrFrame, EthFrame, Passed, d
  <2>3. captured \in BOOLEAN => captured' \in BOOLEAN
    BY DEF Frame
  <2> QED
    BY <1>1, <1>2, <2>1, <2>2, <2>3 DEF d
<1> QED
  BY <1>3, <1>4, RecordingAssumption

LEMMA LateAsksAre ==
    ASSUME NEW kind, NEW late \in LateOf(kind)
    PROVE  late \in Asks
BY LateAssumption DEF LateOf, Asks

LEMMA FrameKeeps ==
    ASSUME IInv, NEW kind \in Kinds, NEW asks \in Asks, NEW res \in OpenResults,
           NEW late \in LateOf(kind), NEW again \in OpenResults,
           Frame(kind, asks, res, late, again)
    PROVE  IInv' /\ Implements
<1>1. measuring /\ UNCHANGED <<measuring, preLimit>> /\ captured' \in BOOLEAN
  BY InvFacts DEF Frame
<1>2. late \in Asks
  BY LateAsksAre
<1>3. CASE kind = "can"
  <2>1. n < MaxFrames /\ rec' = CanFrame(rec, n + 1, asks, res, late, again).rec /\ n' = n + 1
    BY <1>3 DEF Frame
  <2> QED
    BY <1>1, <1>2, <2>1, CanStepKeeps
<1>4. CASE kind # "can"
  <2>1. n' = n /\ rec' = RunActions(RunActions(rec, asks, res), late, again)
    BY <1>4, OtherFrame
  <2> QED
    BY <1>1, <1>2, <2>1, RulesKeep
<1> QED
  BY <1>3, <1>4

LEMMA ResultsAre ==
    ASSUME NEW asks, NEW res \in ResultsOf(asks)
    PROVE  res \in OpenResults
BY DEF ResultsOf, OpenResults

LEMMA SetRunLimitsKeeps ==
    ASSUME IInv, NEW limit \in PreLimits, SetRunLimits(limit)
    PROVE  IInv' /\ Implements
<1>1. /\ UNCHANGED <<measuring, n, rec, captured>> /\ preLimit' = limit
      /\ LiveLimits \/ ~measuring
  BY DEF SetRunLimits
<1>2. /\ measuring' \in BOOLEAN /\ captured' \in BOOLEAN /\ preLimit' \in PreLimits
      /\ n' \in 0 .. MaxFrames /\ Good(rec', n')
  BY <1>1 DEF IInv, TypeOK
<1>3. IInv'
  BY <1>1, <1>2, StepKeeps DEF IInv, NoStrayFile
<1> QED
  BY <1>1, <1>3 DEF Implements, Contract!vars

-----------------------------------------------------------------------------
(* The theorems.                                                           *)

LEMMA InvInit == Init => IInv /\ Contract!Init
<1> SUFFICES ASSUME Init PROVE IInv /\ Contract!Init
  OBVIOUS
<1>1. /\ rec = NoRecord /\ n = 0 /\ measuring = FALSE /\ captured = TRUE
      /\ preLimit \in PreLimits /\ MaxFrames \in Nat
  BY RecordingAssumption DEF Init
<1>2. << >> \in Seq(Nat) /\ Len(<< >>) = 0
  BY EmptySeq
<1>3. /\ rec \in Rec /\ ~rec.main /\ ~rec.side /\ rec.pre = << >> /\ rec.file = << >>
      /\ rec.lead = 0 /\ rec.cap = 0 /\ rec.main = FALSE
  BY <1>1, <1>2 DEF NoRecord, Rec
<1>4. Good(rec, n)
  BY <1>1, <1>2, <1>3 DEF Good, Recent
<1>5. TypeOK
  <2>1. n \in 0 .. MaxFrames
    BY <1>1
  <2>2. measuring \in BOOLEAN /\ captured \in BOOLEAN /\ ~measuring
    BY <1>1, Zenon
  <2> QED
    BY <1>1, <1>3, <2>1, <2>2 DEF TypeOK, Rec
<1>6. NoStrayFile
  BY <1>3 DEF NoStrayFile
<1>7. Contract!Init
  BY <1>1, <1>3 DEF Contract!Init
<1> QED
  BY <1>4, <1>5, <1>6, <1>7 DEF IInv

LEMMA InvNext == IInv /\ [Next]_vars => IInv' /\ Implements
<1> SUFFICES ASSUME IInv, [Next]_vars PROVE IInv' /\ Implements
  OBVIOUS
<1>1. CASE StartReplay
  BY <1>1, StartReplayKeeps
<1>2. CASE Stop \/ Halt
  BY <1>2, EndKeeps
<1>3. ASSUME NEW res \in OpenResults, StartVirtual(res) PROVE IInv' /\ Implements
  BY <1>3, StartVirtualKeeps
<1>4. ASSUME NEW res \in OpenResults, Toggle(res) PROVE IInv' /\ Implements
  BY <1>4, ToggleKeeps
<1>5. ASSUME NEW res \in OpenResults, NEW asks \in Asks, Sweep(asks, res)
      PROVE  IInv' /\ Implements
  <2>1. /\ measuring /\ rec' = RunActions(rec, asks, res)
        /\ UNCHANGED <<measuring, preLimit, n, captured>>
    BY <1>5 DEF Sweep
  <2>2. << >> \in Asks /\ rec' = RunActions(rec', << >>, res)
    BY DEF Asks, RunActions
  <2> QED
    BY <2>1, <2>2, InvFacts, RulesKeep
<1>6. ASSUME NEW kind \in Kinds, NEW asks \in Asks, NEW late \in LateOf(kind),
             NEW res \in ResultsOf(asks), NEW again \in ResultsOf(late),
             Frame(kind, asks, res, late, again)
      PROVE  IInv' /\ Implements
  BY <1>6, ResultsAre, FrameKeeps
<1>7. ASSUME NEW limit \in PreLimits, SetRunLimits(limit) PROVE IInv' /\ Implements
  BY <1>7, SetRunLimitsKeeps
<1>8. CASE UNCHANGED vars
  <2>1. IInv'
    BY <1>8 DEF vars, IInv, TypeOK, NoStrayFile, Good, Recent
  <2>2. Implements
    BY <1>8 DEF vars, Implements, Contract!vars
  <2> QED
    BY <2>1, <2>2
<1> QED
  BY <1>1, <1>2, <1>3, <1>4, <1>5, <1>6, <1>7, <1>8 DEF Next

\* The recorder is well formed, and the pre-trigger memory of a run within its
\* limit unless the limit is changed meanwhile.
THEOREM TypeCorrect == Spec => []TypeOK
<1>1. IInv => TypeOK
  BY DEF IInv
<1>2. IInv /\ [Next]_vars => IInv'
  BY InvNext
<1>3. Init => IInv
  BY InvInit
<1> QED
  BY <1>1, <1>2, <1>3, PTL DEF Spec

\* An open file means a ticked checkbox and a running measurement, and an open
\* sidecar a running one, whatever the rules ask for and whichever file fails to
\* open.
THEOREM NoFileLeftOpen == Spec => []NoStrayFile
<1>1. IInv => NoStrayFile
  BY DEF IInv
<1>2. IInv /\ [Next]_vars => IInv'
  BY InvNext
<1>3. Init => IInv
  BY InvInit
<1> QED
  BY <1>1, <1>2, <1>3, PTL DEF Spec

\* Unless limits change during a run, no file begins with more frames than
\* the pre-trigger limit in force when it was opened.
THEOREM LeadBounded == ~LiveLimits /\ Spec => []LeadWithinLimit
<1>1. CASE ~LiveLimits
  <2>1. IInv => LeadWithinLimit
    BY <1>1 DEF IInv, Good, LeadWithinLimit
  <2>2. IInv /\ [Next]_vars => IInv'
    BY InvNext
  <2>3. Init => IInv
    BY InvInit
  <2> QED
    BY <2>1, <2>2, <2>3, PTL DEF Spec
<1> QED
  BY <1>1

\* Recording implements RecordFile: a recorded file is one unbroken span of
\* the run's admitted frames, for any limits, failures and asks of rules.
THEOREM FileUnbroken == Spec => FileIsUnbroken
<1>1. Init => IInv /\ Contract!Init
  BY InvInit
<1>2. IInv /\ [Next]_vars => IInv' /\ [Contract!Next]_(Contract!vars)
  BY InvNext DEF Implements
<1> QED
  BY <1>1, <1>2, PTL DEF Spec, FileIsUnbroken, Contract!Spec
-----------------------------------------------------------------------------
(* What a recording owes its cause: a file, the firing frame, the post-roll. *)

\* A running post-roll and the frames written since it began make up what was
\* asked for; one asked to be empty ends with the frame at hand.
Counting(r) ==
    r.main /\ r.roll # None =>
        IF r.asked = 0 THEN r.roll = 0 /\ Len(r.file) = r.mark
        ELSE r.roll >= 1 /\ Len(r.file) + r.roll = r.mark + r.asked

Armed(r) == r.recording => r.main

\* What an operation that leads from r to d keeps.
Owed(r, d) == (Counting(r) => Counting(d)) /\ (Armed(r) => Armed(d))

LEMMA StartOwes ==
    ASSUME NEW r, r \in Rec, NEW keep, NEW res \in OpenResults
    PROVE  Owed(r, StartRecording(r, keep, res))
<1> DEFINE d == StartRecording(r, keep, res)
<1>1. CASE r.recording
  BY <1>1 DEF StartRecording, Owed
<1>2. CASE ~r.recording /\ res # "ok"
  <2>1. d = Open(r, res)
    BY <1>2 DEF StartRecording
  <2>2. ~d.main /\ ~d.recording
    BY <1>2, <2>1 DEF Open, Rec
  <2> QED
    BY <2>2 DEF Owed, Counting, Armed
<1>3. CASE ~r.recording /\ res = "ok"
  <2>1. d = [Open(r, res) EXCEPT
               !.recording = TRUE, !.roll = None, !.pre = << >>,
               !.file = Lead(r, keep), !.lead = Len(Lead(r, keep)), !.cap = preLimit]
    BY <1>3 DEF StartRecording
  <2>2. d.roll = None /\ d.main
    BY <1>3, <2>1 DEF Open, Rec
  <2> QED
    BY <2>2 DEF Owed, Counting, Armed
<1> QED
  BY <1>1, <1>2, <1>3

LEMMA StopOwes ==
    ASSUME NEW r, r \in Rec, NEW roll \in Nat
    PROVE  Owed(r, StopRecording(r, roll))
<1> DEFINE d == StopRecording(r, roll)
<1>1. Len(r.file) \in Nat
  BY LenProperties DEF Rec
<1>2. CASE r.recording
  <2>1. /\ d.roll = roll /\ d.asked = roll /\ d.mark = Len(r.file) /\ d.file = r.file
        /\ d.main = r.main /\ d.recording = r.recording
    BY <1>2 DEF StopRecording, Rec
  <2> HIDE DEF d
  <2>2. Counting(d)
    BY <1>1, <2>1 DEF Counting
  <2>3. Armed(r) => Armed(d)
    BY <2>1 DEF Armed
  <2> QED
    BY <2>2, <2>3 DEF Owed, d
<1>3. CASE ~r.recording
  BY <1>3 DEF StopRecording, Owed
<1> QED
  BY <1>2, <1>3

LEMMA RunActionOwes ==
    ASSUME NEW r, r \in Rec, NEW a \in Starts \cup Stops, NEW res \in OpenResults
    PROVE  Owed(r, RunAction(r, a, res))
<1>1. CASE a \in Starts
  BY <1>1, AskTypes, StartOwes DEF RunAction
<1>2. CASE a \in Stops
  <2>1. a.ask = "stop" /\ a.roll \in Nat
    BY <1>2, AskTypes
  <2>2. RunAction(r, a, res) = StopRecording(r, a.roll)
    BY <2>1 DEF RunAction
  <2> QED
    BY <2>1, <2>2, StopOwes
<1> QED
  BY <1>1, <1>2

LEMMA RunActionsOwe ==
    ASSUME NEW k \in Nat, NEW r, Good(r, k), Bounded(r), preLimit \in Nat,
           NEW asks \in Asks, NEW res \in OpenResults
    PROVE  Owed(r, RunActions(r, asks, res))
<1>1. CASE asks = << >>
  BY <1>1 DEF RunActions, Owed
<1>2. ASSUME NEW a \in Starts \cup Stops, asks = <<a>>
      PROVE  Owed(r, RunActions(r, asks, res))
  <2>1. RunActions(r, asks, res) = RunAction(r, a, res)
    BY <1>2 DEF RunActions
  <2> QED
    BY <2>1, RunActionOwes DEF Good
<1>3. ASSUME NEW a \in Starts \cup Stops, NEW b \in Starts \cup Stops, asks = <<a, b>>
      PROVE  Owed(r, RunActions(r, asks, res))
  <2> DEFINE d1 == RunAction(r, a, res)
             d2 == RunAction(d1, b, res)
  <2>1. RunActions(r, asks, res) = d2
    BY <1>3 DEF RunActions
  <2>2. Good(d1, k)
    BY RunActionKeeps
  <2>3. Owed(r, d1)
    BY RunActionOwes DEF Good
  <2> HIDE DEF d1
  <2>4. Owed(d1, d2)
    BY <2>2, RunActionOwes DEF Good
  <2> QED
    BY <2>1, <2>3, <2>4 DEF Owed
<1> QED
  BY <1>1, <1>2, <1>3 DEF Asks

\* An admitted frame counts for the post-roll, and the one that ends it is the
\* last of those asked for.
LEMMA CanFrameOwes ==
    ASSUME NEW k \in Nat, NEW d, d \in Rec, Counting(d), NEW pre
    PROVE  LET e == RollDown([Written(d, k + 1) EXCEPT !.pre = pre])
           IN  /\ Counting(e) /\ (Armed(d) => Armed(e))
               /\ d.main /\ d.roll # None /\ e.roll = None =>
                     Len(e.file) - d.mark = IF d.asked = 0 THEN 1 ELSE d.asked
<1> DEFINE w == Written(d, k + 1)
           x == [w EXCEPT !.pre = pre]
           e == RollDown(x)
           f == IF d.main THEN Append(d.file, k + 1) ELSE d.file
<1>1. /\ d.file \in Seq(Nat) /\ Len(d.file) \in Nat /\ d.mark \in Nat /\ d.asked \in Nat
      /\ d.roll \in Nat \cup {None} /\ None \notin Nat
      /\ Len(Append(d.file, k + 1)) = Len(d.file) + 1
  BY LenProperties, AppendProperties, RecordingAssumption DEF Rec
<1>2. /\ x = [recording |-> d.recording, main |-> d.main, side |-> d.side, pre |-> pre,
              roll |-> d.roll, file |-> f,
              lead |-> d.lead, cap |-> d.cap, asked |-> d.asked, mark |-> d.mark]
      /\ x.file = f /\ x.roll = d.roll /\ x.main = d.main /\ x.recording = d.recording
      /\ x.asked = d.asked /\ x.mark = d.mark
  <2>1. w = [d EXCEPT !.file = f]
    <3>1. CASE d.main
      BY <3>1 DEF Written
    <3>2. CASE ~d.main
      BY <3>2 DEF Written, Rec
    <3> QED
      BY <3>1, <3>2
  <2> HIDE DEF w, f
  <2>2. w = [recording |-> d.recording, main |-> d.main, side |-> d.side, pre |-> d.pre,
             roll |-> d.roll, file |-> f, lead |-> d.lead, cap |-> d.cap,
             asked |-> d.asked, mark |-> d.mark]
    BY <2>1 DEF Rec
  <2>3. x = [recording |-> d.recording, main |-> d.main, side |-> d.side, pre |-> pre,
             roll |-> d.roll, file |-> f, lead |-> d.lead, cap |-> d.cap,
             asked |-> d.asked, mark |-> d.mark]
    BY <2>2
  <2> HIDE DEF x
  <2> QED
    BY <2>3
<1> HIDE DEF w, x, f
<1>3. CASE d.roll = None
  <2>1. e = x
    BY <1>2, <1>3 DEF RollDown
  <2>2. e.roll = None /\ e.main = d.main /\ e.recording = d.recording
    BY <1>2, <1>3, <2>1
  <2> HIDE DEF e
  <2>3. Counting(e) /\ (Armed(d) => Armed(e))
    BY <2>2 DEF Counting, Armed
  <2> QED
    BY <1>3, <2>3 DEF e, x, w
<1>4. CASE d.roll # None /\ d.roll <= 1
  <2>1. e = [Close(x) EXCEPT !.roll = None, !.recording = FALSE]
    BY <1>2, <1>4 DEF RollDown
  <2>2. /\ e.roll = None /\ ~e.main /\ ~e.recording
        /\ d.main => e.file = Append(d.file, k + 1)
    <3>1. e = [x EXCEPT !.main = FALSE, !.side = FALSE, !.roll = None, !.recording = FALSE]
      BY <2>1, <1>2 DEF Close
    <3> HIDE DEF e
    <3>2. e.roll = None /\ e.main = FALSE /\ e.recording = FALSE /\ e.file = f
      BY <1>2, <3>1
    <3> QED
      BY <3>2 DEF f
  <2> HIDE DEF e
  <2>3. Counting(e) /\ Armed(e)
    BY <2>2 DEF Counting, Armed
  <2>4. d.main => Len(e.file) - d.mark = IF d.asked = 0 THEN 1 ELSE d.asked
    <3>1. SUFFICES ASSUME d.main PROVE Len(e.file) - d.mark = IF d.asked = 0 THEN 1 ELSE d.asked
      OBVIOUS
    <3>2. Len(e.file) = Len(d.file) + 1
      BY <1>1, <2>2, <3>1
    <3>3. CASE d.asked = 0
      BY <1>1, <1>4, <3>1, <3>2, <3>3 DEF Counting
    <3>4. CASE d.asked # 0
      <4>1. d.roll = 1 /\ Len(d.file) + d.roll = d.mark + d.asked
        BY <1>1, <1>4, <3>1, <3>4 DEF Counting
      <4> QED
        BY <1>1, <3>2, <3>4, <4>1
    <3> QED
      BY <3>3, <3>4
  <2> QED
    BY <2>3, <2>4 DEF e, x, w
<1>5. CASE d.roll # None /\ ~(d.roll <= 1)
  <2>1. e = [x EXCEPT !.roll = d.roll - 1]
    BY <1>2, <1>5 DEF RollDown
  <2>2. /\ e.roll = d.roll - 1 /\ e.main = d.main /\ e.recording = d.recording
        /\ e.file = f /\ e.asked = d.asked /\ e.mark = d.mark
    BY <1>2, <2>1
  <2> HIDE DEF e
  <2>3. e.roll # None
    BY <1>1, <1>5, <2>2
  <2>4. Counting(e)
    <3>1. SUFFICES ASSUME d.main PROVE Counting(e)
      BY <2>2 DEF Counting
    <3>2. d.asked # 0 /\ Len(d.file) + d.roll = d.mark + d.asked
      BY <1>1, <1>5, <3>1 DEF Counting
    <3>3. Len(e.file) = Len(d.file) + 1
      BY <1>1, <2>2, <3>1 DEF f
    <3>4. e.roll >= 1 /\ Len(e.file) + e.roll = e.mark + e.asked
      <4>1. d.roll \in Nat /\ d.roll >= 2
        BY <1>1, <1>5
      <4>2. e.roll \in Nat /\ e.roll = d.roll - 1 /\ e.mark = d.mark /\ e.asked = d.asked
        BY <2>2, <4>1
      <4>3. Len(d.file) \in Nat /\ d.mark \in Nat /\ d.asked \in Nat
        BY <1>1
      <4>4. (Len(d.file) + 1) + (d.roll - 1) = d.mark + d.asked
        BY ONLY <3>2, <4>1, <4>3
      <4>5. Len(e.file) + e.roll = e.mark + e.asked
        BY ONLY <3>3, <4>2, <4>4
      <4> QED
        BY ONLY <4>1, <4>2, <4>5
    <3> QED
      BY <2>2, <3>2, <3>4 DEF Counting
  <2>5. Armed(d) => Armed(e)
    BY <2>2 DEF Armed
  <2> QED
    BY <2>3, <2>4, <2>5 DEF e, x, w
<1> QED
  BY <1>3, <1>4, <1>5, <1>1

\* A file that was open when its frame was filed ends with it.
LEMMA FiledEnds ==
    ASSUME NEW k \in Nat, NEW d \in Rec, d.main
    PROVE  EndsWith(Filed(d, k).file, k)
<1> DEFINE w == Written(d, k)
           x == [w EXCEPT !.pre = Push(@, k)]
           f == Append(d.file, k)
<1>1. d.file \in Seq(Nat) /\ Len(d.file) \in Nat
  BY LenProperties DEF Rec
<1>2. f \in Seq(Nat) /\ Len(f) = Len(d.file) + 1 /\ f[Len(d.file) + 1] = k
  BY <1>1, AppendProperties
<1> HIDE DEF f
<1>3. w = [d EXCEPT !.file = f]
  BY DEF Written, f
<1> HIDE DEF w
<1>4. x.file = f
  BY <1>3 DEF Rec
<1>5. Filed(d, k) = RollDown(x)
  BY DEF Filed, w
<1> HIDE DEF x
<1>6. RollDown(x).file = x.file
  BY DEF RollDown, Close
<1>7. f # << >>
  BY <1>1, <1>2, EmptySeq
<1> QED
  BY <1>1, <1>2, <1>4, <1>5, <1>6, <1>7 DEF EndsWith

\* The memory holds something after a frame was filed, if it may hold anything.
LEMMA FiledHolds ==
    ASSUME NEW k \in Nat, NEW d \in Rec, preLimit \in Nat, preLimit # 0
    PROVE  Len(Filed(d, k).pre) # 0
<1> DEFINE w == Written(d, k)
           x == [w EXCEPT !.pre = Push(@, k)]
           q == Append(d.pre, k)
<1>1. d.pre \in Seq(Nat) /\ Len(d.pre) \in Nat
  BY LenProperties DEF Rec
<1>2. q \in Seq(Nat) /\ Len(q) = Len(d.pre) + 1 /\ q # << >>
  BY <1>1, AppendProperties, EmptySeq
<1>3. Push(d.pre, k) = IF Len(d.pre) + 1 > preLimit THEN Tail(q) ELSE q
  BY DEF Push
<1> HIDE DEF q
<1>4. Len(Tail(q)) = Len(q) - 1
  BY ONLY <1>2, HeadTailProperties, SMTT(30)
<1>5. Len(Push(d.pre, k)) # 0
  <2>1. PICK m \in Nat : m = Len(d.pre)
    BY <1>1
  <2>2. Len(q) = m + 1 /\ Len(Tail(q)) = m
    BY ONLY <1>2, <1>4, <2>1
  <2>3. CASE m + 1 > preLimit
    <3>1. m # 0
      BY <2>3
    <3>2. Push(d.pre, k) = Tail(q)
      BY <1>3, <2>1, <2>3
    <3> QED
      BY ONLY <2>2, <3>1, <3>2
  <2>4. CASE ~(m + 1 > preLimit)
    <3>1. m + 1 # 0
      OBVIOUS
    <3>2. Push(d.pre, k) = q
      BY <1>3, <2>1, <2>4
    <3> QED
      BY ONLY <2>2, <3>1, <3>2
  <2> QED
    BY <2>3, <2>4
<1>6. w = d \/ w = [d EXCEPT !.file = Append(@, k)]
  BY DEF Written
<1> HIDE DEF w
<1>7. x.pre = Push(d.pre, k)
  BY <1>6 DEF Rec
<1>8. Filed(d, k) = RollDown(x)
  BY DEF Filed, w
<1> HIDE DEF x
<1>9. RollDown(x).pre = x.pre
  BY DEF RollDown, Close
<1> QED
  BY <1>5, <1>7, <1>8, <1>9

\* From r to d a file is opened only with frame k at its end.
Ends(r, d, k) ==
    r.main \/ (~d.main /\ d.pre = r.pre) \/ (d.main /\ EndsWith(d.file, k))

LEMMA LeadEnds ==
    ASSUME NEW k \in Nat, NEW r, Recent(r.pre, k), Len(r.pre) # 0,
           NEW keep \in Nat \cup {None}, keep # 0
    PROVE  EndsWith(Lead(r, keep), k)
<1> DEFINE p == r.pre
           m == IF keep = None \/ keep > Len(p) THEN Len(p) ELSE keep
           lead == SubSeq(p, Len(p) - m + 1, Len(p))
<1>1. p \in Seq(Nat) /\ Len(p) \in Nat /\ Len(p) <= k /\ Len(p) # 0 /\ p[Len(p)] = k
  <2>1. p \in Seq(Nat) /\ Len(p) <= k /\ \A i \in 1 .. Len(p) : p[i] = k - Len(p) + i
    BY DEF Recent
  <2>2. Len(p) \in Nat /\ Len(p) # 0
    BY <2>1, LenProperties
  <2> HIDE DEF p
  <2>3. p[Len(p)] = k - Len(p) + Len(p)
    BY <2>1, <2>2
  <2> QED
    BY <2>1, <2>2, <2>3
<1>2. m \in 1 .. Len(p)
  BY <1>1, RecordingAssumption
<1>3. Lead(r, keep) = lead
  BY DEF Lead
<1> HIDE DEF m
<1>4. \A i \in Len(p) - m + 1 .. Len(p) : p[i] \in Nat
  BY <1>1, <1>2, ElementOfSeq
<1>5. /\ lead \in Seq(Nat)
      /\ Len(lead) = IF Len(p) - m + 1 <= Len(p) THEN Len(p) - (Len(p) - m + 1) + 1 ELSE 0
      /\ \A i \in 1 .. Len(p) - (Len(p) - m + 1) + 1 : lead[i] = p[(Len(p) - m + 1) + i - 1]
  BY <1>1, <1>2, <1>4, SubSeqProperties
<1> HIDE DEF lead, p
<1>6. Len(p) - m + 1 <= Len(p) /\ Len(p) - (Len(p) - m + 1) + 1 = m
  BY <1>1, <1>2
<1>7. Len(lead) = m /\ lead[m] = p[(Len(p) - m + 1) + m - 1]
  BY <1>2, <1>5, <1>6
<1>8. (Len(p) - m + 1) + m - 1 = Len(p)
  BY <1>1, <1>2
<1>9. lead # << >>
  BY <1>2, <1>7, EmptySeq
<1> QED
  BY <1>1, <1>3, <1>7, <1>8, <1>9 DEF EndsWith

LEMMA ActionEnds ==
    ASSUME NEW k \in Nat, NEW r, Good(r, k), Len(r.pre) # 0,
           NEW a \in Starts \cup Stops, NEW res \in OpenResults, a.ask = "start" => a.keep # 0
    PROVE  Ends(r, RunAction(r, a, res), k)
<1> DEFINE d == RunAction(r, a, res)
<1>1. r \in Rec /\ Recent(r.pre, k) /\ (r.main => r.recording)
  BY DEF Good
<1>2. CASE a \in Stops
  <2>1. a.ask = "stop" /\ a.roll \in Nat
    BY <1>2, AskTypes
  <2>2. d = StopRecording(r, a.roll)
    BY <2>1 DEF RunAction
  <2> HIDE DEF d
  <2>3. d.main = r.main /\ d.pre = r.pre
    BY <1>1, <2>2 DEF StopRecording, Rec
  <2> QED
    BY <2>3 DEF Ends, d
<1>3. CASE a \in Starts
  <2>1. a.ask = "start" /\ a.keep \in Nat \cup {None} /\ a.keep # 0
    BY <1>3, AskTypes
  <2>2. d = StartRecording(r, a.keep, res)
    BY <2>1 DEF RunAction
  <2> HIDE DEF d
  <2>3. CASE r.recording
    BY <2>2, <2>3 DEF StartRecording, Ends, d
  <2>4. CASE ~r.recording /\ res # "ok"
    <3>1. d = Open(r, res)
      BY <2>2, <2>4 DEF StartRecording
    <3>2. ~d.main /\ d.pre = r.pre
      BY <1>1, <2>4, <3>1, OpenClose
    <3> QED
      BY <3>2 DEF Ends, d
  <2>5. CASE ~r.recording /\ res = "ok"
    <3> DEFINE o == Open(r, res)
               lead == Lead(r, a.keep)
    <3>1. d = [o EXCEPT !.recording = TRUE, !.roll = None, !.pre = << >>,
                        !.file = lead, !.lead = Len(lead), !.cap = preLimit]
      BY <2>2, <2>5 DEF StartRecording
    <3>2. o \in Rec /\ o.main
      BY <1>1, <2>5, OpenClose
    <3>3. EndsWith(lead, k)
      BY <1>1, <2>1, LeadEnds
    <3> HIDE DEF o, lead
    <3>4. d.main /\ d.file = lead
      BY <3>1, <3>2 DEF Rec
    <3> QED
      BY <3>3, <3>4 DEF Ends, d
  <2> QED
    BY <2>3, <2>4, <2>5
<1> QED
  BY <1>2, <1>3

LEMMA LateFileEnds ==
    ASSUME NEW k \in Nat, NEW m, Good(m, k), Bounded(m), preLimit \in Nat,
           preLimit # 0 => Len(m.pre) # 0, NEW late \in Asks, NEW again \in OpenResults
    PROVE  LET e == RunActions(m, late, again)
           IN  e.main /\ ~m.main /\ Recalled(late) => EndsWith(e.file, k)
<1> DEFINE e == RunActions(m, late, again)
<1> SUFFICES ASSUME Recalled(late) PROVE e.main /\ ~m.main => EndsWith(e.file, k)
  OBVIOUS
<1>1. /\ Len(m.pre) # 0 /\ \A i \in DOMAIN late : late[i].ask = "start" => late[i].keep # 0
  BY DEF Recalled
<1>2. CASE late = << >>
  BY <1>2 DEF RunActions
<1>3. ASSUME NEW a \in Starts \cup Stops, late = <<a>>
      PROVE  e.main /\ ~m.main => EndsWith(e.file, k)
  <2>1. e = RunAction(m, a, again) /\ (a.ask = "start" => a.keep # 0)
    BY <1>1, <1>3 DEF RunActions
  <2> HIDE DEF e
  <2> QED
    BY <1>1, <2>1, ActionEnds DEF Ends
<1>4. ASSUME NEW a \in Starts \cup Stops, NEW b \in Starts \cup Stops, late = <<a, b>>
      PROVE  e.main /\ ~m.main => EndsWith(e.file, k)
  <2> DEFINE d1 == RunAction(m, a, again)
             d2 == RunAction(d1, b, again)
  <2>1. /\ e = d2 /\ (a.ask = "start" => a.keep # 0) /\ (b.ask = "start" => b.keep # 0)
    BY <1>1, <1>4 DEF RunActions
  <2>2. Good(d1, k) /\ Bounded(d1)
    BY RunActionKeeps
  <2>3. Ends(m, d1, k)
    BY <1>1, <2>1, ActionEnds
  <2> HIDE DEF d1
  <2>4. Opens(d1, d2, k)
    BY <2>2, RunActionKeeps
  <2>5. Len(d1.pre) # 0 => Ends(d1, d2, k)
    BY <2>1, <2>2, ActionEnds
  <2> HIDE DEF d2, e
  <2>6. d2.main /\ ~m.main => EndsWith(d2.file, k)
    BY <1>1, <2>3, <2>4, <2>5 DEF Ends, Opens
  <2> QED
    BY <2>1, <2>6
<1> QED
  BY <1>2, <1>3, <1>4 DEF Asks

\* Each property with what it needs to be inductive.
RollInv == Counting(rec) /\ RollRunsOut

LEMMA FrameOwes ==
    ASSUME IInv, Counting(rec), NEW kind \in Kinds, NEW asks \in Asks, NEW res \in OpenResults,
           NEW late \in LateOf(kind), NEW again \in OpenResults,
           Frame(kind, asks, res, late, again)
    PROVE  /\ Counting(rec') /\ (Armed(rec) => Armed(rec'))
           /\ RollRunsOut => RollRunsOut'
           /\ "eth" \notin Kinds => captured' = captured
<1> DEFINE d == RunActions(rec, asks, res)
<1>1. Good(d, n) /\ Bounded(d) /\ Owed(rec, d)
  BY InvFacts, RunActionsKeeps, RunActionsOwe DEF IInv, Frame
<1>2. /\ d \in Rec /\ d.main \in BOOLEAN /\ (d.main => d.recording) /\ captured \in BOOLEAN
      /\ late \in Asks /\ n \in Nat /\ n + 1 \in Nat /\ preLimit \in Nat
  BY <1>1, InvFacts, LateAsksAre DEF Good, Rec
<1>3. CASE kind = "can"
  <2> DEFINE out == CanFrame(rec, n + 1, asks, res, late, again)
             m == Filed(d, n + 1)
             e == RunActions(m, late, again)
             pre == Push(Written(d, n + 1).pre, n + 1)
             got == IF d.roll # None /\ m.roll = None /\ d.main
                    THEN [asked |-> d.asked, got |-> Len(m.file) - d.mark] ELSE rolled
  <2>1. rec' = out.rec /\ captured' = (captured /\ out.caught)
    BY <1>3 DEF Frame
  <2>2. rolled' = got
    BY <1>3 DEF Frame, CanFrame, Passed
  <2>3. /\ out.rec = e
        /\ out.caught = (/\ d.main /\ ~rec.main => EndsWith(m.file, n + 1)
                         /\ e.main /\ ~m.main /\ Recalled(late) => EndsWith(e.file, n + 1))
    BY DEF CanFrame, Passed
  <2>4. m = RollDown([Written(d, n + 1) EXCEPT !.pre = pre])
    BY DEF Filed
  <2>5. Good(m, n + 1) /\ Bounded(m)
    BY InvFacts, FiledKeeps DEF IInv, Frame
  <2>6. d.main /\ ~rec.main => EndsWith(m.file, n + 1)
    BY <1>1, <1>2, FiledEnds
  <2>7. preLimit # 0 => Len(m.pre) # 0
    BY <1>1, <1>2, FiledHolds
  <2> HIDE DEF out, d, pre, m
  <2>8. /\ Counting(m) /\ (Armed(d) => Armed(m))
        /\ d.main /\ d.roll # None /\ m.roll = None =>
              Len(m.file) - d.mark = IF d.asked = 0 THEN 1 ELSE d.asked
    BY <1>1, <1>2, <2>4, CanFrameOwes DEF Owed
  <2>9. Owed(m, e)
    BY <1>2, <2>5, RunActionsOwe
  <2>10. e.main /\ ~m.main /\ Recalled(late) => EndsWith(e.file, n + 1)
    BY <1>2, <2>5, <2>7, LateFileEnds
  <2> HIDE DEF e
  <2>11. Counting(rec') /\ (Armed(rec) => Armed(rec'))
    BY <1>1, <2>1, <2>3, <2>8, <2>9 DEF Owed
  <2>12. RollRunsOut => RollRunsOut'
    BY <2>2, <2>8 DEF RollRunsOut
  <2>13. out.caught = TRUE
    BY <2>3, <2>6, <2>10
  <2>14. captured' = captured
    BY <1>2, <2>1, <2>13
  <2> QED
    BY <2>11, <2>12, <2>14
<1>4. CASE kind # "can"
  <2> DEFINE e == RunActions(d, late, again)
  <2>1. rec' = e /\ rolled' = rolled
    BY <1>4, OtherFrame
  <2>2. "eth" \notin Kinds => captured' = captured
    <3>1. CASE kind = "eth"
      BY <3>1
    <3>2. CASE kind = "fr"
      <4>1. captured' = (captured /\ (d.main /\ ~rec.main => d.recording))
        BY <3>2 DEF Frame, FrFrame, Passed
      <4> HIDE DEF d
      <4> QED
        BY <1>2, <4>1
    <3>3. CASE kind = "hidden"
      <4>1. captured' = (captured /\ TRUE)
        BY <3>3 DEF Frame, HiddenFrame, Passed
      <4> QED
        BY <1>2, <4>1
    <3> QED
      BY <1>4, <3>1, <3>2, <3>3, RecordingAssumption
  <2> HIDE DEF d
  <2>3. Owed(d, e)
    BY <1>1, <1>2, RunActionsOwe
  <2> HIDE DEF e
  <2>4. RollRunsOut => RollRunsOut'
    BY <2>1 DEF RollRunsOut
  <2> QED
    BY <1>1, <2>1, <2>2, <2>3, <2>4 DEF Owed
<1> QED
  BY <1>3, <1>4

\* The other actions: no post-roll ends in them, and none is left running
\* with an open file.
LEMMA OthersOwe ==
    ASSUME IInv, Counting(rec),
           \/ StartReplay \/ Stop \/ Halt
           \/ \E res \in OpenResults : \/ StartVirtual(res) \/ Toggle(res)
                                       \/ \E asks \in Asks : Sweep(asks, res)
           \/ \E limit \in PreLimits : SetRunLimits(limit)
    PROVE  /\ Counting(rec') /\ rolled' = rolled /\ captured' = captured
           /\ ~StartFails /\ ArmedHasFile => ArmedHasFile'
<1>1. rec \in Rec
  BY InvFacts
<1>2. CASE StartReplay
  <2>1. rec' = ResetRun([Close(rec) EXCEPT !.recording = FALSE])
    BY <1>2 DEF StartReplay
  <2>2. ~rec'.main /\ ~rec'.recording
    BY <1>1, <2>1 DEF ResetRun, Close, Rec
  <2> QED
    BY <1>2, <2>2 DEF StartReplay, Counting, ArmedHasFile
<1>3. CASE Stop \/ Halt
  <2>1. rec' = Close(rec) \/ rec' = [Close(rec) EXCEPT !.recording = FALSE]
    BY <1>3 DEF Stop, Halt
  <2>2. ~rec'.main
    BY <1>1, <2>1 DEF Close, Rec
  <2> QED
    BY <1>3, <2>2 DEF Stop, Halt, Counting, ArmedHasFile
<1>4. ASSUME NEW res \in OpenResults, StartVirtual(res)
      PROVE  /\ Counting(rec') /\ rolled' = rolled /\ captured' = captured
             /\ ~StartFails => ArmedHasFile'
  <2> DEFINE g == ResetRun(Close(rec))
  <2>1. rec' = OpenArmed(g, res) /\ (StartFails \/ res = "ok")
    BY <1>4 DEF StartVirtual
  <2>2. g \in Rec /\ g.roll = None /\ ~g.main
    <3>1. << >> \in Seq(Nat)
      BY EmptySeq
    <3> QED
      BY <1>1, <3>1 DEF ResetRun, Close, Rec
  <2> HIDE DEF g
  <2>3. rec'.roll = None /\ (res = "ok" => Armed(rec'))
    <3>1. CASE g.recording
      BY <2>1, <2>2, <3>1 DEF OpenArmed, Open, Rec, Armed
    <3>2. CASE ~g.recording
      BY <2>1, <2>2, <3>2 DEF OpenArmed, Armed
    <3> QED
      BY <3>1, <3>2
  <2> QED
    BY <1>4, <2>1, <2>3 DEF StartVirtual, Counting, Armed, ArmedHasFile
<1>5. ASSUME NEW res \in OpenResults, Toggle(res)
      PROVE  /\ Counting(rec') /\ rolled' = rolled /\ captured' = captured /\ ArmedHasFile'
  <2> DEFINE s == [rec EXCEPT !.roll = None]
  <2>1. s \in Rec /\ s.roll = None /\ s.recording = rec.recording
    BY <1>1 DEF Rec
  <2>2. rec' = IF rec.recording THEN [Close(s) EXCEPT !.recording = FALSE]
               ELSE IF ~measuring THEN [s EXCEPT !.recording = TRUE]
               ELSE [Open(s, res) EXCEPT !.recording = (res = "ok")]
    BY <1>5 DEF Toggle, ToggleRecord
  <2> HIDE DEF s
  <2>3. /\ rec'.roll = None
        /\ measuring => Armed(rec')
    <3>1. CASE rec.recording
      BY <2>1, <2>2, <3>1 DEF Close, Rec, Armed
    <3>2. CASE ~rec.recording /\ ~measuring
      BY <2>1, <2>2, <3>2 DEF Rec
    <3>3. CASE ~rec.recording /\ measuring
      <4>1. rec' = [Open(s, res) EXCEPT !.recording = (res = "ok")]
        BY <2>2, <3>3
      <4>2. /\ rec'.roll = None /\ rec'.recording = (res = "ok")
            /\ res = "ok" => rec'.main
        BY <2>1, <4>1 DEF Open, Rec
      <4> QED
        BY <4>2 DEF Armed
    <3> QED
      BY <3>1, <3>2, <3>3
  <2> QED
    BY <1>5, <2>3 DEF Toggle, Counting, Armed, ArmedHasFile
<1>6. ASSUME NEW res \in OpenResults, NEW asks \in Asks, Sweep(asks, res)
      PROVE  /\ Counting(rec') /\ rolled' = rolled /\ captured' = captured
             /\ ArmedHasFile => ArmedHasFile'
  <2>1. rec' = RunActions(rec, asks, res) /\ measuring
    BY <1>6 DEF Sweep
  <2>2. Owed(rec, rec')
    BY <2>1, InvFacts, RunActionsOwe DEF IInv
  <2> QED
    BY <1>6, <2>1, <2>2 DEF Sweep, Owed, Armed, ArmedHasFile
<1>7. CASE \E limit \in PreLimits : SetRunLimits(limit)
  BY <1>7 DEF SetRunLimits, Counting, ArmedHasFile
<1> QED
  BY <1>2, <1>3, <1>4, <1>5, <1>6, <1>7

LEMMA NextOwes ==
    ASSUME IInv, Counting(rec), [Next]_vars
    PROVE  /\ Counting(rec') /\ (RollRunsOut => RollRunsOut')
           /\ ~StartFails /\ ArmedHasFile => ArmedHasFile'
           /\ "eth" \notin Kinds => (CauseCaptured => CauseCaptured')
<1>1. CASE \/ StartReplay \/ Stop \/ Halt
           \/ \E res \in OpenResults : \/ StartVirtual(res) \/ Toggle(res)
                                       \/ \E asks \in Asks : Sweep(asks, res)
           \/ \E limit \in PreLimits : SetRunLimits(limit)
  BY <1>1, OthersOwe DEF RollRunsOut, CauseCaptured
<1>2. ASSUME NEW kind \in Kinds, NEW asks \in Asks, NEW late \in LateOf(kind),
             NEW res \in ResultsOf(asks), NEW again \in ResultsOf(late),
             Frame(kind, asks, res, late, again)
      PROVE  /\ Counting(rec') /\ (RollRunsOut => RollRunsOut')
             /\ ~StartFails /\ ArmedHasFile => ArmedHasFile'
             /\ "eth" \notin Kinds => (CauseCaptured => CauseCaptured')
  <2>1. measuring /\ measuring' = measuring
    BY <1>2 DEF Frame
  <2>2. res \in OpenResults /\ again \in OpenResults
    BY ResultsAre
  <2> QED
    BY <1>2, <2>1, <2>2, FrameOwes DEF Armed, ArmedHasFile, CauseCaptured
<1>3. CASE UNCHANGED vars
  BY <1>3 DEF vars, Counting, RollRunsOut, ArmedHasFile, CauseCaptured
<1> QED
  BY <1>1, <1>2, <1>3 DEF Next

\* Before the first frame nothing is owed.
LEMMA OwesInit == Init => Counting(rec) /\ RollRunsOut /\ ArmedHasFile /\ CauseCaptured
BY DEF Init, NoRecord, Counting, RollRunsOut, ArmedHasFile, CauseCaptured

\* A post-roll that ran out put exactly the frames asked for into the file,
\* whatever was clicked, restarted, reopened or asked for again meanwhile.
THEOREM RollExact == Spec => []RollRunsOut
<1>1. Init => IInv /\ RollInv
  BY InvInit, OwesInit DEF RollInv
<1>2. IInv /\ RollInv /\ [Next]_vars => IInv' /\ RollInv'
  BY InvNext, NextOwes DEF RollInv
<1>3. RollInv => RollRunsOut
  BY DEF RollInv
<1> QED
  BY <1>1, <1>2, <1>3, PTL DEF Spec

\* Where the file of a starting run can be opened and no rule fires on an
\* Ethernet frame, a recording has its file, the frame that started it and the
\* whole post-roll asked for; of a recording an E2E rule started the frame is
\* claimed only where there is a pre-trigger memory and the rule takes any of it.
THEOREM CauseRecorded == ~StartFails /\ "eth" \notin Kinds /\ Spec => []CauseToRoll
<1>1. CASE ~StartFails /\ "eth" \notin Kinds
  <2> DEFINE Inv == IInv /\ RollInv /\ ArmedHasFile /\ CauseCaptured
  <2>1. Init => Inv
    BY InvInit, OwesInit DEF RollInv
  <2>2. Inv /\ [Next]_vars => Inv'
    BY <1>1, InvNext, NextOwes DEF RollInv
  <2>3. Inv => CauseToRoll
    BY DEF RollInv, CauseToRoll
  <2> HIDE DEF Inv
  <2> QED
    BY <2>1, <2>2, <2>3, PTL DEF Spec
<1> QED
  BY <1>1
-----------------------------------------------------------------------------
(* How a file reaches the disk (LogWriter).                                  *)

\* Where no write of a container or of a header patch fails, and a PCAP file is
\* never cut in the middle of a packet.
CleanWrites == Faults = {} /\ "pcap" \notin Tears

Told == [kind : {"can", "fr", "eth"}, t : 0 .. MaxT, at : Nat]

Pieces == [from : Nat, to : Nat, whole : BOOLEAN]

\* The pieces follow one another without a gap, up to object top at most, and only
\* the last may be cut.
Tiled(d, top) ==
    /\ d \in Seq(Pieces)
    /\ \A k \in 1 .. Len(d) :
         /\ d[k].from = IF k = 1 THEN 1 ELSE d[k - 1].to + 1
         /\ d[k].from <= d[k].to /\ d[k].to <= top
         /\ k < Len(d) => d[k].whole
    /\ \A j, k \in 1 .. Len(d) : j < k => d[j].to < d[k].from

\* The last object that is whole on a disk.
EndOf(d) ==
    IF Len(d) = 0 THEN 0
    ELSE IF d[Len(d)].whole THEN d[Len(d)].to ELSE d[Len(d)].from - 1

Uncut(d) == Len(d) = 0 \/ d[Len(d)].whole

TextInv ==
    /\ header.count = 0
    /\ EndOf(disk) = mark
    /\ Uncut(disk) \/ fmt \in Tears
    /\ phase = "closed" => mark = Len(told)

\* The span of the objects a up to the end of piece k of the disk d.
SpanUpTo(a, d, k) == IF k = 0 THEN 0 ELSE Span(SubSeq(a, 1, d[k].to))

\* The header tells of the containers counted, or, when the process was killed in
\* the patch for the last one, of that one too, perhaps without its time.
BlfHeader ==
    \/ header = [count |-> containers, span |-> SpanUpTo(told, disk, containers), torn |-> FALSE]
    \/ /\ phase = "killed" /\ Len(disk) = containers + 1 /\ disk[Len(disk)].whole
       /\ header.count = Len(disk)
       /\ \/ header.torn
          \/ header.span = SpanUpTo(told, disk, containers)
          \/ header.torn = FALSE /\ header.span = SpanUpTo(told, disk, Len(disk))

BlfInv ==
    /\ ~astray
    /\ containers \in 0 .. Len(disk) /\ Len(disk) <= containers + 1
    /\ phase # "killed" => containers = Len(disk)
    /\ \A k \in 1 .. containers : disk[k].whole
    /\ mark = IF containers = 0 THEN 0 ELSE disk[containers].to
    /\ BlfHeader
    /\ phase = "closed" => mark = Len(told)

\* What is in memory only came after the last container; what was settled and
\* is old enough is on the disk.
Timely ==
    /\ \A i \in 1 .. Len(told) : i > mark => told[i].at >= flushed
    /\ \A i \in 1 .. settled.count :
         fmt # "blf" \/ told[i].at + Interval <= settled.at => i <= mark

WriterTypes ==
    /\ fmt \in Formats /\ phase \in {"open", "closed", "killed"}
    /\ told \in Seq(Told) /\ mark \in 0 .. Len(told)
    /\ now \in Nat /\ flushed \in 0 .. now
    /\ settled \in [count : 0 .. Len(told), at : Nat]

WriterInv ==
    /\ WriterTypes
    /\ Tiled(disk, Len(told))
    /\ fmt # "blf" => TextInv
    /\ fmt = "blf" => BlfInv
    /\ Timely

-----------------------------------------------------------------------------
(* The pieces of a disk.                                                     *)

\* Appending is done at the end.
LEMMA AppendIs ==
    ASSUME NEW S, NEW d \in Seq(S), NEW e \in S
    PROVE  /\ Append(d, e) \in Seq(S)
           /\ Len(d) \in Nat /\ Len(Append(d, e)) = Len(d) + 1
           /\ \A k \in 1 .. Len(d) : Append(d, e)[k] = d[k]
           /\ Append(d, e)[Len(d) + 1] = e
BY AppendProperties, LenProperties

\* A piece in its place.
LEMMA PieceAt ==
    ASSUME NEW d, NEW top \in Nat, Tiled(d, top), NEW k \in 1 .. Len(d)
    PROVE  /\ Len(d) \in Nat /\ k \in Nat
           /\ d[k] \in Pieces /\ d[k].from \in Nat /\ d[k].to \in Nat /\ d[k].whole \in BOOLEAN
           /\ d[k].from <= d[k].to /\ d[k].to <= top /\ d[k].from >= 1
           /\ k < Len(d) => d[k].whole
<1>1. d \in Seq(Pieces) /\ Len(d) \in Nat
  BY LenProperties DEF Tiled
<1>2. ASSUME NEW i \in 1 .. Len(d)
      PROVE  d[i] \in Pieces /\ d[i].from \in Nat /\ d[i].to \in Nat
  <2>1. d[i] \in Pieces
    BY <1>1, ElementOfSeq
  <2> QED
    BY <2>1 DEF Pieces
<1>3. d[k].from = IF k = 1 THEN 1 ELSE d[k - 1].to + 1
  BY DEF Tiled
<1>4. d[k].from >= 1
  <2>1. CASE k = 1
    BY <1>3, <2>1
  <2>2. CASE k # 1
    <3>1. k - 1 \in 1 .. Len(d)
      BY <1>1, <2>2
    <3> QED
      BY <1>2, <1>3, <2>2, <3>1
  <2> QED
    BY <2>1, <2>2
<1>5. d[k].whole \in BOOLEAN
  BY <1>2 DEF Pieces
<1>6. d[k].from <= d[k].to /\ d[k].to <= top /\ (k < Len(d) => d[k].whole)
  BY DEF Tiled
<1> QED
  BY <1>1, <1>2, <1>4, <1>5, <1>6

\* The end of a disk is where the objects end.
LEMMA EndIs ==
    ASSUME NEW d, NEW top \in Nat, Tiled(d, top)
    PROVE  /\ EndOf(d) \in Nat /\ EndOf(d) <= top
           /\ \A k \in 1 .. Len(d) : d[k].whole => d[k].to <= EndOf(d)
<1>1. Len(d) \in Nat
  BY LenProperties DEF Tiled
<1>2. CASE Len(d) = 0
  BY <1>2 DEF EndOf
<1>3. CASE Len(d) # 0
  <2> DEFINE m == Len(d)
  <2>1. m \in 1 .. Len(d)
    BY <1>1, <1>3
  <2>2. /\ d[m].from \in Nat /\ d[m].to \in Nat /\ d[m].from >= 1
        /\ d[m].from <= d[m].to /\ d[m].to <= top
    BY <2>1, PieceAt
  <2>3. EndOf(d) = IF d[m].whole THEN d[m].to ELSE d[m].from - 1
    BY <1>3 DEF EndOf
  <2>4. ASSUME NEW k \in 1 .. Len(d), d[k].whole PROVE d[k].to <= EndOf(d)
    <3>1. d[k].to \in Nat
      BY PieceAt
    <3>2. CASE k = m
      BY <2>2, <2>3, <2>4, <3>2
    <3>3. CASE k # m
      <4>1. k < m
        BY <1>1, <3>3
      <4>2. d[k].to < d[m].from
        BY <2>1, <4>1 DEF Tiled
      <4> QED
        BY <2>2, <2>3, <3>1, <4>2
    <3> QED
      BY <3>2, <3>3
  <2> QED
    BY <2>2, <2>3, <2>4
<1> QED
  BY <1>2, <1>3

\* More objects do no harm.
LEMMA TiledMore ==
    ASSUME NEW d, NEW top \in Nat, NEW m \in Nat, top <= m, Tiled(d, top)
    PROVE  Tiled(d, m)
<1>1. \A k \in 1 .. Len(d) : d[k].to <= m
  <2> TAKE k \in 1 .. Len(d)
  <2>1. d[k].to \in Nat /\ d[k].to <= top
    BY PieceAt
  <2> QED
    BY <2>1
<1> QED
  BY <1>1 DEF Tiled

\* A piece that fits behind the end of a disk with top objects.
Fits(p, d, top) ==
    /\ p \in Pieces /\ Uncut(d)
    /\ p.from = EndOf(d) + 1 /\ EndOf(d) < p.to /\ p.to <= top

\* What is written is a disk again.
WrittenTo(d, p, top) ==
    /\ Tiled(Append(d, p), top)
    /\ Len(Append(d, p)) = Len(d) + 1
    /\ Append(d, p)[Len(d) + 1] = p
    /\ \A k \in 1 .. Len(d) : Append(d, p)[k] = d[k]
    /\ EndOf(Append(d, p)) = IF p.whole THEN p.to ELSE EndOf(d)

LEMMA TiledAppend ==
    ASSUME NEW d, NEW top \in Nat, Tiled(d, top), NEW p, Fits(p, d, top)
    PROVE  WrittenTo(d, p, top)
<1> DEFINE m == Len(d)
           e == Append(d, p)
<1>1. d \in Seq(Pieces) /\ m \in Nat
  BY LenProperties DEF Tiled
<1>2. EndOf(d) \in Nat /\ \A k \in 1 .. Len(d) : d[k].whole => d[k].to <= EndOf(d)
  BY EndIs
<1>3. /\ p \in Pieces /\ p.from = EndOf(d) + 1 /\ EndOf(d) < p.to /\ p.to <= top
      /\ p.to \in Nat /\ p.whole \in BOOLEAN /\ Uncut(d)
  BY DEF Pieces, Fits
<1>4. e \in Seq(Pieces) /\ Len(e) = m + 1 /\ (\A k \in 1 .. m : e[k] = d[k]) /\ e[m + 1] = p
  BY <1>1, <1>3, AppendIs
<1>5. \A k \in 1 .. m : d[k].whole
  <2> TAKE k \in 1 .. m
  <2>1. CASE k = m
    BY <1>1, <1>3, <2>1 DEF Uncut
  <2>2. CASE k # m
    BY <1>1, <2>2, PieceAt
  <2> QED
    BY <2>1, <2>2
<1>6. m # 0 => EndOf(d) = d[m].to
  <2> SUFFICES ASSUME m # 0 PROVE EndOf(d) = d[m].to
    OBVIOUS
  <2>1. m \in 1 .. m
    BY <1>1
  <2> QED
    BY <1>5, <2>1 DEF EndOf
<1>7. m = 0 => EndOf(d) = 0
  BY DEF EndOf
<1> HIDE DEF m, e
<1>8. ASSUME NEW k \in 1 .. Len(e)
      PROVE  /\ e[k].from = IF k = 1 THEN 1 ELSE e[k - 1].to + 1
             /\ e[k].from <= e[k].to /\ e[k].to <= top
             /\ k < Len(e) => e[k].whole
  <2>1. CASE k \in 1 .. m
    <3>1. e[k] = d[k] /\ (k # 1 => e[k - 1] = d[k - 1])
      BY <1>1, <1>4, <2>1
    <3>2. /\ d[k].from = IF k = 1 THEN 1 ELSE d[k - 1].to + 1
          /\ d[k].from <= d[k].to /\ d[k].to <= top
      BY <2>1 DEF Tiled, m
    <3> QED
      BY <1>5, <2>1, <3>1, <3>2
  <2>2. CASE k = m + 1
    <3>1. k # 1 => e[k - 1] = d[m] /\ m # 0
      BY <1>1, <1>4, <2>2
    <3>2. k = 1 => m = 0
      BY <1>1, <2>2
    <3>3. e[k].from = IF k = 1 THEN 1 ELSE e[k - 1].to + 1
      <4>1. CASE k = 1
        BY <1>3, <1>4, <1>7, <2>2, <3>2, <4>1
      <4>2. CASE k # 1
        BY <1>3, <1>4, <1>6, <2>2, <3>1, <4>2
      <4> QED
        BY <4>1, <4>2
    <3>4. e[k].from <= e[k].to /\ e[k].to <= top
      BY <1>2, <1>3, <1>4, <2>2
    <3> QED
      BY <1>1, <1>4, <2>2, <3>3, <3>4
  <2> QED
    BY <1>1, <1>4, <2>1, <2>2
<1>9. ASSUME NEW j \in 1 .. Len(e), NEW k \in 1 .. Len(e), j < k PROVE e[j].to < e[k].from
  <2>1. j \in 1 .. m
    BY <1>1, <1>4, <1>9
  <2>2. CASE k \in 1 .. m
    <3>1. d[j].to < d[k].from
      BY <1>9, <2>1, <2>2 DEF Tiled, m
    <3> QED
      BY <1>4, <2>1, <2>2, <3>1
  <2>3. CASE k = m + 1
    <3>1. d[j].to <= EndOf(d) /\ d[j].to \in Nat
      BY <1>2, <1>5, <2>1, PieceAt DEF m
    <3> QED
      BY <1>2, <1>3, <1>4, <2>1, <2>3, <3>1
  <2> QED
    BY <1>1, <1>4, <2>2, <2>3
<1>10. Tiled(e, top)
  BY <1>4, <1>8, <1>9 DEF Tiled
<1>11. EndOf(e) = IF p.whole THEN p.to ELSE EndOf(d)
  <2>1. Len(e) # 0 /\ e[Len(e)] = p
    BY <1>1, <1>4
  <2>2. EndOf(e) = IF p.whole THEN p.to ELSE p.from - 1
    BY <2>1 DEF EndOf
  <2> QED
    BY <1>2, <1>3, <2>2
<1>12. e[m + 1] = p /\ (\A k \in 1 .. m : e[k] = d[k]) /\ Len(e) = m + 1
  BY <1>4
<1> QED
  BY <1>10, <1>11, <1>12 DEF m, e, WrittenTo

\* What is left without the piece that was cut.
LEMMA TiledUntorn ==
    ASSUME NEW d, NEW top \in Nat, Tiled(d, top)
    PROVE  Tiled(Untorn(d), top) /\ Uncut(Untorn(d)) /\ EndOf(Untorn(d)) = EndOf(d)
<1>1. d \in Seq(Pieces) /\ Len(d) \in Nat
  BY LenProperties DEF Tiled
<1>2. CASE Len(d) = 0 \/ d[Len(d)].whole
  <2>1. Untorn(d) = d
    BY <1>1, <1>2, EmptySeq DEF Untorn
  <2> QED
    BY <1>2, <2>1 DEF Uncut
<1>3. CASE Len(d) # 0 /\ ~d[Len(d)].whole
  <2> DEFINE m == Len(d) - 1
             e == SubSeq(d, 1, m)
  <2>1. d # << >>
    BY <1>3, EmptySeq
  <2>2. Untorn(d) = e
    BY <1>3, <2>1 DEF Untorn
  <2>3. m \in Nat /\ m + 1 = Len(d) /\ m + 1 \in 1 .. Len(d)
    BY <1>1, <1>3
  <2>4. e \in Seq(Pieces) /\ Len(e) = m /\ \A k \in 1 .. m : e[k] = d[k]
    <3>1. \A i \in 1 .. m : d[i] \in Pieces
      BY <1>1, <2>3, ElementOfSeq
    <3>2. e \in Seq(Pieces) /\ Len(e) = (IF 1 <= m THEN m - 1 + 1 ELSE 0)
          /\ \A i \in 1 .. m - 1 + 1 : e[i] = d[1 + i - 1]
      BY <1>1, <2>3, <3>1, SubSeqProperties
    <3> QED
      BY <2>3, <3>2
  <2> HIDE DEF m, e
  <2>5. ASSUME NEW k \in 1 .. Len(e)
        PROVE  /\ e[k].from = IF k = 1 THEN 1 ELSE e[k - 1].to + 1
               /\ e[k].from <= e[k].to /\ e[k].to <= top
               /\ e[k].whole
    <3>1. k \in 1 .. Len(d) /\ k < Len(d)
      BY <2>3, <2>4
    <3>2. e[k] = d[k] /\ (k # 1 => e[k - 1] = d[k - 1])
      BY <2>3, <2>4
    <3>3. /\ d[k].from = IF k = 1 THEN 1 ELSE d[k - 1].to + 1
          /\ d[k].from <= d[k].to /\ d[k].to <= top /\ d[k].whole
      BY <3>1 DEF Tiled
    <3> QED
      BY <3>2, <3>3
  <2>6. ASSUME NEW j \in 1 .. Len(e), NEW k \in 1 .. Len(e), j < k PROVE e[j].to < e[k].from
    <3>1. j \in 1 .. Len(d) /\ k \in 1 .. Len(d) /\ e[j] = d[j] /\ e[k] = d[k]
      BY <2>3, <2>4
    <3> QED
      BY <2>6, <3>1 DEF Tiled
  <2>7. Tiled(e, top)
    BY <2>4, <2>5, <2>6 DEF Tiled
  <2>8. Uncut(e)
    <3>1. CASE m = 0
      BY <2>4, <3>1 DEF Uncut
    <3>2. CASE m # 0
      <4>1. Len(e) \in 1 .. Len(e)
        BY <2>3, <2>4, <3>2
      <4> QED
        BY <2>5, <4>1 DEF Uncut
    <3> QED
      BY <3>1, <3>2
  <2>9. d[m + 1].from = (IF m + 1 = 1 THEN 1 ELSE d[m].to + 1)
    <3>1. d[m + 1].from = IF m + 1 = 1 THEN 1 ELSE d[(m + 1) - 1].to + 1
      BY <2>3 DEF Tiled
    <3>2. (m + 1) - 1 = m
      BY <2>3
    <3> QED
      BY <3>1, <3>2
  <2>10. EndOf(d) = d[m + 1].from - 1
    BY <1>3, <2>3 DEF EndOf
  <2>11. EndOf(e) = EndOf(d)
    <3>1. CASE m = 0
      BY <2>4, <2>9, <2>10, <3>1 DEF EndOf
    <3>2. CASE m # 0
      <4>1. m \in 1 .. Len(d) /\ m \in 1 .. Len(e) /\ e[m] = d[m]
        BY <2>3, <2>4, <3>2
      <4>2. EndOf(e) = d[m].to
        BY <2>4, <2>8, <3>2, <4>1 DEF EndOf, Uncut
      <4>3. d[m].to \in Nat
        BY <4>1, PieceAt
      <4> QED
        BY <2>3, <2>9, <2>10, <3>2, <4>2, <4>3
    <3> QED
      BY <3>1, <3>2
  <2> QED
    BY <2>2, <2>7, <2>8, <2>11
<1> QED
  BY <1>2, <1>3

\* Every set of naturals that is not empty has a least element.
LEMMA LeastNat ==
    ASSUME NEW S \in SUBSET Nat, S # {}
    PROVE  \E m \in S : \A x \in S : m <= x
<1> DEFINE R == {ss \in Nat \X Nat : ss[1] < ss[2]}
<1>1. IsWellFoundedOn(R, Nat)
  BY NatLessThanWellFounded DEF OpToRel
<1>2. \A x, y \in Nat : x < y => <<x, y>> \in R
  OBVIOUS
<1> HIDE DEF R
<1>3. PICK m \in S : \A x \in S : ~(<<x, m>> \in R)
  BY <1>1, WFMin
<1>4. ASSUME NEW x \in S PROVE m <= x
  <2>1. m \in Nat /\ x \in Nat
    OBVIOUS
  <2>2. ~(x < m)
    BY <1>2, <1>3, <2>1
  <2> QED
    BY <2>1, <2>2
<1> QED
  BY <1>4

\* Every object up to the end of a disk lies in a whole piece, and no other.
LEMMA Covered ==
    ASSUME NEW d, NEW top \in Nat, Tiled(d, top), NEW i \in Nat
    PROVE  i \in 1 .. EndOf(d) <=>
             \E k \in 1 .. Len(d) : d[k].whole /\ d[k].from <= i /\ i <= d[k].to
<1>1. Len(d) \in Nat /\ EndOf(d) \in Nat
  BY LenProperties, EndIs DEF Tiled
<1>2. ASSUME NEW k \in 1 .. Len(d), d[k].whole, d[k].from <= i, i <= d[k].to
      PROVE  i \in 1 .. EndOf(d)
  <2>1. d[k].to <= EndOf(d) /\ d[k].from >= 1 /\ d[k].from \in Nat /\ d[k].to \in Nat
    BY <1>2, EndIs, PieceAt
  <2> QED
    BY <1>1, <1>2, <2>1
<1>3. ASSUME i \in 1 .. EndOf(d)
      PROVE  \E k \in 1 .. Len(d) : d[k].whole /\ d[k].from <= i /\ i <= d[k].to
  <2> DEFINE m == Len(d)
             S == {k \in 1 .. m : i <= d[k].to}
  <2>1. m # 0
    BY <1>1, <1>3 DEF EndOf
  <2>2. m \in 1 .. Len(d)
    BY <1>1, <2>1
  <2>3. /\ d[m].from \in Nat /\ d[m].to \in Nat /\ d[m].from <= d[m].to
        /\ EndOf(d) = IF d[m].whole THEN d[m].to ELSE d[m].from - 1
    BY <2>1, <2>2, PieceAt DEF EndOf
  <2>4. m \in S
    BY <1>1, <1>3, <2>2, <2>3
  <2>5. S \in SUBSET Nat
    BY <1>1
  <2> HIDE DEF S
  <2>6. PICK k \in S : \A j \in S : k <= j
    BY <2>4, <2>5, LeastNat
  <2>7. k \in 1 .. Len(d) /\ i <= d[k].to
    BY <2>6 DEF S
  <2>8. d[k].from <= i
    <3>1. CASE k = 1
      <4>1. d[k].from = 1
        BY <2>7, <3>1 DEF Tiled
      <4> QED
        BY <1>1, <1>3, <4>1
    <3>2. CASE k # 1
      <4>1. k - 1 \in 1 .. Len(d) /\ k - 1 < k
        BY <1>1, <2>7, <3>2
      <4>2. k - 1 \notin S
        BY <2>5, <2>6, <4>1
      <4>3. ~(i <= d[k - 1].to)
        BY <4>1, <4>2 DEF S
      <4>4. d[k].from = d[k - 1].to + 1 /\ d[k - 1].to \in Nat
        BY <2>7, <3>2, <4>1, PieceAt DEF Tiled
      <4> QED
        BY <1>1, <1>3, <4>3, <4>4
    <3> QED
      BY <3>1, <3>2
  <2>9. d[k].whole
    <3>1. CASE k = m
      <4>1. ~d[m].whole => i <= d[m].from - 1
        BY <1>1, <1>3, <2>3
      <4> QED
        BY <1>1, <2>3, <2>8, <3>1, <4>1
    <3>2. CASE k # m
      BY <1>1, <2>7, <3>2, PieceAt
    <3> QED
      BY <3>1, <3>2
  <2> QED
    BY <2>7, <2>8, <2>9
<1> QED
  BY <1>2, <1>3

\* Nothing before the last piece is cut, so a BLF reader comes to all of them.
LEMMA AllReached ==
    ASSUME NEW top \in Nat, Tiled(disk, top)
    PROVE  Reached = {k \in DOMAIN disk : disk[k].whole}
<1> DEFINE entered[k \in 0 .. Len(disk)] ==
             k = 0 \/ k = 1 \/ ~(entered[k - 1] /\ ~disk[k - 1].whole)
           next(f, k) == k = 0 \/ k = 1 \/ ~(f[k - 1] /\ ~disk[k - 1].whole)
           all == [k \in 0 .. Len(disk) |-> TRUE]
<1>1. disk \in Seq(Pieces) /\ Len(disk) \in Nat /\ DOMAIN disk = 1 .. Len(disk)
  BY LenProperties DEF Tiled
<1>2. \A f : \A k \in 0 .. Len(disk) : next(f, k) = TRUE
  <2> TAKE f
  <2> TAKE k \in 0 .. Len(disk)
  <2>1. CASE k = 0 \/ k = 1
    BY <2>1
  <2>2. CASE ~(k = 0 \/ k = 1)
    <3>1. k - 1 \in 1 .. Len(disk) /\ k - 1 < Len(disk)
      BY <1>1, <2>2
    <3>2. disk[k - 1].whole
      BY <3>1, PieceAt
    <3> QED
      BY <3>2
  <2> QED
    BY <2>1, <2>2
<1>3. \A f : [k \in 0 .. Len(disk) |-> next(f, k)] = all
  BY <1>2, Zenon
<1>4. entered = CHOOSE f : f = [k \in 0 .. Len(disk) |-> next(f, k)]
  BY Zenon DEF entered
<1>5. entered = all
  BY <1>3, <1>4, Zenon
<1>6. \A k \in DOMAIN disk : entered[k]
  <2> HIDE DEF entered, next
  <2> TAKE k \in DOMAIN disk
  <2>1. k \in 0 .. Len(disk)
    BY <1>1
  <2>2. all[k] = TRUE
    BY <2>1
  <2> QED
    BY <1>5, <2>2
<1>7. Reached = {k \in DOMAIN disk : entered[k] /\ disk[k].whole}
  BY Zenon DEF Reached
<1> HIDE DEF entered
<1> QED
  BY <1>6, <1>7

\* The objects that can be read back are those up to the end of the disk.
LEMMA ReadableIs ==
    ASSUME NEW top \in Nat, Tiled(disk, top), fmt = "pcap" => Uncut(disk)
    PROVE  Readable = 1 .. EndOf(disk)
<1> DEFINE ks == {j \in DOMAIN disk : disk[j].whole}
<1>1. disk \in Seq(Pieces) /\ Len(disk) \in Nat /\ DOMAIN disk = 1 .. Len(disk)
  BY LenProperties DEF Tiled
<1>2. Readable = UNION {disk[k].from .. disk[k].to : k \in ks}
  <2>1. ~(fmt = "pcap" /\ disk # <<>> /\ ~disk[Len(disk)].whole)
    BY <1>1, EmptySeq DEF Uncut
  <2>2. Reached = ks
    BY AllReached
  <2> QED
    BY <2>1, <2>2 DEF Readable
<1>3. EndOf(disk) \in Nat
  BY EndIs
<1>4. ASSUME NEW i \in Readable PROVE i \in 1 .. EndOf(disk)
  <2>1. PICK k \in ks : i \in disk[k].from .. disk[k].to
    BY <1>2
  <2>2. k \in 1 .. Len(disk) /\ disk[k].whole /\ disk[k].from \in Nat /\ disk[k].to \in Nat
    BY <1>1, <2>1, PieceAt
  <2>3. i \in Nat /\ disk[k].from <= i /\ i <= disk[k].to
    BY <2>1, <2>2
  <2> QED
    BY <2>2, <2>3, Covered
<1>5. ASSUME NEW i \in 1 .. EndOf(disk) PROVE i \in Readable
  <2>1. i \in Nat
    BY <1>3
  <2>2. PICK k \in 1 .. Len(disk) : disk[k].whole /\ disk[k].from <= i /\ i <= disk[k].to
    BY <2>1, Covered
  <2>3. disk[k].from \in Nat /\ disk[k].to \in Nat
    BY PieceAt
  <2>4. i \in disk[k].from .. disk[k].to /\ k \in ks
    BY <1>1, <2>1, <2>2, <2>3
  <2> QED
    BY <1>2, <2>4
<1> QED
  BY <1>4, <1>5

\* The first objects of a sequence.
LEMMA SubSeqIs ==
    ASSUME NEW S, NEW a \in Seq(S), NEW m \in Nat, m <= Len(a)
    PROVE  DOMAIN SubSeq(a, 1, m) = 1 .. m /\ \A i \in 1 .. m : SubSeq(a, 1, m)[i] = a[i]
<1>1. Len(a) \in Nat
  BY LenProperties
<1>2. \A i \in 1 .. m : a[i] \in S
  BY <1>1, ElementOfSeq
<1>3. /\ SubSeq(a, 1, m) \in Seq(S)
      /\ Len(SubSeq(a, 1, m)) = (IF 1 <= m THEN m - 1 + 1 ELSE 0)
      /\ \A i \in 1 .. m - 1 + 1 : SubSeq(a, 1, m)[i] = a[1 + i - 1]
  BY <1>2, SubSeqProperties
<1> QED
  BY <1>3, LenProperties

\* The span told in the header is that of the stamps.
LEMMA SpanByStamps ==
    ASSUME NEW a \in Seq(Told), NEW b \in Seq(Told), NEW m \in Nat, m <= Len(a), m <= Len(b),
           \A i \in 1 .. m : b[i].t = a[i].t
    PROVE  Span(SubSeq(b, 1, m)) = Span(SubSeq(a, 1, m))
<1> DEFINE x == SubSeq(a, 1, m)
           y == SubSeq(b, 1, m)
<1>1. DOMAIN x = 1 .. m /\ \A i \in 1 .. m : x[i] = a[i]
  BY SubSeqIs
<1>2. DOMAIN y = 1 .. m /\ \A i \in 1 .. m : y[i] = b[i]
  BY SubSeqIs
<1> HIDE DEF x, y
<1>3. {x[i].t : i \in DOMAIN x} = {y[i].t : i \in DOMAIN y}
  BY <1>1, <1>2
<1>4. Span(x) = Span(y)
  BY <1>3 DEF Span
<1> QED
  BY <1>4 DEF x, y

\* Piece k and the stamps up to its end are the same.
SameUpTo(a, d, b, e, k) ==
    k # 0 => /\ e[k] = d[k] /\ d[k].to \in Nat /\ d[k].to <= Len(a) /\ d[k].to <= Len(b)
             /\ \A i \in 1 .. d[k].to : b[i].t = a[i].t

\* The span stays when other objects follow.
LEMMA SpanStays ==
    ASSUME NEW a \in Seq(Told), NEW b \in Seq(Told), NEW d, NEW e, NEW k \in Nat,
           SameUpTo(a, d, b, e, k)
    PROVE  SpanUpTo(b, e, k) = SpanUpTo(a, d, k)
<1>1. CASE k = 0
  BY <1>1 DEF SpanUpTo
<1>2. CASE k # 0
  <2>1. PICK m \in Nat : m = d[k].to
    BY <1>2 DEF SameUpTo
  <2>2. Span(SubSeq(b, 1, m)) = Span(SubSeq(a, 1, m))
    BY <1>2, <2>1, SpanByStamps DEF SameUpTo
  <2> QED
    BY <1>2, <2>1, <2>2 DEF SpanUpTo, SameUpTo
<1> QED
  BY <1>1, <1>2

\* When the last piece ends where the objects do, it is the span of them all.
LEMMA SpanAll ==
    ASSUME NEW a \in Seq(Told), NEW d, NEW k \in Nat, Len(a) = IF k = 0 THEN 0 ELSE d[k].to
    PROVE  SpanUpTo(a, d, k) = Span(a)
<1>1. CASE k = 0
  <2>1. DOMAIN a = {}
    BY <1>1, LenProperties
  <2>2. {a[i].t : i \in DOMAIN a} = {}
    BY <2>1
  <2>3. Span(a) = 0
    BY <2>2 DEF Span, SpanOf
  <2> QED
    BY <1>1, <2>3 DEF SpanUpTo
<1>2. CASE k # 0
  <2>1. SubSeq(a, 1, Len(a)) = a
    BY SubSeqFull
  <2> QED
    BY <1>2, <2>1 DEF SpanUpTo
<1> QED
  BY <1>1, <1>2

\* While a BLF file is written, all its containers are whole and counted.
LEMMA BlfEnd ==
    ASSUME WriterInv, fmt = "blf", phase # "killed"
    PROVE  Uncut(disk) /\ EndOf(disk) = mark
<1>1. Len(disk) \in Nat /\ containers = Len(disk)
  BY LenProperties DEF WriterInv, BlfInv, Tiled
<1>2. mark = IF Len(disk) = 0 THEN 0 ELSE disk[Len(disk)].to
  BY <1>1 DEF WriterInv, BlfInv
<1>3. Len(disk) # 0 => disk[Len(disk)].whole
  <2> SUFFICES ASSUME Len(disk) # 0 PROVE disk[Len(disk)].whole
    OBVIOUS
  <2>1. Len(disk) \in 1 .. containers
    BY <1>1
  <2> QED
    BY <2>1 DEF WriterInv, BlfInv
<1> QED
  BY <1>2, <1>3 DEF Uncut, EndOf

\* A container lands behind those there are.
LEMMA LandedAt ==
    ASSUME NEW whole \in BOOLEAN, WriterInv, fmt = "blf", phase = "open",
           told' \in Seq(Told), Len(told) <= Len(told'), mark < Len(told'), Landed(whole)
    PROVE  /\ Tiled(disk', Len(told')) /\ Len(disk') = Len(disk) + 1
           /\ disk'[Len(disk) + 1].to = Len(told') /\ disk'[Len(disk) + 1].whole = whole
           /\ \A k \in 1 .. Len(disk) : disk'[k] = disk[k]
<1> DEFINE p == Piece(mark + 1, Len(told'), whole)
<1>1. /\ Len(told) \in Nat /\ Len(told') \in Nat /\ mark \in 0 .. Len(told)
      /\ Tiled(disk, Len(told)) /\ BlfInv
  BY LenProperties DEF WriterInv, WriterTypes
<1>2. p \in Pieces /\ p.from = mark + 1 /\ p.to = Len(told') /\ p.whole = whole
  BY <1>1 DEF Piece, Pieces
<1>3. disk' = Append(disk, p)
  BY <1>1 DEF Landed, BlfInv
<1> HIDE DEF p
<1>4. Tiled(disk, Len(told'))
  BY <1>1, TiledMore
<1>5. Uncut(disk) /\ EndOf(disk) = mark
  BY BlfEnd
<1>6. Fits(p, disk, Len(told'))
  BY <1>1, <1>2, <1>5 DEF Fits
<1>7. WrittenTo(disk, p, Len(told'))
  BY <1>1, <1>4, <1>6, TiledAppend
<1> QED
  BY <1>2, <1>3, <1>7 DEF WrittenTo

\* A container is written, or what was told is in the file already.
LEMMA Flushed ==
    ASSUME CleanWrites, WriterInv, fmt = "blf", fmt' = fmt, phase = "open",
           phase' \in {"open", "closed"}, told' \in Seq(Told), Len(told) <= Len(told'),
           \A i \in 1 .. Len(told) : told'[i] = told[i], FlushContainer \/ Finish
    PROVE  /\ Tiled(disk', Len(told')) /\ BlfInv' /\ mark' = Len(told')
           /\ flushed' \in {flushed, now}
<1>1. /\ Len(told) \in Nat /\ Len(told') \in Nat /\ Len(disk) \in Nat
      /\ mark \in 0 .. Len(told) /\ told \in Seq(Told) /\ Tiled(disk, Len(told)) /\ BlfInv
  BY LenProperties DEF WriterInv, WriterTypes, Tiled
<1>2. ~astray /\ containers = Len(disk) /\ \A k \in 1 .. containers : disk[k].whole
  BY <1>1 DEF BlfInv
<1>3. /\ mark' = Len(told') /\ flushed' \in {flushed, now}
      /\ \/ mark = Len(told') /\ disk' = disk /\ containers' = containers
         \/ mark < Len(told') /\ Landed(TRUE) /\ containers' = containers + 1
  <2>1. "container" \notin Faults
    BY DEF CleanWrites
  <2>2. WriteContainer
    BY Zenon DEF FlushContainer, Finish
  <2> QED
    BY <2>1, <2>2, Zenon DEF WriteContainer
<1>4. PICK c \in Nat : c = containers'
  <2>1. containers' = containers \/ containers' = containers + 1
    BY <1>3, Zenon
  <2> QED
    BY <1>1, <1>2, <2>1
<1>5. /\ Tiled(disk', Len(told')) /\ c = Len(disk')
      /\ \A k \in 1 .. c : disk'[k].whole
      /\ Len(told') = IF c = 0 THEN 0 ELSE disk'[c].to
  <2>1. CASE mark = Len(told')
    <3>1. ~(mark < Len(told'))
      BY <1>1, <2>1
    <3>2. disk' = disk /\ containers' = containers
      BY <1>3, <3>1, Zenon
    <3>3. Tiled(disk, Len(told'))
      BY <1>1, TiledMore
    <3> QED
      BY <1>1, <1>2, <1>4, <2>1, <3>2, <3>3 DEF BlfInv
  <2>2. CASE mark # Len(told')
    <3>1. mark < Len(told') /\ Landed(TRUE) /\ containers' = containers + 1
      BY <1>3, <2>2, Zenon
    <3>2. /\ Tiled(disk', Len(told')) /\ Len(disk') = Len(disk) + 1
          /\ disk'[Len(disk) + 1].to = Len(told') /\ disk'[Len(disk) + 1].whole = TRUE
          /\ \A k \in 1 .. Len(disk) : disk'[k] = disk[k]
      BY <1>1, <3>1, LandedAt
    <3>3. c = Len(disk) + 1 /\ c # 0
      BY <1>1, <1>2, <1>4, <3>1
    <3>4. \A k \in 1 .. c : disk'[k].whole
      <4> TAKE k \in 1 .. c
      <4>1. CASE k \in 1 .. Len(disk)
        BY <1>2, <3>2, <4>1
      <4>2. CASE k = Len(disk) + 1
        BY <3>2, <4>2
      <4> QED
        BY <1>1, <3>3, <4>1, <4>2
    <3> QED
      BY <3>2, <3>3, <3>4
  <2> QED
    BY <2>1, <2>2
<1>6. /\ astray' = FALSE
      /\ \/ header' = header /\ disk' = disk /\ containers' = containers /\ mark = Len(told')
         \/ header' = Patched(containers')
  <2>1. CASE containers' = containers /\ FlushContainer
    <3>1. containers + 1 # containers
      BY <1>1, <1>2
    <3>2. mark = Len(told') /\ disk' = disk
      BY <1>3, <2>1, <3>1, Zenon
    <3> QED
      BY <1>2, <1>3, <2>1, <3>2 DEF FlushContainer
  <2>2. CASE PatchHeader
    BY <2>2 DEF PatchHeader, CleanWrites
  <2> QED
    BY <2>1, <2>2, Zenon DEF FlushContainer, Finish
<1>7. header' = [count |-> c, span |-> SpanUpTo(told', disk', c), torn |-> FALSE]
  <2>1. CASE header' = header /\ disk' = disk /\ containers' = containers /\ mark = Len(told')
    <3>1. header = [count |-> c, span |-> SpanUpTo(told, disk, c), torn |-> FALSE]
      BY <1>1, <1>4, <2>1 DEF BlfInv, BlfHeader
    <3>2. SameUpTo(told, disk, told', disk', c)
      <4> SUFFICES ASSUME c # 0
                   PROVE  /\ disk'[c] = disk[c] /\ disk[c].to \in Nat
                          /\ disk[c].to <= Len(told) /\ disk[c].to <= Len(told')
                          /\ \A i \in 1 .. disk[c].to : told'[i].t = told[i].t
        BY DEF SameUpTo
      <4>1. disk[c].to = mark
        BY <1>5, <2>1
      <4> QED
        BY <1>1, <2>1, <4>1
    <3>3. SpanUpTo(told', disk', c) = SpanUpTo(told, disk, c)
      <4>1. told' \in Seq(Told) /\ told \in Seq(Told) /\ c \in Nat
        BY <1>1
      <4> QED
        BY ONLY <3>2, <4>1, SpanStays
    <3> QED
      BY <2>1, <3>1, <3>3
  <2>2. CASE header' = Patched(containers')
    <3>1. SpanUpTo(told', disk', c) = Span(told')
      BY <1>5, SpanAll
    <3> QED
      BY <1>4, <2>2, <3>1 DEF Patched
  <2> QED
    BY <1>6, <2>1, <2>2
<1>8. BlfInv'
  BY <1>1, <1>3, <1>4, <1>5, <1>6, <1>7 DEF BlfInv, BlfHeader
<1> QED
  BY <1>3, <1>5, <1>8

\* A text file is drained up to object upto, and perhaps a part of the next.
LEMMA DrainedTo ==
    ASSUME NEW upto \in Nat, NEW torn \in BOOLEAN, NEW top \in Nat, NEW low \in Nat, low <= top,
           Tiled(disk, low), EndOf(disk) = mark, mark \in Nat, mark <= upto, upto <= top,
           torn => upto < top, torn => fmt \in Tears, Drained(upto, torn)
    PROVE  /\ Tiled(disk', top) /\ EndOf(disk') = upto /\ mark' = upto
           /\ Uncut(disk') \/ fmt \in Tears
           /\ header' = header /\ flushed' = flushed
<1> DEFINE d == Untorn(disk)
           e == IF upto > mark THEN Append(d, Piece(mark + 1, upto, TRUE)) ELSE d
<1>1. Tiled(d, top) /\ Uncut(d) /\ EndOf(d) = mark
  <2>1. Tiled(disk, top)
    BY TiledMore
  <2> QED
    BY <2>1, TiledUntorn
<1>2. disk' = IF torn THEN Append(e, Piece(upto + 1, upto + 1, FALSE)) ELSE e
  BY DEF Drained
<1> HIDE DEF d
<1>3. Tiled(e, top) /\ Uncut(e) /\ EndOf(e) = upto
  <2>1. CASE upto > mark
    <3> DEFINE p == Piece(mark + 1, upto, TRUE)
    <3>1. p \in Pieces /\ p.from = mark + 1 /\ p.to = upto /\ p.whole
      BY DEF Piece, Pieces
    <3>2. e = Append(d, p)
      BY <2>1
    <3> HIDE DEF p, e
    <3>3. Fits(p, d, top)
      BY <1>1, <2>1, <3>1 DEF Fits
    <3>4. WrittenTo(d, p, top)
      BY <1>1, <3>3, TiledAppend
    <3> QED
      BY <3>1, <3>2, <3>4 DEF Uncut, WrittenTo
  <2>2. CASE ~(upto > mark)
    BY <1>1, <2>2
  <2> QED
    BY <2>1, <2>2
<1> HIDE DEF e
<1>4. CASE torn
  <2> DEFINE p == Piece(upto + 1, upto + 1, FALSE)
  <2>1. p \in Pieces /\ p.from = upto + 1 /\ p.to = upto + 1 /\ ~p.whole
    BY DEF Piece, Pieces
  <2>2. disk' = Append(e, p)
    BY <1>2, <1>4
  <2> HIDE DEF p
  <2>3. Fits(p, e, top)
    BY <1>3, <1>4, <2>1 DEF Fits
  <2>4. WrittenTo(e, p, top)
    BY <1>3, <2>3, TiledAppend
  <2>5. Tiled(disk', top) /\ EndOf(disk') = EndOf(e)
    BY <2>1, <2>2, <2>4 DEF WrittenTo
  <2> QED
    BY <1>3, <1>4, <2>5 DEF Drained
<1>5. CASE ~torn
  BY <1>2, <1>3, <1>5 DEF Drained
<1> QED
  BY <1>4, <1>5

-----------------------------------------------------------------------------
(* The steps of a writer.                                                    *)

\* The objects told so far stay, and those that come are not older than the
\* last container.
Extends ==
    /\ told' \in Seq(Told) /\ Len(told) <= Len(told')
    /\ \A i \in 1 .. Len(told) : told'[i] = told[i]
    /\ \A i \in 1 .. Len(told') : i > Len(told) => told'[i].at >= flushed

LEMMA StaysTimely ==
    ASSUME WriterInv, Extends, fmt' = fmt, settled' = settled,
           mark' \in Nat, mark <= mark', flushed' = flushed \/ mark' = Len(told')
    PROVE  Timely'
<1>1. /\ Len(told) \in Nat /\ Len(told') \in Nat /\ mark \in 0 .. Len(told)
      /\ settled.count \in 0 .. Len(told) /\ Timely
  BY LenProperties DEF WriterInv, WriterTypes, Extends
<1>2. ASSUME NEW i \in 1 .. Len(told'), i > mark' PROVE told'[i].at >= flushed'
  <2>1. mark' # Len(told')
    BY <1>1, <1>2
  <2>2. CASE i \in 1 .. Len(told)
    <3>1. i > mark
      BY <1>1, <1>2
    <3> QED
      BY <1>1, <2>1, <2>2, <3>1 DEF Timely, Extends
  <2>3. CASE i > Len(told)
    BY <2>1, <2>3 DEF Extends
  <2> QED
    BY <1>1, <2>2, <2>3
<1>3. ASSUME NEW i \in 1 .. settled.count, fmt # "blf" \/ told'[i].at + Interval <= settled.at
      PROVE  i <= mark'
  <2>1. i \in 1 .. Len(told)
    BY <1>1
  <2>2. told'[i] = told[i]
    BY <2>1 DEF Extends
  <2>3. i <= mark
    BY <1>1, <1>3, <2>2 DEF Timely
  <2> QED
    BY <1>1, <2>1, <2>3
<1> QED
  BY <1>2, <1>3 DEF Timely

LEMMA InitWriter == WriterInit => WriterInv
<1> SUFFICES ASSUME WriterInit PROVE WriterInv
  OBVIOUS
<1>1. Len(told) = 0 /\ Len(disk) = 0 /\ told \in Seq(Told) /\ disk \in Seq(Pieces)
  BY EmptySeq DEF WriterInit
<1>2. WriterTypes
  BY <1>1 DEF WriterInit, WriterTypes
<1>3. Tiled(disk, Len(told))
  BY <1>1 DEF Tiled
<1>4. TextInv /\ BlfInv /\ Timely
  BY <1>1 DEF WriterInit, TextInv, BlfInv, BlfHeader, SpanUpTo, Timely, EndOf, Uncut
<1> QED
  BY <1>2, <1>3, <1>4 DEF WriterInv

\* An object handed over is as old as the clock.
LEMMA HandedExtends ==
    ASSUME WriterInv, NEW kind \in {"can", "fr", "eth"}, NEW t \in 0 .. MaxT, Handed(kind, t)
    PROVE  Extends /\ Len(told') = Len(told) + 1
<1> DEFINE o == [kind |-> kind, t |-> t, at |-> now]
<1>1. Len(told) \in Nat /\ told \in Seq(Told) /\ now \in Nat /\ flushed \in 0 .. now
  BY LenProperties DEF WriterInv, WriterTypes
<1>2. o \in Told /\ o.at = now
  BY <1>1 DEF Told
<1>3. told' = Append(told, o)
  BY DEF Handed
<1> HIDE DEF o
<1>4. /\ told' \in Seq(Told) /\ Len(told') = Len(told) + 1
      /\ \A i \in 1 .. Len(told) : told'[i] = told[i]
      /\ told'[Len(told) + 1] = o
  BY <1>1, <1>2, <1>3, AppendIs
<1>5. ASSUME NEW i \in 1 .. Len(told'), i > Len(told) PROVE told'[i].at >= flushed
  <2>1. i = Len(told) + 1
    BY <1>1, <1>4, <1>5
  <2> QED
    BY <1>1, <1>2, <1>4, <2>1
<1> QED
  BY <1>1, <1>4, <1>5 DEF Extends

\* What is on the disk is a writer's as long as nothing is written.
LEMMA UntouchedKeeps ==
    ASSUME WriterInv, Extends, UNCHANGED mediumVars, UNCHANGED <<fmt, now, settled>>,
           phase = "open", phase' \in {"open", "killed"}
    PROVE  WriterInv'
<1>1. /\ WriterTypes /\ Tiled(disk, Len(told)) /\ Len(disk) \in Nat
      /\ fmt # "blf" => TextInv
      /\ fmt = "blf" => BlfInv
      /\ Len(told) \in Nat /\ Len(told') \in Nat /\ told \in Seq(Told) /\ told' \in Seq(Told)
      /\ Len(told) <= Len(told') /\ mark \in 0 .. Len(told)
  BY LenProperties DEF WriterInv, WriterTypes, Extends, Tiled
<1>2. /\ mark' = mark /\ disk' = disk /\ header' = header /\ containers' = containers
      /\ astray' = astray /\ flushed' = flushed /\ fmt' = fmt /\ now' = now /\ settled' = settled
  BY DEF mediumVars
<1>3. WriterTypes'
  BY <1>1, <1>2 DEF WriterTypes
<1>4. Tiled(disk', Len(told'))
  BY <1>1, <1>2, TiledMore
<1>5. fmt' # "blf" => TextInv'
  BY <1>1, <1>2 DEF TextInv, EndOf, Uncut
<1>6. fmt' = "blf" => BlfInv'
  <2> SUFFICES ASSUME fmt = "blf" PROVE BlfInv'
    BY <1>2
  <2>1. BlfInv /\ containers = Len(disk)
    BY <1>1 DEF BlfInv
  <2>2. PICK c \in Nat : c = containers
    BY <1>1, <2>1
  <2>3. header = [count |-> c, span |-> SpanUpTo(told, disk, c), torn |-> FALSE]
    BY <2>1, <2>2 DEF BlfInv, BlfHeader
  <2>4. SameUpTo(told, disk, told', disk', c)
    <3> SUFFICES ASSUME c # 0
                 PROVE  /\ disk'[c] = disk[c] /\ disk[c].to \in Nat
                        /\ disk[c].to <= Len(told) /\ disk[c].to <= Len(told')
                        /\ \A i \in 1 .. disk[c].to : told'[i].t = told[i].t
      BY DEF SameUpTo
    <3>1. disk[c].to = mark
      BY <2>1, <2>2 DEF BlfInv
    <3> QED
      BY <1>1, <1>2, <3>1 DEF Extends
  <2>5. SpanUpTo(told', disk', c) = SpanUpTo(told, disk, c)
    <3>1. told' \in Seq(Told) /\ told \in Seq(Told) /\ c \in Nat
      BY <1>1
    <3> QED
      BY ONLY <2>4, <3>1, SpanStays
  <2>6. header' = [count |-> c, span |-> SpanUpTo(told', disk', c), torn |-> FALSE]
    BY <1>2, <2>3, <2>5
  <2> QED
    BY <1>2, <2>1, <2>2, <2>6 DEF BlfInv, BlfHeader
<1>7. Timely'
  BY <1>1, <1>2, StaysTimely
<1> QED
  BY <1>3, <1>4, <1>5, <1>6, <1>7 DEF WriterInv

LEMMA WriteKeeps ==
    ASSUME CleanWrites, WriterInv, NEW kind \in {"can", "fr", "eth"}, NEW t \in 0 .. MaxT,
           Write(kind, t)
    PROVE  WriterInv'
<1>1. /\ WriterTypes /\ Tiled(disk, Len(told)) /\ phase = "open"
      /\ fmt # "blf" => TextInv
      /\ Len(told) \in Nat /\ told \in Seq(Told) /\ now \in Nat /\ mark \in 0 .. Len(told)
      /\ UNCHANGED <<fmt, phase, now, settled>> /\ Handed(kind, t)
  BY LenProperties DEF WriterInv, WriterTypes, Write
<1>2. Extends /\ Len(told') = Len(told) + 1
  BY <1>1, HandedExtends
<1>3. /\ told' \in Seq(Told) /\ Len(told) <= Len(told')
      /\ \A i \in 1 .. Len(told) : told'[i] = told[i]
  BY <1>2 DEF Extends
<1>4. CASE UNCHANGED mediumVars
  <2>1. phase' \in {"open", "killed"}
    BY <1>1
  <2> QED
    BY <1>1, <1>2, <1>4, <2>1, UntouchedKeeps
<1>5. CASE fmt = "blf" /\ FlushContainer
  <2>1. phase' \in {"open", "closed"} /\ fmt' = fmt
    BY <1>1
  <2>2. /\ Tiled(disk', Len(told')) /\ BlfInv' /\ mark' = Len(told')
        /\ flushed' \in {flushed, now}
    BY <1>1, <1>3, <1>5, <2>1, Flushed
  <2>3. WriterTypes'
    BY <1>1, <1>2, <1>3, <2>2 DEF WriterTypes
  <2>4. Timely'
    BY <1>1, <1>2, <2>2, StaysTimely
  <2> QED
    BY <1>1, <1>5, <2>2, <2>3, <2>4 DEF WriterInv
<1>6. CASE fmt # "blf" /\ \E torn \in {FALSE} \cup {fmt \in Tears} : Drained(Len(told), torn)
  <2>1. PICK torn \in {FALSE} \cup {fmt \in Tears} : Drained(Len(told), torn)
    BY <1>6
  <2>2. torn \in BOOLEAN /\ (torn => fmt \in Tears)
    BY <2>1
  <2>3. /\ EndOf(disk) = mark /\ mark \in Nat /\ mark <= Len(told) /\ Len(told) <= Len(told')
        /\ Len(told') \in Nat /\ (torn => Len(told) < Len(told'))
    BY <1>1, <1>2, <1>6 DEF TextInv
  <2>4. /\ Tiled(disk', Len(told')) /\ EndOf(disk') = Len(told) /\ mark' = Len(told)
        /\ Uncut(disk') \/ fmt \in Tears
        /\ header' = header /\ flushed' = flushed
    BY <1>1, <2>1, <2>2, <2>3, DrainedTo
  <2>5. WriterTypes'
    BY <1>1, <1>2, <1>3, <2>4 DEF WriterTypes
  <2>6. TextInv'
    BY <1>1, <1>6, <2>4 DEF TextInv, EndOf, Uncut
  <2>7. Timely'
    BY <1>1, <1>2, <2>3, <2>4, StaysTimely
  <2> QED
    BY <1>1, <1>6, <2>4, <2>5, <2>6, <2>7 DEF WriterInv
<1> QED
  BY <1>4, <1>5, <1>6 DEF Write

LEMMA FlushKeeps ==
    ASSUME CleanWrites, WriterInv, Flush
    PROVE  WriterInv'
<1>1. /\ WriterTypes /\ Tiled(disk, Len(told)) /\ Timely /\ phase = "open"
      /\ fmt # "blf" => TextInv
      /\ fmt = "blf" => BlfInv
      /\ Len(told) \in Nat /\ told \in Seq(Told) /\ now \in Nat /\ mark \in 0 .. Len(told)
      /\ flushed \in 0 .. now
  BY LenProperties DEF WriterInv, WriterTypes, Flush
<1>2. UNCHANGED <<fmt, phase, told, now>> /\ settled' = [count |-> Len(told), at |-> now]
  BY DEF Flush
<1>3. settled'.count = Len(told) /\ settled'.at = now
  BY <1>2
<1>4. ASSUME mark' = Len(told), flushed' \in {flushed, now}
      PROVE  WriterTypes' /\ Timely'
  BY <1>1, <1>2, <1>3, <1>4 DEF WriterTypes, Timely
<1>5. CASE fmt # "blf"
  <2>1. Drained(Len(told), FALSE) /\ TextInv
    BY <1>1, <1>5 DEF Flush
  <2>2. EndOf(disk) = mark /\ mark \in Nat /\ mark <= Len(told) /\ Len(told) <= Len(told)
    BY <1>1, <2>1 DEF TextInv
  <2>3. /\ Tiled(disk', Len(told)) /\ EndOf(disk') = Len(told) /\ mark' = Len(told)
        /\ Uncut(disk') \/ fmt \in Tears
        /\ header' = header /\ flushed' = flushed
    BY <1>1, <2>1, <2>2, DrainedTo
  <2>4. TextInv'
    BY <1>1, <1>2, <2>1, <2>3 DEF TextInv, EndOf, Uncut
  <2> QED
    BY <1>2, <1>4, <1>5, <2>3, <2>4 DEF WriterInv
<1>6. CASE fmt = "blf" /\ ContainerDue
  <2>1. FlushContainer
    BY <1>6 DEF Flush
  <2>2. /\ Tiled(disk', Len(told')) /\ BlfInv' /\ mark' = Len(told')
        /\ flushed' \in {flushed, now}
    BY <1>1, <1>2, <1>6, <2>1, Flushed
  <2> QED
    BY <1>2, <1>4, <1>6, <2>2 DEF WriterInv
<1>7. CASE fmt = "blf" /\ ~ContainerDue
  <2>1. UNCHANGED <<mark, disk, header, containers, astray, flushed>>
    BY <1>7 DEF Flush, mediumVars
  <2>2. ASSUME NEW i \in 1 .. Len(told), told[i].at + Interval <= now PROVE i <= mark
    <3>1. told[i].at \in Nat
      <4>1. told[i] \in Told
        BY <1>1, ElementOfSeq
      <4> QED
        BY <4>1 DEF Told
    <3>2. ~(told[i].at >= flushed)
      BY <1>1, <1>7, <2>2, <3>1, WriterAssumption DEF ContainerDue
    <3>3. ~(i > mark)
      BY <1>1, <3>2 DEF Timely
    <3> QED
      BY <1>1, <3>3
  <2>3. WriterTypes' /\ Timely'
    BY <1>1, <1>2, <1>3, <1>7, <2>1, <2>2 DEF WriterTypes, Timely
  <2>4. BlfInv' /\ Tiled(disk', Len(told'))
    BY <1>1, <1>2, <1>7, <2>1 DEF BlfInv, BlfHeader
  <2> QED
    BY <1>2, <1>7, <2>3, <2>4 DEF WriterInv
<1> QED
  BY <1>5, <1>6, <1>7

LEMMA CloseFileKeeps ==
    ASSUME CleanWrites, WriterInv, CloseFile
    PROVE  WriterInv'
<1>1. /\ WriterTypes /\ Tiled(disk, Len(told)) /\ Timely /\ phase = "open"
      /\ fmt # "blf" => TextInv
      /\ fmt = "blf" => BlfInv
      /\ Len(told) \in Nat /\ told \in Seq(Told) /\ now \in Nat /\ mark \in 0 .. Len(told)
      /\ flushed \in 0 .. now
  BY LenProperties DEF WriterInv, WriterTypes, CloseFile
<1>2. UNCHANGED <<fmt, told, now, settled>> /\ phase' = "closed"
  BY DEF CloseFile
<1>3. Extends
  BY <1>1, <1>2 DEF Extends
<1>4. ASSUME mark' = Len(told), flushed' \in {flushed, now}
      PROVE  WriterTypes' /\ Timely'
  <2>1. WriterTypes'
    BY <1>1, <1>2, <1>4 DEF WriterTypes
  <2>2. mark' \in Nat /\ mark <= mark' /\ mark' = Len(told')
    BY <1>1, <1>2, <1>4
  <2> QED
    BY <1>2, <1>3, <2>1, <2>2, StaysTimely
<1>5. CASE fmt # "blf"
  <2>1. Drained(Len(told), FALSE) /\ TextInv
    BY <1>1, <1>5 DEF CloseFile
  <2>2. EndOf(disk) = mark /\ mark \in Nat /\ mark <= Len(told) /\ Len(told) <= Len(told)
    BY <1>1, <2>1 DEF TextInv
  <2>3. /\ Tiled(disk', Len(told)) /\ EndOf(disk') = Len(told) /\ mark' = Len(told)
        /\ Uncut(disk') \/ fmt \in Tears
        /\ header' = header /\ flushed' = flushed
    BY <1>1, <2>1, <2>2, DrainedTo
  <2>4. TextInv'
    BY <1>1, <1>2, <2>1, <2>3 DEF TextInv, EndOf, Uncut
  <2> QED
    BY <1>2, <1>4, <1>5, <2>3, <2>4 DEF WriterInv
<1>6. CASE fmt = "blf"
  <2>1. FlushContainer \/ Finish
    BY <1>6 DEF CloseFile
  <2>2. /\ Tiled(disk', Len(told')) /\ BlfInv' /\ mark' = Len(told')
        /\ flushed' \in {flushed, now}
    BY <1>1, <1>2, <1>6, <2>1, Flushed
  <2> QED
    BY <1>2, <1>4, <1>6, <2>2 DEF WriterInv
<1> QED
  BY <1>5, <1>6

\* A kill in a container, or in the patch after it.
LEMMA KilledInContainer ==
    ASSUME WriterInv, Extends, NEW whole \in BOOLEAN, fmt = "blf", phase = "open", phase' = "killed",
           mark < Len(told'), UNCHANGED <<mark, containers, astray, flushed>>, Landed(whole),
           header' = header \/ (whole /\ header' \in Patching(containers + 1))
    PROVE  Tiled(disk', Len(told')) /\ BlfInv'
<1>1. /\ Len(told) \in Nat /\ Len(told') \in Nat /\ told \in Seq(Told) /\ told' \in Seq(Told)
      /\ mark \in 0 .. Len(told) /\ BlfInv /\ Len(disk) \in Nat /\ Len(told) <= Len(told')
  BY LenProperties DEF WriterInv, WriterTypes, Extends, Tiled
<1>2. PICK c \in Nat : c = containers /\ c = Len(disk)
  BY <1>1 DEF BlfInv
<1>3. /\ Tiled(disk', Len(told')) /\ Len(disk') = c + 1
      /\ disk'[c + 1].to = Len(told') /\ disk'[c + 1].whole = whole
      /\ \A k \in 1 .. c : disk'[k] = disk[k]
  BY <1>1, <1>2, LandedAt
<1>4. SpanUpTo(told', disk', c) = SpanUpTo(told, disk, c)
  <2>1. SameUpTo(told, disk, told', disk', c)
    <3> SUFFICES ASSUME c # 0
                 PROVE  /\ disk'[c] = disk[c] /\ disk[c].to \in Nat
                        /\ disk[c].to <= Len(told) /\ disk[c].to <= Len(told')
                        /\ \A i \in 1 .. disk[c].to : told'[i].t = told[i].t
      BY DEF SameUpTo
    <3>1. disk[c].to = mark
      BY <1>1, <1>2 DEF BlfInv
    <3>2. disk'[c] = disk[c] /\ mark \in Nat /\ mark <= Len(told) /\ mark <= Len(told')
      BY <1>1, <1>3
    <3>3. \A i \in 1 .. mark : told'[i].t = told[i].t
      <4> TAKE i \in 1 .. mark
      <4>1. i \in 1 .. Len(told)
        BY <1>1, <3>2
      <4> QED
        BY <4>1 DEF Extends
    <3> QED
      BY <3>1, <3>2, <3>3
  <2>2. told' \in Seq(Told) /\ told \in Seq(Told) /\ c \in Nat
    BY <1>1
  <2> QED
    BY ONLY <2>1, <2>2, SpanStays
<1>5. SpanUpTo(told', disk', c + 1) = Span(told')
  <2>1. c + 1 \in Nat /\ c + 1 # 0
    OBVIOUS
  <2> QED
    BY <1>1, <1>3, <2>1, SpanAll
<1>6. header = [count |-> c, span |-> SpanUpTo(told', disk', c), torn |-> FALSE]
  BY <1>1, <1>2, <1>4 DEF BlfInv, BlfHeader
<1>7. BlfHeader'
  <2>1. CASE header' = header \/ (whole /\ header' = [header EXCEPT !.count = c + 1])
    BY <1>2, <1>3, <1>6, <2>1 DEF BlfHeader
  <2>2. CASE whole /\ header' = [header EXCEPT !.count = c + 1, !.torn = TRUE]
    BY <1>2, <1>3, <1>6, <2>2 DEF BlfHeader
  <2>3. CASE whole /\ header' = Patched(c + 1)
    <3>1. header'.count = c + 1 /\ header'.span = Span(told') /\ header'.torn = FALSE
      BY <2>3 DEF Patched
    <3> QED
      BY <1>2, <1>3, <1>5, <2>3, <3>1 DEF BlfHeader
  <2> QED
    BY <1>2, <2>1, <2>2, <2>3 DEF Patching
<1>8. BlfInv'
  <2>1. /\ c \in 0 .. Len(disk') /\ Len(disk') <= c + 1 /\ c = containers'
        /\ \A k \in 1 .. c : disk'[k].whole
    BY <1>1, <1>2, <1>3 DEF BlfInv
  <2>2. mark' = IF c = 0 THEN 0 ELSE disk'[c].to
    BY <1>1, <1>2, <1>3 DEF BlfInv
  <2> QED
    BY <1>1, <1>7, <2>1, <2>2 DEF BlfInv
<1> QED
  BY <1>3, <1>8

LEMMA KillKeeps ==
    ASSUME CleanWrites, WriterInv, Kill
    PROVE  WriterInv'
<1>1. /\ WriterTypes /\ Tiled(disk, Len(told)) /\ phase = "open"
      /\ fmt # "blf" => TextInv
      /\ Len(told) \in Nat /\ told \in Seq(Told) /\ now \in Nat /\ mark \in 0 .. Len(told)
      /\ UNCHANGED <<fmt, now, settled>> /\ phase' = "killed"
  BY LenProperties DEF WriterInv, WriterTypes, Kill
<1>2. Extends
  <2>1. CASE told' = told
    BY <1>1, <2>1 DEF Extends
  <2>2. CASE \E kind \in {"can", "fr", "eth"}, t \in 0 .. MaxT : Handed(kind, t)
    BY <2>2, HandedExtends
  <2> QED
    BY <2>1, <2>2 DEF Kill
<1>3. /\ told' \in Seq(Told) /\ Len(told') \in Nat /\ Len(told) <= Len(told')
  BY <1>2, LenProperties DEF Extends
<1>4. ASSUME mark' \in mark .. Len(told'), flushed' = flushed
      PROVE  WriterTypes' /\ Timely'
  <2>1. WriterTypes'
    BY <1>1, <1>3, <1>4 DEF WriterTypes
  <2>2. mark' \in Nat /\ mark <= mark'
    BY <1>1, <1>3, <1>4
  <2> QED
    BY <1>1, <1>2, <1>4, <2>1, <2>2, StaysTimely
<1>5. CASE UNCHANGED mediumVars
  <2>1. phase' \in {"open", "killed"}
    BY <1>1
  <2> QED
    BY <1>1, <1>2, <1>5, <2>1, UntouchedKeeps
<1>6. CASE /\ fmt = "blf" /\ mark < Len(told') /\ UNCHANGED <<mark, containers, astray, flushed>>
           /\ \/ Landed(FALSE) /\ UNCHANGED header
              \/ Landed(TRUE) /\ header' \in Patching(containers + 1)
  <2>1. PICK whole \in BOOLEAN : /\ Landed(whole)
                                 /\ header' = header \/ (whole /\ header' \in Patching(containers + 1))
    BY <1>6, Zenon
  <2>2. Tiled(disk', Len(told')) /\ BlfInv'
    BY <1>1, <1>2, <1>6, <2>1, KilledInContainer
  <2>3. WriterTypes' /\ Timely'
    BY <1>1, <1>3, <1>4, <1>6
  <2> QED
    BY <1>1, <1>6, <2>2, <2>3 DEF WriterInv
<1>7. CASE /\ fmt # "blf"
           /\ \E upto \in mark .. Len(told'), torn \in {FALSE} \cup {fmt \in Tears} :
                (torn => upto < Len(told')) /\ Drained(upto, torn)
  <2>1. PICK upto \in mark .. Len(told'), torn \in {FALSE} \cup {fmt \in Tears} :
           (torn => upto < Len(told')) /\ Drained(upto, torn)
    BY <1>7
  <2>2. torn \in BOOLEAN /\ (torn => fmt \in Tears)
    BY <2>1
  <2>3. /\ EndOf(disk) = mark /\ mark \in Nat /\ upto \in Nat /\ mark <= upto /\ upto <= Len(told')
        /\ (torn => upto < Len(told')) /\ TextInv
    BY <1>1, <1>3, <1>7, <2>1 DEF TextInv
  <2>4. /\ Tiled(disk', Len(told')) /\ EndOf(disk') = upto /\ mark' = upto
        /\ Uncut(disk') \/ fmt \in Tears
        /\ header' = header /\ flushed' = flushed
    BY <1>1, <1>3, <2>1, <2>2, <2>3, DrainedTo
  <2>5. WriterTypes' /\ Timely'
    BY <1>1, <1>4, <2>1, <2>4
  <2>6. TextInv'
    BY <1>1, <2>3, <2>4 DEF TextInv, EndOf, Uncut
  <2> QED
    BY <1>1, <1>7, <2>4, <2>5, <2>6 DEF WriterInv
<1> QED
  BY <1>5, <1>6, <1>7 DEF Kill

LEMMA TickKeeps ==
    ASSUME WriterInv, Tick
    PROVE  WriterInv'
<1>1. /\ UNCHANGED <<fmt, phase, told, mark, disk, header, containers, astray, flushed, settled>>
      /\ now' = now + 1
      /\ WriterTypes /\ Timely /\ Tiled(disk, Len(told))
      /\ fmt # "blf" => TextInv
      /\ fmt = "blf" => BlfInv
  BY DEF Tick, WriterInv, mediumVars
<1>2. WriterTypes' /\ Timely'
  BY <1>1 DEF WriterTypes, Timely
<1>3. (fmt' # "blf" => TextInv') /\ (fmt' = "blf" => BlfInv')
  BY <1>1 DEF TextInv, BlfInv, BlfHeader, EndOf, Uncut
<1> QED
  BY <1>1, <1>2, <1>3 DEF WriterInv

LEMMA GoneKeeps ==
    ASSUME WriterInv, WriterGone
    PROVE  WriterInv'
<1>1. /\ WriterTypes /\ Tiled(disk, Len(told)) /\ Timely /\ phase # "open"
      /\ fmt # "blf" => TextInv
      /\ fmt = "blf" => BlfInv
      /\ Len(told) \in Nat /\ told \in Seq(Told) /\ mark \in 0 .. Len(told)
      /\ DOMAIN told = 1 .. Len(told)
  BY LenProperties DEF WriterInv, WriterTypes, WriterGone
<1>2. /\ now' = 0 /\ flushed' = 0 /\ settled'.count = 0 /\ settled'.at = 0
      /\ settled' = [count |-> 0, at |-> 0]
      /\ told' = [i \in 1 .. Len(told) |-> [told[i] EXCEPT !.at = 0]]
      /\ UNCHANGED <<fmt, phase, mark, disk, header, containers, astray>>
  BY <1>1 DEF WriterGone
<1>3. ASSUME NEW i \in 1 .. Len(told)
      PROVE  told'[i] \in Told /\ told'[i].t = told[i].t /\ told'[i].at = 0
  <2>1. told[i] \in Told /\ told'[i] = [told[i] EXCEPT !.at = 0]
    BY <1>1, <1>2, ElementOfSeq
  <2> QED
    BY <2>1 DEF Told
<1>4. told' \in Seq(Told) /\ Len(told') = Len(told)
  <2>1. told' \in [1 .. Len(told) -> Told]
    BY <1>2, <1>3
  <2> QED
    BY <1>1, <2>1, SeqDef, LenProperties
<1>5. WriterTypes' /\ Timely'
  <2>1. WriterTypes'
    BY <1>1, <1>2, <1>4 DEF WriterTypes
  <2>2. Timely'
    BY <1>2, <1>3, <1>4 DEF Timely
  <2> QED
    BY <2>1, <2>2
<1>6. fmt' # "blf" => TextInv'
  BY <1>1, <1>2, <1>4 DEF TextInv, EndOf, Uncut
<1>7. fmt' = "blf" => BlfInv'
  <2> SUFFICES ASSUME fmt = "blf" PROVE BlfInv'
    BY <1>2
  <2>1. BlfInv /\ Len(disk) \in Nat
    BY <1>1, LenProperties DEF Tiled
  <2>2. ASSUME NEW k \in 0 .. Len(disk)
        PROVE  SpanUpTo(told', disk', k) = SpanUpTo(told, disk, k)
    <3>1. SameUpTo(told, disk, told', disk', k)
      <4> SUFFICES ASSUME k # 0
                   PROVE  /\ disk'[k] = disk[k] /\ disk[k].to \in Nat
                          /\ disk[k].to <= Len(told) /\ disk[k].to <= Len(told')
                          /\ \A i \in 1 .. disk[k].to : told'[i].t = told[i].t
        BY DEF SameUpTo
      <4>1. disk[k].to \in Nat /\ disk[k].to <= Len(told)
        BY <1>1, <2>1, PieceAt
      <4> QED
        BY <1>1, <1>2, <1>3, <1>4, <4>1
    <3>2. told' \in Seq(Told) /\ told \in Seq(Told) /\ k \in Nat
      BY <1>1, <1>4, <2>1
    <3> QED
      BY ONLY <3>1, <3>2, SpanStays
  <2>3. containers \in 0 .. Len(disk) /\ Len(disk) \in 0 .. Len(disk)
    BY <2>1 DEF BlfInv
  <2>4. /\ SpanUpTo(told', disk', containers) = SpanUpTo(told, disk, containers)
        /\ SpanUpTo(told', disk', Len(disk)) = SpanUpTo(told, disk, Len(disk))
    BY <2>2, <2>3
  <2>5. BlfHeader'
    BY <1>2, <2>1, <2>4 DEF BlfInv, BlfHeader
  <2> QED
    BY <1>1, <1>2, <1>4, <2>1, <2>5 DEF BlfInv
<1> QED
  BY <1>1, <1>2, <1>4, <1>5, <1>6, <1>7 DEF WriterInv

LEMMA WriterNextKeeps ==
    ASSUME CleanWrites, WriterInv, [WriterNext \/ WriterGone]_writerVars
    PROVE  WriterInv'
<1>1. CASE \E kind \in {"can", "fr", "eth"}, t \in 0 .. MaxT : Write(kind, t)
  BY <1>1, WriteKeeps
<1>2. CASE Flush
  BY <1>2, FlushKeeps
<1>3. CASE CloseFile
  BY <1>3, CloseFileKeeps
<1>4. CASE Kill
  BY <1>4, KillKeeps
<1>5. CASE Tick
  BY <1>5, TickKeeps
<1>6. CASE WriterGone
  BY <1>6, GoneKeeps
<1>7. CASE UNCHANGED writerVars
  BY <1>7 DEF writerVars, mediumVars, WriterInv, WriterTypes, Tiled, TextInv, BlfInv, BlfHeader,
              Timely, EndOf, Uncut
<1> QED
  BY <1>1, <1>2, <1>3, <1>4, <1>5, <1>6, <1>7 DEF WriterNext

\* What the invariant means for the disk.
LEMMA WriterHonest ==
    ASSUME CleanWrites, WriterInv
    PROVE  DiskHonest
<1>1. /\ WriterTypes /\ Tiled(disk, Len(told)) /\ Timely
      /\ fmt # "blf" => TextInv
      /\ fmt = "blf" => BlfInv
      /\ Len(told) \in Nat /\ told \in Seq(Told) /\ mark \in 0 .. Len(told)
      /\ DOMAIN told = 1 .. Len(told) /\ DOMAIN disk = 1 .. Len(disk) /\ Len(disk) \in Nat
      /\ settled.count \in 0 .. Len(told)
  BY LenProperties DEF WriterInv, WriterTypes, Tiled
<1>2. fmt = "pcap" => Uncut(disk)
  BY <1>1 DEF TextInv, CleanWrites
<1>3. Readable = 1 .. EndOf(disk)
  BY <1>1, <1>2, ReadableIs
<1>4. EndOf(disk) \in Nat /\ EndOf(disk) <= Len(told)
  BY <1>1, EndIs
<1>5. mark <= EndOf(disk)
  <2>1. CASE fmt # "blf"
    <3>1. TextInv
      BY <1>1, <2>1
    <3>2. EndOf(disk) = mark
      BY <3>1 DEF TextInv
    <3> QED
      BY <1>4, <3>2
  <2>2. CASE fmt = "blf"
    <3> DEFINE c == containers
    <3>1. c \in 0 .. Len(disk) /\ \A k \in 1 .. c : disk[k].whole
      BY <1>1, <2>2 DEF BlfInv
    <3>2. CASE c = 0
      BY <1>1, <1>4, <2>2, <3>2 DEF BlfInv
    <3>3. CASE c # 0
      <4>1. c \in 1 .. Len(disk) /\ disk[c].whole
        BY <1>1, <3>1, <3>3
      <4>2. disk[c].to <= EndOf(disk)
        BY <1>1, <4>1, EndIs
      <4> QED
        BY <1>1, <2>2, <3>3, <4>2 DEF BlfInv
    <3> QED
      BY <3>2, <3>3
  <2> QED
    BY <2>1, <2>2
<1>6. SurvivesAKill
  <2>1. ASSUME NEW i \in 1 .. settled.count,
               fmt # "blf" \/ told[i].at + Interval <= settled.at
        PROVE  i \in Readable
    <3>1. i <= mark
      BY <1>1, <2>1 DEF Timely
    <3> QED
      BY <1>1, <1>3, <1>4, <1>5, <3>1
  <2>2. phase = "closed" => Readable = DOMAIN told
    <3> SUFFICES ASSUME phase = "closed" PROVE EndOf(disk) = Len(told)
      BY <1>1, <1>3
    <3>1. mark = Len(told)
      BY <1>1 DEF TextInv, BlfInv
    <3> QED
      BY <1>1, <1>4, <1>5, <3>1
  <2>3. \A i \in Readable : \A j \in 1 .. i : j \in Readable
    BY <1>3, <1>4
  <2> QED
    BY <2>1, <2>2, <2>3 DEF SurvivesAKill
<1>7. HeaderHonest
  <2> SUFFICES ASSUME fmt = "blf"
               PROVE  /\ Len(disk) <= header.count + 1
                      /\ \A k \in 1 .. header.count : disk[k].whole
                      /\ \/ ~header.torn /\ header.span = SpanTo(header.count)
                         \/ /\ phase = "killed" /\ header.count = Len(disk)
                            /\ header.torn \/ header.span = SpanTo(header.count - 1)
                      /\ phase # "killed" => header.count = Len(disk)
    BY DEF HeaderHonest
  <2>1. BlfInv /\ containers \in Nat
    <3>1. BlfInv
      BY <1>1
    <3>2. containers \in 0 .. Len(disk)
      BY <3>1 DEF BlfInv
    <3> QED
      BY <1>1, <3>1, <3>2
  <2>2. ASSUME NEW k PROVE SpanTo(k) = SpanUpTo(told, disk, k)
    BY DEF SpanTo, SpanUpTo
  <2>3. CASE header = [count |-> containers, span |-> SpanUpTo(told, disk, containers), torn |-> FALSE]
    <3>1. /\ header.count = containers /\ header.torn = FALSE
          /\ header.span = SpanUpTo(told, disk, containers)
      BY <2>3
    <3>2. header.span = SpanTo(header.count)
      BY <2>2, <3>1
    <3> QED
      BY <2>1, <3>1, <3>2 DEF BlfInv
  <2>4. CASE /\ phase = "killed" /\ Len(disk) = containers + 1 /\ disk[Len(disk)].whole
             /\ header.count = Len(disk)
             /\ \/ header.torn
                \/ header.span = SpanUpTo(told, disk, containers)
                \/ header.torn = FALSE /\ header.span = SpanUpTo(told, disk, Len(disk))
    <3>1. /\ SpanTo(header.count) = SpanUpTo(told, disk, Len(disk))
          /\ SpanTo(header.count - 1) = SpanUpTo(told, disk, containers)
      <4>1. header.count - 1 = containers
        BY <1>1, <2>1, <2>4
      <4> QED
        BY <2>2, <2>4, <4>1
    <3>2. \A k \in 1 .. header.count : disk[k].whole
      <4> TAKE k \in 1 .. header.count
      <4>1. k \in 1 .. containers \/ k = Len(disk)
        BY <1>1, <2>1, <2>4
      <4> QED
        BY <2>1, <2>4, <4>1 DEF BlfInv
    <3>3. \/ ~header.torn /\ header.span = SpanTo(header.count)
          \/ header.torn \/ header.span = SpanTo(header.count - 1)
      BY <2>4, <3>1
    <3> QED
      BY <1>1, <2>1, <2>4, <3>2, <3>3
  <2> QED
    BY <2>1, <2>3, <2>4 DEF BlfInv, BlfHeader
<1>8. WriterTypeOK
  <2>1. \A k \in DOMAIN disk : disk[k].from <= disk[k].to /\ disk[k].to <= Len(told)
    BY <1>1 DEF Tiled
  <2>2. header.count <= Len(disk)
    <3>1. CASE fmt # "blf"
      <4>1. header.count = 0
        BY <1>1, <3>1 DEF TextInv
      <4> QED
        BY <1>1, <4>1
    <3>2. CASE fmt = "blf"
      <4>1. BlfInv
        BY <1>1, <3>2
      <4>2. containers \in 0 .. Len(disk) /\ BlfHeader
        BY <4>1 DEF BlfInv
      <4>3. header.count = containers \/ header.count = Len(disk)
        BY <4>2 DEF BlfHeader
      <4> QED
        BY <1>1, <4>2, <4>3
    <3> QED
      BY <3>1, <3>2
  <2>3. flushed <= now /\ phase \in {"open", "closed", "killed"}
    BY <1>1 DEF WriterTypes
  <2> QED
    BY <1>1, <2>1, <2>2, <2>3 DEF WriterTypeOK
<1> QED
  BY <1>6, <1>7, <1>8 DEF DiskHonest

\* However a recording ends, what a step left on the disk can be read back, an
\* interval later for a BLF file, without a hole, and the BLF header tells of the
\* containers that are there (Recorder::flush, flush_container, patch_header).  A
\* kill may fall anywhere: in a container, or between the parts of the patch, where
\* the header counts the last container but has the time of those before it, or a
\* torn one.  For every number of objects, size of a container and order of stamps,
\* unless a write of a container or a patch fails, or a kill cuts a packet of a
\* PCAP file.
THEOREM RecordingSurvives == CleanWrites /\ WriterSpec => []DiskHonest
<1>1. CASE CleanWrites
  <2>1. WriterInv /\ [WriterNext \/ WriterGone]_writerVars => WriterInv'
    BY <1>1, WriterNextKeeps
  <2>2. WriterInv => DiskHonest
    BY <1>1, WriterHonest
  <2> QED
    BY <2>1, <2>2, InitWriter, PTL DEF WriterSpec
<1>2. CASE ~CleanWrites
  BY <1>2
<1> QED
  BY <1>1, <1>2

-----------------------------------------------------------------------------
(* What an object is after any trips through log files (LogCodec).           *)

\* The objects that survive: payloads of the lengths a DLC can tell, frame names
\* that do not look like numbers, one VLAN tag at most and without a priority, and
\* no untagged Ethernet frame through a BLF file.
PlainObjects ==
    /\ Lengths \subseteq {Dlc2Len(c) : c \in 0 .. 15}
    /\ "hex" \notin Names
    /\ Prios \subseteq {0} /\ MaxTags <= 1
    /\ ~UntaggedBlf

LogFormats == {"blf", "asc", "pcap"}

(* CAN frames.                                                               *)

\* A length a DLC can tell has one DLC.
LEMMA DlcOf ==
    ASSUME NEW c \in 0 .. 15
    PROVE  Dlc2Len(c) \in 0 .. 64 /\ Len2Dlc(Dlc2Len(c)) = c
<1>1. \A a, b \in 0 .. 15 : a < b => Dlc2Len(a) < Dlc2Len(b)
  BY DEF Dlc2Len
<1>2. \A a \in 0 .. 15 : Dlc2Len(a) \in 0 .. 64
  BY DEF Dlc2Len
<1> DEFINE fits(a) == /\ Dlc2Len(a) >= Dlc2Len(c)
                      /\ \A less \in 0 .. a - 1 : Dlc2Len(less) < Dlc2Len(c)
<1>3. fits(c)
  <2>1. \A less \in 0 .. c - 1 : less \in 0 .. 15 /\ less < c
    OBVIOUS
  <2>2. \A less \in 0 .. c - 1 : Dlc2Len(less) < Dlc2Len(c)
    BY <1>1, <2>1
  <2>3. Dlc2Len(c) >= Dlc2Len(c)
    BY <1>2
  <2> QED
    BY <2>2, <2>3
<1>4. ASSUME NEW a \in 0 .. 15, fits(a) PROVE a = c
  <2>1. ~(a < c)
    <3>1. a < c => Dlc2Len(a) < Dlc2Len(c)
      BY <1>1
    <3>2. Dlc2Len(a) \in Int /\ Dlc2Len(c) \in Int /\ Dlc2Len(a) >= Dlc2Len(c)
      BY <1>2, <1>4
    <3> HIDE DEF fits
    <3> QED
      BY ONLY <3>1, <3>2
  <2>2. CASE c < a
    <3>1. c \in 0 .. a - 1
      BY <2>2
    <3>2. Dlc2Len(c) < Dlc2Len(c)
      BY <1>4, <3>1
    <3> QED
      BY <1>2, <3>2
  <2> QED
    BY <2>1, <2>2
<1>5. Len2Dlc(Dlc2Len(c)) = CHOOSE a \in 0 .. 15 : fits(a)
  BY DEF Len2Dlc
<1> HIDE DEF fits
<1> QED
  BY <1>2, <1>3, <1>4, <1>5

CanFields == {"kind", "class", "channel", "ext", "len", "bytes", "dir", "brs", "esi"}
CanPlain(o) ==
    /\ DOMAIN o = CanFields
    /\ o.kind = "can" /\ o.class \in {"data", "remote", "fd", "error"} /\ o.channel \in Nat
    /\ o.ext \in BOOLEAN /\ o.brs \in BOOLEAN /\ o.esi \in BOOLEAN /\ o.dir \in {"Rx", "Tx"}
    /\ \E c \in 0 .. 15 : o.len = Dlc2Len(c)
    /\ o.class \in {"data", "remote"} => o.len <= 8
    /\ o.class = "error" => o.len = 0 /\ o.ext = FALSE
    /\ o.class # "fd" => o.brs = FALSE /\ o.esi = FALSE
    /\ o.bytes = IF o.class \in {"remote", "error"} THEN 0 ELSE o.len

\* All of a frame but its direction.
CanLike(x, o) ==
    /\ DOMAIN x = CanFields /\ x.kind = "can" /\ x.dir \in {"Rx", "Tx"}
    /\ x.class = o.class /\ x.channel = o.channel /\ x.ext = o.ext /\ x.len = o.len
    /\ x.bytes = o.bytes /\ x.brs = o.brs /\ x.esi = o.esi

\* What a frame is, so is a frame that is the same.
LEMMA CanLikeIsPlain ==
    ASSUME NEW o, NEW x, CanPlain(o), CanLike(x, o)
    PROVE  CanPlain(x)
BY DEF CanPlain, CanLike

LEMMA CanLength ==
    ASSUME NEW o, CanPlain(o)
    PROVE  o.len \in 0 .. 64 /\ Dlc2Len(Len2Dlc(o.len)) = o.len
<1>1. PICK c \in 0 .. 15 : o.len = Dlc2Len(c)
  BY DEF CanPlain
<1> QED
  BY <1>1, DlcOf

LEMMA CanThroughBlf ==
    ASSUME NEW o, CanPlain(o)
    PROVE  LET x == CanFromBlf(CanToBlf(o))
           IN  CanLike(x, o) /\ (o.class # "error" => x.dir = o.dir)
<1> DEFINE r == CanToBlf(o)
           x == CanFromBlf(r)
<1> SUFFICES CanLike(x, o) /\ (o.class # "error" => x.dir = o.dir)
  OBVIOUS
<1>1. o.len \in 0 .. 64
  BY CanLength
<1>0. (o.channel + 1) - 1 = o.channel /\ o.dir \in {"Rx", "Tx"}
  BY DEF CanPlain
<1>2. DOMAIN x = CanFields /\ x.kind = "can"
  BY DEF CanFromBlf, CanFields
<1>3. CASE o.class = "error"
  <2>1. r.obj = "error" /\ r.channel = o.channel + 1
    BY <1>3 DEF CanToBlf
  <2> HIDE DEF r
  <2>6. o.len = 0 /\ o.bytes = 0 /\ o.ext = FALSE /\ o.brs = FALSE /\ o.esi = FALSE
    BY <1>3 DEF CanPlain
  <2>2. x.class = "error" /\ x.channel = r.channel - 1 /\ x.len = 0 /\ x.bytes = 0 /\ x.dir = "Rx"
    BY <2>1 DEF CanFromBlf
  <2>3. x.ext = FALSE
    BY <2>1 DEF CanFromBlf
  <2>4. x.brs = FALSE
    BY <2>1 DEF CanFromBlf
  <2>5. x.esi = FALSE
    BY <2>1 DEF CanFromBlf
  <2> HIDE DEF x
  <2> QED
    BY <1>0, <1>2, <1>3, <2>1, <2>2, <2>3, <2>4, <2>5, <2>6 DEF CanLike
<1>4. CASE o.class = "fd"
  <2>1. /\ r.obj = "fd64" /\ r.channel = o.channel + 1 /\ r.valid = o.len /\ r.bytes = o.bytes
        /\ r.ext = o.ext /\ r.dir = o.dir /\ r.brs = o.brs /\ r.esi = o.esi
    BY <1>4 DEF CanToBlf
  <2>2. o.bytes = o.len /\ o.brs \in BOOLEAN /\ o.esi \in BOOLEAN /\ o.channel \in Nat
    BY <1>4 DEF CanPlain
  <2> HIDE DEF r
  <2>3. x.class = "fd" /\ x.channel = r.channel - 1 /\ x.len = o.len /\ x.dir = r.dir
    BY <1>1, <2>1 DEF CanFromBlf, Least
  <2>4. x.bytes = o.len
    BY <1>1, <2>1, <2>2 DEF CanFromBlf, Least
  <2>5. x.ext = r.ext
    BY <2>1 DEF CanFromBlf
  <2>6. x.brs = r.brs
    BY <2>1, <2>2 DEF CanFromBlf
  <2>7. x.esi = r.esi
    BY <2>1, <2>2 DEF CanFromBlf
  <2> HIDE DEF x
  <2> QED
    BY <1>0, <1>2, <1>4, <2>1, <2>2, <2>3, <2>4, <2>5, <2>6, <2>7 DEF CanLike
<1>5. CASE o.class = "remote"
  <2>1. /\ r.obj = "can" /\ r.channel = o.channel + 1 /\ r.dlc = o.len
        /\ r.ext = o.ext /\ r.dir = o.dir
    BY <1>5 DEF CanToBlf
  <2>2. r.remote
    BY <1>5 DEF CanToBlf
  <2>3. o.bytes = 0 /\ o.brs = FALSE /\ o.esi = FALSE /\ o.channel \in Nat /\ o.len <= 8
    BY <1>5 DEF CanPlain
  <2> HIDE DEF r
  <2>4. Dlc2Len(o.len % 16) = o.len
    BY <1>1, <2>3 DEF Dlc2Len
  <2>5. x.class = "remote" /\ x.channel = r.channel - 1 /\ x.len = o.len /\ x.bytes = 0 /\ x.dir = r.dir
    BY <2>1, <2>2, <2>4 DEF CanFromBlf
  <2>6. x.ext = r.ext
    BY <2>1 DEF CanFromBlf
  <2>7. x.brs = FALSE
    BY <2>1 DEF CanFromBlf
  <2>8. x.esi = FALSE
    BY <2>1 DEF CanFromBlf
  <2> HIDE DEF x
  <2> QED
    BY <1>0, <1>2, <1>5, <2>1, <2>3, <2>5, <2>6, <2>7, <2>8 DEF CanLike
<1>6. CASE o.class = "data"
  <2>1. /\ r.obj = "can" /\ r.channel = o.channel + 1 /\ r.dlc = o.len
        /\ r.ext = o.ext /\ r.dir = o.dir /\ r.bytes = Least(o.bytes, 8)
    BY <1>6 DEF CanToBlf
  <2>2. ~r.remote
    BY <1>6 DEF CanToBlf
  <2>3. o.bytes = o.len /\ o.brs = FALSE /\ o.esi = FALSE /\ o.channel \in Nat /\ o.len <= 8
    BY <1>6 DEF CanPlain
  <2> HIDE DEF r
  <2>4. Least(o.len, 8) = o.len /\ Least(o.len, o.len) = o.len
    BY <1>1, <2>3 DEF Least
  <2>5. x.class = "data" /\ x.channel = r.channel - 1 /\ x.len = o.len /\ x.bytes = o.len /\ x.dir = r.dir
    BY <2>1, <2>2, <2>3, <2>4 DEF CanFromBlf
  <2>6. x.ext = r.ext
    BY <2>1 DEF CanFromBlf
  <2>7. x.brs = FALSE
    BY <2>1 DEF CanFromBlf
  <2>8. x.esi = FALSE
    BY <2>1 DEF CanFromBlf
  <2> HIDE DEF x
  <2> QED
    BY <1>0, <1>2, <1>6, <2>1, <2>3, <2>5, <2>6, <2>7, <2>8 DEF CanLike
<1>7. o.class \in {"data", "remote", "fd", "error"}
  BY DEF CanPlain
<1> HIDE DEF r, x
<1> QED
  BY <1>3, <1>4, <1>5, <1>6, <1>7

LEMMA CanThroughAsc ==
    ASSUME NEW o, CanPlain(o)
    PROVE  LET x == CanFromAsc(CanToAsc(o)) IN CanLike(x, o) /\ x.dir = o.dir
<1> DEFINE l == CanToAsc(o)
           x == CanFromAsc(l)
<1> SUFFICES CanLike(x, o) /\ x.dir = o.dir
  OBVIOUS
<1>1. o.len \in 0 .. 64 /\ Dlc2Len(Len2Dlc(o.len)) = o.len
  BY CanLength
<1>2. DOMAIN x = CanFields /\ x.kind = "can"
  BY DEF CanFromAsc, CanFields
<1>3. /\ l.class = o.class /\ l.channel = o.channel + 1 /\ l.ext = o.ext /\ l.dir = o.dir
      /\ l.brs = o.brs /\ l.esi = o.esi /\ l.len = o.len /\ l.bytes = o.len
  BY DEF CanToAsc
<1>4. o.class # "error" => Dlc2Len(l.code) = o.len
  BY <1>1 DEF CanToAsc
<1>5. Least(Greatest(o.len, o.len), 64) = o.len /\ Least(o.len, o.len) = o.len
  BY <1>1 DEF Least, Greatest
<1>6. o.class \in {"data", "remote", "fd", "error"} /\ o.brs \in BOOLEAN /\ o.esi \in BOOLEAN
  BY DEF CanPlain
<1> HIDE DEF l
<1>7. x.class = l.class /\ x.channel = l.channel - 1 /\ x.dir = l.dir
  BY DEF CanFromAsc
<1>8. x.ext = l.ext
  BY DEF CanFromAsc
<1>9. x.brs = o.brs
  <2>1. CASE o.class = "fd"
    BY <1>3, <1>6, <2>1 DEF CanFromAsc
  <2>2. CASE o.class # "fd"
    <3>1. o.brs = FALSE
      BY <2>2 DEF CanPlain
    <3> QED
      BY <1>3, <2>2, <3>1 DEF CanFromAsc
  <2> QED
    BY <2>1, <2>2
<1>10. x.esi = o.esi
  <2>1. CASE o.class = "fd"
    BY <1>3, <1>6, <2>1 DEF CanFromAsc
  <2>2. CASE o.class # "fd"
    <3>1. o.esi = FALSE
      BY <2>2 DEF CanPlain
    <3> QED
      BY <1>3, <2>2, <3>1 DEF CanFromAsc
  <2> QED
    BY <2>1, <2>2
<1>11. x.len = o.len /\ x.bytes = o.bytes
  <2>1. CASE o.class = "error"
    <3>1. o.len = 0 /\ o.bytes = 0
      BY <2>1 DEF CanPlain
    <3> QED
      BY <1>3, <2>1, <3>1 DEF CanFromAsc
  <2>2. CASE o.class = "fd"
    <3>1. o.bytes = o.len
      BY <2>2 DEF CanPlain
    <3> QED
      BY <1>3, <1>4, <1>5, <2>2, <3>1 DEF CanFromAsc
  <2>3. CASE o.class = "remote"
    <3>1. o.bytes = 0
      BY <2>3 DEF CanPlain
    <3> QED
      BY <1>3, <1>4, <2>3, <3>1 DEF CanFromAsc
  <2>4. CASE o.class = "data"
    <3>1. o.bytes = o.len
      BY <2>4 DEF CanPlain
    <3> QED
      BY <1>3, <1>4, <1>5, <2>4, <3>1 DEF CanFromAsc
  <2> QED
    BY <1>6, <2>1, <2>2, <2>3, <2>4
<1> HIDE DEF x
<1> QED
  BY <1>2, <1>3, <1>6, <1>7, <1>8, <1>9, <1>10, <1>11 DEF CanPlain, CanLike

(* FlexRay rows.                                                             *)

FrFields == {"kind", "bus", "crc", "payload", "ab", "name"}
FrPlain(o) ==
    /\ DOMAIN o = FrFields /\ o.kind = "fr" /\ o.ab \in 0 .. 2
    /\ o.payload \in Seq(0 .. 255) /\ Len(o.payload) <= 254
    /\ o.name \in {Absent, "word", "blank"}

FrLike(x, o) ==
    /\ DOMAIN x = FrFields /\ x.kind = "fr" /\ x.ab = o.ab /\ x.payload = o.payload
    /\ x.name \in {o.name, Absent}

LEMMA FrLikeIsPlain ==
    ASSUME NEW o, NEW x, FrPlain(o), FrLike(x, o)
    PROVE  FrPlain(x)
BY DEF FrPlain, FrLike

LEMMA FrThroughBlf ==
    ASSUME NEW o, FrPlain(o)
    PROVE  LET x == FrFromBlf(FrToBlf(o)) IN FrLike(x, o) /\ x.bus = o.bus /\ x.crc = o.crc
<1> DEFINE r == FrToBlf(o)
           x == FrFromBlf(r)
<1>1. /\ r.mask = o.ab + 1 /\ r.payload = o.payload /\ r.cluster = o.bus /\ r.crc = o.crc
  BY DEF FrToBlf
<1>2. o.ab \in 0 .. 2
  BY DEF FrPlain
<1> HIDE DEF r
<1>3. DOMAIN x = FrFields /\ x.kind = "fr" /\ x.payload = r.payload /\ x.name = Absent
  BY DEF FrFromBlf, FrFields
<1>4. x.bus = r.cluster /\ x.crc = r.crc
  BY DEF FrFromBlf
<1>5. x.ab = o.ab
  BY <1>1, <1>2 DEF FrFromBlf
<1> HIDE DEF x
<1>6. FrLike(x, o) /\ x.bus = o.bus /\ x.crc = o.crc
  BY <1>1, <1>3, <1>4, <1>5 DEF FrLike
<1> QED
  BY <1>6 DEF x, r

\* Where the two numbers of a payload may stand in the tokens of a line.
Counts(s) == {j \in 1 .. Len(s) - 1 :
                /\ s[j].num \in 0 .. 254 /\ s[j + 1].num \in 0 .. 254
                /\ Len(s) >= j + 1 + s[j + 1].num
                /\ (s[j + 1].num = 0) => (s[j].num = 0)
                /\ \A i \in j + 2 .. j + 1 + s[j + 1].num : s[i].num \in 0 .. 255}

CountAt(s) == CHOOSE j \in Counts(s) : \A i \in Counts(s) : j <= i

LEMMA UpTo254 == \A size \in Nat : size <= 254 => size \in 0 .. 254
OBVIOUS

\* The tokens of a row of size bytes: k of them, the name if there is one, before its
\* numbers.
Tokens(s, k, size, p) ==
    /\ Len(s) = k + 2 + size
    /\ s[k + 1] = Num(size) /\ s[k + 2] = Num(size)
    /\ \A i \in 1 .. size : s[k + 2 + i] = Num(p[i])
    /\ k = 1 => s[1] = Word("word")

LEMMA TokensAreTold ==
    ASSUME NEW s, NEW k \in {0, 1}, NEW size \in 0 .. 254, NEW p \in [1 .. size -> 0 .. 255],
           Tokens(s, k, size, p)
    PROVE  CountAt(s) = k + 1
<1>1. s[k + 1].num = size /\ s[k + 2].num = size
  <2>1. s[k + 1] = Num(size) /\ s[k + 2] = Num(size)
    BY DEF Tokens
  <2> QED
    BY <2>1 DEF Num
<1>2. ASSUME NEW i \in 1 .. size PROVE s[k + 2 + i].num \in 0 .. 255
  <2>1. s[k + 2 + i] = Num(p[i])
    BY DEF Tokens
  <2>2. p[i] \in 0 .. 255
    OBVIOUS
  <2> QED
    BY <2>1, <2>2 DEF Num
<1>3. k + 1 \in Counts(s)
  <2>1. Len(s) = k + 2 + size
    BY DEF Tokens
  <2>2. k + 1 \in 1 .. Len(s) - 1 /\ Len(s) >= (k + 1) + 1 + size /\ (k + 1) + 1 = k + 2
    BY <2>1
  <2>3. ASSUME NEW i \in (k + 1) + 2 .. (k + 1) + 1 + size PROVE s[i].num \in 0 .. 255
    <3>1. i - (k + 2) \in 1 .. size /\ (k + 2) + (i - (k + 2)) = i
      OBVIOUS
    <3>2. s[(k + 2) + (i - (k + 2))].num \in 0 .. 255
      BY <1>2, <3>1
    <3> QED
      BY <3>1, <3>2
  <2> DEFINE j == k + 1
  <2>4. /\ j \in 1 .. Len(s) - 1 /\ Len(s) >= j + 1 + size
        /\ s[j].num = size /\ s[j + 1].num = size
        /\ \A i \in j + 2 .. j + 1 + size : s[i].num \in 0 .. 255
    BY <1>1, <2>2, <2>3
  <2> HIDE DEF j
  <2>5. /\ s[j].num \in 0 .. 254 /\ s[j + 1].num \in 0 .. 254
        /\ Len(s) >= j + 1 + s[j + 1].num
        /\ (s[j + 1].num = 0) => (s[j].num = 0)
        /\ \A i \in j + 2 .. j + 1 + s[j + 1].num : s[i].num \in 0 .. 255
    BY <2>4
  <2>6. j \in Counts(s)
    BY <2>4, <2>5 DEF Counts
  <2> QED
    BY <2>6 DEF j
<1>4. ASSUME NEW i \in Counts(s) PROVE i \in Nat /\ k + 1 <= i
  <2>1. i \in Nat /\ i >= 1 /\ s[i].num \in 0 .. 254
    BY DEF Counts
  <2>2. k = 1 => i # 1
    <3>1. SUFFICES ASSUME k = 1, i = 1 PROVE FALSE
      OBVIOUS
    <3>2. s[1] = Word("word")
      BY <3>1 DEF Tokens
    <3>3. s[1].num = -1
      BY <3>2 DEF Word
    <3> QED
      BY <2>1, <3>1, <3>3
  <2> QED
    BY <2>1, <2>2
<1> DEFINE at == CountAt(s)
<1>5. at \in Counts(s) /\ \A i \in Counts(s) : at <= i
  BY <1>3, <1>4 DEF CountAt
<1> HIDE DEF at
<1>6. at = k + 1
  BY <1>3, <1>4, <1>5
<1> QED
  BY <1>6 DEF at

LEMMA TokensAreRead ==
    ASSUME NEW line, NEW k \in {0, 1}, NEW size \in 0 .. 254, NEW p \in [1 .. size -> 0 .. 255],
           Tokens(line.rest, k, size, p)
    PROVE  /\ FrFromAsc(line).payload = p
           /\ FrFromAsc(line).name = IF k = 1 THEN "word" ELSE Absent
<1> DEFINE s == line.rest
           at == CountAt(s)
           words == {i \in 1 .. at - 1 : s[i].word # Absent}
           x == FrFromAsc(line)
<1> SUFFICES x.payload = p /\ x.name = IF k = 1 THEN "word" ELSE Absent
  OBVIOUS
<1>1. at = k + 1
  <2>1. Tokens(s, k, size, p) /\ k \in {0, 1} /\ size \in 0 .. 254 /\ p \in [1 .. size -> 0 .. 255]
    OBVIOUS
  <2> HIDE DEF s
  <2> QED
    BY ONLY <2>1, TokensAreTold
<1>2. x.payload = [i \in 1 .. Least(s[at].num, s[at + 1].num) |-> s[at + 1 + i].num]
  BY DEF FrFromAsc, Counts, CountAt
<1>3. x.name = IF words = {} THEN Absent ELSE s[CHOOSE i \in words : \A j \in words : i <= j].word
  BY DEF FrFromAsc, Counts, CountAt
<1> HIDE DEF at, x
<1>4. x.payload = p
  <2>1. at + 1 = k + 2
    BY <1>1
  <2>2. s[k + 1] = Num(size) /\ s[k + 2] = Num(size)
    BY DEF Tokens
  <2>3. \A i \in 1 .. size : s[k + 2 + i] = Num(p[i])
    BY DEF Tokens
  <2> HIDE DEF s
  <2>4. Least(s[at].num, s[at + 1].num) = size
    BY <1>1, <2>1, <2>2 DEF Num, Least
  <2>5. x.payload = [i \in 1 .. size |-> s[k + 2 + i].num]
    BY <1>2, <2>1, <2>4
  <2>6. ASSUME NEW i \in 1 .. size PROVE s[k + 2 + i].num = p[i]
    <3>1. s[k + 2 + i] = Num(p[i])
      BY <2>3
    <3> QED
      BY <3>1 DEF Num
  <2> QED
    BY <2>5, <2>6
<1>5. CASE k = 0
  <2>1. words = {}
    BY <1>1, <1>5
  <2> QED
    BY <1>3, <1>4, <1>5, <2>1
<1>6. CASE k = 1
  <2>1. s[1].word = "word" /\ "word" # Absent
    <3>1. s[1] = Word("word")
      BY <1>6 DEF Tokens
    <3>2. Word("word").word = "word"
      BY DEF Word
    <3>3. "word" # Absent
      BY CodecAssumption
    <3> QED
      BY ONLY <3>1, <3>2, <3>3
  <2> HIDE DEF s
  <2>2. words = {1}
    BY <1>1, <1>6, <2>1
  <2> HIDE DEF words
  <2>3. (CHOOSE i \in words : \A j \in words : i <= j) = 1
    BY <2>2
  <2> QED
    BY <1>3, <1>4, <1>6, <2>1, <2>2, <2>3
<1> QED
  BY <1>5, <1>6

LEMMA FrThroughAsc ==
    ASSUME NEW o, FrPlain(o)
    PROVE  LET x == FrFromAsc(FrToAsc(o))
           IN  FrLike(x, o) /\ (o.name # "blank" => x.name = o.name)
<1> DEFINE l == FrToAsc(o)
           x == FrFromAsc(l)
           p == o.payload
           size == Len(p)
           k == IF o.name \in {Absent, "blank"} THEN 0 ELSE 1
<1> SUFFICES FrLike(x, o) /\ (o.name # "blank" => x.name = o.name)
  OBVIOUS
<1>1. /\ p \in Seq(0 .. 255) /\ Len(p) <= 254 /\ Len(p) \in Nat /\ DOMAIN p = 1 .. Len(p)
      /\ o.ab \in 0 .. 2 /\ o.name \in {Absent, "word", "blank"}
      /\ Absent # "word" /\ Absent # "blank"
  BY CodecAssumption, LenProperties DEF FrPlain
<1>2. k \in {0, 1}
  OBVIOUS
<1>3. Tokens(l.rest, k, size, p)
  <2> DEFINE pre == IF o.name \in {Absent, "blank"} THEN <<>> ELSE <<Word(o.name)>>
             two == <<Num(Len(p)), Num(Len(p))>>
             body == [i \in DOMAIN p |-> Num(p[i])]
             all == {Word(o.name), Num(Len(p))} \cup {Num(p[i]) : i \in 1 .. Len(p)}
  <2>1. l.rest = pre \o two \o body
    BY DEF FrToAsc
  <2>2. Len(pre) = k /\ (k = 1 => pre[1] = Word("word"))
    BY <1>1
  <2>3. pre \in Seq(all)
    <3> DEFINE w == Word(o.name)
    <3>1. w \in all
      OBVIOUS
    <3> HIDE DEF all, w
    <3>2. <<>> \in Seq(all) /\ <<w>> \in Seq(all)
      BY <3>1
    <3>3. pre \in {<<>>, <<w>>}
      BY DEF w
    <3> QED
      BY ONLY <3>2, <3>3
  <2>4. two \in Seq(all) /\ Len(two) = 2 /\ two[1] = Num(Len(p)) /\ two[2] = Num(Len(p))
    <3> DEFINE w == Num(Len(p))
    <3>1. w \in all
      OBVIOUS
    <3> HIDE DEF all, w
    <3>2. <<w, w>> \in Seq(all) /\ Len(<<w, w>>) = 2 /\ <<w, w>>[1] = w /\ <<w, w>>[2] = w
      BY <3>1
    <3> QED
      BY <3>2 DEF w
  <2>5. body \in Seq(all) /\ Len(body) = Len(p) /\ \A i \in 1 .. Len(p) : body[i] = Num(p[i])
    <3>1. body = [i \in 1 .. Len(p) |-> Num(p[i])]
      BY <1>1
    <3> HIDE DEF body
    <3>2. \A i \in 1 .. Len(p) : body[i] \in all
      BY <3>1
    <3> HIDE DEF all, p
    <3> QED
      BY <1>1, <3>1, <3>2
  <2> HIDE DEF all
  <2> USE DEF size
  <2>6. size = Len(p) /\ size \in Nat
    BY <1>1
  <2> HIDE DEF pre, two, body, k, p, size
  <2> DEFINE ab == pre \o two
             s == ab \o body
  <2>7. ab \in Seq(all) /\ Len(ab) = k + 2
        /\ \A i \in 1 .. k + 2 : ab[i] = IF i <= k THEN pre[i] ELSE two[i - k]
    <3>1. /\ ab \in Seq(all) /\ Len(ab) = Len(pre) + Len(two)
          /\ \A i \in 1 .. Len(pre) + Len(two) :
               ab[i] = IF i <= Len(pre) THEN pre[i] ELSE two[i - Len(pre)]
      BY ONLY <2>3, <2>4, ConcatProperties DEF ab
    <3>2. Len(pre) = k /\ Len(two) = 2
      BY <2>2, <2>4
    <3> QED
      BY ONLY <3>1, <3>2
  <2> HIDE DEF ab
  <2>8. Len(s) = k + 2 + size
        /\ \A i \in 1 .. k + 2 + size : s[i] = IF i <= k + 2 THEN ab[i] ELSE body[i - (k + 2)]
    BY <2>5, <2>6, <2>7, ConcatProperties
  <2> HIDE DEF s
  <2>9. /\ k + 1 \in 1 .. k + 2 /\ k + 2 \in 1 .. k + 2 /\ ~(k + 1 <= k) /\ ~(k + 2 <= k)
        /\ (k + 1) - k = 1 /\ (k + 2) - k = 2 /\ k + 1 <= k + 2
        /\ k + 1 \in 1 .. k + 2 + size /\ k + 2 \in 1 .. k + 2 + size
    BY ONLY <1>2, <2>6
  <2>10. s[k + 1] = Num(size) /\ s[k + 2] = Num(size)
    BY <2>4, <2>6, <2>7, <2>8, <2>9
  <2>11. k = 1 => s[1] = Word("word")
    <3>1. k = 1 => 1 \in 1 .. k + 2 + size /\ 1 \in 1 .. k + 2 /\ 1 <= k + 2 /\ 1 <= k
      BY ONLY <2>6
    <3> QED
      BY <2>2, <2>7, <2>8, <3>1
  <2>12. ASSUME NEW i \in 1 .. size PROVE s[k + 2 + i] = Num(p[i])
    <3>1. k + 2 + i \in 1 .. k + 2 + size /\ ~(k + 2 + i <= k + 2) /\ (k + 2 + i) - (k + 2) = i
      BY ONLY <1>2, <2>6, i \in 1 .. size
    <3>2. s[k + 2 + i] = body[i]
      BY <2>8, <3>1
    <3> QED
      BY <2>5, <2>6, <3>2
  <2>13. l.rest = s
    BY <2>1 DEF s, ab
  <2> HIDE DEF l
  <2> QED
    BY <2>8, <2>10, <2>11, <2>12, <2>13 DEF Tokens
<1>4. x.payload = p /\ x.name = IF k = 1 THEN "word" ELSE Absent
  <2>1. size \in 0 .. 254 /\ p \in [1 .. size -> 0 .. 255]
    <3>1. size \in Nat /\ size <= 254 /\ size = Len(p)
      BY <1>1
    <3>2. p \in [1 .. Len(p) -> 0 .. 255]
      BY <1>1, LenProperties
    <3> HIDE DEF size, p
    <3>3. size \in 0 .. 254
      BY ONLY <3>1, UpTo254
    <3>4. size = Len(p)
      BY <3>1
    <3> QED
      BY ONLY <3>2, <3>3, <3>4
  <2> HIDE DEF l, k, p, size
  <2>2. FrFromAsc(l).payload = p /\ FrFromAsc(l).name = IF k = 1 THEN "word" ELSE Absent
    <3>1. k \in {0, 1} /\ size \in 0 .. 254 /\ p \in [1 .. size -> 0 .. 255] /\ Tokens(l.rest, k, size, p)
      BY ONLY <1>2, <1>3, <2>1
    <3> QED
      BY ONLY <3>1, TokensAreRead
  <2>3. x = FrFromAsc(l)
    OBVIOUS
  <2> HIDE DEF x
  <2>4. x.payload = p
    BY <2>2, <2>3
  <2>5. x.name = IF k = 1 THEN "word" ELSE Absent
    BY <2>2, <2>3
  <2> QED
    BY <2>4, <2>5
<1>5. DOMAIN x = FrFields /\ x.kind = "fr"
  <2> HIDE DEF l
  <2>1. DOMAIN x = FrFields
    BY ZenonT(30) DEF FrFromAsc, FrFields
  <2>2. x.kind = "fr"
    BY DEF FrFromAsc
  <2> QED
    BY <2>1, <2>2
<1>6. x.ab = o.ab
  <2>1. (l.a <=> o.ab # 1) /\ (l.b <=> o.ab # 0)
    BY DEF FrToAsc
  <2> HIDE DEF l
  <2>2. x.ab = IF l.a /\ l.b THEN 2 ELSE IF l.b THEN 1 ELSE 0
    BY DEF FrFromAsc
  <2> HIDE DEF x
  <2> QED
    BY <1>1, <2>1, <2>2
<1>7. x.name \in {o.name, Absent} /\ (o.name # "blank" => x.name = o.name)
  <2> HIDE DEF x
  <2> QED
    BY <1>1, <1>4
<1> QED
  BY <1>4, <1>5, <1>6, <1>7 DEF FrLike

(* Ethernet frames.                                                          *)

Vids == 0 .. 4095
EthFields == {"kind", "bus", "dir", "vlan", "tpid", "cut"}
EthPlain(o) ==
    /\ DOMAIN o = EthFields /\ o.kind = "eth" /\ o.dir \in {"Rx", "Tx"}
    /\ o.vlan \in {Absent} \cup Vids /\ o.tpid \in {Absent, "c", "s"}
    /\ o.vlan = Absent => o.tpid = Absent

EthLike(x, o) ==
    /\ DOMAIN x = EthFields /\ x.kind = "eth" /\ x.dir \in {"Rx", "Tx"} /\ x.vlan = o.vlan
    /\ IF o.vlan = Absent \/ o.tpid # Absent THEN x.tpid = o.tpid ELSE x.tpid = "c"

LEMMA EthLikeIsPlain ==
    ASSUME NEW o, NEW x, EthPlain(o), EthLike(x, o)
    PROVE  EthPlain(x)
BY DEF EthPlain, EthLike

LEMMA EthThroughBlf ==
    ASSUME NEW o, EthPlain(o), o.vlan # Absent
    PROVE  LET x == EthFromBlf(EthToBlf(o)) IN EthLike(x, o) /\ x.bus = o.bus /\ x.dir = o.dir
<1> DEFINE r == EthToBlf(o)
           x == EthFromBlf(r)
<1> SUFFICES EthLike(x, o) /\ x.bus = o.bus /\ x.dir = o.dir
  OBVIOUS
<1>1. r.channel = o.bus /\ r.dir = IF o.dir = "Tx" THEN 1 ELSE 0
  BY DEF EthToBlf
<1>2. r.tpid = (IF o.tpid = Absent THEN "c" ELSE o.tpid) /\ r.tci = o.vlan
  BY DEF EthToBlf
<1>3. o.dir \in {"Rx", "Tx"}
  BY DEF EthPlain
<1> HIDE DEF r
<1>4. DOMAIN x = EthFields /\ x.kind = "eth" /\ x.bus = r.channel /\ x.vlan = r.tci /\ x.tpid = r.tpid
  BY DEF EthFromBlf, EthFields
<1>5. x.dir = o.dir
  BY <1>1, <1>3 DEF EthFromBlf
<1> HIDE DEF x
<1> QED
  BY <1>1, <1>2, <1>3, <1>4, <1>5 DEF EthLike

LEMMA EthThroughPcap ==
    ASSUME NEW o, EthPlain(o)
    PROVE  EthLike(EthFromPcap(EthToPcap(o)), o)
<1> DEFINE tags == EthToPcap(o)
           x == EthFromPcap(tags)
<1>1. DOMAIN x = EthFields /\ x.kind = "eth" /\ x.dir = "Rx"
  BY DEF EthFromPcap, FromPcap, EthFields
<1>2. x.vlan = FirstTag(tags).vlan /\ x.tpid = FirstTag(tags).tpid
  BY DEF EthFromPcap, FromPcap
<1> HIDE DEF x
<1>3. CASE o.vlan = Absent
  <2>1. tags = <<>>
    BY <1>3 DEF EthToPcap
  <2>2. x.vlan = Absent /\ x.tpid = Absent
    BY <1>2, <2>1 DEF FirstTag
  <2>3. o.tpid = Absent
    BY <1>3 DEF EthPlain
  <2>4. EthLike(x, o)
    BY <1>1, <1>3, <2>2, <2>3 DEF EthLike
  <2> QED
    BY <2>4 DEF x
<1>4. CASE o.vlan # Absent
  <2> DEFINE tag == [tpid |-> IF o.tpid = Absent THEN "c" ELSE o.tpid,
                     id |-> o.vlan % 4096, prio |-> o.vlan \div 4096]
  <2>1. tags = <<tag>>
    BY <1>4 DEF EthToPcap
  <2>2. o.vlan \in Vids
    BY <1>4 DEF EthPlain
  <2>3. o.vlan % 4096 = o.vlan
    <3>1. PICK v \in Vids : v = o.vlan
      BY <2>2
    <3>2. v % 4096 = v
      BY DEF Vids
    <3> QED
      BY <3>1, <3>2
  <2>4. tag.tpid = (IF o.tpid = Absent THEN "c" ELSE o.tpid) /\ tag.id = o.vlan
    BY <2>3
  <2> HIDE DEF tag, tags
  <2>5. tags # <<>> /\ tags[1] = tag
    BY <2>1
  <2>6. x.vlan = tag.id /\ x.tpid = tag.tpid
    BY <1>2, <2>5 DEF FirstTag
  <2>7. EthLike(x, o)
    BY <1>1, <1>4, <2>4, <2>6 DEF EthLike
  <2> QED
    BY <2>7 DEF x, tags
<1> QED
  BY <1>3, <1>4

(* Objects of any kind.                                                      *)

Plain(o) == CanPlain(o) \/ FrPlain(o) \/ EthPlain(o)

\* May an object go through a file of a format?
Passes(form, o) ==
    /\ form \in LogFormats /\ o.kind \in TakenBy(form)
    /\ (form = "blf" /\ o.kind = "eth") => o.vlan # Absent

\* What a trip makes of an object: one that has kept the fields the format has a
\* place for, and none fewer to keep on the next trips.
Kept(x, form, o) ==
    /\ Plain(x) /\ DOMAIN x = DOMAIN o /\ x.kind = o.kind
    /\ \A field \in Carried(form, o) : x[field] = o[field]
    /\ \A other \in LogFormats : Carried(other, o) \subseteq Carried(other, x)

Through(form, o) == Loaded(form, o.kind, Saved(form, o))

LEMMA TripKeepsCan ==
    ASSUME NEW o, CanPlain(o), NEW form, Passes(form, o)
    PROVE  Kept(Through(form, o), form, o)
<1> DEFINE x == Through(form, o)
<1>1. o.kind = "can" /\ DOMAIN o = CanFields
  BY DEF CanPlain
<1>2. form \in {"blf", "asc"}
  BY <1>1 DEF Passes, LogFormats, TakenBy
<1>3. CanLike(x, o) /\ (~(form = "blf" /\ o.class = "error") => x.dir = o.dir)
  <2>1. CASE form = "blf"
    <3>1. x = CanFromBlf(CanToBlf(o))
      BY <1>1, <2>1 DEF Through, Loaded, Saved
    <3> QED
      BY <2>1, <3>1, CanThroughBlf
  <2>2. CASE form = "asc"
    <3>1. x = CanFromAsc(CanToAsc(o))
      BY <1>1, <2>2 DEF Through, Loaded, Saved
    <3> QED
      BY <2>2, <3>1, CanThroughAsc
  <2> QED
    BY <1>2, <2>1, <2>2
<1> HIDE DEF x
<1>4. Plain(x)
  BY <1>3, CanLikeIsPlain DEF Plain
<1>5. DOMAIN x = DOMAIN o /\ x.kind = o.kind /\ x.class = o.class
  BY <1>1, <1>3 DEF CanLike
<1>6. ASSUME NEW field \in Carried(form, o) PROVE x[field] = o[field]
  <2>1. field \in {"class", "channel", "ext", "len", "bytes", "brs", "esi", "dir"}
        /\ (field = "dir" => ~(form = "blf" /\ o.class = "error"))
    BY <1>1 DEF Carried
  <2>2. /\ x["class"] = o["class"] /\ x["channel"] = o["channel"] /\ x["ext"] = o["ext"]
        /\ x["len"] = o["len"] /\ x["bytes"] = o["bytes"] /\ x["brs"] = o["brs"] /\ x["esi"] = o["esi"]
    BY <1>3 DEF CanLike
  <2> QED
    BY <1>3, <2>1, <2>2
<1>7. \A other \in LogFormats : Carried(other, o) \subseteq Carried(other, x)
  BY <1>1, <1>5 DEF Carried
<1>8. Kept(x, form, o)
  BY <1>4, <1>5, <1>6, <1>7 DEF Kept
<1> QED
  BY <1>8 DEF x

LEMMA TripKeepsFr ==
    ASSUME NEW o, FrPlain(o), NEW form, Passes(form, o)
    PROVE  Kept(Through(form, o), form, o)
<1> DEFINE x == Through(form, o)
<1>1. o.kind = "fr" /\ DOMAIN o = FrFields /\ o.name \in {Absent, "word", "blank"}
      /\ Absent # "blank"
  BY CodecAssumption DEF FrPlain
<1>2. form \in {"blf", "asc"}
  BY <1>1 DEF Passes, LogFormats, TakenBy
<1>3. /\ FrLike(x, o) /\ (form = "blf" => x.bus = o.bus /\ x.crc = o.crc)
      /\ (form = "asc" /\ o.name # "blank") => x.name = o.name
  <2>1. CASE form = "blf"
    <3>1. x = FrFromBlf(FrToBlf(o))
      BY <1>1, <2>1 DEF Through, Loaded, Saved
    <3> QED
      BY <2>1, <3>1, FrThroughBlf
  <2>2. CASE form = "asc"
    <3>1. x = FrFromAsc(FrToAsc(o))
      BY <1>1, <2>2 DEF Through, Loaded, Saved
    <3> QED
      BY <2>2, <3>1, FrThroughAsc
  <2> QED
    BY <1>2, <2>1, <2>2
<1> HIDE DEF x
<1>4. Plain(x)
  BY <1>3, FrLikeIsPlain DEF Plain
<1>5. DOMAIN x = DOMAIN o /\ x.kind = o.kind /\ x.name \in {o.name, Absent}
      /\ x["ab"] = o["ab"] /\ x["payload"] = o["payload"]
  BY <1>1, <1>3 DEF FrLike
<1>6. ASSUME NEW field \in Carried(form, o) PROVE x[field] = o[field]
  <2>1. \/ field \in {"ab", "payload"}
        \/ field \in {"bus", "crc"} /\ form = "blf"
        \/ field = "name" /\ form = "asc" /\ o.name # "blank"
    BY <1>1, <1>2 DEF Carried
  <2> QED
    BY <1>3, <1>5, <2>1
<1>7. \A other \in LogFormats : Carried(other, o) \subseteq Carried(other, x)
  BY <1>1, <1>5 DEF Carried
<1>8. Kept(x, form, o)
  BY <1>4, <1>5, <1>6, <1>7 DEF Kept
<1> QED
  BY <1>8 DEF x

LEMMA TripKeepsEth ==
    ASSUME NEW o, EthPlain(o), NEW form, Passes(form, o)
    PROVE  Kept(Through(form, o), form, o)
<1> DEFINE x == Through(form, o)
<1>1. o.kind = "eth" /\ DOMAIN o = EthFields /\ (o.vlan = Absent => o.tpid = Absent)
  BY DEF EthPlain
<1>2. form \in {"blf", "pcap"} /\ (form = "blf" => o.vlan # Absent)
  BY <1>1 DEF Passes, LogFormats, TakenBy
<1>3. EthLike(x, o) /\ (form = "blf" => x.bus = o.bus /\ x.dir = o.dir)
  <2>1. CASE form = "blf"
    <3>1. x = EthFromBlf(EthToBlf(o))
      BY <1>1, <2>1 DEF Through, Loaded, Saved
    <3> QED
      BY <1>2, <2>1, <3>1, EthThroughBlf
  <2>2. CASE form = "pcap"
    <3>1. x = EthFromPcap(EthToPcap(o))
      BY <1>1, <2>2 DEF Through, Loaded, Saved
    <3> QED
      BY <2>2, <3>1, EthThroughPcap
  <2> QED
    BY <1>2, <2>1, <2>2
<1> HIDE DEF x
<1>4. Plain(x)
  BY <1>3, EthLikeIsPlain DEF Plain
<1>5. DOMAIN x = DOMAIN o /\ x.kind = o.kind /\ x["vlan"] = o["vlan"]
      /\ (o.tpid # Absent => x["tpid"] = o["tpid"])
  BY <1>1, <1>3 DEF EthLike
<1>6. ASSUME NEW field \in Carried(form, o) PROVE x[field] = o[field]
  <2>1. \/ field = "vlan"
        \/ field = "tpid" /\ o.tpid # Absent
        \/ field \in {"bus", "dir"} /\ form = "blf"
    BY <1>1 DEF Carried
  <2> QED
    BY <1>3, <1>5, <2>1
<1>7. \A other \in LogFormats : Carried(other, o) \subseteq Carried(other, x)
  BY <1>1, <1>5 DEF Carried
<1>8. Kept(x, form, o)
  BY <1>4, <1>5, <1>6, <1>7 DEF Kept
<1> QED
  BY <1>8 DEF x

\* A trip keeps what its format has a place for.
LEMMA TripKeeps ==
    ASSUME NEW o, Plain(o), NEW form, Passes(form, o)
    PROVE  Kept(Through(form, o), form, o)
BY TripKeepsCan, TripKeepsFr, TripKeepsEth DEF Plain

(* The objects there are.                                                    *)

LEMMA CanFramesArePlain ==
    ASSUME PlainObjects, NEW o \in CanFrames
    PROVE  Plain(o)
<1> DEFINE frame(class, len, ext, dir, brs, esi) ==
               [kind |-> "can", class |-> class, channel |-> 1, ext |-> ext, len |-> len,
                bytes |-> IF class = "remote" THEN 0 ELSE len, dir |-> dir, brs |-> brs, esi |-> esi]
<1>1. Dlc2Len(0) = 0 /\ \A len \in Lengths : \E c \in 0 .. 15 : len = Dlc2Len(c)
  BY DEF PlainObjects, Dlc2Len
<1>2. ASSUME NEW class \in {"data", "remote", "fd", "error"}, NEW len, NEW ext \in BOOLEAN,
             NEW dir \in {"Rx", "Tx"}, NEW brs \in BOOLEAN, NEW esi \in BOOLEAN,
             o = frame(class, len, ext, dir, brs, esi), \E c \in 0 .. 15 : len = Dlc2Len(c),
             class \in {"data", "remote"} => len <= 8,
             class = "error" => len = 0 /\ ext = FALSE,
             class # "fd" => brs = FALSE /\ esi = FALSE
      PROVE  Plain(o)
  <2>1. /\ o.kind = "can" /\ o.class = class /\ o.channel = 1 /\ o.ext = ext /\ o.len = len
        /\ o.bytes = (IF class = "remote" THEN 0 ELSE len) /\ o.dir = dir /\ o.brs = brs /\ o.esi = esi
    BY <1>2
  <2>2. DOMAIN o = CanFields
    BY <1>2 DEF CanFields
  <2>3. o.bytes = IF o.class \in {"remote", "error"} THEN 0 ELSE o.len
    BY <1>2, <2>1
  <2> HIDE DEF frame
  <2> QED
    BY <1>2, <2>1, <2>2, <2>3 DEF Plain, CanPlain
<1>3. \/ \E dir \in {"Rx", "Tx"} : o = frame("error", 0, FALSE, dir, FALSE, FALSE)
      \/ \E class \in {"data", "remote"}, len \in Lengths \cap 0 .. 8, ext \in BOOLEAN, dir \in {"Rx", "Tx"} :
           o = frame(class, len, ext, dir, FALSE, FALSE)
      \/ \E len \in Lengths, ext \in BOOLEAN, brs \in BOOLEAN, esi \in BOOLEAN :
           o = frame("fd", len, ext, "Rx", brs, esi)
  BY DEF CanFrames
<1> HIDE DEF frame
<1>4. CASE \E dir \in {"Rx", "Tx"} : o = frame("error", 0, FALSE, dir, FALSE, FALSE)
  <2>1. PICK dir \in {"Rx", "Tx"} : o = frame("error", 0, FALSE, dir, FALSE, FALSE)
    BY <1>4
  <2>2. \E c \in 0 .. 15 : 0 = Dlc2Len(c)
    BY <1>1
  <2> QED
    BY <1>2, <2>1, <2>2
<1>5. CASE \E class \in {"data", "remote"}, len \in Lengths \cap 0 .. 8, ext \in BOOLEAN, dir \in {"Rx", "Tx"} :
             o = frame(class, len, ext, dir, FALSE, FALSE)
  <2>1. PICK class \in {"data", "remote"}, len \in Lengths \cap 0 .. 8, ext \in BOOLEAN, dir \in {"Rx", "Tx"} :
             o = frame(class, len, ext, dir, FALSE, FALSE)
    BY <1>5
  <2>2. len <= 8 /\ \E c \in 0 .. 15 : len = Dlc2Len(c)
    BY <1>1
  <2> QED
    BY <1>2, <2>1, <2>2
<1>6. CASE \E len \in Lengths, ext \in BOOLEAN, brs \in BOOLEAN, esi \in BOOLEAN :
             o = frame("fd", len, ext, "Rx", brs, esi)
  BY <1>1, <1>2, <1>6
<1> QED
  BY <1>3, <1>4, <1>5, <1>6

LEMMA FrRowsArePlain ==
    ASSUME PlainObjects, NEW o \in FrRows
    PROVE  Plain(o)
<1>1. PICK bus \in {0, 1}, ab \in 0 .. 2, crc \in {0, 5}, name \in Names, payload \in Payloads :
        o = [kind |-> "fr", bus |-> bus, ab |-> ab, crc |-> crc, payload |-> payload, name |-> name]
  BY DEF FrRows
<1>2. o.kind = "fr" /\ o.ab = ab /\ o.payload = payload /\ o.name = name /\ DOMAIN o = FrFields
  BY <1>1 DEF FrFields
<1>3. payload \in Seq(0 .. 255) /\ Len(payload) <= 254 /\ name \in {Absent, "word", "blank"}
  BY CodecAssumption DEF PlainObjects
<1> QED
  BY <1>2, <1>3 DEF Plain, FrPlain

LEMMA VlansApart ==
    ASSUME NEW vlan \in Vlans
    PROVE  vlan \in Vids /\ vlan \in 0 .. 4095 /\ vlan # Absent
<1>1. vlan \in 0 .. 4095 /\ Absent \notin Nat
  BY CodecAssumption
<1>2. vlan \in Nat
  BY <1>1
<1>3. vlan = Absent => Absent \in Nat
  BY <1>2
<1> QED
  BY <1>1, <1>3 DEF Vids

TagPlain(tag) == /\ tag.tpid \in {Absent, "c", "s"} /\ tag.vlan \in {Absent} \cup Vids
                 /\ tag.vlan = Absent => tag.tpid = Absent

\* One tag at most, and none with a priority: the last one is the first one.
LEMMA OneTag ==
    ASSUME PlainObjects, NEW tags \in Tags
    PROVE  LastTag(tags) = FirstTag(tags) /\ TagPlain(FirstTag(tags))
<1>1. PICK size \in 0 .. MaxTags : tags \in [1 .. size -> [tpid : {"c", "s"}, id : Vlans, prio : Prios]]
  BY DEF Tags
<1>2. size \in {0, 1}
  BY CodecAssumption DEF PlainObjects
<1>3. CASE size = 0
  <2>1. tags = <<>>
    BY <1>1, <1>3
  <2>2. LastTag(tags) = [tpid |-> Absent, vlan |-> Absent]
        /\ FirstTag(tags) = [tpid |-> Absent, vlan |-> Absent]
    BY <2>1 DEF LastTag, FirstTag
  <2>3. FirstTag(tags).tpid = Absent /\ FirstTag(tags).vlan = Absent
    BY <2>2
  <2> QED
    BY <2>2, <2>3 DEF TagPlain
<1>4. CASE size = 1
  <2> DEFINE TagsThere == [tpid : {"c", "s"}, id : Vlans, prio : Prios]
             tag == tags[1]
  <2>1. tag.tpid \in {"c", "s"} /\ tag.id \in Vlans /\ tag.prio \in Prios
    BY <1>1, <1>4
  <2>2. Len(tags) = 1 /\ tags # <<>>
    <3>1. tags \in [1 .. 1 -> TagsThere]
      BY <1>1, <1>4
    <3> HIDE DEF TagsThere
    <3>2. tags = [i \in 1 .. 1 |-> tag]
      BY <3>1
    <3> HIDE DEF tag
    <3>3. Len([i \in 1 .. 1 |-> tag]) = 1 /\ Len(<<>>) = 0
      OBVIOUS
    <3> QED
      BY <3>2, <3>3
  <2> HIDE DEF TagsThere, tag
  <2>3. PICK vlan \in Vlans : tag.id = vlan
    BY <2>1
  <2>4. vlan \in Vids /\ vlan # Absent /\ Tci(tag) = vlan
    <3>1. vlan \in Vids /\ vlan \in 0 .. 4095 /\ vlan # Absent
      BY VlansApart
    <3>2. tag.prio = 0
      BY <2>1 DEF PlainObjects
    <3>3. Tci(tag) = vlan + 4096 * 0
      BY <2>3, <3>2 DEF Tci
    <3> QED
      BY <3>1, <3>3
  <2>5. /\ LastTag(tags) = [tpid |-> tag.tpid, vlan |-> vlan]
        /\ FirstTag(tags) = [tpid |-> tag.tpid, vlan |-> vlan]
    BY <2>2, <2>3, <2>4 DEF LastTag, FirstTag, tag
  <2>6. /\ FirstTag(tags).tpid = tag.tpid /\ FirstTag(tags).vlan = vlan
    BY <2>5
  <2>7. TagPlain(FirstTag(tags))
    BY <2>1, <2>4, <2>6 DEF TagPlain
  <2> QED
    BY <2>5, <2>7
<1> QED
  BY <1>2, <1>3, <1>4

EthFrames == {Session(vlan) : vlan \in {Absent} \cup Vlans}
             \cup {Captured(tags) : tags \in Tags}
             \cup {FromPcap(tags, cut) : tags \in Tags, cut \in BOOLEAN}

LEMMA EthFramesArePlain ==
    ASSUME PlainObjects, NEW o \in EthFrames
    PROVE  Plain(o)
<1>1. CASE o \in {Session(vlan) : vlan \in {Absent} \cup Vlans}
  <2>1. PICK vlan \in {Absent} \cup Vlans : o = Session(vlan)
    BY <1>1
  <2>2. vlan \in {Absent} \cup Vids
    BY VlansApart
  <2>3. o = [kind |-> "eth", bus |-> 1, dir |-> "Tx", vlan |-> vlan, tpid |-> Absent, cut |-> FALSE]
    BY <2>1 DEF Session
  <2>4. o.kind = "eth" /\ o.dir = "Tx" /\ o.vlan = vlan /\ o.tpid = Absent
    BY ONLY <2>3
  <2>5. DOMAIN o = EthFields
    BY ONLY <2>3 DEF EthFields
  <2> QED
    BY <2>2, <2>4, <2>5 DEF Plain, EthPlain
<1>2. CASE o \in {Captured(tags) : tags \in Tags}
  <2>1. PICK tags \in Tags : o = Captured(tags)
    BY <1>2
  <2>2. /\ o.kind = "eth" /\ o.dir = "Rx" /\ o.vlan = LastTag(tags).vlan
        /\ o.tpid = LastTag(tags).tpid /\ DOMAIN o = EthFields
    BY <2>1 DEF Captured, EthFields
  <2>3. LastTag(tags) = FirstTag(tags) /\ TagPlain(FirstTag(tags))
    BY OneTag
  <2>4. EthPlain(o)
    BY <2>2, <2>3 DEF EthPlain, TagPlain
  <2> QED
    BY <2>4 DEF Plain
<1>3. CASE o \in {FromPcap(tags, cut) : tags \in Tags, cut \in BOOLEAN}
  <2>1. PICK tags \in Tags, cut \in BOOLEAN : o = FromPcap(tags, cut)
    BY <1>3
  <2>2. /\ o.kind = "eth" /\ o.dir = "Rx" /\ o.vlan = FirstTag(tags).vlan
        /\ o.tpid = FirstTag(tags).tpid /\ DOMAIN o = EthFields
    BY <2>1 DEF FromPcap, EthFields
  <2>3. LastTag(tags) = FirstTag(tags) /\ TagPlain(FirstTag(tags))
    BY OneTag
  <2>4. EthPlain(o)
    BY <2>2, <2>3 DEF EthPlain, TagPlain
  <2> QED
    BY <2>4 DEF Plain
<1> QED
  BY <1>1, <1>2, <1>3 DEF EthFrames

LEMMA ObjectsArePlain ==
    ASSUME PlainObjects, NEW o \in Objects
    PROVE  Plain(o)
BY CanFramesArePlain, FrRowsArePlain, EthFramesArePlain DEF Objects, EthFrames

(* The invariant: what every format so far has a place for is as it was, no  *)
(* format has fewer fields to keep now than at first, and an object has been *)
(* through no format that would not take it again.                           *)

KeptSoFar == \A field \in DOMAIN first :
                (\A i \in DOMAIN via : field \in Carried(via[i], first)) => object[field] = first[field]

CodecInv ==
    /\ Plain(object) /\ DOMAIN object = DOMAIN first
    /\ \A form \in LogFormats : Carried(form, first) \subseteq Carried(form, object)
    /\ KeptSoFar
    /\ via \in Seq(LogFormats) /\ \A i \in DOMAIN via : Passes(via[i], object)
    /\ file # Absent => /\ file = [fmt |-> file.fmt, kind |-> object.kind, rec |-> Saved(file.fmt, object)]
                        /\ Passes(file.fmt, object)

\* An object that may go through a file of a format may after any trip.
LEMMA PassesStill ==
    ASSUME NEW o, Plain(o), NEW form, Passes(form, o), NEW other, Passes(other, o)
    PROVE  Passes(other, Through(form, o))
<1> DEFINE x == Through(form, o)
<1>1. Kept(x, form, o)
  BY TripKeeps
<1> HIDE DEF x
<1>2. x.kind = o.kind /\ \A field \in Carried(form, o) : x[field] = o[field]
  BY <1>1 DEF Kept
<1>3. o.kind = "eth" => x["vlan"] = o["vlan"]
  <2>1. o.kind = "eth" => "vlan" \in Carried(form, o)
    BY DEF Carried
  <2> QED
    BY <1>2, <2>1
<1>4. Passes(other, x)
  BY <1>2, <1>3 DEF Passes
<1> QED
  BY <1>4 DEF x

LEMMA CodecInvInit ==
    ASSUME PlainObjects, CodecInit
    PROVE  CodecInv
<1>1. object \in Objects /\ file = Absent /\ first = object /\ via = <<>>
  BY DEF CodecInit
<1>2. Plain(object)
  BY <1>1, ObjectsArePlain
<1>3. via \in Seq(LogFormats) /\ DOMAIN via = {}
  BY <1>1
<1> QED
  BY <1>1, <1>2, <1>3 DEF CodecInv, KeptSoFar

LEMMA SaveKeeps ==
    ASSUME PlainObjects, CodecInv, NEW form \in LogFormats, Save(form)
    PROVE  CodecInv'
<1>1. /\ object' = object /\ first' = first /\ via' = via
      /\ file' = [fmt |-> form, kind |-> object.kind, rec |-> Saved(form, object)]
  BY DEF Save
<1>2. Passes(form, object)
  BY DEF Save, Passes, PlainObjects
<1>3. file'.fmt = form
  BY <1>1
<1> QED
  BY <1>1, <1>2, <1>3 DEF CodecInv, KeptSoFar

LEMMA LoadKeeps ==
    ASSUME CodecInv, Load
    PROVE  CodecInv'
<1> DEFINE form == file.fmt
           x == Through(form, object)
<1>1. /\ file # Absent /\ object' = Loaded(file.fmt, file.kind, file.rec)
      /\ via' = Append(via, form) /\ file' = Absent /\ first' = first
  BY DEF Load
<1>2. file.kind = object.kind /\ file.rec = Saved(form, object) /\ Passes(form, object)
  <2>1. file = [fmt |-> form, kind |-> object.kind, rec |-> Saved(form, object)] /\ Passes(form, object)
    BY <1>1 DEF CodecInv
  <2>2. [fmt |-> form, kind |-> object.kind, rec |-> Saved(form, object)].kind = object.kind
        /\ [fmt |-> form, kind |-> object.kind, rec |-> Saved(form, object)].rec = Saved(form, object)
    OBVIOUS
  <2> HIDE DEF form
  <2> QED
    BY <2>1, <2>2
<1>3. object' = x
  BY <1>1, <1>2 DEF Through
<1>4. Plain(object) /\ via \in Seq(LogFormats) /\ form \in LogFormats
  BY <1>2 DEF CodecInv, Passes
<1>5. Kept(x, form, object)
  BY <1>2, <1>4, TripKeeps
<1> HIDE DEF form, x
<1>6. /\ via' \in Seq(LogFormats) /\ DOMAIN via' = 1 .. Len(via) + 1 /\ Len(via) \in Nat
      /\ DOMAIN via = 1 .. Len(via)
      /\ \A i \in 1 .. Len(via) : via'[i] = via[i]
      /\ via'[Len(via) + 1] = form
  BY <1>1, <1>4, AppendProperties, LenProperties
<1>7. Plain(object)' /\ DOMAIN object' = DOMAIN first'
  BY <1>1, <1>3, <1>5 DEF CodecInv, Kept
<1>8. \A other \in LogFormats : Carried(other, first) \subseteq Carried(other, x)
  BY <1>5 DEF CodecInv, Kept
<1>9. KeptSoFar'
  <2>1. SUFFICES ASSUME NEW field \in DOMAIN first,
                        \A i \in DOMAIN via' : field \in Carried(via'[i], first)
                 PROVE  x[field] = first[field]
    BY <1>1, <1>3 DEF KeptSoFar
  <2>2. \A i \in DOMAIN via : field \in Carried(via[i], first)
    BY <1>6, <2>1
  <2>3. object[field] = first[field]
    BY <2>2 DEF CodecInv, KeptSoFar
  <2>4. field \in Carried(form, first)
    BY <1>6, <2>1
  <2>5. field \in Carried(form, object)
    BY <1>4, <2>4 DEF CodecInv
  <2> QED
    BY <1>5, <2>3, <2>5 DEF Kept
<1>10. \A i \in DOMAIN via' : Passes(via'[i], x)
  <2>1. ASSUME NEW i \in DOMAIN via' PROVE Passes(via'[i], x)
    <3>1. Passes(via'[i], object)
      BY <1>2, <1>6 DEF CodecInv
    <3> QED
      BY <1>2, <1>4, <3>1, PassesStill DEF x
  <2> QED
    BY <2>1
<1> QED
  BY <1>1, <1>3, <1>6, <1>7, <1>8, <1>9, <1>10 DEF CodecInv

LEMMA CodecInvNext ==
    ASSUME PlainObjects, CodecInv, [CodecNext]_codecVars
    PROVE  CodecInv'
<1>1. CASE Load
  BY <1>1, LoadKeeps
<1>2. CASE \E form \in {"blf", "asc", "pcap"} : Save(form)
  BY <1>2, SaveKeeps DEF LogFormats
<1>3. CASE UNCHANGED codecVars
  BY <1>3 DEF codecVars, CodecInv, KeptSoFar
<1> QED
  BY <1>1, <1>2, <1>3 DEF CodecNext

LEMMA CodecInvSuffices ==
    ASSUME PlainObjects, CodecInv
    PROVE  ObjectsSurvive
<1>1. \A field \in {f \in DOMAIN first : \A i \in DOMAIN via : f \in Carried(via[i], first)} :
        object[field] = first[field]
  BY DEF CodecInv, KeptSoFar
<1>2. ASSUME NEW i \in DOMAIN via, NEW field \in Carried(via[i], object)
      PROVE  Loaded(via[i], object.kind, Saved(via[i], object))[field] = object[field]
  <2>1. Passes(via[i], object) /\ Plain(object)
    BY DEF CodecInv
  <2>2. Kept(Through(via[i], object), via[i], object)
    BY <2>1, TripKeeps
  <2>3. \A f \in Carried(via[i], object) : Through(via[i], object)[f] = object[f]
    BY <2>2 DEF Kept
  <2> QED
    BY <2>3 DEF Through
<1>3. SurvivesTrips
  BY <1>1, <1>2 DEF SurvivesTrips
<1>4. SameFlowEverywhere
  <2>1. ASSUME NEW tags \in Tags PROVE LastTag(tags) = FirstTag(tags)
    BY OneTag
  <2> QED
    BY <2>1 DEF SameFlowEverywhere
<1> QED
  BY <1>3, <1>4 DEF ObjectsSurvive

\* Any number of trips through log files, in any formats and any order, leave an
\* object as it was in every field that all of those formats have a place for, and
\* one of them more leaves it as it is; and a frame is of the same flow whether it
\* came over the port, from a PCAP or out of a BLF (MCRecording's ObjectsSurvive).
\* For plain objects: the exceptions are the divergences the runs report.
THEOREM ObjectsSurviveTrips == PlainObjects /\ CodecSpec => []ObjectsSurvive
<1> SUFFICES ASSUME PlainObjects PROVE CodecSpec => []ObjectsSurvive
  OBVIOUS
<1>1. CodecInit => CodecInv
  BY CodecInvInit
<1>2. CodecInv /\ [CodecNext]_codecVars => CodecInv'
  BY CodecInvNext
<1>3. CodecInv => ObjectsSurvive
  BY CodecInvSuffices
<1> QED
  BY <1>1, <1>2, <1>3, PTL DEF CodecSpec
=============================================================================
