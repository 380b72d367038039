------------------------------ MODULE MCSession ------------------------------
(* What a session receives and shows, on one TLC run: the watch on silent    *)
(* messages, the rings and the merged log, the polls of the trace and of the *)
(* charts, the curves, the commands of the pages; SOME/IP exchanges, network *)
(* management and reassembly.  They share no variable, so a behaviour runs   *)
(* one of them and leaves the others where they started.                     *)
EXTENDS Silence, Reassembly, NetworkManagement, SomeIp, WebSession, TraceFeed

CONSTANTS Series, MaxT, MaxRebuilds, PointCap, Ordered,
          Sources, Label, DefLists, SampleValues, Stride, FastGap, SealPoints, HistorySpan, LastStamp, MaxEdits, Late,
          k1, sv1, g1  \* a call, its service and its eventgroup

VARIABLES part, charts, view, rebuilds, clock, samples, derived, edits, used

(* Two signals of one name on two buses; a curve over both by their bus, one *)
(* over that curve, and one by the bare name, pinned or not.                 *)
MCSources == {<<"A", "x">>, <<"B", "x">>}
MCLabel == [key \in MCSources |-> [bus |-> key[1], name |-> key[2]]]
Ref(bus, called) == [bus |-> bus, name |-> called]
Def(id, called, refs, pins) == [id |-> id, name |-> called, refs |-> refs, pins |-> pins]
MCDefLists ==
  {<<Def("p", "p", <<Ref("A", "x"), Ref("B", "x")>>, <<<<>>, <<>>>>),
     Def("q", "q", <<Ref("", "p"), Ref("A", "x")>>, <<<<>>, <<>>>>)>>,
   <<Def("p", "r", <<Ref("", "x")>>, <<<<"A", "x">>>>)>>,
   <<Def("p", "r", <<Ref("", "x")>>, <<<<>>>>)>>}
Curve == INSTANCE Curves WITH subs <- samples

(* SOME/IP: one call; what scripts and rules do of it.                       *)
MCService == [k \in {k1} |-> sv1]
MCGroup == [g \in {g1} |-> sv1]
Notify(k) == [op |-> "send", type |-> "notification", key |-> k, session |-> 0]
Offer(ttl) == [op |-> "offer", service |-> sv1, ttl |-> ttl]
MCReactions == {[op |-> "nothing"], Notify(k1), Offer(0)}
MCTimed ==
  {Notify(k1), Offer(0), Offer(1), [op |-> "reply", key |-> k1], [op |-> "tcp", key |-> k1, session |-> 0]}
  \cup {[op |-> "send", type |-> t, key |-> k1, session |-> IF t = "response" THEN 1 ELSE 0] :
           t \in {"request", "response"}}

(* Two timings a script may ask for, the first the default.                  *)
MCDefault == [ready |-> 1, prepare |-> 1, timeout |-> 4]
MCTimings == {MCDefault, [ready |-> 2, prepare |-> 1, timeout |-> 3]}

(* Two datagrams of different length that share a flow, and one of its own;  *)
(* a stream of four messages across the end of the sequence space.           *)
MCSize == <<4, 3, 2>>
MCKey == <<1, 1, 2>>
MCTcpStarts == <<0, 2, 3, 6, 8>>

drawnVars == <<charts, view, rebuilds>>
curveVars == <<clock, samples, derived, edits, used>>
shownVars == <<feedVars, drawnVars, curveVars, webVars>>
allVars == <<part, vars, shownVars, someIpVars, nmVars, pieceVars>>

MCInit ==
  /\ part \in {"silence", "trace", "feed", "charts", "curves", "web", "someip", "nm", "pieces"}
  /\ Init /\ FeedInit /\ Curve!ChartsInit /\ Curve!Init /\ WebInit
  /\ SomeIpInit /\ NmInit /\ PiecesInit
  /\ part # "someip" => looped
  /\ part # "pieces" => carried = "ip"

(* The browser polls while CAN rows come; without it rows of all kinds do.   *)
Polls == FeedNext /\ run'.fr = <<>> /\ run'.eth = <<>>

Shows ==
  \/ part = "trace" /\ TraceNext /\ UNCHANGED <<client, drawnVars, curveVars, webVars>>
  \/ part = "feed" /\ Polls /\ UNCHANGED <<drawnVars, curveVars, webVars>>
  \/ part = "charts" /\ Curve!ChartsNext /\ UNCHANGED <<feedVars, curveVars, webVars>>
  \/ part = "curves" /\ Curve!Next /\ UNCHANGED <<feedVars, drawnVars, webVars>>
  \/ part = "web" /\ WebNext /\ UNCHANGED <<feedVars, drawnVars, curveVars>>

MCNext ==
  \/ part = "silence" /\ Next /\ UNCHANGED <<part, shownVars, someIpVars, nmVars, pieceVars>>
  \/ Shows /\ UNCHANGED <<part, vars, someIpVars, nmVars, pieceVars>>
  \/ part = "someip" /\ SomeIpNext /\ UNCHANGED <<part, vars, shownVars, nmVars, pieceVars>>
  \/ part = "nm" /\ NmNext /\ UNCHANGED <<part, vars, shownVars, someIpVars, pieceVars>>
  \/ part = "pieces" /\ PiecesNext /\ UNCHANGED <<part, vars, shownVars, someIpVars, nmVars>>

MCSpec == MCInit /\ [][MCNext]_allVars

Typed ==
  /\ TypeOK /\ FeedTyped /\ Curve!ChartsTyped /\ Curve!TypeOK /\ WebTyped
  /\ SomeIpTyped /\ NmTyped /\ PiecesTyped

(* All parts keep their types.  The browser shows all samples of its charts; *)
(* a history answers as one list would, and a computed curve is its          *)
(* expression over the histories of its sources (Curves).                    *)
CurvesHonest ==
  Typed /\ Curve!ViewDrawsAll /\ Curve!CacheHonest /\ Curve!CurveHonest /\ Curve!CurveComplete
=============================================================================
