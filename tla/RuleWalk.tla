------------------------------- MODULE RuleWalk -------------------------------
(***************************************************************************)
(* The trigger rules (src/src/trigger.rs) and the walk of step that judges *)
(* every frame with them, runs their actions and hands the frame to the    *)
(* node scripts, both of which may put more frames into the same walk      *)
(* (src/src/bus.rs).                                                       *)
(*                                                                         *)
(* A rule is a record: cond "latch" (IdPresent, ErrorFrame,                *)
(* FrFramePresent), "level" (SignalCross, PayloadMatch), "flow" (EthFlow)  *)
(* or "sweep" (timeouts, variables, derived channels); watch, the frames   *)
(* it has an opinion on, and hits, those that raise it; act "send",        *)
(* "sendEth", "clear" or "note", with the frame it sends; cool and max,    *)
(* its cooldown and max_fires.  A stamp is the number of the step.         *)
(***************************************************************************)
EXTENDS Naturals, Sequences, FiniteSets

CONSTANTS
    RuleList,       \* the rules, in list order
    Can, Eth,       \* frames the buses deliver
    Burst,          \* bound: CAN frames delivered in one step
    Replies,        \* frame -> what the node scripts answer it with
    ReactionLimit,  \* MAX_NODE_REACTIONS_PER_STEP
    MaxSteps,       \* bound: steps of a run
    MaxRuns,        \* bound: runs
    FiredCap        \* bound: counters of fires stop here

Rules == 1 .. Len(RuleList)
Latches == {r \in Rules : RuleList[r].cond \in {"latch", "flow"}}

ASSUME RuleWalkAssumption ==
    /\ \A r \in Rules : /\ RuleList[r].cond \in {"latch", "level", "flow", "sweep"}
                        /\ RuleList[r].act \in {"send", "sendEth", "clear", "note"}
                        /\ RuleList[r].max \in Nat /\ RuleList[r].max < FiredCap
                        \* what an IdPresent rule has an opinion on is what it waits for
                        /\ RuleList[r].cond = "latch" => RuleList[r].watch \subseteq RuleList[r].hits
    /\ Len(RuleList) \in Nat /\ Can \cap Eth = {}
    /\ ReactionLimit \in Nat /\ FiredCap \in Nat
    /\ Burst \in Nat /\ MaxSteps \in Nat /\ MaxRuns \in Nat \ {0}

VARIABLES
    run, now,   \* the number of the run, and of its step
    pc,         \* "idle" between steps, "walk", or "swept" at the step's end
    state,      \* per rule: enabled, level, fired and last_fire_t_us
    buf,        \* the frames of buf the walk has not reached yet
    work,       \* what the walk is in the middle of: its call stack
    replies,    \* node_reactions
    hist        \* history, see Fresh

vars == <<run, now, pc, state, buf, work, replies, hist>>

\* Of the appearance rules: fires, how often since the latch was cleared on
\* purpose; met, done: those whose condition a frame met, and that fired, in
\* this run; spent: those that began this run with what an earlier one left
\* them, and were not re-armed since.  lost: a frame was wiped before its walk.
Fresh == [fires |-> [r \in Latches |-> 0], met |-> {}, done |-> {},
          spent |-> {}, lost |-> FALSE]

Bump(k) == IF k < FiredCap THEN k + 1 ELSE k

Frame(f, from) == [id |-> f, from |-> from]
\* The actions of rules that fired, which run_actions takes in list order.
Acts(fired) == IF fired = {} THEN << >> ELSE <<[do |-> "act", rules |-> fired]>>
Ingest(f) == [do |-> "eth", frame |-> f]
Dispatch(f) == [do |-> "node", frame |-> f]

-----------------------------------------------------------------------------
\* can_fire; mutant: the cooldown counts from the start of the run.
CanFireCold(r) ==
    /\ state[r].enabled
    /\ RuleList[r].max = 0 \/ state[r].fired < RuleList[r].max
    /\ RuleList[r].cool = 0 \/ state[r].last + RuleList[r].cool <= now
CanFire(r) ==
    /\ state[r].enabled
    /\ RuleList[r].max = 0 \/ state[r].fired < RuleList[r].max
    /\ RuleList[r].cool = 0 \/ state[r].fired = 0 \/ state[r].last + RuleList[r].cool <= now

\* The rules with an opinion on a CAN frame; mutant: on every frame.
HearsCanAll(r, f) == RuleList[r].cond \in {"latch", "level"}
HearsCan(r, f) == RuleList[r].cond \in {"latch", "level"} /\ f \in RuleList[r].watch

\* A flow rule has an opinion on every Ethernet frame.
HearsEth(r) == RuleList[r].cond = "flow"

Raises(r, f) == f \in RuleList[r].hits

\* Folding levels into the rules: Judge moves the rules of Heard to the levels
\* of Raised and puts the actions of those with an edge before Rest.
Edge(r, heard, raised) == r \in heard \cap raised /\ ~state[r].level /\ CanFire(r)

Judge(hearing, raised, rest) ==
    \E heard \in {{r \in hearing : state[r].enabled}} :
    \E edges \in {{r \in heard : Edge(r, heard, raised)}} :
        /\ state' = [r \in Rules |->
               IF r \notin heard THEN state[r]
               ELSE IF r \notin edges THEN [state[r] EXCEPT !.level = r \in raised]
               ELSE [state[r] EXCEPT !.level = TRUE, !.fired = Bump(@), !.last = now]]
        /\ work' = Acts(edges) \o rest
        /\ hist' = [hist EXCEPT
               !.fires = [r \in Latches |-> IF r \in edges THEN Bump(@[r]) ELSE @[r]],
               !.met = @ \cup (Latches \cap heard \cap raised),
               !.done = @ \cup (Latches \cap edges)]

-----------------------------------------------------------------------------
Init ==
    /\ run = 1 /\ now = 0 /\ pc = "idle" /\ buf = << >> /\ work = << >> /\ replies = 0
    /\ state = [r \in Rules |-> [enabled |-> TRUE, level |-> FALSE, fired |-> 0, last |-> 0]]
    /\ hist = Fresh

\* A step begins: what is left in buf goes, and the buses deliver.  Ethernet
\* frames are ingested before the walk.
BeginStep(cans, eths) ==
    /\ pc = "idle" /\ now < MaxSteps
    /\ pc' = "walk" /\ now' = now + 1 /\ replies' = 0
    /\ buf' = [i \in 1 .. Len(cans) |-> Frame(cans[i], "bus")]
    /\ work' = [i \in 1 .. Len(eths) |-> Ingest(eths[i])]
    /\ hist' = [hist EXCEPT !.lost = @ \/ buf # << >>]
    /\ UNCHANGED <<run, state>>

\* ingest_eth.
IngestEth ==
    /\ work # << >> /\ Head(work).do = "eth"
    /\ Judge({r \in Rules : HearsEth(r)},
             {r \in Rules : Raises(r, Head(work).frame)}, Tail(work))
    /\ UNCHANGED <<run, now, pc, buf, replies>>

\* The walk goes on while buf has frames; mutant: only over those that were in
\* buf when the walk began.
MoreToWalkFrozen == buf # << >> /\ Head(buf).from = "bus"
MoreToWalk == buf # << >>

WalkFrame ==
    /\ pc = "walk" /\ work = << >> /\ MoreToWalk
    /\ Judge({r \in Rules : HearsCan(r, Head(buf).id)},
             {r \in Rules : Raises(r, Head(buf).id)}, <<Dispatch(Head(buf).id)>>)
    /\ buf' = Tail(buf)
    /\ UNCHANGED <<run, now, pc, replies>>

\* One action of run_actions.  send_one_shot queues the frame without writing
\* it to the channel; SendEth is ingested before the next action.
RunAction ==
    /\ work # << >> /\ Head(work).do = "act"
    /\ \E r \in Head(work).rules :
          LET rest == Acts(Head(work).rules \ {r}) \o Tail(work)
          IN  /\ \A q \in Head(work).rules : r <= q
              /\ \/ /\ RuleList[r].act = "send"
                    /\ buf' = Append(buf, Frame(RuleList[r].frame, "rule"))
                    /\ work' = rest /\ UNCHANGED <<state, hist>>
                 \/ /\ RuleList[r].act = "sendEth"
                    /\ work' = <<Ingest(RuleList[r].frame)>> \o rest
                    /\ UNCHANGED <<state, buf, hist>>
                 \/ /\ RuleList[r].act = "clear"
                    /\ state' = [q \in Rules |->
                           IF q \in Latches THEN [state[q] EXCEPT !.level = FALSE] ELSE state[q]]
                    /\ hist' = [hist EXCEPT !.fires = [q \in Latches |-> 0]]
                    /\ work' = rest /\ UNCHANGED buf
                 \/ /\ RuleList[r].act = "note"
                    /\ work' = rest /\ UNCHANGED <<state, buf, hist>>
    /\ UNCHANGED <<run, now, pc, replies>>

\* Is this reply dropped?  Only those of can_send are counted; mutants: none
\* is, one too few.
DroppedNever(reply) == FALSE
DroppedLate(reply) == reply.via = "can_send" /\ replies > ReactionLimit
Dropped(reply) == reply.via = "can_send" /\ replies >= ReactionLimit

\* dispatch_node_frame, and the queueing of what the handlers sent.  The role
\* of a node decides what it sends to the wire, not what the walk gets.
DispatchFrame ==
    LET f == Head(work).frame
        reply == Replies[f]
    IN  /\ work # << >> /\ Head(work).do = "node"
        /\ work' = Tail(work)
        /\ IF f \notin DOMAIN Replies \/ Dropped(reply)
           THEN UNCHANGED <<buf, replies>>
           ELSE /\ buf' = Append(buf, Frame(reply.frame, "node"))
                /\ replies' = IF reply.via = "can_send" /\ replies <= ReactionLimit
                              THEN replies + 1 ELSE replies
        /\ UNCHANGED <<run, now, pc, state, hist>>

\* eval_timeout_triggers, at the end of the walk.
Sweep(raised) ==
    /\ pc = "walk" /\ work = << >> /\ ~MoreToWalk
    /\ pc' = "swept"
    /\ Judge({r \in Rules : RuleList[r].cond = "sweep"}, raised, << >>)
    /\ UNCHANGED <<run, now, buf, replies>>

EndStep ==
    /\ pc = "swept" /\ work = << >>
    /\ pc' = "idle"
    /\ UNCHANGED <<run, now, state, buf, work, replies, hist>>

\* The next run: reset_run leaves the rules alone, and its first step wipes
\* what is left in buf.
Restart ==
    /\ pc = "idle" /\ now > 0 /\ run < MaxRuns
    /\ run' = run + 1 /\ now' = 0
    /\ hist' = [hist EXCEPT !.fires = [r \in Latches |-> 0], !.met = {}, !.done = {},
                            !.spent = {r \in Latches : state[r].level \/ state[r].fired > 0}]
    /\ UNCHANGED <<pc, state, buf, work, replies>>

-----------------------------------------------------------------------------
(* Commands, between two steps.                                            *)

Command(new, cleared, renewed) ==
    /\ pc = "idle" /\ state' = new
    /\ hist' = [hist EXCEPT !.fires = [r \in Latches |-> IF r \in cleared THEN 0 ELSE @[r]],
                            !.met = @ \ renewed, !.done = @ \ renewed,
                            !.spent = @ \ renewed]
    /\ UNCHANGED <<run, now, pc, buf, work, replies>>

SetTriggerEnabled(r, on) == Command([state EXCEPT ![r].enabled = on], {}, {})

\* EditTrigger drops the level; the count stays.
EditTrigger(r) == Command([state EXCEPT ![r].level = FALSE], {r}, {})

RearmTriggers ==
    Command([r \in Rules |-> IF r \in Latches THEN [state[r] EXCEPT !.level = FALSE]
                                              ELSE state[r]], Latches, {})

RearmTrigger(r) ==
    Command([state EXCEPT ![r] = [@ EXCEPT !.level = FALSE, !.fired = 0]], {r}, {r})

CanBursts == UNION {[1 .. k -> Can] : k \in 0 .. Burst}
EthBursts == {<< >>} \cup {<<f>> : f \in Eth}
Swept == SUBSET {r \in Rules : RuleList[r].cond = "sweep"}

\* What the thread is in the middle of; it does not stop there.
Inside == IngestEth \/ WalkFrame \/ RunAction \/ DispatchFrame \/ EndStep
              \/ \E raised \in Swept : Sweep(raised)

Next ==
    \/ \E cans \in CanBursts, eths \in EthBursts : BeginStep(cans, eths)
    \/ Inside \/ Restart \/ RearmTriggers
    \/ \E r \in Rules : \/ EditTrigger(r) \/ RearmTrigger(r)
                        \/ \E on \in BOOLEAN : SetTriggerEnabled(r, on)

Spec == Init /\ [][Next]_vars

FairSpec == Spec /\ WF_vars(Inside)

-----------------------------------------------------------------------------
(* Properties.                                                             *)

\* The walk is idle with an empty stack, and the scripts stay within their
\* limit.
TypeOK ==
    /\ run \in 1 .. MaxRuns /\ now \in 0 .. MaxSteps /\ pc \in {"idle", "walk", "swept"}
    /\ state \in [Rules -> [enabled : BOOLEAN, level : BOOLEAN,
                            fired : 0 .. FiredCap, last : 0 .. MaxSteps]]
    /\ pc = "idle" => work = << >>
    /\ Cardinality({i \in 1 .. Len(buf) : buf[i].from = "node"}) <= ReactionLimit
    /\ replies \in 0 .. ReactionLimit

\* An appearance condition "latches for the run": without a re-arm it fires
\* once, however much traffic of its own and of others follows.
LatchesOnce == \A r \in Latches : hist.fires[r] <= 1

\* "Every run locks once" (docs/usage.md): in every run in which its frame
\* appears while the rule is enabled, an appearance rule fires, whatever its
\* cooldown, its max_fires and the runs before.
FiresInEveryRun == \A r \in Latches : r \in hist.met => r \in hist.done

\* The same of a rule that brought nothing along from an earlier run: whatever
\* other rules, commands and frames do, it fires in the run it is met in.
FiresWhenMet == \A r \in Latches \ hist.spent : r \in hist.met => r \in hist.done

\* A frame a rule or a script puts into the walk "must be processed by this
\* same step, not wiped by the next one" (step).
SentIsWalked == ~hist.lost

\* What the walk owes each rule and each frame.
WalkHonest == LatchesOnce /\ FiresWhenMet /\ SentIsWalked

\* A step ends, whatever rules and scripts answer each other with: "a rule
\* reacting to its own output cannot loop" (send_one_shot) and "a runaway
\* script" is cut off (MAX_NODE_REACTIONS_PER_STEP).
StepEnds == pc = "walk" ~> pc = "idle"
=============================================================================
