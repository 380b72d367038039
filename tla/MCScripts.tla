------------------------------ MODULE MCScripts ------------------------------
(* Rules and script nodes on one TLC run: the walk of a step, the life and   *)
(* the timers of a node, the line debugger, the reading of texts, the        *)
(* machine running compiled scripts.  A behaviour runs one of them.          *)
EXTENDS RuleWalk, ScriptNodes, ScriptDebug, Integers, SequencesExt

CONSTANTS Budget, MaxFrames, MaxInt,
          Escapes   \* the scripts that leave a loop past a `let` of its body, or the others

VARIABLES part, script, image, stage, status, frames, stack, globals, steps, text

Parser == INSTANCE ScriptParser
Lang == INSTANCE ScriptCompiler

(* Small scripts for the compiler and the machine: a handler with one loop,  *)
(* whose body is any two of the statements below, then a `let` after it.     *)
V(x) == [op |-> "var", x |-> x]
L(v) == [op |-> "lit", v |-> v]
Two(op, l, r) == [op |-> op, l |-> l, r |-> r]
Call(e) == [op |-> "call", l |-> e]
LetOf(x, e) == [op |-> "let", x |-> x, e |-> e]
SetOf(x, e) == [op |-> "set", x |-> x, e |-> e]
IfOf(c, then, els) == [op |-> "if", cond |-> c, then |-> then, els |-> els]
Return(e) == [op |-> "return", e |-> e]
Leaving == {[op |-> "break"], [op |-> "continue"]}
Grow(x) == SetOf(x, Two("add", V(x), L(Lang!Num(1))))
Small == Two("lt", V("a"), L(Lang!Num(2)))

(* A jump out of the loop after a `let` of the same loop's body.             *)
RECURSIVE Escaping(_, _)
Escaping(body, lets) ==
  body # <<>> /\
  LET s == Head(body)
  IN \/ s \in Leaving /\ lets
     \/ s.op = "if" /\ (Escaping(s.then, lets) \/ Escaping(s.els, lets))
     \/ s.op = "block" /\ Escaping(s.body, lets)
     \/ Escaping(Tail(body), lets \/ s.op = "let")

Pieces ==
  Leaving \cup
  {IfOf(Small, <<s>>, <<>>) : s \in Leaving \cup {Return(L(Lang!Num(0)))}} \cup
  {LetOf("x", L(Lang!Num(3))),
   SetOf("b", Two("add", V("b"), L(Lang!Num(2)))), SetOf("b", Call(V("a"))), SetOf("b", L(Lang!Truth(TRUE))),
   IfOf(Two("lt", V("b"), V("a")), <<LetOf("z", L(Lang!Num(1))), SetOf("b", V("z"))>>, <<Grow("b")>>),
   IfOf(Two("or", Two("lt", L(Lang!Num(3)), V("b")), Two("lt", V("a"), V("b"))), <<[op |-> "continue"]>>, <<Grow("b")>>),
   [op |-> "block", body |-> <<LetOf("w", V("b")), SetOf("b", Two("add", V("w"), V("a")))>>]}

Bodies == {b \in UNION {[1..n -> Pieces] : n \in 0..2} : Escapes = Escaping(b, FALSE)}

WhileOf(b) == [op |-> "while", cond |-> Two("and", Small, L(Lang!Truth(TRUE))), body |-> <<Grow("a")>> \o b]
ForOf(b) == [op |-> "for", init |-> LetOf("i", L(Lang!Num(0))), cond |-> Two("lt", V("i"), L(Lang!Num(2))),
             step |-> Grow("i"), body |-> b]

Function ==
  <<LetOf("t", V("n")),
    IfOf(Two("lt", V("n"), L(Lang!Num(1))), <<Return(Two("add", V("t"), L(Lang!Num(1))))>>, <<>>),
    Return(Call(Two("add", V("n"), L(Lang!Num(-1)))))>>

Samples ==
  {[main |-> <<LetOf("a", L(Lang!Num(0))), LetOf("g", L(Lang!Num(0)))>>, param |-> "n", fn |-> Function,
    handler |-> <<LetOf("b", L(Lang!Num(0))), loop, LetOf("y", L(Lang!Num(1))),
                  SetOf("g", Two("add", V("b"), V("y")))>>]
     : loop \in {WhileOf(b) : b \in Bodies} \cup {ForOf(b) : b \in Bodies}}

Machine == INSTANCE ScriptVm WITH Scripts <- Samples, Globals <- {"a", "g"}

MCSlotOrder == SetToSeq(Oneshots) \o <<Periodic>>

(* What a handler may do: nothing, fail, arm, disarm, change the beat.       *)
ArmTimer(x, ms) == [op |-> "set_timer", name |-> x, ms |-> ms]
Cancel(x) == [op |-> "cancel_timer", name |-> x]
MCPrograms ==
  {<<>>, Fails, <<[op |-> "set_period", ms |-> 1]>>, <<[op |-> "stop_timer"]>>}
  \cup {<<ArmTimer(x, 1)>> : x \in Oneshots} \cup {<<Cancel(x)>> : x \in Oneshots}

(* Rule lists.  Frames: a, b0 and b1 on CAN, e on Ethernet.                  *)
R(cond, watch, hits, act, frame, cool, max) ==
    [cond |-> cond, watch |-> watch, hits |-> hits, act |-> act, frame |-> frame,
     cool |-> cool, max |-> max]

\* An appearance that answers itself, a signal that clears the trace, a
\* timeout that notes, and a flow with a cooldown and a cap that answers itself.
MCRules == << R("latch", {"a"}, {"a"}, "send", "a", 0, 0),
              R("level", {"b0", "b1"}, {"b1"}, "clear", "", 2, 0),
              R("sweep", {}, {}, "note", "", 0, 1),
              R("flow", {"e"}, {"e"}, "sendEth", "e", 2, 1) >>

OneRule == << R("latch", {"a"}, {"a"}, "send", "b0", 0, 0) >>

\* Two handlers that answer each other.
Echo(via) == [f \in {"b0", "b1"} |->
                 [via |-> via, frame |-> IF f = "b0" THEN "b1" ELSE "b0"]]
NoReply == [f \in {} |-> 0]
CanEcho == Echo("can_send")
FrameEcho == Echo("frame_send")

machineVars == <<script, image, stage, status, frames, stack, globals, steps>>
allVars == <<part, vars, nodeVars, debugVars, machineVars, text>>

MCInit ==
  /\ part \in {"walk", "node", "debug", "machine", "text"}
  /\ Init /\ NodeInit /\ DebugInit
  /\ part # "node" => node.enabled /\ node.source \in Compiles
  /\ IF part = "text" THEN Parser!InitTexts ELSE text = <<"none", <<>>>>
  /\ \/ part = "machine" /\ Machine!VmInit
     \/ /\ part # "machine"
        /\ script = 0 /\ image = 0 /\ stage = 0 /\ status = 0
        /\ frames = 0 /\ stack = 0 /\ globals = 0 /\ steps = 0

MCNext ==
  \/ part = "walk" /\ Next /\ UNCHANGED <<part, nodeVars, debugVars, machineVars, text>>
  \/ part = "node" /\ NodeNext /\ UNCHANGED <<part, vars, debugVars, machineVars, text>>
  \/ part = "debug" /\ DebugNext /\ UNCHANGED <<part, vars, nodeVars, machineVars, text>>
  \/ part = "machine" /\ Machine!VmNext /\ UNCHANGED <<part, vars, nodeVars, debugVars, text>>

(* The core thread is scheduled: it goes on with the step it is in, and      *)
(* leaves the debugger's wait when it may.                                   *)
Core ==
  \/ part = "walk" /\ Inside /\ UNCHANGED <<part, nodeVars, debugVars, machineVars, text>>
  \/ part = "debug" /\ CoreThread /\ UNCHANGED <<part, vars, nodeVars, machineVars, text>>

MCSpec == MCInit /\ [][MCNext]_allVars /\ WF_allVars(Core)

(* The parts keep their types; a text is read as it is written               *)
(* (ScriptParser), and a compiled script does what its source says           *)
(* (ScriptVm).                                                               *)
RunsAsWritten ==
  /\ TypeOK /\ DebugTypeOK
  /\ Parser!TextRead /\ (part = "machine" => Machine!RunsAsWritten)

(* The core thread always goes on: a step that began ends (RuleWalk), and a  *)
(* pause of the debugger is over some time (ScriptDebug).                    *)
CoreGoesOn == StepEnds /\ CoreReleased

(* The comment on leaving a scope, compiler.rs (ScriptVm).                   *)
SlotsMatchLocals == part = "machine" => Machine!SlotsMatchLocals
=============================================================================
