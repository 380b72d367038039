---------------------------- MODULE ScriptDebug ----------------------------
(* The line debugger (src/src/script/debug.rs): the core thread runs script  *)
(* instructions and parks inside the VM; browser requests act on the control *)
(* under its mutex.  The VM asks "is my node armed" before it takes the      *)
(* mutex, and between the check that hits and the wait it holds nothing.     *)
EXTENDS Naturals

CONSTANTS Nodes, Lines,
          NoNode, NoLine,
          Patience,     \* CLIENT_TIMEOUT, in ticks of the condvar wait
          MaxRequests   \* browser requests of a behaviour; then it is gone

ASSUME DebugAssumption == Patience \in Nat

VARIABLES target,     \* the atomics active and target: the armed node or NoNode
          ctl,        \* the control behind the mutex
          vm,         \* the core thread: where it is, node, line, entry
          requests    \* browser requests so far (bound)
debugVars == <<target, ctl, vm, requests>>

DebugInit ==
  /\ target = NoNode
  /\ ctl = [enabled |-> FALSE, node |-> NoNode, breakpoints |-> {}, step_from |-> NoLine,
            pause_requested |-> FALSE, paused |-> FALSE, view_ready |-> FALSE,
            skip_line |-> NoLine, line |-> NoLine, idle |-> 0]
  /\ vm = [pc |-> "run", node |-> NoNode, line |-> NoLine, entry |-> FALSE]
  /\ requests = 0

-----------------------------------------------------------------------------
(* The core thread.                                                          *)

(* The next instruction is on line l of node n; "entry" is history: the line *)
(* is entered anew, by a new handler run or from another line.               *)
Fetch(n, l, entry) ==
  /\ vm.pc = "run"
  /\ vm' = [pc |-> IF target = n THEN "check" ELSE "run",
            node |-> n, line |-> l, entry |-> entry]
  /\ UNCHANGED <<target, ctl, requests>>

StartHandler(n, l) == Fetch(n, l, TRUE)

NextInstruction(l) ==
  /\ vm.node # NoNode
  /\ Fetch(vm.node, l, l # vm.line)

(* should_pause: a finished line step, a requested pause or a breakpoint     *)
(* that did not just fire here.                                              *)
Stepped(l)     == ctl.step_from # NoLine /\ l # ctl.step_from
Breaks(l)      == l \in ctl.breakpoints /\ ctl.skip_line # l
Hits(l)        == Stepped(l) \/ ctl.pause_requested \/ Breaks(l)

HitShown(l) ==
  [ctl EXCEPT !.step_from = IF Stepped(l) THEN NoLine ELSE @,
              !.pause_requested = Stepped(l) /\ @,
              !.paused = TRUE, !.view_ready = TRUE, !.skip_line = l,
              !.line = l, !.idle = 0]

Hit(l) ==
  [ctl EXCEPT !.step_from = IF Stepped(l) THEN NoLine ELSE @,
              !.pause_requested = Stepped(l) /\ @,
              !.paused = TRUE, !.view_ready = FALSE, !.skip_line = l,
              !.line = l, !.idle = 0]

Missed(l) == [ctl EXCEPT !.skip_line = IF @ # l THEN NoLine ELSE @]

ShouldPause ==
  /\ vm.pc = "check"
  /\ ctl' = IF ~ctl.enabled THEN ctl
            ELSE IF Hits(vm.line) THEN Hit(vm.line) ELSE Missed(vm.line)
  /\ vm' = [vm EXCEPT !.pc = IF ctl.enabled /\ Hits(vm.line) THEN "hit" ELSE "run"]
  /\ UNCHANGED <<target, requests>>

(* wait_paused: a request that came in between lets the VM through.          *)
WaitPaused ==
  /\ vm.pc = "hit"
  /\ IF ctl.enabled /\ ctl.paused
     THEN /\ ctl' = [ctl EXCEPT !.view_ready = TRUE, !.line = vm.line, !.idle = 0]
          /\ vm' = [vm EXCEPT !.pc = "parked"]
     ELSE /\ vm' = [vm EXCEPT !.pc = "run"]
          /\ UNCHANGED ctl
  /\ UNCHANGED <<target, requests>>

Held == ctl.enabled /\ ctl.paused

Resumed ==
  /\ vm.pc = "parked" /\ ~Held
  /\ vm' = [vm EXCEPT !.pc = "run"]
  /\ UNCHANGED <<target, ctl, requests>>

(* The wait wakes by itself; past the patience it disarms the debugger.      *)
TimedOutNever == FALSE

TimedOut == ctl.idle > Patience

WaitTimeout ==
  /\ vm.pc = "parked" /\ Held
  /\ IF TimedOut
     THEN /\ ctl' = [ctl EXCEPT !.enabled = FALSE, !.paused = FALSE, !.view_ready = FALSE]
          /\ target' = NoNode
          /\ vm' = [vm EXCEPT !.pc = "run"]
     ELSE /\ ctl' = [ctl EXCEPT !.idle = IF @ <= Patience THEN @ + 1 ELSE @]
          /\ UNCHANGED <<target, vm>>
  /\ UNCHANGED requests

-----------------------------------------------------------------------------
(* The browser: every request publishes, which counts as a poll.             *)

Request(c, t) ==
  /\ requests < MaxRequests
  /\ requests' = requests + 1
  /\ ctl' = [c EXCEPT !.idle = 0]
  /\ target' = t
  /\ UNCHANGED vm

Arm(n, lines) ==
  Request([ctl EXCEPT !.enabled = TRUE, !.node = n, !.breakpoints = lines,
                      !.step_from = NoLine, !.pause_requested = FALSE,
                      !.paused = FALSE, !.view_ready = FALSE, !.skip_line = NoLine,
                      !.line = NoLine], n)

SetBreakpoints(lines) == Request([ctl EXCEPT !.breakpoints = lines], target)

Pause == Request([ctl EXCEPT !.pause_requested = @ \/ ctl.enabled], target)

Resume(step) ==
  Request([ctl EXCEPT !.paused = FALSE, !.view_ready = FALSE, !.pause_requested = FALSE,
                      !.step_from = IF step THEN ctl.line ELSE NoLine], target)

Stop ==
  Request([ctl EXCEPT !.enabled = FALSE, !.paused = FALSE, !.view_ready = FALSE,
                      !.pause_requested = FALSE, !.step_from = NoLine,
                      !.skip_line = NoLine], NoNode)

View == Request(ctl, target)

CoreThread ==
  \/ \E n \in Nodes, l \in Lines : StartHandler(n, l)
  \/ \E l \in Lines : NextInstruction(l)
  \/ ShouldPause
  \/ WaitPaused
  \/ Resumed
  \/ WaitTimeout

Browser ==
  \/ \E n \in Nodes, lines \in SUBSET Lines : Arm(n, lines)
  \/ \E lines \in SUBSET Lines : SetBreakpoints(lines)
  \/ Pause
  \/ \E step \in BOOLEAN : Resume(step)
  \/ Stop
  \/ View

DebugNext == CoreThread \/ Browser

(* The core thread is scheduled; the browser need not send anything.         *)
DebugSpec == DebugInit /\ [][DebugNext]_debugVars /\ WF_debugVars(CoreThread)

-----------------------------------------------------------------------------
(* The state keeps its shape.                                                *)
DebugTypeOK ==
  /\ target \in Nodes \cup {NoNode}
  /\ ctl \in [enabled : BOOLEAN, node : Nodes \cup {NoNode}, breakpoints : SUBSET Lines,
              step_from : Lines \cup {NoLine}, pause_requested : BOOLEAN,
              paused : BOOLEAN, view_ready : BOOLEAN, skip_line : Lines \cup {NoLine},
              line : Lines \cup {NoLine}, idle : 0..(Patience + 1)]
  /\ vm \in [pc : {"run", "check", "hit", "parked"}, node : Nodes \cup {NoNode},
             line : Lines \cup {NoLine}, entry : BOOLEAN]

(* The view claims a pause only of a thread that is parked, and at the line  *)
(* it is parked at, whatever requests came between the hit and the wait      *)
(* (debug.rs view_ready: "must not claim paused until wait_paused").         *)
PauseIsReal ==
  (ctl.paused /\ ctl.view_ready) =>
    /\ vm.pc = "parked" /\ vm.line = ctl.line

(* A parked core always goes on: by a request, or by the timeout once the    *)
(* browser is gone, so no measurement stands still for ever (debug.rs        *)
(* CLIENT_TIMEOUT).                                                          *)
CoreReleased == (vm.pc = "parked") ~> (vm.pc # "parked")

(* The debugger stops the node it is bound to and no other.                  *)
StopsBoundNode == vm.pc = "parked" /\ Held => vm.node = ctl.node

(* A breakpoint fires each time its line is entered (docs/script_language.md *)
(* 776).                                                                     *)
StopsAtEveryEntry ==
  [][(ShouldPause /\ ctl.enabled /\ vm.entry /\ vm.line \in ctl.breakpoints)
       => vm'.pc = "hit"]_debugVars
=============================================================================
