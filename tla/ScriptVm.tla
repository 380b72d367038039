------------------------------ MODULE ScriptVm ------------------------------
(* The virtual machine of the scripts (src/src/script/vm.rs) running what   *)
(* ScriptCompiler emits: the top level once, then a handler on the globals  *)
(* it left, each under a budget of instructions.  The handler's value is    *)
(* discarded; what a script leaves behind is its globals.                   *)
EXTENDS ScriptCompiler

CONSTANTS
  Scripts,     \* the scripts that are run
  Globals,     \* the names of their globals
  Budget,      \* instructions one run may take
  MaxFrames,   \* frames of calls at one time (MAX_FRAMES)
  MaxInt       \* the largest integer

VARIABLES script, image, stage, status, frames, stack, globals, steps

vmVars == <<script, image, stage, status, frames, stack, globals, steps>>

VmInit ==
  /\ script \in Scripts /\ image = Compile(script) /\ Accepted(image)
  /\ stage = "main" /\ status = "run"
  /\ frames = <<[chunk |-> "main", ip |-> 1, base |-> 0]>>
  /\ stack = <<>> /\ steps = 0
  /\ globals = [g \in Globals |-> Nil]

Frame == frames[Len(frames)]
Code == image[Frame.chunk].code
Op == Code[Frame.ip]
Tops(n) == SubSeq(stack, Len(stack) - n + 1, Len(stack))
Below(n) == SubSeq(stack, 1, Len(stack) - n)

(* One instruction: counted against the budget, the ip moved past it first. *)
Fetch(ops) == status = "run" /\ steps < Budget /\ Op.op \in ops /\ steps' = steps + 1
Goto(target) == frames' = [frames EXCEPT ![Len(frames)].ip = target]
Onward == Goto(Frame.ip + 1)
Fail == status' = "error" /\ UNCHANGED <<frames, stack, globals, script, image, stage>>
Still == UNCHANGED <<status, globals, script, image, stage>>

Push == Fetch({"const"}) /\ stack' = Append(stack, Op.a) /\ Onward /\ Still

GetLocal == Fetch({"get"}) /\ stack' = Append(stack, stack[Frame.base + Op.a]) /\ Onward /\ Still

SetLocal ==
  /\ Fetch({"set"})
  /\ stack' = [Below(1) EXCEPT ![Frame.base + Op.a] = Last(stack)]
  /\ Onward /\ Still

GetGlobal == Fetch({"getglobal"}) /\ stack' = Append(stack, globals[Op.a]) /\ Onward /\ Still

SetGlobal ==
  /\ Fetch({"setglobal"})
  /\ globals' = [globals EXCEPT ![Op.a] = Last(stack)] /\ stack' = Below(1)
  /\ Onward /\ UNCHANGED <<status, script, image, stage>>

(* Sums are checked and only numbers are added or ordered.                  *)
Sum(a, b) == IF a.n + b.n > MaxInt THEN {} ELSE {Num(a.n + b.n)}
Result(op, a, b) ==
  IF a.k # "int" \/ b.k # "int" THEN {} ELSE IF op = "add" THEN Sum(a, b) ELSE {Truth(a.n < b.n)}

Binary ==
  /\ Fetch({"add", "lt"})
  /\ LET two == Tops(2)
         v == Result(Op.op, two[1], two[2])
     IN \/ v = {} /\ Fail
        \/ \E r \in v : stack' = Append(Below(2), r) /\ Onward /\ Still

Jump == Fetch({"jump"}) /\ Goto(Op.a) /\ UNCHANGED stack /\ Still

JumpIfFalse ==
  /\ Fetch({"jumpfalse"})
  /\ \/ Last(stack).k # "bool" /\ Fail
     \/ Last(stack) = Truth(FALSE) /\ stack' = Below(1) /\ Goto(Op.a) /\ Still
     \/ Last(stack) = Truth(TRUE) /\ stack' = Below(1) /\ Onward /\ Still

(* The arguments of a call are the first locals of its frame.               *)
BaseOf(argc) == Len(stack) - argc

Call ==
  /\ Fetch({"call"})
  /\ \/ Len(frames) >= MaxFrames /\ Fail
     \/ /\ Len(frames) < MaxFrames
        /\ frames' = Append([frames EXCEPT ![Len(frames)].ip = @ + 1],
                            [chunk |-> "fn", ip |-> 1, base |-> BaseOf(Op.a)])
        /\ UNCHANGED stack /\ Still

Pop == Fetch({"pop"}) /\ stack' = Below(1) /\ Onward /\ Still

(* A return drops what its frame left on the stack but the value.           *)
Return ==
  /\ Fetch({"return"})
  /\ frames' = Front(frames)
  /\ stack' = Append(SubSeq(stack, 1, Frame.base), Last(stack))
  /\ status' = IF Len(frames) = 1 THEN "done" ELSE status
  /\ UNCHANGED <<globals, script, image, stage>>

OutOfBudget ==
  /\ status = "run" /\ steps >= Budget
  /\ status' = "budget" /\ UNCHANGED <<frames, stack, globals, steps, script, image, stage>>

(* An event: the handler runs on a fresh stack and a fresh budget.          *)
RunHandler ==
  /\ stage = "main" /\ status = "done"
  /\ stage' = "handler" /\ status' = "run"
  /\ frames' = <<[chunk |-> "handler", ip |-> 1, base |-> 0]>>
  /\ stack' = <<>> /\ steps' = 0 /\ UNCHANGED <<globals, script, image>>

VmNext ==
  \/ Push \/ GetLocal \/ SetLocal \/ GetGlobal \/ SetGlobal \/ Binary \/ Jump
  \/ JumpIfFalse \/ Call \/ Pop \/ Return \/ OutOfBudget \/ RunHandler

VmSpec == VmInit /\ [][VmNext]_vmVars

-----------------------------------------------------------------------------
(* What a script means, without stack or jumps: a statement maps the        *)
(* variables in scope to those it leaves and says how it ends.  `fuel` is   *)
(* the number of loop rounds and calls the definition may still unfold.     *)
RECURSIVE Value(_, _, _, _), Does(_, _, _, _), All(_, _, _, _), Loop(_, _, _, _)

Ends(sig, env) == [sig |-> sig, env |-> env, v |-> Nil]
Gives(v, env) == [sig |-> "next", env |-> env, v |-> v]
Scoped(r, env) == [r EXCEPT !.env = [x \in DOMAIN env |-> r.env[x]]]

Value(s, e, env, fuel) ==
  IF fuel = 0 THEN Ends("stuck", env)
  ELSE IF e.op = "lit" THEN Gives(e.v, env)
  ELSE IF e.op = "var" THEN Gives(env[e.x], env)
  ELSE LET l == Value(s, e.l, env, fuel)
       IN IF l.sig # "next" THEN l
          ELSE IF e.op = "call"
               THEN LET outer == [x \in Globals |-> l.env[x]]
                        r == All(s, s.fn, outer @@ (s.param :> l.v), fuel - 1)
                    IN IF r.sig \in {"error", "stuck"} THEN [r EXCEPT !.env = l.env]
                       ELSE Gives(r.v, [x \in Globals |-> r.env[x]] @@ l.env)
          ELSE IF e.op \in {"and", "or"} /\ l.v.k # "bool" THEN Ends("error", env)
          ELSE IF e.op \in {"and", "or"} /\ l.v = Truth(e.op = "or") THEN l
          ELSE LET r == Value(s, e.r, l.env, fuel)
               IN IF r.sig # "next" \/ e.op \in {"and", "or"} THEN r
                  ELSE LET v == Result(e.op, l.v, r.v)
                       IN IF v = {} THEN Ends("error", env) ELSE Gives(CHOOSE x \in v : TRUE, r.env)

(* A loop: the condition, the body, the step, again.                        *)
Loop(s, w, env, fuel) ==
  LET c == Value(s, w.cond, env, fuel)
      body == Scoped(All(s, w.body, c.env, fuel), c.env)
      step == IF w.op = "for" THEN Does(s, w.step, body.env, fuel) ELSE body
  IN IF c.sig # "next" THEN c
     ELSE IF c.v.k # "bool" THEN Ends("error", c.env)
     ELSE IF c.v = Truth(FALSE) THEN Ends("next", c.env)
     ELSE IF body.sig = "break" THEN Ends("next", body.env)
     ELSE IF body.sig \notin {"next", "continue"} THEN body
     ELSE IF step.sig \in {"error", "stuck"} THEN step
     ELSE Loop(s, w, step.env, fuel - 1)

Does(s, t, env, fuel) ==
  CASE t.op \in {"break", "continue"} -> Ends(t.op, env)
    [] t.op = "block" -> Scoped(All(s, t.body, env, fuel), env)
    [] t.op = "while" -> Loop(s, t, env, fuel)
    [] t.op = "for" ->
         LET i == Does(s, t.init, env, fuel)
         IN IF i.sig # "next" THEN i ELSE Scoped(Loop(s, t, i.env, fuel), env)
    [] t.op = "if" ->
         LET c == Value(s, t.cond, env, fuel)
         IN IF c.sig # "next" THEN c
            ELSE IF c.v.k # "bool" THEN Ends("error", c.env)
            ELSE Scoped(All(s, IF c.v = Truth(TRUE) THEN t.then ELSE t.els, c.env, fuel), env)
    [] OTHER ->
         LET r == Value(s, t.e, env, fuel)
         IN IF r.sig # "next" THEN r
            ELSE IF t.op = "return" THEN [r EXCEPT !.sig = "return"]
            ELSE Ends("next", (t.x :> r.v) @@ r.env)

All(s, body, env, fuel) ==
  IF body = <<>> THEN Ends("next", env)
  ELSE LET r == Does(s, Head(body), env, fuel)
       IN IF r.sig = "next" THEN All(s, Tail(body), r.env, fuel) ELSE r

Meaning(s) ==
  LET main == All(s, s.main, [g \in Globals |-> Nil], Budget)
  IN All(s, s.handler, main.env, Budget)

(* The machine does what the script says: a handler that runs to its end    *)
(* leaves the globals the script's meaning gives them, and it fails only    *)
(* where the script does.                                                   *)
RunsAsWritten ==
  /\ stage = "handler" /\ status = "done" =>
       LET m == Meaning(script)
       IN m.sig \in {"next", "return"} /\ \A g \in Globals : globals[g] = m.env[g]
  /\ stage = "handler" /\ status = "error" /\ Len(frames) < MaxFrames => Meaning(script).sig = "error"

(* The comment on leaving a scope: at the first operation of a line the top *)
(* of the stack is the last local in scope, so a new `let` lands on its     *)
(* slot.                                                                    *)
SlotsMatchLocals ==
  status = "run" =>
    \A i \in DOMAIN image[Frame.chunk].marks :
      LET m == image[Frame.chunk].marks[i]
      IN m.at = Frame.ip => Len(stack) = Frame.base + m.locals
=============================================================================
