--------------------------- MODULE ScriptCompiler ---------------------------
(* The compiler of the script language (src/src/script/compiler.rs): a      *)
(* statement becomes stack operations.  A local has no storage of its own:  *)
(* the value its `let` pushes is the slot, and the compiler counts slots    *)
(* while it emits, so code and count must agree along every jump.           *)
(*                                                                          *)
(* A value is [k, n] with k one of int, bool, nil.  Every statement stands  *)
(* on a line of its own; names stand for the indices of globals, constants  *)
(* and the one function.  Positions count from 1.                           *)
EXTENDS Integers, Sequences, SequencesExt

Num(n) == [k |-> "int", n |-> n]
Truth(b) == [k |-> "bool", n |-> IF b THEN 1 ELSE 0]
Nil == [k |-> "nil", n |-> 0]

(* The state of a compilation: the code of the chunk, the locals with the   *)
(* depth of their scope, the jumps each open loop still has to aim, how     *)
(* many locals live at the first operation of each line.                    *)
Chunk(params, inFn, globals) ==
  [globals |-> globals, code |-> <<>>, locals |-> [i \in DOMAIN params |-> [x |-> params[i], depth |-> 1]],
   depth |-> IF inFn THEN 1 ELSE 0, breaks |-> <<>>, continues |-> <<>>, marks |-> <<>>, inFn |-> inFn, ok |-> TRUE]

Emit(c, op, a) == [c EXCEPT !.code = Append(@, [op |-> op, a |-> a])]
Here(c) == Len(c.code) + 1
Aim(c, at, target) == [c EXCEPT !.code[at].a = target]
AimAll(c, ats, target) == FoldLeft(LAMBDA d, at : Aim(d, at, target), c, ats)
Slot(c, x) == SelectLastInSeq(c.locals, LAMBDA l : l.x = x)
Mark(c) == [c EXCEPT !.marks = Append(@, [at |-> Here(c), locals |-> Len(c.locals)])]
Refuse(c) == [c EXCEPT !.ok = FALSE]
Known(c, x) == IF Slot(c, x) > 0 \/ x \in c.globals THEN c ELSE Refuse(c)

(* An expression leaves one value; && and || jump over their right side.    *)
RECURSIVE Expr(_, _)
Expr(c, e) ==
  CASE e.op = "lit" -> Emit(c, "const", e.v)
    [] e.op = "var" -> IF Slot(c, e.x) > 0 THEN Emit(c, "get", Slot(c, e.x)) ELSE Emit(Known(c, e.x), "getglobal", e.x)
    [] e.op \in {"add", "lt"} -> Emit(Expr(Expr(c, e.l), e.r), e.op, Nil)
    [] e.op = "call" -> Emit(Expr(c, e.l), "call", 1)
    [] e.op = "and" ->
         LET l == Emit(Expr(c, e.l), "jumpfalse", 0)
             r == Emit(Expr(l, e.r), "jump", 0)
             f == Emit(Aim(r, Here(l) - 1, Here(r)), "const", Truth(FALSE))
         IN Aim(f, Here(r) - 1, Here(f))
    [] e.op = "or" ->
         LET l == Emit(Expr(c, e.l), "jumpfalse", 0)
             t == Emit(Emit(l, "const", Truth(TRUE)), "jump", 0)
             r == Expr(Aim(t, Here(l) - 1, Here(t)), e.r)
         IN Aim(r, Here(t) - 1, Here(r))

(* The locals of a scope that is left are popped.                           *)
DropLocalsForgotten(c, depth) == [c EXCEPT !.locals = SelectSeq(@, LAMBDA l : l.depth <= depth)]

RECURSIVE DropLocals(_, _)
DropLocals(c, depth) ==
  IF c.locals # <<>> /\ c.locals[Len(c.locals)].depth > depth
  THEN DropLocals(Emit([c EXCEPT !.locals = Front(@)], "pop", Nil), depth)
  ELSE c

OpenLoop(c) == [c EXCEPT !.breaks = Append(@, <<>>), !.continues = Append(@, <<>>)]
CloseLoop(c, onward, again) ==
  LET b == AimAll([c EXCEPT !.breaks = Front(@), !.continues = Front(@)], Last(c.breaks), onward)
  IN AimAll(b, Last(c.continues), again)

(* Where `continue` of a for loop lands: its step.                          *)
StepOfSkipped(c, start) == start
StepOf(c, start) == Here(c)

RECURSIVE Stmt(_, _), Stmts(_, _)
Block(c, body) ==
  LET inner == Stmts([c EXCEPT !.depth = @ + 1], body)
  IN DropLocals([inner EXCEPT !.depth = c.depth], c.depth)

While(c, s) ==
  LET cond == Emit(Expr(c, s.cond), "jumpfalse", 0)
      body == Emit(Block(OpenLoop(cond), s.body), "jump", Here(c))
  IN CloseLoop(Aim(body, Here(cond) - 1, Here(body)), Here(body), Here(c))

For(c, s) ==
  LET init == [Stmt([c EXCEPT !.depth = @ + 1], s.init) EXCEPT !.depth = c.depth]
      cond == Emit(Expr(OpenLoop(init), s.cond), "jumpfalse", 0)
      body == [Block([cond EXCEPT !.depth = @ + 1], s.body) EXCEPT !.depth = c.depth]
      step == Emit(Stmt(body, s.step), "jump", Here(init))
  IN DropLocals(CloseLoop(Aim(step, Here(cond) - 1, Here(step)), Here(step), StepOf(body, Here(init))), c.depth)

If(c, s) ==
  LET cond == Emit(Expr(c, s.cond), "jumpfalse", 0)
      then == Block(cond, s.then)
      jump == Emit(then, "jump", 0)
      els == Block(Aim(jump, Here(cond) - 1, Here(jump)), s.els)
  IN IF s.els = <<>> THEN Aim(then, Here(cond) - 1, Here(then))
     ELSE Aim(els, Here(jump) - 1, Here(els))

Let(c, s) ==
  IF ~c.inFn THEN [Emit(Expr(c, s.e), "setglobal", s.x) EXCEPT !.globals = @ \cup {s.x}]
  ELSE IF Slot(c, s.x) > 0 THEN Refuse(c)
  ELSE [Expr(c, s.e) EXCEPT !.locals = Append(@, [x |-> s.x, depth |-> c.depth])]

Assign(c, s) ==
  LET e == Expr(c, s.e)
  IN IF Slot(c, s.x) > 0 THEN Emit(e, "set", Slot(c, s.x)) ELSE Emit(Known(e, s.x), "setglobal", s.x)

(* A jump out of a loop is emitted at once and aimed when the loop closes.  *)
Leave(c, s) ==
  IF c.breaks = <<>> THEN Refuse(c)
  ELSE LET j == Emit(c, "jump", 0)
       IN IF s.op = "break" THEN [j EXCEPT !.breaks[Len(c.breaks)] = Append(@, Here(c))]
          ELSE [j EXCEPT !.continues[Len(c.continues)] = Append(@, Here(c))]

Stmt(c0, s) ==
  LET c == Mark(c0)
  IN CASE s.op = "let" -> Let(c, s)
       [] s.op = "set" -> Assign(c, s)
       [] s.op = "if" -> If(c, s)
       [] s.op = "while" -> While(c, s)
       [] s.op = "for" -> For(c, s)
       [] s.op = "return" -> IF c.inFn THEN Emit(Expr(c, s.e), "return", Nil) ELSE Refuse(c)
       [] s.op \in {"break", "continue"} -> Leave(c, s)
       [] s.op = "block" -> Block(c, s.body)

Stmts(c, body) == IF body = <<>> THEN c ELSE Stmts(Stmt(c, Head(body)), Tail(body))

(* A function or handler falls off its end with nil.                        *)
Ended(c) == Emit(Emit(c, "const", Nil), "return", Nil)
CompileFn(params, body, globals) == Ended(Block(Chunk(params, TRUE, globals), body))

(* A script: its top level, then one function of one parameter and one      *)
(* handler, which see the globals declared before them.                     *)
Compile(script) ==
  LET main == Ended(Stmts(Chunk(<<>>, FALSE, {}), script.main))
  IN [main |-> main,
      fn |-> CompileFn(<<script.param>>, script.fn, main.globals),
      handler |-> CompileFn(<<>>, script.handler, main.globals)]

Accepted(image) == image.main.ok /\ image.fn.ok /\ image.handler.ok
=============================================================================
