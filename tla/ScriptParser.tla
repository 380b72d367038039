---------------------------- MODULE ScriptParser ----------------------------
(* The lexer and the recursive-descent parser of the script language         *)
(* (src/src/script/lexer.rs, parser.rs).  A text is a sequence of tokens,     *)
(* each a short string, names in quotes marked by an apostrophe; a result is  *)
(* [at, tree]: where the reading goes on, 0 where it failed, and what was     *)
(* read, a tuple with its kind first.  Reading on at 0 fails again, which is  *)
(* what the `?` of the source does.  Numbers are counted in halves.           *)
EXTENDS Integers, Sequences, SequencesExt, FiniteSets, TLC

(* ------------------------------ characters ------------------------------ *)

Char(s, i) == IF i \in DOMAIN s THEN s[i] ELSE ""
Digit == {"0", "1"}
Letter == {"x"}

(* Operators are read longest first.                                         *)
OperatorEnd(s, i) ==
  LET c == s[i]
      n == Char(s, i + 1)
  IN CASE c \in {"<", ">"} /\ n = c -> i + (IF Char(s, i + 2) = "=" THEN 3 ELSE 2)
       [] c \in {"&", "|"} /\ n = c -> i + 2
       [] c \in {"=", "!", "<", ">", "&", "|", "^", "+", "-", "*", "/", "%"} /\ n = "=" -> i + 2
       [] OTHER -> i + 1

RECURSIVE RunEnd(_, _, _)
RunEnd(s, i, of) == IF Char(s, i) \in of THEN RunEnd(s, i + 1, of) ELSE i

(* A point belongs to a number when a digit follows it.                      *)
NumberEnd(s, i) ==
  LET whole == RunEnd(s, i, Digit)
  IN IF Char(s, whole) = "." /\ Char(s, whole + 1) \in Digit
     THEN RunEnd(s, whole + 1, Digit) ELSE whole

(* Past the end of a comment, 0 when it is left open.                        *)
RECURSIVE CommentEnd(_, _)
CommentEnd(s, i) ==
  CASE i > Len(s) -> 0
    [] i <= Len(s) -> IF s[i] = "*" /\ Char(s, i + 1) = "/" THEN i + 2 ELSE CommentEnd(s, i + 1)

RECURSIVE Lex(_, _)
Lex(s, i) ==
  LET c == Char(s, i)
      two == <<c, Char(s, i + 1)>>
      end == CASE c \in Digit -> NumberEnd(s, i)
               [] c \in Letter -> RunEnd(s, i, Letter \cup Digit)
               [] OTHER -> OperatorEnd(s, i)
  IN IF c = "" \/ two = <<"/", "/">> THEN <<>>
     ELSE IF c = " " THEN Lex(s, i + 1)
     ELSE IF two = <<"/", "*">>
     THEN IF CommentEnd(s, i + 2) = 0 THEN <<"unterminated">> ELSE Lex(s, CommentEnd(s, i + 2))
     ELSE <<SubSeq(s, i, end - 1)>> \o Lex(s, end)

(* -------------------------------- tokens -------------------------------- *)

Halves == "0" :> 0 @@ "1" :> 2 @@ "2" :> 4 @@ "255" :> 510 @@ "256" :> 512 @@ "65535" :> 131070
          @@ "65536" :> 131072 @@ "536870911" :> 1073741822 @@ "536870912" :> 1073741824
          @@ "0.5" :> 1 @@ "1.5" :> 3
IsNumber(x) == x \in DOMAIN Halves
IsInt(x) == IsNumber(x) /\ Halves[x] % 2 = 0
Value(x) == Halves[x] \div 2

Quoted == "'" :> "" @@ "'M'" :> "M" @@ "'P'" :> "P" @@ "'S'" :> "S" @@ "'go'" :> "go"
IsString(x) == x \in DOMAIN Quoted

FrBus == "FR0" :> 0 @@ "FR256" :> 256
EthBus == "ETH0" :> 0 @@ "ETH256" :> 256
Reserved == {"this", "node", "FR", "ETH", "frame"} \cup DOMAIN FrBus \cup DOMAIN EthBus
Events == {"start", "stop", "panel_action", "extended", "message", "timer", "errorFrame", "someip", "fr", "slot"}
Names == {"x", "y", "a", "f", "M", "P", "S", "ms", "s", "bus", "id", "len", "cycle", "signal",
          "set_timer", "set_period"} \cup Events
IsIdent(x) == x \in Names \cup Reserved

BinaryOps == {"+", "-", "*", "/", "%", "&", "|", "^", "<<", ">>"}
Compound == [x \in {op \o "=" : op \in BinaryOps} |-> CHOOSE op \in BinaryOps : op \o "=" = x]

Tok(t, p) == IF p \in DOMAIN t THEN t[p] ELSE ""
Bad == [at |-> 0, tree |-> <<>>]
Leaf(p, tree) == [at |-> p, tree |-> tree]
None == <<"none">>

Expect(t, p, x) == IF Tok(t, p) = x THEN p + 1 ELSE 0
IdentAt(t, p) == IF IsIdent(Tok(t, p)) THEN p + 1 ELSE 0
VarIdent(t, p) == IF IsIdent(Tok(t, p)) /\ Tok(t, p) \notin Reserved THEN p + 1 ELSE 0
Close(t, r, x) == [r EXCEPT !.at = Expect(t, @, x)]

(* .name or ["name"].                                                        *)
AtLiteralBracket(t, p) == Tok(t, p) = "[" /\ IsString(Tok(t, p + 1)) /\ Tok(t, p + 2) = "]"
Member(t, p) ==
  IF Tok(t, p) = "." THEN Leaf(IdentAt(t, p + 1), Tok(t, p + 1))
  ELSE IF AtLiteralBracket(t, p) THEN Leaf(p + 3, Quoted[Tok(t, p + 1)]) ELSE Bad

IsUnit(x) == x \in {"ms", "s"}

(* A number with a unit is a whole number of milliseconds, one or more; the  *)
(* tree of the result is <<>> when no unit follows.                          *)
DurationTail(t, p, number) ==
  LET ms == Halves[number] * (IF Tok(t, p) = "s" THEN 1000 ELSE 1)
  IN IF ~IsUnit(Tok(t, p)) THEN Leaf(p, <<>>)
     ELSE IF ms < 2 \/ ms % 2 # 0 THEN Bad
     ELSE Leaf(p + 1, <<"int", ms \div 2>>)

Literal(x) == IF IsInt(x) THEN <<"int", Value(x)>> ELSE <<"float", Halves[x]>>

(* ------------------------------ expressions ----------------------------- *)

(* Every rule that can contain itself is read through Read(rule, t, p, x):   *)
(* p is the place or the tree to go on from, x what else the rule needs.     *)
RECURSIVE Read(_, _, _, _)
Expr(t, p) == Read("level", t, p, 1)

Levels == <<{"||"}, {"&&"}, {"|"}, {"^"}, {"&"}, {"==", "!="}, {"<", "<=", ">", ">="},
            {"<<", ">>"}, {"+", "-"}, {"*", "/", "%"}>>

Ladder(t, p, n) ==
  LET lhs == Read("level", t, p, n + 1)
  IN IF n > Len(Levels) THEN Read("unary", t, p, 0) ELSE Read("climb", t, lhs, n)

(* One level: operands of the next tighter one, gathered from the left.      *)
Climb(t, lhs, n) ==
  IF Tok(t, lhs.at) \notin Levels[n] THEN lhs
  ELSE LET rhs == Read("level", t, lhs.at + 1, n + 1)
       IN Read("climb", t, Leaf(rhs.at, <<"bin", Tok(t, lhs.at), lhs.tree, rhs.tree>>), n)

Unary(t, p) ==
  IF Tok(t, p) \in {"-", "!"}
  THEN LET e == Read("unary", t, p + 1, 0) IN Leaf(e.at, <<"un", t[p], e.tree>>)
  ELSE LET e == Read("primary", t, p, 0) IN Read("postfix", t, e, 0)

(* One argument: the period of a timer may carry a unit.                     *)
Arg(t, p, fn, k) ==
  LET timed == <<fn, k>> \in {<<"set_timer", 1>>, <<"set_period", 0>>}
      d == DurationTail(t, p + 1, t[p])
  IN IF timed /\ IsNumber(Tok(t, p))
     THEN IF d.at # 0 /\ d.tree = <<>> THEN Leaf(p + 1, Literal(t[p])) ELSE d
     ELSE Expr(t, p)

(* The arguments from p on, behind those that were read.                     *)
Args(t, p, fn, read) ==
  LET a == Arg(t, p, fn, Len(read))
      all == Append(read, a.tree)
  IN IF Tok(t, a.at) = "," THEN Read("args", t, a.at + 1, <<fn, all>>) ELSE Leaf(Expect(t, a.at, ")"), all)

Postfix(t, e) ==
  LET p == e.at
      index == Close(t, Expr(t, p + 1), "]")
      args == IF Tok(t, p + 1) = ")" THEN Leaf(p + 2, <<>>) ELSE Read("args", t, p + 1, <<e.tree[2], <<>>>>)
  IN CASE Tok(t, p) = "(" -> IF e.tree[1] # "id" THEN Bad
                             ELSE Read("postfix", t, Leaf(args.at, <<"call", e.tree[2], args.tree>>), 0)
       [] Tok(t, p) = "[" -> Read("postfix", t, Leaf(index.at, <<"index", e.tree, index.tree>>), 0)
       [] Tok(t, p) = ":" /\ Tok(t, p + 1) = ":" -> Bad
       [] OTHER -> e

CallOf(fn, args) == <<"call", fn, args>>
Str(x) == <<"str", x>>

(* What `this` is followed by, at p.                                         *)
ThisFields == "bus" :> "frame_bus" @@ "id" :> "frame_can_id" @@ "slot" :> "frame_slot"
              @@ "len" :> "frame_dlc" @@ "cycle" :> "frame_cycle"
ThisExpr(t, p) ==
  LET field == Tok(t, p + 1)
      index == Close(t, Expr(t, p + 1), "]")
  IN CASE Tok(t, p) = "." /\ field \in DOMAIN ThisFields -> Leaf(p + 2, CallOf(ThisFields[field], <<>>))
       [] Tok(t, p) = "." /\ field = "signal" /\ IsString(Tok(t, p + 3)) ->
            Leaf(Expect(t, Expect(t, p + 2, "(") + 1, ")"), CallOf("frame_signal", <<Str(Quoted[t[p + 3]])>>))
       [] AtLiteralBracket(t, p) -> Leaf(p + 3, CallOf("frame_signal", <<Str(Quoted[field])>>))
       [] Tok(t, p) = "[" /\ ~AtLiteralBracket(t, p) -> Leaf(index.at, CallOf("frame_byte", <<index.tree>>))
       [] OTHER -> Bad

(* frame(Bus.Frame), frame(Bus["Frame"]) or frame(Frame).                    *)
PathSegment(t, p) ==
  IF IsIdent(Tok(t, p)) THEN Leaf(p + 1, t[p])
  ELSE IF IsString(Tok(t, p)) THEN Leaf(p + 1, Quoted[t[p]]) ELSE Bad
RECURSIVE FramePath(_, _, _)
FramePath(t, p, path) ==
  LET dot == PathSegment(t, p + 1)
  IN IF Tok(t, p) = "." THEN FramePath(t, dot.at, Append(path, dot.tree))
     ELSE IF AtLiteralBracket(t, p) THEN FramePath(t, p + 3, Append(path, Quoted[t[p + 1]]))
     ELSE IF Tok(t, p) = ")" /\ Len(path) <= 2 THEN Leaf(p + 1, <<"frame", path>>) ELSE Bad
FrameExpr(t, p) == LET first == PathSegment(t, p) IN FramePath(t, first.at, <<first.tree>>)

(* A signal behind a bus: names one after the other.                         *)
RECURSIVE Path(_, _, _, _)
Path(t, p, n, names) ==
  IF n = 0 THEN Leaf(p, names)
  ELSE LET m == Member(t, p) IN Path(t, m.at, n - 1, Append(names, Str(m.tree)))
Selected(t, p, fn, first, n) ==
  LET names == Path(t, p, n, <<>>) IN Leaf(names.at, CallOf(fn, first \o names.tree))

(* An identifier x, at p what follows it.                                    *)
NameExpr(t, p, x) ==
  LET named == Tok(t, p) = "." \/ AtLiteralBracket(t, p)
  IN CASE x = "frame" /\ Tok(t, p) = "(" -> FrameExpr(t, p + 1)
       [] x = "this" -> ThisExpr(t, p)
       [] x = "node" /\ Tok(t, p) = "." ->
            IF Tok(t, p + 1) = "bus" THEN Leaf(p + 2, CallOf("node_bus", <<>>)) ELSE Bad
       [] x = "node" /\ Tok(t, p) = "[" -> Bad
       [] x = "FR" /\ named -> Selected(t, p, "fr_sig_bus", <<>>, 2)
       [] x = "ETH" /\ named -> Selected(t, p, "eth_sig_bus", <<>>, 3)
       [] x \in DOMAIN FrBus ->
            IF FrBus[x] > 255 \/ ~named THEN Bad
            ELSE Selected(t, p, "fr_sig_named", <<<<"int", FrBus[x]>>>>, 1)
       [] x \in DOMAIN EthBus ->
            IF EthBus[x] > 255 \/ ~named THEN Bad
            ELSE Selected(t, p, "eth_sig", <<<<"int", EthBus[x]>>>>, 2)
       [] OTHER ->
            IF Tok(t, p) = "." THEN Leaf(IdentAt(t, p + 1), <<"member", <<"id", x>>, Tok(t, p + 1)>>)
            ELSE IF AtLiteralBracket(t, p) THEN Leaf(p + 3, CallOf("sig_named", <<Str(x), Str(Quoted[t[p + 1]])>>))
            ELSE Leaf(p, <<"id", x>>)

Primary(t, p) ==
  LET x == Tok(t, p)
  IN CASE IsNumber(x) -> IF IsUnit(Tok(t, p + 1)) THEN Bad ELSE Leaf(p + 1, Literal(x))
       [] IsString(x) -> Leaf(p + 1, Str(Quoted[x]))
       [] x \in {"true", "false"} -> Leaf(p + 1, <<"bool", x>>)
       [] IsIdent(x) -> NameExpr(t, p + 1, x)
       [] x = "(" -> Close(t, Expr(t, p + 1), ")")
       [] OTHER -> Bad

(* ------------------------------ statements ------------------------------ *)

RECURSIVE PathEnd(_, _, _)
PathEnd(t, p, counts) ==
  IF Tok(t, p) = "." /\ IsIdent(Tok(t, p + 1)) THEN PathEnd(t, p + 2, [counts EXCEPT !.dots = @ + 1])
  ELSE IF AtLiteralBracket(t, p) THEN PathEnd(t, p + 3, [counts EXCEPT !.brackets = @ + 1])
  ELSE [counts EXCEPT !.at = p]

(* A write to what only can be read.                                         *)
SignalWriteAhead(t, p) ==
  LET path == PathEnd(t, p + 1, [dots |-> 0, brackets |-> 0, at |-> 0])
      bus == {"this", "FR", "ETH"} \cup DOMAIN FrBus \cup DOMAIN EthBus
  IN /\ IsIdent(Tok(t, p))
     /\ ~(path.dots = 1 /\ path.brackets = 0 /\ Tok(t, p) \notin bus)
     /\ path.dots + path.brackets > 0
     /\ Tok(t, path.at) \in {"="} \cup DOMAIN Compound

AssignAhead(t, p) == IsIdent(Tok(t, p)) /\ Tok(t, p + 1) \in {"=", "[", "."} \cup DOMAIN Compound

(* The value a store gives: after = an expression, after op= the old value   *)
(* and an expression under the operator.                                     *)
Stored(t, p, old) ==
  LET e == Expr(t, p + 1)
      op == Tok(t, p)
  IN CASE op = "=" -> e
       [] op \in DOMAIN Compound -> Leaf(e.at, <<"bin", Compound[op], old, e.tree>>)
       [] OTHER -> Bad

AssignStmt(t, p) ==
  LET x == Tok(t, p)
      name == VarIdent(t, p)
      field == Stored(t, IdentAt(t, p + 2), <<"member", <<"id", x>>, Tok(t, p + 2)>>)
      index == Close(t, Expr(t, p + 2), "]")
      cell == Stored(t, index.at, <<"index", <<"id", x>>, index.tree>>)
      whole == Stored(t, p + 1, <<"id", x>>)
  IN IF name = 0 THEN Bad
     ELSE CASE Tok(t, p + 1) = "." -> Leaf(field.at, <<"setfield", x, Tok(t, p + 2), field.tree>>)
            [] Tok(t, p + 1) = "[" -> Leaf(cell.at, <<"setat", x, index.tree, cell.tree>>)
            [] OTHER -> Leaf(whole.at, <<"set", x, whole.tree>>)

LetStmt(t, p) ==
  LET e == Expr(t, Expect(t, VarIdent(t, p), "=")) IN Leaf(e.at, <<"let", Tok(t, p), e.tree>>)

(* What may stand in the head of a for loop.                                 *)
SimpleStmt(t, p) ==
  IF Tok(t, p) = "let" THEN LetStmt(t, p + 1)
  ELSE IF AssignAhead(t, p) THEN AssignStmt(t, p)
  ELSE LET e == Expr(t, p) IN Leaf(e.at, <<"expr", e.tree>>)

Block(t, p, inFn) == Read("stmts", t, Expect(t, p, "{"), <<inFn, <<>>>>)
Stmts(t, p, inFn, read) ==
  LET s == Read("stmt", t, p, inFn)
  IN IF Tok(t, p) = "}" THEN Leaf(p + 1, read)
     ELSE IF Tok(t, p) \in {"", "eof", "fn", "on"} THEN Bad
     ELSE Read("stmts", t, s.at, <<inFn, Append(read, s.tree)>>)

Condition(t, p) == Close(t, Expr(t, Expect(t, p, "(")), ")")

IfStmt(t, p, inFn) ==
  LET cond == Condition(t, p)
      then == Block(t, cond.at, inFn)
      tree(els) == <<"if", cond.tree, then.tree, els>>
  IN IF Tok(t, then.at) # "else" THEN Leaf(then.at, tree(None))
     ELSE IF Tok(t, then.at + 1) = "if"
     THEN LET more == Read("if", t, then.at + 2, inFn) IN Leaf(more.at, tree(<<"else", <<more.tree>>>>))
     ELSE LET els == Block(t, then.at + 1, inFn) IN Leaf(els.at, tree(<<"else", els.tree>>))

WhileStmt(t, p, inFn) ==
  LET cond == Condition(t, p)
      body == Block(t, cond.at, inFn)
  IN Leaf(body.at, <<"while", cond.tree, body.tree>>)

(* A part of a for head is left out when its end stands at its place.        *)
ForStmt(t, p, inFn) ==
  LET open == Expect(t, p, "(")
      init == Close(t, IF Tok(t, open) = ";" THEN Leaf(open, None) ELSE Read("simple", t, open, 0), ";")
      cond == Close(t, IF Tok(t, init.at) = ";" THEN Leaf(init.at, None) ELSE Expr(t, init.at), ";")
      step == Close(t, IF Tok(t, cond.at) = ")" THEN Leaf(cond.at, None) ELSE Read("simple", t, cond.at, 0), ")")
      body == Block(t, step.at, inFn)
  IN Leaf(body.at, <<"for", init.tree, cond.tree, step.tree, body.tree>>)

(* The clauses of a switch: [cases, default].                                *)
Clauses(t, p, inFn, read) ==
  LET label == Close(t, Expr(t, p + 1), ":")
      body == Block(t, label.at, inFn)
      other == Block(t, Expect(t, p + 1, ":"), inFn)
  IN CASE Tok(t, p) = "case" ->
            Read("clauses", t, body.at, <<inFn, [read EXCEPT !.cases = Append(@, <<label.tree, body.tree>>)]>>)
       [] Tok(t, p) = "default" /\ read.default = None ->
            Read("clauses", t, other.at, <<inFn, [read EXCEPT !.default = <<"else", <<<<"block", other.tree>>>>>>]>>)
       [] Tok(t, p) = "}" -> Leaf(p + 1, read)
       [] OTHER -> Bad

(* The cases from the last to the first: each an if whose else is the rest.  *)
Chain(cases, default, subject) ==
  FoldRight(LAMBDA c, rest : <<"else", <<<<"if", <<"bin", "==", subject, c[1]>>, <<<<"block", c[2]>>>>, rest>>>>>>,
            cases, default)

(* A subject that is no variable is kept in a hidden one, which is named by  *)
(* the place of its switch.                                                  *)
SwitchStmt(t, p, inFn) ==
  LET subject == Condition(t, p)
      read == Read("clauses", t, Expect(t, subject.at, "{"), <<inFn, [cases |-> <<>>, default |-> None]>>)
      plain == subject.tree[1] = "id"
      chain == Chain(read.tree.cases, read.tree.default, IF plain THEN subject.tree ELSE <<"hidden", p>>)
      stmts == IF chain = None THEN <<>> ELSE chain[2]
  IN IF read.at = 0 THEN Bad
     ELSE Leaf(read.at, <<"block", IF plain THEN stmts ELSE <<<<"keep", p, subject.tree>>>> \o stmts>>)

ReturnStmt(t, p, inFn) ==
  LET e == IF Tok(t, p) = ";" THEN Leaf(p, None) ELSE Expr(t, p)
  IN IF inFn THEN Leaf(Expect(t, e.at, ";"), <<"return", e.tree>>) ELSE Bad

Stmt(t, p, inFn) ==
  LET x == Tok(t, p)
      block == Block(t, p, inFn)
  IN CASE SignalWriteAhead(t, p) -> Bad
       [] x = "let" -> Close(t, LetStmt(t, p + 1), ";")
       [] x = "if" -> Read("if", t, p + 1, inFn)
       [] x = "while" -> WhileStmt(t, p + 1, inFn)
       [] x = "for" -> ForStmt(t, p + 1, inFn)
       [] x = "switch" -> SwitchStmt(t, p + 1, inFn)
       [] x = "return" -> ReturnStmt(t, p + 1, inFn)
       [] x = "{" -> Leaf(block.at, <<"block", block.tree>>)
       [] x \in {"break", "continue"} -> Leaf(Expect(t, p + 1, ";"), <<x>>)
       [] OTHER -> Close(t, Read("simple", t, p, 0), ";")

(* ----------------------------- declarations ----------------------------- *)

IdLiteral(t, p) == IF IsInt(Tok(t, p)) /\ Value(t[p]) <= 536870911 THEN Leaf(p + 1, Value(t[p])) ELSE Bad
SlotLiteral(t, p) == IF IsInt(Tok(t, p)) /\ Value(t[p]) <= 65535 THEN Leaf(p + 1, Value(t[p])) ELSE Bad
StringLiteral(t, p) == IF IsString(Tok(t, p)) THEN Leaf(p + 1, Quoted[t[p]]) ELSE Bad

PeriodLiteral(t, p) ==
  LET d == DurationTail(t, p + 1, t[p])
  IN IF ~IsNumber(Tok(t, p)) \/ d.at = 0 THEN Bad
     ELSE IF d.tree # <<>> THEN Leaf(d.at, d.tree[2])
     ELSE IF IsInt(t[p]) /\ Value(t[p]) > 0 THEN Leaf(p + 1, Value(t[p])) ELSE Bad

PanelEvent(t, p) ==
  LET name == StringLiteral(t, Expect(t, p, "("))
      arg == VarIdent(t, name.at + 1)
  IN IF name.tree = "" THEN Bad
     ELSE IF Tok(t, name.at) = "," THEN Leaf(Expect(t, arg, ")"), <<"panel", name.tree, <<"arg", Tok(t, name.at + 1)>>>>)
     ELSE Leaf(Expect(t, name.at, ")"), <<"panel", name.tree, None>>)

MessageEvent(t, p) ==
  CASE Tok(t, p) = "*" -> Leaf(p + 1, <<"any">>)
    [] IsInt(Tok(t, p)) -> LET id == IdLiteral(t, p) IN Leaf(id.at, <<"message", id.tree>>)
    [] IsIdent(Tok(t, p)) -> Leaf(p + 1, <<"named", t[p]>>)
    [] IsString(Tok(t, p)) -> Leaf(p + 1, <<"named", Quoted[t[p]]>>)
    [] OTHER -> Bad

SomeIpEvent(t, p) ==
  LET service == IdLiteral(t, p)
      method == IdLiteral(t, service.at)
  IN IF method.at = 0 THEN Bad
     ELSE IF service.tree > 65535 \/ method.tree > 65535 THEN Bad
     ELSE Leaf(method.at, <<"someip", service.tree, method.tree>>)

FrEvent(t, p) ==
  LET bus == IsInt(Tok(t, p))
      slot == SlotLiteral(t, Expect(t, IF bus THEN p + 1 ELSE p, "slot"))
  IN IF bus /\ Value(t[p]) > 255 THEN Bad
     ELSE Leaf(slot.at, <<"fr", IF bus THEN <<"bus", Value(t[p])>> ELSE None, slot.tree>>)

Event(t, p) ==
  LET word == Tok(t, p)
      id == IdLiteral(t, Expect(t, p + 1, "message"))
      period == PeriodLiteral(t, p + 1)
  IN CASE word \in {"start", "stop", "errorFrame"} -> Leaf(p + 1, <<word>>)
       [] word = "panel_action" -> PanelEvent(t, p + 1)
       [] word = "extended" -> Leaf(id.at, <<"extended", id.tree>>)
       [] word = "message" -> MessageEvent(t, p + 1)
       [] word = "timer" -> IF IsString(Tok(t, p + 1)) THEN Leaf(p + 2, <<"oneshot", Quoted[t[p + 1]]>>)
                            ELSE Leaf(period.at, <<"timer", period.tree>>)
       [] word = "someip" -> SomeIpEvent(t, p + 1)
       [] word = "fr" -> FrEvent(t, p + 1)
       [] OTHER -> Bad

OnDecl(t, p) ==
  LET kind == Event(t, p)
      body == Block(t, kind.at, TRUE)
  IN Leaf(body.at, <<"on", kind.tree, body.tree>>)

RECURSIVE Params(_, _, _)
Params(t, p, read) ==
  LET next == VarIdent(t, p)
      all == Append(read, Tok(t, p))
  IN IF Tok(t, next) = "," THEN Params(t, next + 1, all) ELSE Leaf(Expect(t, next, ")"), all)

FnDecl(t, p) ==
  LET open == Expect(t, VarIdent(t, p), "(")
      params == IF Tok(t, open) = ")" THEN Leaf(open + 1, <<>>) ELSE Params(t, open, <<>>)
      body == Block(t, params.at, TRUE)
  IN Leaf(body.at, <<"fn", Tok(t, p), params.tree, body.tree>>)

Items(t, p, read) ==
  LET item == CASE Tok(t, p) = "fn" -> Read("fn", t, p + 1, 0)
                [] Tok(t, p) = "on" -> Read("on", t, p + 1, 0)
                [] OTHER -> Read("stmt", t, p, FALSE)
  IN IF p > Len(t) THEN Leaf(p, read)
     ELSE IF item.at = 0 THEN Bad ELSE Read("items", t, item.at, Append(read, item.tree))

Read(rule, t, p, x) ==
  CASE rule = "level" -> Ladder(t, p, x)
    [] rule = "climb" -> Climb(t, p, x)
    [] rule = "unary" -> Unary(t, p)
    [] rule = "postfix" -> Postfix(t, p)
    [] rule = "primary" -> Primary(t, p)
    [] rule = "args" -> Args(t, p, x[1], x[2])
    [] rule = "stmt" -> Stmt(t, p, x)
    [] rule = "stmts" -> Stmts(t, p, x[1], x[2])
    [] rule = "if" -> IfStmt(t, p, x)
    [] rule = "clauses" -> Clauses(t, p, x[1], x[2])
    [] rule = "simple" -> SimpleStmt(t, p)
    [] rule = "fn" -> FnDecl(t, p)
    [] rule = "on" -> OnDecl(t, p)
    [] rule = "items" -> Items(t, p, x)

Parse(t) == Read("items", t, 1, <<>>)

(* ------------------------- texts and their reading ---------------------- *)

VARIABLE text

(* The longest spelled token that begins a text; blanks and comments apart.  *)
Spelled ==
  {<<c>> : c \in {"<", ">", "=", "!", "&", "|", "+", "-", "*", "/", "."}}
  \cup {<<c, "=">> : c \in {"<", ">", "=", "!", "&", "|", "+", "-", "*", "/"}}
  \cup {<<c, c>> : c \in {"<", ">", "&", "|"}} \cup {<<c, c, "=">> : c \in {"<", ">"}}
IsWord(s) ==
  \/ s \in Spelled
  \/ s # <<>> /\ \A i \in DOMAIN s : s[i] \in Digit
  \/ s # <<>> /\ s[1] \in Letter /\ \A i \in DOMAIN s : s[i] \in Letter \cup Digit
  \/ \E k \in 2 .. Len(s) - 1 : /\ s[k] = "." /\ \A i \in DOMAIN s \ {k} : s[i] \in Digit
OpenComment(s) == \E i \in 1 .. Len(s) - 1 : s[i] = "/" /\ s[i + 1] \in {"/", "*"}

(* No token could have been longer, and none is lost.                        *)
Munched(s) ==
  LET toks == Lex(s, 1)
  IN OpenComment(s) \/
     /\ FlattenSeq(toks) = SelectSeq(s, LAMBDA c : c # " ")
     /\ toks # <<>> /\ s[1] # " " =>
          \A n \in Len(toks[1]) + 1 .. Len(s) : ~IsWord(SubSeq(s, 1, n))
     /\ \A i \in DOMAIN toks : IsWord(toks[i])

(* How tight an operator binds, as in C.                                     *)
Binds == "||" :> 1 @@ "&&" :> 2 @@ "|" :> 3 @@ "^" :> 4 @@ "&" :> 5 @@ "==" :> 6 @@ "!=" :> 6
         @@ "<" :> 7 @@ ">=" :> 7 @@ "<<" :> 8 @@ ">>" :> 8 @@ "+" :> 9 @@ "-" :> 9 @@ "*" :> 10 @@ "%" :> 10

(* A tree spelled with no parenthesis it can do without, where one of at     *)
(* least this tightness is wanted.                                           *)
RECURSIVE Spell(_, _)
Spell(e, least) ==
  LET within(b, s) == IF b < least THEN <<"(">> \o s \o <<")">> ELSE s
  IN CASE e[1] = "int" -> <<CHOOSE x \in DOMAIN Halves : Literal(x) = e>>
       [] e[1] = "id" -> <<e[2]>>
       [] e[1] = "un" -> within(11, <<e[2]>> \o Spell(e[3], 11))
       [] e[1] = "bin" -> within(Binds[e[2]], Spell(e[3], Binds[e[2]]) \o <<e[2]>> \o Spell(e[4], Binds[e[2]] + 1))
       [] e[1] = "index" -> Spell(e[2], 12) \o <<"[">> \o Spell(e[3], 1) \o <<"]">>
       [] e[1] = "call" -> <<e[2], "(">> \o (IF e[3] = <<>> THEN <<>> ELSE Spell(e[3][1], 1)) \o <<")">>

X == <<"id", "x">>
One == <<"int", 1>>
Bin(op, l, r) == <<"bin", op, l, r>>
Shallow ==
  {X, One, <<"call", "f", <<>>>>} \cup {<<"un", op, X>> : op \in {"-", "!"}}
  \cup {Bin(op, X, One) : op \in DOMAIN Binds} \cup {<<"index", X, One>>}
Trees ==
  {Bin(op, l, r) : op \in DOMAIN Binds, l \in Shallow, r \in Shallow}
  \cup {<<"un", op, e>> : op \in {"-", "!"}, e \in Shallow}
  \cup {<<"index", e, X>> : e \in Shallow} \cup {<<"call", "f", <<e>>>> : e \in Shallow}
RoundTrips(e, r) == r.at = Len(Spell(e, 1)) + 1 /\ r.tree = e

(* What a tree does: x and y are numbers, a two of them, f() makes x one     *)
(* more and gives it, hidden variables are kept apart.                       *)
RECURSIVE Eval(_, _)
Eval(env, e) ==
  CASE e[1] = "int" -> [env |-> env, v |-> e[2]]
    [] e[1] = "id" -> [env |-> env, v |-> env.vars[e[2]]]
    [] e[1] = "hidden" -> [env |-> env, v |-> env.hidden[e[2]]]
    [] e[1] = "index" -> LET i == Eval(env, e[3]) IN [env |-> i.env, v |-> i.env.a[i.v % 2]]
    [] e[1] = "call" -> LET n == [env EXCEPT !.vars["x"] = @ + 1] IN [env |-> n, v |-> n.vars["x"]]
    [] e[1] = "bin" ->
         LET l == Eval(env, e[3])
             r == Eval(l.env, e[4])
         IN [env |-> r.env, v |-> CASE e[2] = "+" -> l.v + r.v
                                    [] e[2] = "-" -> l.v - r.v
                                    [] e[2] = "==" -> IF l.v = r.v THEN 1 ELSE 0]

RECURSIVE Exec(_, _), ExecAll(_, _)
Exec(env, s) ==
  LET e == Eval(env, s[Len(s)])
      i == Eval(env, s[3])
      at == Eval(i.env, s[4])
      cond == Eval(env, s[2])
  IN CASE s[1] = "set" -> [e.env EXCEPT !.vars[s[2]] = e.v]
       [] s[1] = "setat" -> [at.env EXCEPT !.a[i.v % 2] = at.v]
       [] s[1] = "keep" -> [e.env EXCEPT !.hidden = (s[2] :> e.v) @@ @]
       [] s[1] = "block" -> ExecAll(env, s[2])
       [] s[1] = "if" -> IF cond.v = 1 THEN ExecAll(cond.env, s[3])
                         ELSE IF s[4] = None THEN cond.env ELSE ExecAll(cond.env, s[4][2])
ExecAll(env, stmts) == FoldLeft(LAMBDA n, s : Exec(n, s), env, stmts)

(* Statements as they are written: a store under an operator, a switch with  *)
(* its clauses in any order, a label or "default" before each body.          *)
Label(k) == IF k = 0 THEN <<"default">> ELSE <<"case">> \o Spell(<<"int", k>>, 1)
RECURSIVE SpellStmt(_)
SpellStmt(s) ==
  CASE s[1] = "op" -> Spell(s[2], 1) \o <<s[3] \o "=">> \o Spell(s[4], 1) \o <<";">>
    [] s[1] = "switch" ->
         <<"switch", "(">> \o Spell(s[2], 1) \o <<")", "{">>
         \o FlattenSeq([i \in DOMAIN s[3] |->
              Label(s[3][i][1]) \o <<":", "{">> \o SpellStmt(s[3][i][2]) \o <<"}">>])
         \o <<"}">>

(* The subject is looked at once; the first clause of its value runs, the    *)
(* default when there is none, and nothing after it.                         *)
RECURSIVE Mean(_, _)
Mean(env, s) ==
  LET e == Eval(env, s[2])
      old == e.v
      right == Eval(env, s[4])
      new == IF s[3] = "+" THEN old + right.v ELSE old - right.v
      clauses == s[3]
      hit == SelectInSeq(clauses, LAMBDA c : c[1] = e.v /\ c[1] # 0)
      other == SelectInSeq(clauses, LAMBDA c : c[1] = 0)
  IN CASE s[1] = "op" /\ s[2][1] = "id" -> [env EXCEPT !.vars[s[2][2]] = new]
       [] s[1] = "op" /\ s[2][1] = "index" -> [env EXCEPT !.a[Eval(env, s[2][3]).v % 2] = new]
       [] s[1] = "switch" -> IF hit # 0 THEN Mean(e.env, clauses[hit][2])
                             ELSE IF other # 0 THEN Mean(e.env, clauses[other][2]) ELSE e.env

Cell(i) == <<"index", <<"id", "a">>, i>>
Stores ==
  {<<"op", X, "+", One>>, <<"op", <<"id", "y">>, "-", Bin("-", X, One)>>,
   <<"op", Cell(X), "-", Bin("+", X, One)>>, <<"op", Cell(Bin("+", X, One)), "+", <<"int", 2>>>>}
Bodies == {<<"op", X, "+", One>>, <<"op", <<"id", "y">>, "-", Bin("-", X, One)>>}
Subjects == {X, Bin("+", X, One), <<"call", "f", <<>>>>}
Switch(labels, subjects, bodies) ==
  {<<"switch", subject, [i \in DOMAIN order |-> <<order[i], body[i]>>]>> :
     subject \in subjects, order \in labels, body \in [1..3 -> bodies]}
Orders == {o \in UNION {[1..n -> 0..2] : n \in 0..3} : Cardinality({i \in DOMAIN o : o[i] = 0}) <= 1}
Nested == {<<"switch", <<"call", "f", <<>>>>, <<<<1, <<"op", X, "+", One>>>>, <<2, s>>>>>> :
             s \in Switch({<<1, 0, 2>>, <<2, 1>>}, Subjects, Bodies)}
Written == Stores \cup Switch(Orders, Subjects, Bodies) \cup Nested

Environment(x) == [vars |-> [n \in {"x", "y"} |-> IF n = "x" THEN x ELSE 5], a |-> [i \in 0..1 |-> 7 + i], hidden |-> <<>>]
DoesAsWritten(s, r) ==
  /\ r.at = Len(SpellStmt(s)) + 1
  /\ \A x \in 0..2 : LET left == Exec(Environment(x), r.tree)
                       right == Mean(Environment(x), s)
                   IN left.vars = right.vars /\ left.a = right.a

(* Statements with their blocks; an else that holds one if is spelled else   *)
(* if.  They stand in a function, in a handler or at the top level, where    *)
(* nothing returns.                                                          *)
RECURSIVE SpellTree(_), SpellPart(_)
Braced(stmts) == <<"{">> \o FlattenSeq([i \in DOMAIN stmts |-> SpellTree(stmts[i])]) \o <<"}">>
SpellPart(s) ==
  CASE s = None -> <<>>
    [] s[1] = "let" -> <<"let", s[2], "=">> \o Spell(s[3], 1)
    [] s[1] = "set" -> <<s[2], "=">> \o Spell(s[3], 1)
    [] s[1] = "expr" -> Spell(s[2], 1)
    [] OTHER -> Spell(s, 1)
SpellTree(s) ==
  CASE s[1] = "for" -> <<"for", "(">> \o SpellPart(s[2]) \o <<";">> \o SpellPart(s[3]) \o <<";">>
                       \o SpellPart(s[4]) \o <<")">> \o Braced(s[5])
    [] s[1] = "while" -> <<"while", "(">> \o Spell(s[2], 1) \o <<")">> \o Braced(s[3])
    [] s[1] = "if" -> <<"if", "(">> \o Spell(s[2], 1) \o <<")">> \o Braced(s[3])
                      \o (IF s[4] = None THEN <<>>
                          ELSE <<"else">> \o (IF Len(s[4][2]) = 1 /\ s[4][2][1][1] = "if"
                                              THEN SpellTree(s[4][2][1]) ELSE Braced(s[4][2])))
    [] s[1] = "return" -> <<"return">> \o SpellPart(s[2]) \o <<";">>
    [] s[1] = "block" -> Braced(s[2])
    [] s[1] \in {"break", "continue"} -> <<s[1], ";">>
    [] OTHER -> SpellPart(s) \o <<";">>

Simple == {<<"let", "y", One>>, <<"set", "x", Bin("+", X, One)>>, <<"expr", <<"call", "f", <<>>>>>>}
Inner == Simple \cup {<<"break">>, <<"return", None>>, <<"return", X>>, <<"block", <<>>>>}
Ifs == {<<"if", X, <<s>>, els>> : s \in Inner, els \in {None, <<"else", <<>>>>} \cup {<<"else", <<r>>>> : r \in Inner}}
Compounds ==
  Ifs \cup {<<"if", X, <<>>, <<"else", <<s>>>>>> : s \in Ifs} \cup {<<"while", X, <<s>>>> : s \in Ifs}
  \cup {<<"for", init, cond, step, <<s>>>> : init \in Simple \cup {None}, cond \in {X, None},
                                           step \in Simple \cup {None}, s \in Inner}
RECURSIVE Returns(_)
Returns(s) ==
  CASE s[1] = "return" -> TRUE
    [] s[1] \in {"while", "for"} -> \E i \in DOMAIN Last(s) : Returns(Last(s)[i])
    [] s[1] = "if" -> \/ \E i \in DOMAIN s[3] : Returns(s[3][i])
                      \/ s[4] # None /\ \E i \in DOMAIN s[4][2] : Returns(s[4][2][i])
    [] OTHER -> FALSE
Places(body) ==
  <<body, <<"fn", "f", "(", "x", ",", "y", ")", "{">> \o body \o <<"}">>,
    <<"on", "stop", "{">> \o body \o <<"}", "on", "start", "{", "}">>,
    <<"{", "fn">> \o body \o <<"}">>, <<"{", "on">> \o body \o <<"}">>>>
Placed(s, top, fn, handler, infn, inon) ==
  /\ fn.tree = <<<<"fn", "f", <<"x", "y">>, <<s>>>>>>
  /\ handler.tree = <<<<"on", <<"stop">>, <<s>>>>, <<"on", <<"start">>, <<>>>>>>
  /\ IF Returns(s) THEN top.at = 0 ELSE top.tree = <<s>>
  /\ infn.at = 0 /\ inon.at = 0

(* The heads of handlers: a number outside its range is refused, a duration  *)
(* is a whole number of milliseconds.                                        *)
Numerals == DOMAIN Halves
Within(x, most) == IsInt(x) /\ Value(x) <= most
Heads ==
  {<<"fr", b, n>> : b \in Numerals \cup {""}, n \in Numerals} \cup {<<"someip", s, m>> : s \in Numerals, m \in Numerals}
  \cup {<<"extended", n, "">> : n \in Numerals} \cup {<<"timer", n, u>> : n \in {"0", "1", "2", "0.5", "1.5"}, u \in {"", "ms", "s"}}
HeadText(h) ==
  CASE h[1] = "fr" -> <<"fr">> \o (IF h[2] = "" THEN <<>> ELSE <<h[2]>>) \o <<"slot", h[3]>>
    [] h[1] = "someip" -> h
    [] h[1] = "extended" -> <<"extended", "message", h[2]>>
    [] h[1] = "timer" -> <<"timer", h[2]>> \o (IF h[3] = "" THEN <<>> ELSE <<h[3]>>)
Meant(h) ==
  LET ms == IF h[3] = "s" THEN 1000 * Halves[h[2]] ELSE Halves[h[2]]
  IN CASE h[1] = "fr" -> IF (h[2] = "" \/ Within(h[2], 255)) /\ Within(h[3], 65535)
                         THEN <<"fr", IF h[2] = "" THEN None ELSE <<"bus", Value(h[2])>>, Value(h[3])>> ELSE <<>>
       [] h[1] = "someip" -> IF Within(h[2], 65535) /\ Within(h[3], 65535)
                             THEN <<"someip", Value(h[2]), Value(h[3])>> ELSE <<>>
       [] h[1] = "extended" -> IF Within(h[2], 536870911) THEN <<"extended", Value(h[2])>> ELSE <<>>
       [] h[1] = "timer" -> IF ms > 0 /\ ms % 2 = 0 /\ (h[3] # "" \/ IsInt(h[2])) THEN <<"timer", ms \div 2>> ELSE <<>>
HeadRead(h, r) == IF Meant(h) = <<>> THEN r.at = 0 ELSE r.at # 0 /\ r.tree = <<<<"on", Meant(h), <<>>>>>>

(* Names behind a bus, each with a dot or in brackets: every spelling reads  *)
(* the same signal, and none of them can be written.                         *)
Buses == {<<"FR", 2>>, <<"FR0", 1>>, <<"ETH", 3>>, <<"ETH0", 2>>}
Spellings(b) ==
  {<<b[1]>> \o FlattenSeq([i \in 1 .. b[2] |-> IF f[i] THEN <<".", "S">> ELSE <<"[", "'S'", "]">>])
     : f \in [1 .. b[2] -> BOOLEAN]}
Fields == {<<"this", ".", "id">>, <<"this", "[", "'S'", "]">>, <<"this", "[", "0", "]">>, <<"node", ".", "bus">>,
           <<"M", "[", "'S'", "]">>, <<"frame", "(", "M", ")">>}
Reads == Fields \cup UNION {Spellings(b) : b \in Buses}
Dotted(s) == LET b == CHOOSE b \in Buses : b[1] = s[1] IN <<s[1]>> \o FlattenSeq([i \in 1 .. b[2] |-> <<".", "S">>])
Alike(s) == IF s \in Fields THEN s ELSE Dotted(s)
ReadOnly(s, read, alike, stored, added) ==
  read.at = Len(s) + 1 /\ read.tree = alike.tree /\ stored.at = 0 /\ added.at = 0

InitTexts ==
  \/ \E n \in 1..4 : \E s \in [1..n -> {"<", "=", "&", "!", ".", "x", "1"}] : text = <<"chars", s>>
  \/ \E s \in [1..3 -> {"<", ">", "=", "|", "+", "/", "*", " ", "x", "."}] : text = <<"chars", s>>
  \/ \E e \in Trees : text = <<"tree", e>>
  \/ \E s \in Written : text = <<"stmt", s>>
  \/ \E s \in Compounds : text = <<"block", s>>
  \/ \E h \in Heads : text = <<"head", h>>
  \/ \E s \in Reads : text = <<"read", s>>

(* The readings a text is judged by: of which rule, and what is read.        *)
Readings(kind, x) ==
  CASE kind = "tree" -> <<<<"level", Spell(x, 1)>>>>
    [] kind = "stmt" -> <<<<"stmt", SpellStmt(x)>>>>
    [] kind = "block" -> [i \in 1..5 |-> <<"items", Places(SpellTree(x))[i]>>]
    [] kind = "head" -> <<<<"items", <<"on">> \o HeadText(x) \o <<"{", "}">>>>>>
    [] kind = "read" -> <<<<"level", x>>, <<"level", Alike(x)>>, <<"stmt", x \o <<"=", "1", ";">>>>, <<"stmt", x \o <<"+=", "1", ";">>>>>>
    [] OTHER -> <<>>
StartOf(rule) == CASE rule = "level" -> 1 [] rule = "stmt" -> TRUE [] rule = "items" -> <<>>

Judged(kind, x, r) ==
  CASE kind = "chars" -> Munched(x)
    [] kind = "tree" -> RoundTrips(x, r[1])
    [] kind = "stmt" -> DoesAsWritten(x, r[1])
    [] kind = "block" -> Placed(x, r[1], r[2], r[3], r[4], r[5])
    [] kind = "head" -> HeadRead(x, r[1])
    [] kind = "read" -> ReadOnly(x, r[1], r[2], r[3], r[4])
    [] OTHER -> TRUE
Results(readings) == [i \in DOMAIN readings |-> Read(readings[i][1], readings[i][2], 1, StartOf(readings[i][1]))]

(* What is written is read: every character is in the longest token it can   *)
(* be in, an expression groups as in C, a statement is one wherever it       *)
(* stands, stores and switches do what their text says, numbers keep to      *)
(* their ranges, signals are read-only in every spelling.                    *)
TextRead == Judged(text[1], text[2], Results(Readings(text[1], text[2])))
=============================================================================
