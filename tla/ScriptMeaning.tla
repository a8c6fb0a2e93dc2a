---------------------------- MODULE ScriptMeaning ---------------------------
(***************************************************************************)
(* What a script means: an evaluator of script trees that knows nothing of *)
(* commands, slots, jumps or overloads.  Values carry their type at run    *)
(* time: integers stay integers, a float among the operands makes the      *)
(* result a float.  It is what compiled code is compared with.             *)
(*                                                                         *)
(* A state `st` holds the scopes entered so far, the saved values and      *)
(* arguments by name, the effects in order and the first error.            *)
(***************************************************************************)
EXTENDS ConstFolding

CONSTANT EnumValue   \* enum literal -> its integer

None == Val("none", 0)
\* An evaluation that failed has no value.
Result(v, st) == [v |-> IF st.err = "" THEN v ELSE None, st |-> st]
Bad(st, why) == Result(None, [st EXCEPT !.err = IF @ = "" THEN why ELSE @])
IsOn(v) == v.t = "bool" /\ v.v = 1
Numeric(v) == v.t \in {"int", "float"}

StartOf(env, root) ==
  [scopes |-> IF root = "" THEN <<>> ELSE <<env.args["root"]>>, saved |-> <<>>, args |-> env.args,
   log |-> <<>>, env |-> env, err |-> ""]

\* A value where one of type `to` is expected.
As(v, to) ==
  CASE v.t = "bool" /\ to \in {"int", "float"} -> Val(to, IF to = "int" THEN v.v ELSE ToFloat(v.v))
    [] v.t = "int" /\ to = "float" -> Val("float", ToFloat(v.v))
    [] Numeric(v) /\ to = "bool" -> Bool(v.v # 0)
    [] OTHER -> v

DefaultOf(type) ==
  CASE type = "bool" -> Bool(FALSE) [] type = "int" -> Val("int", 0) [] type = "float" -> Val("float", 0)
    [] type = "void" -> None [] OTHER -> Invalid

ChildNamed(b, name) == SelectSeq(b.kids, LAMBDA k : k.n = name)
Parts(b) == SelectSeq(b.kids, LAMBDA k : k.n \notin {"condition", "value", "weight"})

RECURSIVE Eval(_, _, _)
Named(b, name) == [b EXCEPT !.n = name]
Unnamed(b) == Named(b, "__empty_lvalue")

\* The condition of a child, TRUE when it has none.
HoldsFor(child, st) ==
  LET cond == ChildNamed(child, "condition")
  IN IF cond = <<>> THEN Result(Bool(TRUE), st) ELSE Eval(Named(cond[1], "AND"), "bool", st)

AddTo(acc, r) == [vals |-> IF r.v.t = "none" THEN acc.vals ELSE Append(acc.vals, r.v), st |-> r.st]

\* The child where its condition held, no value otherwise.
EvalIf(held, child, exp) == IF IsOn(held.v) THEN Eval(child, exp, held.st) ELSE Result(None, held.st)

\* Values of the children, those without a value left out.
EvalAll(kids, exp, st) ==
  FoldLeft(LAMBDA acc, k : AddTo(acc, Eval(k, exp, acc.st)), [vals |-> <<>>, st |-> st], kids)

OpNames == "+" :> "add" @@ "ADD" :> "add" @@ "*" :> "mul" @@ "MUL" :> "mul" @@ "-" :> "sub" @@ "%" :> "mod"
           @@ ">" :> "more" @@ "<" :> "less" @@ ">=" :> "moreeq" @@ "<=" :> "lesseq" @@ "max" :> "max"
           @@ "min" :> "min" @@ "abs" :> "abs" @@ "unary_minus" :> "neg" @@ "unary_plus" :> "pos"

Compares == {">", "<", ">=", "<="}

\* An operator on values of their own types.
Operate(name, vals, st) ==
  LET ints == \A k \in DOMAIN vals : vals[k].t = "int"
      xs == [k \in DOMAIN vals |-> IF ints THEN vals[k].v ELSE As(vals[k], "float").v]
      op == OpNames[name] \o (IF ints THEN "i" ELSE "d")
      r == IF Len(xs) = 1 THEN IF name \in {"abs", "unary_minus", "unary_plus"} THEN Raw(op, xs) ELSE xs[1]
           ELSE FoldLeft(LAMBDA x, y : IF x = Throw THEN x ELSE Raw(op, <<x, y>>), Head(xs), Tail(xs))
  IN IF st.err # "" THEN Result(None, st)
     ELSE IF r = Throw THEN Bad(st, "throw")
     ELSE Result(IF name \in Compares THEN Bool(r = 1) ELSE Val(IF ints THEN "int" ELSE "float", r), st)

OperateOn(name, r) == Operate(name, r.vals, r.st)

Same(x, y) ==
  IF Numeric(x) /\ Numeric(y) /\ x.t # y.t
  THEN As(x, "float") = As(y, "float") /\ NaN \notin {x.v, y.v}
  ELSE x = y /\ (x.t = "float" => x.v # NaN)

Keep(v, r) == IF r.v.t = "none" THEN Result(v, r.st) ELSE r

\* AND and OR, stopping at the first child that settles it.
EvalLogic(kids, stop, st) ==
  FoldLeft(LAMBDA acc, k :
             IF acc.v.v = stop \/ acc.st.err # "" THEN acc
             ELSE Keep(acc.v, Eval(k, "bool", acc.st)),
           Result(Val("bool", 1 - stop), st), kids)

\* Children that are left out when their conditions are false.
EvalSum(name, b, exp, st) ==
  LET conditional == \E k \in DOMAIN b.kids : ChildNamed(b.kids[k], "condition") # <<>>
      one == IF name = "MUL" THEN 1 ELSE 0
      term(acc, k) == AddTo(acc, EvalIf(HoldsFor(k, acc.st), k, exp))
  IN OperateOn(name, FoldLeft(term, [vals |-> IF conditional THEN <<Val("int", one)>> ELSE <<>>, st |-> st], b.kids))

\* The first child that has a value; `?=` lets an invalid one be passed over.
EvalFirst(kids, exp, st) ==
  LET pass(k, v) == IF k.q /\ v.v.v = -1 THEN Result(None, v.st) ELSE v
  IN Keep(DefaultOf(exp), FoldLeft(LAMBDA acc, k :
            IF acc.v.t # "none" \/ acc.st.err # "" THEN acc ELSE pass(k, EvalIf(HoldsFor(k, acc.st), k, exp)),
            Result(None, st), kids))

\* A block of effects ends at the first false condition.
EvalEffects(kids, st) ==
  LET effect(c, k) == [on |-> IsOn(c.v), st |-> EvalIf(c, k, "void").st]
      step(acc, k) == IF acc.on THEN effect(HoldsFor(k, acc.st), k) ELSE acc
  IN Result(None, FoldLeft(step, [on |-> TRUE, st |-> st], kids).st)

\* A block by what is expected of it.
Negated(r) == Result(Bool(r.v.v = 0), r.st)

EvalBlock(b, name, exp, st) ==
  LET kids == Parts(b)
      form == IF name # "" THEN name ELSE
              CASE exp = "bool" -> "AND" [] exp \in {"int", "float"} -> "ADD" [] exp = "void" -> "effects" [] OTHER -> "first"
  IN CASE form = "AND" -> EvalLogic(kids, 0, st)
       [] form = "OR" -> EvalLogic(kids, 1, st)
       [] form = "NAND" -> Negated(Eval(Named(b, "AND"), "bool", st))
       [] form = "NOR" -> Negated(Eval(Named(b, "OR"), "bool", st))
       [] form \in {"ADD", "MUL"} -> EvalSum(form, [b EXCEPT !.kids = kids], exp, st)
       [] form = "effects" -> EvalEffects(kids, st)
       [] form = "first" -> EvalFirst(kids, exp, st)

\* Back in the scopes of `st`.
Return(r, st) == Result(r.v, [r.st EXCEPT !.scopes = st.scopes])
EnterIn(st, handle) == [st EXCEPT !.scopes = Append(@, handle)]

\* The rest of a call runs in the scope of the handle it returned.
Within(handle, b, exp, st) ==
  IF b.kids = <<>> \/ st.err # "" THEN Result(handle, st)
  ELSE IF b.q /\ handle.v = -1 THEN Result(DefaultOf(exp), st)
  ELSE Return(Eval(Unnamed(b), exp, EnterIn(st, handle)), st)

\* `prev`: one scope further out, from where the next `prev` goes on.
Outward(b, exp, st) ==
  LET outer == Front(st.scopes)
  IN IF b.kids = <<>> THEN Result(Last(outer), st) ELSE Return(Eval(Unnamed(b), exp, [st EXCEPT !.scopes = outer]), st)

\* The first child that is taken ends the form.
Hit(r) == [hit |-> TRUE, v |-> r.v, st |-> r.st]
Miss(st) == [hit |-> FALSE, v |-> None, st |-> st]

EvalSelect(b, exp, st) ==
  LET taken(c, k) == IF IsOn(c.v) THEN Hit(Eval(k, exp, c.st)) ELSE Miss(c.st)
      done(r) == Result(r.v, r.st)
  IN done(FoldLeft(LAMBDA acc, k : IF acc.hit \/ acc.st.err # "" THEN acc ELSE taken(HoldsFor(k, acc.st), k),
                   Miss(st), b.kids))

EvalSequence(b, exp, st) ==
  LET fold(x, y) == IF exp = "bool" THEN Bool(IsOn(x) /\ As(y, "bool").v = 1)
                    ELSE Val(exp, Raw(IF exp = "int" THEN "addi" ELSE "addd", <<x.v, As(y, exp).v>>))
      start == IF exp = "bool" THEN Bool(TRUE) ELSE IF exp = "void" THEN None ELSE Val(exp, 0)
      add(acc, r) == [acc EXCEPT !.st = r.st, !.v = IF exp = "void" \/ r.st.err # "" THEN @ ELSE fold(@, r.v)]
      term(acc, c, k) == IF IsOn(c.v) THEN add(acc, Eval(k, exp, c.st)) ELSE [acc EXCEPT !.on = FALSE, !.st = c.st]
      done(r) == Result(r.v, r.st)
  IN done(FoldLeft(LAMBDA acc, k : IF ~acc.on \/ acc.st.err # "" THEN acc ELSE term(acc, HoldsFor(k, acc.st), k),
                   [on |-> TRUE, v |-> start, st |-> st], b.kids))

\* The cases run with the value they are compared with as their scope.
EvalCase(k, exp, subject, st) ==
  LET val == ChildNamed(k, "value")
      match(v) == IF v.st.err # "" \/ v.v # subject THEN Miss(v.st) ELSE Hit(Eval(k, exp, v.st))
  IN IF val = <<>> THEN Hit(Eval(k, exp, st)) ELSE match(Eval(val[1].kids[1], subject.t, st))

EvalSwitch(b, exp, st) ==
  LET cases(subject) ==
        FoldLeft(LAMBDA acc, k : IF acc.hit \/ acc.st.err # "" THEN acc ELSE EvalCase(k, exp, subject.v, acc.st),
                 Miss(EnterIn(subject.st, subject.v)), Parts(b))
      out(r) == IF ~r.hit /\ exp # "void" THEN Bad([r.st EXCEPT !.scopes = st.scopes], "no case") ELSE Return(r, st)
  IN out(cases(Eval(ChildNamed(b, "value")[1].kids[1], "any", st)))

\* The first branch whose cumulative weight reaches the roll's share.
Weigh(acc, w) ==
  LET x == As(w.v, "float").v
      sum == IF acc.sums = <<>> THEN x ELSE x + Last(acc.sums)
  IN IF w.st.err # "" THEN [acc EXCEPT !.st = w.st]
     ELSE IF x < 0 THEN [acc EXCEPT !.st = Bad(w.st, "weight").st]
     ELSE [sums |-> Append(acc.sums, sum), st |-> w.st]

EvalRandom(b, exp, st) ==
  LET weigh(acc, k) ==
        IF acc.st.err # "" THEN acc ELSE Weigh(acc, Eval(Named(ChildNamed(k, "weight")[1], "ADD"), "float", acc.st))
      chosen(sums) ==
        LET share == Raw("muld", <<st.env.chance[1], Last(sums)>>)
        IN CHOOSE k \in DOMAIN sums : share <= sums[k] /\ \A j \in 1 .. (k - 1) : share > sums[j]
      branch(ws) == IF ws.st.err # "" THEN Result(None, ws.st) ELSE Eval(Unnamed(b.kids[chosen(ws.sums)]), exp, ws.st)
  IN branch(FoldLeft(weigh, [sums |-> <<>>, st |-> st], b.kids))

\* `saved:x` and `arg:x`, read on in the scope of the value.
EvalSlot(slots, b, exp, st) ==
  LET v == slots[b.kids[1].n]
  IN IF b.kids[1].n \notin DOMAIN slots THEN Bad(st, "unset")
     ELSE IF Len(b.kids) = 1 THEN Result(v, st) ELSE Return(Eval(b.kids[2], exp, EnterIn(st, v)), st)

\* `field` is "saved" or "args".
EvalStore(b, field, st) ==
  LET put(r, name) == IF r.st.err # "" THEN r.st ELSE [r.st EXCEPT ![field] = (name :> r.v) @@ @]
      store(s, k) == IF s.err # "" THEN s ELSE put(Eval(k.kids[1], "any", s), k.n)
  IN Result(None, FoldLeft(store, st, b.kids))

EvalValueOr(b, exp, first) ==
  LET brought(r) == Result(As(r.v, exp), r.st)
  IN brought(Eval(IF IsOn(first.v) THEN b.kids[2] ELSE b.kids[3], exp, first.st))

EvalAssert(first) == IF IsOn(first.v) THEN Result(None, first.st) ELSE Bad(first.st, "assert")

EvalForm(b, exp, st) ==
  LET n == b.n
      both == EvalAll(b.kids, "any", st)
      scope == IF st.scopes = <<>> THEN Invalid ELSE Last(st.scopes)
      equal(r) == Result(Bool(Same(r.vals[1], r.vals[2]) = (n \in {"EQ", "=="})), r.st)
      logic(r) == Result(Bool(Raw(n, [k \in DOMAIN r.vals |-> r.vals[k].v]) = 1), r.st)
      first == Eval(Named([b EXCEPT !.kids = <<b.kids[1]>>], "AND"), "bool", st)
  IN CASE n \in {"EQ", "==", "NEQ", "!="} -> equal(both)
       [] n \in {"and", "or", "not"} -> logic(both)
       [] n \in DOMAIN OpNames -> OperateOn(n, EvalAll(b.kids, exp, st))
       [] n = "value_or" -> EvalValueOr(b, exp, first)
       [] n = "select" -> EvalSelect(b, exp, st)
       [] n = "sequence" -> EvalSequence(b, exp, st)
       [] n = "switch" -> EvalSwitch(b, exp, st)
       [] n = "random" -> EvalRandom(b, exp, st)
       [] n = "chance" -> Result(Val("float", st.env.chance[1]), st)
       [] n \in {"this", "outer"} -> Within(scope, b, exp, st)
       [] n = "prev" -> Outward(b, exp, st)
       [] n = "ctx" -> Eval(b.kids[1], exp, st)
       [] n = "saved" -> EvalSlot(st.saved, b, exp, st)
       [] n = "arg" -> EvalSlot(st.args, b, exp, st)
       [] n = "ctx_save" -> EvalStore(b, "saved", st)
       [] n = "ctx_set" -> EvalStore(b, "args", st)
       [] n = "ctx_save_as" -> Result(None, [st EXCEPT !.saved = (b.kids[1].n :> scope) @@ @])
       [] n = "ctx_set_as" -> Result(None, [st EXCEPT !.args = (b.kids[1].n :> scope) @@ @])
       [] n = "trace" -> Result(None, [st EXCEPT !.log = Append(@, <<"trace", b.kids[1].v>>)])
       [] n = "assert" -> EvalAssert(first)

Forms == DOMAIN OpNames \union {"EQ", "==", "NEQ", "!=", "and", "or", "not", "value_or",
  "select", "sequence", "switch", "random", "chance", "this", "outer", "prev", "ctx", "saved", "arg", "ctx_save",
  "ctx_set", "ctx_save_as", "ctx_set_as", "trace", "assert"}

\* A function of the host.
EvalCall(b, exp, st) ==
  LET f == Functions[b.n]
      n == Len(f.args)
      scope == IF f.scope = "" \/ st.scopes = <<>> THEN Invalid ELSE Last(st.scopes)
      answer == IF f.scope = "" THEN st.env.host[b.n] ELSE st.env.scoped[b.n][scope.v]
      call(vals, after) ==
        IF after.err # "" THEN Result(None, after)
        ELSE IF f.scope # "" /\ scope.v = -1 THEN Bad(after, "invalid scope")
        ELSE IF f.ret = "void"
        THEN Result(None, [after EXCEPT !.log = Append(@, <<b.n, scope.v, [k \in DOMAIN vals |-> As(vals[k], f.args[k])]>>)])
        ELSE Within(Val(f.ret, answer), [b EXCEPT !.kids = SubSeq(@, n + 1, Len(@))], exp, after)
      given(r) == call(r.vals, r.st)
  IN given(EvalAll(SubSeq(b.kids, 1, n), IF n = 0 THEN "any" ELSE f.args[1], st))

Combinators == {"AND", "OR", "NAND", "NOR", "ADD", "MUL"}

Eval(b, exp, st) ==
  IF st.err # "" THEN Result(None, st)
  ELSE IF b.n \in LiteralTypes THEN Result(Val(b.n, b.v), st)
  ELSE IF b.n \in Combinators \union {"__empty_lvalue", "__effect_block", "__object_block", "__string_block"}
  THEN EvalBlock(b, IF b.n \in Combinators THEN b.n ELSE "", IF b.n \in Combinators \ {"ADD", "MUL"} THEN "bool" ELSE exp, st)
  ELSE IF b.n \in Forms THEN EvalForm(b, exp, st)
  ELSE IF b.n \in DOMAIN Functions THEN EvalCall(b, exp, st)
  ELSE IF b.n \in DOMAIN EnumValue /\ exp # "str" THEN Result(Val("int", EnumValue[b.n]), st)
  ELSE Result(Val("str", b.v), st)

\* The outcome of a script: its result, its effects in order, its error.
Outcome(v, log, err) == [ret |-> v, log |-> log, err |-> err]

Meaning(rows, ret, root, env) ==
  LET outcome(r) == Outcome(IF ret = "void" \/ r.st.err # "" THEN Val("void", 0) ELSE As(r.v, ret), r.st.log, r.st.err)
  IN outcome(Eval(Node("__empty_lvalue", rows), ret, StartOf(env, root)))

\* What a run and the text have in common when the run is right.
SameOutcome(run, meant) ==
  /\ run.log = meant.log
  /\ (run.err = "") = (meant.err = "")
  /\ run.err = "" => run.ret = meant.ret
=============================================================================
