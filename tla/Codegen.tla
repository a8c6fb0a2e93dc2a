------------------------------- MODULE Codegen -----------------------------
(***************************************************************************)
(* The semantic pass: a script tree becomes a command stream               *)
(* (system::dispatch_node, fold_block, resolve_function, the emitters of   *)
(* registered functions and the built-in forms).  Every operator takes the *)
(* compile context and returns the one it leaves behind.                   *)
(*                                                                         *)
(* A scope path such as `a.b` arrives here as the nested tree the AST pass *)
(* makes of it.                                                            *)
(***************************************************************************)
EXTENDS CompileContext

CONSTANTS
  Enums,            \* enum literal -> its integer
  ArgumentSlots,    \* slots for arguments (context::script_arguments_size)
  StackLimit,       \* parse_context::max_stack_limit
  SavedLimit        \* parse_context::max_saved_limit

Nothing == Node("", <<>>)
Ignored == {"condition", "custom_description", "value", "weight"}
EmptyBlocks == {"__effect_block", "__string_block", "__object_block", "__empty_lvalue"}

\* command_block::find: the first child of that name.
Find(b, name) ==
  LET at == {k \in DOMAIN b.kids : b.kids[k].n = name}
  IN IF at = {} THEN Nothing ELSE b.kids[Min(at)]

Has(b, name) == Find(b, name) # Nothing
Terms(b) == SelectSeq(b.kids, LAMBDA k : k.n \notin Ignored)

\* The combinator a block without a name stands for.
BlockOf(exp) ==
  CASE exp = "bool" -> "AND" [] exp \in Fundamental -> "ADD" [] exp = "str" -> "__string_block"
    [] exp = "void" -> "__effect_block" [] OTHER -> "__object_block"

\* The two recursive routines, as one operator: every form compiles its children
\* through them.
RECURSIVE Pass(_, _, _, _)
Dispatch(cx, b, override) == Pass("dispatch_node", cx, b, override)
FoldBlock(cx, b, id) == Pass("fold_block", cx, b, id)

-----------------------------------------------------------------------------
(* Blocks *)

\* The condition of a block's child: compiled as AND, then a jump over the
\* child.  Nothing when the child has none.
Guarded(cx, child) ==
  IF ~Has(child, "condition") THEN cx
  ELSE EmitJump(CheckTop(Dispatch(cx, Find(child, "condition"), "AND"), {"bool"}, "condition is not bool"), "condjump")

GuardSite(cx, child) == IF Has(child, "condition") THEN Site(cx) ELSE {}

\* The jump that takes a nullable child's invalid value off the stack.
NullSkip(cx, child) == IF child.q THEN Raise(cx, Cmd("jumpinvalid", 1, 0, "")) ELSE cx
NullSite(cx, child) == IF child.q THEN Site(cx) ELSE {}

\* The value of a child whose guard is `guarded`: kept, and the rest of the
\* block is passed over.
Alternative(guarded, child, value) ==
  LET c1 == NullSkip(Pop(value), child)
      c2 == EmitJump(c1, "jump")
      skip == GuardSite(guarded, child) \union NullSite(c1, child)
  IN [cx |-> Bind(c2, skip), end |-> Site(c2), falls |-> skip # {}]

\* A block typed "any" or "anyobj" takes the type of its first value.
Open(exp) == exp \in {"any", "anyobj"}

ObjectValue(acc, child, guarded, cx) ==
  LET c == Check(CheckValue(cx, guarded), Top(cx) # "ignore" /\ (Open(acc.exp) \/ Top(cx) = acc.exp), "object block type")
      r == Alternative(guarded, child, c)
  IN [acc EXCEPT !.cx = r.cx, !.end = @ \union r.end, !.value = TRUE, !.falls = r.falls,
                 !.type = IF Open(acc.exp) /\ @ = "" THEN Top(cx) ELSE @]

ObjectChild(acc, child) ==
  LET c == Guarded(acc.cx, child) IN ObjectValue(acc, child, c, Dispatch(c, child, ""))

\* The first child that produces a value ends the block; a block whose last
\* child can be skipped ends with the type's default.
ObjectEnd(done) ==
  LET type == IF done.type = "" THEN done.exp ELSE done.type
      mode == NullableMode(type)
      op == <<"pushbool", "pushvalue", "pushint">>[mode]
      default == IF ~(done.value /\ done.falls) THEN done.cx
                 ELSE IF mode = 0 THEN Emit(done.cx, "pushinvalid", 0) ELSE Pop(Emit(done.cx, op, 0))
  IN Push(Bind(default, done.end), IF done.value THEN type ELSE "ignore")

ObjectBlock(cx, b) ==
  ObjectEnd(FoldLeft(ObjectChild,
    [cx |-> cx, exp |-> cx.exp, end |-> {}, value |-> FALSE, falls |-> FALSE,
     type |-> IF Open(cx.exp) THEN "" ELSE cx.exp], Terms(b)))

StringValue(acc, child, guarded, cx) ==
  LET c == Check(cx, Depth(cx) > Depth(guarded) /\ Top(cx) = "str", "string block type")
      r == Alternative(guarded, child, c)
  IN IF Top(cx) = "ignore" THEN [acc EXCEPT !.cx = Pop(cx)]   \* the guard stays unbound
     ELSE [cx |-> r.cx, end |-> acc.end \union r.end, value |-> TRUE]

StringChild(acc, child) ==
  LET c == Guarded(acc.cx, child) IN StringValue(acc, child, c, Dispatch(c, child, ""))

StringEnd(done) == Push(Bind(done.cx, done.end), IF done.value THEN "str" ELSE "ignore")
StringBlock(cx, b) == StringEnd(FoldLeft(StringChild, [cx |-> cx, end |-> {}, value |-> FALSE], Terms(b)))

\* A false condition leaves the whole block; the placeholder of a child that
\* has no value is dropped at once.
EffectChild(acc, child) ==
  LET c == Guarded(acc.cx, child)
  IN [cx |-> IF child.n \in Ignored THEN c ELSE DropIgnored(Dispatch(c, child, ""), Depth(c)),
      end |-> acc.end \union GuardSite(c, child)]

BlockEnd(done, cx) == Placeholder(Bind(done.cx, done.end), cx)
EffectBlock(cx, b) == BlockEnd(FoldLeft(EffectChild, [cx |-> cx, end |-> {}], b.kids), cx)

CombinatorOps == "ADD" :> "sum" @@ "MUL" :> "mul" @@ "AND" :> "andjump" @@ "OR" :> "orjump"

\* One operand of AND, OR, ADD or MUL: the first one is kept, a later one is
\* folded into it.  In a boolean block every operand may end the block.
Logical(id) == id \in {"AND", "OR"}

OperandOf(id, cx) ==
  IF Logical(id) THEN CheckTop(cx, {"bool"}, "not bool")
  ELSE IF Top(cx) = "int" /\ cx.exp = "float" THEN ConvertDirect(cx, "int", "float") ELSE cx

FoldOperand(id, acc, skip, cx) ==
  LET widened == IF ~Logical(id) /\ Top(cx) = "bool" THEN ConvertDirect(cx, "bool", "float") ELSE cx
      c == IF acc.count > 0 THEN EmitJump(widened, CombinatorOps[id])
           ELSE IF ~Logical(id) THEN cx
           ELSE EmitJump(cx, IF id = "AND" THEN "condjump_get" ELSE "condjumpt_get")
  IN [cx |-> Bind(c, skip), count |-> acc.count + 1, end |-> IF Logical(id) THEN acc.end \union Site(c) ELSE acc.end]

CombinatorValue(id, acc, skip, before, cx) ==
  IF Top(cx) = "ignore" /\ Depth(cx) > Depth(before) THEN [acc EXCEPT !.cx = Bind(Pop(cx), skip)]
  ELSE FoldOperand(id, acc, skip, OperandOf(id, CheckValue(cx, before)))

CombinatorChild(id, conditional, acc, child) ==
  LET c == IF conditional THEN Guarded(acc.cx, child) ELSE acc.cx
  IN CombinatorValue(id, acc, IF conditional THEN GuardSite(c, child) ELSE {}, c, Dispatch(c, child, ""))

\* An arithmetic block with conditional operands starts from the identity.
Identity(cx, id) ==
  LET one == IF id = "MUL" THEN 1 ELSE 0
  IN IF cx.exp = "int" THEN Emit(cx, "pushint", one) ELSE Emit(cx, "pushvalue", ToFloat(one))

Conditional(b) == \E k \in DOMAIN Terms(b) : Has(Terms(b)[k], "condition")

Combinator(cx, b, id) ==
  LET conditional == ~Logical(id) /\ Conditional(b)
      start == IF conditional THEN Identity(cx, id) ELSE cx
      done == FoldLeft(LAMBDA acc, child : CombinatorChild(id, conditional, acc, child),
                [cx |-> start, count |-> IF conditional THEN 1 ELSE 0, end |-> {}], Terms(b))
  IN BlockEnd(done, cx)

FoldedBlock(cx, b, id) ==
  LET cur == IF id = "" THEN BlockOf(cx.exp) ELSE id
  IN IF Failed(cx) THEN cx
     ELSE IF b.kids = <<>> THEN IF id = b.n THEN Fail(cx, "empty combinator") ELSE Dispatch(cx, b, "")
     ELSE CASE cur = "NAND" -> Emit(FoldBlock(cx, b, "AND"), "notfn", 0)
            [] cur = "NOR" -> Emit(FoldBlock(cx, b, "OR"), "notfn", 0)
            [] cur = "__object_block" -> ObjectBlock(cx, b)
            [] cur = "__string_block" -> StringBlock(cx, b)
            [] cur = "__effect_block" -> EffectBlock(cx, b)
            [] OTHER -> Combinator(cx, b, cur)

-----------------------------------------------------------------------------
(* Arguments of a registered function *)

\* parse_arg: the argument is compiled expecting its type, then brought to it.
Argument(cx, b, type) ==
  LET from == Top(cx)
      widen == type \in Fundamental \union {"bool"} /\ from \in {"bool", "int", "float"}
               /\ (from = "float" => type = "bool")
      accepted(c) == CheckTop(c, IF b = Nothing \/ type = "any" THEN {Top(c)} ELSE {"ignore", type}, "argument type")
  IN accepted(IF widen THEN ConvertDirect(cx, from, type)
              ELSE IF from \notin {"ignore", type} /\ type # "any" /\ CanConvert(from, type)
              THEN ConvertTop(cx, type) ELSE cx)

ParseExpecting(cx, b, type, exp, override) ==
  LET c == Leave(Dispatch(Expecting(cx, exp), b, override), cx)
  IN Argument(IF override = "" THEN c ELSE DescribeNode(c, b.n, Len(cx.descs), 0), b, type)

ParseArg(cx, b, type, override) == ParseExpecting(cx, b, type, type, override)

\* A condition inside an argument would never be evaluated.
RejectIgnoredCondition(cx, b) == Check(cx, ~Has(b, "condition"), "condition in argument")

\* parse_args for a fixed list of parameters, in order or by name.  The rest
\* of the children is `used` .. Len(kids).
Positional(acc, cx) ==
  IF Top(cx) = "ignore" THEN [acc EXCEPT !.cx = DropIgnored(cx, 0), !.used = @ + 1]
  ELSE [cx |-> cx, count |-> acc.count + 1, used |-> acc.used + 1]

Complete(r, n) == [r EXCEPT !.cx = Check(@, r.count = n, "not enough arguments")]

ParseArgs(cx, b, f) ==
  LET n == Len(f.args)
      positional(acc, child) ==
        IF acc.count = n \/ Failed(acc.cx) THEN acc
        ELSE Positional(acc, ParseArg(RejectIgnoredCondition(acc.cx, child), child, f.args[acc.count + 1], ""))
      named(acc, k) ==
        LET child == Find(b, f.names[k])
            c == RejectIgnoredCondition(Check(acc.cx, child # Nothing, "missing argument"), child)
        IN [cx |-> ParseArg(c, child, f.args[k], BlockOf(f.args[k])), count |-> k, used |-> Len(b.kids)]
      start == [cx |-> cx, count |-> 0, used |-> 0]
  IN Complete(IF f.names = <<>> THEN FoldLeft(positional, start, b.kids)
              ELSE FoldLeft(named, start, [k \in 1 .. n |-> k]), n)

-----------------------------------------------------------------------------
(* Calls *)

EmitCall(cx, f, scope) ==
  LET n == Len(Functions[f].args)
      ret == Functions[f].ret
  IN Yield(PopN(Raise(cx, Cmd("call", scope, 0, f)), n), ret)

\* parse_args for `T f(T, T)`: every child is an operand, and the call follows
\* each but the first; a child without a value is dropped and does not count.
Operand(acc, f, scope, cx) ==
  IF Failed(cx) THEN [acc EXCEPT !.cx = cx]
  ELSE IF Top(cx) = "ignore" THEN [acc EXCEPT !.cx = DropIgnored(cx, 0)]
  ELSE [cx |-> IF acc.count = 0 THEN cx ELSE EmitCall(cx, f, scope), count |-> acc.count + 1]

ParseOperands(cx, b, f, scope) ==
  FoldLeft(LAMBDA acc, child :
             Operand(acc, f, scope, ParseArg(RejectIgnoredCondition(acc.cx, child), child, Functions[f].args[1], "")),
           [cx |-> cx, count |-> 0], b.kids)

\* The call's scope handle; an untyped scope takes the type of the first
\* function called in it.
CommitScope(cx, scope) ==
  IF scope = "" \/ Failed(cx) THEN cx
  ELSE LET untyped == ScopeType(cx) = "any"
           c == Check(cx, ScopeType(cx) = scope \/ untyped, "wrong scope")
       IN IF ~untyped THEN c
          ELSE [Check(c, cx.upvalue \in {"", scope}, "several scopes") EXCEPT !.upvalue = scope]

\* Any number of operands folded pairwise; ADD and MUL with conditional
\* operands start from the identity and skip the operands whose condition is
\* false.
UnlimitedCall(cx, b, f, name) ==
  LET scope == CurrentScope(cx)
      arithmetic == name \in {"ADD", "MUL"}
      identity == Leave(Identity(Expecting(cx, Functions[f].args[1]), name), cx)
      operand(c, child) ==
        LET c1 == Guarded(c, child)
            c2 == Operand([cx |-> c1, count |-> 1], f, scope, ParseArg(c1, child, Functions[f].args[1], "")).cx
        IN Bind(c2, GuardSite(c1, child))
      needed == IF Functions[f].operator THEN Len(b.kids)
                ELSE IF b.n = name /\ ~arithmetic THEN 2 ELSE 1
      enough(plain) == Check(plain.cx, plain.count >= needed, "operands")
  IN IF arithmetic /\ Conditional(b) THEN FoldLeft(operand, identity, Terms(b))
     ELSE enough(ParseOperands(cx, b, f, scope))

\* The block after a call that returned an object runs in the scope of that
\* object; written `?=` it is guarded against an invalid one.
ScopedBlock(cx, b, used) ==
  LET nullable == b.q /\ Top(cx) # "any"
      c1 == EnterScope(cx)
      c2 == IF nullable THEN Raise(c1, Cmd("guard", 1, NullableMode(cx.exp), "")) ELSE c1
      inside == ScopeExit(IF used = 0 THEN FoldBlock(c2, b, "") ELSE Dispatch(c2, b.kids[used + 1], ""))
  IN Bind(inside, IF nullable THEN Site(c2) ELSE {})

CallRest(cx, b, f, used) ==
  IF ~Failed(cx) /\ Functions[f].ret = "obj" /\ used < Len(b.kids) /\ (used = 0 \/ cx.lvalue)
  THEN ScopedBlock(cx, b, used) ELSE cx

CallParsed(b, f, scope, parsed) == CallRest(EmitCall(parsed.cx, f, scope), b, f, parsed.used)

FixedCall(cx, b, f) ==
  Placeholder(CallParsed(b, f, CurrentScope(cx), ParseArgs(cx, b, Functions[f])), cx)

Invoke(cx, b, f, name, unlimited) ==
  IF Failed(cx) THEN cx ELSE IF unlimited THEN UnlimitedCall(cx, b, f, name) ELSE FixedCall(cx, b, f)

\* The emitter a registration installs for an ordinary function or operator.
CallFunction(cx, b, f, name) ==
  LET fun == Functions[f]
      n == Len(fun.args)
      unlimited == n = 2 /\ fun.args[1] = fun.args[2] /\ fun.args[1] = fun.ret
      c1 == Check(cx, fun.ret = "void" => cx.exp = "void", "effect in a value")
      c2 == Check(c1, fun.operator => cx.exp # "void", "operator in an effect")
      c3 == IF unlimited THEN c2
            ELSE Check(c2, IF n # 0 THEN Len(b.kids) <= n \/ fun.ret = "obj"
                           ELSE fun.ret = "obj" \/ Terms(b) = <<>>, "too many arguments")
  IN Invoke(CommitScope(c3, fun.scope), b, f, name, unlimited)

-----------------------------------------------------------------------------
(* Built-in forms *)

Kid(b, k) == IF k \in DOMAIN b.kids THEN b.kids[k] ELSE Nothing
SlotNamed(slots, name) == {k \in DOMAIN slots : slots[k].n = name}
IsVoid(cx) == cx.exp = "void"

\* AND, OR, NAND and NOR are boolean whatever block they stand in.
BoolForm(cx, b, name) == Leave(FoldBlock(Expecting(cx, "bool"), b, name), cx)

AssertForm(cx, b) ==
  LET c1 == ParseArg(cx, Kid(b, 1), "bool", "")
      c2 == Check(Emit(c1, "pushstring", Kid(b, 2).v), Len(b.kids) <= 2, "too many arguments")
  IN PopN(Raise(c2, Cmd("assert", 0, 0, "")), 2)

TraceForm(cx, b) ==
  LET c1 == Check(Emit(cx, "pushstring", Kid(b, 1).v), Len(b.kids) <= 1, "too many arguments")
  IN Pop(Raise(c1, Cmd("trace", 0, 0, "")))

\* Children from the k-th on are compiled until one of them has a value.
RECURSIVE UntilValue(_, _, _, _, _)
UntilValue(cx, b, k, type, exp) ==
  LET upTo(c) == IF ~Failed(c) /\ Top(c) = "ignore" THEN UntilValue(DropIgnored(c, 0), b, k + 1, type, exp)
                 ELSE [cx |-> c, next |-> k + 1]
  IN upTo(ParseExpecting(cx, Kid(b, k), type, exp, ""))

\* Both branches are brought to the type of the first.
OtherBranch(cx, b, next, cond) ==
  LET end == EmitJump(cx, "jump")
      other == UntilValue(Pop(Bind(end, cond)), b, next, "any", Top(cx)).cx
      same == IF Top(cx) = "anyobj" THEN other ELSE BringTopTo(other, Top(cx))
  IN Push(Pop(Bind(same, Site(end))), Top(cx))

ValueBranch(b, cond) ==
  LET jump == EmitJump(cond.cx, "condjump")
      branch(value) == OtherBranch(BringTopTo(value.cx, cond.cx.exp), b, value.next, Site(jump))
  IN branch(UntilValue(jump, b, cond.next, "any", cond.cx.exp))

ValueOr(cx, b) ==
  ValueBranch(b, UntilValue(Check(cx, cx.lvalue /\ ~IsVoid(cx), "value_or"), b, 1, "bool", "bool"))

\* A block that runs in the scope of the handle on top of the stack.
InScope(cx, b) ==
  IF b.kids = <<>> THEN cx ELSE ScopeExit(FoldBlock(EnterScope(cx), b, ""))

ThisForm(cx, b) ==
  LET c == Check(cx, cx.scopes # <<>>, "no scope")
  IN InScope(Push(Emit(c, "pushthis", CurrentScope(c)), ScopeType(c)), b)

\* `prev.prev` walks outward through the scopes: inside, the handle just pushed
\* and the scope it was pushed from are passed over.
PrevForm(cx, b) ==
  LET at == Len(cx.scopes) - 1 - cx.prev
      slot == cx.scopes[at]
      handle == Push(Emit(cx, "pushprev", slot), cx.types[slot])
  IN IF at < 1 THEN Fail(cx, "no previous scope")
     ELSE [InScope([handle EXCEPT !.prev = @ + 2], b) EXCEPT !.prev = cx.prev]

\* The nearest scope the script's author can see.
OuterForm(cx, b) ==
  LET seen == {k \in DOMAIN cx.scopes : cx.types[cx.scopes[k]] \notin {"thisctx", "thisarg", "thisctxlist"}}
      slot == cx.scopes[Max(seen)]
      handle == Push(Emit(cx, "pushprev", slot), cx.types[slot])
  IN IF seen = {} THEN Fail(cx, "no outer scope")
     ELSE [InScope([handle EXCEPT !.prev = @ + Len(cx.scopes) - Max(seen)], b) EXCEPT !.prev = cx.prev]

\* Equality is chosen by the types of the two operands.
EqualityOf(x, y) ==
  CASE x = "bool" /\ y = "bool"   -> "eqb"
    [] x = "int" /\ y = "int"     -> "eqi"
    [] x = "float" /\ y = "float" -> "eqd"
    [] x = "int" /\ y = "float"   -> "eqid"
    [] x = "float" /\ y = "int"   -> "eqdi"
    [] x = "str" /\ y = "str"     -> "eqs"
    [] x \in Fundamental \union {"bool"} /\ y \in Fundamental \union {"bool"} -> "mixed"
    [] OTHER -> "eqv"

\* A bool compared with a number is converted where it stands: on the top.
Equate(cx, x, y) ==
  LET eq == EqualityOf(x, y)
      widened == FoldLeft(LAMBDA c, t : IF t \in {"bool", "int"} THEN ConvertDirect(c, t, "float") ELSE c, cx, <<x, y>>)
      c == IF eq = "mixed" THEN Raise(widened, Cmd("call", 0, 0, "eqd"))
           ELSE Raise(Check(cx, eq = "eqv" => x = y, "different types"), Cmd("call", 0, 0, eq))
  IN Push(PopN(c, 2), "bool")

EqForm(cx, b) ==
  LET right(left) == UntilValue(left.cx, b, left.next, "any", "any").cx
      equate(left, c) == Equate(c, Top(left), Top(c))
      both(left) == equate(left.cx, right(left))
  IN both(UntilValue(cx, b, 1, "any", "any"))

\* emitter::guarded_clause: the body, compiled after the guard's jump of `cx`,
\* leads to the end, and the guard past the body.
Clause(cx, guarded, body) ==
  LET c == EmitJump(body, "jump") IN [cx |-> Bind(c, IF guarded THEN Site(cx) ELSE {}), site |-> Site(c)]

Condition(cx, child) == Dispatch(cx, Find(child, "condition"), "AND")
Meaningless(cx) == Check(cx, cx.exp \notin {"str", "obj"}, "meaningless here")

\* A child's value brought to the type of the form; a child of an effect
\* leaves nothing.
Body(cx, child, compiled) ==
  IF IsVoid(cx) THEN DropIgnored(compiled, Depth(cx))
  ELSE IF Failed(compiled) THEN compiled
  ELSE BringTopTo(Check(compiled, Top(compiled) # "ignore", "no value"), cx.exp)

\* The first child whose condition holds; the last one is the else branch.
SelectChild(acc, child, guarded, cx) ==
  LET r == Clause(cx, guarded, Body(cx, child, Dispatch(cx, child, "")))
  IN [cx |-> IF IsVoid(cx) THEN r.cx ELSE Pop(r.cx), end |-> acc.end \union r.site]

Select(cx, b) ==
  LET strict == cx.exp \in Fundamental \union {"bool"}
      clause(acc, k) ==
        LET child == b.kids[k]
            guarded == Has(child, "condition")
            c == Check(acc.cx, strict => (guarded # (k = Len(b.kids))), "select condition")
        IN SelectChild(acc, child, guarded, IF guarded THEN EmitJump(Condition(c, child), "condjump") ELSE c)
      end(done) == Bind(Yield(done.cx, cx.exp), done.end)
  IN end(FoldLeft(clause, [cx |-> Meaningless(cx), end |-> {}], [k \in DOMAIN b.kids |-> k]))

\* Children as long as their conditions hold.
SequenceForm(cx, b) ==
  LET start == CASE cx.exp = "bool"  -> Emit(cx, "pushbool", 1)
                 [] cx.exp = "int"   -> Emit(cx, "pushint", 0)
                 [] cx.exp = "float" -> Emit(cx, "pushvalue", 0)
                 [] OTHER -> cx
      widen(c, types, to) == IF ~Failed(c) /\ Top(c) \in types THEN ConvertDirect(c, Top(c), to) ELSE c
      fold(c) == CASE cx.exp = "bool"  -> Emit(widen(c, Fundamental, "bool"), "andbin", 0)
                   [] cx.exp = "int"   -> Emit(BringTopTo(c, "int"), "sumi", 0)
                   [] cx.exp = "float" -> Emit(widen(c, {"int", "bool"}, "float"), "sum", 0)
                   [] OTHER -> c
      term(c, child) ==
        IF IsVoid(cx) THEN DropIgnored(Dispatch(c, child, ""), Depth(c))
        ELSE LET value(x) == Check(x, Top(x) # "ignore", "no value") IN value(Dispatch(c, child, ""))
      clause(acc, child) ==
        LET c1 == Condition(Check(acc.cx, Has(child, "condition"), "no condition"), child)
            c2 == EmitJump(c1, "condjump")
        IN [cx |-> fold(term(c2, child)), end |-> acc.end \union Site(c2)]
      end(done) == Bind(done.cx, done.end)
  IN end(FoldLeft(clause, [cx |-> Meaningless(start), end |-> {}], b.kids))

\* The single expression of a `value` node.
SwitchValue(cx, node, exp) ==
  LET c == Check(cx, Len(node.kids) = 1, "switch value")
      v == Leave(Dispatch(Expecting(c, exp), Kid(node, 1), ""), c)
  IN CheckValue(v, c)

\* What a case does; its value is on the stack of one path only.
CaseBody(cx, child) ==
  LET c == Body(cx, child, Dispatch(cx, child, "")) IN IF IsVoid(cx) THEN c ELSE Pop(c)

\* A case whose value has been compiled on top of the subject's slot: the
\* value is erased on both ways out of the comparison.
CaseMatch(acc, child, slot, type, cx) ==
  LET at == Depth(cx)
      c1 == EmitJump(Emit2(CheckTop(cx, {type}, "case type"), "cmpeq2", slot, at), "condjump")
      c2 == EmitJump(CaseBody(EraseType(Emit(c1, "erase", at), at), child), "jump")
  IN [acc EXCEPT !.cx = Emit(Bind(c2, Site(c1)), "erase", at), !.end = @ \union Site(c2), !.cases = TRUE]

SwitchCase(acc, child, slot, type) ==
  IF Has(child, "value")
  THEN CaseMatch(acc, child, slot, type,
                 SwitchValue(Check(acc.cx, ~acc.default, "default is not last"), Find(child, "value"), type))
  ELSE [acc EXCEPT !.cx = CaseBody(Check(acc.cx, ~acc.default, "two defaults"), child), !.default = TRUE]

SwitchEnd(done) ==
  LET c == Check(done.cx, done.cases, "no case")
      matched == done.default \/ IsVoid(done.cx)
  IN ScopeExit(Bind(IF matched THEN c ELSE Raise(c, Cmd("switch_no_match", 0, 0, "")), done.end))

\* The subject stays in a slot of its own, in the scope of which the cases run.
SwitchOn(cx, b) ==
  LET case(acc, child) == SwitchCase(acc, child, Depth(cx), Top(cx))
      start == EnterScope(Check(cx, Top(cx) \notin {"bool", "void", "ignore"}, "switch type"))
  IN SwitchEnd(FoldLeft(case, [cx |-> start, end |-> {}, cases |-> FALSE, default |-> FALSE],
                        SelectSeq(b.kids, LAMBDA k : k.n # "value")))

Switch(cx, b) == Yield(SwitchOn(SwitchValue(cx, Find(b, "value"), "any"), b), cx.exp)

\* Every `chance` of a script has a state of its own.
ChanceForm(cx) == LET n == cx.chances + 1 IN Emit([cx EXCEPT !.chances = n], "chance", n)

\* Cumulative weights in slots of their own, the roll scaled by the total and
\* compared with each of them in turn; all the slots are erased at the end,
\* the highest first.
RandomWeight(cx, child, first) ==
  LET node == Find(child, "weight")
      value == FoldBlock(Expecting(Check(cx, node # Nothing, "no weight"), "float"), node, "ADD")
      described == Leave(DescribeNode(value, "weight", Len(cx.descs), 0), cx)
      c == Raise(BringTopTo(CheckValue(described, cx), "float"), Cmd("weightcheck", 0, 0, ""))
      add(x) == Emit2(x, "sumsetstack", Depth(x), Depth(x) - 1)
  IN IF first THEN c ELSE add(c)

RandomBody(cx, child) ==
  LET c == DescribeNode(FoldBlock(cx, child, ""), child.n, Len(cx.descs), 0)
      value(x) == Pop(Check(x, Top(x) = cx.exp, "random type"))
  IN IF IsVoid(cx) THEN Body(cx, child, c) ELSE value(Body(cx, child, CheckValue(c, cx)))

RandomBranch(acc, child, cx) ==
  LET r == Clause(cx, TRUE, RandomBody(cx, child)) IN [cx |-> r.cx, end |-> acc.end \union r.site]

RandomBranches(b, slot, cx) ==
  LET n == Len(b.kids)
      clause(acc, k) == RandomBranch(acc, b.kids[k], EmitJump(Emit2(acc.cx, "cmplesseqd2", slot, slot + k), "condjump"))
      clear(c, k) == EraseType(Emit(c, "erase", slot + n - k), slot + n - k)
      end(done) == FoldLeft(clear, Bind(done.cx, done.end), [k \in 1 .. n + 1 |-> k - 1])
  IN end(FoldLeft(clause, [cx |-> Emit2(cx, "mulsetstack", slot, slot + n), end |-> {}], [k \in 1 .. n |-> k]))

Random(cx, b) ==
  LET weigh(c, k) == RandomWeight(c, b.kids[k], k = 1)
      weighed == FoldLeft(weigh, ChanceForm(cx), [k \in DOMAIN b.kids |-> k])
  IN Yield(RandomBranches(b, Depth(cx) + 1, weighed), cx.exp)

\* A direct read of the context leaves the pushed object unused: the push and
\* its unwind are recorded for the optimizer.
UnusedContext(code, at, kids) ==
  LET unwind == Len(code)
      inner == (at + 1) .. (unwind - 1)
      reads == {k \in inner : code[k].op \in {"pushctxvalue", "pushargvalue"}}
      falls == {k \in inner : code[k].op = "jump" /\ code[k].a = k + 1}
  IN /\ kids # <<>> /\ code[unwind].op = "erase"
     /\ Cardinality(reads) = 1 /\ reads \union falls = inner

CtxForm(cx, b) ==
  LET at == NextCmd(cx)
      c == Emit(cx, "context", 0)
      note(x) == IF Failed(x) \/ ~UnusedContext(x.code, at, b.kids) THEN x
                 ELSE [x EXCEPT !.dead = Append(@, [cmd |-> at, unwind |-> Len(x.code), slot |-> Depth(c)])]
  IN note(InScope(c, b))

\* The rest of a path after a slot was read, in the scope of its value.
ReadOn(cx, next) == ScopeExit(Dispatch(EnterScope(cx), next, ""))

SavedForm(cx, b) ==
  LET name == Kid(b, 1)
      next == Kid(b, 2)
      at == SlotNamed(cx.saved, name.n)
      type == cx.saved[Min(at)].t
      usable == next # Nothing \/ cx.exp \in {"any", type} \/ CanConvert(type, cx.exp)
      c1 == Emit(Check(cx, usable, "saved type"), "pushctxvalue", Min(at))
  IN IF name = Nothing \/ name.kids # <<>> \/ at = {} THEN Fail(cx, "unsaved")
     ELSE IF next = Nothing THEN c1
     ELSE DescribeNode(ReadOn(c1, next), next.n, Len(cx.descs), 0)

\* Store the top, or the scope handle in place, in the slot of that name:
\* `field` is "saved" or "args".
Slotted(cx, field, name, t, onTop) ==
  LET at == SlotNamed(cx[field], name)
      r == StoreIn(cx, cx[field][Min(at)].t, t, onTop)
  IN IF Failed(cx) THEN [cx |-> cx, slot |-> 0]
     ELSE IF at = {} THEN [cx |-> [cx EXCEPT ![field] = Append(@, [n |-> name, t |-> t])],
                           slot |-> Len(cx[field]) + 1]
     ELSE [cx |-> [r.cx EXCEPT ![field][Min(at)].t = r.t], slot |-> Min(at)]

StorePairs(cx, b, field, op) ==
  LET emit(r) == Emit(r.cx, op, r.slot)
      save(c, name) == emit(Slotted(c, field, name, Top(c), TRUE))
      store(c, child) ==
        LET pair == Check(c, Len(child.kids) = 1, "not a pair")
        IN save(Leave(Dispatch(Expecting(pair, "any"), Kid(child, 1), ""), pair), child.n)
  IN Push(FoldLeft(store, cx, b.kids), "ignore")

StoreScope(cx, b, field, op, limit) ==
  LET c == Check(cx, Len(b.kids) = 1 /\ Kid(b, 1).kids = <<>> /\ cx.scopes # <<>>, "no scope to save")
      emit(r) == Emit2(Check(r.cx, r.slot <= limit, "too many arguments"), op, CurrentScope(cx), r.slot)
  IN Push(emit(Slotted(c, field, Kid(b, 1).n, ScopeType(c), FALSE)), "ignore")

\* The first read of an argument gives its slot the type of the block; an
\* untyped one takes the type of the scope it turns out to be.
ArgForm(cx, b) ==
  LET name == Kid(b, 1).n
      next == Kid(b, 2)
      want == IF next = Nothing THEN cx.exp ELSE "any"
      known == SlotNamed(cx.args, name)
      declared == IF known = {} THEN [cx EXCEPT !.args = Append(@, [n |-> name, t |-> want])] ELSE cx
      slot == IF known = {} THEN Len(cx.args) + 1 ELSE Min(known)
      type == declared.args[slot].t
      c1 == Check(declared, next = Nothing \/ known = {} \/ type \notin Fundamental \union {"bool", "str"}, "argument is no scope")
      c2 == Emit(Check(c1, slot <= ArgumentSlots, "too many arguments"), "pushargvalue", slot)
      typed(c) == IF ~Failed(c) /\ c.upvalue # "" /\ type = "any" THEN [c EXCEPT !.args[slot].t = c.upvalue] ELSE c
  IN IF b.kids = <<>> \/ Kid(b, 1).kids # <<>> THEN Fail(cx, "arg")
     ELSE IF next = Nothing THEN c2 ELSE typed(ReadOn(c2, next))

BuiltInForm(cx, b, name) ==
  CASE name \in {"AND", "OR", "NAND", "NOR"} -> BoolForm(cx, b, name)
    [] name = "assert" -> AssertForm(cx, b)
    [] name = "trace" -> TraceForm(cx, b)
    [] name = "value_or" -> ValueOr(cx, b)
    [] name = "this" -> ThisForm(cx, b)
    [] name = "prev" -> PrevForm(cx, b)
    [] name = "outer" -> OuterForm(cx, b)
    [] name \in {"EQ", "=="} -> EqForm(cx, b)
    [] name \in {"NEQ", "!="} -> Emit(EqForm(cx, b), "notfn", 0)
    [] name = "select" -> Select(cx, b)
    [] name = "sequence" -> SequenceForm(cx, b)
    [] name = "switch" -> Switch(cx, b)
    [] name = "chance" -> ChanceForm(cx)
    [] name = "random" -> Random(cx, b)
    [] name = "ctx" -> CtxForm(cx, b)
    [] name = "saved" -> SavedForm(cx, b)
    [] name = "ctx_save" -> StorePairs(cx, b, "saved", "savectxrvalue")
    [] name = "ctx_set" -> StorePairs(cx, b, "args", "setargrvalue")
    [] name = "ctx_save_as" -> StoreScope(cx, b, "saved", "savectxlvalue", Len(cx.saved) + 1)
    [] name = "arg" -> ArgForm(cx, b)
    [] name = "ctx_set_as" -> StoreScope(cx, b, "args", "setarglvalue", ArgumentSlots)

-----------------------------------------------------------------------------
(* Overload resolution *)

BooleanBlocks == {"AND", "OR", "NAND", "NOR"}
Scalars == Fundamental \union {"bool", "str"}

\* What the result of `f` costs to bring to the expected type; -1: it cannot be.
ReturnCost(cx, f, name) ==
  LET ret == Functions[f].ret
      costOf(p) == IF p.found /\ ~p.overflow THEN p.cost ELSE -1
  IN IF name \in BooleanBlocks \/ ret \notin Scalars \/ cx.exp \in {"void", "any", ret} THEN 0
     ELSE costOf(PathBetween(ret, cx.exp))

\* The registration order of the arithmetic types, the narrowest first.
Priority == "int" :> 10 @@ "float" :> 20
Rank(f) ==
  FoldLeft(LAMBDA n, t : n + (IF t \in DOMAIN Priority THEN Priority[t] ELSE 1000), 0, Functions[f].args)

\* The overloads that may be called in the current scope, in registration
\* order: those of exactly that scope if there is one, otherwise the ones
\* without a scope (any of them where the scope has no type yet).
InScopeOverloads(cx, name) ==
  LET all == Overloads[name]
      exact == \E f \in ToSet(all) : Functions[f].scope = ScopeType(cx)
  IN SelectSeq(all, LAMBDA f : IF exact THEN Functions[f].scope = ScopeType(cx)
                               ELSE Functions[f].scope = "" \/ ScopeType(cx) = "any")

\* A candidate is compiled on a copy of the context.
Scored(cx, f, name, trial) ==
  [cx |-> trial, f |-> f, cost |-> 2 * trial.cost + ReturnCost(cx, f, name), rank |-> Rank(f),
   exact |-> ~IsVoid(cx) /\ Functions[f].ret = cx.exp]

Candidate(cx, b, f, name) ==
  LET trial == [cx EXCEPT !.cost = 0]
  IN Scored(cx, f, name, IF Functions[f].special THEN BuiltInForm(trial, b, name) ELSE CallFunction(trial, b, f, name))

Better(x, y) ==
  IF x.cost # y.cost THEN x.cost < y.cost
  ELSE IF x.exact # y.exact THEN x.exact ELSE x.rank < y.rank

Tied(x, y) == x.cost = y.cost /\ x.exact = y.exact /\ x.rank = y.rank

\* The candidates in order; `tie` says the best one so far is not alone.
Contest(candidates) ==
  FoldLeft(LAMBDA acc, c : IF Failed(c.cx) THEN acc
                           ELSE IF acc.best = <<>> \/ Better(c, acc.best[1]) THEN [best |-> <<c>>, tie |-> FALSE]
                           ELSE IF Tied(c, acc.best[1]) THEN [acc EXCEPT !.tie = TRUE] ELSE acc,
           [best |-> <<>>, tie |-> FALSE], candidates)

\* resolve_function.  What the winner cost replaces what its caller had cost
\* so far.
Resolve(cx, b, name) ==
  LET fits == SelectSeq(InScopeOverloads(cx, name), LAMBDA f : ReturnCost(cx, f, name) >= 0)
      winner(r) == IF r.best = <<>> THEN Fail(cx, "unresolved")
                   ELSE IF r.tie THEN Fail(cx, "ambiguous") ELSE r.best[1].cx
  IN IF Failed(cx) THEN cx
     ELSE IF name \notin DOMAIN Overloads THEN Fail(cx, "unresolved")
     ELSE winner(Contest([k \in DOMAIN fits |-> Candidate(cx, b, fits[k], name)]))

-----------------------------------------------------------------------------
(* Nodes *)

\* A folded constant is emitted only where its own kind of value is expected,
\* except an integer in a floating-point block, which costs what the
\* conversion would have.
FoldedTo(cx, c) ==
  LET fits == cx.exp = "any" \/ c.t = cx.exp
      widens == c.t = "int" /\ cx.exp = "float" /\ CanConvert("int", "float")
  IN IF c = NoConst THEN <<>>
     ELSE IF fits THEN <<Emit(cx, CASE c.t = "bool" -> "pushbool" [] c.t = "int" -> "pushint"
                                    [] c.t = "float" -> "pushvalue", c.v)>>
     ELSE IF widens THEN <<[Emit(cx, "pushvalue", ToFloat(c.v)) EXCEPT !.cost = cx.cost + PathBetween("int", "float").cost]>>
     ELSE <<>>

Literal(cx, b) ==
  Emit(cx, CASE b.n = "bool" -> "pushbool" [] b.n = "int" -> "pushint"
             [] b.n = "float" -> "pushvalue" [] b.n = "str" -> "pushstring", b.v)

\* A function called by a block, or by a name without children.
CallNode(cx, b, override) ==
  LET leaf == b.kids = <<>>
      name == IF leaf \/ override = "" THEN b.n ELSE override
      described(c) == IF leaf THEN DescribeLeaf(c, b.n, NextCmd(cx))
                      ELSE IF override = "" \/ b.n = "condition" THEN DescribeNode(c, b.n, Len(cx.descs), NextCmd(cx)) ELSE c
  IN described(Leave(Resolve([cx EXCEPT !.lvalue = ~leaf], b, name), cx))

\* A name that is no function: an enum literal, or a string where one may stand.
NameLiteral(cx, b) ==
  IF b.n \in DOMAIN Enums /\ cx.exp \in Fundamental \union {"any"} THEN Emit(cx, "pushint", Enums[b.n])
  ELSE IF cx.exp \in {"str", "any"} THEN Emit(cx, "pushstring", b.v) ELSE Fail(cx, "no function")

Leaf(cx, b) ==
  IF b.n = "condition" THEN Fail(cx, "misplaced condition")
  ELSE IF b.n \in EmptyBlocks
  THEN IF IsVoid(cx) THEN Push(cx, "ignore") ELSE Fail(cx, "empty block")
  ELSE DescribeLeaf(IF b.n \in LiteralTypes THEN Literal(cx, b) ELSE NameLiteral(cx, b), b.n, 0)

\* The block a node stands for, "" when it is a call.
BlockNamed(cx, b, override) ==
  LET name == IF override = "" THEN b.n ELSE override
  IN IF name = "__empty_lvalue" THEN BlockOf(cx.exp) ELSE IF name \in EmptyBlocks THEN name ELSE ""

Block(cx, b, id) == DescribeNode(FoldBlock(cx, b, id), id, Len(cx.descs), NextCmd(cx))

\* `folded` is empty or holds the context after a folded constant.
DispatchNode(cx, b, override, folded) ==
  IF Failed(cx) \/ b = Nothing THEN cx
  ELSE IF folded # <<>> THEN DescribeLeaf(folded[1], b.n, 0)
  ELSE IF b.kids = <<>> /\ b.n \notin DOMAIN Overloads \ {"condition"} THEN Leaf(cx, b)
  ELSE IF b.kids # <<>> /\ BlockNamed(cx, b, override) # "" THEN Block(cx, b, BlockNamed(cx, b, override))
  ELSE CallNode(cx, b, override)

Pass(routine, cx, b, id) ==
  IF routine = "fold_block" THEN FoldedBlock(cx, b, id)
  ELSE DispatchNode(cx, b, id, IF id = "" /\ cx.fold THEN FoldedTo(cx, TryConst(b)) ELSE <<>>)

-----------------------------------------------------------------------------
(* A whole script *)

RootBlock(ret) ==
  CASE ret = "bool" -> "AND" [] ret \in Fundamental -> "ADD" [] ret = "str" -> "__string_block"
    [] ret = "void" -> "__effect_block" [] OTHER -> "__object_block"

\* parse_context::init: a script with a root starts in its scope.
InitContext(ret, root, fold) ==
  LET cx == NewContext(ret, fold)
  IN IF root = "" THEN cx
     ELSE EnterScope(Emit([cx EXCEPT !.args = <<[n |-> "root", t |-> root]>>], "pushroot", 1))

\* finalize_resource_usage, without executed scripts.
WithinLimits(cx) ==
  Check(Check(Check(cx, cx.peak <= StackLimit, "stack limit"), Len(cx.saved) <= SavedLimit, "saved limit"),
        Len(cx.args) <= ArgumentSlots, "arguments limit")

ReturnValue(cx) ==
  LET c == IF Depth(cx) > 0 /\ Top(cx) # cx.ret /\ CanConvert(Top(cx), cx.ret) THEN ConvertTop(cx, cx.ret) ELSE cx
  IN Emit(Check(Check(c, Depth(c) > 0, "no value"), Top(c) = c.ret, "return type"), "pushreturn", 0)

Finish(cx, root) ==
  LET close(c) == IF root = "" THEN c ELSE ScopeExit(Check(c, Len(c.scopes) = 1, "open scope"))
      return(c) == IF c.ret = "void" THEN c ELSE ReturnValue(c)
      empty(c) == WithinLimits(Check(c, Depth(c) = 0, "values left"))
  IN empty(return(close(DropIgnored(cx, 0))))

\* system::parse: a script's rows are the children of its root block.
Compile(rows, ret, root, fold) ==
  Finish(Dispatch(InitContext(ret, root, fold), Node(RootBlock(ret), rows), ""), root)
=============================================================================
