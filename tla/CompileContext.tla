--------------------------- MODULE CompileContext --------------------------
(***************************************************************************)
(* What code generation works on: the container being filled (commands,    *)
(* slot tables, description nodes) together with the parse_context that    *)
(* shadows the run-time stack with types (src/src/system.cpp).  They are   *)
(* one record `cx` here, because an overload is tried on a copy of both.   *)
(*                                                                         *)
(* An error is sticky: once `err` is set nothing changes the record any    *)
(* more, which is what an exception that leaves the parser does.           *)
(***************************************************************************)
EXTENDS ConstFolding, ConversionPaths, FiniteSetsExt

CONSTANTS
  Edges,       \* the registered implicit conversions
  Overloads    \* name -> sequence of functions registered under it

Fundamental == {"int", "float"}

\* parse_context(): nothing emitted, nothing on the stack.
NewContext(ret, fold) ==
  [code |-> <<>>, types |-> <<>>, scopes |-> <<>>, exp |-> ret, ret |-> ret, lvalue |-> TRUE,
   peak |-> 0, saved |-> <<>>, args |-> <<>>, descs |-> <<>>, chances |-> 0, cost |-> 0,
   upvalue |-> "", prev |-> 0, fields |-> {}, dead |-> <<>>, fold |-> fold, err |-> ""]

Failed(cx) == cx.err # ""
Fail(cx, why) == IF Failed(cx) THEN cx ELSE [cx EXCEPT !.err = why]
Check(cx, ok, why) == IF ok \/ Failed(cx) THEN cx ELSE [cx EXCEPT !.err = why]

Depth(cx) == Len(cx.types)
Top(cx) == IF cx.types = <<>> THEN "" ELSE Last(cx.types)
NextCmd(cx) == Len(cx.code) + 1
CheckTop(cx, types, why) == Check(cx, Top(cx) \in types, why)
CheckValue(cx, before) == Check(cx, Depth(cx) > Depth(before), "no value")

\* Bug: the peak is not counted.
PushUncounted(cx, t) == IF Failed(cx) THEN cx ELSE [cx EXCEPT !.types = Append(@, t)]

Push(cx, t) ==
  IF Failed(cx) THEN cx
  ELSE [cx EXCEPT !.types = Append(@, t), !.peak = Larger(@, Len(cx.types) + 1)]

\* An instruction without a result has the type "".
PushResult(cx, t) == IF t = "" THEN cx ELSE Push(cx, t)

\* An effect leaves no value.
Yield(cx, t) == IF t = "void" THEN cx ELSE Push(cx, t)

\* A block that left nothing since `before` leaves the placeholder.
Placeholder(cx, before) == IF Len(cx.types) = Len(before.types) THEN Push(cx, "ignore") ELSE cx

PopN(cx, n) ==
  IF Failed(cx) THEN cx
  ELSE IF n > Len(cx.types) THEN Fail(cx, "empty stack")
  ELSE [cx EXCEPT !.types = SubSeq(@, 1, Len(@) - n)]

Pop(cx) == PopN(cx, 1)

EraseType(cx, slot) ==
  IF Failed(cx) THEN cx
  ELSE IF slot \notin DOMAIN cx.types THEN Fail(cx, "no such slot")
  ELSE [cx EXCEPT !.types = RemoveAt(@, slot)]

\* pop_while_ignore and drop_ignore_above: the placeholders above `n` go.
RECURSIVE DropIgnored(_, _)
DropIgnored(cx, n) ==
  IF ~Failed(cx) /\ Depth(cx) > n /\ Top(cx) = "ignore" THEN DropIgnored(Pop(cx), n) ELSE cx

CurrentScope(cx) == IF cx.scopes = <<>> THEN 0 ELSE Last(cx.scopes)
ScopeType(cx) ==
  IF cx.scopes = <<>> \/ CurrentScope(cx) \notin DOMAIN cx.types THEN "" ELSE cx.types[CurrentScope(cx)]

EnterScope(cx) == IF Failed(cx) THEN cx ELSE [cx EXCEPT !.scopes = Append(@, Depth(cx))]

\* set_expected_type and set_function_type restore what they changed.
Expecting(cx, t) == [cx EXCEPT !.exp = t]
Leave(cx, before) == [cx EXCEPT !.exp = before.exp, !.lvalue = before.lvalue]

-----------------------------------------------------------------------------
(* The instruction table and the emitter *)

\* What a basic instruction pops from the types and pushes on them.
Pops(op) ==
  CASE op \in {"andbin", "sum", "sumi", "mul", "andjump", "orjump"} -> 2
    [] op \in {"notfn", "condjump", "pushreturn", "setargrvalue", "savectxrvalue"} -> 1
    [] OTHER -> 0

Pushes(cx, op, a) ==
  CASE op \in {"andbin", "cmpeq2", "cmplesseqd2", "notfn", "andjump", "orjump", "pushbool"} -> "bool"
    [] op \in {"sum", "mul", "pushvalue", "chance"} -> "float"
    [] op \in {"sumi", "pushint"} -> "int"
    [] op = "pushstring" -> "str"
    [] op = "pushroot" -> cx.args[1].t
    [] op = "pushargvalue" -> cx.args[a].t
    [] op = "pushctxvalue" -> cx.saved[a].t
    [] op = "context" -> "thisctx"
    [] OTHER -> ""

\* A command added as it is, with no effect on the types.
Raise(cx, c) == IF Failed(cx) THEN cx ELSE [cx EXCEPT !.code = Append(@, c)]

\* push_basic_function
Emit2(cx, op, a, b) ==
  IF Failed(cx) THEN cx
  ELSE PushResult(PopN(Raise(cx, Cmd(op, a, b, "")), Pops(op)), Pushes(cx, op, a))

Emit(cx, op, a) == Emit2(cx, op, a, 0)

\* A jump is emitted with a placeholder for a target: the code's index 0,
\* which is the first command.
EmitJump(cx, op) == Emit(cx, op, 1)

\* The site of the jump a context has just emitted.
Site(cx) == {Len(cx.code)}

\* emitter::bind: every pending site jumps to the next command.
Bind(cx, sites) ==
  IF Failed(cx) THEN cx
  ELSE [cx EXCEPT !.code = [k \in DOMAIN @ |-> IF k \in sites THEN [@[k] EXCEPT !.a = NextCmd(cx)] ELSE @[k]],
                  !.fields = @ \union sites]

\* Bug: the parse-time stack forgets the handle, the run-time one keeps it.
ScopeExitTypesOnly(cx) ==
  IF Failed(cx) \/ cx.scopes = <<>> THEN Fail(cx, "no scope")
  ELSE EraseType([cx EXCEPT !.scopes = Front(@)], Last(cx.scopes))

ScopeExit(cx) ==
  IF Failed(cx) \/ cx.scopes = <<>> THEN Fail(cx, "no scope")
  ELSE LET slot == Last(cx.scopes)
       IN EraseType(Emit([cx EXCEPT !.scopes = Front(@)], "erase", slot), slot)

-----------------------------------------------------------------------------
(* Conversions *)

PathBetween(from, to) == FindConversionPath(Edges, from, to)
CanConvert(from, to) == PathBetween(from, to).found

\* Bug: the type changes, the value does not.
ConvertTypeOnly(cx, to) ==
  IF Failed(cx) \/ Top(cx) = to THEN cx
  ELSE IF ~CanConvert(Top(cx), to) THEN Fail(cx, "no conversion") ELSE [cx EXCEPT !.types = Append(Front(@), to)]

\* setup_type_conversion along a registered chain.
Along(cx, to, p) ==
  IF ~p.found \/ p.overflow THEN Fail(cx, "no conversion")
  ELSE [cx EXCEPT !.code = @ \o [k \in DOMAIN p.path |-> Cmd("convert", 0, 0, p.path[k].op)],
                  !.types = Append(Front(@), to),
                  !.cost = @ + p.cost]

ConvertTop(cx, to) == IF Failed(cx) \/ Top(cx) = to THEN cx ELSE Along(cx, to, PathBetween(Top(cx), to))

\* setup_type_conversion<FROM, TO>: a conversion nobody registered is emitted
\* directly between the built-in types.
ConvertDirect(cx, from, to) ==
  LET direct == {op \in DOMAIN Conversions : Conversions[op] = <<from, to>>}
      emitted == [Raise(cx, Cmd("convert", 0, 0, CHOOSE op \in direct : TRUE))
                    EXCEPT !.types = Append(Front(@), to), !.cost = @ + 1]
  IN IF Failed(cx) \/ from = to THEN cx
     ELSE IF Top(cx) # from \/ (direct = {} /\ ~CanConvert(from, to)) THEN Fail(cx, "conversion")
     ELSE IF CanConvert(from, to) THEN ConvertTop(cx, to) ELSE emitted

\* convert_top_to
BringTopTo(cx, to) == IF to = "any" THEN cx ELSE ConvertTop(cx, to)

\* slot_value_type: the type a slot that holds `declared` has after a value of
\* the top's type is stored in it; it converts a value that may be converted.
StoreIn(cx, declared, t, onTop) ==
  IF declared \in {"", "any"} \/ declared = t THEN [cx |-> cx, t |-> t]
  ELSE IF onTop /\ CanConvert(t, declared) THEN [cx |-> ConvertTop(cx, declared), t |-> declared]
  ELSE [cx |-> Fail(cx, "slot type"), t |-> declared]

NullableMode(exp) ==
  CASE exp = "bool" -> 1 [] exp = "float" -> 2 [] exp = "int" -> 3 [] OTHER -> 0

-----------------------------------------------------------------------------
(* Description nodes *)

\* The indexes of a node's direct children, the last one first.
RECURSIVE DescKids(_, _, _)
DescKids(descs, at, left) ==
  IF left = 0 THEN <<>> ELSE <<at>> \o DescKids(descs, at - descs[at].size, left - descs[at].size)

\* The function a node is described as: the first overload of the current
\* scope, otherwise the first one without a scope.
DescribedAs(cx, tok) ==
  LET here == {f \in ToSet(Overloads[tok]) : Functions[f].scope = ScopeType(cx)}
  IN IF tok \notin DOMAIN Overloads THEN <<>>
     ELSE SelectSeq(Overloads[tok], LAMBDA f : IF here = {} THEN Functions[f].scope = "" ELSE f \in here)

\* setup_block_description: a node is appended after its children, covers all
\* of them and starts no later than the first command of any of them.
DescribeNode(cx, tok, start, from) ==
  IF Failed(cx) THEN cx
  ELSE LET size == Len(cx.descs) - start + 1
           kids == DescKids(cx.descs, Len(cx.descs), size - 1)
           first == IF from = 0 THEN Len(cx.code) ELSE from
           effect(f) == f # <<>> /\ Functions[f[1]].ret = "void"
       IN [cx EXCEPT !.descs = Append(@,
             [tok |-> tok, size |-> size, argc |-> Len(kids), index |-> Len(cx.code),
              start |-> Min({first} \union {cx.descs[k].start : k \in ToSet(kids)}),
              end |-> NextCmd(cx), scope |-> CurrentScope(cx),
              effect |-> effect(DescribedAs(cx, tok))])]

\* A node without children of its own.
DescribeLeaf(cx, tok, from) == DescribeNode(cx, tok, Len(cx.descs), from)
=============================================================================
