--------------------------- MODULE ScriptMachine ---------------------------
(***************************************************************************)
(* The opcodes of a compiled script, as a pure function on the state of    *)
(* the operand stack machine (src/src/basic_functions.cpp and the call     *)
(* thunks of template_functions.h), for a script that runs in one frame.   *)
(* Frames and `execute` are the subject of ExecuteFrames.                  *)
(*                                                                         *)
(* A value is a type name and an integer.  A bool is 0 or 1, a string is   *)
(* its identity, an object is its number or -1 when it is invalid, and a   *)
(* floating-point number is a count of quarters (FloatUnit of them make    *)
(* 1.0), so a chance below one is exact.  Stack slots and command indexes  *)
(* count from 1 where the code's count from 0.                             *)
(*                                                                         *)
(* The checked build is modelled: an operand of the wrong type, or none at *)
(* all, ends the run with an error where the unchecked twins of the same   *)
(* opcodes would read whatever is there.                                   *)
(***************************************************************************)
EXTENDS ScriptNumbers, SequencesExt

CONSTANT Functions   \* registered function -> [scope, args, ret, names, operator, special, raw]
ASSUME FunctionsAssumption == \A f \in DOMAIN Functions : Functions[f].args \in Seq(STRING)

\* The type of a slot nothing was stored in and of an invalid handle, and what
\* a function without a scope declares; a machine that has not failed.
NoType == ""
NoError == ""

Val(t, v) == [t |-> t, v |-> v]
Bool(b) == Val("bool", IF b THEN 1 ELSE 0)
Invalid == Val(NoType, -1)

\* A compiled command: the opcode, its argument (two halves when it is
\* packed) and the host function or the type name it was instantiated for.
Cmd(op, a, b, fn) == [op |-> op, a |-> a, b |-> b, fn |-> fn]

\* A run of script `scr` in a context the host prepared.
StartRun(env, scr) ==
  [stack |-> <<>>, pc |-> 1,
   saved |-> [k \in DOMAIN scr.saved |-> Val(NoType, 0)],
   args |-> [k \in DOMAIN scr.args |-> env.args[scr.args[k].n]],
   savedTypes |-> [k \in DOMAIN scr.saved |-> scr.saved[k].t],
   argTypes |-> [k \in DOMAIN scr.args |-> scr.args[k].t],
   ret |-> Val("void", 0), log |-> <<>>, env |-> env, err |-> NoError]

Peek(m, k) == m.stack[Len(m.stack) + 1 - k]
Continue(m) == [m EXCEPT !.pc = @ + 1]
JumpTo(m, target) == [m EXCEPT !.pc = target]
Abort(m, why) == [m EXCEPT !.err = why]

\* The `n` top elements replaced with `new`; the `n` elements from `at` on cut out.
Retop(s, n, new) == SubSeq(s, 1, Len(s) - n) \o new
CutOut(s, at, n) == SubSeq(s, 1, at - 1) \o SubSeq(s, at + n, Len(s))

\* Drop the `n` top operands, push `vals`, go to the next command.
Replace(m, n, vals) == Continue([m EXCEPT !.stack = Retop(@, n, vals)])

\* The types of the operands, bottom first.
Layout(stack) == [k \in DOMAIN stack |-> stack[k].t]

\* The type check of safe_pop and safe_get.
OnTop(layout, types) ==
  /\ Len(layout) >= Len(types)
  /\ \A k \in DOMAIN types : types[k] \in {"any", layout[Len(layout) - Len(types) + k]}

Holds(layout, slot, t) == slot \in DOMAIN layout /\ t \in {"any", layout[slot]}

-----------------------------------------------------------------------------
(* Opcodes *)

ShortCircuit(m, c) ==
  LET b1 == Peek(m, 2).v = 1
      b2 == Peek(m, 1).v = 1
      isAnd == c.op = "andjump"
      res == IF isAnd THEN b1 /\ b2 ELSE b1 \/ b2
      done == Replace(m, 2, <<Bool(res)>>)
  IN IF res # isAnd THEN JumpTo(done, c.a) ELSE done

\* Bug: the increment of the loop in process() is not allowed for.
CondJumpPast(m, c) ==
  LET b == Peek(m, 1).v = 1
      next == IF c.op = "condjump" THEN Replace(m, 1, <<>>) ELSE Continue(m)
  IN IF b # (c.op = "condjumpt_get") THEN next
     ELSE JumpTo(next, IF c.op = "condjump" THEN c.a + 1 ELSE c.a)

CondJump(m, c) ==
  LET b == Peek(m, 1).v = 1
      next == IF c.op = "condjump" THEN Replace(m, 1, <<>>) ELSE Continue(m)
  IN IF b = (c.op = "condjumpt_get") THEN JumpTo(next, c.a) ELSE next

JumpInvalid(m, c) ==
  IF Peek(m, 1).v = -1 /\ Peek(m, 1).t \in {NoType, "obj"}
  THEN JumpTo(Replace(m, 1, <<>>), c.a)
  ELSE Continue(m)

FoldOp(m, c) ==
  LET y == Peek(m, 1).v
      x == Peek(m, 2).v
  IN CASE c.op = "andbin" -> Replace(m, 2, <<Bool(x = 1 /\ y = 1)>>)
       [] c.op = "notfn"  -> Replace(m, 1, <<Bool(y = 0)>>)
       [] c.op = "sum"    -> Replace(m, 2, <<Val("float", FloatArith("addd", x, y))>>)
       [] c.op = "sumi"   -> Replace(m, 2, <<Val("int", IntOp("addi", x, y))>>)
       [] c.op = "mul"    -> Replace(m, 2, <<Val("float", FloatArith("muld", x, y))>>)

\* Values of one type that are equal; a float that is no number equals none.
\* (Different floats are further apart here than float_equality_epsilon.)
SameValue(x, y) ==
  /\ x.t = y.t
  /\ IF x.t = "float" THEN FloatCompare("eqd", x.v, y.v) = 1 ELSE x.v = y.v

\* Two slots compared in place: the operands stay, a bool is pushed.
CompareSlots(m, c) ==
  IF c.op = "cmpeq2" THEN Replace(m, 0, <<Bool(SameValue(m.stack[c.a], m.stack[c.b]))>>)
  ELSE Replace(m, 0, <<Bool(FloatCompare("lesseqd", m.stack[c.a].v, m.stack[c.b].v) = 1)>>)

\* The first slot combined with the second, in place.
CombineSlots(m, c) ==
  LET x == m.stack[c.a].v
      y == m.stack[c.b].v
      r == FloatArith(IF c.op = "sumsetstack" THEN "addd" ELSE "muld", x, y)
  IN Continue([m EXCEPT !.stack[c.a] = Val("float", r)])

\* checkType: the slot was given a type at parse time and holds another one.
SlotTypeError(declared, v) == declared \notin {NoType, "any"} /\ v.t # declared

PushOp(m, c) ==
  CASE c.op = "pushbool"   -> Replace(m, 0, <<Bool(c.a = 1)>>)
    [] c.op = "pushint"    -> Replace(m, 0, <<Val("int", c.a)>>)
    [] c.op = "pushvalue"  -> Replace(m, 0, <<Val("float", c.a)>>)
    [] c.op = "pushstring" -> Replace(m, 0, <<Val("str", c.a)>>)
    [] c.op = "pushroot"   -> IF SlotTypeError(m.argTypes[1], m.args[1]) THEN Abort(m, "argument type")
                              ELSE Replace(m, 0, <<m.args[1]>>)
    [] c.op \in {"pushthis", "pushprev"} -> Replace(m, 0, <<m.stack[c.a]>>)
    [] c.op = "pushinvalid" -> Replace(m, 0, <<Invalid>>)

PushReturn(m) == [Replace(m, 1, <<>>) EXCEPT !.ret = Peek(m, 1)]

Erased(c) == IF c.op = "erase" THEN 1 ELSE c.b
EraseOp(m, c) == Continue([m EXCEPT !.stack = CutOut(@, c.a, Erased(c))])

PushChance(m, c) == Replace(m, 0, <<Val("float", m.env.chance[c.a])>>)

\* The context object itself is never looked into: reads go through `context*`.
PushContext(m, c) == Replace(m, 0, <<Val("thisctx", 0)>>)

ArgOp(m, c) ==
  CASE c.op = "pushargvalue" ->
         IF SlotTypeError(m.argTypes[c.a], m.args[c.a]) THEN Abort(m, "argument type")
         ELSE Replace(m, 0, <<m.args[c.a]>>)
    [] c.op = "setargrvalue" -> [Replace(m, 1, <<>>) EXCEPT !.args[c.a] = Peek(m, 1)]
    [] c.op = "setarglvalue" -> [Continue(m) EXCEPT !.args[c.b] = m.stack[c.a]]

SavedOp(m, c) ==
  CASE c.op = "pushctxvalue" ->
         IF SlotTypeError(m.savedTypes[c.a], m.saved[c.a]) THEN Abort(m, "saved type")
         ELSE Replace(m, 0, <<m.saved[c.a]>>)
    [] c.op = "savectxrvalue" -> [Replace(m, 1, <<>>) EXCEPT !.saved[c.a] = Peek(m, 1)]
    [] c.op = "savectxlvalue" -> [Continue(m) EXCEPT !.saved[c.b] = m.stack[c.a]]

SwitchNoMatch(m) == Abort(m, "no case")
CheckRandomWeight(m) == IF Peek(m, 1).v < 0 THEN Abort(m, "weight") ELSE Continue(m)

DebugOp(m, c) ==
  IF c.op = "trace" THEN [Replace(m, 1, <<>>) EXCEPT !.log = Append(@, <<"trace", Peek(m, 1).v>>)]
  ELSE IF Peek(m, 2).v = 0 THEN Abort(m, "assert") ELSE Replace(m, 2, <<>>)

-----------------------------------------------------------------------------
(* Thunks *)

\* The conversions code is generated for.  Narrowing a floating-point number
\* to an integer is not one of them.
Conversions ==
  [bool2int |-> <<"bool", "int">>, bool2float |-> <<"bool", "float">>,
   int2float |-> <<"int", "float">>, int2bool |-> <<"int", "bool">>,
   float2bool |-> <<"float", "bool">>]

Convert(m, c) ==
  LET x == Peek(m, 1).v
      to == Conversions[c.fn][2]
      y == IF to = "bool" THEN Truth(x # 0)
           ELSE IF to = "float" THEN ToFloat(x) ELSE x
  IN Replace(m, 1, <<Val(to, y)>>)

\* What a registered function returns: a raw operation, or a function of the
\* host, whose answers come from the run's environment.
Answer(m, fn, scope, args) ==
  IF fn = "eqv" THEN Truth(args[1] = args[2])
  ELSE IF Functions[fn].raw # "" THEN Raw(Functions[fn].raw, [k \in DOMAIN args |-> args[k].v])
  ELSE IF Functions[fn].scope # NoType THEN m.env.scoped[fn][scope.v]
  ELSE IF fn \in DOMAIN m.env.host THEN m.env.host[fn] ELSE args[1].v

\* mathfunc and userfunc: the scope handle is checked first, then the
\* arguments are taken, the result is pushed unless the function is void.
Call(m, c) ==
  LET f == Functions[c.fn]
      n == Len(f.args)
      args == SubSeq(m.stack, Len(m.stack) - n + 1, Len(m.stack))
      scope == IF f.scope = NoType THEN Invalid ELSE m.stack[c.a]
      answer == Answer(m, c.fn, scope, args)
  IN IF f.scope # NoType /\ scope.v = -1 THEN Abort(m, "invalid scope")
     ELSE IF f.ret = "void"
     THEN [Replace(m, n, <<>>) EXCEPT !.log = Append(@, <<c.fn, scope.v, args>>)]
     ELSE IF answer = Throw THEN Abort(m, "throw")
     ELSE Replace(m, n, <<Val(f.ret, answer)>>)

\* nullable_scope_guard: an invalid handle is replaced with the default of
\* the context (`b`: 1 bool, 2 float, 3 int, else invalid) and the block that
\* would have run in its scope is jumped over.
Default(mode) ==
  CASE mode = 1 -> Bool(FALSE)
    [] mode = 2 -> Val("float", 0)
    [] mode = 3 -> Val("int", 0)
    [] OTHER    -> Invalid

NullableGuard(m, c) ==
  IF Peek(m, 1).v # -1 THEN Continue(m) ELSE JumpTo(Replace(m, 1, <<Default(c.b)>>), c.a)

-----------------------------------------------------------------------------
ShortCircuitOps == {"andjump", "orjump"}
CondJumpOps == {"condjump", "condjump_get", "condjumpt_get"}
FoldOps == {"andbin", "notfn", "sum", "sumi", "mul"}
CompareOps == {"cmpeq2", "cmplesseqd2"}
CombineOps == {"sumsetstack", "mulsetstack"}
PushOps == {"pushbool", "pushint", "pushvalue", "pushstring", "pushroot", "pushthis",
            "pushprev", "pushinvalid"}
ArgOps == {"pushargvalue", "setargrvalue", "setarglvalue"}
SavedOps == {"pushctxvalue", "savectxrvalue", "savectxlvalue"}
BranchOps == ShortCircuitOps \union CondJumpOps \union {"jump", "jumpinvalid", "guard"}
Opcodes ==
  BranchOps \union FoldOps \union CompareOps \union CombineOps \union PushOps \union ArgOps \union SavedOps
  \union {"pushreturn", "erase", "erase_range", "chance", "context", "switch_no_match", "weightcheck",
          "assert", "trace", "convert", "call"}

\* The operand types an opcode takes from the top of the stack.
Operands(c) ==
  CASE c.op \in ShortCircuitOps \union {"andbin"} -> <<"bool", "bool">>
    [] c.op \in CondJumpOps \union {"notfn"} -> <<"bool">>
    [] c.op \in {"sum", "mul"} -> <<"float", "float">>
    [] c.op = "sumi" -> <<"int", "int">>
    [] c.op \in {"jumpinvalid", "pushreturn", "setargrvalue", "savectxrvalue"} -> <<"any">>
    [] c.op = "weightcheck" -> <<"float">>
    [] c.op = "guard" -> <<"obj">>
    [] c.op = "assert" -> <<"bool", "str">>
    [] c.op = "trace" -> <<"str">>
    [] c.op = "convert" -> <<Conversions[c.fn][1]>>
    [] c.op = "call" -> Functions[c.fn].args
    [] OTHER -> <<>>

\* The absolute slots an opcode reads or writes, with the type it expects.
SlotsUsed(c) ==
  CASE c.op = "cmpeq2" -> {<<c.a, "any">>, <<c.b, "any">>}
    [] c.op \in CombineOps \union {"cmplesseqd2"} -> {<<c.a, "float">>, <<c.b, "float">>}
    [] c.op \in {"pushthis", "pushprev", "erase", "setarglvalue", "savectxlvalue"} -> {<<c.a, "any">>}
    [] c.op = "erase_range" -> {<<c.a, "any">>, <<c.a + c.b - 1, "any">>}
    [] c.op = "call" /\ Functions[c.fn].scope # NoType -> {<<c.a, Functions[c.fn].scope>>}
    [] OTHER -> {}

OperandsFit(layout, c) ==
  /\ OnTop(layout, Operands(c))
  /\ \A s \in SlotsUsed(c) : Holds(layout, s[1], s[2])

\* One command, whole: operand checks, effect, next command.
Exec(m, c) ==
  IF ~OperandsFit(Layout(m.stack), c) THEN Abort(m, "operand")
  ELSE CASE c.op \in ShortCircuitOps -> ShortCircuit(m, c)
         [] c.op \in CondJumpOps -> CondJump(m, c)
         [] c.op = "jump" -> JumpTo(m, c.a)
         [] c.op = "jumpinvalid" -> JumpInvalid(m, c)
         [] c.op \in FoldOps -> FoldOp(m, c)
         [] c.op \in CompareOps -> CompareSlots(m, c)
         [] c.op \in CombineOps -> CombineSlots(m, c)
         [] c.op \in PushOps -> PushOp(m, c)
         [] c.op = "pushreturn" -> PushReturn(m)
         [] c.op \in {"erase", "erase_range"} -> EraseOp(m, c)
         [] c.op = "chance" -> PushChance(m, c)
         [] c.op = "context" -> PushContext(m, c)
         [] c.op \in ArgOps -> ArgOp(m, c)
         [] c.op \in SavedOps -> SavedOp(m, c)
         [] c.op = "switch_no_match" -> SwitchNoMatch(m)
         [] c.op = "weightcheck" -> CheckRandomWeight(m)
         [] c.op \in {"assert", "trace"} -> DebugOp(m, c)
         [] c.op = "convert" -> Convert(m, c)
         [] c.op = "call" -> Call(m, c)
         [] c.op = "guard" -> NullableGuard(m, c)
=============================================================================
