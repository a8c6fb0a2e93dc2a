-------------------------- MODULE DescribedRunProofs -------------------------
(***************************************************************************)
(* Proofs about DescribedRun: describing a script whose effects stand      *)
(* alone has no effect, and says of each node what the run did.  The       *)
(* argument: only an effect looks at the log or writes it, so the walk is  *)
(* where the run was, but for the log.                                     *)
(***************************************************************************)
EXTENDS DescribedRun, ScriptRunProofs

-----------------------------------------------------------------------------
(* Commands that are not seen from outside                                 *)

\* The same machine with another log.
WithLog(w, x) ==
  Machine(w.stack, w.pc, w.saved, w.args, w.savedTypes, w.argTypes, w.ret, x, w.env, w.err)

LEMMA LogFields ==
  ASSUME NEW w, NEW x, NEW z, z = WithLog(w, x)
  PROVE  /\ IsMachine(z) /\ z.stack = w.stack /\ z.pc = w.pc /\ z.saved = w.saved /\ z.args = w.args
         /\ z.savedTypes = w.savedTypes /\ z.argTypes = w.argTypes /\ z.ret = w.ret /\ z.log = x
         /\ z.env = w.env /\ z.err = w.err
         /\ Peek(z, 1) = Peek(w, 1) /\ Peek(z, 2) = Peek(w, 2)
<1>1. z = Machine(w.stack, w.pc, w.saved, w.args, w.savedTypes, w.argTypes, w.ret, x, w.env, w.err)
  BY DEF WithLog
<1>2. /\ IsMachine(z) /\ z.stack = w.stack /\ z.pc = w.pc /\ z.saved = w.saved /\ z.args = w.args
      /\ z.savedTypes = w.savedTypes /\ z.argTypes = w.argTypes /\ z.ret = w.ret /\ z.log = x
      /\ z.env = w.env /\ z.err = w.err
  BY <1>1, MachineFields
<1> QED
  BY <1>2 DEF Peek

\* No move of a machine depends on its log, or changes it.
LEMMA ContinueKeepsLog ==
  ASSUME NEW w, IsMachine(w), NEW x, NEW z, z = WithLog(w, x)
  PROVE  Continue(z) = WithLog(Continue(w), x)
<1>0. /\ IsMachine(z) /\ z.stack = w.stack /\ z.pc = w.pc /\ z.saved = w.saved /\ z.args = w.args
      /\ z.savedTypes = w.savedTypes /\ z.argTypes = w.argTypes /\ z.ret = w.ret /\ z.log = x
      /\ z.env = w.env /\ z.err = w.err
  BY LogFields
<1> DEFINE a == Continue(z)
           b == Continue(w)
           d == WithLog(b, x)
<1>1. a = Continue(z) /\ b = Continue(w) /\ d = WithLog(b, x)
  OBVIOUS
<1> HIDE DEF a, b, d
<1>2. a = Machine(z.stack, z.pc + 1, z.saved, z.args, z.savedTypes, z.argTypes, z.ret, z.log, z.env, z.err)
  BY <1>0, <1>1, Moves
<1>3. /\ b.stack = w.stack /\ b.pc = w.pc + 1 /\ b.saved = w.saved /\ b.args = w.args
      /\ b.savedTypes = w.savedTypes /\ b.argTypes = w.argTypes /\ b.ret = w.ret /\ b.env = w.env /\ b.err = w.err
  BY <1>1, Continued
<1>4. d = Machine(b.stack, b.pc, b.saved, b.args, b.savedTypes, b.argTypes, b.ret, x, b.env, b.err)
  BY <1>1 DEF WithLog
<1>5. a = d
  BY <1>0, <1>2, <1>3, <1>4
<1> QED
  BY <1>1, <1>5

LEMMA ReplaceKeepsLog ==
  ASSUME NEW w, IsMachine(w), NEW x, NEW z, z = WithLog(w, x), NEW i, NEW y
  PROVE  Replace(z, i, y) = WithLog(Replace(w, i, y), x)
<1>0. /\ IsMachine(z) /\ z.stack = w.stack /\ z.pc = w.pc /\ z.saved = w.saved /\ z.args = w.args
      /\ z.savedTypes = w.savedTypes /\ z.argTypes = w.argTypes /\ z.ret = w.ret /\ z.log = x
      /\ z.env = w.env /\ z.err = w.err
  BY LogFields
<1> DEFINE a == Replace(z, i, y)
           b == Replace(w, i, y)
           d == WithLog(b, x)
<1>1. a = Replace(z, i, y) /\ b = Replace(w, i, y) /\ d = WithLog(b, x)
  OBVIOUS
<1> HIDE DEF a, b, d
<1>2. a = Machine(Retop(z.stack, i, y), z.pc + 1, z.saved, z.args, z.savedTypes, z.argTypes, z.ret, z.log, z.env, z.err)
  BY <1>0, <1>1, Moves
<1>3. /\ b.stack = Retop(w.stack, i, y) /\ b.pc = w.pc + 1 /\ b.saved = w.saved /\ b.args = w.args
      /\ b.savedTypes = w.savedTypes /\ b.argTypes = w.argTypes /\ b.ret = w.ret /\ b.env = w.env /\ b.err = w.err
  BY <1>1, Replaced
<1>4. d = Machine(b.stack, b.pc, b.saved, b.args, b.savedTypes, b.argTypes, b.ret, x, b.env, b.err)
  BY <1>1 DEF WithLog
<1>5. a = d
  BY <1>0, <1>2, <1>3, <1>4
<1> QED
  BY <1>1, <1>5

LEMMA JumpKeepsLog ==
  ASSUME NEW w, IsMachine(w), NEW x, NEW z, z = WithLog(w, x), NEW target
  PROVE  JumpTo(z, target) = WithLog(JumpTo(w, target), x)
<1>0. /\ IsMachine(z) /\ z.stack = w.stack /\ z.pc = w.pc /\ z.saved = w.saved /\ z.args = w.args
      /\ z.savedTypes = w.savedTypes /\ z.argTypes = w.argTypes /\ z.ret = w.ret /\ z.log = x
      /\ z.env = w.env /\ z.err = w.err
  BY LogFields
<1> DEFINE a == JumpTo(z, target)
           b == JumpTo(w, target)
           d == WithLog(b, x)
<1>1. a = JumpTo(z, target) /\ b = JumpTo(w, target) /\ d = WithLog(b, x)
  OBVIOUS
<1> HIDE DEF a, b, d
<1>2. a = Machine(z.stack, target, z.saved, z.args, z.savedTypes, z.argTypes, z.ret, z.log, z.env, z.err)
  BY <1>0, <1>1, Moves
<1>3. /\ b.stack = w.stack /\ b.pc = target /\ b.saved = w.saved /\ b.args = w.args
      /\ b.savedTypes = w.savedTypes /\ b.argTypes = w.argTypes /\ b.ret = w.ret /\ b.env = w.env /\ b.err = w.err
  BY <1>1, Jumped
<1>4. d = Machine(b.stack, b.pc, b.saved, b.args, b.savedTypes, b.argTypes, b.ret, x, b.env, b.err)
  BY <1>1 DEF WithLog
<1>5. a = d
  BY <1>0, <1>2, <1>3, <1>4
<1> QED
  BY <1>1, <1>5

LEMMA AbortKeepsLog ==
  ASSUME NEW w, IsMachine(w), NEW x, NEW z, z = WithLog(w, x), NEW why
  PROVE  Abort(z, why) = WithLog(Abort(w, why), x)
<1>0. /\ IsMachine(z) /\ z.stack = w.stack /\ z.pc = w.pc /\ z.saved = w.saved /\ z.args = w.args
      /\ z.savedTypes = w.savedTypes /\ z.argTypes = w.argTypes /\ z.ret = w.ret /\ z.log = x
      /\ z.env = w.env /\ z.err = w.err
  BY LogFields
<1> DEFINE a == Abort(z, why)
           b == Abort(w, why)
           d == WithLog(b, x)
<1>1. a = Abort(z, why) /\ b = Abort(w, why) /\ d = WithLog(b, x)
  OBVIOUS
<1> HIDE DEF a, b, d
<1>2. a = Machine(z.stack, z.pc, z.saved, z.args, z.savedTypes, z.argTypes, z.ret, z.log, z.env, why)
  BY <1>0, <1>1, Moves
<1>3. /\ b.stack = w.stack /\ b.pc = w.pc /\ b.saved = w.saved /\ b.args = w.args
      /\ b.savedTypes = w.savedTypes /\ b.argTypes = w.argTypes /\ b.ret = w.ret /\ b.env = w.env /\ b.err = why
  BY <1>1, Aborted
<1>4. d = Machine(b.stack, b.pc, b.saved, b.args, b.savedTypes, b.argTypes, b.ret, x, b.env, b.err)
  BY <1>1 DEF WithLog
<1>5. a = d
  BY <1>0, <1>2, <1>3, <1>4
<1> QED
  BY <1>1, <1>5

LEMMA StackKeepsLog ==
  ASSUME NEW w, IsMachine(w), NEW x, NEW z, z = WithLog(w, x), NEW v,
         NEW a, a = [z EXCEPT !.stack = v], NEW b, b = [w EXCEPT !.stack = v]
  PROVE  a = WithLog(b, x)
<1>2. IsMachine(z) /\ z = Machine(w.stack, w.pc, w.saved, w.args, w.savedTypes, w.argTypes, w.ret, x, w.env, w.err)
  BY LogFields DEF WithLog
<1>3. a = Machine(v, w.pc, w.saved, w.args, w.savedTypes, w.argTypes, w.ret, x, w.env, w.err)
  BY <1>2 DEF Machine
<1>4. WithLog(b, x) = Machine(v, w.pc, w.saved, w.args, w.savedTypes, w.argTypes, w.ret, x, w.env, w.err)
  BY StackSet DEF WithLog
<1> QED
  BY <1>3, <1>4

LEMMA SavedKeepsLog ==
  ASSUME NEW w, IsMachine(w), NEW x, NEW z, z = WithLog(w, x), NEW v,
         NEW a, a = [z EXCEPT !.saved = v], NEW b, b = [w EXCEPT !.saved = v]
  PROVE  a = WithLog(b, x)
<1>2. IsMachine(z) /\ z = Machine(w.stack, w.pc, w.saved, w.args, w.savedTypes, w.argTypes, w.ret, x, w.env, w.err)
  BY LogFields DEF WithLog
<1>3. a = Machine(w.stack, w.pc, v, w.args, w.savedTypes, w.argTypes, w.ret, x, w.env, w.err)
  BY <1>2 DEF Machine
<1>4. WithLog(b, x) = Machine(w.stack, w.pc, v, w.args, w.savedTypes, w.argTypes, w.ret, x, w.env, w.err)
  BY SavedSet DEF WithLog
<1> QED
  BY <1>3, <1>4

LEMMA ArgsKeepsLog ==
  ASSUME NEW w, IsMachine(w), NEW x, NEW z, z = WithLog(w, x), NEW v,
         NEW a, a = [z EXCEPT !.args = v], NEW b, b = [w EXCEPT !.args = v]
  PROVE  a = WithLog(b, x)
<1>2. IsMachine(z) /\ z = Machine(w.stack, w.pc, w.saved, w.args, w.savedTypes, w.argTypes, w.ret, x, w.env, w.err)
  BY LogFields DEF WithLog
<1>3. a = Machine(w.stack, w.pc, w.saved, v, w.savedTypes, w.argTypes, w.ret, x, w.env, w.err)
  BY <1>2 DEF Machine
<1>4. WithLog(b, x) = Machine(w.stack, w.pc, w.saved, v, w.savedTypes, w.argTypes, w.ret, x, w.env, w.err)
  BY ArgsSet DEF WithLog
<1> QED
  BY <1>3, <1>4

LEMMA RetKeepsLog ==
  ASSUME NEW w, IsMachine(w), NEW x, NEW z, z = WithLog(w, x), NEW v,
         NEW a, a = [z EXCEPT !.ret = v], NEW b, b = [w EXCEPT !.ret = v]
  PROVE  a = WithLog(b, x)
<1>2. IsMachine(z) /\ z = Machine(w.stack, w.pc, w.saved, w.args, w.savedTypes, w.argTypes, w.ret, x, w.env, w.err)
  BY LogFields DEF WithLog
<1>3. a = Machine(w.stack, w.pc, w.saved, w.args, w.savedTypes, w.argTypes, v, x, w.env, w.err)
  BY <1>2 DEF Machine
<1>4. WithLog(b, x) = Machine(w.stack, w.pc, w.saved, w.args, w.savedTypes, w.argTypes, v, x, w.env, w.err)
  BY RetSet DEF WithLog
<1> QED
  BY <1>3, <1>4

\* What a command does that is not seen from outside does not depend on the log.
LEMMA BranchIgnoresLog ==
  ASSUME NEW w, IsMachine(w), NEW x, NEW z, z = WithLog(w, x), NEW c
  PROVE  /\ ShortCircuit(z, c) = WithLog(ShortCircuit(w, c), x)
         /\ CondJump(z, c) = WithLog(CondJump(w, c), x)
         /\ JumpInvalid(z, c) = WithLog(JumpInvalid(w, c), x)
         /\ NullableGuard(z, c) = WithLog(NullableGuard(w, c), x)
<1>1. Peek(z, 1) = Peek(w, 1) /\ Peek(z, 2) = Peek(w, 2)
  BY LogFields
<1>2. ASSUME NEW n, NEW v, NEW t
      PROVE  /\ Replace(z, n, v) = WithLog(Replace(w, n, v), x)
             /\ JumpTo(Replace(z, n, v), t) = WithLog(JumpTo(Replace(w, n, v), t), x)
  <2> DEFINE a == Replace(w, n, v)
             b == Replace(z, n, v)
  <2>1. b = WithLog(a, x)
    BY ReplaceKeepsLog
  <2>2. IsMachine(a)
    BY Replaced
  <2> HIDE DEF a, b
  <2>3. JumpTo(b, t) = WithLog(JumpTo(a, t), x)
    BY <2>1, <2>2, JumpKeepsLog
  <2> QED
    BY <2>1, <2>3 DEF a, b
<1>3. ASSUME NEW t
      PROVE  /\ Continue(z) = WithLog(Continue(w), x)
             /\ JumpTo(Continue(z), t) = WithLog(JumpTo(Continue(w), t), x)
  <2> DEFINE a == Continue(w)
             b == Continue(z)
  <2>1. b = WithLog(a, x)
    BY ContinueKeepsLog
  <2>2. IsMachine(a)
    BY Continued
  <2> HIDE DEF a, b
  <2>3. JumpTo(b, t) = WithLog(JumpTo(a, t), x)
    BY <2>1, <2>2, JumpKeepsLog
  <2> QED
    BY <2>1, <2>3 DEF a, b
<1>4. ShortCircuit(z, c) = WithLog(ShortCircuit(w, c), x)
  <2> DEFINE isAnd == c.op = "andjump"
             res == IF isAnd THEN Peek(w, 2).v = 1 /\ Peek(w, 1).v = 1 ELSE Peek(w, 2).v = 1 \/ Peek(w, 1).v = 1
             goes == res # isAnd
             v == <<Bool(res)>>
  <2>1. ShortCircuit(w, c) = IF goes THEN JumpTo(Replace(w, 2, v), c.a) ELSE Replace(w, 2, v)
    BY DEF ShortCircuit
  <2>2. ShortCircuit(z, c) = IF goes THEN JumpTo(Replace(z, 2, v), c.a) ELSE Replace(z, 2, v)
    BY <1>1 DEF ShortCircuit
  <2> HIDE DEF v, goes
  <2> QED
    BY <1>2, <2>1, <2>2
<1>5. CondJump(z, c) = WithLog(CondJump(w, c), x)
  <2> DEFINE goes == (Peek(w, 1).v = 1) = (c.op = "condjumpt_get")
             nothing == <<>>
  <2>1. CondJump(w, c) = IF c.op = "condjump"
                         THEN IF goes THEN JumpTo(Replace(w, 1, nothing), c.a) ELSE Replace(w, 1, nothing)
                         ELSE IF goes THEN JumpTo(Continue(w), c.a) ELSE Continue(w)
    BY DEF CondJump
  <2>2. CondJump(z, c) = IF c.op = "condjump"
                         THEN IF goes THEN JumpTo(Replace(z, 1, nothing), c.a) ELSE Replace(z, 1, nothing)
                         ELSE IF goes THEN JumpTo(Continue(z), c.a) ELSE Continue(z)
    BY <1>1 DEF CondJump
  <2> HIDE DEF goes, nothing
  <2> QED
    BY <1>2, <1>3, <2>1, <2>2
<1>6. JumpInvalid(z, c) = WithLog(JumpInvalid(w, c), x)
  <2> DEFINE goes == Peek(w, 1).v = -1 /\ Peek(w, 1).t \in {NoType, "obj"}
             nothing == <<>>
  <2>1. JumpInvalid(w, c) = IF goes THEN JumpTo(Replace(w, 1, nothing), c.a) ELSE Continue(w)
    BY DEF JumpInvalid
  <2>2. JumpInvalid(z, c) = IF goes THEN JumpTo(Replace(z, 1, nothing), c.a) ELSE Continue(z)
    BY <1>1 DEF JumpInvalid
  <2> HIDE DEF goes, nothing
  <2> QED
    BY <1>2, <1>3, <2>1, <2>2
<1>7. NullableGuard(z, c) = WithLog(NullableGuard(w, c), x)
  <2> DEFINE stays == Peek(w, 1).v # -1
             v == <<Default(c.b)>>
  <2>1. NullableGuard(w, c) = IF stays THEN Continue(w) ELSE JumpTo(Replace(w, 1, v), c.a)
    BY DEF NullableGuard
  <2>2. NullableGuard(z, c) = IF stays THEN Continue(z) ELSE JumpTo(Replace(z, 1, v), c.a)
    BY <1>1 DEF NullableGuard
  <2> HIDE DEF stays, v
  <2> QED
    BY <1>2, <1>3, <2>1, <2>2
<1> QED
  BY <1>4, <1>5, <1>6, <1>7

LEMMA FoldIgnoresLog ==
  ASSUME NEW w, IsMachine(w), NEW x, NEW z, z = WithLog(w, x), NEW c, c.op \in FoldOps
  PROVE  FoldOp(z, c) = WithLog(FoldOp(w, c), x)
<1>1. Peek(z, 1) = Peek(w, 1) /\ Peek(z, 2) = Peek(w, 2)
  BY LogFields
<1>2. \A n, v : Replace(z, n, v) = WithLog(Replace(w, n, v), x)
  BY ReplaceKeepsLog
<1>3. \E n, v : FoldOp(w, c) = Replace(w, n, v) /\ FoldOp(z, c) = Replace(z, n, v)
  <2> DEFINE p == Peek(w, 2).v
             q == Peek(w, 1).v
  <2>1. CASE c.op = "andbin"
    <3> DEFINE v == <<Bool(p = 1 /\ q = 1)>>
    <3>1. FoldOp(w, c) = Replace(w, 2, v) /\ FoldOp(z, c) = Replace(z, 2, v)
      BY <1>1, <2>1 DEF FoldOp
    <3> QED
      BY <3>1
  <2>2. CASE c.op = "notfn"
    <3> DEFINE v == <<Bool(q = 0)>>
    <3>1. FoldOp(w, c) = Replace(w, 1, v) /\ FoldOp(z, c) = Replace(z, 1, v)
      BY <1>1, <2>2 DEF FoldOp
    <3> QED
      BY <3>1
  <2>3. CASE c.op = "sum"
    <3> DEFINE v == <<Val("float", FloatArith("addd", p, q))>>
    <3>1. FoldOp(w, c) = Replace(w, 2, v) /\ FoldOp(z, c) = Replace(z, 2, v)
      BY <1>1, <2>3 DEF FoldOp
    <3> QED
      BY <3>1
  <2>4. CASE c.op = "sumi"
    <3> DEFINE v == <<Val("int", IntOp("addi", p, q))>>
    <3>1. FoldOp(w, c) = Replace(w, 2, v) /\ FoldOp(z, c) = Replace(z, 2, v)
      BY <1>1, <2>4 DEF FoldOp
    <3> QED
      BY <3>1
  <2>5. CASE c.op = "mul"
    <3> DEFINE v == <<Val("float", FloatArith("muld", p, q))>>
    <3>1. FoldOp(w, c) = Replace(w, 2, v) /\ FoldOp(z, c) = Replace(z, 2, v)
      BY <1>1, <2>5 DEF FoldOp
    <3> QED
      BY <3>1
  <2> QED
    BY <2>1, <2>2, <2>3, <2>4, <2>5 DEF FoldOps
<1> QED
  BY <1>2, <1>3

LEMMA SlotsIgnoreLog ==
  ASSUME NEW w, IsMachine(w), NEW x, NEW z, z = WithLog(w, x), NEW c
  PROVE  /\ CompareSlots(z, c) = WithLog(CompareSlots(w, c), x)
         /\ CombineSlots(z, c) = WithLog(CombineSlots(w, c), x)
         /\ EraseOp(z, c) = WithLog(EraseOp(w, c), x)
<1>1. z.stack = w.stack
  BY LogFields
<1>2. CompareSlots(z, c) = WithLog(CompareSlots(w, c), x)
  <2> DEFINE same == <<Bool(SameValue(w.stack[c.a], w.stack[c.b]))>>
             less == <<Bool(FloatCompare("lesseqd", w.stack[c.a].v, w.stack[c.b].v) = 1)>>
  <2>1. CompareSlots(w, c) = IF c.op = "cmpeq2" THEN Replace(w, 0, same) ELSE Replace(w, 0, less)
    BY DEF CompareSlots
  <2>2. CompareSlots(z, c) = IF c.op = "cmpeq2" THEN Replace(z, 0, same) ELSE Replace(z, 0, less)
    BY <1>1 DEF CompareSlots
  <2> HIDE DEF same, less
  <2>3. Replace(z, 0, same) = WithLog(Replace(w, 0, same), x) /\ Replace(z, 0, less) = WithLog(Replace(w, 0, less), x)
    BY ReplaceKeepsLog
  <2> QED
    BY <2>1, <2>2, <2>3
<1>3. ASSUME NEW v
      PROVE  Continue([z EXCEPT !.stack = v]) = WithLog(Continue([w EXCEPT !.stack = v]), x)
  <2> DEFINE a == [w EXCEPT !.stack = v]
             b == [z EXCEPT !.stack = v]
  <2>0. a = [w EXCEPT !.stack = v] /\ b = [z EXCEPT !.stack = v]
    OBVIOUS
  <2> HIDE DEF a, b
  <2>1. b = WithLog(a, x)
    BY <2>0, StackKeepsLog
  <2>2. IsMachine(a)
    BY <2>0, StackSet
  <2>3. Continue(b) = WithLog(Continue(a), x)
    BY <2>1, <2>2, ContinueKeepsLog
  <2> QED
    BY <2>3 DEF a, b
<1>4. CombineSlots(z, c) = WithLog(CombineSlots(w, c), x)
  <2> DEFINE r == FloatArith(IF c.op = "sumsetstack" THEN "addd" ELSE "muld", w.stack[c.a].v, w.stack[c.b].v)
             v == [w.stack EXCEPT ![c.a] = Val("float", r)]
  <2>1. CombineSlots(w, c) = Continue([w EXCEPT !.stack = v])
    BY DEF CombineSlots
  <2>2. CombineSlots(z, c) = Continue([z EXCEPT !.stack = v])
    BY <1>1 DEF CombineSlots
  <2> HIDE DEF v
  <2> QED
    BY <1>3, <2>1, <2>2
<1>5. EraseOp(z, c) = WithLog(EraseOp(w, c), x)
  <2> DEFINE v == CutOut(w.stack, c.a, Erased(c))
  <2>1. EraseOp(w, c) = Continue([w EXCEPT !.stack = v])
    BY DEF EraseOp
  <2>2. EraseOp(z, c) = Continue([z EXCEPT !.stack = v])
    BY <1>1 DEF EraseOp
  <2> HIDE DEF v
  <2> QED
    BY <1>3, <2>1, <2>2
<1> QED
  BY <1>2, <1>4, <1>5

LEMMA PushIgnoresLog ==
  ASSUME NEW w, IsMachine(w), NEW x, NEW z, z = WithLog(w, x), NEW c
  PROVE  /\ c.op \in PushOps => PushOp(z, c) = WithLog(PushOp(w, c), x)
         /\ PushChance(z, c) = WithLog(PushChance(w, c), x)
         /\ PushContext(z, c) = WithLog(PushContext(w, c), x)
<1>1. z.stack = w.stack /\ z.args = w.args /\ z.argTypes = w.argTypes /\ z.env = w.env
  BY LogFields
<1>2. \A n, v : Replace(z, n, v) = WithLog(Replace(w, n, v), x)
  BY ReplaceKeepsLog
<1>3. \A why : Abort(z, why) = WithLog(Abort(w, why), x)
  BY AbortKeepsLog
<1>4. ASSUME c.op \in PushOps
      PROVE  PushOp(z, c) = WithLog(PushOp(w, c), x)
  <2>1. c.op \in {"pushbool", "pushint", "pushvalue", "pushstring", "pushthis", "pushprev", "pushinvalid"} =>
          \E v : PushOp(w, c) = Replace(w, 0, v) /\ PushOp(z, c) = Replace(z, 0, v)
    <3> DEFINE P(v) == PushOp(w, c) = Replace(w, 0, v) /\ PushOp(z, c) = Replace(z, 0, v)
    <3>1. /\ c.op = "pushbool" => P(<<Bool(c.a = 1)>>)
          /\ c.op = "pushint" => P(<<Val("int", c.a)>>)
          /\ c.op = "pushvalue" => P(<<Val("float", c.a)>>)
          /\ c.op = "pushstring" => P(<<Val("str", c.a)>>)
      BY DEF PushOp
    <3>2. /\ c.op \in {"pushthis", "pushprev"} => P(<<w.stack[c.a]>>)
          /\ c.op = "pushinvalid" => P(<<Invalid>>)
      BY <1>1 DEF PushOp
    <3> HIDE DEF P
    <3>3. c.op \in {"pushbool", "pushint", "pushvalue", "pushstring", "pushthis", "pushprev", "pushinvalid"} => \E v : P(v)
      BY <3>1, <3>2
    <3> QED
      BY <3>3 DEF P
  <2>2. CASE c.op = "pushroot"
    <3> DEFINE wrong == SlotTypeError(w.argTypes[1], w.args[1])
               v == <<w.args[1]>>
    <3>1. PushOp(w, c) = IF wrong THEN Abort(w, "argument type") ELSE Replace(w, 0, v)
      BY <2>2 DEF PushOp
    <3>2. PushOp(z, c) = IF wrong THEN Abort(z, "argument type") ELSE Replace(z, 0, v)
      BY <1>1, <2>2 DEF PushOp
    <3> HIDE DEF wrong, v
    <3> QED
      BY <1>2, <1>3, <3>1, <3>2
  <2> QED
    BY <1>2, <1>4, <2>1, <2>2 DEF PushOps
<1>5. PushChance(z, c) = WithLog(PushChance(w, c), x)
  <2> DEFINE v == <<Val("float", w.env.chance[c.a])>>
  <2>1. PushChance(w, c) = Replace(w, 0, v) /\ PushChance(z, c) = Replace(z, 0, v)
    BY <1>1 DEF PushChance
  <2> HIDE DEF v
  <2> QED
    BY <1>2, <2>1
<1>6. PushContext(z, c) = WithLog(PushContext(w, c), x)
  BY <1>2 DEF PushContext
<1> QED
  BY <1>4, <1>5, <1>6

LEMMA StoreIgnoresLog ==
  ASSUME NEW w, IsMachine(w), NEW x, NEW z, z = WithLog(w, x), NEW c
  PROVE  /\ PushReturn(z) = WithLog(PushReturn(w), x)
         /\ c.op \in ArgOps => ArgOp(z, c) = WithLog(ArgOp(w, c), x)
         /\ c.op \in SavedOps => SavedOp(z, c) = WithLog(SavedOp(w, c), x)
<1>1. /\ z.stack = w.stack /\ z.args = w.args /\ z.argTypes = w.argTypes /\ z.saved = w.saved
      /\ z.savedTypes = w.savedTypes /\ Peek(z, 1) = Peek(w, 1)
  BY LogFields
<1> DEFINE nothing == <<>>
           popped == Replace(w, 1, nothing)
           poppedToo == Replace(z, 1, nothing)
           next == Continue(w)
           nextToo == Continue(z)
           top == Peek(w, 1)
<1>2. poppedToo = WithLog(popped, x) /\ IsMachine(popped) /\ popped.args = w.args /\ popped.saved = w.saved
  BY ReplaceKeepsLog, Replaced
<1>3. nextToo = WithLog(next, x) /\ IsMachine(next) /\ next.args = w.args /\ next.saved = w.saved
  BY ContinueKeepsLog, Continued
<1>4. \A v : Replace(z, 0, v) = WithLog(Replace(w, 0, v), x)
  BY ReplaceKeepsLog
<1>5. \A why : Abort(z, why) = WithLog(Abort(w, why), x)
  BY AbortKeepsLog
<1>6. /\ PushReturn(w) = [popped EXCEPT !.ret = top]
      /\ PushReturn(z) = [poppedToo EXCEPT !.ret = top]
  BY <1>1 DEF PushReturn
<1>7. /\ c.op = "setargrvalue" => /\ ArgOp(w, c) = [popped EXCEPT !.args = [popped.args EXCEPT ![c.a] = top]]
                                  /\ ArgOp(z, c) = [poppedToo EXCEPT !.args = [poppedToo.args EXCEPT ![c.a] = top]]
      /\ c.op = "setarglvalue" => /\ ArgOp(w, c) = [next EXCEPT !.args = [next.args EXCEPT ![c.b] = w.stack[c.a]]]
                                  /\ ArgOp(z, c) = [nextToo EXCEPT !.args = [nextToo.args EXCEPT ![c.b] = w.stack[c.a]]]
  BY <1>1 DEF ArgOp
<1>8. /\ c.op = "savectxrvalue" => /\ SavedOp(w, c) = [popped EXCEPT !.saved = [popped.saved EXCEPT ![c.a] = top]]
                                   /\ SavedOp(z, c) = [poppedToo EXCEPT !.saved = [poppedToo.saved EXCEPT ![c.a] = top]]
      /\ c.op = "savectxlvalue" => /\ SavedOp(w, c) = [next EXCEPT !.saved = [next.saved EXCEPT ![c.b] = w.stack[c.a]]]
                                   /\ SavedOp(z, c) = [nextToo EXCEPT !.saved = [nextToo.saved EXCEPT ![c.b] = w.stack[c.a]]]
  BY <1>1 DEF SavedOp
<1>9. /\ poppedToo.args = popped.args /\ poppedToo.saved = popped.saved
      /\ nextToo.args = next.args /\ nextToo.saved = next.saved
  <2> HIDE DEF popped, poppedToo, next, nextToo
  <2>1. poppedToo.args = popped.args /\ poppedToo.saved = popped.saved
    BY <1>2, LogFields
  <2>2. nextToo.args = next.args /\ nextToo.saved = next.saved
    BY <1>3, LogFields
  <2> QED
    BY <2>1, <2>2
<1> HIDE DEF popped, poppedToo, next, nextToo, top, nothing
<1>10. PushReturn(z) = WithLog(PushReturn(w), x)
  BY <1>2, <1>6, RetKeepsLog
<1>11. ASSUME c.op \in ArgOps
       PROVE  ArgOp(z, c) = WithLog(ArgOp(w, c), x)
  <2>1. CASE c.op = "setargrvalue"
    <3> DEFINE v == [popped.args EXCEPT ![c.a] = top]
    <3>1. ArgOp(w, c) = [popped EXCEPT !.args = v] /\ ArgOp(z, c) = [poppedToo EXCEPT !.args = v]
      BY <1>7, <1>9, <2>1
    <3> HIDE DEF v
    <3> QED
      BY <1>2, <3>1, ArgsKeepsLog
  <2>2. CASE c.op = "setarglvalue"
    <3> DEFINE v == [next.args EXCEPT ![c.b] = w.stack[c.a]]
    <3>1. ArgOp(w, c) = [next EXCEPT !.args = v] /\ ArgOp(z, c) = [nextToo EXCEPT !.args = v]
      BY <1>7, <1>9, <2>2
    <3> HIDE DEF v
    <3> QED
      BY <1>3, <3>1, ArgsKeepsLog
  <2>3. CASE c.op = "pushargvalue"
    <3> DEFINE wrong == SlotTypeError(w.argTypes[c.a], w.args[c.a])
               v == <<w.args[c.a]>>
    <3>1. ArgOp(w, c) = IF wrong THEN Abort(w, "argument type") ELSE Replace(w, 0, v)
      BY <2>3 DEF ArgOp
    <3>2. ArgOp(z, c) = IF wrong THEN Abort(z, "argument type") ELSE Replace(z, 0, v)
      BY <1>1, <2>3 DEF ArgOp
    <3> HIDE DEF wrong, v
    <3> QED
      BY <1>4, <1>5, <3>1, <3>2
  <2> QED
    BY <1>11, <2>1, <2>2, <2>3 DEF ArgOps
<1>12. ASSUME c.op \in SavedOps
       PROVE  SavedOp(z, c) = WithLog(SavedOp(w, c), x)
  <2>1. CASE c.op = "savectxrvalue"
    <3> DEFINE v == [popped.saved EXCEPT ![c.a] = top]
    <3>1. SavedOp(w, c) = [popped EXCEPT !.saved = v] /\ SavedOp(z, c) = [poppedToo EXCEPT !.saved = v]
      BY <1>8, <1>9, <2>1
    <3> HIDE DEF v
    <3> QED
      BY <1>2, <3>1, SavedKeepsLog
  <2>2. CASE c.op = "savectxlvalue"
    <3> DEFINE v == [next.saved EXCEPT ![c.b] = w.stack[c.a]]
    <3>1. SavedOp(w, c) = [next EXCEPT !.saved = v] /\ SavedOp(z, c) = [nextToo EXCEPT !.saved = v]
      BY <1>8, <1>9, <2>2
    <3> HIDE DEF v
    <3> QED
      BY <1>3, <3>1, SavedKeepsLog
  <2>3. CASE c.op = "pushctxvalue"
    <3> DEFINE wrong == SlotTypeError(w.savedTypes[c.a], w.saved[c.a])
               v == <<w.saved[c.a]>>
    <3>1. SavedOp(w, c) = IF wrong THEN Abort(w, "saved type") ELSE Replace(w, 0, v)
      BY <2>3 DEF SavedOp
    <3>2. SavedOp(z, c) = IF wrong THEN Abort(z, "saved type") ELSE Replace(z, 0, v)
      BY <1>1, <2>3 DEF SavedOp
    <3> HIDE DEF wrong, v
    <3> QED
      BY <1>4, <1>5, <3>1, <3>2
  <2> QED
    BY <1>12, <2>1, <2>2, <2>3 DEF SavedOps
<1> QED
  BY <1>10, <1>11, <1>12

LEMMA CheckIgnoresLog ==
  ASSUME NEW w, IsMachine(w), NEW x, NEW z, z = WithLog(w, x), NEW c
  PROVE  /\ SwitchNoMatch(z) = WithLog(SwitchNoMatch(w), x)
         /\ CheckRandomWeight(z) = WithLog(CheckRandomWeight(w), x)
         /\ c.op = "assert" => DebugOp(z, c) = WithLog(DebugOp(w, c), x)
         /\ Convert(z, c) = WithLog(Convert(w, c), x)
<1>1. Peek(z, 1) = Peek(w, 1) /\ Peek(z, 2) = Peek(w, 2)
  BY LogFields
<1>2. \A n, v : Replace(z, n, v) = WithLog(Replace(w, n, v), x)
  BY ReplaceKeepsLog
<1>3. \A why : Abort(z, why) = WithLog(Abort(w, why), x)
  BY AbortKeepsLog
<1>4. SwitchNoMatch(z) = WithLog(SwitchNoMatch(w), x)
  BY <1>3 DEF SwitchNoMatch
<1>5. CheckRandomWeight(z) = WithLog(CheckRandomWeight(w), x)
  <2>1. Continue(z) = WithLog(Continue(w), x)
    BY ContinueKeepsLog
  <2> DEFINE wrong == Peek(w, 1).v < 0
  <2>2. CheckRandomWeight(w) = IF wrong THEN Abort(w, "weight") ELSE Continue(w)
    BY DEF CheckRandomWeight
  <2>3. CheckRandomWeight(z) = IF wrong THEN Abort(z, "weight") ELSE Continue(z)
    BY <1>1 DEF CheckRandomWeight
  <2> HIDE DEF wrong
  <2> QED
    BY <1>3, <2>1, <2>2, <2>3
<1>6. ASSUME c.op = "assert"
      PROVE  DebugOp(z, c) = WithLog(DebugOp(w, c), x)
  <2> DEFINE nothing == <<>>
             wrong == Peek(w, 2).v = 0
  <2>1. DebugOp(w, c) = IF wrong THEN Abort(w, "assert") ELSE Replace(w, 2, nothing)
    BY <1>6 DEF DebugOp
  <2>2. DebugOp(z, c) = IF wrong THEN Abort(z, "assert") ELSE Replace(z, 2, nothing)
    BY <1>1, <1>6 DEF DebugOp
  <2> HIDE DEF wrong, nothing
  <2> QED
    BY <1>2, <1>3, <2>1, <2>2
<1>7. Convert(z, c) = WithLog(Convert(w, c), x)
  <2> DEFINE to == Conversions[c.fn][2]
             y == IF to = "bool" THEN Truth(Peek(w, 1).v # 0)
                  ELSE IF to = "float" THEN ToFloat(Peek(w, 1).v) ELSE Peek(w, 1).v
             v == <<Val(to, y)>>
  <2>1. Convert(w, c) = Replace(w, 1, v)
    BY DEF Convert
  <2>2. Convert(z, c) = Replace(z, 1, v)
    BY <1>1 DEF Convert
  <2> HIDE DEF v
  <2> QED
    BY <1>2, <2>1, <2>2
<1> QED
  BY <1>4, <1>5, <1>6, <1>7

LEMMA CallIgnoresLog ==
  ASSUME NEW w, IsMachine(w), NEW x, NEW z, z = WithLog(w, x), NEW c, Functions[c.fn].ret # "void"
  PROVE  Call(z, c) = WithLog(Call(w, c), x)
<1>1. z.stack = w.stack /\ z.env = w.env
  BY LogFields
<1>2. \A n, v : Replace(z, n, v) = WithLog(Replace(w, n, v), x)
  BY ReplaceKeepsLog
<1>3. \A why : Abort(z, why) = WithLog(Abort(w, why), x)
  BY AbortKeepsLog
<1>4. \A fn, scope, args : Answer(z, fn, scope, args) = Answer(w, fn, scope, args)
  BY <1>1 DEF Answer
<1> DEFINE f == Functions[c.fn]
           n == Len(f.args)
           args == SubSeq(w.stack, Len(w.stack) - n + 1, Len(w.stack))
           scope == IF f.scope = NoType THEN Invalid ELSE w.stack[c.a]
           answer == Answer(w, c.fn, scope, args)
           lost == f.scope # NoType /\ scope.v = -1
           v == <<Val(f.ret, answer)>>
<1>5. Call(w, c) = IF lost THEN Abort(w, "invalid scope") ELSE IF answer = Throw THEN Abort(w, "throw") ELSE Replace(w, n, v)
  BY DEF Call
<1>6. answer = Answer(z, c.fn, scope, args)
  BY <1>4
<1>7. Call(z, c) = IF lost THEN Abort(z, "invalid scope") ELSE IF answer = Throw THEN Abort(z, "throw") ELSE Replace(z, n, v)
  BY <1>1, <1>6 DEF Call
<1> HIDE DEF lost, answer, v, n
<1> QED
  BY <1>2, <1>3, <1>5, <1>7

LEMMA ExecIgnoresLog ==
  ASSUME NEW w, IsMachine(w), NEW x, NEW z, z = WithLog(w, x), NEW c, c.op \in Opcodes, ~Loud(c)
  PROVE  Exec(z, c) = WithLog(Exec(w, c), x)
<1>1. z.stack = w.stack
  BY LogFields
<1>2. CASE ~OperandsFit(Layout(w.stack), c)
  <2>1. Exec(w, c) = Abort(w, "operand") /\ Exec(z, c) = Abort(z, "operand")
    BY <1>1, <1>2 DEF Exec
  <2> QED
    BY <2>1, AbortKeepsLog
<1>3. CASE OperandsFit(Layout(w.stack), c)
  <2>0. OperandsFit(Layout(z.stack), c)
    BY <1>1, <1>3
  <2>1. CASE c.op \in ShortCircuitOps \union CondJumpOps \union {"jumpinvalid", "guard"}
    BY <1>3, <2>0, <2>1, Dispatch, BranchIgnoresLog
  <2>2. CASE c.op = "jump"
    <3>1. Exec(w, c) = JumpTo(w, c.a) /\ Exec(z, c) = JumpTo(z, c.a)
      BY <1>3, <2>0, <2>2, Dispatch
    <3> QED
      BY <3>1, JumpKeepsLog
  <2>3. CASE c.op \in FoldOps
    BY <1>3, <2>0, <2>3, Dispatch, FoldIgnoresLog
  <2>4. CASE c.op \in CompareOps \union CombineOps \union {"erase", "erase_range"}
    BY <1>3, <2>0, <2>4, Dispatch, SlotsIgnoreLog
  <2>5. CASE c.op \in PushOps \union {"chance", "context"}
    BY <1>3, <2>0, <2>5, Dispatch, PushIgnoresLog
  <2>6. CASE c.op \in ArgOps \union SavedOps \union {"pushreturn"}
    BY <1>3, <2>0, <2>6, Dispatch, StoreIgnoresLog
  <2>7. CASE c.op \in {"switch_no_match", "weightcheck", "assert", "convert"}
    BY <1>3, <2>0, <2>7, Dispatch, CheckIgnoresLog
  <2>8. CASE c.op = "call"
    <3>1. Functions[c.fn].ret # "void"
      BY <2>8 DEF Loud
    <3> QED
      BY <1>3, <2>0, <2>8, <3>1, Dispatch, CallIgnoresLog
  <2>9. c.op # "trace"
    BY DEF Loud
  <2> QED
    BY <2>1, <2>2, <2>3, <2>4, <2>5, <2>6, <2>7, <2>8, <2>9 DEF Opcodes, BranchOps
<1> QED
  BY <1>2, <1>3

\* Such a command leaves the log as it is.
LEMMA ExecQuiet ==
  ASSUME NEW w, IsMachine(w), NEW c, c.op \in Opcodes, ~Loud(c), NEW r, r = Exec(w, c)
  PROVE  IsMachine(r) /\ r.log = w.log
<1>1. w = WithLog(w, w.log)
  BY DEF IsMachine, WithLog
<1>2. r = WithLog(r, w.log)
  BY <1>1, ExecIgnoresLog
<1> QED
  BY <1>2, LogFields

-----------------------------------------------------------------------------
(* Describing a script                                                     *)

\* The walk of describe() as a record.
IsWalk(acc) == acc = [work |-> acc.work, stopped |-> acc.stopped, table |-> acc.table]

LEMMA WalkSet ==
  ASSUME NEW acc, IsWalk(acc), NEW x, NEW y
  PROVE  /\ [acc EXCEPT !.work = x] = [work |-> x, stopped |-> acc.stopped, table |-> acc.table]
         /\ [acc EXCEPT !.table = y] = [work |-> acc.work, stopped |-> acc.stopped, table |-> y]
         /\ [acc EXCEPT !.stopped = x, !.table = y] = [work |-> acc.work, stopped |-> x, table |-> y]
<1> SUFFICES ASSUME NEW work, NEW stopped, NEW entries, acc = [work |-> work, stopped |-> stopped, table |-> entries]
             PROVE  /\ [acc EXCEPT !.work = x] = [work |-> x, stopped |-> stopped, table |-> entries]
                    /\ [acc EXCEPT !.table = y] = [work |-> work, stopped |-> stopped, table |-> y]
                    /\ [acc EXCEPT !.stopped = x, !.table = y] = [work |-> work, stopped |-> x, table |-> y]
  BY DEF IsWalk
<1>1. [acc EXCEPT !.work = x] = [work |-> x, stopped |-> stopped, table |-> entries]
  OBVIOUS
<1>2. [acc EXCEPT !.table = y] = [work |-> work, stopped |-> stopped, table |-> y]
  OBVIOUS
<1>3. [acc EXCEPT !.stopped = x, !.table = y] = [work |-> work, stopped |-> x, table |-> y]
  <2> DEFINE z == [acc EXCEPT !.stopped = x]
  <2>1. z = [work |-> work, stopped |-> x, table |-> entries]
    OBVIOUS
  <2>2. [acc EXCEPT !.stopped = x, !.table = y] = [z EXCEPT !.table = y]
    OBVIOUS
  <2> HIDE DEF z
  <2> QED
    BY <2>1, <2>2
<1> QED
  BY <1>1, <1>2, <1>3

LEMMA WalkFields ==
  ASSUME NEW work, NEW stopped, NEW entries, NEW r, r = [work |-> work, stopped |-> stopped, table |-> entries]
  PROVE  IsWalk(r) /\ r.work = work /\ r.stopped = stopped /\ r.table = entries
BY DEF IsWalk

\* What one command of a description makes of the walk, `next` being the
\* machine after the command.
Told(s, k, next, old) ==
  [n \in DOMAIN old |->
     IF n \notin SampledAt(s, k) \/ old[n].has \/ next.stack = <<>> THEN old[n]
     ELSE [has |-> TRUE, value |-> Last(next.stack),
           scope |-> IF s.descs[n].scope \in DOMAIN next.stack THEN next.stack[s.descs[n].scope] ELSE Invalid]]

Passes(acc, k) == ~(acc.stopped \/ k < acc.work.pc)

WalkGoes(s, k, acc, next, r) ==
  /\ IsWalk(r)
  /\ ~Passes(acc, k) => r = acc
  /\ Passes(acc, k) /\ IsEffect(s, k) =>
       r.work = Continue(acc.work) /\ r.stopped = acc.stopped /\ r.table = acc.table
  /\ Passes(acc, k) /\ ~IsEffect(s, k) /\ next.err # NoError => r.work = acc.work
  /\ Passes(acc, k) /\ ~IsEffect(s, k) /\ next.err = NoError =>
       r.work = next /\ r.stopped = acc.stopped /\ r.table = Told(s, k, next, acc.table)

LEMMA DescribeCases ==
  ASSUME NEW s, NEW k, NEW acc, IsWalk(acc), NEW r, r = DescribeStep(s, acc, k),
         NEW next, next = Exec(acc.work, s.code[k])
  PROVE  WalkGoes(s, k, acc, next, r)
<1> DEFINE lost == [n \in DOMAIN acc.table |-> IF s.descs[n].index >= k THEN Unset ELSE acc.table[n]]
           told == Told(s, k, next, acc.table)
           moved == [acc EXCEPT !.work = next]
           passed == [acc EXCEPT !.work = Continue(acc.work)]
           failed == [acc EXCEPT !.stopped = TRUE, !.table = lost]
<1>1. /\ passed = [work |-> Continue(acc.work), stopped |-> acc.stopped, table |-> acc.table]
      /\ moved = [work |-> next, stopped |-> acc.stopped, table |-> acc.table]
  BY WalkSet
<1>2. failed = [work |-> acc.work, stopped |-> TRUE, table |-> lost]
  <2> HIDE DEF lost
  <2> QED
    BY WalkSet
<1>3. IsWalk(moved) /\ moved.table = acc.table /\ moved.work = next /\ moved.stopped = acc.stopped
  <2> HIDE DEF moved
  <2> QED
    BY <1>1, WalkFields
<1>4. Record(moved, s, k, next) = [moved EXCEPT !.table = Told(s, k, next, moved.table)]
  <2> HIDE DEF moved
  <2> QED
    BY DEF Record, Told
<1>5. Record(moved, s, k, next) = [work |-> next, stopped |-> acc.stopped, table |-> told]
  <2>1. told = Told(s, k, next, acc.table)
    OBVIOUS
  <2> HIDE DEF moved, told
  <2>2. Record(moved, s, k, next) = [moved EXCEPT !.table = told]
    BY <1>3, <1>4, <2>1
  <2>3. [moved EXCEPT !.table = told] = [work |-> moved.work, stopped |-> moved.stopped, table |-> told]
    BY <1>3, WalkSet
  <2> QED
    BY <1>3, <2>2, <2>3
<1>6. r = IF ~Passes(acc, k) THEN acc ELSE IF IsEffect(s, k) THEN passed
          ELSE IF next.err # NoError THEN failed ELSE Record(moved, s, k, next)
  BY DEF DescribeStep, Passes
<1> HIDE DEF passed, moved, failed, told, lost
<1>7. CASE ~Passes(acc, k)
  BY <1>6, <1>7 DEF WalkGoes
<1>8. CASE Passes(acc, k) /\ IsEffect(s, k)
  <2>1. r = [work |-> Continue(acc.work), stopped |-> acc.stopped, table |-> acc.table]
    BY <1>1, <1>6, <1>8
  <2>2. IsWalk(r) /\ r.work = Continue(acc.work) /\ r.stopped = acc.stopped /\ r.table = acc.table
    BY <2>1, WalkFields
  <2> QED
    BY <1>8, <2>2 DEF WalkGoes
<1>9. CASE Passes(acc, k) /\ ~IsEffect(s, k) /\ next.err # NoError
  <2>1. r = [work |-> acc.work, stopped |-> TRUE, table |-> lost]
    BY <1>2, <1>6, <1>9
  <2>2. IsWalk(r) /\ r.work = acc.work
    BY <2>1, WalkFields
  <2> QED
    BY <1>9, <2>2 DEF WalkGoes
<1>10. CASE Passes(acc, k) /\ ~IsEffect(s, k) /\ next.err = NoError
  <2>1. r = [work |-> next, stopped |-> acc.stopped, table |-> told]
    BY <1>5, <1>6, <1>10
  <2>2. IsWalk(r) /\ r.work = next /\ r.stopped = acc.stopped /\ r.table = told
    BY <2>1, WalkFields
  <2> QED
    BY <1>10, <2>2 DEF WalkGoes, told
<1> QED
  BY <1>7, <1>8, <1>9, <1>10

\* Nothing has happened yet.
Silent(acc) == IsWalk(acc) /\ IsMachine(acc.work) /\ acc.work.log = <<>>

LEMMA DescribeStepSilent ==
  ASSUME NEW s, NEW k, NEW acc, Silent(acc), s.code[k].op \in Opcodes, Loud(s.code[k]) => IsEffect(s, k),
         NEW r, r = DescribeStep(s, acc, k)
  PROVE  Silent(r)
<1> DEFINE next == Exec(acc.work, s.code[k])
<1>1. IsWalk(acc) /\ IsMachine(acc.work) /\ acc.work.log = <<>>
  BY DEF Silent
<1>2. next = Exec(acc.work, s.code[k])
  OBVIOUS
<1> HIDE DEF next
<1>3. WalkGoes(s, k, acc, next, r)
  BY <1>1, <1>2, DescribeCases
<1>4. CASE r.work = acc.work
  BY <1>1, <1>3, <1>4 DEF Silent, WalkGoes
<1>5. CASE r.work = Continue(acc.work)
  <2>1. IsMachine(r.work) /\ r.work.log = acc.work.log
    BY <1>1, <1>5, Continued
  <2> QED
    BY <1>1, <1>3, <2>1 DEF Silent, WalkGoes
<1>6. CASE r.work = next /\ ~IsEffect(s, k)
  <2>1. IsMachine(r.work) /\ r.work.log = acc.work.log
    BY <1>1, <1>2, <1>6, ExecQuiet
  <2> QED
    BY <1>1, <1>3, <2>1 DEF Silent, WalkGoes
<1> QED
  BY <1>3, <1>4, <1>5, <1>6 DEF WalkGoes

\* What is certified of a script before it runs stays so.
Marked == \A k \in DOMAIN built.code : Loud(built.code[k]) => IsEffect(built, k)

DescribingInv ==
  /\ RunInPlace
  /\ Begun => Marked
  /\ phase \in {"describing", "described"} => Silent(table)

\* What describing does to the state of the run: nothing.
LEMMA DescribingKeepsRun ==
  ASSUME RunInPlace, Certified, DescriptionNext
  PROVE  RunInPlace' /\ (Begun' => Begun \/ phase = "ready") /\ built' = built
<1>1. CASE RunNext
  <2>1. RunInPlace'
    BY <1>1, RunInPlaceStep
  <2>2. (Begun' => Begun \/ phase = "ready") /\ built' = built
    BY <1>1 DEF RunNext, Begin, Step, End, Begun
  <2> QED
    BY <2>1, <2>2
<1>2. CASE BeginDescription \/ DescribeCommand \/ EndDescription
  <2>1. /\ env' = env /\ built' = built /\ m' = m
        /\ phase \in {"done", "describing"} /\ phase' \in {"describing", "described"}
    BY <1>2 DEF BeginDescription, DescribeCommand, EndDescription
  <2>2. Begun /\ Begun'
    BY <2>1 DEF Begun
  <2>3. RunInPlace'
    BY <2>1, <2>2 DEF RunInPlace, Prepared
  <2> QED
    BY <2>1, <2>2, <2>3
<1> QED
  BY <1>1, <1>2 DEF DescriptionNext, Prepare, RunStep, RunNext

LEMMA DescribingInvStep ==
  ASSUME DescribingInv, Certified, EffectsMarked, DescriptionNext
  PROVE  DescribingInv'
<1>1. RunInPlace' /\ (Begun' => Begun \/ phase = "ready") /\ built' = built
  BY DescribingKeepsRun DEF DescribingInv
<1>2. Begun' => Marked'
  <2>1. Begun \/ phase = "ready" => Marked
    BY DEF DescribingInv, EffectsMarked, Marked
  <2> QED
    BY <1>1, <2>1 DEF Marked
<1>3. ASSUME phase' \in {"describing", "described"}
      PROVE  Silent(table)'
  <2>1. CASE BeginDescription
    <3>1. phase = "done" /\ table' = StartDescription(built, env)
      BY <2>1 DEF BeginDescription
    <3>2. Prepared /\ env \in Hosts
      BY <3>1 DEF DescribingInv, RunInPlace, Begun
    <3> DEFINE w == StartRun(env, built)
               fresh == [n \in DOMAIN built.descs |-> Unset]
    <3>3. IsMachine(w) /\ w.log = <<>>
      BY <3>2, StartInPlace DEF Prepared, InPlace
    <3>4. table' = [work |-> w, stopped |-> FALSE, table |-> fresh]
      BY <3>1 DEF StartDescription
    <3> HIDE DEF w, fresh
    <3>5. IsWalk(table') /\ table'.work = w
      BY <3>4, WalkFields
    <3> QED
      BY <3>3, <3>5 DEF Silent
  <2>2. CASE DescribeCommand
    <3>1. phase = "describing" /\ at \in DOMAIN built.code /\ table' = DescribeStep(built, table, at)
      BY <2>2 DEF DescribeCommand
    <3>2. Begun
      BY <3>1 DEF Begun
    <3>3. Silent(table) /\ (Loud(built.code[at]) => IsEffect(built, at))
      BY <3>1, <3>2 DEF DescribingInv, Marked
    <3>4. built.code[at].op \in Opcodes
      BY <3>1, <3>2 DEF DescribingInv, RunInPlace, Prepared, Certifies
    <3>5. Silent(table')
      BY <3>1, <3>3, <3>4, DescribeStepSilent
    <3> QED
      BY <3>5 DEF Silent
  <2>3. CASE EndDescription
    <3>1. phase = "describing" /\ table' = table
      BY <2>3 DEF EndDescription
    <3> QED
      BY <3>1 DEF DescribingInv, Silent
  <2>4. CASE RunNext
    <3>1. phase' \in {"running", "done"}
      BY <2>4 DEF RunNext, Begin, Step, Running, End
    <3> QED
      BY <1>3, <3>1
  <2> QED
    BY <2>1, <2>2, <2>3, <2>4 DEF DescriptionNext, Prepare, RunStep, RunNext
<1> QED
  BY <1>1, <1>2, <1>3 DEF DescribingInv

LEMMA DescribingInvStays ==
  ASSUME DescribingInv, UNCHANGED describedVars
  PROVE  DescribingInv'
<1>1. RunInPlace'
  BY RunInPlaceStays DEF DescribingInv, describedVars, runVars
<1> QED
  BY <1>1 DEF DescribingInv, describedVars, Begun, Marked, Silent

LEMMA DescribingInvInit == DescriptionInit => DescribingInv
<1> SUFFICES ASSUME DescriptionInit
             PROVE  DescribingInv
  OBVIOUS
<1>1. RunInit
  BY DEF DescriptionInit
<1>2. RunInPlace
  BY <1>1, RunInPlaceInit
<1>3. phase \in {"ready", "rejected"}
  BY <1>1 DEF RunInit
<1> QED
  BY <1>2, <1>3 DEF DescribingInv, Begun

LEMMA DescribingInvHolds == DescriptionSpec /\ []Certified /\ []EffectsMarked => []DescribingInv
<1>1. DescribingInv /\ Certified /\ EffectsMarked /\ [DescriptionNext]_describedVars => DescribingInv'
  BY DescribingInvStep, DescribingInvStays
<1> QED
  BY <1>1, DescribingInvInit, PTL DEF DescriptionSpec

\* Describing a script whose effects are marked has no effect, whatever its
\* conditions are and wherever the walk ends (container::describe).
THEOREM MarkedIsSilent == DescriptionSpec /\ []Certified /\ []EffectsMarked => []DescribingIsSilent
<1>1. DescribingInv => DescribingIsSilent
  BY DEF DescribingInv, DescribingIsSilent, Silent
<1> QED
  BY <1>1, DescribingInvHolds, PTL

-----------------------------------------------------------------------------
(* A description says what the run did                                     *)

LEMMA LogOfLog ==
  ASSUME NEW w, NEW x, NEW y
  PROVE  WithLog(WithLog(w, x), y) = WithLog(w, y)
<1> DEFINE z == WithLog(w, x)
<1>1. z = WithLog(w, x)
  OBVIOUS
<1> HIDE DEF z
<1>2. /\ z.stack = w.stack /\ z.pc = w.pc /\ z.saved = w.saved /\ z.args = w.args /\ z.savedTypes = w.savedTypes
      /\ z.argTypes = w.argTypes /\ z.ret = w.ret /\ z.env = w.env /\ z.err = w.err
  BY <1>1, LogFields
<1>3. WithLog(z, y) = WithLog(w, y)
  BY <1>2 DEF WithLog
<1> QED
  BY <1>1, <1>3

\* A machine that has not failed is none that gave up.
LEMMA NotAborted ==
  ASSUME NEW b, IsMachine(b), NEW r, r.err = NoError
  PROVE  r # Abort(b, "operand") /\ r # Abort(b, "invalid scope")
<1>1. "operand" # NoError /\ "invalid scope" # NoError
  BY Zenon DEF NoError
<1>2. ASSUME NEW why, why # NoError
      PROVE  r # Abort(b, why)
  <2>1. Abort(b, why).err = why
    BY Aborted
  <2> QED
    BY <1>2, <2>1
<1> QED
  BY <1>1, <1>2

LEMMA LoggedOnly ==
  ASSUME NEW b, IsMachine(b), NEW none, Retop(b.stack, 0, none) = b.stack, NEW x
  PROVE  [Replace(b, 0, none) EXCEPT !.log = x] = WithLog(Continue(b), x)
<1> DEFINE q == Continue(b)
           z == Replace(b, 0, none)
           r == [z EXCEPT !.log = x]
<1>1. q = Continue(b) /\ z = Replace(b, 0, none) /\ r = [z EXCEPT !.log = x]
  OBVIOUS
<1> HIDE DEF q, z, r
<1>2. /\ IsMachine(z) /\ z.stack = Retop(b.stack, 0, none) /\ z.pc = b.pc + 1 /\ z.saved = b.saved /\ z.args = b.args
      /\ z.savedTypes = b.savedTypes /\ z.argTypes = b.argTypes /\ z.ret = b.ret /\ z.env = b.env /\ z.err = b.err
  BY <1>1, Replaced
<1>3. r = Machine(z.stack, z.pc, z.saved, z.args, z.savedTypes, z.argTypes, z.ret, x, z.env, z.err)
  <2>1. IsMachine(z)
    BY <1>2
  <2>2. [z EXCEPT !.log = x] = Machine(z.stack, z.pc, z.saved, z.args, z.savedTypes, z.argTypes, z.ret, x, z.env, z.err)
    BY <2>1, FieldReplaced
  <2> QED
    BY <1>1, <2>2
<1>4. /\ q.stack = b.stack /\ q.pc = b.pc + 1 /\ q.saved = b.saved /\ q.args = b.args
      /\ q.savedTypes = b.savedTypes /\ q.argTypes = b.argTypes /\ q.ret = b.ret /\ q.env = b.env /\ q.err = b.err
  BY <1>1, Continued
<1>5. WithLog(q, x) = Machine(q.stack, q.pc, q.saved, q.args, q.savedTypes, q.argTypes, q.ret, x, q.env, q.err)
  BY DEF WithLog
<1>6. r = WithLog(q, x)
  BY <1>2, <1>3, <1>4, <1>5
<1> QED
  BY <1>1, <1>6

\* An effect without operands does nothing but go on and append to the log.
LEMMA EffectStands ==
  ASSUME NEW b, IsMachine(b), Tuple(b.stack), NEW c, Loud(c), Operands(c) = <<>>,
         NEW r, r = Exec(b, c), r.err = NoError
  PROVE  \E x : r = WithLog(Continue(b), x)
<1>1. c.op = "call" /\ Functions[c.fn].ret = "void" /\ Functions[c.fn].args = <<>>
  <2>1. c.op # "trace"
    BY DEF Operands, ShortCircuitOps, CondJumpOps
  <2>2. c.op = "call" /\ Functions[c.fn].ret = "void"
    BY <2>1 DEF Loud
  <2>3. Operands(c) = Functions[c.fn].args
    BY <2>2 DEF Operands, ShortCircuitOps, CondJumpOps
  <2> QED
    BY <2>2, <2>3
<1>2. OperandsFit(Layout(b.stack), c)
  <2>1. ~OperandsFit(Layout(b.stack), c) => r = Abort(b, "operand")
    BY DEF Exec
  <2> QED
    BY <2>1, NotAborted
<1>3. r = Call(b, c)
  BY <1>1, <1>2, Dispatch
<1> DEFINE f == Functions[c.fn]
           scope == IF f.scope = NoType THEN Invalid ELSE b.stack[c.a]
           taken == SubSeq(b.stack, Len(b.stack) - 0 + 1, Len(b.stack))
           lost == f.scope # NoType /\ scope.v = -1
           none == <<>>
           logged == Append(Replace(b, 0, none).log, <<c.fn, scope.v, taken>>)
<1>4. Call(b, c) = IF lost THEN Abort(b, "invalid scope") ELSE [Replace(b, 0, none) EXCEPT !.log = logged]
  <2>1. Len(f.args) = 0
    BY <1>1
  <2> QED
    BY <1>1, <2>1 DEF Call
<1>5. Retop(b.stack, 0, none) = b.stack
  BY RetopNothing
<1> HIDE DEF f, scope, taken, lost, none, logged
<1>6. r = [Replace(b, 0, none) EXCEPT !.log = logged]
  BY <1>3, <1>4, NotAborted
<1>7. [Replace(b, 0, none) EXCEPT !.log = logged] = WithLog(Continue(b), logged)
  BY <1>5, LoggedOnly
<1> QED
  BY <1>6, <1>7

\* What command `k` of a run made of it, `before` being the machine before each
\* command that ran, and `told` the tops there were.
Went(s, before, k, told) ==
  LET r == Exec(before[k], s.code[k])
  IN /\ k \in DOMAIN s.code
     /\ r.err = NoError /\ r.pc > k /\ r.pc \in DOMAIN before /\ before[r.pc] = r
     /\ r.stack # <<>> => k \in DOMAIN told /\ told[k] = Last(r.stack)

\* A run that came from its start to machine `w`.
Traced(s, host, before, w, told) ==
  /\ 1 \in DOMAIN before /\ before[1] = StartRun(host, s)
  /\ w.pc \in DOMAIN before /\ before[w.pc] = w
  /\ \A k \in DOMAIN before :
       k \in Nat /\ k <= w.pc /\ IsMachine(before[k]) /\ Tuple(before[k].stack) /\ before[k].pc = k
  /\ \A k \in DOMAIN before \ {w.pc} : Went(s, before, k, told)

LEMMA TraceStart ==
  ASSUME NEW s, NEW host, NEW w, w = StartRun(host, s), IsMachine(w), Tuple(w.stack), w.pc = 1, NEW told
  PROVE  \E before : Traced(s, host, before, w, told)
<1> DEFINE before == [k \in {1} |-> w]
<1>1. Traced(s, host, before, w, told)
  BY DEF Traced
<1> QED
  BY <1>1

LEMMA TraceStep ==
  ASSUME NEW s, NEW host, NEW before, NEW w, NEW told, Traced(s, host, before, w, told), w.pc \in DOMAIN s.code,
         NEW r, r = Exec(w, s.code[w.pc]), IsMachine(r), Tuple(r.stack), r.pc \in Nat, r.err = NoError, r.pc > w.pc,
         NEW more, \A k \in DOMAIN told \ {w.pc} : k \in DOMAIN more /\ more[k] = told[k],
         r.stack # <<>> => w.pc \in DOMAIN more /\ more[w.pc] = Last(r.stack)
  PROVE  \E after : Traced(s, host, after, r, more)
<1> DEFINE after == [k \in DOMAIN before \union {r.pc} |-> IF k = r.pc THEN r ELSE before[k]]
<1>1. /\ w.pc \in DOMAIN before /\ before[w.pc] = w /\ w.pc \in Nat
      /\ 1 \in DOMAIN before /\ before[1] = StartRun(host, s)
  BY DEF Traced
<1>2. ASSUME NEW k \in DOMAIN before
      PROVE  /\ k \in Nat /\ k < r.pc /\ IsMachine(before[k]) /\ Tuple(before[k].stack) /\ before[k].pc = k
             /\ k \in DOMAIN after /\ after[k] = before[k]
  <2>1. k \in Nat /\ k <= w.pc /\ IsMachine(before[k]) /\ Tuple(before[k].stack) /\ before[k].pc = k
    BY DEF Traced
  <2>2. k < r.pc
    BY <1>1, <2>1
  <2>3. k # r.pc
    BY <2>1, <2>2
  <2> QED
    BY <2>1, <2>2, <2>3
<1>3. r.pc \in DOMAIN after /\ after[r.pc] = r /\ DOMAIN after = DOMAIN before \union {r.pc}
  OBVIOUS
<1> HIDE DEF after
<1>4. 1 \in DOMAIN after /\ after[1] = StartRun(host, s)
  BY <1>1, <1>2
<1>5. ASSUME NEW k \in DOMAIN after
      PROVE  k \in Nat /\ k <= r.pc /\ IsMachine(after[k]) /\ Tuple(after[k].stack) /\ after[k].pc = k
  <2>1. CASE k = r.pc
    BY <1>3, <2>1
  <2>2. CASE k \in DOMAIN before
    BY <1>2, <2>2
  <2> QED
    BY <1>3, <2>1, <2>2
<1>6. ASSUME NEW k \in DOMAIN after \ {r.pc}
      PROVE  Went(s, after, k, more)
  <2>1. k \in DOMAIN before /\ after[k] = before[k]
    BY <1>2, <1>3, <1>6
  <2>2. CASE k = w.pc
    <3>1. Exec(after[k], s.code[k]) = r
      BY <1>1, <2>1, <2>2
    <3> QED
      BY <1>3, <2>2, <3>1 DEF Went
  <2>3. CASE k # w.pc
    <3> DEFINE x == Exec(before[k], s.code[k])
    <3>1. /\ k \in DOMAIN s.code /\ x.err = NoError /\ x.pc > k /\ x.pc \in DOMAIN before /\ before[x.pc] = x
          /\ x.stack # <<>> => k \in DOMAIN told /\ told[k] = Last(x.stack)
      BY <2>1, <2>3 DEF Traced, Went
    <3>2. x = Exec(after[k], s.code[k])
      BY <2>1
    <3> HIDE DEF x
    <3>3. x.pc \in DOMAIN after /\ after[x.pc] = x
      BY <1>2, <3>1
    <3>4. x.stack # <<>> => k \in DOMAIN more /\ more[k] = Last(x.stack)
      BY <2>3, <3>1
    <3> QED
      BY <3>1, <3>2, <3>3, <3>4 DEF Went
  <2> QED
    BY <2>2, <2>3
<1>7. Traced(s, host, after, r, more)
  BY <1>3, <1>4, <1>5, <1>6 DEF Traced
<1> QED
  BY <1>7

\* What the description has found out so far is what the run left on its stack.
ToldBy(s, entries, told) ==
  /\ DOMAIN entries = DOMAIN s.descs
  /\ \A n \in DOMAIN s.descs :
       entries[n].has => \E k \in {s.descs[n].start, s.descs[n].index} \intersect DOMAIN told : entries[n].value = told[k]

\* The walk of a description goes where the run went, but for the log.
WalkTraced(s, before, acc, k, told) ==
  /\ IsWalk(acc) /\ ~acc.stopped
  /\ k \in Nat /\ acc.work.pc \in DOMAIN before /\ k <= acc.work.pc
  /\ acc.work = WithLog(before[acc.work.pc], acc.work.log)
  /\ ToldBy(s, acc.table, told)

LEMMA WalkStart ==
  ASSUME NEW s, NEW host, NEW before, NEW w, NEW told, Traced(s, host, before, w, told),
         NEW acc, acc = StartDescription(s, host)
  PROVE  WalkTraced(s, before, acc, 1, told)
<1> DEFINE start == StartRun(host, s)
           fresh == [n \in DOMAIN s.descs |-> Unset]
<1>1. acc = [work |-> start, stopped |-> FALSE, table |-> fresh]
  BY DEF StartDescription
<1>2. 1 \in DOMAIN before /\ before[1] = start /\ IsMachine(before[1]) /\ before[1].pc = 1
  BY DEF Traced
<1>3. ToldBy(s, fresh, told)
  BY DEF ToldBy, Unset
<1> HIDE DEF start, fresh
<1>4. IsWalk(acc) /\ acc.work = start /\ acc.stopped = FALSE /\ acc.table = fresh
  BY <1>1, WalkFields
<1>5. start = WithLog(start, start.log) /\ start.pc = 1
  BY <1>2 DEF IsMachine, WithLog
<1> QED
  BY <1>2, <1>3, <1>4, <1>5 DEF WalkTraced

LEMMA WalkStep ==
  ASSUME NEW s, NEW host, NEW before, NEW w, NEW told, Traced(s, host, before, w, told), w.pc \notin DOMAIN s.code,
         NEW acc, NEW k, WalkTraced(s, before, acc, k, told), k \in DOMAIN s.code, s.code[k].op \in Opcodes,
         Loud(s.code[k]) => IsEffect(s, k), IsEffect(s, k) => Loud(s.code[k]) /\ Operands(s.code[k]) = <<>>,
         NEW r, r = DescribeStep(s, acc, k)
  PROVE  WalkTraced(s, before, r, k + 1, told)
<1> DEFINE c == s.code[k]
           next == Exec(acc.work, c)
           l == acc.work.log
           b == before[k]
           x == Exec(b, c)
<1>1. /\ IsWalk(acc) /\ ~acc.stopped /\ k \in Nat /\ acc.work.pc \in DOMAIN before /\ k <= acc.work.pc
      /\ acc.work = WithLog(before[acc.work.pc], l) /\ ToldBy(s, acc.table, told)
  BY DEF WalkTraced
<1>2. acc.work.pc \in Nat
  BY <1>1 DEF Traced
<1>3. next = Exec(acc.work, s.code[k])
  OBVIOUS
<1> HIDE DEF next
<1>4. WalkGoes(s, k, acc, next, r)
  BY <1>1, <1>3, DescribeCases
<1>5. CASE k < acc.work.pc
  <2>1. r = acc
    BY <1>4, <1>5 DEF WalkGoes, Passes
  <2>2. k + 1 \in Nat /\ k + 1 <= acc.work.pc
    BY <1>1, <1>2, <1>5
  <2> QED
    BY <1>1, <2>1, <2>2 DEF WalkTraced
<1>6. CASE k = acc.work.pc
  <2>1. Passes(acc, k) /\ k \in DOMAIN before /\ k # w.pc /\ acc.work = WithLog(b, l)
    BY <1>1, <1>6 DEF Passes
  <2>2. IsMachine(b) /\ Tuple(b.stack)
    BY <2>1 DEF Traced
  <2>3. /\ x.err = NoError /\ x.pc > k /\ x.pc \in DOMAIN before /\ before[x.pc] = x
        /\ x.stack # <<>> => k \in DOMAIN told /\ told[k] = Last(x.stack)
    BY <2>1 DEF Traced, Went
  <2>4. x.pc \in Nat /\ k + 1 \in Nat
    BY <1>1, <2>3 DEF Traced
  <2>5. k + 1 <= x.pc
    BY <1>1, <2>3, <2>4
  <2>6. x = Exec(b, c)
    OBVIOUS
  <2> HIDE DEF x, b, c, l
  <2>7. ASSUME r.work = WithLog(x, l), r.stopped = acc.stopped, IsWalk(r), ToldBy(s, r.table, told)
        PROVE  WalkTraced(s, before, r, k + 1, told)
    <3>1. r.work.pc = x.pc /\ r.work.log = l
      BY <2>7, LogFields
    <3> QED
      BY <1>1, <2>3, <2>4, <2>5, <2>7, <3>1 DEF WalkTraced
  <2>8. CASE IsEffect(s, k)
    <3>1. /\ IsWalk(r) /\ r.work = Continue(acc.work) /\ r.stopped = acc.stopped /\ r.table = acc.table
      BY <1>4, <2>1, <2>8 DEF WalkGoes
    <3>2. r.work = WithLog(Continue(b), l)
      BY <2>1, <2>2, <3>1, ContinueKeepsLog
    <3>3. Loud(c) /\ Operands(c) = <<>>
      BY <2>8 DEF c
    <3>4. PICK y : x = WithLog(Continue(b), y)
      BY <2>2, <2>3, <2>6, <3>3, EffectStands
    <3>5. r.work = WithLog(x, l)
      BY <3>2, <3>4, LogOfLog
    <3> QED
      BY <1>1, <2>7, <3>1, <3>5
  <2>9. CASE ~IsEffect(s, k)
    <3>1. c.op \in Opcodes /\ ~Loud(c)
      BY <2>9 DEF c
    <3>2. next = Exec(acc.work, c)
      BY <1>3 DEF c
    <3>3. next = WithLog(x, l)
      BY <2>1, <2>2, <2>6, <3>1, <3>2, ExecIgnoresLog
    <3>4. next.err = x.err /\ next.stack = x.stack
      BY <3>3, LogFields
    <3>5. IsWalk(r) /\ r.work = next /\ r.stopped = acc.stopped /\ r.table = Told(s, k, next, acc.table)
      BY <1>4, <2>1, <2>3, <2>9, <3>4 DEF WalkGoes
    <3>6. ToldBy(s, r.table, told)
      <4>1. /\ DOMAIN acc.table = DOMAIN s.descs
            /\ \A n \in DOMAIN s.descs : acc.table[n].has =>
                 \E j \in {s.descs[n].start, s.descs[n].index} \intersect DOMAIN told : acc.table[n].value = told[j]
        BY <1>1 DEF ToldBy
      <4>2. DOMAIN r.table = DOMAIN s.descs
        BY <3>5, <4>1 DEF Told
      <4>3. ASSUME NEW n \in DOMAIN s.descs, r.table[n].has
            PROVE  \E j \in {s.descs[n].start, s.descs[n].index} \intersect DOMAIN told : r.table[n].value = told[j]
        <5>1. CASE n \notin SampledAt(s, k) \/ acc.table[n].has \/ next.stack = <<>>
          <6>1. r.table[n] = acc.table[n]
            BY <3>5, <4>1, <5>1 DEF Told
          <6> QED
            BY <4>1, <4>3, <6>1
        <5>2. CASE ~(n \notin SampledAt(s, k) \/ acc.table[n].has \/ next.stack = <<>>)
          <6>1. r.table[n].value = Last(next.stack)
            BY <3>5, <4>1, <5>2 DEF Told
          <6>2. k \in {s.descs[n].start, s.descs[n].index}
            BY <5>2 DEF SampledAt
          <6>3. k \in DOMAIN told /\ told[k] = Last(next.stack)
            BY <2>3, <3>4, <5>2
          <6> QED
            BY <6>1, <6>2, <6>3
        <5> QED
          BY <5>1, <5>2
      <4> QED
        BY <4>2, <4>3 DEF ToldBy
    <3> QED
      BY <2>7, <3>3, <3>5, <3>6
  <2> QED
    BY <2>8, <2>9
<1> QED
  BY <1>1, <1>2, <1>5, <1>6

\* What holds while a script runs and is described: its effects stand alone,
\* and there is a trace of the run which the description follows.
Following(before) ==
  /\ Traced(built, env, before, m, tops)
  /\ phase \in {"describing", "described"} => WalkTraced(built, before, table, at, tops)

Alone == \A k \in DOMAIN built.code : IsEffect(built, k) => Loud(built.code[k]) /\ Operands(built.code[k]) = <<>>

FollowingInv ==
  /\ DescribingInv
  /\ Begun => Alone
  /\ Begun /\ m.err = NoError => \E before : Following(before)

\* A run that has begun, seen from the trace.
LEMMA RunIsTraced ==
  ASSUME FollowingInv, Certified, EffectsStandAlone, RunNext, UNCHANGED <<table, at>>,
         Step \/ UNCHANGED tops,
         Step => tops' = IF m'.err = NoError /\ m'.stack # <<>>
                         THEN [k \in DOMAIN tops \union {m.pc} |-> IF k = m.pc THEN Last(m'.stack) ELSE tops[k]]
                         ELSE tops,
         m'.err = NoError
  PROVE  \E before : Following(before)'
<1>1. CASE Begin
  <2>1. phase = "ready" /\ env' \in Hosts /\ m' = StartRun(env', built) /\ phase' = "running" /\ built' = built
    BY <1>1 DEF Begin
  <2>2. Prepared
    BY <2>1 DEF Certified, CodeIsCertified, Prepared
  <2>3. IsMachine(m') /\ Tuple(m'.stack)
    BY <2>1, <2>2, StartInPlace DEF Prepared, InPlace
  <2>4. m'.pc = 1
    BY <2>1 DEF StartRun
  <2>5. \E before : Traced(built, env', before, m', tops')
    BY <2>1, <2>3, <2>4, TraceStart
  <2> QED
    BY <2>1, <2>5 DEF Following
<1>2. CASE Step
  <2>1. /\ phase = "running" /\ m.err = NoError /\ m.pc <= Len(built.code) /\ m' = Exec(m, built.code[m.pc])
        /\ env' = env /\ built' = built /\ phase' = phase
    BY <1>2 DEF Step, Running
  <2>2. Begun
    BY <2>1 DEF Begun
  <2>3. PICK before : Traced(built, env, before, m, tops)
    BY <2>1, <2>2 DEF FollowingInv, Following
  <2>4. Prepared /\ InPlace(Layouts(built), built, m)
    BY <2>2 DEF FollowingInv, DescribingInv, RunInPlace
  <2>5. AlwaysTrue(built.code, m.pc) => Peek(m, 1).v = 1
    BY <2>1 DEF Certified, LastBranchTaken, Running
  <2>6. InPlace(Layouts(built), built, m') /\ m'.pc > m.pc
    BY <2>1, <2>4, <2>5, ExecInPlace DEF Prepared
  <2>7. Len(built.code) \in Nat /\ DOMAIN built.code = 1 .. Len(built.code)
    BY <2>4 DEF Prepared, Certifies
  <2>8. m.pc \in DOMAIN built.code
    BY <2>1, <2>4, <2>7 DEF InPlace
  <2>9. IsMachine(m') /\ Tuple(m'.stack) /\ m'.pc \in Nat
    BY <2>6, <2>7 DEF InPlace
  <2>10. /\ \A k \in DOMAIN tops \ {m.pc} : k \in DOMAIN tops' /\ tops'[k] = tops[k]
         /\ m'.stack # <<>> => m.pc \in DOMAIN tops' /\ tops'[m.pc] = Last(m'.stack)
    <3>1. CASE m'.stack = <<>>
      BY <1>2, <3>1
    <3>2. CASE m'.stack # <<>>
      <4>1. tops' = [k \in DOMAIN tops \union {m.pc} |-> IF k = m.pc THEN Last(m'.stack) ELSE tops[k]]
        BY <1>2, <3>2
      <4> QED
        BY <4>1
    <3> QED
      BY <3>1, <3>2
  <2>11. m.pc \in DOMAIN built.code /\ m'.pc > m.pc
    BY <2>6, <2>8
  <2> DEFINE r == m'
             more == tops'
  <2>12. /\ r = Exec(m, built.code[m.pc]) /\ IsMachine(r) /\ Tuple(r.stack) /\ r.pc \in Nat /\ r.err = NoError /\ r.pc > m.pc
         /\ \A k \in DOMAIN tops \ {m.pc} : k \in DOMAIN more /\ more[k] = tops[k]
         /\ r.stack # <<>> => m.pc \in DOMAIN more /\ more[m.pc] = Last(r.stack)
    BY <2>1, <2>9, <2>10, <2>11
  <2> HIDE DEF r, more
  <2>13. \E after : Traced(built, env, after, r, more)
    BY <2>3, <2>11, <2>12, TraceStep
  <2> QED
    BY <2>1, <2>13 DEF Following, r, more
<1>3. CASE End
  <2>1. phase = "running" /\ phase' = "done" /\ env' = env /\ built' = built /\ m' = m
    BY <1>3 DEF End
  <2>2. tops' = tops
    BY <2>1, <1>3 DEF Step, Running
  <2>3. PICK before : Traced(built, env, before, m, tops)
    BY <2>1 DEF FollowingInv, Following, Begun
  <2> QED
    BY <2>1, <2>2, <2>3 DEF Following
<1> QED
  BY <1>1, <1>2, <1>3 DEF RunNext

\* The description, seen from the trace: the run is over, and its machine is
\* past the last command.
LEMMA DescriptionIsTraced ==
  ASSUME FollowingInv, BeginDescription \/ DescribeCommand \/ EndDescription, m.err = NoError
  PROVE  \E before : Following(before)'
<1>1. /\ env' = env /\ built' = built /\ m' = m /\ tops' = tops
      /\ phase \in {"done", "describing"} /\ phase' \in {"describing", "described"}
  BY DEF BeginDescription, DescribeCommand, EndDescription
<1>2. Begun
  BY <1>1 DEF Begun
<1>3. PICK before : Following(before)
  BY <1>2 DEF FollowingInv
<1>4. Traced(built, env, before, m, tops)
  BY <1>3 DEF Following
<1>5. WalkTraced(built, before, table', at', tops)
  <2>1. CASE BeginDescription
    <3>1. table' = StartDescription(built, env) /\ at' = 1
      BY <2>1 DEF BeginDescription
    <3> QED
      BY <1>4, <3>1, WalkStart
  <2>2. CASE DescribeCommand
    <3>1. phase = "describing" /\ at \in DOMAIN built.code /\ table' = DescribeStep(built, table, at) /\ at' = at + 1
      BY <2>2 DEF DescribeCommand
    <3>2. WalkTraced(built, before, table, at, tops)
      BY <1>3, <3>1 DEF Following
    <3>3. built.code[at].op \in Opcodes /\ m.pc \notin DOMAIN built.code
      <4>1. Prepared
        BY <1>2 DEF FollowingInv, DescribingInv, RunInPlace
      <4>2. ~(m.pc <= Len(built.code))
        BY <1>2, <3>1 DEF FollowingInv, DescribingInv, RunInPlace
      <4>3. Len(built.code) \in Nat /\ DOMAIN built.code = 1 .. Len(built.code)
        BY <4>1 DEF Prepared, Certifies
      <4>4. built.code[at].op \in Opcodes
        BY <3>1, <4>1 DEF Prepared, Certifies
      <4> QED
        BY <4>2, <4>3, <4>4
    <3>4. /\ Loud(built.code[at]) => IsEffect(built, at)
          /\ IsEffect(built, at) => Loud(built.code[at]) /\ Operands(built.code[at]) = <<>>
      BY <1>2, <3>1 DEF FollowingInv, DescribingInv, Marked, Alone
    <3> DEFINE r == table'
    <3>5. r = DescribeStep(built, table, at)
      BY <3>1
    <3> HIDE DEF r
    <3>6. WalkTraced(built, before, r, at + 1, tops)
      BY <1>4, <3>1, <3>2, <3>3, <3>4, <3>5, WalkStep
    <3> QED
      BY <3>1, <3>6 DEF r
  <2>3. CASE EndDescription
    <3>1. phase = "describing" /\ table' = table /\ at' = at
      BY <2>3 DEF EndDescription
    <3> QED
      BY <1>3, <3>1 DEF Following
  <2> QED
    BY <2>1, <2>2, <2>3
<1>6. Following(before)'
  BY <1>1, <1>4, <1>5 DEF Following
<1> QED
  BY <1>6

LEMMA FollowingInvStep ==
  ASSUME FollowingInv, Certified, EffectsStandAlone, DescriptionNext
  PROVE  FollowingInv'
<1>1. DescribingInv'
  BY DescribingInvStep DEF FollowingInv, EffectsStandAlone
<1>2. Begun' => Alone'
  <2>1. (Begun' => Begun \/ phase = "ready") /\ built' = built
    BY DescribingKeepsRun DEF FollowingInv, DescribingInv
  <2>2. Begun \/ phase = "ready" => Alone
    BY DEF FollowingInv, EffectsStandAlone, EffectsTakeNothing, Alone
  <2> QED
    BY <2>1, <2>2 DEF Alone
<1>3. ASSUME Begun', m'.err = NoError
      PROVE  \E before : Following(before)'
  <2>1. CASE BeginDescription \/ DescribeCommand \/ EndDescription
    <3>1. m' = m
      BY <2>1 DEF BeginDescription, DescribeCommand, EndDescription
    <3> QED
      BY <1>3, <2>1, <3>1, DescriptionIsTraced
  <2>2. CASE Prepare \/ RunStep
    <3>1. RunNext /\ UNCHANGED <<table, at>> /\ (Step \/ UNCHANGED tops)
      BY <2>2 DEF Prepare, RunStep, RunNext
    <3>2. Step => tops' = IF m'.err = NoError /\ m'.stack # <<>>
                          THEN [k \in DOMAIN tops \union {m.pc} |-> IF k = m.pc THEN Last(m'.stack) ELSE tops[k]]
                          ELSE tops
      <4>1. Step => ~Begin /\ ~End
        BY DEF Step, Running, Begin, End
      <4>2. Step => RunStep
        BY <2>2, <4>1 DEF Prepare
      <4> QED
        BY <4>2 DEF RunStep
    <3> QED
      BY <1>3, <3>1, <3>2, RunIsTraced
  <2> QED
    BY <2>1, <2>2 DEF DescriptionNext
<1> QED
  BY <1>1, <1>2, <1>3 DEF FollowingInv

LEMMA FollowingInvStays ==
  ASSUME FollowingInv, UNCHANGED describedVars
  PROVE  FollowingInv'
<1>1. DescribingInv'
  BY DescribingInvStays DEF FollowingInv
<1>2. Alone' = Alone /\ Begun' = Begun /\ m' = m
  BY DEF describedVars, Alone, Begun
<1>3. ASSUME Begun, m.err = NoError
      PROVE  \E before : Following(before)'
  <2>1. PICK before : Following(before)
    BY <1>3 DEF FollowingInv
  <2>2. Following(before)'
    BY <2>1 DEF Following, describedVars
  <2> QED
    BY <2>2
<1> QED
  BY <1>1, <1>2, <1>3 DEF FollowingInv

LEMMA FollowingInvInit == DescriptionInit => FollowingInv
<1> SUFFICES ASSUME DescriptionInit
             PROVE  FollowingInv
  OBVIOUS
<1>1. DescribingInv
  BY DescribingInvInit
<1>2. phase \in {"ready", "rejected"}
  BY DEF DescriptionInit, RunInit
<1> QED
  BY <1>1, <1>2 DEF FollowingInv, Begun

\* A description says what the run did: if the script came to its end, the walk
\* does too, effects left out and all, and the value it gives a node is one
\* the node's own command left on the stack (container::describe).
THEOREM DescriptionIsOfTheRun == DescriptionSpec /\ []Certified /\ []EffectsStandAlone => []DescribedAsRun
<1>1. FollowingInv /\ Certified /\ EffectsStandAlone /\ [DescriptionNext]_describedVars => FollowingInv'
  BY FollowingInvStep, FollowingInvStays
<1>2. FollowingInv => DescribedAsRun
  <2> SUFFICES ASSUME FollowingInv, phase = "described", m.err = NoError
               PROVE  /\ ~table.stopped
                      /\ \A n \in DOMAIN built.descs :
                           table.table[n].has =>
                             \E k \in {built.descs[n].start, built.descs[n].index} \intersect DOMAIN tops :
                               table.table[n].value = tops[k]
    BY DEF DescribedAsRun
  <2>1. PICK before : Following(before)
    BY DEF FollowingInv, Begun
  <2>2. WalkTraced(built, before, table, at, tops)
    BY <2>1 DEF Following
  <2> QED
    BY <2>2 DEF WalkTraced, ToldBy
<1> QED
  BY <1>1, <1>2, FollowingInvInit, PTL DEF DescriptionSpec
=============================================================================
