-------------------------- MODULE ListPipelineProofs -------------------------
(***************************************************************************)
(* Proofs about ListPipeline, for every program, every set of bodies and   *)
(* whatever lists the scripts they execute need.                           *)
(***************************************************************************)
EXTENDS ListPipeline, SequenceTheorems, FiniteSetTheorems, NaturalFacts, TLAPS

-----------------------------------------------------------------------------
(* Compilation *)

\* What the compiler is given of a body.
LEMMA BodyFacts ==
  ASSUME NEW c \in DOMAIN Callbacks
  PROVE  /\ \A v \in Elements : Callbacks[c].of[v] \in Elements
         /\ Callbacks[c].in \in MaybeType /\ Callbacks[c].out \in MaybeType
         /\ Callbacks[c].adds = Nothing \/ Callbacks[c].adds \in Lists
         /\ Frames(Callbacks[c]) \in Nat
  BY CallbacksAssumption DEF CallbacksAssumption, MaybeType

\* An operation whose kind takes a body has one.
LEMMA OperationFacts ==
  ASSUME NEW op \in Operations
  PROVE  /\ op.kind \in Kinds /\ op.f \in DOMAIN Callbacks \union {Nothing} /\ op.def \in MaybeType
         /\ op.kind \in WithCallback => op.f \in DOMAIN Callbacks
  BY DEF Operations

\* A rejected program keeps its shape, and what it was rejected for.
LEMMA RejectFacts ==
  ASSUME NEW b \in Built, NEW why \in Reasons
  PROVE  /\ Reject(b, why) \in Built
         /\ Reject(b, why).code = b.code /\ Reject(b, why).child = b.child
         /\ Reject(b, why).err # Nothing
<1>1. why # Nothing
  BY DEF Reasons, Nothing
<1> QED
  BY <1>1 DEF Reject, Built

\* What a step of the compiler may make of `b`: the same commands, no less
\* room, and it accepts nothing that was not accepted before.
Follows(r, b) ==
  /\ r \in Built /\ r.code = b.code /\ r.child >= b.child
  /\ r.err = Nothing => b.err = Nothing

\* A rejected program follows.
LEMMA RejectFollows ==
  ASSUME NEW b \in Built, NEW why \in Reasons
  PROVE  Follows(Reject(b, why), b) /\ Reject(b, why).err # Nothing
<1>1. b.child \in Nat
  BY DEF Built
<1>2. b.child >= b.child
  BY <1>1
<1>3. /\ Reject(b, why) \in Built
      /\ Reject(b, why).code = b.code /\ Reject(b, why).child = b.child
      /\ Reject(b, why).err # Nothing
  BY RejectFacts, Zenon
<1> QED
  BY <1>2, <1>3, Zenon DEF Follows

\* add_to follows, and makes room for nothing.
LEMMA AddedTypeFacts ==
  ASSUME NEW b \in Built, NEW l \in Lists, NEW t \in MaybeType
  PROVE  Follows(AddedType(b, l, t), b) /\ AddedType(b, l, t).child = b.child
<1> DEFINE typed == [b EXCEPT !.types[l] = t]
<1>1. AddedType(b, l, t) \in {typed, Reject(b, "element_type")}
  BY DEF AddedType
<1>2. Follows(typed, b) /\ typed.child = b.child
  BY DEF Built, Follows
<1>3. Follows(Reject(b, "element_type"), b) /\ Reject(b, "element_type").child = b.child
  BY RejectFollows, RejectFacts DEF Reasons
<1> QED
  BY <1>1, <1>2, <1>3, Zenon

\* So does the add_to of a body.
LEMMA BodyAddsFacts ==
  ASSUME NEW b \in Built, NEW c \in DOMAIN Callbacks, NEW t \in MaybeType
  PROVE  Follows(BodyAdds(b, Callbacks[c], t), b) /\ BodyAdds(b, Callbacks[c], t).child = b.child
<1> DEFINE a == Callbacks[c].adds
<1>1. ElementType(t) \in MaybeType
  BY DEF ElementType, MaybeType
<1>2. Follows(b, b)
  <2>1. b.child \in Nat
    BY DEF Built
  <2> QED
    BY <2>1 DEF Follows
<1>3. CASE a = Nothing
  BY <1>2, <1>3 DEF BodyAdds
<1>4. CASE a # Nothing
  <2>1. a \in Lists
    BY <1>4, BodyFacts
  <2>2. BodyAdds(b, Callbacks[c], t) = AddedType(b, a, ElementType(t))
    BY <1>4 DEF BodyAdds
  <2> HIDE DEF a
  <2> QED
    BY <1>1, <2>1, <2>2, AddedTypeFacts
<1> QED
  BY <1>3, <1>4

\* compile_value_section keeps the shape of what is built; what it accepts
\* leaves its list alone, has its frames counted, and is the test it should be.
LEMMA ValueSectionFacts ==
  ASSUME NEW b \in Built, NEW op \in Operations, op.kind \in WithCallback, NEW l \in Lists
  PROVE  /\ Follows(ValueSection(b, op, l), b)
         /\ ValueSection(b, op, l).err = Nothing =>
              /\ Callbacks[op.f].adds # l
              /\ Frames(Callbacks[op.f]) <= ValueSection(b, op, l).child
              /\ CallbackExpected(op.kind) = "bool" => Callbacks[op.f].out = "bool"
<1> DEFINE f == Callbacks[op.f]
           t == TypeAfter(op, b.types[l])
           added == BodyAdds(b, f, b.types[l])
           n == IF Frames(f) > added.child THEN Frames(f) ELSE added.child
           sound == [added EXCEPT !.types[l] = t, !.child = n]
<1>1. op.f \in DOMAIN Callbacks
  BY OperationFacts
<1>2. f.in \in MaybeType /\ f.out \in MaybeType /\ Frames(f) \in Nat
  BY <1>1, BodyFacts
<1>3. b.types[l] \in MaybeType
  BY DEF Built
<1>4. Follows(added, b) /\ added.child = b.child /\ added \in Built
  BY <1>1, <1>3, BodyAddsFacts DEF Follows
<1>5. t \in MaybeType
  BY <1>2, <1>3 DEF TypeAfter
<1>6. n \in Nat /\ n >= b.child /\ n >= Frames(f)
  <2>1. ASSUME NEW m \in Nat, NEW c \in Nat
        PROVE  LET x == IF m > c THEN m ELSE c IN x \in Nat /\ x >= c /\ x >= m
    OBVIOUS
  <2>2. b.child \in Nat
    BY DEF Built
  <2> HIDE DEF added
  <2> QED
    BY <1>2, <1>4, <2>1, <2>2
<1>7. sound \in Built /\ sound.code = b.code /\ sound.child = n /\ sound.err = added.err
  <2> HIDE DEF t, n, added
  <2> QED
    BY <1>4, <1>5, <1>6 DEF Built, Follows
<1>8. CASE l \in {f.adds} \union f.binds
  <2>1. ValueSection(b, op, l) = Reject(b, "changed_inside")
    BY <1>8 DEF ValueSection
  <2> QED
    BY <2>1, RejectFollows DEF Reasons
<1>9. CASE l \notin {f.adds} \union f.binds
  <2>1. \/ ValueSection(b, op, l) \in {Reject(b, "scope"), Reject(b, "body_type")}
        \/ ValueSection(b, op, l) = sound /\ (CallbackExpected(op.kind) = "bool" => f.out = "bool")
    BY <1>9 DEF ValueSection
  <2>2. CASE ValueSection(b, op, l) = sound /\ (CallbackExpected(op.kind) = "bool" => f.out = "bool")
    <3> HIDE DEF sound, n, added
    <3>1. f.adds # l
      BY <1>9
    <3>2. Follows(sound, b) /\ Frames(f) <= sound.child
      BY <1>2, <1>4, <1>6, <1>7 DEF Follows
    <3> QED
      BY <2>2, <3>1, <3>2
  <2>3. CASE ValueSection(b, op, l) = Reject(b, "scope")
    BY <2>3, RejectFollows DEF Reasons
  <2>4. CASE ValueSection(b, op, l) = Reject(b, "body_type")
    BY <2>4, RejectFollows DEF Reasons
  <2> QED
    BY <2>1, <2>2, <2>3, <2>4
<1> QED
  BY <1>8, <1>9

\* compile_default_section follows and makes room for nothing.
LEMMA DefaultSectionFacts ==
  ASSUME NEW b \in Built, NEW op, NEW l \in Lists
  PROVE  Follows(DefaultSection(b, op, l), b)
<1>1. b.child \in Nat
  BY DEF Built
<1>2. DefaultSection(b, op, l) \in {Reject(b, "requires_default"), Reject(b, "default_type"), b}
  BY DEF DefaultSection
<1>3. Follows(b, b)
  BY <1>1 DEF Follows
<1> QED
  BY <1>2, <1>3, RejectFollows DEF Reasons

\* A command for `op` on list `l` is one of a sound program with this room.
Fits(c, op, l, end, room) ==
  /\ c \in Commands
  /\ c.kind = op.kind /\ c.f = op.f /\ c.list = l /\ c.end = end
  /\ op.kind \in WithCallback =>
       /\ Callbacks[op.f].adds # l /\ Frames(Callbacks[op.f]) <= room
       /\ CallbackExpected(op.kind) = "bool" => Callbacks[op.f].out = "bool"

\* An operation that is compiled adds one command, sound if it is accepted.
LEMMA WithOpFacts ==
  ASSUME NEW b \in Built, NEW op \in Operations, NEW stmt \in Statements, NEW end \in Nat
  PROVE  /\ WithOp(b, op, stmt, end) \in Built
         /\ WithOp(b, op, stmt, end).child >= b.child
         /\ WithOp(b, op, stmt, end).err = Nothing =>
              /\ b.err = Nothing
              /\ \E c \in Commands :
                   /\ WithOp(b, op, stmt, end).code = Append(b.code, c)
                   /\ Fits(c, op, stmt.list, end, WithOp(b, op, stmt, end).child)
<1> DEFINE l == stmt.list
           valued == IF op.kind \in WithCallback THEN ValueSection(b, op, l)
                     ELSE IF op.kind = "add_to" THEN AddedType(b, l, op.def) ELSE b
           done == IF op.kind \in NeedsDefault THEN DefaultSection(valued, op, l) ELSE valued
           input == IF op.kind = "add_to" THEN done.types[l] ELSE b.types[l]
           c == [kind |-> op.kind, f |-> op.f, def |-> op.def, list |-> l,
                 input |-> input, cond |-> stmt.cond, end |-> end]
           last == op.kind \in Reducers
           full == [done EXCEPT !.reduced = last, !.code = Append(@, c)]
<1>1. l \in Lists /\ stmt.cond \in BOOLEAN
  BY DEF Statements
<1>2. Follows(b, b)
  <2>1. b.child \in Nat
    BY DEF Built
  <2> QED
    BY <2>1 DEF Follows
<1>3. Follows(valued, b)
  <2>1. op.def \in MaybeType
    BY OperationFacts
  <2> QED
    BY <1>1, <1>2, <2>1, ValueSectionFacts, AddedTypeFacts
<1>4. op.kind \in WithCallback /\ valued.err = Nothing =>
        /\ Callbacks[op.f].adds # l /\ Frames(Callbacks[op.f]) <= valued.child
        /\ CallbackExpected(op.kind) = "bool" => Callbacks[op.f].out = "bool"
  BY <1>1, ValueSectionFacts
<1>5. Follows(done, valued)
  <2> HIDE DEF valued
  <2>1. valued \in Built
    BY <1>3 DEF Follows
  <2>2. Follows(DefaultSection(valued, op, l), valued)
    BY <1>1, <2>1, DefaultSectionFacts
  <2>3. Follows(valued, valued)
    <3>1. valued.child \in Nat
      BY <2>1 DEF Built
    <3> QED
      BY <2>1, <3>1 DEF Follows
  <2> QED
    BY <2>2, <2>3
<1>6. /\ done \in Built /\ done.code = b.code /\ done.child >= b.child
      /\ done.err = Nothing => b.err = Nothing
  <2> HIDE DEF valued, done
  <2>1. b.child \in Nat /\ valued.child \in Nat /\ done.child \in Nat
    BY <1>3, <1>5 DEF Follows, Built
  <2> QED
    BY <1>3, <1>5, <2>1 DEF Follows
<1>7. op.kind \in WithCallback /\ done.err = Nothing =>
        /\ Callbacks[op.f].adds # l /\ Frames(Callbacks[op.f]) <= done.child
        /\ CallbackExpected(op.kind) = "bool" => Callbacks[op.f].out = "bool"
  <2> HIDE DEF valued, done
  <2> SUFFICES ASSUME op.kind \in WithCallback, done.err = Nothing
               PROVE  /\ Callbacks[op.f].adds # l /\ Frames(Callbacks[op.f]) <= done.child
                      /\ CallbackExpected(op.kind) = "bool" => Callbacks[op.f].out = "bool"
    OBVIOUS
  <2>1. /\ Callbacks[op.f].adds # l /\ Frames(Callbacks[op.f]) <= valued.child
        /\ CallbackExpected(op.kind) = "bool" => Callbacks[op.f].out = "bool"
    BY <1>4, <1>5 DEF Follows
  <2>2. Frames(Callbacks[op.f]) \in Nat
    BY OperationFacts, BodyFacts
  <2>3. valued.child \in Nat /\ done.child \in Nat /\ done.child >= valued.child
    BY <1>3, <1>5 DEF Follows, Built
  <2> QED
    BY <2>1, <2>2, <2>3
<1>8. c \in Commands
  <2> HIDE DEF done
  <2>1. input \in MaybeType
    BY <1>1, <1>6 DEF Built
  <2> HIDE DEF input
  <2>2. op.kind \in Kinds /\ op.f \in DOMAIN Callbacks \union {Nothing} /\ op.def \in MaybeType
    BY OperationFacts
  <2> QED
    BY <1>1, <2>1, <2>2 DEF Commands
<1>9. /\ full \in Built /\ full.child = done.child /\ full.err = done.err
      /\ full.code = Append(b.code, c)
  <2> HIDE DEF done, c
  <2>1. Append(b.code, c) \in Seq(Commands)
    BY <1>8 DEF Built
  <2>2. last \in BOOLEAN
    OBVIOUS
  <2> HIDE DEF last
  <2> QED
    BY <1>6, <2>1, <2>2 DEF Built
<1>10. CASE b.reduced
  <2>1. WithOp(b, op, stmt, end) = Reject(b, "reducer_last")
    BY <1>10 DEF WithOp
  <2>2. Follows(Reject(b, "reducer_last"), b) /\ Reject(b, "reducer_last").err # Nothing
    BY RejectFollows DEF Reasons
  <2> QED
    BY <2>1, <2>2 DEF Follows
<1>11. CASE ~b.reduced
  <2>1. WithOp(b, op, stmt, end) = full
    BY <1>11 DEF WithOp
  <2> HIDE DEF full, done
  <2>2. c.kind = op.kind /\ c.f = op.f /\ c.list = l /\ c.end = end
    OBVIOUS
  <2> HIDE DEF c
  <2>3. full.err = Nothing => Fits(c, op, l, end, full.child)
    BY <1>7, <1>8, <1>9, <2>2 DEF Fits
  <2> QED
    BY <1>6, <1>8, <1>9, <2>1, <2>3
<1> QED
  BY <1>10, <1>11

\* With one operation less to come, a sound program stays one.
LEMMA AppendedSound ==
  ASSUME NEW b \in Built, NEW r \in Built, NEW op \in Operations, NEW l, NEW c \in Commands, NEW left \in Nat,
         r.code = Append(b.code, c), r.child >= b.child,
         Fits(c, op, l, Len(b.code) + left + 1, r.child),
         \A k \in DOMAIN b.code : Sound(b.code[k], b.child, Len(b.code) + left + 1)
  PROVE  \A k \in DOMAIN r.code : Sound(r.code[k], r.child, Len(r.code) + (left - 1) + 1)
<1> DEFINE n == Len(b.code)
           last == n + left + 1
<1>1. b.code \in Seq(Commands) /\ b.child \in Nat /\ r.child \in Nat
  BY DEF Built
<1>2. n \in Nat /\ last \in Nat /\ DOMAIN b.code = 1 .. n
  BY <1>1
<1>3. /\ Len(r.code) = n + 1 /\ DOMAIN r.code = 1 .. (n + 1)
      /\ r.code[n + 1] = c /\ \A k \in 1 .. n : r.code[k] = b.code[k]
  BY <1>1
<1>4. Len(r.code) + (left - 1) + 1 = last
  BY <1>2, <1>3
<1>5. last \in 1 .. last
  BY <1>2
<1> HIDE DEF n, last
<1>6. ASSUME NEW k \in 1 .. n
      PROVE  Sound(r.code[k], r.child, last)
  <2> DEFINE d == b.code[k]
  <2>1. Sound(d, b.child, last)
    BY <1>2 DEF n, last
  <2>2. r.code[k] = d
    BY <1>3
  <2> HIDE DEF d
  <2>3. d.kind \in WithCallback => d.f \in DOMAIN Callbacks /\ Frames(Callbacks[d.f]) \in Nat
    BY <2>1, BodyFacts DEF Sound
  <2> QED
    BY <1>1, <2>1, <2>2, <2>3 DEF Sound
<1>7. Sound(c, r.child, last)
  <2>1. op.kind \in WithCallback => op.f \in DOMAIN Callbacks
    BY OperationFacts
  <2>2. Fits(c, op, l, last, r.child)
    BY DEF n, last
  <2> QED
    BY <1>5, <2>1, <2>2 DEF Fits, Sound
<1>8. \A k \in 1 .. (n + 1) : k \in 1 .. n \/ k = n + 1
  BY <1>2
<1> QED
  BY <1>3, <1>4, <1>6, <1>7, <1>8

-----------------------------------------------------------------------------
(* The invariant *)

\* A program that is about to be compiled.
LEMMA InitInv == Init => PipelineInv
<1> SUFFICES ASSUME Init PROVE PipelineInv
  OBVIOUS
<1> USE DEF Init
<1>1. todo \in Seq(Statements)
  BY ProgramsAssumption
<1>2. built \in Built
  <2>1. Nothing \in MaybeType
    BY DEF MaybeType
  <2> QED
    BY <2>1 DEF Built
<1>3. TypeOK
  BY <1>2 DEF TypeOK, AtOp
<1>4. was \in Seq(Items) /\ acc \in Locals /\ ~acc.moved
  BY DEF NoLocals, Locals
<1>5. CodeSound /\ Staged /\ HalfWay
  BY DEF CodeSound, Staged, HalfWay
<1> QED
  BY <1>1, <1>2, <1>3, <1>4, <1>5 DEF PipelineInv

\* Before a program runs only what is compiled matters.
LEMMA AsideInv ==
  ASSUME PipelineInv, status \in {"compiling", "ready", "rejected"},
         status' \in {"compiling", "ready", "running", "rejected"},
         UNCHANGED <<pc, i, acc, was>>,
         lists' \in [Lists -> Seq(Items)],
         todo' \in Seq(Statements), built' \in Built, CodeSound', Staged'
  PROVE  PipelineInv'
<1>1. pc = 1 /\ i = 0
  BY DEF PipelineInv, Staged
<1>2. TypeOK'
  <2>1. Len(built'.code) \in Nat
    BY DEF Built
  <2> QED
    BY <1>1, <2>1 DEF TypeOK, AtOp
<1>3. HalfWay'
  BY <1>1 DEF HalfWay
<1> QED
  BY <1>2, <1>3 DEF PipelineInv

\* An operation is compiled.
LEMMA CompileOpInv ==
  ASSUME PipelineInv, CompileOp
  PROVE  PipelineInv'
<1> DEFINE stmt == Head(todo)
           op == Head(stmt.ops)
           rest == [stmt EXCEPT !.ops = Tail(@), !.cond = FALSE]
           end == StatementEnd(built, stmt)
<1>1. /\ built \in Built /\ todo \in Seq(Statements) /\ todo # <<>> /\ stmt.ops # <<>>
      /\ built.err = Nothing /\ status = "compiling" /\ status' = "compiling"
      /\ UNCHANGED <<pc, i, acc, was, lists>>
  BY DEF PipelineInv, CompileOp, Compiling
<1>2. stmt \in Statements /\ stmt.ops \in Seq(Operations) /\ op \in Operations
  <2>1. stmt \in Statements
    BY <1>1, HeadTailProperties
  <2> HIDE DEF stmt
  <2>2. stmt.ops \in Seq(Operations)
    BY <2>1 DEF Statements
  <2> QED
    BY <1>1, <2>1, <2>2, HeadTailProperties
<1>3. end = Len(built.code) + Len(stmt.ops) + 1 /\ Len(built.code) \in Nat /\ Len(stmt.ops) \in Nat /\ end \in Nat
  BY <1>1, <1>2 DEF StatementEnd, Built
<1>4. built' = WithOp(built, op, stmt, end)
  BY DEF CompileOp
<1>5. todo' = <<rest>> \o Tail(todo)
  BY DEF CompileOp
<1>6. rest \in Statements /\ rest.ops = Tail(stmt.ops) /\ Len(Tail(stmt.ops)) = Len(stmt.ops) - 1
  <2> HIDE DEF stmt
  <2>1. Tail(stmt.ops) \in Seq(Operations) /\ Len(Tail(stmt.ops)) = Len(stmt.ops) - 1
    BY <1>1, <1>2, HeadTailProperties
  <2> QED
    BY <1>2, <2>1 DEF Statements
<1>7. todo' \in Seq(Statements) /\ todo' # <<>> /\ Head(todo') = rest
  <2> HIDE DEF rest
  <2>1. Tail(todo) \in Seq(Statements)
    BY <1>1
  <2> QED
    BY <1>5, <1>6, <2>1
<1>8. Coming = Len(stmt.ops) /\ Coming' = Len(stmt.ops) - 1
  <2>1. Coming = Len(stmt.ops)
    BY <1>1 DEF Coming
  <2>2. Coming' = Len(Head(todo').ops)
    BY <1>7 DEF Coming
  <2>3. Len(Head(todo').ops) = Len(Tail(stmt.ops))
    <3> HIDE DEF rest, stmt
    <3> QED
      BY <1>6, <1>7
  <2> HIDE DEF stmt
  <2> QED
    BY <1>6, <2>1, <2>2, <2>3
<1>9. built' \in Built
  <2> HIDE DEF op, stmt, end
  <2> QED
    BY <1>1, <1>2, <1>3, <1>4, WithOpFacts
<1>10. CodeSound'
  <2> HIDE DEF stmt, op, rest, end
  <2> SUFFICES ASSUME built'.err = Nothing
               PROVE  \A k \in DOMAIN built'.code : Sound(built'.code[k], built'.child, Len(built'.code) + Coming' + 1)
    BY DEF CodeSound
  <2>1. /\ built'.child >= built.child
        /\ \E c \in Commands : built'.code = Append(built.code, c) /\ Fits(c, op, stmt.list, end, built'.child)
    BY <1>1, <1>2, <1>3, <1>4, WithOpFacts
  <2>2. PICK c \in Commands : built'.code = Append(built.code, c) /\ Fits(c, op, stmt.list, end, built'.child)
    BY <2>1
  <2> DEFINE left == Len(stmt.ops)
  <2>3. left \in Nat /\ end = Len(built.code) + left + 1
    BY <1>3
  <2>4. Coming = left /\ Coming' = left - 1
    BY <1>8
  <2> HIDE DEF left
  <2>5. \A k \in DOMAIN built.code : Sound(built.code[k], built.child, Len(built.code) + left + 1)
    BY <1>1, <2>4 DEF PipelineInv, CodeSound
  <2>6. \A k \in DOMAIN built'.code : Sound(built'.code[k], built'.child, Len(built'.code) + (left - 1) + 1)
    BY <1>1, <1>2, <1>9, <2>1, <2>2, <2>3, <2>5, AppendedSound
  <2> QED
    BY <2>4, <2>6
<1>11. Staged'
  BY <1>1 DEF PipelineInv, Staged
<1>12. lists' \in [Lists -> Seq(Items)]
  BY <1>1 DEF PipelineInv, TypeOK
<1> HIDE DEF stmt, op, rest, end
<1> QED
  BY <1>1, <1>7, <1>9, <1>10, <1>11, <1>12, AsideInv

\* A statement is compiled, and the next begins.
LEMMA CompileStatementInv ==
  ASSUME PipelineInv, CompileStatement
  PROVE  PipelineInv'
<1>1. /\ built \in Built /\ todo \in Seq(Statements) /\ todo # <<>> /\ Head(todo).ops = <<>>
      /\ built' = [built EXCEPT !.reduced = FALSE] /\ todo' = Tail(todo)
      /\ status = "compiling" /\ status' = "compiling" /\ UNCHANGED <<pc, i, acc, was, lists>>
  BY DEF PipelineInv, CompileStatement, Compiling
<1>2. todo' \in Seq(Statements)
  BY <1>1
<1>3. /\ built' \in Built /\ built'.code = built.code /\ built'.child = built.child /\ built'.err = built.err
  BY <1>1 DEF Built
<1>4. Coming = 0 /\ Coming' \in Nat
  <2>1. todo' # <<>> => Head(todo') \in Statements
    BY <1>2, HeadTailProperties
  <2>2. todo' # <<>> => Head(todo').ops \in Seq(Operations)
    BY <2>1 DEF Statements
  <2> QED
    BY <1>1, <2>2 DEF Coming
<1>5. CodeSound'
  <2> SUFFICES ASSUME built.err = Nothing, NEW k \in DOMAIN built.code
               PROVE  Sound(built.code[k], built.child, Len(built.code) + Coming' + 1)
    BY <1>3 DEF CodeSound
  <2>1. Sound(built.code[k], built.child, Len(built.code) + Coming + 1)
    BY DEF PipelineInv, CodeSound
  <2>2. Len(built.code) \in Nat
    BY <1>1 DEF Built
  <2> QED
    BY <1>4, <2>1, <2>2 DEF Sound
<1>6. Staged'
  BY <1>1 DEF PipelineInv, Staged
<1>7. lists' \in [Lists -> Seq(Items)]
  BY <1>1 DEF PipelineInv, TypeOK
<1> QED
  BY <1>1, <1>2, <1>3, <1>5, <1>6, <1>7, AsideInv

\* What is compiled does not change any more.
LEMMA SameCode ==
  ASSUME CodeSound, UNCHANGED <<todo, built>>
  PROVE  CodeSound'
BY DEF CodeSound, Coming

\* The compilation ends.
LEMMA EndCompilationInv ==
  ASSUME PipelineInv, EndCompilation
  PROVE  PipelineInv'
<1>1. /\ built \in Built /\ todo \in Seq(Statements) /\ lists \in [Lists -> Seq(Items)]
      /\ UNCHANGED <<todo, built, lists, pc, i, acc, was>> /\ status = "compiling"
      /\ status' \in {"ready", "rejected"}
  BY DEF PipelineInv, EndCompilation, TypeOK
<1>2. CodeSound'
  BY <1>1, SameCode DEF PipelineInv
<1>3. Staged'
  <2>1. status' = "ready" => built.err = Nothing /\ todo = <<>>
    BY <1>1 DEF EndCompilation, Compiling
  <2> QED
    BY <1>1, <2>1 DEF PipelineInv, Staged
<1> QED
  BY <1>1, <1>2, <1>3, AsideInv

\* The lists are made and the run begins.
LEMMA RunInv ==
  ASSUME PipelineInv, Run
  PROVE  PipelineInv'
<1>1. /\ built \in Built /\ todo \in Seq(Statements)
      /\ lists' = [l \in Lists |-> <<>>] /\ cap' = MaxLists(built)
      /\ UNCHANGED <<todo, built, pc, i, acc, was>> /\ status = "ready" /\ status' = "running"
  BY DEF PipelineInv, Run
<1>2. CodeSound'
  BY <1>1, SameCode DEF PipelineInv
<1>3. Staged'
  BY <1>1 DEF PipelineInv, Staged, MaxLists
<1>4. lists' \in [Lists -> Seq(Items)]
  BY <1>1
<1> QED
  BY <1>1, <1>2, <1>3, <1>4, AsideInv

\* What is known of the operation that runs.
LEMMA AtOpFacts ==
  ASSUME PipelineInv, AtOp
  PROVE  /\ built \in Built /\ status = "running"
         /\ pc \in 1 .. Len(built.code) /\ DOMAIN built.code = 1 .. Len(built.code) /\ Len(built.code) \in Nat
         /\ Op \in Commands /\ Op.list \in Lists
         /\ lists[Op.list] \in Seq(Items) /\ lists \in [Lists -> Seq(Items)]
         /\ Op.end \in 1 .. (Len(built.code) + 1)
         /\ Op.kind \in WithCallback =>
              /\ Op.f \in DOMAIN Callbacks
              /\ Callbacks[Op.f].adds # Op.list
              /\ Frames(Callbacks[Op.f]) <= built.child
         /\ i > 0 => /\ Len(lists[Op.list]) = Len(was) /\ i <= Len(lists[Op.list]) + 1 /\ acc.out < i
                     /\ \A k \in DOMAIN lists[Op.list] : k >= i => lists[Op.list][k] = was[k]
                     /\ \A k \in DOMAIN lists[Op.list] : \E j \in DOMAIN was : lists[Op.list][k] = was[j]
<1>1. built \in Built /\ status = "running" /\ pc \in DOMAIN built.code /\ lists \in [Lists -> Seq(Items)]
  BY DEF PipelineInv, AtOp, TypeOK
<1>2. DOMAIN built.code = 1 .. Len(built.code) /\ Len(built.code) \in Nat /\ built.code \in Seq(Commands)
  BY <1>1 DEF Built
<1>3. Op \in Commands /\ Op.list \in Lists
  <2>1. Op \in Commands
    BY <1>1, <1>2, ElementOfSeq DEF Op
  <2> QED
    BY <2>1 DEF Commands
<1>4. built.err = Nothing /\ todo = <<>>
  BY <1>1 DEF PipelineInv, Staged
<1>5. Sound(Op, built.child, Len(built.code) + Coming + 1) /\ Coming = 0
  BY <1>1, <1>4 DEF PipelineInv, CodeSound, Op, Coming
<1>6. Sound(Op, built.child, Len(built.code) + 1)
  BY <1>2, <1>5
<1>7. i > 0 => /\ Len(lists[Op.list]) = Len(was) /\ i <= Len(lists[Op.list]) + 1 /\ acc.out < i
               /\ \A k \in DOMAIN lists[Op.list] : k >= i => lists[Op.list][k] = was[k]
               /\ \A k \in DOMAIN lists[Op.list] : \E j \in DOMAIN was : lists[Op.list][k] = was[j]
  BY <1>1 DEF PipelineInv, HalfWay
<1> QED
  BY <1>1, <1>2, <1>3, <1>6, <1>7 DEF Sound

\* A step of a run leaves what is compiled alone.
LEMMA RunningInv ==
  ASSUME PipelineInv, AtOp, UNCHANGED <<todo, built, cap>>,
         status' = "running", pc' \in 1 .. (Len(built.code) + 1), i' \in Nat,
         lists' \in [Lists -> Seq(Items)],
         was' \in Seq(Items), acc' \in Locals, ~acc'.moved, HalfWay'
  PROVE  PipelineInv'
<1>1. built' \in Built /\ todo' \in Seq(Statements)
  BY DEF PipelineInv
<1>2. CodeSound'
  BY SameCode DEF PipelineInv
<1>3. Staged'
  BY AtOpFacts DEF PipelineInv, Staged, MaxLists
<1>4. TypeOK'
  BY DEF TypeOK, HalfWay, AtOp
<1> QED
  BY <1>1, <1>2, <1>3, <1>4 DEF PipelineInv

\* The condition of a statement is false.
LEMMA SkipInv ==
  ASSUME PipelineInv, Skip
  PROVE  PipelineInv'
<1>1. AtOp /\ i = 0 /\ pc' = Op.end /\ UNCHANGED <<todo, built, cap, lists, i, acc, was, status>>
  BY DEF Skip
<1>2. pc' \in 1 .. (Len(built.code) + 1) /\ status' = "running" /\ lists' \in [Lists -> Seq(Items)]
  BY <1>1, AtOpFacts
<1>3. HalfWay'
  BY <1>1 DEF HalfWay
<1> QED
  BY <1>1, <1>2, <1>3, RunningInv DEF PipelineInv

\* An operation begins.
LEMMA BeginOpInv ==
  ASSUME PipelineInv, BeginOp
  PROVE  PipelineInv'
<1>1. /\ AtOp /\ i' = 1 /\ acc' = NoLocals /\ was' = lists[Op.list]
      /\ UNCHANGED <<todo, built, cap, lists, pc, status>>
  BY DEF BeginOp
<1>2. /\ pc' \in 1 .. (Len(built.code) + 1) /\ status' = "running" /\ lists' \in [Lists -> Seq(Items)]
      /\ was' \in Seq(Items)
  BY <1>1, AtOpFacts
<1>3. acc' \in Locals /\ ~acc'.moved /\ acc'.out = 0
  BY <1>1 DEF NoLocals, Locals
<1>4. HalfWay'
  <2>1. Op' = Op
    BY <1>1 DEF Op
  <2>2. Len(was') \in Nat
    BY <1>2
  <2> QED
    BY <1>1, <1>3, <2>1, <2>2 DEF HalfWay
<1> QED
  BY <1>1, <1>2, <1>3, <1>4, RunningInv

\* No body moves the lists: there was room for its frames from the start.
LEMMA NoMove ==
  ASSUME PipelineInv, AtOp, Op.kind \in WithCallback
  PROVE  Moves(Callbacks[Op.f]) = FALSE
<1> DEFINE n == Frames(Callbacks[Op.f])
           own == Cardinality(Lists)
<1>1. n \in Nat /\ n <= built.child /\ built.child \in Nat
  BY AtOpFacts, BodyFacts DEF Built
<1>2. own \in Nat
  BY ListsAssumption, FS_CardinalityType
<1>3. cap = own + built.child
  BY AtOpFacts DEF PipelineInv, Staged, MaxLists
<1>4. ~acc.moved
  BY DEF PipelineInv
<1>5. ~(own + n > cap)
  <2> HIDE DEF own, n
  <2> QED
    BY <1>1, <1>2, <1>3
<1> QED
  BY <1>4, <1>5 DEF Moves

\* The locals after an element: filter has kept one more, or none.
LEMMA CollectFacts ==
  ASSUME PipelineInv, AtOp, Op.kind \in WithCallback, NEW r \in Elements
  PROVE  /\ Collect(Op, r) \in Locals /\ ~Collect(Op, r).moved
         /\ Collect(Op, r).out = IF Op.kind = "filter" /\ r = 1 THEN acc.out + 1 ELSE acc.out
<1> DEFINE f == Callbacks[Op.f]
           found == IF Decides(Op, r) THEN i ELSE acc.found
           out == IF Op.kind = "filter" /\ r = 1 THEN acc.out + 1 ELSE acc.out
           better == acc.n = 0 \/ (Op.kind = "min" /\ r < acc.best) \/ (Op.kind = "max" /\ r > acc.best)
           best == IF better THEN r ELSE acc.best
           tmp == IF Op.kind = "map" THEN Append(acc.tmp, [t |-> f.out, v |-> r]) ELSE acc.tmp
           moved == Moves(f)
           sum == acc.sum + r
           n == acc.n + 1
<1>1. acc \in Locals /\ i \in Nat /\ r \in Int /\ Op.f \in DOMAIN Callbacks
  BY ElementsAssumption, AtOpFacts DEF PipelineInv, TypeOK
<1>2. /\ acc.found \in Nat /\ acc.out \in Nat /\ acc.sum \in Int /\ acc.best \in Int /\ acc.n \in Nat
      /\ acc.tmp \in Seq(Items)
  BY <1>1 DEF Locals
<1>3. found \in Nat /\ out \in Nat /\ best \in Int /\ sum \in Int /\ n \in Nat
  BY <1>1, <1>2
<1>4. tmp \in Seq(Items)
  <2>1. [t |-> f.out, v |-> r] \in Items
    BY <1>1, BodyFacts DEF Items
  <2> QED
    BY <1>2, <2>1, AppendProperties
<1>5. moved = FALSE
  BY NoMove
<1>6. Collect(Op, r) = [acc EXCEPT !.moved = moved, !.found = found, !.out = out, !.sum = sum, !.n = n,
                                   !.best = best, !.tmp = tmp]
  BY <1>1 DEF Collect, Locals
<1> HIDE DEF found, out, better, best, tmp, moved, sum, n
<1>7. Collect(Op, r) \in Locals /\ Collect(Op, r).moved = FALSE /\ Collect(Op, r).out = out
  BY <1>1, <1>3, <1>4, <1>5, <1>6 DEF Locals
<1> QED
  BY <1>7 DEF out

\* `new` is as long as `now`, has nothing else, and is the same beyond `n`.
Keeps(new, now, n) ==
  /\ Len(new) = Len(now)
  /\ \A k \in DOMAIN now : k > n => new[k] = now[k]
  /\ \A k \in DOMAIN now : \E j \in DOMAIN now : new[k] = now[j]

\* filter writes an element it keeps no further back than where it stands:
\* its list keeps its length, its elements, and all of it that is to come.
LEMMA CompactedFacts ==
  ASSUME PipelineInv, Looping, NEW r
  PROVE  /\ Compacted(Op, lists[Op.list][i], r) \in [Lists -> Seq(Items)]
         /\ Keeps(Compacted(Op, lists[Op.list][i], r)[Op.list], lists[Op.list], i)
<1> DEFINE now == lists[Op.list]
           kept == Compacted(Op, now[i], r)
           at == acc.out + 1
<1>1. /\ lists \in [Lists -> Seq(Items)] /\ now \in Seq(Items) /\ Op.list \in Lists
      /\ i \in 1 .. Len(now) /\ at \in 1 .. i /\ DOMAIN now = 1 .. Len(now) /\ Len(now) \in Nat
  <2>1. AtOp /\ i > 0 /\ i <= Len(now)
    BY DEF Looping
  <2>2. lists \in [Lists -> Seq(Items)] /\ now \in Seq(Items) /\ Op.list \in Lists /\ acc.out < i
    BY <2>1, AtOpFacts
  <2>3. i \in Nat /\ acc.out \in Nat
    BY DEF PipelineInv, TypeOK, Locals
  <2>4. DOMAIN now = 1 .. Len(now) /\ Len(now) \in Nat
    BY <2>2, LenProperties
  <2> HIDE DEF now
  <2> QED
    BY <2>1, <2>2, <2>3, <2>4
<1>2. CASE Op.kind = "filter" /\ r = 1
  <2> DEFINE new == [now EXCEPT ![at] = now[i]]
  <2>1. kept = [lists EXCEPT ![Op.list] = new]
    BY <1>2 DEF Compacted
  <2> HIDE DEF now, at
  <2>2. now[i] \in Items /\ at \in 1 .. Len(now)
    BY <1>1, ElementOfSeq
  <2>3. /\ new \in Seq(Items) /\ Len(new) = Len(now)
        /\ \A k \in 1 .. Len(now) : new[k] = IF k = at THEN now[i] ELSE now[k]
    BY <1>1, <2>2, ExceptSeq
  <2> HIDE DEF new, kept
  <2>4. kept \in [Lists -> Seq(Items)] /\ kept[Op.list] = new
    BY <1>1, <2>1, <2>3
  <2>5. Keeps(new, now, i)
    BY <1>1, <2>2, <2>3 DEF Keeps
  <2> QED
    BY <2>4, <2>5 DEF now, kept
<1>3. CASE ~(Op.kind = "filter" /\ r = 1)
  <2>1. kept = lists
    <3>1. kept = [lists EXCEPT ![Op.list] = lists[Op.list]]
      BY <1>3 DEF Compacted
    <3> QED
      BY <1>1, <3>1
  <2>2. Keeps(now, now, i)
    BY DEF Keeps
  <2> QED
    BY <1>1, <2>1, <2>2
<1> QED
  BY <1>2, <1>3

\* The body yields for an element, and the operation goes on.
LEMMA ElementInv ==
  ASSUME PipelineInv, Element
  PROVE  PipelineInv'
<1> DEFINE f == Callbacks[Op.f]
           now == lists[Op.list]
           item == now[i]
           r == f.of[item.v]
           kept == Compacted(Op, item, r)
<1>1. /\ Looping /\ AtOp /\ i > 0 /\ i <= Len(now) /\ Op.kind \in WithCallback
      /\ lists' = IF f.adds = Nothing THEN kept ELSE [kept EXCEPT ![f.adds] = Append(@, item)]
      /\ acc' = Collect(Op, r)
      /\ i' = IF Settled(Op, r) THEN Len(now) + 1 ELSE i + 1
      /\ UNCHANGED <<todo, built, cap, pc, was, status>>
  BY DEF Element, Looping
<1>2. /\ Op.list \in Lists /\ now \in Seq(Items) /\ Op.f \in DOMAIN Callbacks /\ f.adds # Op.list
      /\ Len(now) = Len(was) /\ acc.out < i
      /\ \A k \in DOMAIN now : k >= i => now[k] = was[k]
      /\ \A k \in DOMAIN now : \E j \in DOMAIN was : now[k] = was[j]
  BY <1>1, AtOpFacts
<1>3. i \in 1 .. Len(now) /\ Len(now) \in Nat /\ DOMAIN now = 1 .. Len(now)
  <2>1. i \in Nat
    BY DEF PipelineInv, TypeOK
  <2>2. Len(now) \in Nat /\ DOMAIN now = 1 .. Len(now)
    BY <1>2, LenProperties
  <2>3. i > 0 /\ i <= Len(now)
    BY <1>1
  <2> HIDE DEF now
  <2> QED
    BY <2>1, <2>2, <2>3
<1>4. item \in Items
  BY <1>2, <1>3, ElementOfSeq
<1>5. r \in Elements
  <2>1. item.v \in Elements
    BY <1>4 DEF Items
  <2> QED
    BY <1>2, <2>1, BodyFacts
<1>6. kept \in [Lists -> Seq(Items)] /\ Keeps(kept[Op.list], now, i)
  BY <1>1, CompactedFacts
<1>7. acc' \in Locals /\ ~acc'.moved /\ acc'.out <= acc.out + 1
  <2>1. Collect(Op, r).out \in {acc.out, acc.out + 1}
    BY <1>1, <1>5, CollectFacts
  <2>2. acc.out \in Nat
    BY DEF PipelineInv, Locals
  <2>3. Collect(Op, r) \in Locals /\ ~Collect(Op, r).moved
    BY <1>1, <1>5, CollectFacts
  <2>4. acc.out <= acc.out + 1 /\ acc.out + 1 <= acc.out + 1
    BY <2>2
  <2> HIDE DEF r
  <2> QED
    BY <1>1, <2>1, <2>3, <2>4
<1>8. lists' \in [Lists -> Seq(Items)] /\ lists'[Op.list] = kept[Op.list]
  <2> HIDE DEF kept, item
  <2>1. CASE f.adds = Nothing
    BY <1>1, <1>6, <2>1
  <2>2. CASE f.adds # Nothing
    <3> DEFINE other == f.adds
    <3>1. other \in Lists /\ other # Op.list
      BY <1>2, <2>2, BodyFacts
    <3>2. Append(kept[other], item) \in Seq(Items)
      BY <1>4, <1>6, <3>1, AppendProperties
    <3>3. lists' = [kept EXCEPT ![other] = Append(kept[other], item)]
      BY <1>1, <2>2
    <3> HIDE DEF other, now, f
    <3> QED
      BY <1>2, <1>6, <3>1, <3>2, <3>3
  <2> QED
    BY <2>1, <2>2
<1>9. i' \in Nat /\ i' > i /\ i' <= Len(now) + 1
  <2> HIDE DEF now, r
  <2> QED
    BY <1>1, <1>3
<1>10. HalfWay'
  <2>1. Op' = Op /\ was' = was
    BY <1>1 DEF Op
  <2> DEFINE new == lists'[Op.list]
  <2>2. Keeps(new, now, i)
    BY <1>6, <1>8
  <2>3. new \in Seq(Items)
    BY <1>2, <1>8
  <2> HIDE DEF now, new, kept
  <2>4. Len(new) = Len(was') /\ i' <= Len(new) + 1 /\ DOMAIN new = DOMAIN now
    BY <1>2, <1>3, <1>9, <2>1, <2>2, <2>3, LenProperties DEF Keeps
  <2>5. acc'.out < i'
    <3>1. acc.out \in Nat /\ acc'.out \in Nat /\ i \in Nat
      BY <1>7 DEF PipelineInv, Locals, TypeOK
    <3> QED
      BY <1>2, <1>7, <1>9, <3>1
  <2>6. ASSUME NEW k \in DOMAIN new
        PROVE  /\ k >= i' => new[k] = was'[k]
               /\ \E j \in DOMAIN was' : new[k] = was'[j]
    <3>1. k \in DOMAIN now /\ k \in Nat
      BY <1>3, <2>4, <2>6
    <3>2. k >= i' => k > i /\ k >= i
      BY <1>3, <1>9, <3>1
    <3>3. PICK j \in DOMAIN now : new[k] = now[j]
      BY <2>2, <3>1 DEF Keeps
    <3> QED
      BY <1>2, <2>1, <2>2, <3>1, <3>2, <3>3 DEF Keeps
  <2> QED
    BY <2>1, <2>4, <2>5, <2>6 DEF HalfWay, new
<1>11. pc' \in 1 .. (Len(built.code) + 1) /\ status' = "running" /\ was' \in Seq(Items)
  <2>1. status = "running"
    BY <1>1 DEF AtOp
  <2> QED
    BY <1>1, <2>1 DEF PipelineInv, TypeOK
<1> HIDE DEF f, now, item, r, kept
<1> QED
  BY <1>1, <1>7, <1>8, <1>9, <1>10, <1>11, RunningInv

\* The body throws; everything stays as it is.
LEMMA ElementFailsInv ==
  ASSUME PipelineInv, ElementFails
  PROVE  PipelineInv'
<1>1. /\ AtOp /\ i > 0 /\ pc \in DOMAIN built.code /\ status = "running" /\ status' = "failed"
      /\ UNCHANGED <<todo, built, cap, lists, pc, i, acc, was>>
  BY DEF ElementFails, Looping, AtOp
<1>2. CodeSound'
  BY <1>1, SameCode DEF PipelineInv
<1>3. Op' = Op
  BY <1>1 DEF Op
<1>4. TypeOK'
  BY <1>1 DEF PipelineInv, TypeOK, AtOp
<1>5. Staged'
  BY <1>1 DEF PipelineInv, Staged, MaxLists
<1>6. HalfWay'
  BY <1>1, <1>3 DEF PipelineInv, HalfWay
<1> QED
  BY <1>1, <1>2, <1>4, <1>5, <1>6 DEF PipelineInv

\* What an operation makes of its list is a list.
LEMMA WrittenFacts ==
  ASSUME PipelineInv, AtOp, i > 0, NEW v \in Values
  PROVE  Written(Op, v) \in Seq(Items)
<1> DEFINE now == lists[Op.list]
<1>1. now \in Seq(Items) /\ Op.def \in MaybeType /\ acc.tmp \in Seq(Items) /\ v \in Elements
  BY AtOpFacts, ElementsAssumption DEF PipelineInv, Locals, Commands
<1>2. Append(now, [t |-> Op.def, v |-> v]) \in Seq(Items)
  <2>1. [t |-> Op.def, v |-> v] \in Items
    BY <1>1 DEF Items
  <2> QED
    BY <1>1, <2>1, AppendProperties
<1>3. SubSeq(now, 1, acc.out) \in Seq(Items)
  <2>1. acc.out < i /\ i <= Len(now) + 1
    BY AtOpFacts
  <2>2. acc.out \in Nat /\ i \in Nat /\ Len(now) \in Nat
    BY <1>1, LenProperties DEF PipelineInv, TypeOK, Locals
  <2> HIDE DEF now
  <2>3. \A k \in 1 .. acc.out : now[k] \in Items
    <3>1. \A k \in 1 .. acc.out : k \in 1 .. Len(now)
      BY <2>1, <2>2
    <3> QED
      BY <1>1, <3>1, ElementOfSeq
  <2> QED
    BY <2>2, <2>3, SubSeqProperties
<1>4. <<>> \in Seq(Items)
  OBVIOUS
<1>5. Written(Op, v) \in {Append(now, [t |-> Op.def, v |-> v]), <<>>, SubSeq(now, 1, acc.out), acc.tmp, now}
  BY DEF Written
<1> QED
  BY <1>1, <1>2, <1>3, <1>4, <1>5

\* An operation ends.
LEMMA EndOpInv ==
  ASSUME PipelineInv, EndOp
  PROVE  PipelineInv'
<1>1. PICK v \in Values :
        /\ AtOp /\ i > 0 /\ lists' = [lists EXCEPT ![Op.list] = Written(Op, v)]
        /\ pc' = pc + 1 /\ i' = 0
        /\ UNCHANGED <<todo, built, cap, acc, was, status>>
  BY DEF EndOp
<1>2. Written(Op, v) \in Seq(Items)
  BY <1>1, WrittenFacts
<1>3. lists' \in [Lists -> Seq(Items)]
  BY <1>1, <1>2, AtOpFacts
<1>4. pc' \in 1 .. (Len(built.code) + 1) /\ status' = "running"
  BY <1>1, AtOpFacts
<1>5. HalfWay'
  BY <1>1 DEF HalfWay
<1> QED
  BY <1>1, <1>3, <1>4, <1>5, RunningInv DEF PipelineInv

\* The run ends.
LEMMA EndRunInv ==
  ASSUME PipelineInv, EndRun
  PROVE  PipelineInv'
<1>1. /\ status = "running" /\ status' = "done"
      /\ UNCHANGED <<todo, built, cap, lists, pc, i, acc, was>>
  BY DEF EndRun
<1>2. CodeSound'
  BY <1>1, SameCode DEF PipelineInv
<1>3. TypeOK'
  BY <1>1 DEF PipelineInv, TypeOK, AtOp
<1>4. Staged'
  BY <1>1 DEF PipelineInv, Staged, MaxLists
<1>5. HalfWay'
  BY <1>1 DEF HalfWay
<1> QED
  BY <1>1, <1>2, <1>3, <1>4, <1>5 DEF PipelineInv

\* Nothing happens.
LEMMA StutterInv ==
  ASSUME PipelineInv, UNCHANGED vars
  PROVE  PipelineInv'
<1>1. UNCHANGED <<todo, built, cap, lists, pc, i, acc, was, status>>
  BY DEF vars
<1>2. Op' = Op
  BY <1>1 DEF Op
<1>3. CodeSound'
  BY <1>1, SameCode DEF PipelineInv
<1>4. TypeOK' /\ Staged' /\ HalfWay'
  BY <1>1, <1>2 DEF PipelineInv, TypeOK, AtOp, Staged, HalfWay, MaxLists
<1> QED
  BY <1>1, <1>3, <1>4 DEF PipelineInv

-----------------------------------------------------------------------------
(* The theorems *)

\* Every program that is compiled and run keeps the invariant.
THEOREM PipelineInvHolds == Spec => []PipelineInv
<1>1. PipelineInv /\ [Next]_vars => PipelineInv'
  BY CompileOpInv, CompileStatementInv, EndCompilationInv, RunInv, SkipInv, BeginOpInv, ElementInv,
     ElementFailsInv, EndOpInv, EndRunInv, StutterInv DEF Next
<1> QED
  BY <1>1, InitInv, PTL DEF Spec

\* The lists hold elements and the position is one of the program and of the
\* list, for every program.
THEOREM ListsTypeCorrect == Spec => []TypeOK
<1>1. PipelineInv => TypeOK
  BY DEF PipelineInv
<1> QED
  BY <1>1, PipelineInvHolds, PTL

\* The reference an operation holds into context::lists stays valid, whatever
\* lists its body adds to and whatever scripts it executes: max_lists counts
\* the deepest of them.
THEOREM ReferencesHold == Spec => []ReferenceHolds
<1>1. PipelineInv => ReferenceHolds
  BY DEF PipelineInv, ReferenceHolds
<1> QED
  BY <1>1, PipelineInvHolds, PTL

\* A body that throws half way costs its list nothing that was not looked at.
THEOREM FailuresLoseNothing == Spec => []FailureLosesNothing
<1>1. PipelineInv => FailureLosesNothing
  <2> SUFFICES ASSUME PipelineInv, status = "failed" PROVE FailureLosesNothing
    BY DEF FailureLosesNothing
  <2> DEFINE now == lists[Op.list]
  <2>1. pc \in DOMAIN built.code /\ i > 0
    BY DEF PipelineInv, Staged
  <2>2. /\ Len(now) = Len(was)
        /\ \A k \in DOMAIN now : k >= i => now[k] = was[k]
        /\ \A k \in DOMAIN now : \E j \in DOMAIN was : now[k] = was[j]
    BY <2>1 DEF PipelineInv, HalfWay
  <2>3. now \in Seq(Items) /\ i \in Nat
    <3>1. Op.list \in Lists
      <4>1. built.code \in Seq(Commands)
        BY DEF PipelineInv, Built
      <4>2. Op \in Commands
        BY <2>1, <4>1, ElementOfSeq, LenProperties DEF Op
      <4> QED
        BY <4>2 DEF Commands
    <3> QED
      BY <3>1 DEF PipelineInv, TypeOK
  <2>4. DOMAIN now = 1 .. Len(now) /\ Len(now) \in Nat
    BY <2>3, LenProperties
  <2>5. \A k \in i .. Len(now) : now[k] = was[k]
    <3> HIDE DEF now
    <3> QED
      BY <2>1, <2>2, <2>3, <2>4
  <2>6. ToSet(now) \subseteq ToSet(was)
    <3> HIDE DEF now
    <3> QED
      BY <2>2 DEF ToSet
  <2> QED
    BY <2>2, <2>5, <2>6 DEF FailureLosesNothing
<1> QED
  BY <1>1, PipelineInvHolds, PTL

-----------------------------------------------------------------------------
(* ElementsHaveTheirType, for every program that maps no list under a      *)
(* condition: what the compiler knows of a list at a command is what the   *)
(* elements of that list are when the command runs.                        *)

-----------------------------------------------------------------------------
(* What a list is known by *)

\* Only the commands before count.
LEMMA KnownPrefix ==
  ASSUME NEW code, NEW more, NEW p \in Nat, NEW l,
         \A k \in 1 .. (p - 1) : more[k] = code[k]
  PROVE  Known(more, l, p) = Known(code, l, p)
<1> DEFINE S == {k \in 1 .. (p - 1) : Touches(code[k], l)}
<1>1. {k \in 1 .. (p - 1) : Touches(more[k], l)} = S
  OBVIOUS
<1>2. CASE S = {}
  BY <1>1, <1>2 DEF Known
<1>3. CASE S # {}
  <2>1. S \in SUBSET (0 .. p) /\ p \in Nat
    OBVIOUS
  <2>2. Max(S) \in S
    <3> HIDE DEF S
    <3> QED
      BY <1>3, <2>1, MaxExists
  <2>3. more[Max(S)] = code[Max(S)]
    BY <2>2
  <2> QED
    BY <1>1, <1>3, <2>3 DEF Known
<1> QED
  BY <1>2, <1>3

\* So one more command does not.
LEMMA KnownAppended ==
  ASSUME NEW S, NEW code \in Seq(S), NEW c, NEW p \in 1 .. (Len(code) + 1), NEW l
  PROVE  Known(Append(code, c), l, p) = Known(code, l, p)
<1> DEFINE more == Append(code, c)
<1>1. \A k \in 1 .. (p - 1) : more[k] = code[k]
  OBVIOUS
<1>2. p \in Nat
  OBVIOUS
<1> HIDE DEF more
<1>3. Known(more, l, p) = Known(code, l, p)
  BY <1>1, <1>2, KnownPrefix
<1> QED
  BY <1>3 DEF more

\* A command settles what it touches, and nothing else.
LEMMA KnownStep ==
  ASSUME NEW code, NEW p \in Nat, p > 0, NEW l
  PROVE  Known(code, l, p + 1) = IF Touches(code[p], l) THEN TypeLeft(code[p], l) ELSE Known(code, l, p)
<1> DEFINE S == {k \in 1 .. (p - 1) : Touches(code[k], l)}
           R == {k \in 1 .. (p + 1 - 1) : Touches(code[k], l)}
<1>1. CASE Touches(code[p], l)
  <2>1. p \in R /\ R \in SUBSET Int /\ \A y \in R : p >= y
    BY <1>1
  <2>2. Max(R) = p
    <3> HIDE DEF R
    <3> QED
      BY <2>1, MaxIs
  <2> QED
    BY <1>1, <2>1, <2>2 DEF Known
<1>2. CASE ~ Touches(code[p], l)
  <2>1. \A k \in 1 .. (p + 1 - 1) : k \in 1 .. (p - 1) \/ k = p
    OBVIOUS
  <2>2. R = S
    BY <1>2, <2>1
  <2> QED
    BY <1>2, <2>2 DEF Known
<1> QED
  BY <1>1, <1>2

\* Nothing is known at the first command.
LEMMA KnownFirst ==
  ASSUME NEW code, NEW l
  PROVE  Known(code, l, 1) = Nothing
<1>1. {k \in 1 .. (1 - 1) : Touches(code[k], l)} = {}
  OBVIOUS
<1> QED
  BY <1>1 DEF Known

-----------------------------------------------------------------------------
(* Compilation *)

\* A rejected program stays rejected.
LEMMA RejectIsFinal ==
  ASSUME NEW b \in Built, NEW why \in Reasons
  PROVE  Reject(b, why).err # Nothing
BY RejectFacts

\* What add_to makes of the types, if it is accepted.
LEMMA AddedTypes ==
  ASSUME NEW b \in Built, NEW l \in Lists, NEW t, AddedType(b, l, t).err = Nothing
  PROVE  /\ b.types[l] \in {Nothing, t}
         /\ AddedType(b, l, t).types = [b.types EXCEPT ![l] = t]
<1>1. "element_type" \in Reasons
  BY DEF Reasons
<1>2. b.types[l] \in {Nothing, t}
  BY <1>1, RejectIsFinal DEF AddedType
<1>3. AddedType(b, l, t) = [b EXCEPT !.types[l] = t]
  BY <1>2 DEF AddedType
<1> QED
  BY <1>2, <1>3 DEF Built

\* compile_value_section, if it is accepted, settles the type of its list and
\* of the one its body adds to.
LEMMA ValueSectionTypes ==
  ASSUME NEW b \in Built, NEW op \in Operations, op.kind \in WithCallback, NEW l \in Lists,
         ValueSection(b, op, l).err = Nothing
  PROVE  /\ Callbacks[op.f].adds # l
         /\ Callbacks[op.f].adds # Nothing =>
              b.types[Callbacks[op.f].adds] \in {Nothing, ElementType(b.types[l])}
         /\ \A m \in Lists :
              ValueSection(b, op, l).types[m] =
                IF m = l THEN TypeAfter(op, b.types[l])
                ELSE IF m = Callbacks[op.f].adds THEN ElementType(b.types[l]) ELSE b.types[m]
<1> DEFINE f == Callbacks[op.f]
           t == TypeAfter(op, b.types[l])
           added == BodyAdds(b, f, b.types[l])
           n == IF Frames(f) > added.child THEN Frames(f) ELSE added.child
           sound == [added EXCEPT !.types[l] = t, !.child = n]
<1>1. op.f \in DOMAIN Callbacks /\ b.types[l] \in MaybeType
  BY OperationFacts DEF Built
<1>2. added \in Built
  BY <1>1, BodyAddsFacts DEF Follows
<1>3. l \notin {f.adds} \union f.binds /\ ValueSection(b, op, l) = sound
  <2>1. "changed_inside" \in Reasons /\ "scope" \in Reasons /\ "body_type" \in Reasons
    BY DEF Reasons
  <2> QED
    BY <2>1, RejectIsFinal DEF ValueSection
<1>4. sound.types = [added.types EXCEPT ![l] = t] /\ sound.err = added.err
  <2> HIDE DEF t, n, added
  <2> QED
    BY <1>2 DEF Built
<1>5. added.err = Nothing
  BY <1>3, <1>4
<1>6. /\ f.adds # Nothing => b.types[f.adds] \in {Nothing, ElementType(b.types[l])}
      /\ \A m \in Lists : added.types[m] = IF m = f.adds THEN ElementType(b.types[l]) ELSE b.types[m]
  <2>1. CASE f.adds = Nothing
    <3>1. added = b /\ \A m \in Lists : m # f.adds
      BY <2>1, ListsAssumption DEF BodyAdds
    <3> QED
      BY <2>1, <3>1
  <2>2. CASE f.adds # Nothing
    <3> DEFINE a == f.adds
               e == ElementType(b.types[l])
    <3>1. a \in Lists
      BY <1>1, <2>2, BodyFacts
    <3>2. added = AddedType(b, a, e)
      BY <2>2 DEF BodyAdds
    <3>3. b.types \in [Lists -> MaybeType]
      BY DEF Built
    <3> HIDE DEF a, e, added
    <3>4. b.types[a] \in {Nothing, e} /\ added.types = [b.types EXCEPT ![a] = e]
      BY <1>5, <3>1, <3>2, AddedTypes
    <3>5. \A m \in Lists : added.types[m] = IF m = a THEN e ELSE b.types[m]
      BY <3>1, <3>3, <3>4
    <3> QED
      BY <3>4, <3>5 DEF a, e
  <2> QED
    BY <2>1, <2>2
<1>7. added.types \in [Lists -> MaybeType]
  BY <1>2 DEF Built
<1>8. \A m \in Lists : sound.types[m] = IF m = l THEN t ELSE added.types[m]
  <2> HIDE DEF t, added, sound
  <2> QED
    BY <1>4, <1>7
<1> HIDE DEF sound, added
<1> QED
  BY <1>3, <1>6, <1>8

\* A default changes no type.
LEMMA DefaultSectionTypes ==
  ASSUME NEW b \in Built, NEW op, NEW l, DefaultSection(b, op, l).err = Nothing
  PROVE  DefaultSection(b, op, l) = b
<1>1. "requires_default" \in Reasons /\ "default_type" \in Reasons
  BY DEF Reasons
<1> QED
  BY <1>1, RejectIsFinal DEF DefaultSection

\* A command is what `op` of `stmt` compiles to with these types before it.
Compiled(c, op, stmt, end, types) ==
  /\ c.kind = op.kind /\ c.f = op.f /\ c.def = op.def /\ c.list = stmt.list /\ c.cond = stmt.cond /\ c.end = end
  /\ IF c.kind = "add_to" THEN c.input = c.def /\ c.def \in Types /\ types[c.list] \in {Nothing, c.def}
     ELSE c.input = types[c.list]
  /\ c.kind \in WithCallback =>
       /\ Callbacks[c.f].adds # c.list
       /\ Callbacks[c.f].adds # Nothing => types[Callbacks[c.f].adds] \in {Nothing, ElementType(c.input)}

\* `r` is `b` with one more command, which is what `op` compiles to and leaves
\* the types that `r` has.
OneMore(r, b, op, stmt, end) ==
  \E c : /\ r.code = Append(b.code, c)
         /\ Compiled(c, op, stmt, end, b.types)
         /\ \A m \in Lists : r.types[m] = IF Touches(c, m) THEN TypeLeft(c, m) ELSE b.types[m]

\* That is what an operation does that is accepted.
LEMMA WithOpTypes ==
  ASSUME NEW b \in Built, NEW op \in Operations, NEW stmt \in Statements, NEW end,
         WithOp(b, op, stmt, end).err = Nothing
  PROVE  OneMore(WithOp(b, op, stmt, end), b, op, stmt, end)
<1> DEFINE l == stmt.list
           valued == IF op.kind \in WithCallback THEN ValueSection(b, op, l)
                     ELSE IF op.kind = "add_to" THEN AddedType(b, l, op.def) ELSE b
           done == IF op.kind \in NeedsDefault THEN DefaultSection(valued, op, l) ELSE valued
           input == IF op.kind = "add_to" THEN done.types[l] ELSE b.types[l]
           c == [kind |-> op.kind, f |-> op.f, def |-> op.def, list |-> l,
                 input |-> input, cond |-> stmt.cond, end |-> end]
           last == op.kind \in Reducers
           full == [done EXCEPT !.reduced = last, !.code = Append(@, c)]
<1>1. l \in Lists /\ op.def \in MaybeType /\ "add_to" \notin WithCallback
      /\ (op.kind = "add_to" => op.def \in Types)
  BY DEF Statements, Operations, WithCallback, Reducers, NeedsDefault
<1>2. WithOp(b, op, stmt, end) = full
  <2>1. "reducer_last" \in Reasons
    BY DEF Reasons
  <2> QED
    BY <2>1, RejectIsFinal DEF WithOp
<1>3. valued \in Built
  BY <1>1, ValueSectionFacts, AddedTypeFacts DEF Follows
<1>4. done \in Built
  <2> HIDE DEF valued
  <2> QED
    BY <1>1, <1>3, DefaultSectionFacts DEF Follows
<1>5. full.err = done.err /\ full.types = done.types /\ full.code = Append(done.code, c)
  <2> HIDE DEF done, c, last
  <2> QED
    BY <1>4 DEF Built
<1>6. done.err = Nothing
  BY <1>2, <1>5
<1>7. done = valued /\ valued.err = Nothing
  <2> HIDE DEF valued
  <2> QED
    BY <1>3, <1>6, DefaultSectionTypes
<1>8. valued.code = b.code
  BY <1>1, ValueSectionFacts, AddedTypeFacts DEF Follows
<1>9. c.kind = op.kind /\ c.f = op.f /\ c.def = op.def /\ c.list = l /\ c.cond = stmt.cond /\ c.end = end
      /\ c.input = input
  OBVIOUS
<1>10. b.types \in [Lists -> MaybeType]
  BY DEF Built
<1>11. CASE op.kind \in WithCallback
  <2>1. input = b.types[l] /\ valued = ValueSection(b, op, l)
    BY <1>1, <1>11
  <2> DEFINE a == Callbacks[op.f].adds
  <2>2. /\ a # l
        /\ a # Nothing => b.types[a] \in {Nothing, ElementType(b.types[l])}
        /\ \A m \in Lists : valued.types[m] = IF m = l THEN TypeAfter(op, b.types[l])
                                              ELSE IF m = a THEN ElementType(b.types[l]) ELSE b.types[m]
    BY <1>1, <1>7, <1>11, <2>1, ValueSectionTypes
  <2>3. TypeAfter(c, input) = TypeAfter(op, input)
    BY DEF TypeAfter
  <2> HIDE DEF valued, done, input, c, full
  <2>4. Compiled(c, op, stmt, end, b.types)
    BY <1>1, <1>9, <1>11, <2>1, <2>2 DEF Compiled
  <2>5. \A m \in Lists : valued.types[m] = IF Touches(c, m) THEN TypeLeft(c, m) ELSE b.types[m]
    BY <1>9, <1>11, <2>1, <2>2, <2>3 DEF Touches, TypeLeft
  <2> QED
    BY <1>2, <1>5, <1>7, <1>8, <2>4, <2>5 DEF OneMore
<1>12. CASE op.kind = "add_to"
  <2>1. valued = AddedType(b, l, op.def) /\ input = done.types[l]
    BY <1>1, <1>12
  <2>2. b.types[l] \in {Nothing, op.def} /\ valued.types = [b.types EXCEPT ![l] = op.def]
    BY <1>1, <1>7, <2>1, AddedTypes
  <2> HIDE DEF valued, done, input, c, full
  <2>3. input = op.def
    BY <1>1, <1>7, <1>10, <2>1, <2>2
  <2>4. Compiled(c, op, stmt, end, b.types)
    BY <1>1, <1>9, <1>12, <2>2, <2>3 DEF Compiled
  <2>5. \A m \in Lists : valued.types[m] = IF Touches(c, m) THEN TypeLeft(c, m) ELSE b.types[m]
    BY <1>1, <1>9, <1>10, <1>12, <2>2, <2>3 DEF Touches, TypeLeft
  <2> QED
    BY <1>2, <1>5, <1>7, <1>8, <2>4, <2>5 DEF OneMore
<1>13. CASE op.kind \notin WithCallback /\ op.kind # "add_to"
  <2>1. valued = b /\ input = b.types[l]
    BY <1>13
  <2> HIDE DEF valued, done, input, c, full
  <2>2. Compiled(c, op, stmt, end, b.types)
    BY <1>9, <1>13, <2>1 DEF Compiled
  <2>3. \A m \in Lists : b.types[m] = IF Touches(c, m) THEN TypeLeft(c, m) ELSE b.types[m]
    BY <1>9, <1>13, <2>1 DEF Touches, TypeLeft
  <2> QED
    BY <1>2, <1>5, <1>7, <2>1, <2>2, <2>3 DEF OneMore
<1> QED
  BY <1>11, <1>12, <1>13

\* A program typed so far stays so with one more command, if that is no map
\* under a condition.
LEMMA AppendedTyped ==
  ASSUME NEW b \in Built, NEW r \in Built, NEW op, NEW stmt, NEW end, NEW c,
         r.code = Append(b.code, c), Compiled(c, op, stmt, end, b.types),
         \A m \in Lists : r.types[m] = IF Touches(c, m) THEN TypeLeft(c, m) ELSE b.types[m],
         stmt.list \in Lists, op.f \in DOMAIN Callbacks \union {Nothing},
         op.kind \in WithCallback => op.f \in DOMAIN Callbacks,
         \A l \in Lists : b.types[l] = Known(b.code, l, Len(b.code) + 1),
         \A k \in DOMAIN b.code : Typed(b.code, k),
         c.cond => c.kind # "map" /\ Len(b.code) + 1 < end,
         \A k \in DOMAIN b.code : b.code[k].cond /\ Len(b.code) + 1 < b.code[k].end => c.kind # "map"
  PROVE  /\ \A l \in Lists : r.types[l] = Known(r.code, l, Len(r.code) + 1)
         /\ \A k \in DOMAIN r.code : Typed(r.code, k)
<1> DEFINE n == Len(b.code)
           code == r.code
<1>1. b.code \in Seq(Commands)
  BY DEF Built
<1>2. n \in Nat /\ DOMAIN b.code = 1 .. n
  BY <1>1
<1>3. /\ Len(code) = n + 1 /\ DOMAIN code = 1 .. (n + 1)
      /\ code[n + 1] = c /\ \A k \in 1 .. n : code[k] = b.code[k]
  BY <1>1
<1> HIDE DEF n, code
<1>4. ASSUME NEW p \in 1 .. (n + 1), NEW l
      PROVE  Known(code, l, p) = Known(b.code, l, p)
  <2>1. p \in 1 .. (Len(b.code) + 1)
    BY DEF n
  <2>2. Known(Append(b.code, c), l, p) = Known(b.code, l, p)
    BY <1>1, <2>1, KnownAppended
  <2> QED
    BY <2>2 DEF code
<1>5. \A l \in Lists : Known(code, l, n + 1) = b.types[l]
  BY <1>2, <1>4 DEF n
<1>6. \A l \in Lists : r.types[l] = Known(code, l, n + 1 + 1)
  <2>1. n + 1 \in Nat /\ n + 1 > 0
    BY <1>2
  <2>2. \A l \in Lists : Known(code, l, n + 1 + 1) =
          IF Touches(code[n + 1], l) THEN TypeLeft(code[n + 1], l) ELSE Known(code, l, n + 1)
    BY <2>1, KnownStep
  <2> QED
    BY <1>3, <1>5, <2>2
<1>7. ASSUME NEW k \in 1 .. n
      PROVE  Typed(code, k)
  <2>1. Typed(b.code, k) /\ code[k] = b.code[k]
    BY <1>2, <1>3
  <2>2. \A l : Known(code, l, k) = Known(b.code, l, k)
    BY <1>2, <1>4
  <2>3. ASSUME code[k].cond, NEW m \in k .. (n + 1), m < code[k].end
        PROVE  code[m].kind # "map"
    <3>1. CASE m = n + 1
      BY <1>2, <1>3, <2>1, <2>3, <3>1 DEF n
    <3>2. CASE m # n + 1
      <4>1. m \in k .. n /\ m \in 1 .. n
        BY <1>2, <3>2
      <4> QED
        BY <1>3, <2>1, <2>3, <4>1 DEF Typed, n
    <3> QED
      BY <3>1, <3>2
  <2>4. code[k].cond => k < code[k].end
    BY <2>1 DEF Typed
  <2>5. code[k].cond => \A m \in k .. (n + 1) : m < code[k].end => code[m].kind # "map"
    BY <2>3
  <2> DEFINE d == code[k]
  <2>6. IF d.kind = "add_to" THEN d.input = d.def /\ d.def \in Types /\ Known(code, d.list, k) \in {Nothing, d.def}
        ELSE d.input = Known(code, d.list, k)
    BY <2>1, <2>2 DEF Typed
  <2>7. d.kind \in WithCallback /\ Callbacks[d.f].adds # Nothing =>
          Known(code, Callbacks[d.f].adds, k) \in {Nothing, ElementType(d.input)}
    BY <2>1, <2>2 DEF Typed
  <2> QED
    BY <1>3, <2>4, <2>5, <2>6, <2>7 DEF Typed
<1>8. Typed(code, n + 1)
  <2>1. c.list \in Lists /\ (c.kind \in WithCallback => Callbacks[c.f].adds = Nothing \/ Callbacks[c.f].adds \in Lists)
    BY BodyFacts DEF Compiled
  <2>2. \A m \in (n + 1) .. (n + 1) : m = n + 1
    BY <1>2
  <2> QED
    BY <1>3, <1>5, <2>1, <2>2 DEF Typed, Compiled, n
<1>9. \A k \in 1 .. (n + 1) : k \in 1 .. n \/ k = n + 1
  BY <1>2
<1> QED
  BY <1>3, <1>6, <1>7, <1>8, <1>9 DEF code

\* A program that is about to be compiled.
LEMMA InitTyping ==
  ASSUME MapsUnconditional, Init
  PROVE  TypingInv
<1> USE DEF Init
<1>1. CodeTyped
  <2>1. \A l : Known(<<>>, l, 0 + 1) = Nothing
    BY KnownFirst
  <2> QED
    BY <2>1 DEF CodeTyped
<1>2. ComingUnmapped
  BY DEF ComingUnmapped, MapsUnconditional
<1>3. ItemsTyped
  BY DEF ItemsTyped
<1> QED
  BY <1>1, <1>2, <1>3 DEF TypingInv

\* An operation is compiled.
LEMMA CompileOpTyping ==
  ASSUME PipelineInv, TypingInv, CompileOp, PipelineInv'
  PROVE  TypingInv'
<1> DEFINE stmt == Head(todo)
           op == Head(stmt.ops)
           rest == [stmt EXCEPT !.ops = Tail(@), !.cond = FALSE]
           end == StatementEnd(built, stmt)
<1>1. /\ built \in Built /\ built' \in Built /\ todo \in Seq(Statements) /\ todo # <<>> /\ stmt.ops # <<>>
      /\ built.err = Nothing /\ status = "compiling" /\ status' = "compiling"
      /\ built' = WithOp(built, op, stmt, end) /\ todo' = <<rest>> \o Tail(todo)
  BY DEF PipelineInv, CompileOp, Compiling
<1>2. stmt \in Statements /\ stmt.ops \in Seq(Operations) /\ op \in Operations /\ stmt.list \in Lists
  <2>1. stmt \in Statements
    BY <1>1, HeadTailProperties
  <2> HIDE DEF stmt
  <2>2. stmt.ops \in Seq(Operations) /\ stmt.list \in Lists
    BY <2>1 DEF Statements
  <2> QED
    BY <1>1, <2>1, <2>2, HeadTailProperties
<1>3. /\ rest \in Statements /\ rest.ops = Tail(stmt.ops) /\ ~ rest.cond /\ Tail(stmt.ops) \in Seq(Operations)
      /\ Len(Tail(stmt.ops)) = Len(stmt.ops) - 1 /\ Len(stmt.ops) \in Nat /\ Len(stmt.ops) > 0
      /\ \A n \in 1 .. (Len(stmt.ops) - 1) : Tail(stmt.ops)[n] = stmt.ops[n + 1]
  <2> HIDE DEF stmt
  <2>1. /\ Tail(stmt.ops) \in Seq(Operations) /\ Len(Tail(stmt.ops)) = Len(stmt.ops) - 1
        /\ Len(stmt.ops) \in Nat /\ Len(stmt.ops) > 0
        /\ \A n \in 1 .. (Len(stmt.ops) - 1) : Tail(stmt.ops)[n] = stmt.ops[n + 1]
    BY <1>1, <1>2, HeadTailProperties
  <2> QED
    BY <1>2, <2>1 DEF Statements
<1>4. Tail(todo) \in Seq(Statements) /\ \A n \in DOMAIN Tail(todo) : Unmapped(Tail(todo)[n])
  <2>1. Tail(todo) \in Seq(Statements)
    BY <1>1
  <2>2. \A n \in DOMAIN Tail(todo) : n + 1 \in DOMAIN todo /\ Tail(todo)[n] = todo[n + 1]
    BY <1>1
  <2>3. \A n \in DOMAIN todo : Unmapped(todo[n])
    BY DEF TypingInv, ComingUnmapped
  <2> QED
    BY <2>1, <2>2, <2>3
<1>5. /\ todo' # <<>>
      /\ Head(todo') = rest
      /\ \A n \in DOMAIN todo' : n = 1 \/ n - 1 \in DOMAIN Tail(todo)
      /\ todo'[1] = rest
      /\ \A n \in DOMAIN todo' : n # 1 => todo'[n] = Tail(todo)[n - 1]
  <2> HIDE DEF rest
  <2> QED
    BY <1>1, <1>3, <1>4
<1>6. \A n \in DOMAIN todo' : Unmapped(todo'[n])
  <2>1. Unmapped(rest)
    <3> HIDE DEF rest
    <3> QED
      BY <1>3 DEF Unmapped
  <2> HIDE DEF rest
  <2> QED
    BY <1>4, <1>5, <2>1
<1>7. Coming = Len(stmt.ops) /\ Coming' = Len(stmt.ops) - 1
  <2> HIDE DEF rest
  <2> QED
    BY <1>1, <1>3, <1>5 DEF Coming
<1>8. CASE built'.err # Nothing
  BY <1>1, <1>6, <1>8 DEF TypingInv, CodeTyped, ComingUnmapped, ItemsTyped
<1>9. CASE built'.err = Nothing
  <2> DEFINE n == Len(built.code)
  <2>1. n \in Nat /\ DOMAIN built.code = 1 .. n /\ built.code \in Seq(Commands)
    BY <1>1 DEF Built
  <2>2. PICK c : /\ built'.code = Append(built.code, c)
                 /\ Compiled(c, op, stmt, end, built.types)
                 /\ \A m \in Lists : built'.types[m] = IF Touches(c, m) THEN TypeLeft(c, m) ELSE built.types[m]
    <3>1. WithOp(built, op, stmt, end).err = Nothing
      BY <1>1, <1>9
    <3>2. built \in Built /\ op \in Operations /\ stmt \in Statements /\ built' = WithOp(built, op, stmt, end)
      BY <1>1, <1>2
    <3> HIDE DEF stmt, op, end
    <3>3. OneMore(built', built, op, stmt, end)
      BY <3>1, <3>2, WithOpTypes
    <3> QED
      BY <3>3 DEF OneMore
  <2>3. c.kind = op.kind /\ c.cond = stmt.cond
    <3> HIDE DEF stmt, op
    <3> QED
      BY <2>2 DEF Compiled
  <2>4. /\ stmt.ops[1] = op /\ 1 \in DOMAIN stmt.ops /\ DOMAIN stmt.ops = 1 .. Len(stmt.ops)
    <3> HIDE DEF stmt
    <3> QED
      BY <1>2, <1>3
  <2>5. Unmapped(stmt)
    <3>1. 1 \in DOMAIN todo /\ todo[1] = stmt
      BY <1>1
    <3> QED
      BY <3>1 DEF TypingInv, ComingUnmapped
  <2>6. c.cond => \A m \in 1 .. Len(stmt.ops) : stmt.ops[m].kind # "map"
    <3> HIDE DEF stmt, op
    <3> QED
      BY <2>3, <2>4, <2>5 DEF Unmapped
  <2>7. \A k \in 1 .. n : built.code[k].cond =>
          \A m \in 1 .. Len(stmt.ops) : n + m < built.code[k].end => stmt.ops[m].kind # "map"
    BY <1>1, <1>7, <2>1 DEF TypingInv, ComingUnmapped
  <2> HIDE DEF stmt, op, end, rest, n
  <2>8. c.cond => c.kind # "map" /\ Len(built.code) + 1 < end
    <3>1. end = n + Len(stmt.ops) + 1
      BY DEF end, n, StatementEnd
    <3>2. n + 1 < end
      BY <1>3, <2>1, <3>1
    <3>3. c.cond => c.kind # "map"
      BY <1>3, <2>3, <2>4, <2>6
    <3> QED
      BY <3>2, <3>3 DEF n
  <2>9. \A k \in 1 .. n : built.code[k].cond /\ n + 1 < built.code[k].end => c.kind # "map"
    BY <1>3, <2>3, <2>4, <2>7
  <2>10. CodeTyped'
    <3>1. /\ \A l \in Lists : built.types[l] = Known(built.code, l, Len(built.code) + 1)
          /\ \A k \in DOMAIN built.code : Typed(built.code, k)
      BY <1>1 DEF TypingInv, CodeTyped
    <3>2. op.f \in DOMAIN Callbacks \union {Nothing} /\ (op.kind \in WithCallback => op.f \in DOMAIN Callbacks)
      BY <1>2, OperationFacts
    <3>3. \A k \in DOMAIN built.code : built.code[k].cond /\ Len(built.code) + 1 < built.code[k].end => c.kind # "map"
      BY <2>1, <2>9 DEF n
    <3>4. /\ \A l \in Lists : built'.types[l] = Known(built'.code, l, Len(built'.code) + 1)
          /\ \A k \in DOMAIN built'.code : Typed(built'.code, k)
      BY <1>1, <1>2, <2>2, <2>8, <3>1, <3>2, <3>3, AppendedTyped
    <3> QED
      BY <3>4 DEF CodeTyped
  <2>11. /\ Len(built'.code) = n + 1 /\ DOMAIN built'.code = 1 .. (n + 1)
         /\ built'.code[n + 1] = c /\ \A k \in 1 .. n : built'.code[k] = built.code[k]
    BY <2>1, <2>2 DEF n
  <2>12. ASSUME NEW k \in 1 .. (n + 1), built'.code[k].cond, NEW m \in 1 .. (Len(stmt.ops) - 1),
                n + 1 + m < built'.code[k].end
         PROVE  Tail(stmt.ops)[m].kind # "map"
    <3>1. /\ m + 1 \in 1 .. Len(stmt.ops) /\ Tail(stmt.ops)[m] = stmt.ops[m + 1] /\ n + 1 + m = n + (m + 1)
      BY <1>3, <2>1
    <3>2. CASE k = n + 1
      BY <2>6, <2>11, <2>12, <3>1, <3>2
    <3>3. CASE k # n + 1
      <4>1. k \in 1 .. n
        BY <2>1, <3>3
      <4> QED
        BY <2>7, <2>11, <2>12, <3>1, <4>1
    <3> QED
      BY <3>2, <3>3
  <2>13. ComingUnmapped'
    <3>1. Head(todo').ops = Tail(stmt.ops)
      BY <1>3, <1>5
    <3> QED
      BY <1>6, <1>7, <2>11, <2>12, <3>1 DEF ComingUnmapped
  <2>14. ItemsTyped'
    BY <1>1 DEF ItemsTyped
  <2> QED
    BY <2>10, <2>13, <2>14 DEF TypingInv
<1> QED
  BY <1>8, <1>9

\* What is compiled does not change any more.
LEMMA SameCodeTyped ==
  ASSUME CodeTyped, ComingUnmapped, UNCHANGED <<todo, built>>
  PROVE  CodeTyped' /\ ComingUnmapped'
BY DEF CodeTyped, ComingUnmapped, Coming

\* A statement is compiled: nothing that was under a condition goes on behind it.
LEMMA CompileStatementTyping ==
  ASSUME PipelineInv, TypingInv, CompileStatement, PipelineInv'
  PROVE  TypingInv'
<1>1. /\ built \in Built /\ todo \in Seq(Statements) /\ todo # <<>> /\ Head(todo).ops = <<>>
      /\ built' = [built EXCEPT !.reduced = FALSE] /\ todo' = Tail(todo) /\ status' = "compiling"
      /\ built.err = Nothing
  BY DEF PipelineInv, CompileStatement, Compiling
<1>2. built'.code = built.code /\ built'.types = built.types /\ built'.err = built.err
  BY <1>1 DEF Built
<1>3. CodeTyped'
  BY <1>2 DEF TypingInv, CodeTyped
<1>4. \A n \in DOMAIN todo' : Unmapped(todo'[n])
  <2>1. \A n \in DOMAIN Tail(todo) : n + 1 \in DOMAIN todo /\ Tail(todo)[n] = todo[n + 1]
    BY <1>1
  <2> QED
    BY <1>1, <2>1 DEF TypingInv, ComingUnmapped
<1>5. ASSUME NEW k \in DOMAIN built.code, NEW n \in 1 .. Coming', Len(built.code) + n < built.code[k].end
      PROVE  FALSE
  <2>1. Sound(built.code[k], built.child, Len(built.code) + 0 + 1)
    BY <1>1 DEF PipelineInv, CodeSound, Coming
  <2>2. built.code[k].end \in 1 .. (Len(built.code) + 0 + 1) /\ Len(built.code) \in Nat
    BY <1>1, <2>1 DEF Sound, Built
  <2>3. n >= 1 /\ n \in Int
    <3>1. todo' # <<>> => Head(todo') \in Statements
      BY <1>1, HeadTailProperties
    <3>2. Coming' \in Nat
      <4>1. todo' # <<>> => Head(todo').ops \in Seq(Operations)
        BY <3>1 DEF Statements
      <4> QED
        BY <4>1 DEF Coming
    <3> QED
      BY <3>2
  <2> QED
    BY <1>5, <2>2, <2>3
<1>6. ComingUnmapped'
  BY <1>2, <1>4, <1>5 DEF ComingUnmapped
<1> QED
  BY <1>1, <1>3, <1>6 DEF TypingInv, ItemsTyped

\* The lists are made, and nothing is known of them.
LEMMA RunTyping ==
  ASSUME PipelineInv, TypingInv, Run
  PROVE  TypingInv'
<1>1. UNCHANGED <<todo, built, i>> /\ lists' = [l \in Lists |-> <<>>] /\ i = 0
  BY DEF Run, PipelineInv, Staged
<1>2. ItemsTyped'
  <2>1. \A l \in Lists : DOMAIN lists'[l] = {}
    BY <1>1
  <2> QED
    BY <1>1, <2>1 DEF ItemsTyped
<1>3. CodeTyped' /\ ComingUnmapped'
  BY <1>1, SameCodeTyped DEF TypingInv
<1> QED
  BY <1>2, <1>3 DEF TypingInv

-----------------------------------------------------------------------------
(* Execution *)

\* Except for a map a command keeps what is known of every list, or is the
\* first to know it.
LEMMA StepKeeps ==
  ASSUME NEW code, NEW p \in Nat, p > 0, NEW l, Typed(code, p),
         code[p].kind \in WithCallback => Callbacks[code[p].f].adds # code[p].list,
         l # Nothing, code[p].kind # "map"
  PROVE  Known(code, l, p) \in {Nothing, Known(code, l, p + 1)}
<1> DEFINE c == code[p]
<1>1. Known(code, l, p + 1) = IF Touches(c, l) THEN TypeLeft(c, l) ELSE Known(code, l, p)
  BY KnownStep
<1>2. "add_to" \notin WithCallback
  BY DEF WithCallback, Reducers, NeedsDefault
<1>3. CASE l = c.list
  BY <1>1, <1>2, <1>3 DEF Typed, Touches, TypeLeft, TypeAfter
<1>4. CASE l # c.list
  BY <1>1, <1>4 DEF Typed, Touches, TypeLeft
<1> QED
  BY <1>3, <1>4

\* So what a condition skips keeps what is known.
LEMMA SkippedKeeps ==
  ASSUME NEW code, NEW k \in Nat, k > 0, NEW e \in Nat, NEW l, l # Nothing, k <= e,
         \A p \in k .. (e - 1) :
           /\ Typed(code, p) /\ code[p].kind # "map"
           /\ code[p].kind \in WithCallback => Callbacks[code[p].f].adds # code[p].list
  PROVE  Known(code, l, k) \in {Nothing, Known(code, l, e)}
<1> DEFINE T == {d \in Nat : Known(code, l, k) \in {Nothing, Known(code, l, k + d)}}
           N == e - k
<1>1. N \in Nat /\ k + 0 = k /\ k + N = e
  OBVIOUS
<1>2. 0 \in T
  BY <1>1
<1>3. ASSUME NEW d \in T, d < N
      PROVE  d + 1 \in T
  <2>1. d \in Nat /\ k + d \in k .. (e - 1) /\ k + d \in Nat /\ k + d > 0 /\ k + (d + 1) = k + d + 1
    BY <1>3
  <2>2. Known(code, l, k + d) \in {Nothing, Known(code, l, k + d + 1)}
    BY <2>1, StepKeeps
  <2> QED
    BY <2>1, <2>2
<1> HIDE DEF T, N
<1>4. T \in SUBSET Nat
  BY DEF T
<1>5. 0 .. N \subseteq T
  BY <1>1, <1>2, <1>3, <1>4, InductionUpTo
<1>6. N \in T
  BY <1>1, <1>5
<1> QED
  BY <1>1, <1>6 DEF T

\* What is known of the operation that runs.
LEMMA OpTyped ==
  ASSUME PipelineInv, TypingInv, AtOp
  PROVE  /\ pc \in Nat /\ pc > 0 /\ Typed(built.code, pc) /\ Op = built.code[pc] /\ Op.list \in Lists
         /\ Op.kind \in WithCallback =>
              /\ Op.f \in DOMAIN Callbacks /\ Callbacks[Op.f].adds # Op.list
              /\ Callbacks[Op.f].adds = Nothing \/ Callbacks[Op.f].adds \in Lists
         /\ \A l \in Lists : \A k \in DOMAIN lists[l] :
              lists[l][k].t \in Types /\ lists[l][k].t # Nothing /\ lists[l][k].t = KnownNow(l)
         /\ i > 0 /\ Op.kind = "map" => \A k \in DOMAIN acc.tmp : acc.tmp[k].t = Callbacks[Op.f].out
<1>1. status = "running" /\ pc \in DOMAIN built.code /\ pc \in 1 .. Len(built.code) /\ Len(built.code) \in Nat
      /\ Op.list \in Lists
  BY AtOpFacts DEF AtOp
<1>2. built.err = Nothing
  BY <1>1 DEF PipelineInv, Staged
<1>3. Typed(built.code, pc)
  BY <1>1, <1>2 DEF TypingInv, CodeTyped
<1>4. Op.kind \in WithCallback =>
        /\ Op.f \in DOMAIN Callbacks /\ Callbacks[Op.f].adds # Op.list
        /\ Callbacks[Op.f].adds = Nothing \/ Callbacks[Op.f].adds \in Lists
  BY AtOpFacts, BodyFacts
<1>5. /\ \A l \in Lists : \A k \in DOMAIN lists[l] : lists[l][k].t \in Types /\ lists[l][k].t = KnownNow(l)
      /\ i > 0 /\ Op.kind = "map" => \A k \in DOMAIN acc.tmp : acc.tmp[k].t = Callbacks[Op.f].out
  BY <1>1 DEF TypingInv, ItemsTyped
<1>6. \A t \in Types : t # Nothing
  BY TypesAssumption
<1>7. pc \in Nat /\ pc > 0 /\ Op = built.code[pc]
  BY <1>1 DEF Op
<1> QED
  BY <1>1, <1>3, <1>4, <1>5, <1>6, <1>7, Zenon

\* A step of a run leaves what is compiled alone.
LEMMA RunningTyping ==
  ASSUME TypingInv, UNCHANGED <<todo, built>>, ItemsTyped'
  PROVE  TypingInv'
BY SameCodeTyped DEF TypingInv

\* The condition of a statement is false: none of what is skipped would have
\* changed a type.
LEMMA SkipTyping ==
  ASSUME PipelineInv, TypingInv, Skip
  PROVE  TypingInv'
<1>1. AtOp /\ i = 0 /\ Op.cond /\ pc' = Op.end /\ UNCHANGED <<todo, built, cap, lists, i, acc, was, status>>
  BY DEF Skip
<1>2. /\ pc \in Nat /\ pc > 0 /\ Typed(built.code, pc) /\ Op = built.code[pc] /\ Op.list \in Lists
      /\ \A l \in Lists : \A k \in DOMAIN lists[l] :
           lists[l][k].t \in Types /\ lists[l][k].t # Nothing /\ lists[l][k].t = KnownNow(l)
  BY <1>1, OpTyped
<1>3. /\ pc \in 1 .. Len(built.code) /\ DOMAIN built.code = 1 .. Len(built.code) /\ Len(built.code) \in Nat
      /\ Op.end \in 1 .. (Len(built.code) + 1) /\ built.err = Nothing
  BY <1>1, AtOpFacts DEF PipelineInv, Staged
<1>4. pc < Op.end /\ \A p \in pc .. Len(built.code) : p < Op.end => built.code[p].kind # "map"
  BY <1>1, <1>2 DEF Typed
<1>5. ASSUME NEW p \in pc .. (Op.end - 1)
      PROVE  /\ Typed(built.code, p) /\ built.code[p].kind # "map"
             /\ built.code[p].kind \in WithCallback => Callbacks[built.code[p].f].adds # built.code[p].list
  <2>1. p \in DOMAIN built.code /\ p \in pc .. Len(built.code) /\ p < Op.end
    BY <1>3
  <2>2. Sound(built.code[p], built.child, Len(built.code) + Coming + 1)
    BY <1>3, <2>1 DEF PipelineInv, CodeSound
  <2>3. Typed(built.code, p)
    BY <1>3, <2>1 DEF TypingInv, CodeTyped
  <2> QED
    BY <1>4, <2>1, <2>2, <2>3 DEF Sound
<1>6. ASSUME NEW l \in Lists
      PROVE  Known(built.code, l, pc) \in {Nothing, Known(built.code, l, Op.end)}
  <2>1. l # Nothing /\ Op.end \in Nat /\ pc <= Op.end
    BY <1>2, <1>3, <1>4, ListsAssumption
  <2> QED
    BY <1>2, <1>5, <2>1, SkippedKeeps
<1>7. \A l \in Lists : KnownNow(l) = Known(built.code, l, pc) /\ KnownNow(l)' = Known(built.code, l, Op.end)
  BY <1>1 DEF KnownNow
<1>8. \A l \in Lists : \A k \in DOMAIN lists[l] : lists[l][k].t \in Types /\ lists[l][k].t = KnownNow(l)'
  BY <1>2, <1>6, <1>7
<1>9. ItemsTyped'
  BY <1>1, <1>8 DEF ItemsTyped
<1> QED
  BY <1>1, <1>9, RunningTyping

\* An operation begins: the list its body adds to is known by what it will add.
LEMMA BeginOpTyping ==
  ASSUME PipelineInv, TypingInv, BeginOp
  PROVE  TypingInv'
<1>1. AtOp /\ i = 0 /\ i' = 1 /\ acc' = NoLocals /\ UNCHANGED <<todo, built, cap, lists, pc, status>>
  BY DEF BeginOp
<1>2. /\ pc \in Nat /\ pc > 0 /\ Typed(built.code, pc) /\ Op = built.code[pc] /\ Op.list \in Lists
      /\ Op.kind \in WithCallback => Callbacks[Op.f].adds # Op.list
      /\ \A l \in Lists : \A k \in DOMAIN lists[l] :
           lists[l][k].t \in Types /\ lists[l][k].t # Nothing /\ lists[l][k].t = KnownNow(l)
  BY <1>1, OpTyped
<1>3. Op' = Op
  BY <1>1 DEF Op
<1>4. ASSUME NEW l \in Lists
      PROVE  KnownNow(l) \in {Nothing, KnownNow(l)'}
  <2>1. KnownNow(l) = Known(built.code, l, pc)
    BY <1>1 DEF KnownNow
  <2>2. CASE l = Op.list
    BY <1>1, <1>3, <2>1, <2>2 DEF KnownNow
  <2>3. CASE l # Op.list
    <3>1. KnownNow(l)' = Known(built.code, l, pc + 1)
      BY <1>1, <1>3, <2>3 DEF KnownNow
    <3>2. Known(built.code, l, pc + 1) = IF Touches(Op, l) THEN TypeLeft(Op, l) ELSE Known(built.code, l, pc)
      BY <1>2, KnownStep
    <3>3. l # Nothing
      BY ListsAssumption
    <3> QED
      BY <1>2, <2>1, <2>3, <3>1, <3>2, <3>3 DEF Typed, Touches, TypeLeft
  <2> QED
    BY <2>2, <2>3
<1>5. \A l \in Lists : \A k \in DOMAIN lists[l] : lists[l][k].t \in Types /\ lists[l][k].t = KnownNow(l)'
  BY <1>2, <1>4
<1>6. acc'.tmp = <<>>
  BY <1>1 DEF NoLocals
<1>7. ItemsTyped'
  BY <1>1, <1>3, <1>5, <1>6 DEF ItemsTyped
<1> QED
  BY <1>1, <1>7, RunningTyping

\* What map has collected so far.
LEMMA CollectedMap ==
  ASSUME PipelineInv, NEW op, NEW r
  PROVE  Collect(op, r).tmp = IF op.kind = "map" THEN Append(acc.tmp, [t |-> Callbacks[op.f].out, v |-> r]) ELSE acc.tmp
<1>1. acc \in Locals
  BY DEF PipelineInv
<1> DEFINE moved == Moves(Callbacks[op.f])
           found == IF Decides(op, r) THEN i ELSE acc.found
           out == IF op.kind = "filter" /\ r = 1 THEN acc.out + 1 ELSE acc.out
           best == IF acc.n = 0 \/ (op.kind = "min" /\ r < acc.best) \/ (op.kind = "max" /\ r > acc.best) THEN r ELSE acc.best
           tmp == IF op.kind = "map" THEN Append(acc.tmp, [t |-> Callbacks[op.f].out, v |-> r]) ELSE acc.tmp
<1>2. Collect(op, r) = [acc EXCEPT !.moved = moved, !.found = found, !.out = out, !.sum = acc.sum + r, !.n = acc.n + 1,
                                   !.best = best, !.tmp = tmp]
  BY <1>1 DEF Collect, Locals
<1> HIDE DEF moved, found, out, best, tmp
<1>3. Collect(op, r).tmp = tmp
  BY <1>1, <1>2 DEF Locals
<1> QED
  BY <1>3 DEF tmp

\* The body yields for an element: what it adds is of the type its list is known
\* by from the start.
LEMMA ElementTyping ==
  ASSUME PipelineInv, TypingInv, Element, PipelineInv'
  PROVE  TypingInv'
<1> DEFINE f == Callbacks[Op.f]
           l == Op.list
           now == lists[l]
           item == now[i]
           r == f.of[item.v]
           kept == Compacted(Op, item, r)
<1>1. /\ Looping /\ AtOp /\ i > 0 /\ i <= Len(now) /\ Op.kind \in WithCallback
      /\ lists' = IF f.adds = Nothing THEN kept ELSE [kept EXCEPT ![f.adds] = Append(@, item)]
      /\ acc' = Collect(Op, r)
      /\ UNCHANGED <<todo, built, cap, pc, was, status>>
  BY DEF Element, Looping
<1>2. /\ pc \in Nat /\ pc > 0 /\ Typed(built.code, pc) /\ Op = built.code[pc] /\ l \in Lists
      /\ f.adds # l /\ (f.adds = Nothing \/ f.adds \in Lists)
      /\ \A m \in Lists : \A k \in DOMAIN lists[m] :
           lists[m][k].t \in Types /\ lists[m][k].t # Nothing /\ lists[m][k].t = KnownNow(m)
      /\ Op.kind = "map" => \A k \in DOMAIN acc.tmp : acc.tmp[k].t = f.out
  BY <1>1, OpTyped
<1>3. Op' = Op
  BY <1>1 DEF Op
<1>4. i' > 0
  <2>1. now \in Seq(Items) /\ i \in Nat
    BY <1>1, AtOpFacts DEF PipelineInv, TypeOK
  <2>2. Len(now) \in Nat
    BY <2>1
  <2>3. i' = Len(now) + 1 \/ i' = i + 1
    BY DEF Element
  <2> HIDE DEF now
  <2> QED
    BY <2>1, <2>2, <2>3
<1>5. \A m \in Lists : KnownNow(m)' = KnownNow(m)
  BY <1>1, <1>3, <1>4 DEF KnownNow
<1>6. kept \in [Lists -> Seq(Items)] /\ Keeps(kept[l], now, i) /\ \A m \in Lists : m # l => kept[m] = lists[m]
  <2>1. lists \in [Lists -> Seq(Items)]
    BY DEF PipelineInv, TypeOK
  <2> QED
    BY <1>1, <1>2, <2>1, CompactedFacts DEF Compacted
<1>7. now \in Seq(Items) /\ item.t \in Types /\ item.t # Nothing /\ item.t = KnownNow(l) /\ item \in Items
  <2>1. now \in Seq(Items) /\ i \in Nat
    BY <1>1, AtOpFacts DEF PipelineInv, TypeOK
  <2>2. i \in DOMAIN now
    <3>1. i > 0 /\ i <= Len(now)
      BY <1>1
    <3> HIDE DEF now
    <3>2. DOMAIN now = 1 .. Len(now) /\ Len(now) \in Nat
      BY <2>1
    <3> QED
      BY <2>1, <3>1, <3>2
  <2>3. item \in Items
    <3> HIDE DEF now
    <3> QED
      BY <2>1, <2>2, ElementOfSeq
  <2> QED
    BY <1>2, <2>1, <2>2, <2>3
<1>8. f.adds # Nothing => item.t = KnownNow(f.adds)
  <2> SUFFICES ASSUME f.adds # Nothing PROVE item.t = KnownNow(f.adds)
    OBVIOUS
  <2>1. "add_to" \notin WithCallback
    BY DEF WithCallback, Reducers, NeedsDefault
  <2>2. KnownNow(l) = Known(built.code, l, pc) /\ KnownNow(f.adds) = Known(built.code, f.adds, pc + 1)
    BY <1>1, <1>2 DEF KnownNow
  <2>3. Op.input = item.t
    BY <1>1, <1>2, <1>7, <2>1, <2>2 DEF Typed
  <2>4. Known(built.code, f.adds, pc + 1) = TypeLeft(Op, f.adds)
    <3>1. Touches(Op, f.adds)
      BY <1>1 DEF Touches
    <3> QED
      BY <1>2, <3>1, KnownStep
  <2>5. TypeLeft(Op, f.adds) = Op.input
    BY <1>2, <1>7, <2>3 DEF TypeLeft, ElementType
  <2> QED
    BY <2>2, <2>3, <2>4, <2>5
<1>9. \A m \in Lists : \A k \in DOMAIN kept[m] : kept[m][k].t \in Types /\ kept[m][k].t = KnownNow(m)
  <2>1. \A k \in DOMAIN kept[l] : \E j \in DOMAIN now : kept[l][k] = now[j]
    <3>1. kept[l] \in Seq(Items) /\ Len(kept[l]) = Len(now) /\ \A k \in DOMAIN now : \E j \in DOMAIN now : kept[l][k] = now[j]
      BY <1>2, <1>6 DEF Keeps
    <3> DEFINE new == kept[l]
    <3> HIDE DEF now, new
    <3>2. DOMAIN new = DOMAIN now
      BY <1>7, <3>1, LenProperties DEF new
    <3> QED
      BY <3>1, <3>2 DEF new
  <2>2. \A m \in Lists : m # l => kept[m] = lists[m]
    BY <1>6
  <2> HIDE DEF kept, item
  <2> QED
    BY <1>2, <2>1, <2>2
<1>10. \A m \in Lists : \A k \in DOMAIN lists'[m] : lists'[m][k].t \in Types /\ lists'[m][k].t = KnownNow(m)
  <2>1. CASE f.adds = Nothing
    BY <1>1, <1>9, <2>1
  <2>2. CASE f.adds # Nothing
    <3> DEFINE a == f.adds
    <3>1. a \in Lists /\ lists' = [kept EXCEPT ![a] = Append(kept[a], item)]
      BY <1>1, <1>2, <2>2
    <3>2. item.t = KnownNow(a)
      BY <1>8, <2>2
    <3> HIDE DEF a, kept, item, now
    <3>3. kept[a] \in Seq(Items)
      BY <1>6, <3>1
    <3>4. ASSUME NEW k \in DOMAIN Append(kept[a], item)
          PROVE  Append(kept[a], item)[k].t \in Types /\ Append(kept[a], item)[k].t = KnownNow(a)
      <4> DEFINE q == kept[a]
      <4>1. /\ q \in Seq(Items) /\ DOMAIN Append(q, item) = 1 .. (Len(q) + 1)
            /\ Append(q, item)[Len(q) + 1] = item /\ \A j \in 1 .. Len(q) : Append(q, item)[j] = q[j]
            /\ DOMAIN q = 1 .. Len(q) /\ Len(q) \in Nat
        BY <3>3
      <4>2. CASE k = Len(q) + 1
        BY <1>7, <3>2, <4>1, <4>2
      <4>3. CASE k # Len(q) + 1
        <5>1. k \in DOMAIN q /\ Append(q, item)[k] = q[k]
          BY <4>1, <4>3
        <5> QED
          BY <1>9, <3>1, <5>1
      <4> QED
        BY <4>2, <4>3
    <3>5. lists'[a] = Append(kept[a], item) /\ \A m \in Lists : m # a => lists'[m] = kept[m]
      BY <1>6, <3>1
    <3> QED
      BY <1>9, <3>4, <3>5
  <2> QED
    BY <2>1, <2>2
<1>11. Op.kind = "map" => \A k \in DOMAIN acc'.tmp : acc'.tmp[k].t = f.out
  <2> SUFFICES ASSUME Op.kind = "map" PROVE \A k \in DOMAIN acc'.tmp : acc'.tmp[k].t = f.out
    OBVIOUS
  <2> DEFINE e == [t |-> f.out, v |-> r]
  <2>1. acc'.tmp = Append(acc.tmp, e)
    BY <1>1, CollectedMap
  <2>2. acc.tmp \in Seq(Items)
    BY DEF PipelineInv, Locals
  <2>3. e.t = f.out
    OBVIOUS
  <2> HIDE DEF e, f
  <2> QED
    BY <1>2, <2>1, <2>2, <2>3
<1>12. ItemsTyped'
  <2> HIDE DEF f, now, item, r, kept
  <2> QED
    BY <1>3, <1>5, <1>10, <1>11 DEF ItemsTyped, f
<1> QED
  BY <1>1, <1>12, RunningTyping

\* An operation ends: its list holds what the operation leaves it known by.
LEMMA EndOpTyping ==
  ASSUME PipelineInv, TypingInv, EndOp
  PROVE  TypingInv'
<1> DEFINE l == Op.list
           now == lists[l]
<1>1. PICK v \in Values :
        /\ AtOp /\ i > 0 /\ lists' = [lists EXCEPT ![l] = Written(Op, v)]
        /\ pc' = pc + 1 /\ i' = 0
        /\ UNCHANGED <<todo, built, cap, acc, was, status>>
  BY DEF EndOp
<1>2. /\ pc \in Nat /\ pc > 0 /\ Typed(built.code, pc) /\ Op = built.code[pc] /\ l \in Lists
      /\ Op.kind \in WithCallback => Op.f \in DOMAIN Callbacks
      /\ \A m \in Lists : \A k \in DOMAIN lists[m] :
           lists[m][k].t \in Types /\ lists[m][k].t # Nothing /\ lists[m][k].t = KnownNow(m)
      /\ Op.kind = "map" => \A k \in DOMAIN acc.tmp : acc.tmp[k].t = Callbacks[Op.f].out
  BY <1>1, OpTyped
<1>3. /\ KnownNow(l) = Known(built.code, l, pc)
      /\ \A m \in Lists : m # l => KnownNow(m) = Known(built.code, m, pc + 1)
      /\ \A m \in Lists : KnownNow(m)' = Known(built.code, m, pc + 1)
  BY <1>1 DEF KnownNow
<1>4. Known(built.code, l, pc + 1) = TypeLeft(Op, l)
  <2>1. Touches(Op, l)
    BY DEF Touches
  <2> QED
    BY <1>2, <2>1, KnownStep
<1>5. /\ now \in Seq(Items) /\ lists \in [Lists -> Seq(Items)] /\ acc.tmp \in Seq(Items) /\ acc.out \in Nat
      /\ acc.out < i /\ i <= Len(now) + 1 /\ i \in Nat /\ Len(now) \in Nat /\ DOMAIN now = 1 .. Len(now)
  <2>1. /\ now \in Seq(Items) /\ lists \in [Lists -> Seq(Items)] /\ acc.tmp \in Seq(Items) /\ acc.out \in Nat
        /\ acc.out < i /\ i <= Len(now) + 1 /\ i \in Nat
    BY <1>1, AtOpFacts DEF PipelineInv, TypeOK, Locals
  <2> QED
    BY <2>1, LenProperties
<1> DEFINE Fine(q) == \A k \in DOMAIN q : q[k].t \in Types /\ q[k].t = TypeLeft(Op, l)
<1>6. "add_to" \notin WithCallback /\ "clear" \notin WithCallback
  BY DEF WithCallback, Reducers, NeedsDefault
<1>7. Op.kind # "map" => Fine(now)
  <2> SUFFICES ASSUME Op.kind # "map", NEW k \in DOMAIN now
               PROVE  now[k].t = TypeLeft(Op, l) /\ now[k].t \in Types
    OBVIOUS
  <2>1. now[k].t \in Types /\ now[k].t # Nothing /\ now[k].t = Known(built.code, l, pc)
    BY <1>2, <1>3
  <2>2. Op.input = now[k].t
    BY <1>2, <2>1 DEF Typed
  <2> QED
    BY <1>6, <2>1, <2>2 DEF TypeLeft, TypeAfter
<1>8. Fine(Written(Op, v))
  <2>1. CASE Op.kind = "add_to"
    <3> DEFINE e == [t |-> Op.def, v |-> v]
    <3>1. Written(Op, v) = Append(now, e)
      BY <2>1 DEF Written
    <3>2. e.t \in Types /\ e.t = TypeLeft(Op, l)
      BY <1>2, <1>6, <2>1 DEF Typed, TypeLeft
    <3>3. Fine(now)
      BY <1>7, <2>1
    <3> HIDE DEF e, now
    <3>4. /\ DOMAIN Append(now, e) = 1 .. (Len(now) + 1) /\ Append(now, e)[Len(now) + 1] = e
          /\ \A k \in 1 .. Len(now) : Append(now, e)[k] = now[k]
      BY <1>5
    <3>5. \A k \in 1 .. (Len(now) + 1) : k \in 1 .. Len(now) \/ k = Len(now) + 1
      BY <1>5
    <3> QED
      BY <1>5, <3>1, <3>2, <3>3, <3>4, <3>5
  <2>2. CASE Op.kind = "clear"
    <3>1. Written(Op, v) = <<>>
      BY <2>2 DEF Written
    <3> QED
      BY <3>1
  <2>3. CASE Op.kind = "filter"
    <3>1. Written(Op, v) = SubSeq(now, 1, acc.out) /\ Fine(now)
      BY <1>7, <2>3 DEF Written
    <3> HIDE DEF now
    <3>2. \A k \in 1 .. acc.out : k \in 1 .. Len(now) /\ now[k] \in Items
      BY <1>5, ElementOfSeq
    <3>3. /\ DOMAIN SubSeq(now, 1, acc.out) = 1 .. acc.out
          /\ \A k \in 1 .. acc.out : SubSeq(now, 1, acc.out)[k] = now[k]
      BY <1>5, <3>2, SubSeqProperties
    <3> QED
      BY <1>5, <3>1, <3>2, <3>3
  <2>4. CASE Op.kind = "map"
    <3>1. Written(Op, v) = acc.tmp
      BY <2>4 DEF Written
    <3>2. Op.kind \in WithCallback
      BY <2>4 DEF WithCallback
    <3>3. TypeLeft(Op, l) = Callbacks[Op.f].out
      BY <2>4, <3>2 DEF TypeLeft, TypeAfter
    <3>4. Callbacks[Op.f].out \in Types
      BY <1>2, <3>2, CallbacksAssumption DEF CallbacksAssumption
    <3> QED
      BY <1>2, <2>4, <3>1, <3>3, <3>4
  <2>5. CASE Op.kind \notin {"add_to", "clear", "filter", "map"}
    <3>1. Written(Op, v) = now
      BY <2>5 DEF Written
    <3> QED
      BY <1>7, <2>5, <3>1
  <2> QED
    BY <2>1, <2>2, <2>3, <2>4, <2>5
<1>9. lists'[l] = Written(Op, v) /\ \A m \in Lists : m # l => lists'[m] = lists[m]
  BY <1>1, <1>2, <1>5
<1>10. \A m \in Lists : \A k \in DOMAIN lists'[m] : lists'[m][k].t \in Types /\ lists'[m][k].t = KnownNow(m)'
  <2> HIDE DEF l, now
  <2> QED
    BY <1>2, <1>3, <1>4, <1>8, <1>9
<1>11. ItemsTyped'
  BY <1>1, <1>10 DEF ItemsTyped
<1> QED
  BY <1>1, <1>11, RunningTyping

\* The invariant is inductive.
LEMMA TypingStep ==
  ASSUME PipelineInv, TypingInv, [Next]_vars, PipelineInv'
  PROVE  TypingInv'
<1>1. CASE EndCompilation \/ ElementFails \/ EndRun
  <2>1. UNCHANGED <<todo, built>> /\ status' # "running"
    BY <1>1 DEF EndCompilation, ElementFails, EndRun
  <2> QED
    BY <2>1, RunningTyping DEF ItemsTyped
<1>2. CASE UNCHANGED vars
  <2>1. UNCHANGED <<todo, built, lists, pc, i, acc, status>>
    BY <1>2 DEF vars
  <2>2. ItemsTyped'
    BY <2>1 DEF TypingInv, ItemsTyped, KnownNow, AtOp, Op
  <2> QED
    BY <2>1, <2>2, RunningTyping
<1> QED
  BY <1>1, <1>2, CompileOpTyping, CompileStatementTyping, RunTyping, SkipTyping, BeginOpTyping, ElementTyping,
     EndOpTyping DEF Next

-----------------------------------------------------------------------------
(* The theorems *)

\* At each command of a run the lists hold what the compiler knew of them there.
THEOREM TypingInvHolds ==
  ASSUME MapsUnconditional
  PROVE  Spec => []TypingInv
<1>1. Init => PipelineInv /\ TypingInv
  BY InitInv, InitTyping
<1>2. PipelineInv /\ TypingInv /\ PipelineInv' /\ [Next]_vars => TypingInv'
  BY TypingStep
<1> QED
  BY <1>1, <1>2, PipelineInvHolds, PTL DEF Spec

\* Every element an operation handles is of the type its body was compiled for,
\* which is the one it was added or mapped with: for every program, every set of
\* bodies, lists that nothing types and bodies that add to other lists included.
THEOREM ElementsAreTyped ==
  ASSUME MapsUnconditional
  PROVE  Spec => []ElementsHaveTheirType
<1>1. PipelineInv /\ TypingInv => ElementsHaveTheirType
  <2> SUFFICES ASSUME PipelineInv, TypingInv, AtOp, i > 0, NEW k \in i .. Len(lists[Op.list])
               PROVE  lists[Op.list][k].t = InputType(Op)
    BY DEF ElementsHaveTheirType
  <2> DEFINE now == lists[Op.list]
  <2>1. now \in Seq(Items) /\ i \in Nat
    BY AtOpFacts DEF PipelineInv, TypeOK
  <2>2. k \in DOMAIN now
    <3> HIDE DEF now
    <3>1. Len(now) \in Nat /\ DOMAIN now = 1 .. Len(now)
      BY <2>1
    <3>2. k \in i .. Len(now)
      BY DEF now
    <3> QED
      BY <2>1, <3>1, <3>2
  <2>3. now[k].t \in Types /\ now[k].t # Nothing /\ now[k].t = Known(built.code, Op.list, pc)
    BY <2>2, OpTyped DEF KnownNow
  <2>4. Op.input = now[k].t
    BY <2>3, OpTyped DEF Typed
  <2> QED
    BY <2>3, <2>4 DEF InputType
<1> QED
  BY <1>1, PipelineInvHolds, TypingInvHolds, PTL

=============================================================================
