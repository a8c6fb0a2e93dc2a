--------------------------- MODULE ScriptRunProofs ---------------------------
(***************************************************************************)
(* Proofs about ScriptRun: whatever the host answers, the run of a         *)
(* certified stream is never misread, stays in its reserve, goes forward   *)
(* and ends with nothing on its stack.  The argument: a certificate is a   *)
(* set of layouts for each command; a machine is in place if its stack has *)
(* one of the layouts of the command it is at; and every opcode leads from *)
(* a place to a place, which is shown for each group of opcodes.           *)
(***************************************************************************)
EXTENDS ScriptRun, SequenceTheorems, TLAPS

-----------------------------------------------------------------------------
(* Stacks and their layouts                                                *)

\* A sequence, of whatever its elements are.
Tuple(s) == s \in Seq(Range(s))

\* What is a sequence of something is a sequence of its own elements.
LEMMA TupleOfSeq ==
  ASSUME NEW S, NEW s \in Seq(S)
  PROVE  Tuple(s)
<1>1. s \in [1 .. Len(s) -> S] /\ Len(s) \in Nat /\ DOMAIN s = 1 .. Len(s)
  OBVIOUS
<1>2. s \in [1 .. Len(s) -> Range(s)]
  BY <1>1 DEF Range
<1> QED
  BY <1>1, <1>2 DEF Tuple

LEMMA TupleDomain ==
  ASSUME NEW s, Tuple(s)
  PROVE  Len(s) \in Nat /\ DOMAIN s = 1 .. Len(s)
BY DEF Tuple

\* A function on the numbers up to `n` is a sequence.
LEMMA TupleOfFunction ==
  ASSUME NEW n \in Nat, NEW S, NEW f \in [1 .. n -> S]
  PROVE  Tuple(f) /\ Len(f) = n
<1>1. f \in Seq(S) /\ Len(f) = n
  OBVIOUS
<1> QED
  BY <1>1, TupleOfSeq

LEMMA SameTuple ==
  ASSUME NEW s, NEW t, Tuple(s), Tuple(t), Len(s) = Len(t), \A k \in 1 .. Len(s) : s[k] = t[k]
  PROVE  s = t
<1>1. s \in Seq(Range(s) \union Range(t)) /\ t \in Seq(Range(s) \union Range(t))
  BY SeqMonotonic DEF Tuple
<1> QED
  BY <1>1, SeqEqual

LEMMA ConcatTuple ==
  ASSUME NEW s, NEW t, Tuple(s), Tuple(t)
  PROVE  /\ Tuple(s \o t) /\ Len(s \o t) = Len(s) + Len(t)
         /\ \A k \in 1 .. Len(s) + Len(t) : (s \o t)[k] = IF k <= Len(s) THEN s[k] ELSE t[k - Len(s)]
<1>1. s \in Seq(Range(s) \union Range(t)) /\ t \in Seq(Range(s) \union Range(t))
  BY SeqMonotonic DEF Tuple
<1>2. s \o t \in Seq(Range(s) \union Range(t))
  BY <1>1, ConcatProperties
<1> QED
  BY <1>1, <1>2, ConcatProperties, TupleOfSeq

LEMMA PartOfTuple ==
  ASSUME NEW s, Tuple(s), NEW i \in Nat, NEW j \in Nat, 1 <= i, i <= j + 1, j <= Len(s)
  PROVE  /\ Tuple(SubSeq(s, i, j)) /\ Len(SubSeq(s, i, j)) = j + 1 - i
         /\ \A k \in 1 .. j + 1 - i : SubSeq(s, i, j)[k] = s[k + i - 1]
<1>1. \A k \in i .. j : s[k] \in Range(s)
  BY TupleDomain DEF Range
<1>2. SubSeq(s, i, j) \in Seq(Range(s)) /\ Len(SubSeq(s, i, j)) = IF i <= j THEN j - i + 1 ELSE 0
  BY <1>1, SubSeqProperties
<1>3. \A k \in 1 .. j - i + 1 : SubSeq(s, i, j)[k] = s[i + k - 1]
  BY <1>1, SubSeqProperties
<1>4. j - i + 1 = j + 1 - i /\ \A k \in 1 .. j + 1 - i : i + k - 1 = k + i - 1
  OBVIOUS
<1>5. Len(SubSeq(s, i, j)) = j + 1 - i
  BY <1>2
<1>6. \A k \in 1 .. j + 1 - i : SubSeq(s, i, j)[k] = s[k + i - 1]
  BY <1>3, <1>4
<1> QED
  BY <1>2, <1>5, <1>6, TupleOfSeq

LEMMA LayoutTuple ==
  ASSUME NEW s, Tuple(s)
  PROVE  /\ Tuple(Layout(s)) /\ Len(Layout(s)) = Len(s) /\ DOMAIN Layout(s) = DOMAIN s
         /\ \A k \in 1 .. Len(s) : Layout(s)[k] = s[k].t
<1>1. Len(s) \in Nat /\ DOMAIN s = 1 .. Len(s)
  BY TupleDomain
<1>2. Layout(s) \in [1 .. Len(s) -> {s[k].t : k \in DOMAIN s}]
  BY <1>1 DEF Layout
<1> QED
  BY <1>1, <1>2, TupleOfFunction DEF Layout

\* A sequence of types is the layout of a stack if it has the types of its
\* operands.
LEMMA LayoutIs ==
  ASSUME NEW s, Tuple(s), NEW l, Tuple(l), Len(l) = Len(s), \A k \in 1 .. Len(s) : l[k] = s[k].t
  PROVE  Layout(s) = l
BY LayoutTuple, SameTuple

LEMMA LayoutOfOne ==
  ASSUME NEW v
  PROVE  /\ Tuple(<<v>>) /\ Len(<<v>>) = 1 /\ <<v>>[1] = v
         /\ Layout(<<v>>) = <<v.t>> /\ Tuple(<<>>) /\ Len(<<>>) = 0 /\ Layout(<<>>) = <<>>
<1>1. Tuple(<<v>>) /\ Tuple(<<v.t>>) /\ Tuple(<<>>)
  <2>1. <<v>> \in Seq({v}) /\ <<v.t>> \in Seq({v.t}) /\ <<>> \in Seq({v})
    OBVIOUS
  <2> QED
    BY <2>1, TupleOfSeq
<1>2. Layout(<<v>>) = <<v.t>>
  BY <1>1, LayoutIs
<1>3. Layout(<<>>) = <<>>
  BY <1>1, LayoutIs
<1> QED
  BY <1>1, <1>2, <1>3

LEMMA RetopTuple ==
  ASSUME NEW s, Tuple(s), NEW n \in Nat, n <= Len(s), NEW new, Tuple(new)
  PROVE  /\ Tuple(Retop(s, n, new)) /\ Len(Retop(s, n, new)) = Len(s) - n + Len(new)
         /\ \A k \in 1 .. Len(s) - n + Len(new) :
              Retop(s, n, new)[k] = IF k <= Len(s) - n THEN s[k] ELSE new[k - (Len(s) - n)]
<1>1. Len(s) \in Nat /\ Len(new) \in Nat /\ Len(s) - n \in Nat /\ 1 <= Len(s) - n + 1 /\ Len(s) - n <= Len(s)
  BY TupleDomain
<1> DEFINE kept == SubSeq(s, 1, Len(s) - n)
<1>2. /\ Tuple(kept) /\ Len(kept) = Len(s) - n + 1 - 1
      /\ \A k \in 1 .. Len(s) - n + 1 - 1 : kept[k] = s[k + 1 - 1]
  BY <1>1, PartOfTuple
<1>3. Len(kept) = Len(s) - n /\ \A k \in 1 .. Len(s) - n : kept[k] = s[k]
  BY <1>1, <1>2
<1> HIDE DEF kept
<1>4. /\ Tuple(kept \o new) /\ Len(kept \o new) = Len(kept) + Len(new)
      /\ \A k \in 1 .. Len(kept) + Len(new) : (kept \o new)[k] = IF k <= Len(kept) THEN kept[k] ELSE new[k - Len(kept)]
  BY <1>2, ConcatTuple
<1>5. Retop(s, n, new) = kept \o new
  BY DEF Retop, kept
<1> QED
  BY <1>1, <1>3, <1>4, <1>5

LEMMA CutOutTuple ==
  ASSUME NEW s, Tuple(s), NEW p \in Nat, NEW n \in Nat, 1 <= p, p + n <= Len(s) + 1
  PROVE  /\ Tuple(CutOut(s, p, n)) /\ Len(CutOut(s, p, n)) = Len(s) - n
         /\ \A k \in 1 .. Len(s) - n : CutOut(s, p, n)[k] = IF k < p THEN s[k] ELSE s[k + n]
<1> DEFINE low == SubSeq(s, 1, p - 1)
           high == SubSeq(s, p + n, Len(s))
<1>1. Len(s) \in Nat /\ p - 1 \in Nat /\ p + n \in Nat
  BY TupleDomain
<1>2. Tuple(low) /\ Len(low) = p - 1 + 1 - 1 /\ \A k \in 1 .. p - 1 + 1 - 1 : low[k] = s[k + 1 - 1]
  BY <1>1, PartOfTuple
<1>3. /\ Tuple(high) /\ Len(high) = Len(s) + 1 - (p + n)
      /\ \A k \in 1 .. Len(s) + 1 - (p + n) : high[k] = s[k + (p + n) - 1]
  BY <1>1, PartOfTuple
<1>4. Len(low) = p - 1 /\ \A k \in 1 .. p - 1 : low[k] = s[k]
  BY <1>1, <1>2
<1> HIDE DEF low, high
<1>5. /\ Tuple(low \o high) /\ Len(low \o high) = Len(low) + Len(high)
      /\ \A k \in 1 .. Len(low) + Len(high) : (low \o high)[k] = IF k <= Len(low) THEN low[k] ELSE high[k - Len(low)]
  BY <1>2, <1>3, ConcatTuple
<1>6. CutOut(s, p, n) = low \o high
  BY DEF CutOut, low, high
<1>8. Len(low) + Len(high) = Len(s) - n
  BY <1>1, <1>3, <1>4
<1>7. ASSUME NEW k \in 1 .. Len(s) - n
      PROVE  CutOut(s, p, n)[k] = IF k < p THEN s[k] ELSE s[k + n]
  <2>1. (low \o high)[k] = IF k <= Len(low) THEN low[k] ELSE high[k - Len(low)]
    BY <1>5, <1>8
  <2>2. CASE k < p
    <3>1. k <= Len(low) /\ k \in 1 .. p - 1
      BY <1>1, <1>4, <2>2
    <3> QED
      BY <1>4, <1>6, <2>1, <2>2, <3>1
  <2>3. CASE ~(k < p)
    <3>1. ~(k <= p - 1) /\ k - (p - 1) \in 1 .. Len(s) + 1 - (p + n) /\ k - (p - 1) + (p + n) - 1 = k + n
      BY <1>1, <2>3
    <3>2. high[k - (p - 1)] = s[k + n]
      BY <1>3, <3>1
    <3>3. Len(low) = p - 1
      BY <1>4
    <3> QED
      BY <1>6, <2>1, <2>3, <3>1, <3>2, <3>3
  <2> QED
    BY <2>2, <2>3
<1> QED
  BY <1>5, <1>6, <1>7, <1>8

\* The two ways a stack changes, seen by its layout.
LEMMA LayoutOfRetop ==
  ASSUME NEW s, Tuple(s), NEW n \in Nat, n <= Len(s), NEW new, Tuple(new)
  PROVE  Layout(Retop(s, n, new)) = Retop(Layout(s), n, Layout(new))
<1>1. Tuple(Layout(s)) /\ Len(Layout(s)) = Len(s) /\ Tuple(Layout(new)) /\ Len(Layout(new)) = Len(new)
  BY LayoutTuple
<1>2. Len(s) \in Nat /\ Len(new) \in Nat
  BY TupleDomain
<1>3. /\ Tuple(Retop(s, n, new)) /\ Len(Retop(s, n, new)) = Len(s) - n + Len(new)
      /\ \A k \in 1 .. Len(s) - n + Len(new) :
           Retop(s, n, new)[k] = IF k <= Len(s) - n THEN s[k] ELSE new[k - (Len(s) - n)]
  BY RetopTuple
<1> DEFINE l == Layout(s)
           p == Layout(new)
<1>4. /\ Tuple(Retop(l, n, p)) /\ Len(Retop(l, n, p)) = Len(l) - n + Len(p)
      /\ \A k \in 1 .. Len(l) - n + Len(p) :
           Retop(l, n, p)[k] = IF k <= Len(l) - n THEN l[k] ELSE p[k - (Len(l) - n)]
  BY <1>1, RetopTuple
<1>5. \A k \in 1 .. Len(s) - n + Len(new) : Retop(l, n, p)[k] = Retop(s, n, new)[k].t
  <2> TAKE k \in 1 .. Len(s) - n + Len(new)
  <2>1. CASE k <= Len(s) - n
    <3>1. k \in 1 .. Len(s)
      BY <1>2, <2>1
    <3> QED
      BY <1>1, <1>3, <1>4, <2>1, <3>1, LayoutTuple
  <2>2. CASE ~(k <= Len(s) - n)
    <3>1. k - (Len(s) - n) \in 1 .. Len(new)
      BY <1>2, <2>2
    <3> QED
      BY <1>1, <1>3, <1>4, <2>2, <3>1, LayoutTuple
  <2> QED
    BY <2>1, <2>2
<1> HIDE DEF l, p
<1>6. Layout(Retop(s, n, new)) = Retop(l, n, p)
  BY <1>1, <1>3, <1>4, <1>5, LayoutIs, SMTT(30) DEF l, p
<1> QED
  BY <1>6 DEF l, p

LEMMA LayoutOfCutOut ==
  ASSUME NEW s, Tuple(s), NEW p \in Nat, NEW n \in Nat, 1 <= p, p + n <= Len(s) + 1
  PROVE  Layout(CutOut(s, p, n)) = CutOut(Layout(s), p, n)
<1>1. Tuple(Layout(s)) /\ Len(Layout(s)) = Len(s) /\ Len(s) \in Nat
  BY LayoutTuple, TupleDomain
<1>2. /\ Tuple(CutOut(s, p, n)) /\ Len(CutOut(s, p, n)) = Len(s) - n
      /\ \A k \in 1 .. Len(s) - n : CutOut(s, p, n)[k] = IF k < p THEN s[k] ELSE s[k + n]
  BY CutOutTuple
<1> DEFINE l == Layout(s)
<1>3. /\ Tuple(CutOut(l, p, n)) /\ Len(CutOut(l, p, n)) = Len(l) - n
      /\ \A k \in 1 .. Len(l) - n : CutOut(l, p, n)[k] = IF k < p THEN l[k] ELSE l[k + n]
  BY <1>1, CutOutTuple
<1>4. \A k \in 1 .. Len(s) - n : CutOut(l, p, n)[k] = CutOut(s, p, n)[k].t
  <2> TAKE k \in 1 .. Len(s) - n
  <2>1. k \in 1 .. Len(s) /\ k + n \in 1 .. Len(s)
    BY <1>1
  <2> QED
    BY <1>1, <1>2, <1>3, <2>1, LayoutTuple
<1> HIDE DEF l
<1>5. Layout(CutOut(s, p, n)) = CutOut(l, p, n)
  BY <1>1, <1>2, <1>3, <1>4, LayoutIs, SMTT(30) DEF l
<1> QED
  BY <1>5 DEF l

-----------------------------------------------------------------------------
(* The machine as a record                                                 *)

Machine(stack, pc, saved, args, savedTypes, argTypes, ret, log, host, err) ==
  [stack |-> stack, pc |-> pc, saved |-> saved, args |-> args, savedTypes |-> savedTypes,
   argTypes |-> argTypes, ret |-> ret, log |-> log, env |-> host, err |-> err]

IsMachine(w) ==
  w = Machine(w.stack, w.pc, w.saved, w.args, w.savedTypes, w.argTypes, w.ret, w.log, w.env, w.err)

LEMMA MachineFields ==
  ASSUME NEW stack, NEW pc, NEW saved, NEW args, NEW savedTypes, NEW argTypes, NEW ret, NEW log, NEW host, NEW err,
         NEW w, w = Machine(stack, pc, saved, args, savedTypes, argTypes, ret, log, host, err)
  PROVE  /\ IsMachine(w)
         /\ w.stack = stack /\ w.pc = pc /\ w.saved = saved /\ w.args = args /\ w.savedTypes = savedTypes
         /\ w.argTypes = argTypes /\ w.ret = ret /\ w.log = log /\ w.env = host /\ w.err = err
BY DEF Machine, IsMachine

\* The ways a field of a machine is replaced.
LEMMA FieldReplaced ==
  ASSUME NEW w, IsMachine(w), NEW x
  PROVE  /\ [w EXCEPT !.stack = x] = Machine(x, w.pc, w.saved, w.args, w.savedTypes, w.argTypes, w.ret, w.log, w.env, w.err)
         /\ [w EXCEPT !.pc = x] = Machine(w.stack, x, w.saved, w.args, w.savedTypes, w.argTypes, w.ret, w.log, w.env, w.err)
         /\ [w EXCEPT !.saved = x] = Machine(w.stack, w.pc, x, w.args, w.savedTypes, w.argTypes, w.ret, w.log, w.env, w.err)
         /\ [w EXCEPT !.args = x] = Machine(w.stack, w.pc, w.saved, x, w.savedTypes, w.argTypes, w.ret, w.log, w.env, w.err)
         /\ [w EXCEPT !.ret = x] = Machine(w.stack, w.pc, w.saved, w.args, w.savedTypes, w.argTypes, x, w.log, w.env, w.err)
         /\ [w EXCEPT !.log = x] = Machine(w.stack, w.pc, w.saved, w.args, w.savedTypes, w.argTypes, w.ret, x, w.env, w.err)
         /\ [w EXCEPT !.err = x] = Machine(w.stack, w.pc, w.saved, w.args, w.savedTypes, w.argTypes, w.ret, w.log, w.env, x)
<1> SUFFICES ASSUME NEW stack, NEW pc, NEW saved, NEW args, NEW savedTypes, NEW argTypes, NEW ret, NEW log,
                    NEW host, NEW err, w = Machine(stack, pc, saved, args, savedTypes, argTypes, ret, log, host, err)
             PROVE  /\ [w EXCEPT !.stack = x] = Machine(x, pc, saved, args, savedTypes, argTypes, ret, log, host, err)
                    /\ [w EXCEPT !.pc = x] = Machine(stack, x, saved, args, savedTypes, argTypes, ret, log, host, err)
                    /\ [w EXCEPT !.saved = x] = Machine(stack, pc, x, args, savedTypes, argTypes, ret, log, host, err)
                    /\ [w EXCEPT !.args = x] = Machine(stack, pc, saved, x, savedTypes, argTypes, ret, log, host, err)
                    /\ [w EXCEPT !.ret = x] = Machine(stack, pc, saved, args, savedTypes, argTypes, x, log, host, err)
                    /\ [w EXCEPT !.log = x] = Machine(stack, pc, saved, args, savedTypes, argTypes, ret, x, host, err)
                    /\ [w EXCEPT !.err = x] = Machine(stack, pc, saved, args, savedTypes, argTypes, ret, log, host, x)
  BY DEF IsMachine
<1> QED
  BY DEF Machine

LEMMA Moves ==
  ASSUME NEW w, IsMachine(w), NEW n, NEW vals, NEW target, NEW why
  PROVE  /\ Continue(w) = Machine(w.stack, w.pc + 1, w.saved, w.args, w.savedTypes, w.argTypes, w.ret, w.log, w.env, w.err)
         /\ Replace(w, n, vals) =
              Machine(Retop(w.stack, n, vals), w.pc + 1, w.saved, w.args, w.savedTypes, w.argTypes, w.ret, w.log, w.env, w.err)
         /\ JumpTo(w, target) =
              Machine(w.stack, target, w.saved, w.args, w.savedTypes, w.argTypes, w.ret, w.log, w.env, w.err)
         /\ Abort(w, why) = Machine(w.stack, w.pc, w.saved, w.args, w.savedTypes, w.argTypes, w.ret, w.log, w.env, why)
<1>1. Continue(w) = Machine(w.stack, w.pc + 1, w.saved, w.args, w.savedTypes, w.argTypes, w.ret, w.log, w.env, w.err)
  BY FieldReplaced DEF Continue
<1>2. JumpTo(w, target) = Machine(w.stack, target, w.saved, w.args, w.savedTypes, w.argTypes, w.ret, w.log, w.env, w.err)
  BY FieldReplaced DEF JumpTo
<1>3. Abort(w, why) = Machine(w.stack, w.pc, w.saved, w.args, w.savedTypes, w.argTypes, w.ret, w.log, w.env, why)
  BY FieldReplaced, ZenonT(60) DEF Abort
<1>4. Replace(w, n, vals) =
        Machine(Retop(w.stack, n, vals), w.pc + 1, w.saved, w.args, w.savedTypes, w.argTypes, w.ret, w.log, w.env, w.err)
  <2> DEFINE x == [w EXCEPT !.stack = Retop(w.stack, n, vals)]
  <2>1. x = Machine(Retop(w.stack, n, vals), w.pc, w.saved, w.args, w.savedTypes, w.argTypes, w.ret, w.log, w.env, w.err)
    BY FieldReplaced
  <2> HIDE DEF x
  <2>2. /\ IsMachine(x) /\ x.stack = Retop(w.stack, n, vals) /\ x.pc = w.pc /\ x.saved = w.saved /\ x.args = w.args
        /\ x.savedTypes = w.savedTypes /\ x.argTypes = w.argTypes /\ x.ret = w.ret /\ x.log = w.log /\ x.env = w.env
        /\ x.err = w.err
    BY <2>1, MachineFields
  <2>3. [x EXCEPT !.pc = x.pc + 1] =
          Machine(x.stack, x.pc + 1, x.saved, x.args, x.savedTypes, x.argTypes, x.ret, x.log, x.env, x.err)
    BY <2>2, FieldReplaced
  <2>4. Replace(w, n, vals) = [x EXCEPT !.pc = x.pc + 1]
    BY DEF Replace, Continue, x
  <2> QED
    BY <2>2, <2>3, <2>4
<1> QED
  BY <1>1, <1>2, <1>3, <1>4

\* The same, one field at a time.
LEMMA Continued ==
  ASSUME NEW w, IsMachine(w), NEW r, r = Continue(w)
  PROVE  /\ IsMachine(r) /\ r.stack = w.stack /\ r.pc = w.pc + 1 /\ r.saved = w.saved /\ r.args = w.args
         /\ r.savedTypes = w.savedTypes /\ r.argTypes = w.argTypes /\ r.ret = w.ret /\ r.log = w.log
         /\ r.env = w.env /\ r.err = w.err
<1>1. r = Machine(w.stack, w.pc + 1, w.saved, w.args, w.savedTypes, w.argTypes, w.ret, w.log, w.env, w.err)
  BY Moves
<1> QED
  BY <1>1, MachineFields

LEMMA Replaced ==
  ASSUME NEW w, IsMachine(w), NEW n, NEW vals, NEW r, r = Replace(w, n, vals)
  PROVE  /\ IsMachine(r) /\ r.stack = Retop(w.stack, n, vals) /\ r.pc = w.pc + 1 /\ r.saved = w.saved /\ r.args = w.args
         /\ r.savedTypes = w.savedTypes /\ r.argTypes = w.argTypes /\ r.ret = w.ret /\ r.log = w.log
         /\ r.env = w.env /\ r.err = w.err
<1>1. r = Machine(Retop(w.stack, n, vals), w.pc + 1, w.saved, w.args, w.savedTypes, w.argTypes, w.ret, w.log, w.env, w.err)
  BY Moves
<1> QED
  BY <1>1, MachineFields

LEMMA Jumped ==
  ASSUME NEW w, IsMachine(w), NEW target, NEW r, r = JumpTo(w, target)
  PROVE  /\ IsMachine(r) /\ r.stack = w.stack /\ r.pc = target /\ r.saved = w.saved /\ r.args = w.args
         /\ r.savedTypes = w.savedTypes /\ r.argTypes = w.argTypes /\ r.ret = w.ret /\ r.log = w.log
         /\ r.env = w.env /\ r.err = w.err
<1>1. r = Machine(w.stack, target, w.saved, w.args, w.savedTypes, w.argTypes, w.ret, w.log, w.env, w.err)
  BY Moves
<1> QED
  BY <1>1, MachineFields

LEMMA Aborted ==
  ASSUME NEW w, IsMachine(w), NEW why, NEW r, r = Abort(w, why)
  PROVE  /\ IsMachine(r) /\ r.stack = w.stack /\ r.pc = w.pc /\ r.saved = w.saved /\ r.args = w.args
         /\ r.savedTypes = w.savedTypes /\ r.argTypes = w.argTypes /\ r.ret = w.ret /\ r.log = w.log
         /\ r.env = w.env /\ r.err = why
<1>1. r = Machine(w.stack, w.pc, w.saved, w.args, w.savedTypes, w.argTypes, w.ret, w.log, w.env, why)
  BY Moves
<1> QED
  BY <1>1, MachineFields

LEMMA StackSet ==
  ASSUME NEW w, IsMachine(w), NEW x, NEW r, r = [w EXCEPT !.stack = x]
  PROVE  /\ IsMachine(r) /\ r.stack = x /\ r.pc = w.pc /\ r.saved = w.saved /\ r.args = w.args
         /\ r.savedTypes = w.savedTypes /\ r.argTypes = w.argTypes /\ r.ret = w.ret /\ r.log = w.log
         /\ r.env = w.env /\ r.err = w.err
<1>1. r = Machine(x, w.pc, w.saved, w.args, w.savedTypes, w.argTypes, w.ret, w.log, w.env, w.err)
  BY FieldReplaced
<1> QED
  BY <1>1, MachineFields

LEMMA SavedSet ==
  ASSUME NEW w, IsMachine(w), NEW x, NEW r, r = [w EXCEPT !.saved = x]
  PROVE  /\ IsMachine(r) /\ r.stack = w.stack /\ r.pc = w.pc /\ r.saved = x /\ r.args = w.args
         /\ r.savedTypes = w.savedTypes /\ r.argTypes = w.argTypes /\ r.ret = w.ret /\ r.log = w.log
         /\ r.env = w.env /\ r.err = w.err
<1>1. r = Machine(w.stack, w.pc, x, w.args, w.savedTypes, w.argTypes, w.ret, w.log, w.env, w.err)
  BY FieldReplaced
<1> QED
  BY <1>1, MachineFields

LEMMA ArgsSet ==
  ASSUME NEW w, IsMachine(w), NEW x, NEW r, r = [w EXCEPT !.args = x]
  PROVE  /\ IsMachine(r) /\ r.stack = w.stack /\ r.pc = w.pc /\ r.saved = w.saved /\ r.args = x
         /\ r.savedTypes = w.savedTypes /\ r.argTypes = w.argTypes /\ r.ret = w.ret /\ r.log = w.log
         /\ r.env = w.env /\ r.err = w.err
<1>1. r = Machine(w.stack, w.pc, w.saved, x, w.savedTypes, w.argTypes, w.ret, w.log, w.env, w.err)
  BY FieldReplaced
<1> QED
  BY <1>1, MachineFields

LEMMA RetSet ==
  ASSUME NEW w, IsMachine(w), NEW x, NEW r, r = [w EXCEPT !.ret = x]
  PROVE  /\ IsMachine(r) /\ r.stack = w.stack /\ r.pc = w.pc /\ r.saved = w.saved /\ r.args = w.args
         /\ r.savedTypes = w.savedTypes /\ r.argTypes = w.argTypes /\ r.ret = x /\ r.log = w.log
         /\ r.env = w.env /\ r.err = w.err
<1>1. r = Machine(w.stack, w.pc, w.saved, w.args, w.savedTypes, w.argTypes, x, w.log, w.env, w.err)
  BY FieldReplaced
<1> QED
  BY <1>1, MachineFields

LEMMA LogSet ==
  ASSUME NEW w, IsMachine(w), NEW x, NEW r, r = [w EXCEPT !.log = x]
  PROVE  /\ IsMachine(r) /\ r.stack = w.stack /\ r.pc = w.pc /\ r.saved = w.saved /\ r.args = w.args
         /\ r.savedTypes = w.savedTypes /\ r.argTypes = w.argTypes /\ r.ret = w.ret /\ r.log = x
         /\ r.env = w.env /\ r.err = w.err
<1>1. r = Machine(w.stack, w.pc, w.saved, w.args, w.savedTypes, w.argTypes, w.ret, x, w.env, w.err)
  BY FieldReplaced
<1> QED
  BY <1>1, MachineFields

-----------------------------------------------------------------------------
(* Which opcode does what                                                  *)

LEMMA Dispatch ==
  ASSUME NEW w, NEW c, OperandsFit(Layout(w.stack), c)
  PROVE  /\ c.op \in ShortCircuitOps => Exec(w, c) = ShortCircuit(w, c)
         /\ c.op \in CondJumpOps => Exec(w, c) = CondJump(w, c)
         /\ c.op = "jump" => Exec(w, c) = JumpTo(w, c.a)
         /\ c.op = "jumpinvalid" => Exec(w, c) = JumpInvalid(w, c)
         /\ c.op \in FoldOps => Exec(w, c) = FoldOp(w, c)
         /\ c.op \in CompareOps => Exec(w, c) = CompareSlots(w, c)
         /\ c.op \in CombineOps => Exec(w, c) = CombineSlots(w, c)
         /\ c.op \in PushOps => Exec(w, c) = PushOp(w, c)
         /\ c.op = "pushreturn" => Exec(w, c) = PushReturn(w)
         /\ c.op \in {"erase", "erase_range"} => Exec(w, c) = EraseOp(w, c)
         /\ c.op = "chance" => Exec(w, c) = PushChance(w, c)
         /\ c.op = "context" => Exec(w, c) = PushContext(w, c)
         /\ c.op \in ArgOps => Exec(w, c) = ArgOp(w, c)
         /\ c.op \in SavedOps => Exec(w, c) = SavedOp(w, c)
         /\ c.op = "switch_no_match" => Exec(w, c) = SwitchNoMatch(w)
         /\ c.op = "weightcheck" => Exec(w, c) = CheckRandomWeight(w)
         /\ c.op \in {"assert", "trace"} => Exec(w, c) = DebugOp(w, c)
         /\ c.op = "convert" => Exec(w, c) = Convert(w, c)
         /\ c.op = "call" => Exec(w, c) = Call(w, c)
         /\ c.op = "guard" => Exec(w, c) = NullableGuard(w, c)
BY DEF Exec, ShortCircuitOps, CondJumpOps, FoldOps, CompareOps, CombineOps, PushOps, ArgOps, SavedOps
-----------------------------------------------------------------------------
(* One command of a certified stream                                       *)

\* The arguments have the types the script declared for them.
ArgsTyped(w) ==
  /\ w.args = [k \in DOMAIN w.argTypes |-> w.args[k]]
  /\ \A k \in DOMAIN w.argTypes : w.argTypes[k] \notin Untyped => w.args[k].t = w.argTypes[k]

\* The slot tables of a run are those of the script.
Tables(s, w) ==
  /\ w.argTypes = [k \in DOMAIN s.args |-> s.args[k].t]
  /\ w.savedTypes = [k \in DOMAIN s.saved |-> s.saved[k].t]
  /\ ArgsTyped(w)

\* Machine `w` is about to run command `k` of script `s`, and may.
Ready(s, k, c, w) ==
  /\ IsMachine(w) /\ Tuple(w.stack) /\ w.err = NoError /\ w.pc = k /\ k \in Nat /\ c = s.code[k]
  /\ c.op \in Opcodes /\ Fits(s, c, Layout(w.stack))
  /\ Tables(s, w)
  /\ AlwaysTrue(s.code, k) => Peek(w, 1).v = 1

\* The errors a script is meant to end with.
OwnError(err) == err # NoError /\ err \notin {"operand", "argument type"}

\* What `r`, the machine after the command, is then.
Sound(s, k, w, r) ==
  /\ IsMachine(r) /\ Tuple(r.stack) /\ Tables(s, r) /\ r.env = w.env
  /\ IF r.err = NoError THEN <<r.pc, Layout(r.stack)>> \in Follows(s, k, Layout(w.stack))
     ELSE r.stack = w.stack /\ r.pc = w.pc /\ OwnError(r.err)

LEMMA OperandsLength ==
  ASSUME NEW c, c.op \in Opcodes, c.op = "call" => c.fn \in DOMAIN Functions
  PROVE  /\ Len(Operands(c)) \in Nat
         /\ c.op \in ShortCircuitOps \union {"andbin", "sum", "mul", "sumi", "assert"} => Len(Operands(c)) = 2
         /\ c.op \in CondJumpOps
                     \union {"notfn", "jumpinvalid", "pushreturn", "setargrvalue", "savectxrvalue", "weightcheck",
                             "guard", "trace", "convert"} => Len(Operands(c)) = 1
         /\ c.op \in CompareOps \union CombineOps \union PushOps \union {"jump", "erase", "erase_range", "chance", "context",
                     "pushargvalue", "setarglvalue", "pushctxvalue", "savectxlvalue", "switch_no_match"} => Operands(c) = <<>>
<1>1. c.op \in ShortCircuitOps \union {"andbin", "sum", "mul", "sumi", "assert"} => Len(Operands(c)) = 2
  <2>1. c.op \in ShortCircuitOps \union {"andbin"} => Operands(c) = <<"bool", "bool">>
    BY DEF Operands, ShortCircuitOps, CondJumpOps
  <2>2. c.op \in {"sum", "mul", "sumi", "assert"} =>
          Operands(c) \in {<<"float", "float">>, <<"int", "int">>, <<"bool", "str">>}
    BY DEF Operands, ShortCircuitOps, CondJumpOps
  <2> QED
    BY <2>1, <2>2
<1>2. c.op \in CondJumpOps
               \union {"notfn", "jumpinvalid", "pushreturn", "setargrvalue", "savectxrvalue", "weightcheck",
                       "guard", "trace", "convert"} => Len(Operands(c)) = 1
  <2>1. c.op \in CondJumpOps \union {"notfn"} => Operands(c) = <<"bool">>
    BY DEF Operands, ShortCircuitOps, CondJumpOps
  <2>2. c.op \in {"jumpinvalid", "pushreturn", "setargrvalue", "savectxrvalue"} => Operands(c) = <<"any">>
    BY DEF Operands, ShortCircuitOps, CondJumpOps
  <2>3. c.op \in {"weightcheck", "guard", "trace", "convert"} =>
          Operands(c) \in {<<"float">>, <<"obj">>, <<"str">>, <<Conversions[c.fn][1]>>}
    BY DEF Operands, ShortCircuitOps, CondJumpOps
  <2> QED
    BY <2>1, <2>2, <2>3
<1>3. c.op \in CompareOps \union CombineOps \union PushOps \union {"jump", "erase", "erase_range", "chance", "context",
               "pushargvalue", "setarglvalue", "pushctxvalue", "savectxlvalue", "switch_no_match"} => Operands(c) = <<>>
  BY DEF Operands, ShortCircuitOps, CondJumpOps, CompareOps, CombineOps, PushOps
<1>4. c.op = "call" => Len(Operands(c)) \in Nat
  <2>1. c.op = "call" => Operands(c) = Functions[c.fn].args
    BY DEF Operands, ShortCircuitOps, CondJumpOps
  <2> QED
    BY <2>1, FunctionsAssumption
<1>5. Len(<<>>) = 0
  OBVIOUS
<1>6. c.op \in ShortCircuitOps \union {"andbin", "sum", "mul", "sumi", "assert"}
      \/ c.op \in CondJumpOps
               \union {"notfn", "jumpinvalid", "pushreturn", "setargrvalue", "savectxrvalue", "weightcheck",
                       "guard", "trace", "convert"}
      \/ c.op \in CompareOps \union CombineOps \union PushOps \union {"jump", "erase", "erase_range", "chance", "context",
               "pushargvalue", "setarglvalue", "pushctxvalue", "savectxlvalue", "switch_no_match"}
      \/ c.op = "call"
  BY DEF Opcodes, BranchOps, FoldOps, ArgOps, SavedOps
<1>7. Len(Operands(c)) \in Nat
  BY <1>1, <1>2, <1>3, <1>4, <1>5, <1>6
<1> QED
  BY <1>1, <1>2, <1>3, <1>7

\* The operands a command takes are there.
LEMMA OperandsThere ==
  ASSUME NEW s, NEW k, NEW c, NEW w, Ready(s, k, c, w)
  PROVE  /\ Len(w.stack) \in Nat /\ Len(Operands(c)) <= Len(w.stack)
         /\ Taken(c) \in Nat /\ Taken(c) <= Len(w.stack)
         /\ c.op \in Opcodes /\ OperandsFit(Layout(w.stack), c)
         /\ Len(Layout(w.stack)) = Len(w.stack) /\ DOMAIN Layout(w.stack) = 1 .. Len(w.stack)
<1>1. Tuple(w.stack) /\ c.op \in Opcodes /\ Fits(s, c, Layout(w.stack))
  BY DEF Ready
<1>2. /\ Len(w.stack) \in Nat /\ Len(Layout(w.stack)) = Len(w.stack)
      /\ DOMAIN Layout(w.stack) = 1 .. Len(w.stack)
  BY <1>1, TupleDomain, LayoutTuple
<1>3. c.op \in Opcodes /\ OperandsFit(Layout(w.stack), c) /\ (c.op = "call" => c.fn \in DOMAIN Functions)
  BY <1>1 DEF Fits
<1>4. Len(Operands(c)) <= Len(Layout(w.stack))
  BY <1>3 DEF OperandsFit, OnTop
<1>5. Len(Operands(c)) \in Nat
  BY <1>3, OperandsLength
<1> QED
  BY <1>2, <1>3, <1>4, <1>5 DEF Taken

LEMMA RetopNothing ==
  ASSUME NEW l, Tuple(l)
  PROVE  Retop(l, 0, <<>>) = l
<1>1. Len(l) \in Nat /\ Tuple(<<>>) /\ Len(<<>>) = 0
  BY TupleDomain, LayoutOfOne
<1>2. /\ Tuple(Retop(l, 0, <<>>)) /\ Len(Retop(l, 0, <<>>)) = Len(l) - 0 + Len(<<>>)
      /\ \A k \in 1 .. Len(l) - 0 + Len(<<>>) :
           Retop(l, 0, <<>>)[k] = IF k <= Len(l) - 0 THEN l[k] ELSE <<>>[k - (Len(l) - 0)]
  BY <1>1, RetopTuple
<1>3. Len(l) - 0 + Len(<<>>) = Len(l) /\ Len(l) - 0 = Len(l)
  BY <1>1
<1>4. \A k \in 1 .. Len(l) : Retop(l, 0, <<>>)[k] = l[k]
  BY <1>1, <1>2, <1>3
<1> QED
  BY <1>2, <1>3, <1>4, SameTuple

\* A command that only goes on is followed by the next one.
LEMMA GoesThrough ==
  ASSUME NEW s, NEW k, NEW l, s.code[k].op \notin {"jump", "jumpinvalid", "guard", "switch_no_match"}
  PROVE  <<k + 1, Through(s, s.code[k], l)>> \in Follows(s, k, l)
BY DEF Follows

\* A machine that only went on is sound.
LEMMA WentThrough ==
  ASSUME NEW s, NEW k, NEW c, NEW w, Ready(s, k, c, w), NEW r,
         c.op \notin {"jump", "jumpinvalid", "guard", "switch_no_match"},
         IsMachine(r), Tuple(r.stack), r.pc = k + 1, r.err = NoError, r.env = w.env, Tables(s, r),
         Layout(r.stack) = Through(s, c, Layout(w.stack))
  PROVE  Sound(s, k, w, r)
<1>1. <<k + 1, Through(s, c, Layout(w.stack))>> \in Follows(s, k, Layout(w.stack))
  BY GoesThrough DEF Ready
<1> QED
  BY <1>1 DEF Sound

\* So is one that stopped with an error of the script's own.
LEMMA GaveUp ==
  ASSUME NEW s, NEW k, NEW c, NEW w, Ready(s, k, c, w), NEW why, OwnError(why)
  PROVE  Sound(s, k, w, Abort(w, why))
<1>1. IsMachine(w)
  BY DEF Ready
<1> DEFINE r == Abort(w, why)
<1>5. r = Abort(w, why)
  OBVIOUS
<1> HIDE DEF r
<1>2. /\ IsMachine(r) /\ r.stack = w.stack /\ r.pc = w.pc /\ r.args = w.args
      /\ r.savedTypes = w.savedTypes /\ r.argTypes = w.argTypes /\ r.env = w.env /\ r.err = why
  BY <1>1, <1>5, Aborted
<1>3. Tables(s, r) /\ Tuple(r.stack)
  BY <1>2 DEF Ready, Tables, ArgsTyped
<1>6. why # NoError
  BY DEF OwnError
<1>4. Sound(s, k, w, r)
  BY <1>2, <1>3, <1>6 DEF Sound
<1> QED
  BY <1>4 DEF r

\* What Replace leaves, with the command's operands taken and its results put
\* in their place.
LEMMA ReplacedThrough ==
  ASSUME NEW s, NEW k, NEW c, NEW w, Ready(s, k, c, w), NEW vals, Tuple(vals), c.op \notin {"erase", "erase_range"},
         Layout(vals) = Pushed(s, c, Layout(w.stack)),
         NEW r, r = Replace(w, Taken(c), vals)
  PROVE  /\ IsMachine(r) /\ Tuple(r.stack) /\ r.pc = k + 1 /\ r.err = NoError /\ r.env = w.env /\ Tables(s, r)
         /\ r.args = w.args /\ r.argTypes = w.argTypes /\ r.savedTypes = w.savedTypes /\ r.saved = w.saved
         /\ Layout(r.stack) = Through(s, c, Layout(w.stack))
<1>1. IsMachine(w) /\ Tuple(w.stack) /\ w.err = NoError /\ w.pc = k /\ Tables(s, w)
  BY DEF Ready
<1>2. /\ IsMachine(r) /\ r.stack = Retop(w.stack, Taken(c), vals) /\ r.pc = w.pc + 1 /\ r.args = w.args
      /\ r.savedTypes = w.savedTypes /\ r.argTypes = w.argTypes /\ r.env = w.env /\ r.err = w.err /\ r.saved = w.saved
  BY <1>1, Replaced
<1>3. Taken(c) \in Nat /\ Taken(c) <= Len(w.stack)
  BY OperandsThere
<1>4. Tuple(r.stack) /\ Layout(r.stack) = Retop(Layout(w.stack), Taken(c), Layout(vals))
  BY <1>1, <1>2, <1>3, RetopTuple, LayoutOfRetop
<1>5. Through(s, c, Layout(w.stack)) = Retop(Layout(w.stack), Taken(c), Pushed(s, c, Layout(w.stack)))
  BY DEF Through
<1>6. Tables(s, r)
  BY <1>1, <1>2, ZenonT(60) DEF Tables, ArgsTyped
<1> QED
  BY <1>1, <1>2, <1>4, <1>5, <1>6

LEMMA ReplaceSound ==
  ASSUME NEW s, NEW k, NEW c, NEW w, Ready(s, k, c, w), NEW vals, Tuple(vals),
         c.op \notin {"erase", "erase_range", "jump", "jumpinvalid", "guard", "switch_no_match"},
         Layout(vals) = Pushed(s, c, Layout(w.stack))
  PROVE  Sound(s, k, w, Replace(w, Taken(c), vals))
<1> DEFINE r == Replace(w, Taken(c), vals)
<1>3. r = Replace(w, Taken(c), vals)
  OBVIOUS
<1> HIDE DEF r
<1>1. /\ IsMachine(r) /\ Tuple(r.stack) /\ r.pc = k + 1 /\ r.err = NoError /\ r.env = w.env /\ Tables(s, r)
      /\ Layout(r.stack) = Through(s, c, Layout(w.stack))
  BY <1>3, ReplacedThrough
<1>2. Sound(s, k, w, r)
  BY <1>1, WentThrough
<1> QED
  BY <1>2 DEF r

\* A command that leaves the stack alone.
LEMMA ContinueThrough ==
  ASSUME NEW s, NEW k, NEW c, NEW w, Ready(s, k, c, w), Taken(c) = 0, Pushed(s, c, Layout(w.stack)) = <<>>,
         c.op \notin {"erase", "erase_range"}, NEW r, r = Continue(w)
  PROVE  /\ IsMachine(r) /\ Tuple(r.stack) /\ r.pc = k + 1 /\ r.err = NoError /\ r.env = w.env /\ Tables(s, r)
         /\ r.args = w.args /\ r.argTypes = w.argTypes /\ r.savedTypes = w.savedTypes /\ r.saved = w.saved
         /\ r.stack = w.stack /\ Layout(r.stack) = Through(s, c, Layout(w.stack))
         /\ Through(s, c, Layout(w.stack)) = Layout(w.stack)
<1>1. IsMachine(w) /\ Tuple(w.stack) /\ w.err = NoError /\ w.pc = k /\ Tables(s, w)
  BY DEF Ready
<1>2. /\ IsMachine(r) /\ r.stack = w.stack /\ r.pc = w.pc + 1 /\ r.args = w.args /\ r.saved = w.saved
      /\ r.savedTypes = w.savedTypes /\ r.argTypes = w.argTypes /\ r.env = w.env /\ r.err = w.err
  BY <1>1, Continued
<1>3. Through(s, c, Layout(w.stack)) = Retop(Layout(w.stack), 0, <<>>)
  BY DEF Through
<1>4. Through(s, c, Layout(w.stack)) = Layout(w.stack)
  BY <1>1, <1>3, RetopNothing, LayoutTuple
<1>5. Tables(s, r)
  BY <1>1, <1>2, ZenonT(60) DEF Tables, ArgsTyped
<1> QED
  BY <1>1, <1>2, <1>4, <1>5

LEMMA ContinueSound ==
  ASSUME NEW s, NEW k, NEW c, NEW w, Ready(s, k, c, w), Taken(c) = 0, Pushed(s, c, Layout(w.stack)) = <<>>,
         c.op \notin {"erase", "erase_range", "jump", "jumpinvalid", "guard", "switch_no_match"}
  PROVE  Sound(s, k, w, Continue(w))
<1> DEFINE r == Continue(w)
<1>1. r = Continue(w)
  OBVIOUS
<1> HIDE DEF r
<1>2. /\ IsMachine(r) /\ Tuple(r.stack) /\ r.pc = k + 1 /\ r.err = NoError /\ r.env = w.env /\ Tables(s, r)
      /\ Layout(r.stack) = Through(s, c, Layout(w.stack))
  BY <1>1, ContinueThrough
<1>3. Sound(s, k, w, r)
  BY <1>2, WentThrough
<1> QED
  BY <1>3 DEF r

-----------------------------------------------------------------------------
(* One opcode at a time                                                    *)

LEMMA ValType ==
  ASSUME NEW t, NEW x, NEW b
  PROVE  /\ Val(t, x).t = t /\ Bool(b).t = "bool"
         /\ Tuple(<<Val(t, x)>>) /\ Layout(<<Val(t, x)>>) = <<t>>
         /\ Tuple(<<Bool(b)>>) /\ Layout(<<Bool(b)>>) = <<"bool">>
<1>1. Val(t, x).t = t /\ Bool(b).t = "bool"
  BY DEF Val, Bool
<1> QED
  BY <1>1, LayoutOfOne

\* What the commands take and push.
LEMMA Effects ==
  ASSUME NEW s, NEW c, NEW l, c.op \in Opcodes, c.op = "call" => c.fn \in DOMAIN Functions
  PROVE  /\ c.op \in ShortCircuitOps \union {"andbin"} => Taken(c) = 2 /\ Pushed(s, c, l) = <<"bool">>
         /\ c.op = "notfn" => Taken(c) = 1 /\ Pushed(s, c, l) = <<"bool">>
         /\ c.op \in {"sum", "mul"} => Taken(c) = 2 /\ Pushed(s, c, l) = <<"float">>
         /\ c.op = "sumi" => Taken(c) = 2 /\ Pushed(s, c, l) = <<"int">>
         /\ c.op \in CompareOps \union {"pushbool"} => Taken(c) = 0 /\ Pushed(s, c, l) = <<"bool">>
         /\ c.op \in {"pushvalue", "chance"} => Taken(c) = 0 /\ Pushed(s, c, l) = <<"float">>
         /\ c.op = "pushint" => Taken(c) = 0 /\ Pushed(s, c, l) = <<"int">>
         /\ c.op = "pushstring" => Taken(c) = 0 /\ Pushed(s, c, l) = <<"str">>
         /\ c.op = "pushroot" => Taken(c) = 0 /\ Pushed(s, c, l) = <<s.args[1].t>>
         /\ c.op = "pushargvalue" => Taken(c) = 0 /\ Pushed(s, c, l) = <<s.args[c.a].t>>
         /\ c.op = "pushctxvalue" => Taken(c) = 0 /\ Pushed(s, c, l) = <<s.saved[c.a].t>>
         /\ c.op \in {"pushthis", "pushprev"} => Taken(c) = 0 /\ Pushed(s, c, l) = <<l[c.a]>>
         /\ c.op = "pushinvalid" => Taken(c) = 0 /\ Pushed(s, c, l) = <<Invalid.t>>
         /\ c.op = "context" => Taken(c) = 0 /\ Pushed(s, c, l) = <<"thisctx">>
         /\ c.op = "convert" => Taken(c) = 1 /\ Pushed(s, c, l) = <<Conversions[c.fn][2]>>
         /\ c.op \in {"condjump", "pushreturn", "setargrvalue", "savectxrvalue", "trace"} => Taken(c) = 1 /\ Pushed(s, c, l) = <<>>
         /\ c.op = "assert" => Taken(c) = 2 /\ Pushed(s, c, l) = <<>>
         /\ c.op \in CombineOps \union {"condjump_get", "condjumpt_get", "jumpinvalid", "guard", "weightcheck", "jump",
                     "setarglvalue", "savectxlvalue", "switch_no_match"} => Taken(c) = 0 /\ Pushed(s, c, l) = <<>>
         /\ c.op = "call" => /\ Taken(c) = Len(Functions[c.fn].args)
                             /\ Pushed(s, c, l) = IF Functions[c.fn].ret = "void" THEN <<>> ELSE <<Functions[c.fn].ret>>
<1> USE DEF Taken, Pushed, ShortCircuitOps, CompareOps, CombineOps, CondJumpOps, PushOps
<1>0. Len(<<>>) = 0
  OBVIOUS
<1>1. c.op \in ShortCircuitOps \union {"andbin"} => Taken(c) = 2 /\ Pushed(s, c, l) = <<"bool">>
  BY OperandsLength
<1>2. c.op = "notfn" => Taken(c) = 1 /\ Pushed(s, c, l) = <<"bool">>
  BY OperandsLength
<1>3. c.op \in {"sum", "mul"} => Taken(c) = 2 /\ Pushed(s, c, l) = <<"float">>
  BY OperandsLength
<1>4. c.op = "sumi" => Taken(c) = 2 /\ Pushed(s, c, l) = <<"int">>
  BY OperandsLength
<1>5. c.op \in CompareOps \union {"pushbool"} => Taken(c) = 0 /\ Pushed(s, c, l) = <<"bool">>
  BY <1>0, OperandsLength
<1>6. c.op \in {"pushvalue", "chance"} => Taken(c) = 0 /\ Pushed(s, c, l) = <<"float">>
  BY <1>0, OperandsLength
<1>7. c.op = "pushint" => Taken(c) = 0 /\ Pushed(s, c, l) = <<"int">>
  BY <1>0, OperandsLength
<1>8. c.op = "pushstring" => Taken(c) = 0 /\ Pushed(s, c, l) = <<"str">>
  BY <1>0, OperandsLength
<1>9. c.op = "pushroot" => Taken(c) = 0 /\ Pushed(s, c, l) = <<s.args[1].t>>
  BY <1>0, OperandsLength
<1>10. c.op = "pushargvalue" => Taken(c) = 0 /\ Pushed(s, c, l) = <<s.args[c.a].t>>
  BY <1>0, OperandsLength
<1>11. c.op = "pushctxvalue" => Taken(c) = 0 /\ Pushed(s, c, l) = <<s.saved[c.a].t>>
  BY <1>0, OperandsLength
<1>12. c.op \in {"pushthis", "pushprev"} => Taken(c) = 0 /\ Pushed(s, c, l) = <<l[c.a]>>
  BY <1>0, OperandsLength
<1>13. c.op = "pushinvalid" => Taken(c) = 0 /\ Pushed(s, c, l) = <<Invalid.t>>
  BY <1>0, OperandsLength
<1>14. c.op = "context" => Taken(c) = 0 /\ Pushed(s, c, l) = <<"thisctx">>
  BY <1>0, OperandsLength
<1>15. c.op = "convert" => Taken(c) = 1 /\ Pushed(s, c, l) = <<Conversions[c.fn][2]>>
  BY OperandsLength
<1>16. c.op \in {"condjump", "pushreturn", "setargrvalue", "savectxrvalue", "trace"} => Taken(c) = 1 /\ Pushed(s, c, l) = <<>>
  BY OperandsLength
<1>17. c.op = "assert" => Taken(c) = 2 /\ Pushed(s, c, l) = <<>>
  BY OperandsLength
<1>18. c.op \in CombineOps \union {"condjump_get", "condjumpt_get", "jumpinvalid", "guard", "weightcheck", "jump",
               "setarglvalue", "savectxlvalue", "switch_no_match"} => Taken(c) = 0 /\ Pushed(s, c, l) = <<>>
  BY <1>0, OperandsLength
<1>19. c.op = "call" => Operands(c) = Functions[c.fn].args
  BY DEF Operands
<1>20. c.op = "call" => /\ Taken(c) = Len(Functions[c.fn].args)
                        /\ Pushed(s, c, l) = IF Functions[c.fn].ret = "void" THEN <<>> ELSE <<Functions[c.fn].ret>>
  BY <1>19
<1> QED
  BY <1>1, <1>2, <1>3, <1>4, <1>5, <1>6, <1>7, <1>8, <1>9, <1>10, <1>11, <1>12, <1>13, <1>14, <1>15, <1>16, <1>17,
     <1>18, <1>20 DEF CompareOps

\* What is said of the operands a command finds, piece by piece.
LEMMA Found ==
  ASSUME NEW s, NEW k, NEW c, NEW w, Ready(s, k, c, w)
  PROVE  /\ IsMachine(w) /\ Tuple(w.stack) /\ w.err = NoError /\ w.pc = k /\ k \in Nat /\ c = s.code[k] /\ Tables(s, w)
         /\ c.op = "call" => c.fn \in DOMAIN Functions
         /\ c.op = "erase_range" => c.b \in Nat \ {0}
         /\ SlotsFit(s, c, Layout(w.stack))
         /\ \A x \in SlotsUsed(c) : x[1] \in 1 .. Len(w.stack) /\ x[2] \in {"any", w.stack[x[1]].t}
         /\ Len(w.stack) >= 1 => Last(Layout(w.stack)) = Peek(w, 1).t
<1>1. /\ IsMachine(w) /\ Tuple(w.stack) /\ w.err = NoError /\ w.pc = k /\ k \in Nat /\ c = s.code[k] /\ Tables(s, w)
      /\ Fits(s, c, Layout(w.stack))
  BY DEF Ready
<1>2. /\ c.op = "call" => c.fn \in DOMAIN Functions
      /\ c.op = "erase_range" => c.b \in Nat \ {0}
      /\ SlotsFit(s, c, Layout(w.stack)) /\ OperandsFit(Layout(w.stack), c)
  BY <1>1 DEF Fits
<1>3. /\ Len(w.stack) \in Nat /\ Len(Layout(w.stack)) = Len(w.stack) /\ DOMAIN Layout(w.stack) = 1 .. Len(w.stack)
      /\ \A p \in 1 .. Len(w.stack) : Layout(w.stack)[p] = w.stack[p].t
  BY <1>1, TupleDomain, LayoutTuple
<1>4. ASSUME NEW x \in SlotsUsed(c)
      PROVE  x[1] \in 1 .. Len(w.stack) /\ x[2] \in {"any", w.stack[x[1]].t}
  <2>1. x[1] \in DOMAIN Layout(w.stack) /\ x[2] \in {"any", Layout(w.stack)[x[1]]}
    BY <1>2 DEF OperandsFit, Holds
  <2> QED
    BY <1>3, <2>1
<1>5. Len(w.stack) >= 1 => Last(Layout(w.stack)) = Peek(w, 1).t
  <2>1. Len(w.stack) + 1 - 1 = Len(w.stack) /\ (Len(w.stack) >= 1 => Len(w.stack) \in 1 .. Len(w.stack))
    BY <1>3
  <2> QED
    BY <1>3, <2>1 DEF Last, Peek
<1> QED
  BY <1>1, <1>2, <1>4, <1>5

\* A jump is sound if it goes where the command may be followed.
LEMMA JumpSound ==
  ASSUME NEW s, NEW k, NEW w, NEW x, IsMachine(x), Tuple(x.stack), Tables(s, x), x.env = w.env, x.err = NoError,
         NEW target, <<target, Layout(x.stack)>> \in Follows(s, k, Layout(w.stack))
  PROVE  Sound(s, k, w, JumpTo(x, target))
<1> DEFINE r == JumpTo(x, target)
<1>1. r = JumpTo(x, target)
  OBVIOUS
<1> HIDE DEF r
<1>2. /\ IsMachine(r) /\ r.stack = x.stack /\ r.pc = target /\ r.args = x.args
      /\ r.savedTypes = x.savedTypes /\ r.argTypes = x.argTypes /\ r.env = x.env /\ r.err = x.err
  BY <1>1, Jumped
<1>3. Tables(s, r)
  BY <1>2 DEF Tables, ArgsTyped
<1>4. Sound(s, k, w, r)
  BY <1>2, <1>3 DEF Sound
<1> QED
  BY <1>4 DEF r

\* The branches that go on or away with the same layout.
LEMMA BranchFollows ==
  ASSUME NEW s, NEW k, NEW l, s.code[k].op \in ShortCircuitOps \union CondJumpOps
  PROVE  /\ <<k + 1, Through(s, s.code[k], l)>> \in Follows(s, k, l)
         /\ ~AlwaysTrue(s.code, k) => <<s.code[k].a, Through(s, s.code[k], l)>> \in Follows(s, k, l)
<1> DEFINE c == s.code[k]
<1>1. c.op \notin {"jump", "jumpinvalid", "guard", "switch_no_match"}
  BY DEF ShortCircuitOps, CondJumpOps
<1>2. <<k + 1, Through(s, c, l)>> \in Follows(s, k, l)
  BY <1>1, GoesThrough
<1>3. Follows(s, k, l) = {<<k + 1, Through(s, c, l)>>} \union (IF AlwaysTrue(s.code, k) THEN {} ELSE {<<c.a, Through(s, c, l)>>})
  BY <1>1 DEF Follows
<1> QED
  BY <1>2, <1>3

LEMMA ShortCircuitSound ==
  ASSUME NEW s, NEW k, NEW c, NEW w, Ready(s, k, c, w), c.op \in ShortCircuitOps
  PROVE  Sound(s, k, w, Exec(w, c))
<1> DEFINE b1 == Peek(w, 2).v = 1
           b2 == Peek(w, 1).v = 1
           isAnd == c.op = "andjump"
           res == IF isAnd THEN b1 /\ b2 ELSE b1 \/ b2
           vals == <<Bool(res)>>
           done == Replace(w, Taken(c), vals)
<1>1. Taken(c) = 2 /\ Pushed(s, c, Layout(w.stack)) = <<"bool">>
  BY OperandsThere, Found, Effects
<1>2. c.op \notin {"erase", "erase_range", "jump", "jumpinvalid", "guard", "switch_no_match", "condjump"}
  BY DEF ShortCircuitOps
<1>3. Tuple(vals) /\ Layout(vals) = Pushed(s, c, Layout(w.stack))
  BY <1>1, ValType
<1>4. Exec(w, c) = IF res # isAnd THEN JumpTo(done, c.a) ELSE done
  BY <1>1, OperandsThere, Dispatch DEF ShortCircuit
<1> HIDE DEF vals, res, isAnd
<1>5. done = Replace(w, Taken(c), vals)
  OBVIOUS
<1> HIDE DEF done
<1>6. /\ IsMachine(done) /\ Tuple(done.stack) /\ done.pc = k + 1 /\ done.err = NoError /\ done.env = w.env /\ Tables(s, done)
      /\ Layout(done.stack) = Through(s, c, Layout(w.stack))
  BY <1>2, <1>3, <1>5, ReplacedThrough
<1>7. ~AlwaysTrue(s.code, k)
  <2>1. c = s.code[k] /\ c.op # "condjump"
    BY <1>2, Found
  <2> QED
    BY <2>1 DEF AlwaysTrue
<1>8. <<c.a, Layout(done.stack)>> \in Follows(s, k, Layout(w.stack))
  <2>1. c = s.code[k]
    BY Found
  <2>2. s.code[k].op \in ShortCircuitOps \union CondJumpOps
    BY <2>1
  <2>3. <<s.code[k].a, Through(s, s.code[k], Layout(w.stack))>> \in Follows(s, k, Layout(w.stack))
    BY <1>7, <2>2, BranchFollows
  <2> QED
    BY <1>6, <2>1, <2>3
<1>9. Sound(s, k, w, JumpTo(done, c.a))
  BY <1>6, <1>8, JumpSound
<1>10. Sound(s, k, w, done)
  BY <1>2, <1>6, WentThrough
<1> QED
  BY <1>4, <1>9, <1>10

LEMMA CondJumpSound ==
  ASSUME NEW s, NEW k, NEW c, NEW w, Ready(s, k, c, w), c.op \in CondJumpOps
  PROVE  Sound(s, k, w, Exec(w, c))
<1> DEFINE b == Peek(w, 1).v = 1
           gets == c.op = "condjumpt_get"
           next == IF c.op = "condjump" THEN Replace(w, 1, <<>>) ELSE Continue(w)
<1>1. Pushed(s, c, Layout(w.stack)) = <<>> /\ Taken(c) = IF c.op = "condjump" THEN 1 ELSE 0
  BY OperandsThere, Found, Effects DEF CondJumpOps
<1>2. c.op \notin {"erase", "erase_range", "jump", "jumpinvalid", "guard", "switch_no_match"}
  BY DEF CondJumpOps
<1>3. Exec(w, c) = IF b = gets THEN JumpTo(next, c.a) ELSE next
  BY OperandsThere, Dispatch DEF CondJump
<1>4. AlwaysTrue(s.code, k) => Exec(w, c) = next
  <2>1. AlwaysTrue(s.code, k) => b = TRUE /\ gets = FALSE
    <3>1. c = s.code[k] /\ (AlwaysTrue(s.code, k) => Peek(w, 1).v = 1)
      BY DEF Ready
    <3> QED
      BY <3>1 DEF AlwaysTrue
  <2> HIDE DEF b, gets, next
  <2> QED
    BY <1>3, <2>1
<1> HIDE DEF b, gets
<1>6. next = IF c.op = "condjump" THEN Replace(w, 1, <<>>) ELSE Continue(w)
  OBVIOUS
<1> HIDE DEF next
<1>7. /\ IsMachine(next) /\ Tuple(next.stack) /\ next.pc = k + 1 /\ next.err = NoError /\ next.env = w.env /\ Tables(s, next)
      /\ Layout(next.stack) = Through(s, c, Layout(w.stack))
  <2>1. CASE c.op = "condjump"
    <3>1. Tuple(<<>>) /\ Layout(<<>>) = Pushed(s, c, Layout(w.stack)) /\ next = Replace(w, Taken(c), <<>>)
      BY <1>1, <1>6, <2>1, LayoutOfOne
    <3> QED
      BY <1>2, <3>1, ReplacedThrough
  <2>2. CASE c.op # "condjump"
    <3>1. Taken(c) = 0 /\ next = Continue(w)
      BY <1>1, <1>6, <2>2
    <3> QED
      BY <1>1, <1>2, <3>1, ContinueThrough
  <2> QED
    BY <2>1, <2>2
<1>8. ASSUME ~AlwaysTrue(s.code, k)
      PROVE  Sound(s, k, w, JumpTo(next, c.a))
  <2>2. <<c.a, Layout(next.stack)>> \in Follows(s, k, Layout(w.stack))
    <3>1. c = s.code[k]
      BY Found
    <3>2. s.code[k].op \in ShortCircuitOps \union CondJumpOps
      BY <3>1
    <3>3. <<s.code[k].a, Through(s, s.code[k], Layout(w.stack))>> \in Follows(s, k, Layout(w.stack))
      BY <1>8, <3>2, BranchFollows
    <3> QED
      BY <1>7, <3>1, <3>3
  <2> QED
    BY <1>7, <2>2, JumpSound
<1>9. Sound(s, k, w, next)
  BY <1>2, <1>7, WentThrough
<1> QED
  BY <1>3, <1>4, <1>8, <1>9

\* The top operand replaced with at most one other.
LEMMA TopReplaced ==
  ASSUME NEW s, NEW k, NEW c, NEW w, Ready(s, k, c, w), NEW n \in Nat, n <= Len(w.stack), NEW vals, Tuple(vals),
         NEW r, r = Replace(w, n, vals)
  PROVE  /\ IsMachine(r) /\ Tuple(r.stack) /\ r.pc = k + 1 /\ r.err = NoError /\ r.env = w.env /\ Tables(s, r)
         /\ Layout(r.stack) = Retop(Layout(w.stack), n, Layout(vals))
<1>1. IsMachine(w) /\ Tuple(w.stack) /\ w.err = NoError /\ w.pc = k /\ Tables(s, w)
  BY DEF Ready
<1>2. /\ IsMachine(r) /\ r.stack = Retop(w.stack, n, vals) /\ r.pc = w.pc + 1 /\ r.args = w.args
      /\ r.savedTypes = w.savedTypes /\ r.argTypes = w.argTypes /\ r.env = w.env /\ r.err = w.err
  BY <1>1, Replaced
<1>3. Tuple(r.stack) /\ Layout(r.stack) = Retop(Layout(w.stack), n, Layout(vals))
  BY <1>1, <1>2, RetopTuple, LayoutOfRetop
<1>4. Tables(s, r)
  BY <1>1, <1>2, ZenonT(60) DEF Tables, ArgsTyped
<1> QED
  BY <1>1, <1>2, <1>3, <1>4

\* Where the commands that choose their way may lead.
LEMMA JumpFollows ==
  ASSUME NEW s, NEW k, NEW l, NEW c, c = s.code[k], c.op = "jump"
  PROVE  <<c.a, Through(s, c, l)>> \in Follows(s, k, l)
BY DEF Follows, ShortCircuitOps, CondJumpOps

LEMMA GuardFollows ==
  ASSUME NEW s, NEW k, NEW l, NEW c, c = s.code[k], c.op = "guard"
  PROVE  /\ <<k + 1, l>> \in Follows(s, k, l)
         /\ <<c.a, Retop(l, 1, <<Default(c.b).t>>)>> \in Follows(s, k, l)
<1>1. <<k + 1, l>> \in Follows(s, k, l)
  BY DEF Follows, ShortCircuitOps, CondJumpOps
<1>2. <<c.a, Retop(l, 1, <<Default(c.b).t>>)>> \in Follows(s, k, l)
  BY DEF Follows, ShortCircuitOps, CondJumpOps
<1> QED
  BY <1>1, <1>2

LEMMA JumpInvalidFollows ==
  ASSUME NEW s, NEW k, NEW l, NEW c, c = s.code[k], c.op = "jumpinvalid"
  PROVE  /\ <<k + 1, l>> \in Follows(s, k, l)
         /\ Last(l) \in {NoType, "obj"} => <<c.a, Retop(l, 1, <<>>)>> \in Follows(s, k, l)
<1>1. <<k + 1, l>> \in Follows(s, k, l)
  BY DEF Follows, ShortCircuitOps, CondJumpOps
<1>2. ASSUME Last(l) \in {NoType, "obj"}
      PROVE  <<c.a, Retop(l, 1, <<>>)>> \in Follows(s, k, l)
  BY <1>2 DEF Follows, ShortCircuitOps, CondJumpOps
<1> QED
  BY <1>1, <1>2

LEMMA JumpAlwaysSound ==
  ASSUME NEW s, NEW k, NEW c, NEW w, Ready(s, k, c, w), c.op = "jump"
  PROVE  Sound(s, k, w, Exec(w, c))
<1> DEFINE l == Layout(w.stack)
<1>1. Exec(w, c) = JumpTo(w, c.a)
  BY OperandsThere, Dispatch
<1>2. Taken(c) = 0 /\ Pushed(s, c, l) = <<>>
  BY OperandsThere, Found, Effects
<1>3. IsMachine(w) /\ Tuple(w.stack) /\ w.err = NoError /\ w.pc = k /\ Tables(s, w) /\ c = s.code[k]
  BY DEF Ready
<1>4. Tuple(l)
  BY <1>3, LayoutTuple
<1> HIDE DEF l
<1>5. Through(s, c, l) = l
  BY <1>2, <1>4, RetopNothing DEF Through
<1>6. <<c.a, Through(s, c, l)>> \in Follows(s, k, l)
  <2>1. c = s.code[k]
    BY <1>3
  <2> QED
    BY <2>1, JumpFollows
<1>7. <<c.a, Layout(w.stack)>> \in Follows(s, k, Layout(w.stack))
  BY <1>5, <1>6 DEF l
<1>8. Sound(s, k, w, JumpTo(w, c.a))
  BY <1>3, <1>7, JumpSound
<1> QED
  BY <1>1, <1>8

\* A machine that did nothing but go on to the next command.
LEMMA OnlyContinued ==
  ASSUME NEW s, NEW k, NEW c, NEW w, Ready(s, k, c, w), <<k + 1, Layout(w.stack)>> \in Follows(s, k, Layout(w.stack))
  PROVE  Sound(s, k, w, Continue(w))
<1> DEFINE r == Continue(w)
<1>1. r = Continue(w)
  OBVIOUS
<1> HIDE DEF r
<1>2. IsMachine(w) /\ Tuple(w.stack) /\ w.err = NoError /\ w.pc = k /\ Tables(s, w)
  BY DEF Ready
<1>3. /\ IsMachine(r) /\ r.stack = w.stack /\ r.pc = w.pc + 1 /\ r.args = w.args
      /\ r.savedTypes = w.savedTypes /\ r.argTypes = w.argTypes /\ r.env = w.env /\ r.err = w.err
  BY <1>1, <1>2, Continued
<1>4. Tables(s, r)
  BY <1>2, <1>3 DEF Tables, ArgsTyped
<1>5. Sound(s, k, w, r)
  BY <1>2, <1>3, <1>4 DEF Sound
<1> QED
  BY <1>5 DEF r

LEMMA JumpInvalidSound ==
  ASSUME NEW s, NEW k, NEW c, NEW w, Ready(s, k, c, w), c.op = "jumpinvalid"
  PROVE  Sound(s, k, w, Exec(w, c))
<1> DEFINE l == Layout(w.stack)
           done == Replace(w, 1, <<>>)
<1>1. Exec(w, c) = IF Peek(w, 1).v = -1 /\ Peek(w, 1).t \in {NoType, "obj"} THEN JumpTo(done, c.a) ELSE Continue(w)
  BY OperandsThere, Dispatch DEF JumpInvalid
<1>2. c = s.code[k] /\ c.op \in Opcodes /\ Len(Operands(c)) <= Len(w.stack) /\ Len(w.stack) \in Nat
  BY OperandsThere, Found
<1>3. Len(Operands(c)) = 1
  BY <1>2, OperandsLength
<1>4. Last(l) = Peek(w, 1).t
  BY <1>2, <1>3, Found
<1>5. /\ <<k + 1, l>> \in Follows(s, k, l)
      /\ Last(l) \in {NoType, "obj"} => <<c.a, Retop(l, 1, <<>>)>> \in Follows(s, k, l)
  <2>1. c = s.code[k]
    BY <1>2
  <2> HIDE DEF l
  <2> QED
    BY <2>1, JumpInvalidFollows
<1>6. Sound(s, k, w, Continue(w))
  <2>1. <<k + 1, l>> \in Follows(s, k, l)
    BY <1>5
  <2> QED
    BY <2>1, OnlyContinued
<1>7. ASSUME Peek(w, 1).t \in {NoType, "obj"}
      PROVE  Sound(s, k, w, JumpTo(done, c.a))
  <2>1. Tuple(<<>>) /\ Layout(<<>>) = <<>>
    BY LayoutOfOne
  <2>2. done = Replace(w, 1, <<>>) /\ 1 <= Len(w.stack)
    BY <1>2, <1>3
  <2> HIDE DEF done
  <2>3. /\ IsMachine(done) /\ Tuple(done.stack) /\ done.pc = k + 1 /\ done.err = NoError /\ done.env = w.env /\ Tables(s, done)
        /\ Layout(done.stack) = Retop(Layout(w.stack), 1, Layout(<<>>))
    BY <2>1, <2>2, TopReplaced
  <2>4. <<c.a, Retop(l, 1, <<>>)>> \in Follows(s, k, l)
    BY <1>4, <1>5, <1>7
  <2>5. <<c.a, Layout(done.stack)>> \in Follows(s, k, Layout(w.stack))
    BY <2>1, <2>3, <2>4
  <2> QED
    BY <2>3, <2>5, JumpSound
<1> QED
  BY <1>1, <1>6, <1>7

LEMMA GuardSound ==
  ASSUME NEW s, NEW k, NEW c, NEW w, Ready(s, k, c, w), c.op = "guard"
  PROVE  Sound(s, k, w, Exec(w, c))
<1> DEFINE l == Layout(w.stack)
           done == Replace(w, 1, <<Default(c.b)>>)
<1>1. Exec(w, c) = IF Peek(w, 1).v # -1 THEN Continue(w) ELSE JumpTo(done, c.a)
  BY OperandsThere, Dispatch DEF NullableGuard
<1>2. c = s.code[k] /\ c.op \in Opcodes /\ Len(Operands(c)) <= Len(w.stack) /\ Len(w.stack) \in Nat
  BY OperandsThere, Found
<1>3. Len(Operands(c)) = 1
  BY <1>2, OperandsLength
<1>5. /\ <<k + 1, l>> \in Follows(s, k, l)
      /\ <<c.a, Retop(l, 1, <<Default(c.b).t>>)>> \in Follows(s, k, l)
  <2>1. c = s.code[k]
    BY <1>2
  <2> HIDE DEF l
  <2> QED
    BY <2>1, GuardFollows
<1>6. Sound(s, k, w, Continue(w))
  <2>1. <<k + 1, l>> \in Follows(s, k, l)
    BY <1>5
  <2> QED
    BY <2>1, OnlyContinued
<1>7. Sound(s, k, w, JumpTo(done, c.a))
  <2>1. Tuple(<<Default(c.b)>>) /\ Layout(<<Default(c.b)>>) = <<Default(c.b).t>>
    BY LayoutOfOne
  <2>2. done = Replace(w, 1, <<Default(c.b)>>) /\ 1 <= Len(w.stack)
    BY <1>2, <1>3
  <2> HIDE DEF done
  <2>3. /\ IsMachine(done) /\ Tuple(done.stack) /\ done.pc = k + 1 /\ done.err = NoError /\ done.env = w.env /\ Tables(s, done)
        /\ Layout(done.stack) = Retop(Layout(w.stack), 1, Layout(<<Default(c.b)>>))
    BY <2>1, <2>2, TopReplaced
  <2>4. <<c.a, Retop(l, 1, <<Default(c.b).t>>)>> \in Follows(s, k, l)
    BY <1>5
  <2>5. <<c.a, Layout(done.stack)>> \in Follows(s, k, Layout(w.stack))
    BY <2>1, <2>3, <2>4
  <2> QED
    BY <2>3, <2>5, JumpSound
<1> QED
  BY <1>1, <1>6, <1>7

\* A command that pushes one value, or none.
LEMMA PushSound ==
  ASSUME NEW s, NEW k, NEW c, NEW w, Ready(s, k, c, w), NEW v,
         c.op \notin {"erase", "erase_range", "jump", "jumpinvalid", "guard", "switch_no_match"},
         Pushed(s, c, Layout(w.stack)) = <<v.t>>
  PROVE  Sound(s, k, w, Replace(w, Taken(c), <<v>>))
<1>1. Tuple(<<v>>) /\ Layout(<<v>>) = <<v.t>>
  BY LayoutOfOne
<1> QED
  BY <1>1, ReplaceSound

LEMMA PopSound ==
  ASSUME NEW s, NEW k, NEW c, NEW w, Ready(s, k, c, w),
         c.op \notin {"erase", "erase_range", "jump", "jumpinvalid", "guard", "switch_no_match"},
         Pushed(s, c, Layout(w.stack)) = <<>>
  PROVE  Sound(s, k, w, Replace(w, Taken(c), <<>>))
<1>1. Tuple(<<>>) /\ Layout(<<>>) = <<>>
  BY LayoutOfOne
<1> QED
  BY <1>1, ReplaceSound

LEMMA FoldSound ==
  ASSUME NEW s, NEW k, NEW c, NEW w, Ready(s, k, c, w), c.op \in FoldOps
  PROVE  Sound(s, k, w, Exec(w, c))
<1> DEFINE y == Peek(w, 1).v
           x == Peek(w, 2).v
<1>0. c.op \in {"andbin", "notfn", "sum", "sumi", "mul"}
  BY DEF FoldOps
<1>1. Exec(w, c) = FoldOp(w, c)
  BY OperandsThere, Dispatch
<1>2. /\ c.op = "andbin" => Exec(w, c) = Replace(w, 2, <<Bool(x = 1 /\ y = 1)>>)
      /\ c.op = "notfn" => Exec(w, c) = Replace(w, 1, <<Bool(y = 0)>>)
      /\ c.op = "sum" => Exec(w, c) = Replace(w, 2, <<Val("float", FloatArith("addd", x, y))>>)
      /\ c.op = "sumi" => Exec(w, c) = Replace(w, 2, <<Val("int", IntOp("addi", x, y))>>)
      /\ c.op = "mul" => Exec(w, c) = Replace(w, 2, <<Val("float", FloatArith("muld", x, y))>>)
  BY <1>1 DEF FoldOp
<1>3. c.op \in Opcodes /\ (c.op = "call" => c.fn \in DOMAIN Functions)
  BY OperandsThere, Found
<1> HIDE DEF x, y
<1>4. CASE c.op = "andbin"
  <2> DEFINE v == Bool(x = 1 /\ y = 1)
  <2>3. v.t = "bool"
    BY ValType
  <2>1. Taken(c) = 2 /\ Pushed(s, c, Layout(w.stack)) = <<"bool">>
    BY <1>3, <1>4, Effects
  <2>2. Exec(w, c) = Replace(w, Taken(c), <<v>>)
    BY <1>2, <1>4, <2>1
  <2> HIDE DEF v
  <2> QED
    BY <1>4, <2>1, <2>2, <2>3, PushSound
<1>5. CASE c.op = "notfn"
  <2> DEFINE v == Bool(y = 0)
  <2>3. v.t = "bool"
    BY ValType
  <2>1. Taken(c) = 1 /\ Pushed(s, c, Layout(w.stack)) = <<"bool">>
    BY <1>3, <1>5, Effects
  <2>2. Exec(w, c) = Replace(w, Taken(c), <<v>>)
    BY <1>2, <1>5, <2>1
  <2> HIDE DEF v
  <2> QED
    BY <1>5, <2>1, <2>2, <2>3, PushSound
<1>6. CASE c.op = "sum"
  <2> DEFINE v == Val("float", FloatArith("addd", x, y))
  <2>3. v.t = "float"
    BY ValType
  <2>1. Taken(c) = 2 /\ Pushed(s, c, Layout(w.stack)) = <<"float">>
    BY <1>3, <1>6, Effects
  <2>2. Exec(w, c) = Replace(w, Taken(c), <<v>>)
    BY <1>2, <1>6, <2>1
  <2> HIDE DEF v
  <2> QED
    BY <1>6, <2>1, <2>2, <2>3, PushSound
<1>7. CASE c.op = "sumi"
  <2> DEFINE v == Val("int", IntOp("addi", x, y))
  <2>3. v.t = "int"
    BY ValType
  <2>1. Taken(c) = 2 /\ Pushed(s, c, Layout(w.stack)) = <<"int">>
    BY <1>3, <1>7, Effects
  <2>2. Exec(w, c) = Replace(w, Taken(c), <<v>>)
    BY <1>2, <1>7, <2>1
  <2> HIDE DEF v
  <2> QED
    BY <1>7, <2>1, <2>2, <2>3, PushSound
<1>8. CASE c.op = "mul"
  <2> DEFINE v == Val("float", FloatArith("muld", x, y))
  <2>3. v.t = "float"
    BY ValType
  <2>1. Taken(c) = 2 /\ Pushed(s, c, Layout(w.stack)) = <<"float">>
    BY <1>3, <1>8, Effects
  <2>2. Exec(w, c) = Replace(w, Taken(c), <<v>>)
    BY <1>2, <1>8, <2>1
  <2> HIDE DEF v
  <2> QED
    BY <1>8, <2>1, <2>2, <2>3, PushSound
<1> QED
  BY <1>0, <1>4, <1>5, <1>6, <1>7, <1>8

LEMMA CompareSound ==
  ASSUME NEW s, NEW k, NEW c, NEW w, Ready(s, k, c, w), c.op \in CompareOps
  PROVE  Sound(s, k, w, Exec(w, c))
<1>1. Exec(w, c) = CompareSlots(w, c)
  BY OperandsThere, Dispatch
<1>2. \E b : Exec(w, c) = Replace(w, 0, <<Bool(b)>>)
  BY <1>1 DEF CompareSlots
<1>3. PICK b : Exec(w, c) = Replace(w, 0, <<Bool(b)>>)
  BY <1>2
<1> DEFINE v == Bool(b)
<1>4. v.t = "bool"
  BY ValType
<1>5. Taken(c) = 0 /\ Pushed(s, c, Layout(w.stack)) = <<v.t>>
  BY <1>4, OperandsThere, Found, Effects
<1>6. Exec(w, c) = Replace(w, Taken(c), <<v>>)
  BY <1>3, <1>5
<1>7. c.op \notin {"erase", "erase_range", "jump", "jumpinvalid", "guard", "switch_no_match"}
  BY DEF CompareOps
<1> HIDE DEF v
<1> QED
  BY <1>5, <1>6, <1>7, PushSound

LEMMA SameTables ==
  ASSUME NEW s, NEW w, NEW r, Tables(s, w), r.args = w.args, r.savedTypes = w.savedTypes, r.argTypes = w.argTypes
  PROVE  Tables(s, r)
BY DEF Tables, ArgsTyped

LEMMA Nothing == Tuple(<<>>) /\ Layout(<<>>) = <<>>
BY LayoutOfOne

LEMMA CombineSound ==
  ASSUME NEW s, NEW k, NEW c, NEW w, Ready(s, k, c, w), c.op \in CombineOps
  PROVE  Sound(s, k, w, Exec(w, c))
<1>1. Exec(w, c) = CombineSlots(w, c)
  BY OperandsThere, Dispatch
<1>2. \E x : CombineSlots(w, c) = Continue([w EXCEPT !.stack[c.a] = Val("float", x)])
  BY DEF CombineSlots
<1>3. PICK x : CombineSlots(w, c) = Continue([w EXCEPT !.stack[c.a] = Val("float", x)])
  BY <1>2
<1> DEFINE v == Val("float", x)
           stack == [w.stack EXCEPT ![c.a] = v]
           z == [w EXCEPT !.stack = stack]
           r == Continue(z)
<1>4. v.t = "float"
  BY ValType
<1>5. c.a \in 1 .. Len(w.stack) /\ w.stack[c.a].t = "float"
  <2>1. <<c.a, "float">> \in SlotsUsed(c)
    BY DEF SlotsUsed, CombineOps
  <2>2. c.a \in 1 .. Len(w.stack) /\ "float" \in {"any", w.stack[c.a].t}
    BY <2>1, Found
  <2> QED
    BY <2>2
<1>6. Exec(w, c) = r
  BY <1>1, <1>3
<1> HIDE DEF v
<1>7. IsMachine(w) /\ Tuple(w.stack) /\ w.err = NoError /\ w.pc = k /\ Tables(s, w)
  BY DEF Ready
<1>8. Len(w.stack) \in Nat /\ w.stack \in [1 .. Len(w.stack) -> Range(w.stack)]
  BY <1>7 DEF Tuple
<1>9. stack \in [1 .. Len(w.stack) -> Range(w.stack) \union {v}]
  BY <1>8
<1>10. Tuple(stack) /\ Len(stack) = Len(w.stack)
  BY <1>8, <1>9, TupleOfFunction
<1>11. \A p \in 1 .. Len(w.stack) : stack[p].t = w.stack[p].t
  BY <1>4, <1>5, <1>8
<1> HIDE DEF stack
<1>12. Layout(stack) = Layout(w.stack)
  <2>1. Tuple(Layout(w.stack)) /\ Len(Layout(w.stack)) = Len(w.stack) /\ \A p \in 1 .. Len(w.stack) : Layout(w.stack)[p] = w.stack[p].t
    BY <1>7, LayoutTuple
  <2>2. Len(Layout(w.stack)) = Len(stack) /\ \A p \in 1 .. Len(stack) : Layout(w.stack)[p] = stack[p].t
    BY <1>10, <1>11, <2>1
  <2> QED
    BY <1>10, <2>1, <2>2, LayoutIs
<1>13. z = [w EXCEPT !.stack = stack] /\ r = Continue(z)
  OBVIOUS
<1> HIDE DEF z, r
<1>14. /\ IsMachine(z) /\ z.stack = stack /\ z.pc = w.pc /\ z.args = w.args
       /\ z.savedTypes = w.savedTypes /\ z.argTypes = w.argTypes /\ z.env = w.env /\ z.err = w.err
  BY <1>7, <1>13, StackSet
<1>15. /\ IsMachine(r) /\ r.stack = z.stack /\ r.pc = z.pc + 1 /\ r.args = z.args
       /\ r.savedTypes = z.savedTypes /\ r.argTypes = z.argTypes /\ r.env = z.env /\ r.err = z.err
  <2>1. IsMachine(z)
    BY <1>14
  <2>2. r = Continue(z)
    BY <1>13
  <2> QED
    BY <2>1, <2>2, Continued
<1>16. Tables(s, r)
  BY <1>7, <1>14, <1>15, SameTables
<1>17. Taken(c) = 0 /\ Pushed(s, c, Layout(w.stack)) = <<>>
  BY OperandsThere, Found, Effects
<1>18. c.op \notin {"erase", "erase_range", "jump", "jumpinvalid", "guard", "switch_no_match"}
  BY DEF CombineOps
<1>19. Through(s, c, Layout(w.stack)) = Layout(w.stack)
  BY <1>7, <1>17, <1>18, RetopNothing, LayoutTuple DEF Through
<1>20. Sound(s, k, w, r)
  BY <1>7, <1>10, <1>12, <1>14, <1>15, <1>16, <1>18, <1>19, WentThrough
<1> QED
  BY <1>6, <1>20

\* A slot of a declared type holds a value of it.
LEMMA SlotChecked ==
  ASSUME NEW declared, NEW v, declared \notin Untyped
  PROVE  v.t = declared <=> ~SlotTypeError(declared, v)
BY DEF SlotTypeError, Untyped

LEMMA PushOpSound ==
  ASSUME NEW s, NEW k, NEW c, NEW w, Ready(s, k, c, w), c.op \in PushOps
  PROVE  Sound(s, k, w, Exec(w, c))
<1>0. c.op \in {"pushbool", "pushint", "pushvalue", "pushstring", "pushroot", "pushthis", "pushprev", "pushinvalid"}
  BY DEF PushOps
<1>1. Exec(w, c) = PushOp(w, c)
  BY OperandsThere, Dispatch
<1>2. /\ c.op = "pushbool" => Exec(w, c) = Replace(w, 0, <<Bool(c.a = 1)>>)
      /\ c.op = "pushint" => Exec(w, c) = Replace(w, 0, <<Val("int", c.a)>>)
      /\ c.op = "pushvalue" => Exec(w, c) = Replace(w, 0, <<Val("float", c.a)>>)
      /\ c.op = "pushstring" => Exec(w, c) = Replace(w, 0, <<Val("str", c.a)>>)
      /\ c.op = "pushroot" /\ ~SlotTypeError(w.argTypes[1], w.args[1]) => Exec(w, c) = Replace(w, 0, <<w.args[1]>>)
      /\ c.op \in {"pushthis", "pushprev"} => Exec(w, c) = Replace(w, 0, <<w.stack[c.a]>>)
      /\ c.op = "pushinvalid" => Exec(w, c) = Replace(w, 0, <<Invalid>>)
  BY <1>1 DEF PushOp
<1>3. Taken(c) = 0
  BY <1>0, OperandsThere, Found, Effects
<1>4. ASSUME NEW v, Exec(w, c) = Replace(w, 0, <<v>>), Pushed(s, c, Layout(w.stack)) = <<v.t>>
      PROVE  Sound(s, k, w, Exec(w, c))
  <2>1. Sound(s, k, w, Replace(w, Taken(c), <<v>>))
    BY <1>0, <1>4, PushSound
  <2> QED
    BY <1>3, <1>4, <2>1
<1>5. CASE c.op = "pushbool"
  <2>1. Pushed(s, c, Layout(w.stack)) = <<"bool">>
    BY <1>5, OperandsThere, Found, Effects
  <2>2. Bool(c.a = 1).t = "bool"
    BY ValType
  <2> QED
    BY <1>2, <1>4, <1>5, <2>1, <2>2
<1>6. CASE c.op = "pushint"
  <2>1. Pushed(s, c, Layout(w.stack)) = <<"int">>
    BY <1>6, OperandsThere, Found, Effects
  <2>2. Val("int", c.a).t = "int"
    BY ValType
  <2> QED
    BY <1>2, <1>4, <1>6, <2>1, <2>2
<1>7. CASE c.op = "pushvalue"
  <2>1. Pushed(s, c, Layout(w.stack)) = <<"float">>
    BY <1>7, OperandsThere, Found, Effects
  <2>2. Val("float", c.a).t = "float"
    BY ValType
  <2> QED
    BY <1>2, <1>4, <1>7, <2>1, <2>2
<1>8. CASE c.op = "pushstring"
  <2>1. Pushed(s, c, Layout(w.stack)) = <<"str">>
    BY <1>8, OperandsThere, Found, Effects
  <2>2. Val("str", c.a).t = "str"
    BY ValType
  <2> QED
    BY <1>2, <1>4, <1>8, <2>1, <2>2
<1>9. CASE c.op = "pushroot"
  <2>1. Pushed(s, c, Layout(w.stack)) = <<s.args[1].t>>
    BY <1>9, OperandsThere, Found, Effects
  <2>2. 1 \in DOMAIN s.args /\ s.args[1].t \notin Untyped
    BY <1>9, Found DEF SlotsFit
  <2>3. 1 \in DOMAIN w.argTypes /\ w.argTypes[1] = s.args[1].t /\ ArgsTyped(w)
    <3>1. Tables(s, w)
      BY Found
    <3> QED
      BY <2>2, <3>1 DEF Tables
  <2>4. w.args[1].t = w.argTypes[1]
    BY <2>2, <2>3 DEF ArgsTyped
  <2>5. ~SlotTypeError(w.argTypes[1], w.args[1])
    BY <2>2, <2>3, <2>4, SlotChecked
  <2>6. Exec(w, c) = Replace(w, 0, <<w.args[1]>>) /\ Pushed(s, c, Layout(w.stack)) = <<w.args[1].t>>
    BY <1>2, <1>9, <2>1, <2>3, <2>4, <2>5
  <2> QED
    BY <1>4, <2>6
<1>10. CASE c.op \in {"pushthis", "pushprev"}
  <2>1. Pushed(s, c, Layout(w.stack)) = <<Layout(w.stack)[c.a]>>
    BY <1>10, OperandsThere, Found, Effects
  <2>2. c.a \in 1 .. Len(w.stack)
    <3>1. <<c.a, "any">> \in SlotsUsed(c)
      BY <1>10 DEF SlotsUsed, CombineOps
    <3> QED
      BY <3>1, Found
  <2>3. Layout(w.stack)[c.a] = w.stack[c.a].t
    BY <2>2, Found, LayoutTuple
  <2>4. Exec(w, c) = Replace(w, 0, <<w.stack[c.a]>>) /\ Pushed(s, c, Layout(w.stack)) = <<w.stack[c.a].t>>
    BY <1>2, <1>10, <2>1, <2>3
  <2> QED
    BY <1>4, <2>4
<1>11. CASE c.op = "pushinvalid"
  <2>1. Pushed(s, c, Layout(w.stack)) = <<Invalid.t>>
    BY <1>11, OperandsThere, Found, Effects
  <2> QED
    BY <1>2, <1>4, <1>11, <2>1
<1> QED
  BY <1>0, <1>5, <1>6, <1>7, <1>8, <1>9, <1>10, <1>11

LEMMA PushReturnSound ==
  ASSUME NEW s, NEW k, NEW c, NEW w, Ready(s, k, c, w), c.op = "pushreturn"
  PROVE  Sound(s, k, w, Exec(w, c))
<1> DEFINE z == Replace(w, 1, <<>>)
           r == [z EXCEPT !.ret = Peek(w, 1)]
<1>1. Exec(w, c) = r
  BY OperandsThere, Dispatch DEF PushReturn
<1>2. Taken(c) = 1 /\ Pushed(s, c, Layout(w.stack)) = <<>> /\ Tuple(<<>>) /\ Layout(<<>>) = <<>>
  <2>1. Taken(c) = 1 /\ Pushed(s, c, Layout(w.stack)) = <<>>
    BY OperandsThere, Found, Effects
  <2> QED
    BY <2>1, Nothing
<1>3. z = Replace(w, Taken(c), <<>>) /\ r = [z EXCEPT !.ret = Peek(w, 1)]
  BY <1>2
<1> HIDE DEF z, r
<1>4. /\ IsMachine(z) /\ Tuple(z.stack) /\ z.pc = k + 1 /\ z.err = NoError /\ z.env = w.env /\ Tables(s, z)
      /\ Layout(z.stack) = Through(s, c, Layout(w.stack))
  BY <1>2, <1>3, ReplacedThrough
<1>5. /\ IsMachine(r) /\ r.stack = z.stack /\ r.pc = z.pc /\ r.args = z.args
      /\ r.savedTypes = z.savedTypes /\ r.argTypes = z.argTypes /\ r.env = z.env /\ r.err = z.err
  <2>1. IsMachine(z)
    BY <1>4
  <2> QED
    BY <1>3, <2>1, RetSet
<1>6. Tables(s, r)
  BY <1>4, <1>5, SameTables
<1>7. Sound(s, k, w, r)
  BY <1>4, <1>5, <1>6, WentThrough
<1> QED
  BY <1>1, <1>7

LEMMA EraseSound ==
  ASSUME NEW s, NEW k, NEW c, NEW w, Ready(s, k, c, w), c.op \in {"erase", "erase_range"}
  PROVE  Sound(s, k, w, Exec(w, c))
<1> DEFINE n == Erased(c)
           stack == CutOut(w.stack, c.a, n)
           z == [w EXCEPT !.stack = stack]
           r == Continue(z)
<1>1. Exec(w, c) = r
  BY OperandsThere, Dispatch DEF EraseOp
<1>2. IsMachine(w) /\ Tuple(w.stack) /\ w.err = NoError /\ w.pc = k /\ Tables(s, w)
  BY DEF Ready
<1>3. n \in Nat /\ c.a \in Nat /\ 1 <= c.a /\ c.a + n <= Len(w.stack) + 1
  <2>0. Len(w.stack) \in Nat
    BY OperandsThere
  <2>1. <<c.a, "any">> \in SlotsUsed(c)
    BY DEF SlotsUsed, CombineOps
  <2>2. c.a \in 1 .. Len(w.stack)
    BY <2>1, Found
  <2>3. CASE c.op = "erase"
    BY <2>0, <2>2, <2>3 DEF Erased
  <2>4. CASE c.op = "erase_range"
    <3>1. <<c.a + c.b - 1, "any">> \in SlotsUsed(c)
      BY <2>4 DEF SlotsUsed, CombineOps
    <3>2. c.a + c.b - 1 \in 1 .. Len(w.stack) /\ c.b \in Nat \ {0}
      BY <2>4, <3>1, Found
    <3>3. n = c.b
      BY <2>4 DEF Erased
    <3> HIDE DEF n
    <3> QED
      BY <2>0, <2>2, <3>2, <3>3
  <2> QED
    BY <2>3, <2>4
<1> HIDE DEF n
<1>4. Tuple(stack) /\ Layout(stack) = CutOut(Layout(w.stack), c.a, n)
  BY <1>2, <1>3, CutOutTuple, LayoutOfCutOut
<1>5. z = [w EXCEPT !.stack = stack] /\ r = Continue(z)
  OBVIOUS
<1> HIDE DEF stack, z, r
<1>6. /\ IsMachine(z) /\ z.stack = stack /\ z.pc = w.pc /\ z.args = w.args
      /\ z.savedTypes = w.savedTypes /\ z.argTypes = w.argTypes /\ z.env = w.env /\ z.err = w.err
  BY <1>2, <1>5, StackSet
<1>7. /\ IsMachine(r) /\ r.stack = z.stack /\ r.pc = z.pc + 1 /\ r.args = z.args
      /\ r.savedTypes = z.savedTypes /\ r.argTypes = z.argTypes /\ r.env = z.env /\ r.err = z.err
  <2>1. IsMachine(z)
    BY <1>6
  <2>2. r = Continue(z)
    BY <1>5
  <2> QED
    BY <2>1, <2>2, Continued
<1>8. Tables(s, r)
  BY <1>2, <1>6, <1>7, SameTables
<1>9. Through(s, c, Layout(w.stack)) = CutOut(Layout(w.stack), c.a, n)
  BY DEF Through, n
<1>10. Sound(s, k, w, r)
  BY <1>2, <1>4, <1>6, <1>7, <1>8, <1>9, WentThrough
<1> QED
  BY <1>1, <1>10

LEMMA HostValueSound ==
  ASSUME NEW s, NEW k, NEW c, NEW w, Ready(s, k, c, w), c.op \in {"chance", "context"}
  PROVE  Sound(s, k, w, Exec(w, c))
<1>1. c.op = "chance" => Exec(w, c) = Replace(w, 0, <<Val("float", w.env.chance[c.a])>>)
  BY OperandsThere, Dispatch DEF PushChance
<1>2. c.op = "context" => Exec(w, c) = Replace(w, 0, <<Val("thisctx", 0)>>)
  BY OperandsThere, Dispatch DEF PushContext
<1>3. Taken(c) = 0
  BY OperandsThere, Found, Effects
<1>4. CASE c.op = "chance"
  <2> DEFINE v == Val("float", w.env.chance[c.a])
  <2>1. Pushed(s, c, Layout(w.stack)) = <<"float">>
    BY <1>4, OperandsThere, Found, Effects
  <2>2. v.t = "float"
    BY ValType
  <2>3. Exec(w, c) = Replace(w, Taken(c), <<v>>)
    BY <1>1, <1>3, <1>4
  <2> HIDE DEF v
  <2> QED
    BY <1>4, <2>1, <2>2, <2>3, PushSound
<1>5. CASE c.op = "context"
  <2> DEFINE v == Val("thisctx", 0)
  <2>1. Pushed(s, c, Layout(w.stack)) = <<"thisctx">>
    BY <1>5, OperandsThere, Found, Effects
  <2>2. v.t = "thisctx"
    BY ValType
  <2>3. Exec(w, c) = Replace(w, Taken(c), <<v>>)
    BY <1>2, <1>3, <1>5
  <2> HIDE DEF v
  <2> QED
    BY <1>5, <2>1, <2>2, <2>3, PushSound
<1> QED
  BY <1>4, <1>5

\* What is stored in an argument has the type declared for it.
LEMMA ArgStored ==
  ASSUME NEW s, NEW w, NEW r, Tables(s, w), NEW p \in DOMAIN s.args, NEW v, v.t = s.args[p].t,
         r.args = [w.args EXCEPT ![p] = v], r.savedTypes = w.savedTypes, r.argTypes = w.argTypes
  PROVE  Tables(s, r)
<1>1. /\ w.argTypes = [k \in DOMAIN s.args |-> s.args[k].t] /\ w.savedTypes = [k \in DOMAIN s.saved |-> s.saved[k].t]
      /\ w.args = [k \in DOMAIN w.argTypes |-> w.args[k]]
      /\ \A k \in DOMAIN w.argTypes : w.argTypes[k] \notin Untyped => w.args[k].t = w.argTypes[k]
  BY DEF Tables, ArgsTyped
<1>2. DOMAIN r.argTypes = DOMAIN s.args /\ DOMAIN w.argTypes = DOMAIN s.args /\ r.argTypes[p] = s.args[p].t
  BY <1>1
<1>3. r.args = [k \in DOMAIN r.argTypes |-> r.args[k]] /\ \A k \in DOMAIN r.argTypes : r.args[k] = IF k = p THEN v ELSE w.args[k]
  BY <1>1, <1>2
<1>4. \A k \in DOMAIN r.argTypes : r.argTypes[k] \notin Untyped => r.args[k].t = r.argTypes[k]
  BY <1>1, <1>2, <1>3
<1> QED
  BY <1>1, <1>3, <1>4 DEF Tables, ArgsTyped

LEMMA PushArgSound ==
  ASSUME NEW s, NEW k, NEW c, NEW w, Ready(s, k, c, w), c.op = "pushargvalue"
  PROVE  Sound(s, k, w, Exec(w, c))
<1>1. Exec(w, c) = ArgOp(w, c)
  BY OperandsThere, Dispatch DEF ArgOps
<1>2. ~SlotTypeError(w.argTypes[c.a], w.args[c.a]) => Exec(w, c) = Replace(w, 0, <<w.args[c.a]>>)
  BY <1>1 DEF ArgOp
<1>3. Taken(c) = 0 /\ Pushed(s, c, Layout(w.stack)) = <<s.args[c.a].t>>
  BY OperandsThere, Found, Effects
<1>4. c.a \in DOMAIN s.args /\ s.args[c.a].t \notin Untyped
  BY Found DEF SlotsFit
<1>5. c.a \in DOMAIN w.argTypes /\ w.argTypes[c.a] = s.args[c.a].t /\ ArgsTyped(w)
  <2>1. Tables(s, w)
    BY Found
  <2> QED
    BY <1>4, <2>1 DEF Tables
<1>6. w.args[c.a].t = w.argTypes[c.a]
  BY <1>4, <1>5 DEF ArgsTyped
<1>7. ~SlotTypeError(w.argTypes[c.a], w.args[c.a])
  BY <1>4, <1>5, <1>6, SlotChecked
<1>8. Exec(w, c) = Replace(w, Taken(c), <<w.args[c.a]>>) /\ Pushed(s, c, Layout(w.stack)) = <<w.args[c.a].t>>
  BY <1>2, <1>3, <1>5, <1>6, <1>7
<1> QED
  BY <1>8, PushSound

LEMMA SetArgSound ==
  ASSUME NEW s, NEW k, NEW c, NEW w, Ready(s, k, c, w), c.op = "setargrvalue"
  PROVE  Sound(s, k, w, Exec(w, c))
<1> DEFINE v == Peek(w, 1)
           z == Replace(w, 1, <<>>)
           r == [z EXCEPT !.args[c.a] = v]
<1>1. Exec(w, c) = r
  <2>1. Exec(w, c) = ArgOp(w, c)
    BY OperandsThere, Dispatch DEF ArgOps
  <2> QED
    BY <2>1 DEF ArgOp
<1>2. Taken(c) = 1 /\ Pushed(s, c, Layout(w.stack)) = <<>> /\ Tuple(<<>>) /\ Layout(<<>>) = <<>>
  <2>1. Taken(c) = 1 /\ Pushed(s, c, Layout(w.stack)) = <<>>
    BY OperandsThere, Found, Effects
  <2> QED
    BY <2>1, Nothing
<1>3. z = Replace(w, Taken(c), <<>>) /\ r = [z EXCEPT !.args = [z.args EXCEPT ![c.a] = v]]
  BY <1>2
<1>4. c.a \in DOMAIN s.args /\ Last(Layout(w.stack)) = s.args[c.a].t
  BY Found DEF SlotsFit
<1>5. v.t = s.args[c.a].t
  <2>1. c.op \in Opcodes /\ Len(Operands(c)) <= Len(w.stack) /\ Len(w.stack) \in Nat
    BY OperandsThere
  <2>2. Len(Operands(c)) = 1
    BY <2>1, OperandsLength
  <2> QED
    BY <1>4, <2>1, <2>2, Found
<1> HIDE DEF z, r, v
<1>6. /\ IsMachine(z) /\ Tuple(z.stack) /\ z.pc = k + 1 /\ z.err = NoError /\ z.env = w.env /\ Tables(s, z)
      /\ Layout(z.stack) = Through(s, c, Layout(w.stack))
  BY <1>2, <1>3, ReplacedThrough
<1>7. /\ IsMachine(r) /\ r.stack = z.stack /\ r.pc = z.pc /\ r.args = [z.args EXCEPT ![c.a] = v]
      /\ r.savedTypes = z.savedTypes /\ r.argTypes = z.argTypes /\ r.env = z.env /\ r.err = z.err
  <2>1. IsMachine(z)
    BY <1>6
  <2> QED
    BY <1>3, <2>1, ArgsSet
<1>8. Tables(s, r)
  BY <1>4, <1>5, <1>6, <1>7, ArgStored
<1>9. Sound(s, k, w, r)
  BY <1>6, <1>7, <1>8, WentThrough
<1> QED
  BY <1>1, <1>9

LEMMA CopyArgSound ==
  ASSUME NEW s, NEW k, NEW c, NEW w, Ready(s, k, c, w), c.op = "setarglvalue"
  PROVE  Sound(s, k, w, Exec(w, c))
<1> DEFINE v == w.stack[c.a]
           z == Continue(w)
           r == [z EXCEPT !.args[c.b] = v]
<1>1. Exec(w, c) = r
  <2>1. Exec(w, c) = ArgOp(w, c)
    BY OperandsThere, Dispatch DEF ArgOps
  <2> QED
    BY <2>1 DEF ArgOp
<1>2. Taken(c) = 0 /\ Pushed(s, c, Layout(w.stack)) = <<>>
  BY OperandsThere, Found, Effects
<1>3. z = Continue(w) /\ r = [z EXCEPT !.args = [z.args EXCEPT ![c.b] = v]]
  OBVIOUS
<1>4. c.b \in DOMAIN s.args /\ Layout(w.stack)[c.a] = s.args[c.b].t
  BY Found DEF SlotsFit
<1>5. v.t = s.args[c.b].t
  <2>1. <<c.a, "any">> \in SlotsUsed(c)
    BY DEF SlotsUsed, CombineOps
  <2>2. c.a \in 1 .. Len(w.stack)
    BY <2>1, Found
  <2>3. Layout(w.stack)[c.a] = w.stack[c.a].t
    BY <2>2, Found, LayoutTuple
  <2> QED
    BY <1>4, <2>3
<1> HIDE DEF z, r, v
<1>6. /\ IsMachine(z) /\ Tuple(z.stack) /\ z.pc = k + 1 /\ z.err = NoError /\ z.env = w.env /\ Tables(s, z)
      /\ Layout(z.stack) = Through(s, c, Layout(w.stack))
  <2>1. z = Continue(w)
    BY <1>3
  <2> QED
    BY <1>2, <2>1, ContinueThrough
<1>7. /\ IsMachine(r) /\ r.stack = z.stack /\ r.pc = z.pc /\ r.args = [z.args EXCEPT ![c.b] = v]
      /\ r.savedTypes = z.savedTypes /\ r.argTypes = z.argTypes /\ r.env = z.env /\ r.err = z.err
  <2>1. IsMachine(z)
    BY <1>6
  <2> QED
    BY <1>3, <2>1, ArgsSet
<1>8. Tables(s, r)
  BY <1>4, <1>5, <1>6, <1>7, ArgStored
<1>9. Sound(s, k, w, r)
  BY <1>6, <1>7, <1>8, WentThrough
<1> QED
  BY <1>1, <1>9

LEMMA OwnErrors ==
  /\ OwnError("saved type") /\ OwnError("no case") /\ OwnError("weight") /\ OwnError("assert")
  /\ OwnError("invalid scope") /\ OwnError("throw")
BY Zenon DEF OwnError, NoError

LEMMA SavedSound ==
  ASSUME NEW s, NEW k, NEW c, NEW w, Ready(s, k, c, w), c.op \in SavedOps
  PROVE  Sound(s, k, w, Exec(w, c))
<1>0. c.op \in {"pushctxvalue", "savectxrvalue", "savectxlvalue"}
  BY DEF SavedOps
<1>1. Exec(w, c) = SavedOp(w, c)
  BY OperandsThere, Dispatch
<1>2. CASE c.op = "pushctxvalue"
  <2>1. Exec(w, c) = IF SlotTypeError(w.savedTypes[c.a], w.saved[c.a]) THEN Abort(w, "saved type")
                     ELSE Replace(w, 0, <<w.saved[c.a]>>)
    BY <1>1, <1>2 DEF SavedOp
  <2>2. Sound(s, k, w, Abort(w, "saved type"))
    BY GaveUp, OwnErrors
  <2>3. Taken(c) = 0 /\ Pushed(s, c, Layout(w.stack)) = <<s.saved[c.a].t>>
    BY <1>2, OperandsThere, Found, Effects
  <2>4. c.a \in DOMAIN s.saved /\ s.saved[c.a].t \notin Untyped
    BY <1>2, Found DEF SlotsFit
  <2>5. w.savedTypes[c.a] = s.saved[c.a].t
    <3>1. Tables(s, w)
      BY Found
    <3> QED
      BY <2>4, <3>1 DEF Tables
  <2>6. ASSUME ~SlotTypeError(w.savedTypes[c.a], w.saved[c.a])
        PROVE  Sound(s, k, w, Replace(w, 0, <<w.saved[c.a]>>))
    <3>1. w.saved[c.a].t = s.saved[c.a].t
      BY <2>4, <2>5, <2>6, SlotChecked
    <3>2. Pushed(s, c, Layout(w.stack)) = <<w.saved[c.a].t>>
      BY <2>3, <3>1
    <3>3. Sound(s, k, w, Replace(w, Taken(c), <<w.saved[c.a]>>))
      BY <1>2, <3>2, PushSound
    <3> QED
      BY <2>3, <3>3
  <2> QED
    BY <2>1, <2>2, <2>6
<1>3. CASE c.op = "savectxrvalue"
  <2> DEFINE z == Replace(w, 1, <<>>)
             r == [z EXCEPT !.saved[c.a] = Peek(w, 1)]
  <2>1. Exec(w, c) = r
    BY <1>1, <1>3 DEF SavedOp
  <2>2. Taken(c) = 1 /\ Pushed(s, c, Layout(w.stack)) = <<>> /\ Tuple(<<>>) /\ Layout(<<>>) = <<>>
    <3>1. Taken(c) = 1 /\ Pushed(s, c, Layout(w.stack)) = <<>>
      BY <1>3, OperandsThere, Found, Effects
    <3> QED
      BY <3>1, Nothing
  <2>3. z = Replace(w, Taken(c), <<>>) /\ r = [z EXCEPT !.saved = [z.saved EXCEPT ![c.a] = Peek(w, 1)]]
    BY <2>2
  <2> HIDE DEF z, r
  <2>4. /\ IsMachine(z) /\ Tuple(z.stack) /\ z.pc = k + 1 /\ z.err = NoError /\ z.env = w.env /\ Tables(s, z)
        /\ Layout(z.stack) = Through(s, c, Layout(w.stack))
    BY <1>3, <2>2, <2>3, ReplacedThrough
  <2>5. /\ IsMachine(r) /\ r.stack = z.stack /\ r.pc = z.pc /\ r.args = z.args
        /\ r.savedTypes = z.savedTypes /\ r.argTypes = z.argTypes /\ r.env = z.env /\ r.err = z.err
    <3> DEFINE x == [z.saved EXCEPT ![c.a] = Peek(w, 1)]
    <3>1. IsMachine(z)
      BY <2>4
    <3>2. r = [z EXCEPT !.saved = x]
      BY <2>3
    <3> HIDE DEF x
    <3> QED
      BY <3>1, <3>2, SavedSet
  <2>6. Tables(s, r)
    BY <2>4, <2>5, SameTables
  <2>7. Sound(s, k, w, r)
    BY <1>3, <2>4, <2>5, <2>6, WentThrough
  <2> QED
    BY <2>1, <2>7
<1>4. CASE c.op = "savectxlvalue"
  <2> DEFINE z == Continue(w)
             r == [z EXCEPT !.saved[c.b] = w.stack[c.a]]
  <2>1. Exec(w, c) = r
    BY <1>1, <1>4 DEF SavedOp
  <2>2. Taken(c) = 0 /\ Pushed(s, c, Layout(w.stack)) = <<>>
    BY <1>4, OperandsThere, Found, Effects
  <2>3. z = Continue(w) /\ r = [z EXCEPT !.saved = [z.saved EXCEPT ![c.b] = w.stack[c.a]]]
    OBVIOUS
  <2> HIDE DEF z, r
  <2>4. /\ IsMachine(z) /\ Tuple(z.stack) /\ z.pc = k + 1 /\ z.err = NoError /\ z.env = w.env /\ Tables(s, z)
        /\ Layout(z.stack) = Through(s, c, Layout(w.stack))
    <3>1. z = Continue(w)
      BY <2>3
    <3> QED
      BY <1>4, <2>2, <3>1, ContinueThrough
  <2>5. /\ IsMachine(r) /\ r.stack = z.stack /\ r.pc = z.pc /\ r.args = z.args
        /\ r.savedTypes = z.savedTypes /\ r.argTypes = z.argTypes /\ r.env = z.env /\ r.err = z.err
    <3> DEFINE x == [z.saved EXCEPT ![c.b] = w.stack[c.a]]
    <3>1. IsMachine(z)
      BY <2>4
    <3>2. r = [z EXCEPT !.saved = x]
      BY <2>3
    <3> HIDE DEF x
    <3> QED
      BY <3>1, <3>2, SavedSet
  <2>6. Tables(s, r)
    BY <2>4, <2>5, SameTables
  <2>7. Sound(s, k, w, r)
    BY <1>4, <2>4, <2>5, <2>6, WentThrough
  <2> QED
    BY <2>1, <2>7
<1> QED
  BY <1>0, <1>2, <1>3, <1>4

LEMMA CheckSound ==
  ASSUME NEW s, NEW k, NEW c, NEW w, Ready(s, k, c, w), c.op \in {"switch_no_match", "weightcheck"}
  PROVE  Sound(s, k, w, Exec(w, c))
<1>1. c.op = "switch_no_match" => Exec(w, c) = Abort(w, "no case")
  BY OperandsThere, Dispatch DEF SwitchNoMatch
<1>2. c.op = "weightcheck" => Exec(w, c) \in {Abort(w, "weight"), Continue(w)}
  BY OperandsThere, Dispatch DEF CheckRandomWeight
<1>3. Sound(s, k, w, Abort(w, "no case")) /\ Sound(s, k, w, Abort(w, "weight"))
  BY GaveUp, OwnErrors
<1>4. CASE c.op = "weightcheck"
  <2>1. Taken(c) = 0 /\ Pushed(s, c, Layout(w.stack)) = <<>>
    BY <1>4, OperandsThere, Found, Effects
  <2>2. Sound(s, k, w, Continue(w))
    BY <1>4, <2>1, ContinueSound
  <2> QED
    BY <1>2, <1>3, <1>4, <2>2
<1> QED
  BY <1>1, <1>3, <1>4

LEMMA DebugSound ==
  ASSUME NEW s, NEW k, NEW c, NEW w, Ready(s, k, c, w), c.op \in {"assert", "trace"}
  PROVE  Sound(s, k, w, Exec(w, c))
<1>1. Exec(w, c) = DebugOp(w, c)
  BY OperandsThere, Dispatch
<1>2. CASE c.op = "assert"
  <2>1. Exec(w, c) \in {Abort(w, "assert"), Replace(w, 2, <<>>)}
    BY <1>1, <1>2 DEF DebugOp
  <2>2. Taken(c) = 2 /\ Pushed(s, c, Layout(w.stack)) = <<>>
    BY <1>2, OperandsThere, Found, Effects
  <2>3. Sound(s, k, w, Replace(w, Taken(c), <<>>))
    BY <1>2, <2>2, PopSound
  <2>4. Sound(s, k, w, Abort(w, "assert"))
    BY GaveUp, OwnErrors
  <2> QED
    BY <2>1, <2>2, <2>3, <2>4
<1>3. CASE c.op = "trace"
  <2> DEFINE z == Replace(w, 1, <<>>)
             x == Append(z.log, <<"trace", Peek(w, 1).v>>)
             r == [z EXCEPT !.log = x]
  <2>1. Exec(w, c) = r
    BY <1>1, <1>3 DEF DebugOp
  <2>2. Taken(c) = 1 /\ Pushed(s, c, Layout(w.stack)) = <<>> /\ Tuple(<<>>) /\ Layout(<<>>) = <<>>
    <3>1. Taken(c) = 1 /\ Pushed(s, c, Layout(w.stack)) = <<>>
      BY <1>3, OperandsThere, Found, Effects
    <3> QED
      BY <3>1, Nothing
  <2>3. z = Replace(w, Taken(c), <<>>) /\ r = [z EXCEPT !.log = x]
    BY <2>2
  <2> HIDE DEF z, r, x
  <2>4. /\ IsMachine(z) /\ Tuple(z.stack) /\ z.pc = k + 1 /\ z.err = NoError /\ z.env = w.env /\ Tables(s, z)
        /\ Layout(z.stack) = Through(s, c, Layout(w.stack))
    BY <1>3, <2>2, <2>3, ReplacedThrough
  <2>5. /\ IsMachine(r) /\ r.stack = z.stack /\ r.pc = z.pc /\ r.args = z.args
        /\ r.savedTypes = z.savedTypes /\ r.argTypes = z.argTypes /\ r.env = z.env /\ r.err = z.err
    <3>1. IsMachine(z)
      BY <2>4
    <3> QED
      BY <2>3, <3>1, LogSet
  <2>6. Tables(s, r)
    BY <2>4, <2>5, SameTables
  <2>7. Sound(s, k, w, r)
    BY <1>3, <2>4, <2>5, <2>6, WentThrough
  <2> QED
    BY <2>1, <2>7
<1> QED
  BY <1>2, <1>3

LEMMA ConvertSound ==
  ASSUME NEW s, NEW k, NEW c, NEW w, Ready(s, k, c, w), c.op = "convert"
  PROVE  Sound(s, k, w, Exec(w, c))
<1>1. Exec(w, c) = Convert(w, c)
  BY OperandsThere, Dispatch
<1>2. \E y : Convert(w, c) = Replace(w, 1, <<Val(Conversions[c.fn][2], y)>>)
  BY DEF Convert
<1>3. PICK y : Convert(w, c) = Replace(w, 1, <<Val(Conversions[c.fn][2], y)>>)
  BY <1>2
<1> DEFINE v == Val(Conversions[c.fn][2], y)
<1>4. v.t = Conversions[c.fn][2]
  BY ValType
<1>5. Exec(w, c) = Replace(w, 1, <<v>>)
  BY <1>1, <1>3
<1> HIDE DEF v
<1>6. Taken(c) = 1 /\ Pushed(s, c, Layout(w.stack)) = <<Conversions[c.fn][2]>>
  BY OperandsThere, Found, Effects
<1>7. Sound(s, k, w, Replace(w, Taken(c), <<v>>))
  BY <1>4, <1>6, PushSound
<1> QED
  BY <1>5, <1>6, <1>7

LEMMA CallSound ==
  ASSUME NEW s, NEW k, NEW c, NEW w, Ready(s, k, c, w), c.op = "call"
  PROVE  Sound(s, k, w, Exec(w, c))
<1> DEFINE f == Functions[c.fn]
           n == Len(f.args)
           z == Replace(w, n, <<>>)
<1>1. Exec(w, c) = Call(w, c)
  BY OperandsThere, Dispatch
<1>2. \E scope, args, answer :
        Call(w, c) =
          IF f.scope # NoType /\ scope.v = -1 THEN Abort(w, "invalid scope")
          ELSE IF f.ret = "void" THEN [z EXCEPT !.log = Append(z.log, <<c.fn, scope.v, args>>)]
          ELSE IF answer = Throw THEN Abort(w, "throw")
          ELSE Replace(w, n, <<Val(f.ret, answer)>>)
  BY DEF Call
<1>3. PICK scope, args, answer :
        Call(w, c) =
          IF f.scope # NoType /\ scope.v = -1 THEN Abort(w, "invalid scope")
          ELSE IF f.ret = "void" THEN [z EXCEPT !.log = Append(z.log, <<c.fn, scope.v, args>>)]
          ELSE IF answer = Throw THEN Abort(w, "throw")
          ELSE Replace(w, n, <<Val(f.ret, answer)>>)
  BY <1>2
<1> DEFINE x == Append(z.log, <<c.fn, scope.v, args>>)
           r == [z EXCEPT !.log = x]
           v == Val(f.ret, answer)
<1>4. /\ f.ret = "void" => Exec(w, c) \in {Abort(w, "invalid scope"), r}
      /\ f.ret # "void" => Exec(w, c) \in {Abort(w, "invalid scope"), Abort(w, "throw"), Replace(w, n, <<v>>)}
  BY <1>1, <1>3
<1>5. Taken(c) = n /\ Pushed(s, c, Layout(w.stack)) = IF f.ret = "void" THEN <<>> ELSE <<f.ret>>
  BY OperandsThere, Found, Effects
<1>6. Sound(s, k, w, Abort(w, "invalid scope")) /\ Sound(s, k, w, Abort(w, "throw"))
  BY GaveUp, OwnErrors
<1>7. v.t = f.ret
  BY ValType
<1>8. z = Replace(w, n, <<>>) /\ r = [z EXCEPT !.log = x]
  OBVIOUS
<1> HIDE DEF f, n, z, x, r, v
<1>9. ASSUME f.ret = "void"
      PROVE  Sound(s, k, w, r)
  <2>1. Pushed(s, c, Layout(w.stack)) = <<>> /\ z = Replace(w, Taken(c), <<>>)
    BY <1>5, <1>8, <1>9
  <2>2. Tuple(<<>>) /\ Layout(<<>>) = Pushed(s, c, Layout(w.stack))
    BY <2>1, Nothing
  <2>3. /\ IsMachine(z) /\ Tuple(z.stack) /\ z.pc = k + 1 /\ z.err = NoError /\ z.env = w.env /\ Tables(s, z)
        /\ Layout(z.stack) = Through(s, c, Layout(w.stack))
    BY <2>1, <2>2, ReplacedThrough
  <2>4. /\ IsMachine(r) /\ r.stack = z.stack /\ r.pc = z.pc /\ r.args = z.args
        /\ r.savedTypes = z.savedTypes /\ r.argTypes = z.argTypes /\ r.env = z.env /\ r.err = z.err
    <3>1. IsMachine(z)
      BY <2>3
    <3> QED
      BY <1>8, <3>1, LogSet
  <2>5. Tables(s, r)
    BY <2>3, <2>4, SameTables
  <2> QED
    BY <2>3, <2>4, <2>5, WentThrough
<1>10. ASSUME f.ret # "void"
       PROVE  Sound(s, k, w, Replace(w, n, <<v>>))
  <2>1. Pushed(s, c, Layout(w.stack)) = <<v.t>>
    BY <1>5, <1>7, <1>10
  <2>2. Sound(s, k, w, Replace(w, Taken(c), <<v>>))
    BY <2>1, PushSound
  <2> QED
    BY <1>5, <2>2
<1> QED
  BY <1>4, <1>6, <1>9, <1>10

\* Whatever a command is, a machine that is ready for it is as one of the
\* commands that follow it expects, or gave up as the script asked.
LEMMA ExecSound ==
  ASSUME NEW s, NEW k, NEW c, NEW w, Ready(s, k, c, w)
  PROVE  Sound(s, k, w, Exec(w, c))
<1>1. c.op \in Opcodes
  BY OperandsThere
<1>2. \/ c.op \in ShortCircuitOps \/ c.op \in CondJumpOps \/ c.op \in FoldOps \/ c.op \in CompareOps
      \/ c.op \in CombineOps \/ c.op \in PushOps \/ c.op \in SavedOps
      \/ c.op \in {"jump", "jumpinvalid", "guard", "pushargvalue", "setargrvalue", "setarglvalue", "pushreturn", "erase",
                   "erase_range", "chance", "context", "switch_no_match", "weightcheck", "assert", "trace", "convert", "call"}
  BY <1>1 DEF Opcodes, BranchOps, ArgOps
<1>3. c.op \in {"jump", "jumpinvalid", "guard", "pushargvalue", "setargrvalue", "setarglvalue", "pushreturn"} =>
        Sound(s, k, w, Exec(w, c))
  BY JumpAlwaysSound, JumpInvalidSound, GuardSound, PushArgSound, SetArgSound, CopyArgSound, PushReturnSound
<1>4. c.op \in {"erase", "erase_range", "chance", "context", "switch_no_match", "weightcheck", "assert", "trace",
                "convert", "call"} => Sound(s, k, w, Exec(w, c))
  BY EraseSound, HostValueSound, CheckSound, DebugSound, ConvertSound, CallSound
<1> QED
  BY <1>2, <1>3, <1>4, ShortCircuitSound, CondJumpSound, FoldSound, CompareSound, CombineSound, PushOpSound, SavedSound

-----------------------------------------------------------------------------
(* A run of a certified script                                             *)

\* Machine `w` is where script `s`, whose certificate is `reached`, may be.
InPlace(reached, s, w) ==
  /\ IsMachine(w) /\ Tuple(w.stack) /\ Tables(s, w)
  /\ w.pc \in 1 .. (Len(s.code) + 1)
  /\ Layout(w.stack) \in reached[w.pc]
  /\ w.err # NoError => OwnError(w.err)

LEMMA StartInPlace ==
  ASSUME NEW reached, NEW s, Certifies(reached, s), NEW host, GivesArguments(host, s), NEW w, w = StartRun(host, s)
  PROVE  InPlace(reached, s, w) /\ w.env = host /\ w.err = NoError /\ w.stack = <<>> /\ w.log = <<>>
<1>1. /\ IsMachine(w) /\ w.stack = <<>> /\ w.pc = 1 /\ w.err = NoError /\ w.env = host /\ w.log = <<>>
      /\ w.args = [k \in DOMAIN s.args |-> host.args[s.args[k].n]]
      /\ w.argTypes = [k \in DOMAIN s.args |-> s.args[k].t] /\ w.savedTypes = [k \in DOMAIN s.saved |-> s.saved[k].t]
  <2> DEFINE saved == [k \in DOMAIN s.saved |-> Val(NoType, 0)]
             args == [k \in DOMAIN s.args |-> host.args[s.args[k].n]]
             savedTypes == [k \in DOMAIN s.saved |-> s.saved[k].t]
             argTypes == [k \in DOMAIN s.args |-> s.args[k].t]
             ret == Val("void", 0)
             nothing == <<>>
  <2>1. w = Machine(nothing, 1, saved, args, savedTypes, argTypes, ret, nothing, host, NoError)
    BY DEF StartRun, Machine
  <2> HIDE DEF saved, args, savedTypes, argTypes, ret, nothing
  <2>2. /\ IsMachine(w) /\ w.stack = nothing /\ w.pc = 1 /\ w.err = NoError /\ w.env = host /\ w.log = nothing
        /\ w.args = args /\ w.argTypes = argTypes /\ w.savedTypes = savedTypes
    BY <2>1, MachineFields
  <2> QED
    BY <2>2 DEF nothing, args, argTypes, savedTypes
<1>2. Tables(s, w)
  <2>1. ASSUME NEW k \in DOMAIN w.argTypes, w.argTypes[k] \notin Untyped
        PROVE  w.args[k].t = w.argTypes[k]
    <3>1. k \in DOMAIN s.args /\ w.args[k] = host.args[s.args[k].n] /\ w.argTypes[k] = s.args[k].t
      BY <1>1
    <3>2. s.args[k].t \in Untyped \/ host.args[s.args[k].n].t = s.args[k].t
      BY <3>1 DEF GivesArguments
    <3> QED
      BY <2>1, <3>1, <3>2
  <2>2. w.args = [k \in DOMAIN w.argTypes |-> w.args[k]]
    BY <1>1
  <2> QED
    BY <1>1, <2>1, <2>2 DEF Tables, ArgsTyped
<1>3. Tuple(w.stack) /\ Layout(w.stack) = <<>>
  BY <1>1, Nothing
<1>4. <<>> \in reached[1] /\ Len(s.code) \in Nat
  BY DEF Certifies
<1>5. w.pc \in 1 .. (Len(s.code) + 1) /\ Layout(w.stack) \in reached[w.pc]
  BY <1>1, <1>3, <1>4
<1>6. InPlace(reached, s, w)
  BY <1>1, <1>2, <1>3, <1>5 DEF InPlace
<1> QED
  BY <1>1, <1>6

LEMMA ExecInPlace ==
  ASSUME NEW reached, NEW s, Certifies(reached, s), NEW w, InPlace(reached, s, w), w.err = NoError, w.pc <= Len(s.code),
         AlwaysTrue(s.code, w.pc) => Peek(w, 1).v = 1,
         NEW r, r = Exec(w, s.code[w.pc])
  PROVE  /\ InPlace(reached, s, r) /\ r.env = w.env
         /\ r.err = NoError => r.pc > w.pc
         /\ r.err # NoError => r.stack = w.stack
<1> DEFINE k == w.pc
           c == s.code[k]
           l == Layout(w.stack)
<1>1. Len(s.code) \in Nat /\ DOMAIN s.code = 1 .. Len(s.code)
  BY DEF Certifies
<1>2. k \in DOMAIN s.code /\ k \in Nat /\ l \in reached[k]
  BY <1>1 DEF InPlace
<1>3. c.op \in Opcodes /\ Fits(s, c, l) /\ \A x \in Follows(s, k, l) : x[1] \in (k + 1) .. (Len(s.code) + 1) /\ x[2] \in reached[x[1]]
  BY <1>2 DEF Certifies
<1>4. Ready(s, k, c, w)
  BY <1>2, <1>3 DEF InPlace, Ready
<1>5. Sound(s, k, w, r)
  BY <1>4, ExecSound
<1> HIDE DEF k, c, l
<1>6. IsMachine(r) /\ Tuple(r.stack) /\ Tables(s, r) /\ r.env = w.env
  BY <1>5 DEF Sound
<1>7. CASE r.err = NoError
  <2>1. <<r.pc, Layout(r.stack)>> \in Follows(s, k, l)
    BY <1>5, <1>7 DEF Sound, l
  <2>2. r.pc \in (k + 1) .. (Len(s.code) + 1) /\ Layout(r.stack) \in reached[r.pc]
    BY <1>3, <2>1
  <2>3. r.pc \in 1 .. (Len(s.code) + 1) /\ r.pc > k
    BY <1>1, <1>2, <2>2
  <2> QED
    BY <1>6, <1>7, <2>2, <2>3 DEF InPlace, k
<1>8. CASE r.err # NoError
  <2>1. r.stack = w.stack /\ r.pc = w.pc /\ OwnError(r.err)
    BY <1>5, <1>8 DEF Sound
  <2> QED
    BY <1>6, <1>8, <2>1 DEF InPlace
<1> QED
  BY <1>7, <1>8

\* What holds of a run at every moment: once it has begun, the machine is where
\* the script's certificate allows.
Begun == phase \notin {"ready", "rejected"}

Prepared == Certifies(Layouts(built), built) /\ \A host \in Hosts : GivesArguments(host, built)

RunInPlace ==
  /\ phase = "rejected" <=> built.err # NoError
  /\ ~Begun => env = NoHost /\ m = NotBegun
  /\ Begun => /\ Prepared /\ env \in Hosts /\ m.env = env
              /\ InPlace(Layouts(built), built, m)
  /\ phase # "running" /\ Begun => ~(m.err = NoError /\ m.pc <= Len(built.code))

LEMMA RunInPlaceInit == RunInit => RunInPlace
BY DEF RunInit, RunInPlace, Begun

LEMMA RunInPlaceStep ==
  ASSUME RunInPlace, Certified, RunNext
  PROVE  RunInPlace'
<1>1. CASE Begin
  <2>1. phase = "ready" /\ env' \in Hosts /\ m' = StartRun(env', built) /\ phase' = "running" /\ built' = built
    BY <1>1 DEF Begin
  <2>2. Prepared
    BY <2>1 DEF Certified, CodeIsCertified, Prepared
  <2>3. InPlace(Layouts(built), built, m') /\ m'.env = env'
    BY <2>1, <2>2, StartInPlace DEF Prepared
  <2>4. built.err = NoError
    BY <2>1 DEF RunInPlace
  <2>5. Begun' /\ Prepared'
    BY <2>1, <2>2 DEF Begun, Prepared
  <2> QED
    BY <2>1, <2>3, <2>4, <2>5 DEF RunInPlace
<1>2. CASE Step
  <2>1. /\ phase = "running" /\ m.err = NoError /\ m.pc <= Len(built.code) /\ m' = Exec(m, built.code[m.pc])
        /\ env' = env /\ built' = built /\ phase' = phase
    BY <1>2 DEF Step, Running
  <2>2. Begun /\ Begun'
    BY <2>1 DEF Begun
  <2>3. Prepared /\ InPlace(Layouts(built), built, m) /\ env \in Hosts /\ m.env = env /\ Prepared'
    BY <2>1, <2>2 DEF RunInPlace, Prepared
  <2>4. AlwaysTrue(built.code, m.pc) => Peek(m, 1).v = 1
    BY <2>1 DEF Certified, LastBranchTaken, Running
  <2>5. InPlace(Layouts(built), built, m') /\ m'.env = m.env
    BY <2>1, <2>3, <2>4, ExecInPlace DEF Prepared
  <2> QED
    BY <2>1, <2>2, <2>3, <2>5 DEF RunInPlace
<1>3. CASE End
  <2>1. phase = "running" /\ ~(m.err = NoError /\ m.pc <= Len(built.code)) /\ phase' = "done"
        /\ env' = env /\ built' = built /\ m' = m
    BY <1>3 DEF End, Running
  <2>2. Begun /\ Begun'
    BY <2>1 DEF Begun
  <2> QED
    BY <2>1, <2>2 DEF RunInPlace, Prepared
<1> QED
  BY <1>1, <1>2, <1>3 DEF RunNext

LEMMA RunInPlaceStays ==
  ASSUME RunInPlace, UNCHANGED runVars
  PROVE  RunInPlace'
BY DEF RunInPlace, runVars, Begun, Prepared

\* What the inductive invariant says of a run.
LEMMA InPlaceMeans ==
  ASSUME RunInPlace
  PROVE  /\ m.err \notin {"operand", "argument type"}
         /\ Begun => Len(m.stack) <= built.peak
         /\ Begun /\ phase # "running" /\ m.err = NoError => m.stack = <<>>
         /\ m.pc \in 1 .. (Len(built.code) + 1) \/ ~Begun
<1>1. CASE Begun
  <2>1. Certifies(Layouts(built), built) /\ InPlace(Layouts(built), built, m)
    BY <1>1 DEF RunInPlace, Prepared
  <2>2. m.err \notin {"operand", "argument type"}
    <3>1. OwnError(NoError) \/ m.err = NoError \/ OwnError(m.err)
      BY <2>1 DEF InPlace
    <3>2. NoError \notin {"operand", "argument type"}
      BY Zenon DEF NoError
    <3> QED
      BY <3>1, <3>2 DEF OwnError
  <2>3. /\ m.pc \in 1 .. (Len(built.code) + 1) /\ Layout(m.stack) \in Layouts(built)[m.pc]
        /\ Len(Layout(m.stack)) = Len(m.stack) /\ Len(m.stack) \in Nat
    BY <2>1, LayoutTuple, TupleDomain DEF InPlace
  <2>4. Len(Layout(m.stack)) <= built.peak
    <3>1. DOMAIN Layouts(built) = 1 .. (Len(built.code) + 1)
      BY <2>1 DEF Certifies
    <3> QED
      BY <2>1, <2>3, <3>1 DEF Certifies
  <2>5. ASSUME phase # "running", m.err = NoError
        PROVE  m.stack = <<>>
    <3>1. ~(m.pc <= Len(built.code)) /\ Len(built.code) \in Nat
      BY <1>1, <2>1, <2>5 DEF RunInPlace, Certifies
    <3>2. m.pc = Len(built.code) + 1
      BY <2>3, <3>1
    <3>3. Layout(m.stack) = <<>>
      BY <2>1, <2>3, <3>2 DEF Certifies
    <3>4. Len(m.stack) = 0 /\ Tuple(m.stack)
      BY <2>1, <2>3, <3>3 DEF InPlace
    <3> QED
      BY <3>4, Nothing, SameTuple
  <2> QED
    BY <2>2, <2>3, <2>4, <2>5
<1>2. CASE ~Begun
  <2>1. m.err = NoError
    BY <1>2 DEF RunInPlace, NotBegun, StartRun
  <2>2. NoError \notin {"operand", "argument type"}
    BY Zenon DEF NoError
  <2> QED
    BY <1>2, <2>1, <2>2
<1> QED
  BY <1>1, <1>2

-----------------------------------------------------------------------------
(* What is certified of a script holds of every run of it                  *)

LEMMA RunStaysInPlace == RunSpec /\ []Certified => []RunInPlace
<1>1. RunInPlace /\ Certified /\ [RunNext]_runVars => RunInPlace'
  BY RunInPlaceStep, RunInPlaceStays
<1> QED
  BY <1>1, RunInPlaceInit, PTL DEF RunSpec

\* A certified script is never misread: whatever the host answers, and
\* whatever way the run takes, every command finds the operands and arguments
\* of the types it was emitted for, so the unchecked build may leave the tests
\* out (basic_functions.cpp safe_pop, safe_get; container::checkType).
THEOREM CertifiedIsNeverMisread == RunSpec /\ []Certified => []NeverMisread
<1>1. RunInPlace => NeverMisread
  BY InPlaceMeans DEF NeverMisread
<1> QED
  BY <1>1, RunStaysInPlace, PTL

\* The stack never outgrows max_stack, which a host may allocate it by.
THEOREM CertifiedStaysWithinReserve == RunSpec /\ []Certified => []WithinReserve
<1>1. RunInPlace => WithinReserve
  BY InPlaceMeans DEF WithinReserve, Begun
<1> QED
  BY <1>1, RunStaysInPlace, PTL

LEMMA PhasesOfARun == RunSpec => [](env \in Hosts \union {NoHost} /\ phase \in {"ready", "running", "done", "rejected"})
<1> DEFINE P == env \in Hosts \union {NoHost} /\ phase \in {"ready", "running", "done", "rejected"}
<1>1. RunInit => P
  BY DEF RunInit
<1>2. P /\ [RunNext]_runVars => P'
  BY DEF RunNext, Begin, Step, End, runVars
<1> HIDE DEF P
<1>3. RunSpec => []P
  BY <1>1, <1>2, PTL DEF RunSpec
<1> QED
  BY <1>3, PTL DEF P

\* A run is always somewhere in its stream, and no rejected script has one.
THEOREM RunTypeCorrect == RunSpec /\ []Certified => []TypeOK
<1> DEFINE P == env \in Hosts \union {NoHost} /\ phase \in {"ready", "running", "done", "rejected"}
<1>1. RunInPlace /\ Certified /\ P => TypeOK
  <2> SUFFICES ASSUME RunInPlace, Certified, P
               PROVE  TypeOK
    OBVIOUS
  <2>1. phase = "rejected" <=> built.err # NoError
    BY DEF RunInPlace
  <2>2. ASSUME phase # "rejected"
        PROVE  m.pc \in 1 .. (Len(built.code) + 1)
    <3>1. CASE Begun
      BY <3>1, InPlaceMeans
    <3>2. CASE ~Begun
      <4>1. phase = "ready" /\ m = NotBegun
        BY <2>2, <3>2 DEF Begun, RunInPlace
      <4>2. m.pc = 1
        BY <4>1 DEF NotBegun, StartRun
      <4>3. Len(built.code) \in Nat
        BY <4>1 DEF Certified, CodeIsCertified, Certifies
      <4> QED
        BY <4>2, <4>3
    <3> QED
      BY <3>1, <3>2
  <2> QED
    BY <2>1, <2>2 DEF TypeOK
<1> HIDE DEF P
<1>2. RunSpec => []P
  BY PhasesOfARun, PTL DEF P
<1> QED
  BY <1>1, <1>2, RunStaysInPlace, PTL

\* A script that came to its end by itself has left nothing on the stack, and
\* it came there: every command leads forward, so a run is over after as many
\* commands as the stream has.
EndsClean == phase = "done" /\ m.err = NoError => m.stack = <<>>
GoesForward == phase = "running" /\ phase' = "running" => m'.err # NoError \/ m'.pc > m.pc

THEOREM CertifiedEndsClean == RunSpec /\ []Certified => []EndsClean
<1>1. RunInPlace => EndsClean
  BY InPlaceMeans DEF EndsClean, Begun
<1> QED
  BY <1>1, RunStaysInPlace, PTL

THEOREM CertifiedGoesForward == RunSpec /\ []Certified => [][GoesForward]_runVars
<1>1. RunInPlace /\ Certified /\ [RunNext]_runVars => [GoesForward]_runVars
  <2> SUFFICES ASSUME RunInPlace, Certified, Step
               PROVE  GoesForward
    BY DEF RunNext, Begin, End, GoesForward
  <2>1. /\ phase = "running" /\ m.err = NoError /\ m.pc <= Len(built.code) /\ m' = Exec(m, built.code[m.pc])
        /\ env' = env /\ built' = built /\ phase' = phase
    BY DEF Step, Running
  <2>2. Prepared /\ InPlace(Layouts(built), built, m)
    BY <2>1 DEF RunInPlace, Begun
  <2>3. AlwaysTrue(built.code, m.pc) => Peek(m, 1).v = 1
    BY <2>1 DEF Certified, LastBranchTaken, Running
  <2>4. m'.err = NoError => m'.pc > m.pc
    BY <2>1, <2>2, <2>3, ExecInPlace DEF Prepared
  <2> QED
    BY <2>4 DEF GoesForward
<1> QED
  BY <1>1, RunStaysInPlace, PTL DEF RunSpec
=============================================================================
