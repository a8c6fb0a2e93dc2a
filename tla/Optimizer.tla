------------------------------ MODULE Optimizer -----------------------------
(***************************************************************************)
(* The peephole pass over a compiled script (system::optimize_commands):   *)
(* it drops context pushes nothing reads, fuses runs of erasures, drops    *)
(* jumps that fall through, follows chains of jumps, and then moves every  *)
(* stored command index to where its command went.                         *)
(*                                                                         *)
(* A script is the compile context Codegen leaves behind.  Command         *)
(* indexes count from 1, so the end of the stream is Len(code) + 1.        *)
(***************************************************************************)
EXTENDS CompileContext

\* Commands that may be entered other than from the one before.
Entries(s) == {1, Len(s.code) + 1} \union {s.code[k].a : k \in s.fields}

InOrder(s, ks) == SelectSeq([k \in DOMAIN s.code |-> k], LAMBDA k : k \in ks)

\* Bug: only the beginnings of nodes are kept.
ObservedStarts(s) == {s.descs[k].start : k \in DOMAIN s.descs}

\* Commands a description node is sampled at.
Observed(s) == UNION {{s.descs[k].start, s.descs[k].index} : k \in DOMAIN s.descs}

\* The pass works on the script and the set of commands it still keeps.
Keeping(s) == [s |-> s, keep |-> DOMAIN s.code]

\* A context push and its unwind go together, unless something branches into
\* the block; nodes inside it that named the pushed object lose their scope.
DropContextPush(w, push) ==
  LET entered == \E k \in (push.cmd + 1) .. push.unwind : k \in Entries(w.s)
      inside(d) == d.scope = push.slot /\ d.start >= push.cmd /\ d.index <= push.unwind
  IN IF entered \/ {push.cmd, push.unwind} \intersect w.keep # {push.cmd, push.unwind} THEN w
     ELSE [s |-> [w.s EXCEPT !.descs = [k \in DOMAIN @ |-> IF inside(@[k]) THEN [@[k] EXCEPT !.scope = 0] ELSE @[k]]],
           keep |-> w.keep \ {push.cmd, push.unwind}]

DropContextPushes(w) == FoldLeft(DropContextPush, w, w.s.dead)

\* From an erasure that is not observed: the length of the run of the ones
\* after it that nothing enters or observes, and that take slots adjoining.
RECURSIVE RunFrom(_, _, _, _)
RunFrom(w, from, n, down) ==
  LET k == from + n
      joins == /\ k \in w.keep /\ k \notin Entries(w.s) \union Observed(w.s) /\ w.s.code[k].op = "erase"
               /\ w.s.code[k].a = w.s.code[from].a - (IF down THEN n ELSE 0)
  IN IF joins THEN RunFrom(w, from, n + 1, down) ELSE n

RECURSIVE FuseErasures(_, _)
FuseErasures(w, k) ==
  LET c == w.s.code[k]
      n == Larger(RunFrom(w, k, 1, TRUE), RunFrom(w, k, 1, FALSE))
      down == n = RunFrom(w, k, 1, TRUE)
      range == Cmd("erase_range", IF down THEN c.a - n + 1 ELSE c.a, n, "")
  IN IF k > Len(w.s.code) THEN w
     ELSE IF k \notin w.keep \ Observed(w.s) \/ c.op # "erase" THEN FuseErasures(w, k + 1)
     ELSE IF n = 1 THEN FuseErasures(w, k + 1)
     ELSE FuseErasures([s |-> [w.s EXCEPT !.code[k] = range], keep |-> w.keep \ ((k + 1) .. (k + n - 1))], k + n)

NextKept(w, k) == Min({j \in w.keep : j > k} \union {Len(w.s.code) + 1})

\* A jump to the next command that stays.  A conditional one stays: it also
\* takes a value.
DropFallThrough(w) ==
  FoldLeft(LAMBDA x, k :
             IF k \in x.keep \ Observed(x.s) /\ x.s.code[k].op = "jump" /\ x.s.code[k].a = NextKept(x, k)
             THEN [x EXCEPT !.keep = @ \ {k}] ELSE x,
           w, [k \in DOMAIN w.s.code |-> k])

Threaded == {"jump", "condjump", "condjump_get", "condjumpt_get", "andjump", "orjump", "jumpinvalid"}

\* Where a chain of jumps that are not observed ends.
RECURSIVE Follow(_, _, _)
Follow(w, target, steps) ==
  IF steps = 0 \/ target \notin w.keep \ Observed(w.s) \/ w.s.code[target].op # "jump"
     \/ w.s.code[target].a = target
  THEN target ELSE Follow(w, w.s.code[target].a, steps - 1)

ThreadJumps(w) ==
  LET n == Len(w.s.code)
      thread(x, k) ==
        IF k \in x.keep /\ x.s.code[k].op \in Threaded
        THEN [x EXCEPT !.s.code[k].a = Follow(x, @, n)] ELSE x
  IN FoldLeft(thread, w, InOrder(w.s, w.s.fields))

\* The first kept command at or after an index, and the last at or before it,
\* as indexes of the new stream.
NextAt(w, k) == Cardinality({j \in w.keep : j < k}) + 1
LastAt(w, k) == Larger(Cardinality({j \in w.keep : j <= k}), 1)

\* Every stored index is read in the old stream and written in the new one.
Relocate(w) ==
  LET s == w.s
      kept == InOrder(s, w.keep)
      moved(k) == IF k \in s.fields THEN [s.code[k] EXCEPT !.a = NextAt(w, @)] ELSE s.code[k]
      node(d) == [d EXCEPT !.start = NextAt(w, @), !.index = LastAt(w, @), !.end = NextAt(w, @)]
      push(p) == [p EXCEPT !.cmd = NextAt(w, @), !.unwind = NextAt(w, @)]
      left == SelectSeq(s.dead, LAMBDA p : p.cmd \in w.keep)
  IN IF w.keep = DOMAIN s.code THEN s
     ELSE [s EXCEPT !.code = [j \in DOMAIN kept |-> moved(kept[j])],
                    !.fields = {NextAt(w, k) : k \in @ \intersect w.keep},
                    !.dead = [j \in DOMAIN left |-> push(left[j])],
                    !.descs = [j \in DOMAIN @ |-> node(@[j])]]

OptimizeCommands(s) ==
  IF s.code = <<>> THEN s
  ELSE Relocate(ThreadJumps(DropFallThrough(FuseErasures(DropContextPushes(Keeping(s)), 1))))
=============================================================================
