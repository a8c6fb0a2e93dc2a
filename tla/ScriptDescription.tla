-------------------------- MODULE ScriptDescription -------------------------
(***************************************************************************)
(* container::describe: a compiled script is walked command by command on  *)
(* a copy of the host's context, calls of effects left out, and each       *)
(* description node is given the value its command left on the stack.      *)
(***************************************************************************)
EXTENDS ScriptMachine

\* Bug: the outermost node.
NodeOfOuter(s, k) ==
  LET around == {n \in DOMAIN s.descs : s.descs[n].start <= k /\ k <= s.descs[n].index}
  IN IF around = {} THEN 0 ELSE Max(around)

\* The innermost node whose commands include `k`, the first one of those of
\* the same length; 0: none (build_description_index).
NodeOf(s, k) ==
  LET span(n) == s.descs[n].index - s.descs[n].start
      around == {n \in DOMAIN s.descs : s.descs[n].start <= k /\ k <= s.descs[n].index}
  IN IF around = {} THEN 0
     ELSE CHOOSE n \in around : \A j \in around : span(n) < span(j) \/ (span(n) = span(j) /\ n <= j)

IsEffect(s, k) ==
  LET n == NodeOf(s, k) IN n # 0 /\ s.descs[n].effect /\ s.descs[n].index = k

\* The commands that are not of the instruction table are known by the name
\* of the node they belong to.
Thunks == {"call", "convert", "guard", "weightcheck", "switch_no_match", "assert", "trace"}
NameOf(s, k) == IF s.code[k].op \in Thunks /\ NodeOf(s, k) # 0 THEN s.descs[NodeOf(s, k)].tok ELSE ""

Unset == [has |-> FALSE, value |-> Invalid, scope |-> Invalid]

\* The nodes sampled at command `k`: those that begin there and are named as
\* it is, which a call does before its block runs, and those that end there.
SampledAt(s, k) ==
  {n \in DOMAIN s.descs :
     \/ s.descs[n].index = k
     \/ s.descs[n].start = k /\ s.descs[n].tok = NameOf(s, k)}

\* The first value a node gets is the one it keeps.
Record(acc, s, k, work) ==
  [acc EXCEPT !.table = [n \in DOMAIN @ |->
     IF n \notin SampledAt(s, k) \/ @[n].has \/ work.stack = <<>> THEN @[n]
     ELSE [has |-> TRUE, value |-> Last(work.stack),
           scope |-> IF s.descs[n].scope \in DOMAIN work.stack THEN work.stack[s.descs[n].scope] ELSE Invalid]]]

\* Bug: commands that were jumped over are described as well.
DescribeStepStraight(s, acc, k) ==
  LET next == Exec([acc.work EXCEPT !.pc = k], s.code[k])
  IN IF acc.stopped THEN acc
     ELSE IF IsEffect(s, k) THEN [acc EXCEPT !.work = Continue(@)]
     ELSE IF next.err # NoError THEN [acc EXCEPT !.stopped = TRUE] ELSE Record([acc EXCEPT !.work = next], s, k, next)

\* One command: not reached, an effect, one that fails and ends the walk (the
\* nodes it left unfinished lose what was sampled at their beginning), or one
\* that runs.
DescribeStep(s, acc, k) ==
  LET next == Exec(acc.work, s.code[k])
  IN IF acc.stopped \/ k < acc.work.pc THEN acc
     ELSE IF IsEffect(s, k) THEN [acc EXCEPT !.work = Continue(@)]
     ELSE IF next.err # NoError
     THEN [acc EXCEPT !.stopped = TRUE,
                      !.table = [n \in DOMAIN @ |-> IF s.descs[n].index >= k THEN Unset ELSE @[n]]]
     ELSE Record([acc EXCEPT !.work = next], s, k, next)

StartDescription(s, env) ==
  [work |-> StartRun(env, s), stopped |-> FALSE, table |-> [n \in DOMAIN s.descs |-> Unset]]

Described(s, env) ==
  FoldLeft(LAMBDA acc, k : DescribeStep(s, acc, k), StartDescription(s, env), [k \in DOMAIN s.code |-> k])
=============================================================================
