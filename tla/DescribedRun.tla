---------------------------- MODULE DescribedRun ----------------------------
(***************************************************************************)
(* A script that is run and then described in the same circumstances, as a *)
(* host does that shows its user what a script did, whoever compiled it.   *)
(***************************************************************************)
EXTENDS ScriptRun, ScriptDescription

VARIABLES
  tops,     \* the top of the stack after each command of the run
  table,    \* what describe() has found out: the value and the scope of each node
  at        \* the command describe() is at

describedVars == <<env, built, m, phase, tops, table, at>>

NoScript == [args |-> <<>>, saved |-> <<>>, descs |-> <<>>]

DescriptionInit == RunInit /\ tops = <<>> /\ table = StartDescription(NoScript, NoHost) /\ at = 0

Prepare == (Begin \/ End) /\ UNCHANGED <<tops, table, at>>

RunStep ==
  /\ Step
  /\ tops' = IF m'.err = NoError /\ m'.stack # <<>>
             THEN [k \in DOMAIN tops \union {m.pc} |-> IF k = m.pc THEN Last(m'.stack) ELSE tops[k]]
             ELSE tops
  /\ UNCHANGED <<table, at>>

\* describe() takes the context as it was before the run, by value.
BeginDescription ==
  /\ phase = "done"
  /\ table' = StartDescription(built, env)
  /\ at' = 1
  /\ phase' = "describing"
  /\ UNCHANGED <<env, built, m, tops>>

\* Bug: a command that fails is tried again.
DescribeCommandAgain ==
  /\ phase = "describing" /\ at \in DOMAIN built.code
  /\ table' = DescribeStep(built, table, at)
  /\ at' = IF table'.stopped THEN at ELSE at + 1
  /\ UNCHANGED <<env, built, m, phase, tops>>

DescribeCommand ==
  /\ phase = "describing" /\ at \in DOMAIN built.code
  /\ table' = DescribeStep(built, table, at)
  /\ at' = at + 1
  /\ UNCHANGED <<env, built, m, phase, tops>>

EndDescription ==
  /\ phase = "describing" /\ at \notin DOMAIN built.code
  /\ phase' = "described"
  /\ UNCHANGED <<env, built, m, tops, table, at>>

DescriptionNext == Prepare \/ RunStep \/ BeginDescription \/ DescribeCommand \/ EndDescription

DescriptionSpec == DescriptionInit /\ [][DescriptionNext]_describedVars

-----------------------------------------------------------------------------
\* The commands whose work is seen from outside.
Loud(c) == c.op = "trace" \/ (c.op = "call" /\ Functions[c.fn].ret = "void")

\* Every command that is seen from outside is the one its description node is
\* an effect for, which is how describe() knows it (container.cpp
\* cmd_is_effect over build_description_index).
EffectsMarked == phase = "ready" => \A k \in DOMAIN built.code : Loud(built.code[k]) => IsEffect(built, k)

\* Nothing else is taken for an effect, and no effect takes operands: leaving
\* it out leaves the stack as it is (the walk is out of step otherwise).
EffectsTakeNothing ==
  phase = "ready" =>
    \A k \in DOMAIN built.code : IsEffect(built, k) => Loud(built.code[k]) /\ Operands(built.code[k]) = <<>>

\* So leaving the effects of a script out leaves the rest of it as it was.
EffectsStandAlone == EffectsMarked /\ EffectsTakeNothing

\* Describing a script has no effect: whatever its conditions are, no effect of
\* it happens (container::describe, cmd_is_effect).
DescribingIsSilent == phase \in {"describing", "described"} => table.work.log = <<>>

\* describe() does not lose its place on the stack when it leaves an effect
\* out: if the script ran to its end the walk does too, and a value a node is
\* given is one its command left on the stack when the script ran
\* (container.cpp: an effect's argument pushes "must still be evaluated").
DescribedAsRun ==
  phase = "described" /\ m.err = NoError =>
    /\ ~table.stopped
    /\ \A n \in DOMAIN built.descs :
         table.table[n].has =>
           \E k \in {built.descs[n].start, built.descs[n].index} \intersect DOMAIN tops : table.table[n].value = tops[k]
=============================================================================
