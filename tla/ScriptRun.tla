------------------------------ MODULE ScriptRun ------------------------------
(***************************************************************************)
(* The run of one compiled script, whoever compiled it: the host runs it   *)
(* command by command (script_container::process) in a context it          *)
(* prepared.  What may be said of every such run follows from what is said *)
(* here of the stream: the types of the operands are followed along its    *)
(* paths, and the stream is certified if they always fit.                  *)
(***************************************************************************)
EXTENDS ScriptMachine

CONSTANT Hosts   \* what a script may find when it runs (see ScriptMachine)

VARIABLES
  env,        \* the host's answers
  built,      \* what compilation left: Codegen's context
  m,          \* the state of the run
  phase       \* "ready", "running", "done" or "rejected"

runVars == <<env, built, m, phase>>

NoHost == [args |-> <<>>]
NotBegun == StartRun(NoHost, [args |-> <<>>, saved |-> <<>>])

\* A script with an error is never run.
RunInit ==
  /\ phase = IF built.err # NoError THEN "rejected" ELSE "ready"
  /\ env = NoHost
  /\ m = NotBegun

Begin ==
  /\ phase = "ready"
  /\ env' \in Hosts
  /\ m' = StartRun(env', built)
  /\ phase' = "running"
  /\ UNCHANGED built

Running == phase = "running" /\ m.err = NoError /\ m.pc <= Len(built.code)

Step ==
  /\ Running
  /\ m' = Exec(m, built.code[m.pc])
  /\ UNCHANGED <<env, built, phase>>

End ==
  /\ phase = "running" /\ ~Running
  /\ phase' = "done"
  /\ UNCHANGED <<env, built, m>>

RunNext == Begin \/ Step \/ End

RunSpec == RunInit /\ [][RunNext]_runVars

-----------------------------------------------------------------------------
(* The types along the paths of a stream *)

\* The test of the last branch of a `random`: the roll never exceeds the total.
AlwaysTrue(code, k) ==
  code[k].op = "condjump" /\ code[k - 1].op = "cmplesseqd2" /\ code[code[k].a].op # "cmplesseqd2"

Untyped == {NoType, "any"}

\* The operands a command takes; those that look at the top leave it.
Taken(c) ==
  IF c.op \in {"condjump_get", "condjumpt_get", "jumpinvalid", "guard", "weightcheck"} THEN 0 ELSE Len(Operands(c))

\* What a command of script `s` pushes over operands of these types.
Pushed(s, c, layout) ==
  CASE c.op \in ShortCircuitOps \union CompareOps \union {"andbin", "notfn", "pushbool"} -> <<"bool">>
    [] c.op \in {"sum", "mul", "pushvalue", "chance"} -> <<"float">>
    [] c.op \in {"sumi", "pushint"} -> <<"int">>
    [] c.op = "pushstring" -> <<"str">>
    [] c.op = "pushroot" -> <<s.args[1].t>>
    [] c.op = "pushargvalue" -> <<s.args[c.a].t>>
    [] c.op = "pushctxvalue" -> <<s.saved[c.a].t>>
    [] c.op \in {"pushthis", "pushprev"} -> <<layout[c.a]>>
    [] c.op = "pushinvalid" -> <<Invalid.t>>
    [] c.op = "context" -> <<"thisctx">>
    [] c.op = "convert" -> <<Conversions[c.fn][2]>>
    [] c.op = "call" /\ Functions[c.fn].ret # "void" -> <<Functions[c.fn].ret>>
    [] OTHER -> <<>>

\* The layout after a command that does not choose its way.
Through(s, c, layout) ==
  IF c.op \in {"erase", "erase_range"} THEN CutOut(layout, c.a, Erased(c))
  ELSE Retop(layout, Taken(c), Pushed(s, c, layout))

\* The commands that may follow command `k`, each with the layout it finds.
Follows(s, k, layout) ==
  LET c == s.code[k]
      past(l) == {<<k + 1, l>>}
      away(l) == {<<c.a, l>>}
      through == Through(s, c, layout)
  IN CASE c.op = "jump" -> away(through)
       [] c.op = "jumpinvalid" ->
            past(layout) \union (IF Last(layout) \in {NoType, "obj"} THEN away(Retop(layout, 1, <<>>)) ELSE {})
       [] c.op = "guard" -> past(layout) \union away(Retop(layout, 1, <<Default(c.b).t>>))
       [] c.op \in ShortCircuitOps \union CondJumpOps ->
            past(through) \union (IF AlwaysTrue(s.code, k) THEN {} ELSE away(through))
       [] c.op = "switch_no_match" -> {}
       [] OTHER -> past(through)

\* The slots of the context a command uses are the script's, and those that
\* are read have a type, which what is written to an argument has as well.
SlotsFit(s, c, layout) ==
  /\ c.op = "pushroot" => 1 \in DOMAIN s.args /\ s.args[1].t \notin Untyped
  /\ c.op = "pushargvalue" => c.a \in DOMAIN s.args /\ s.args[c.a].t \notin Untyped
  /\ c.op = "pushctxvalue" => c.a \in DOMAIN s.saved /\ s.saved[c.a].t \notin Untyped
  /\ c.op = "setargrvalue" => c.a \in DOMAIN s.args /\ Last(layout) = s.args[c.a].t
  /\ c.op = "setarglvalue" => c.b \in DOMAIN s.args /\ layout[c.a] = s.args[c.b].t

Fits(s, c, layout) ==
  /\ c.op = "call" => c.fn \in DOMAIN Functions
  /\ c.op = "convert" => c.fn \in DOMAIN Conversions
  /\ c.op = "erase_range" => c.b \in Nat \ {0}
  /\ OperandsFit(layout, c)
  /\ SlotsFit(s, c, layout)

\* The layouts each command may be reached with, and the end; jumps that lead
\* backwards are not followed, nor what comes after a command that would fail.
Layouts(s) ==
  FoldLeft(LAMBDA reached, k :
             LET next == UNION {Follows(s, k, l) : l \in {x \in reached[k] : Fits(s, s.code[k], x)}}
             IN [j \in DOMAIN reached |-> reached[j] \union {x[2] : x \in {y \in next : y[1] = j}}],
           [j \in 1 .. (Len(s.code) + 1) |-> IF j = 1 THEN {<<>>} ELSE {}],
           [k \in DOMAIN s.code |-> k])

\* Every command finds what it needs in every layout, leads forward, and leads
\* to layouts that were looked at; none is deeper than max_stack; none of the
\* operands is left at the end.
Certifies(reached, s) ==
  /\ s.code \in Seq(Range(s.code))
  /\ DOMAIN reached = 1 .. (Len(s.code) + 1)
  /\ <<>> \in reached[1] /\ reached[Len(s.code) + 1] \subseteq {<<>>}
  /\ \A k \in DOMAIN reached : \A l \in reached[k] : Len(l) <= s.peak
  /\ \A k \in DOMAIN s.code :
       /\ s.code[k].op \in Opcodes
       /\ \A l \in reached[k] :
            /\ Fits(s, s.code[k], l)
            /\ \A x \in Follows(s, k, l) : x[1] \in (k + 1) .. (Len(s.code) + 1) /\ x[2] \in reached[x[1]]

\* A host gives the arguments of a script the types it declared for them.
GivesArguments(host, s) ==
  \A k \in DOMAIN s.args : s.args[k].t \in Untyped \/ host.args[s.args[k].n].t = s.args[k].t

-----------------------------------------------------------------------------
(* What compilation promises of the stream *)

\* The state of a run: it is somewhere in its stream, or at the end of it, and
\* a script has none if and only if it has an error.
TypeOK ==
  /\ env \in Hosts \union {NoHost}
  /\ phase \in {"ready", "running", "done", "rejected"}
  /\ phase = "rejected" <=> built.err # NoError
  /\ phase # "rejected" => m.pc \in 1 .. (Len(built.code) + 1)

\* Whatever the conditions of a script turn out to be, a command is reached
\* with one depth of the operand stack, and the script ends with none left:
\* the blocks, guards and short circuits of codegen (system.cpp fold_block,
\* emitter::bind) leave the stack on each path as the parse model has it.
\* Jumps lead forward.
PathsAgree ==
  phase = "ready" =>
    LET reached == Layouts(built)
    IN /\ \A k \in DOMAIN reached : Cardinality({Len(l) : l \in reached[k]}) <= 1
       /\ reached[Len(built.code) + 1] \subseteq {<<>>}
       /\ \A k \in DOMAIN built.code : built.code[k].op \in BranchOps => built.code[k].a > k

\* Whatever the conditions, the values and the host are, every command of the
\* stream finds operands, slots and arguments of the types it was emitted for
\* (the parse context's types, system.cpp push_basic_function), in the reserve.
CodeIsCertified ==
  phase = "ready" => Certifies(Layouts(built), built) /\ \A host \in Hosts : GivesArguments(host, built)

\* The last branch of a `random` is taken if no other was: the roll is below
\* the sum of the weights (system_builtins.cpp random: chance * total against
\* the running sums), whatever the weights are.
LastBranchTaken == Running /\ AlwaysTrue(built.code, m.pc) => Peek(m, 1).v = 1

Certified == CodeIsCertified /\ LastBranchTaken

\* The deepest the stack gets is what the parse recorded as max_stack, the
\* size a host may allocate (container::max_stack).
WithinReserve == phase = "running" => Len(m.stack) <= built.peak

\* A script that compiled finds the operand types it was compiled for: the
\* checks of the checked build, which the unchecked build leaves out, never
\* fail.
NeverMisread == m.err \notin {"operand", "argument type"}
=============================================================================
