--------------------------- MODULE CompiledScript ---------------------------
(***************************************************************************)
(* The life of one script: it is compiled (system::parse), the stream may  *)
(* be optimised, and the host runs it command by command                   *)
(* (script_container::process) in a context it prepared.                   *)
(***************************************************************************)
EXTENDS Codegen, Optimizer, ScriptMeaning, ScriptRun

CONSTANT Scripts   \* what may be compiled: [rows, ret, root, fold, opt]

VARIABLE script    \* the source

vars == <<script, env, built, m, phase>>

\* What parse() makes of a source; the optimizer is a switch of the system.
Optimized(c, opt) == IF opt /\ ~Failed(c) THEN OptimizeCommands(c) ELSE c
Compiled(s) == Optimized(Compile(s.rows, s.ret, s.root, s.fold), s.opt)

Init ==
  /\ script \in Scripts
  /\ built = Compiled(script)
  /\ RunInit

Next == RunNext /\ UNCHANGED script

\* process() is a loop that runs until the last command or an exception.
Spec == Init /\ [][Next]_vars /\ WF_vars(Next)

-----------------------------------------------------------------------------
\* A run yields the result, the effects and the failure the script's text
\* stands for, whether or not constants were folded and the stream optimised.
RunsAsWritten ==
  phase = "done" => SameOutcome(m, Meaning(script.rows, script.ret, script.root, env))
=============================================================================
