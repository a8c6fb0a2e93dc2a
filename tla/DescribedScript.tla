--------------------------- MODULE DescribedScript --------------------------
(***************************************************************************)
(* A script that is compiled, run and then described.                      *)
(***************************************************************************)
EXTENDS CompiledScript, DescribedRun

DescribedInit ==
  /\ script \in Scripts
  /\ built = Compiled(script)
  /\ DescriptionInit

DescribedNext == DescriptionNext /\ UNCHANGED script

\* process() and describe() are loops that run until the last command or an
\* exception.
DescribedSpec ==
  DescribedInit /\ [][DescribedNext]_<<script, describedVars>> /\ WF_<<script, describedVars>>(DescribedNext)

-----------------------------------------------------------------------------
\* One node of a description, as the plain stream gives it and as the stream
\* that is described does: a `ctx` node may differ, and the scope of what is
\* read under one, for the context object they named is gone.
SameNode(node, was, is) ==
  \/ node.tok = "ctx"
  \/ was = is
  \/ was.scope.t = "thisctx" /\ [was EXCEPT !.scope = Invalid] = is

SameNodes(nodes, was) ==
  /\ Len(built.descs) = Len(nodes)
  /\ \A n \in DOMAIN nodes : SameNode(nodes[n], was[n], table.table[n])

SameDescription(plain) == SameNodes(plain.descs, Described(plain, env).table)

\* The optimised stream is described as the stream it was made from, but for
\* `ctx` nodes.
DescribedAsUnoptimised == phase = "described" => SameDescription(Compiled([script EXCEPT !.opt = FALSE]))

\* A run ends and its description too: codegen makes no loops.
Terminates == <>(phase \in {"described", "rejected"})
=============================================================================
