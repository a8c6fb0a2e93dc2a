-------------------------- MODULE MCExecuteFrames --------------------------
(***************************************************************************)
(* Small programs for ExecuteFrames.                                       *)
(***************************************************************************)
EXTENDS ExecuteFramesImpl, TLC

\* Values are only moved and compared.
Symmetry == Permutations(Vals)

Nothing == <<>>

Site(sub, n, bind, out) == [sub |-> sub, nlists |-> n, bind |-> bind, out |-> out]

(* A chain main -> sub -> leaf.  main calls sub with its list bound and an   *)
(* in/out saved value, or with neither; sub passes its list on to leaf,      *)
(* whose second list is its own scratch.                                     *)
ChainScripts == {"main", "sub", "leaf"}
ChainArgs == [s \in ChainScripts |-> IF s = "main" THEN 0 ELSE 1]
ChainSaved == [s \in ChainScripts |-> IF s = "leaf" THEN 0 ELSE 1]
ChainLists == [s \in ChainScripts |-> IF s = "leaf" THEN 2 ELSE 1]
ChainMaxStack == [s \in ChainScripts |-> IF s = "main" THEN 2 ELSE 1]
ChainMaxSaved == [s \in ChainScripts |-> IF s = "main" THEN 2 ELSE IF s = "sub" THEN 1 ELSE 0]
ChainReturns == [s \in ChainScripts |-> s = "sub"]
ChainSites ==
  [main |-> {Site("sub", 1, 0 :> 0, 0 :> <<"saved", 0>>), Site("sub", 1, Nothing, Nothing)},
   sub  |-> {Site("leaf", 2, 1 :> 0, 0 :> <<"arg", 0>>)},
   leaf |-> {}]


(* Recursion through the resolver: the callee's peaks are the ones of an     *)
(* earlier version of the script, so the limits are met at run time.  args   *)
(* runs out of argument slots and is refused by execute_script, deep runs    *)
(* out of saved slots and is refused by the callee's process(), both with a  *)
(* bound list; flat has no list and reaches the depth limit.                 *)
RecScripts == {"args", "deep", "flat"}
RecArgs == [s \in RecScripts |-> IF s = "args" THEN 1 ELSE 0]
RecSaved == [s \in RecScripts |-> IF s = "deep" THEN 1 ELSE 0]
RecLists == [s \in RecScripts |-> IF s = "flat" THEN 0 ELSE 1]
RecMaxStack == [s \in RecScripts |-> 1]
RecMaxSaved == [s \in RecScripts |-> IF s = "deep" THEN 2 ELSE 0]
RecReturns == [s \in RecScripts |-> s = "deep"]
RecSites ==
  [args |-> {Site("args", 1, 0 :> 0, 0 :> <<"arg", 0>>)},
   deep |-> {Site("deep", 1, 0 :> 0, Nothing)},
   flat |-> {Site("flat", 0, Nothing, Nothing)}]

(* The same recursion with a bound list, up to the depth limit.              *)
ListRecScripts == {"rec"}
ListRecZero == [s \in ListRecScripts |-> 0]
ListRecLists == [s \in ListRecScripts |-> 1]
ListRecReturns == [s \in ListRecScripts |-> FALSE]
ListRecSites == [rec |-> {Site("rec", 1, 0 :> 0, Nothing)}]

(* A script that was compiled to call itself while it had no lists, and has  *)
(* one now.                                                                  *)
StaleSites == [rec |-> {Site("rec", 0, Nothing, Nothing)}]
=============================================================================
