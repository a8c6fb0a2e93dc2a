---------------------------- MODULE ConstFolding ---------------------------
(***************************************************************************)
(* Constant folding (try_eval_const): what the compiler answers for an     *)
(* expression of literals instead of generating code for it.               *)
(*                                                                         *)
(* A script is a tree of nodes: a name, a value for a literal, the         *)
(* children in order, and whether the call was written `?=`.               *)
(***************************************************************************)
EXTENDS ScriptMachine

CONSTANT Builtin    \* the names whose overloads are all the system's own

Node(n, kids) == [n |-> n, v |-> 0, kids |-> kids, q |-> FALSE]
Lit(t, v) == [n |-> t, v |-> v, kids |-> <<>>, q |-> FALSE]
LiteralTypes == {"bool", "int", "float", "str"}

NoConst == Val("none", 0)

\* The operators folded on two integers and on two numbers.  An integer
\* remainder by zero is left to the run, which raises an error.
IntFolds ==
  "+" :> "addi" @@ "-" :> "subi" @@ "*" :> "muli" @@ "%" :> "modi" @@ ">" :> "morei"
  @@ "<" :> "lessi" @@ ">=" :> "moreeqi" @@ "<=" :> "lesseqi" @@ "==" :> "eqi" @@ "!=" :> "eqi"
FloatFolds ==
  "+" :> "addd" @@ "-" :> "subd" @@ "*" :> "muld" @@ "%" :> "modd" @@ ">" :> "mored"
  @@ "<" :> "lessd" @@ ">=" :> "moreeqd" @@ "<=" :> "lesseqd" @@ "==" :> "eqd" @@ "!=" :> "eqd"
Comparisons == {">", "<", ">=", "<=", "==", "!="}

AsFloat(c) == IF c.t = "int" THEN ToFloat(c.v) ELSE c.v

\* Bug: `!=` is folded as "smaller or larger".
FoldBinaryOrdered(name, folds, type, x, y) ==
  LET r == Raw(folds[name], <<x, y>>)
  IN IF r = Throw THEN NoConst
     ELSE IF name = "!=" THEN Bool(Raw(folds["<"], <<x, y>>) = 1 \/ Raw(folds[">"], <<x, y>>) = 1)
     ELSE IF name \in Comparisons THEN Bool(r = 1) ELSE Val(type, r)

FoldBinary(name, folds, type, x, y) ==
  LET r == Raw(folds[name], <<x, y>>)
  IN IF r = Throw THEN NoConst
     ELSE IF name = "!=" THEN Bool(r = 0)
     ELSE IF name \in Comparisons THEN Bool(r = 1) ELSE Val(type, r)

\* An n-ary block starts from its first operand, as the emitted chain does.
FoldChain(op, type, vals) ==
  Val(type, FoldLeft(LAMBDA acc, v : Raw(op, <<acc, v>>), Head(vals), Tail(vals)))

FoldUnary(name, c) ==
  CASE name = "unary_plus" /\ c.t \in {"int", "float"} -> c
    [] name = "unary_minus" /\ c.t = "int"   -> Val("int", Raw("negi", <<c.v>>))
    [] name = "unary_minus" /\ c.t = "float" -> Val("float", Raw("negd", <<c.v>>))
    [] name = "not" /\ c.t = "bool" -> Bool(c.v = 0)
    [] OTHER -> NoConst

FoldConst(name, args) ==
  LET every(types) == \A k \in DOMAIN args : args[k].t \in types
      ints == [k \in DOMAIN args |-> args[k].v]
      floats == [k \in DOMAIN args |-> AsFloat(args[k])]
      sum == name = "ADD"
      conj == name \in {"AND", "NAND"}
      any == IF conj THEN \A k \in DOMAIN args : args[k].v = 1 ELSE \E k \in DOMAIN args : args[k].v = 1
  IN CASE name \in {"ADD", "MUL"} ->
            IF every({"int"}) THEN FoldChain(IF sum THEN "addi" ELSE "muli", "int", ints)
            ELSE IF every({"int", "float"}) THEN FoldChain(IF sum THEN "addd" ELSE "muld", "float", floats)
            ELSE NoConst
       [] name \in {"AND", "OR", "NAND", "NOR"} ->
            IF every({"bool"}) THEN Bool(any # (name \in {"NAND", "NOR"})) ELSE NoConst
       [] Len(args) = 1 -> FoldUnary(name, args[1])
       [] Len(args) # 2 -> NoConst
       [] every({"int"}) /\ name \in DOMAIN IntFolds ->
            FoldBinary(name, IntFolds, "int", ints[1], ints[2])
       [] every({"int", "float"}) /\ ~every({"int"}) /\ name \in DOMAIN FloatFolds ->
            FoldBinary(name, FloatFolds, "float", floats[1], floats[2])
       [] every({"bool"}) /\ name \in {"and", "or"} -> Bool(Raw(name, ints) = 1)
       [] every({"bool"}) /\ name \in {"==", "!="} -> Bool((ints[1] = ints[2]) = (name = "=="))
       [] OTHER -> NoConst

RECURSIVE TryConst(_)
TryConst(b) ==
  IF b.kids = <<>> THEN IF b.n \in {"bool", "int", "float"} THEN Val(b.n, b.v) ELSE NoConst
  ELSE IF b.n \notin Builtin THEN NoConst
  ELSE LET args == [k \in DOMAIN b.kids |-> TryConst(b.kids[k])]
       IN IF NoConst \in ToSet(args) THEN NoConst ELSE FoldConst(b.n, args)
=============================================================================
