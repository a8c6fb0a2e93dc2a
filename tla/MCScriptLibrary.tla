-------------------------- MODULE MCScriptLibrary ---------------------------
(***************************************************************************)
(* A small system: the operators the sources use, one built-in form of     *)
(* each name, and a host with a few functions of its own.                  *)
(***************************************************************************)
EXTENDS Codegen

Fn(scope, args, ret) ==
  [scope |-> scope, args |-> args, ret |-> ret, operator |-> FALSE, names |-> <<>>, special |-> FALSE, raw |-> ""]
Pure(raw, args, ret) == [Fn("", args, ret) EXCEPT !.raw = raw]
Operator(raw, args, ret) == [Pure(raw, args, ret) EXCEPT !.operator = TRUE]
Form(args, ret) == [Fn("", args, ret) EXCEPT !.special = TRUE]

II == <<"int", "int">>
DD == <<"float", "float">>

LibFunctions ==
  "addi" :> Operator("addi", II, "int") @@ "addd" :> Operator("addd", DD, "float") @@ "muli" :> Operator("muli", II, "int")
  @@ "muld" :> Operator("muld", DD, "float") @@ "modi" :> Operator("modi", II, "int") @@ "modd" :> Operator("modd", DD, "float")
  @@ "morei" :> Operator("morei", II, "bool") @@ "mored" :> Operator("mored", DD, "bool")
  @@ "negi" :> Operator("negi", <<"int">>, "int") @@ "negd" :> Operator("negd", <<"float">>, "float")
  @@ "not" :> Operator("not", <<"bool">>, "bool") @@ "and" :> Operator("and", <<"bool", "bool">>, "bool")
  @@ "ADDi" :> Pure("addi", II, "int") @@ "ADDd" :> Pure("addd", DD, "float")
  @@ "MULi" :> Pure("muli", II, "int") @@ "MULd" :> Pure("muld", DD, "float")
  @@ "maxi" :> Pure("maxi", II, "int") @@ "maxd" :> Pure("maxd", DD, "float")
  @@ "absi" :> Pure("absi", <<"int">>, "int") @@ "absd" :> Pure("absd", <<"float">>, "float")
  @@ "eqb" :> Pure("eqb", <<"bool", "bool">>, "bool") @@ "eqi" :> Pure("eqi", II, "bool") @@ "eqd" :> Pure("eqd", DD, "bool")
  @@ "eqs" :> Pure("eqs", <<"str", "str">>, "bool") @@ "eqid" :> Pure("eqid", <<"int", "float">>, "bool")
  @@ "eqdi" :> Pure("eqdi", <<"float", "int">>, "bool") @@ "eqv" :> Fn("", <<"any", "any">>, "bool")
  @@ "logic" :> Form(<<"bool", "bool">>, "bool") @@ "equality" :> Form(<<"any", "any">>, "bool")
  @@ "choice" :> Form(<<>>, "any") @@ "handle" :> Form(<<>>, "anyobj") @@ "number" :> Form(<<>>, "float")
  @@ "store" :> Form(<<>>, "ignore")
  \* the host
  @@ "c1" :> Fn("", <<>>, "bool") @@ "c2" :> Fn("", <<>>, "bool") @@ "i1" :> Fn("", <<>>, "int")
  @@ "n1" :> Fn("", <<>>, "float") @@ "s1" :> Fn("", <<>>, "str")
  @@ "boss" :> Fn("", <<>>, "obj") @@ "target" :> Fn("obj", <<>>, "obj") @@ "id" :> Fn("obj", <<>>, "int")
  @@ "alive" :> Fn("obj", <<>>, "bool") @@ "bump" :> Fn("obj", <<"int">>, "void")
  @@ "log" :> Fn("", <<"float">>, "void") @@ "hit" :> Fn("obj", <<>>, "void")

LibOverloads ==
  "+" :> <<"addi", "addd">> @@ "*" :> <<"muli", "muld">> @@ "%" :> <<"modi", "modd">> @@ ">" :> <<"morei", "mored">>
  @@ "unary_minus" :> <<"negi", "negd">> @@ "not" :> <<"not">> @@ "and" :> <<"and">>
  @@ "ADD" :> <<"ADDi", "ADDd">> @@ "MUL" :> <<"MULi", "MULd">> @@ "max" :> <<"maxi", "maxd">>
  @@ "abs" :> <<"absi", "absd">>
  @@ [n \in {"AND", "OR", "NAND", "NOR"} |-> <<"logic">>]
  @@ [n \in {"EQ", "==", "NEQ", "!="} |-> <<"equality">>]
  @@ [n \in {"value_or", "select", "sequence", "switch", "random", "ctx", "saved", "arg"} |-> <<"choice">>]
  @@ [n \in {"this", "prev", "outer"} |-> <<"handle">>] @@ "chance" :> <<"number">>
  @@ [n \in {"ctx_save", "ctx_save_as", "ctx_set", "ctx_set_as", "assert", "trace"} |-> <<"store">>]
  @@ [n \in {"c1", "c2", "i1", "n1", "s1", "boss", "target", "id", "alive", "bump", "log", "hit"} |-> <<n>>]

LibBuiltin ==
  {"+", "*", "%", ">", "unary_minus", "not", "and", "ADD", "MUL", "max", "abs", "AND", "OR", "NAND", "NOR", "==", "!="}

LibEdges == <<[from |-> "int", to |-> "float", cost |-> 1, op |-> "int2float"]>>
LibEnums == "red" :> 5

-----------------------------------------------------------------------------
(* Trees *)

N(name) == Node(name, <<>>)
I(v) == Lit("int", v)
D(v) == Lit("float", v)
B(v) == Lit("bool", v)
S(v) == Lit("str", v)
Group(kids) == Node("__empty_lvalue", kids)
Nullable(b) == [b EXCEPT !.q = TRUE]
When(cond, kids) == Group(<<Node("condition", <<cond>>)>> \o kids)
Case(val, kids) == Group(<<Node("value", <<val>>)>> \o kids)
Weighed(w, kids) == Group(<<Node("weight", <<w>>)>> \o kids)

Src(ret, root, rows) == [ret |-> ret, root |-> root, rows |-> rows]

\* Every source, folded and optimised or not.
Variants(sources) ==
  {[rows |-> s.rows, ret |-> s.ret, root |-> s.root, fold |-> f, opt |-> o] : s \in sources, f \in BOOLEAN, o \in BOOLEAN}

Env(b1, b2, n, t) ==
  [args |-> "root" :> Val("obj", 1) @@ "x" :> Val("int", 3) @@ "y" :> Val("obj", 2) @@ "r" :> Val("obj", 1),
   host |-> "c1" :> b1 @@ "c2" :> b2 @@ "i1" :> 3 @@ "n1" :> n @@ "s1" :> 1 @@ "boss" :> t,
   scoped |-> "target" :> (1 :> t @@ 2 :> 1) @@ "id" :> (1 :> 10 @@ 2 :> 20) @@ "alive" :> (1 :> b1 @@ 2 :> b2),
   chance |-> [k \in 1 .. 4 |-> IF n = 6 THEN 1 ELSE 3]]
=============================================================================
