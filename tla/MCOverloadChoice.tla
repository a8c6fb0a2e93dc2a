-------------------------- MODULE MCOverloadChoice --------------------------
(***************************************************************************)
(* Three types with chains of conversions on both sides of the cost limit, *)
(* two-argument overloads of one name, values and calls as arguments.      *)
(* Results of type `vec` are not weighed: it is no arithmetic type.        *)
(***************************************************************************)
EXTENDS OverloadChoice

Edge(from, to, cost) == [from |-> from, to |-> to, cost |-> cost]
Sig(scope, args, ret) == [scope |-> scope, args |-> args, ret |-> ret, syntax |-> "function"]
Value(t) == [fn |-> "", t |-> t]
Call(f) == [fn |-> f, t |-> ""]
Written(scope, exp, x, y) == [scope |-> scope, settled |-> "", exp |-> exp, args |-> <<x, y>>]

MCConversions ==
  {Edge("int", "float", 1), Edge("int", "float", 3), Edge("float", "vec", 3), Edge("float", "vec", 1), Edge("int", "vec", 3), Edge("vec", "float", 2)}
MCSignatures ==
  {Sig("", <<"int", "float">>, "float"), Sig("", <<"float", "int">>, "float"), Sig("", <<"float", "float">>, "vec"),
   Sig("", <<"bool", "int">>, "float"), Sig("", <<"vec", "int">>, "float"), Sig("obj", <<"vec", "int">>, "float"), Sig("tree", <<"vec", "int">>, "float"),
   [Sig("", <<"int", "int">>, "int") EXCEPT !.syntax = "operator"]}
MCReaders == [i1 |-> "int", n1 |-> "float"]
MCPriorities == [int |-> 10, float |-> 20]

MCCalls ==
  {Written("", exp, x, Value("int")) : exp \in {"float", "vec"}, x \in {Value("int"), Call("n1")}}
  \union {Written("obj", "vec", Value("int"), Value("int")), Written("", "void", Value("int"), Call("i1")),
           Written(Untyped, "float", Value("vec"), Value("int")),
           [Written(Untyped, "float", Value("vec"), Value("int")) EXCEPT !.settled = "tree"]}
=============================================================================
