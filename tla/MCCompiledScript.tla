-------------------------- MODULE MCCompiledScript --------------------------
(***************************************************************************)
(* Sources of each form over small sets of operands, compiled folded and   *)
(* not, optimised and not, and run against several hosts.                  *)
(***************************************************************************)
EXTENDS MCScriptLibrary, CompiledScript

Bools == {N("c1"), Node("not", <<N("c2")>>)}
Nums == {I(2), N("i1"), N("n1")}

Logic ==
  {Src("bool", "", <<Node(name, <<x, N("c2"), y>>)>>) :
     name \in {"AND", "OR", "NAND", "NOR"}, x \in Bools, y \in {B(1), Node(">", <<N("n1"), I(1)>>)}}

Arithmetic ==
  {Src(ret, "", <<Node(op, <<x, y>>), x>>) : ret \in {"int", "float"}, op \in {"+", "*", "%", "max"}, x \in Nums, y \in {I(0), N("n1")}}
  \union {Src(ret, "", <<x, When(N("c1"), <<y>>), When(N("c2"), <<I(3)>>)>>) : ret \in {"int", "float"}, x \in Nums, y \in Nums}
  \union {Src("float", "", <<Node("MUL", <<x, When(N("c1"), <<y>>)>>)>>) : x \in Nums, y \in Nums}
  \union {Src("float", "", <<Node("unary_minus", <<x>>), Node("+", <<I(127), I(1)>>)>>) : x \in Nums}
  \union {Src("int", "", <<Node("+", <<I(127), N("i1")>>), Node("%", <<I(7), I(0)>>)>>)}

Folding ==
  {Src(ret, "", <<Node(op, <<x, y>>)>>) :
     ret \in {"int", "float"}, op \in {"+", "*", "%", "MUL"}, x \in {I(-100), I(7), D(-6), D(NaN)}, y \in {I(100), I(0), D(2)}}
  \union {Src("bool", "", <<Node(op, <<x, y>>)>>) : op \in {">", "==", "!="}, x \in {I(3), D(12), D(NaN)}, y \in {I(3), D(NaN), D(2)}}
  \union {Src("bool", "", <<Node(op, <<B(1), B(0)>>), N("c1")>>) : op \in {"AND", "NOR", "and", "=="}}

Equality ==
  {Src("bool", "", <<Node(op, <<x, y>>)>>) : op \in {"EQ", "NEQ"}, x \in Nums \union {S(1), B(1)}, y \in {N("i1"), N("n1"), N("s1"), N("c1"), S(1)}}

Branches ==
  {Src(ret, "", <<Node("select", <<When(x, <<y>>), When(N("c2"), <<I(7)>>), Group(<<z>>)>>)>>) :
     ret \in {"int", "float"}, x \in Bools, y \in Nums, z \in {I(1), N("n1")}}
  \union {Src("float", "", <<Node("sequence", <<When(x, <<y>>), When(N("c2"), <<I(7)>>)>>), I(1)>>) : x \in Bools, y \in Nums}
  \union {Src("bool", "", <<Node("sequence", <<When(x, <<N("c2")>>), When(N("c2"), <<B(0)>>)>>)>>) : x \in Bools}
  \union {Src(ret, "", <<x, Node("value_or", <<N("c1"), y, z>>)>>) :
     ret \in {"int", "float"}, x \in {I(1), N("n1")}, y \in {N("i1"), N("n1")}, z \in {I(4), D(2)}}
  \union {Src("float", "", <<Node("switch", <<Node("value", <<x>>), Case(I(3), <<N("n1")>>), Case(I(4), <<I(1)>>)>>
                                           \o d)>>) : x \in {N("i1"), I(9)}, d \in {<<>>, <<Group(<<I(8)>>)>>}}
  \union {Src("float", "", <<y, Node("random", <<Weighed(w, <<x>>), Weighed(I(1), <<I(3)>>)>>)>>) :
     w \in {I(1), N("n1"), I(0)}, x \in Nums, y \in {I(1), Node("chance", <<>>)}}

Scopes ==
  {Src("bool", "obj", <<[Node("target", <<N("alive"), Node(">", <<N("id"), I(15)>>)>>) EXCEPT !.q = q]>>) : q \in BOOLEAN}
  \union {Src("float", "obj", <<N("id"), [Node("target", <<N("id"), Node("prev", <<N("id")>>), x>>) EXCEPT !.q = q]>>) :
            q \in BOOLEAN, x \in {N("i1"), Node("this", <<Node("prev", <<N("id")>>)>>), Node("outer", <<N("id")>>), Node("ctx", <<Node("outer", <<N("id")>>)>>)}}
  \union {Src("int", "obj", <<Node("target", <<Node("target", <<Node("prev", <<x>>)>>)>>)>>) :
            x \in {N("id"), Node("prev", <<N("id")>>), Node("boss", <<Node("prev", <<N("id")>>)>>)}}
  \union {Src("int", "", <<Node("boss", <<Node("target", <<Node("prev", <<Node("prev", <<N("id")>>)>>)>>)>>)>>)}
  \union {Src("obj", "obj", <<When(N("c1"), <<x>>), y>>) : x \in {N("target"), Nullable(Node("target", <<N("this")>>))}, y \in {N("this"), N("boss")}}
  \union {Src("str", "", <<When(N("c1"), <<S(2)>>), When(N("c2"), <<N("red")>>), N("s1")>>)}
  \union {Src("int", "", <<N("red"), Node("EQ", <<N("boss"), N("boss")>>)>>)}

Effects ==
  {Src("void", "obj", <<Node("bump", <<x>>), Node("target", <<Node("bump", <<I(2)>>), When(N("alive"), <<Node("bump", <<N("id")>>)>>)>>), Node("bump", <<I(4)>>)>>) :
     x \in {I(1), Node("+", <<N("i1"), I(1)>>)}}
  \union {Src("void", "", <<When(N("c1"), <<Node("log", <<N("i1")>>)>>), Node("log", <<D(4)>>)>>)}
  \union {Src("void", "obj", <<Node("select", <<When(N("c1"), <<Node("bump", <<I(1)>>)>>), When(N("c2"), <<Node("log", <<I(2)>>)>>)>>), Node("bump", <<I(3)>>)>>)}
  \union {Src("void", "obj", <<Node("sequence", <<When(N("c1"), <<Node("bump", <<I(1)>>)>>), When(N("c2"), <<Node("log", <<I(2)>>)>>)>>), Node("bump", <<I(3)>>)>>)}
  \union {Src("void", "obj", <<Node("random", <<Weighed(I(1), <<Node("bump", <<I(1)>>)>>), Weighed(I(1), <<Node("log", <<I(2)>>)>>)>>), Node("bump", <<I(3)>>)>>)}
  \union {Src("void", "obj", <<Node("switch", <<Node("value", <<N("i1")>>), Case(x, <<Node("log", <<I(2)>>)>>)>>), Node("bump", <<I(3)>>)>>) : x \in {I(3), I(4)}}
  \union {Src("void", "", <<Node("trace", <<S(2)>>), Node("assert", <<N("c1"), S(3)>>), Node("log", <<I(1)>>)>>)}

Ctx(kids) == Node("ctx", kids)
Saved(kids) == Ctx(<<Node("saved", kids)>>)
Arg(kids) == Ctx(<<Node("arg", kids)>>)
Save(kids) == Ctx(<<Node("ctx_save", kids)>>)

Slots ==
  {Src("float", "obj", <<Node("ctx_save", <<Node("a", <<x>>), Node("b", <<N("target")>>)>>), Saved(<<N("a")>>), Saved(<<N("b"), N("id")>>), N("id")>>) : x \in Nums}
  \union {Src("void", "obj", <<Node("target", <<Node("ctx_save_as", <<N("a")>>)>>), Node("ctx_save", <<Node("b", <<I(1)>>), Node("b", <<I(2)>>)>>),
                              Node("bump", <<Saved(<<N("b")>>)>>), Saved(<<N("a"), Node("bump", <<I(1)>>)>>)>>)}
  \union {Src("int", "", <<Arg(<<N("x")>>), Arg(<<N("y"), N("id")>>), Arg(<<N("x")>>)>>)}
  \union {Src("void", "obj", <<Node("ctx_set", <<Node("r", <<N("target")>>)>>), Arg(<<N("r"), Node("bump", <<Arg(<<N("x")>>)>>)>>), Node("ctx_set_as", <<N("r")>>),
                              Arg(<<N("r"), Node("bump", <<I(1)>>)>>)>>)}
  \union {Src("void", "", <<When(N("c1"), <<Node("ctx_save", <<Node("a", <<I(1)>>)>>)>>), Node("log", <<Saved(<<N("a")>>)>>)>>)}
  \union {Src("float", "obj", <<Node("ctx_save", <<Node("a", <<I(1)>>)>>), Node("select", <<When(Node(">", <<Saved(<<N("a")>>), N("i1")>>), <<Saved(<<N("a")>>)>>), Group(<<N("id")>>)>>)>>)}

MCScripts == Variants(Logic \union Arithmetic \union Folding \union Equality \union Branches \union Scopes \union Effects \union Slots)

\* Effects of a scope that may be invalid, and what follows them.
MCNullableEffects ==
  Variants({Src("void", "obj", <<Nullable(Node("target", <<N("hit")>>)), x>>) :
              x \in {N("hit"), Node("target", <<N("hit"), Node("bump", <<N("id")>>)>>)}})

MCHosts == {Env(0, 0, 6, 2), Env(1, 0, -6, -1), Env(0, 1, NaN, 2), Env(1, 1, 6, 2), Env(1, 1, 14, -1)}
=============================================================================
