------------------------- MODULE MCDescribedScript --------------------------
(***************************************************************************)
(* Sources with nested scopes, short circuits, choices and effects without *)
(* arguments, described folded and not, optimised and not.                 *)
(***************************************************************************)
EXTENDS MCScriptLibrary, DescribedScript

Slot(kids) == Node("ctx", <<Node("saved", kids)>>)

Values ==
  {Src("bool", "obj", <<Node(name, <<N("c1"), Node("target", <<N("alive")>>), N("c2")>>)>>) : name \in {"AND", "NOR"}}
  \union {Src("float", "obj", <<N("id"), [Node("target", <<N("id"), Node("prev", <<N("id")>>)>>) EXCEPT !.q = q]>>) : q \in BOOLEAN}
  \union {Src("float", "", <<Node("select", <<When(N("c1"), <<N("i1")>>), Group(<<Node("+", <<N("n1"), I(1)>>)>>)>>), I(2)>>)}
  \union {Src("float", "", <<Node("random", <<Weighed(N("n1"), <<I(3)>>), Weighed(I(1), <<N("i1")>>)>>)>>)}
  \union {Src("float", "", <<Node("switch", <<Node("value", <<N("i1")>>), Case(I(4), <<I(1)>>), Group(<<N("n1")>>)>>), N("i1")>>)}
  \union {Src("float", "obj", <<Node("ctx_save", <<Node("a", <<N("i1")>>)>>), Slot(<<N("a")>>), Node("ctx", <<Node("arg", <<N("y"), N("id")>>)>>), N("id")>>)}
  \union {Src("float", "obj", <<N("id"), Node("ctx_save", <<Node("b", <<N("target")>>)>>), Slot(<<N("b"), N("id")>>)>>)}

Hits ==
  {Src("void", "obj", <<When(x, <<N("hit")>>), Node("target", <<N("hit"), When(N("alive"), <<N("hit")>>)>>), N("hit")>>) : x \in {N("c1"), Node(">", <<N("id"), I(9)>>)}}
  \union {Src("void", "obj", <<Node("select", <<When(N("c1"), <<N("hit")>>), Group(<<Node("target", <<N("hit")>>)>>)>>), N("hit")>>)}

Counted == {Src("void", "obj", <<Node("bump", <<N("i1")>>), Node("target", <<When(N("alive"), <<Node("bump", <<N("id")>>)>>)>>)>>)}

MCDescribedScripts == Variants(Values \union Hits)
MCDescribedShifts == Variants(Counted)
MCHosts == {Env(0, 0, 6, 2), Env(1, 0, -6, 2), Env(0, 1, 6, -1), Env(1, 1, 6, 2)}
=============================================================================
