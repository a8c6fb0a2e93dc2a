-------------------------- MODULE MCStreamedScript --------------------------
(***************************************************************************)
(* Rows that share slots, rows that fail at each stage of their            *)
(* compilation, and one that needs more stack than the limit allows.       *)
(***************************************************************************)
EXTENDS MCScriptLibrary, StreamedScript

Save(x) == Node("ctx_save", <<Node("a", <<x>>)>>)
Saved == Node("ctx", <<Node("saved", <<N("a")>>)>>)
Arg(next) == Node("ctx", <<Node("arg", <<N("y")>> \o next)>>)
Bogus == N("bogus")

Actions ==
  {N("hit"), N("i1"), Save(I(1)), Node("bump", <<Saved>>), When(N("c1"), <<Node("bump", <<I(2)>>)>>),
   Node("random", <<Weighed(I(1), <<N("hit")>>), Weighed(I(1), <<Node("bump", <<I(3)>>)>>)>>),
   Arg(<<Node("bump", <<I(4)>>)>>),
   Node("random", <<Weighed(I(1), <<N("hit")>>), Weighed(I(1), <<N("hit")>>), Weighed(I(1), <<N("hit")>>)>>),
   Group(<<N("hit"), Save(N("n1")), Bogus>>),
   Group(<<Arg(<<N("hit")>>), Node("target", <<N("hit"), Bogus>>)>>),
   Group(<<Node("random", <<Weighed(I(1), <<N("hit")>>)>>), Node("log", <<N("s1")>>)>>)}

Values ==
  {I(2), N("i1"), When(N("c1"), <<I(3)>>), Node("+", <<N("i1"), I(1)>>), N("s1"),
   Node("+", <<N("i1"), Arg(<<N("id")>>)>>), Node("+", <<N("i1"), Bogus>>)}

Tests == {Node("OR", <<N("c1"), N("c2")>>), Node("AND", <<N("c2"), B(1), Bogus>>), N("alive"), N("i1")}

Stream(ret, root, rows) ==
  {[ret |-> ret, root |-> root, fold |-> f, opt |-> o, rows |-> rows] : f \in {TRUE}, o \in BOOLEAN}

MCStreams == Stream("void", "obj", Actions) \union Stream("int", "", Values) \union Stream("bool", "obj", Tests)

MCHosts == {Env(0, 0, 6, 2), Env(1, 1, -6, 2)}
=============================================================================
