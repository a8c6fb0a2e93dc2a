--------------------------- MODULE MCListPipeline ---------------------------
(***************************************************************************)
(* Two lists; the first is filled with up to three objects and goes        *)
(* through an operation that changes it and one that reduces it.           *)
(***************************************************************************)
EXTENDS ListPipeline

MCLists == {"xs", "ys"}
MCTypes == {"obj", "int", "float", "bool"}
MCValues == 1 .. 3
MCElements == -9 .. 30

Body(in, out, a, b, c) ==
  [in |-> in, out |-> out, of |-> [v \in MCElements |-> IF v = 1 THEN a ELSE IF v = 2 THEN b ELSE c],
   fails |-> {}, adds |-> Nothing, binds |-> {}, frames |-> <<>>]

MCCallbacks ==
  [alive |-> Body("obj", "bool", 0, 1, 1), small |-> Body("obj", "bool", 1, 1, 0), id |-> Body("obj", "int", 5, -4, 9),
   risky |-> [Body("obj", "bool", 1, 0, 1) EXCEPT !.fails = {3}],
   riskyId |-> [Body("obj", "int", 5, 2, 9) EXCEPT !.fails = {3}],
   collect |-> [Body("obj", "bool", 0, 1, 1) EXCEPT !.adds = "ys"],
   visit |-> [Body("obj", "float", 2, 3, 4) EXCEPT !.frames = <<1, 2>>, !.binds = {"ys"}],
   change |-> [Body("obj", "bool", 1, 1, 1) EXCEPT !.binds = {"xs"}],
   even |-> Body("int", "bool", 0, 1, 1), always |-> Body(Nothing, "bool", 1, 1, 1)]

Add(t) == [kind |-> "add_to", f |-> "always", def |-> t]
Do(kind, f) == [kind |-> kind, f |-> f, def |-> Nothing]
Else(kind, f, t) == [kind |-> kind, f |-> f, def |-> t]
On(list, ops) == [list |-> list, cond |-> FALSE, ops |-> ops]
If(list, ops) == [list |-> list, cond |-> TRUE, ops |-> ops]

Objects == On("xs", <<Add("obj"), Add("obj"), Add("obj")>>)

Tests == {Do(kind, f) : kind \in {"any", "all", "none", "count_if"}, f \in {"alive", "risky"}}
Numbers == {Do("sum", "id"), Do("sum", "visit")} \union {Else(kind, f, "float") : kind \in {"min", "max", "average"}, f \in {"id"}}
Finds == {Else(kind, "alive", "obj") : kind \in {"first", "last"}}
Changes == {Do("filter", "small"), Do("filter", "risky"), Do("map", "riskyId"), Do("filter", "collect"), Do("filter", "visit"), Do("filter", "change")}

MCPrograms ==
  {<<Objects, On("xs", <<c, x>>)>> : c \in Changes, x \in Tests \union Numbers \union Finds \union {Do("count", Nothing), Do("empty", Nothing)}}
  \union {<<Objects, On("xs", <<Do("map", "id"), Do("filter", "even"), x>>)>> : x \in {Else("first", "always", "int"), Do("sum", "even"), Do("all", "even")}}
  \union {<<Objects, On("xs", <<Do("sum", "visit")>>), On("ys", <<Do("filter", "alive"), Do("count", Nothing)>>)>>}
  \union {<<Objects, If("xs", <<Do("filter", "collect")>>), On("ys", <<Do("count_if", "alive")>>), On("xs", <<Do("clear", Nothing), x>>)>> :
            x \in Numbers \union Finds \union Tests}
  \union {<<Objects, If("xs", <<Do("filter", "small"), Do("sum", "id")>>)>>}
  \union {<<On("xs", <<Do("filter", "collect")>>), On("ys", <<x>>)>> : x \in {Add("obj"), Else("first", "alive", "int")}}
  \union {<<On("ys", <<Add("int")>>), Objects, On("xs", <<Do("filter", "collect")>>)>>}
  \union {<<On("xs", <<Add("obj"), Add("int")>>)>>, <<On("xs", <<Add("obj"), Do("first", "alive")>>)>>}
=============================================================================
