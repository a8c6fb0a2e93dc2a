-------------------------- MODULE ConversionPaths --------------------------
(***************************************************************************)
(* Implicit conversions: a graph of registered edges, and the search for   *)
(* the cheapest chain between two types (system::find_conversion_path).    *)
(* Of two chains of the same cost the one found first is kept, which is    *)
(* the order the edges were registered in.                                 *)
(***************************************************************************)
EXTENDS Integers, Sequences, SequencesExt

CONSTANT MaxCost    \* the largest cost a chain may have (INT32_MAX)

ASSUME MaxCostAssumption == MaxCost \in Nat \ {0}

NoPath == [found |-> FALSE, cost |-> 0, path |-> <<>>, overflow |-> FALSE]

\* Bug: registering an edge again adds a second one.
RegisterTwice(edges, e) == Append(edges, e)

\* register_implicit_conversion: registering an edge again updates its cost
\* and keeps its place among the edges of the type.
RegisterConversion(edges, e) ==
  LET same == {k \in DOMAIN edges : edges[k].from = e.from /\ edges[k].to = e.to}
  IN IF same = {} THEN Append(edges, e) ELSE [edges EXCEPT ![CHOOSE k \in same : TRUE] = e]

\* The first of the open nodes with the least cost.
CheapestOpen(open) ==
  CHOOSE k \in DOMAIN open :
    \A j \in DOMAIN open : open[k].cost < open[j].cost \/ (open[k].cost = open[j].cost /\ k <= j)

\* A chain past the limit only propagates that it is.
Capped(cost) == IF cost > MaxCost THEN MaxCost + 1 ELSE cost

\* Node `to` is reached at a cost over one more edge.
Reached(cur, st, e, cost) ==
  [st EXCEPT !.open = Append(@, [t |-> e.to, cost |-> cost, path |-> Append(cur.path, e)]),
             !.best = [t \in DOMAIN @ \union {e.to} |-> IF t = e.to THEN cost ELSE @[t]]]

\* Bug: a type that was reached is never reached cheaper.
RelaxOnce(cur, st, e) ==
  IF e.to \in DOMAIN st.best THEN st ELSE Reached(cur, st, e, Capped(cur.cost + e.cost))

\* One edge out of node `cur`.
Relax(cur, st, e) ==
  LET cost == Capped(cur.cost + e.cost)
  IN IF e.to \in DOMAIN st.best /\ st.best[e.to] <= cost THEN st ELSE Reached(cur, st, e, cost)

\* The edges out of node `cur`, in the order they were registered.
Expand(edges, cur, st) ==
  LET relaxed[k \in 0 .. Len(edges)] ==
        IF k = 0 THEN st
        ELSE IF edges[k].from = cur.t THEN Relax(cur, relaxed[k - 1], edges[k])
        ELSE relaxed[k - 1]
  IN relaxed[Len(edges)]

\* A node taken out of the open ones: stale, the target, or expanded.
Take(edges, to, cur, st) ==
  IF cur.cost # st.best[cur.t] THEN st
  ELSE IF cur.t = to
  THEN [st EXCEPT !.answer = [found |-> TRUE, cost |-> cur.cost, path |-> cur.path, overflow |-> cur.cost > MaxCost]]
  ELSE Expand(edges, cur, st)

TakeAt(edges, to, st, k) == Take(edges, to, st.open[k], [st EXCEPT !.open = RemoveAt(@, k)])

\* One turn of the loop, which ends with an answer or without open nodes.
Visit(edges, to, st) ==
  IF st.answer.found \/ st.open = <<>> THEN st ELSE TakeAt(edges, to, st, CheapestOpen(st.open))

StartSearch(from) ==
  [open |-> <<[t |-> from, cost |-> 0, path |-> <<>>]>>, best |-> [t \in {from} |-> 0], answer |-> NoPath]

\* No type is expanded twice, so every edge opens one node at most and the
\* loop has ended after as many turns.
Search(edges, from, to) ==
  LET visited[n \in 0 .. Len(edges) + 1] == IF n = 0 THEN StartSearch(from) ELSE Visit(edges, to, visited[n - 1])
  IN visited[Len(edges) + 1]

FindConversionPath(edges, from, to) == Search(edges, from, to).answer
=============================================================================
