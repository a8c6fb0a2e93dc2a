--------------------------- MODULE OverloadChoice ---------------------------
(***************************************************************************)
(* What a host registers, and what a call written in a script is resolved  *)
(* to: conversions and overloads of one name are added in any order, then  *)
(* a script calls the name.  An argument is a value of a type (`fn = ""`:  *)
(* a literal, or a call that was folded), or a call of another function.   *)
(* Left out are overloads that fold any number of arguments, optional      *)
(* parameters, parameters of any type, and the four names whose results    *)
(* are never weighed (AND, OR, NAND, NOR).                                 *)
(***************************************************************************)
EXTENDS ConversionPaths, FiniteSets, FiniteSetsExt

CONSTANTS
  Conversions,    \* the edges that may be registered: [from, to, cost]
  Signatures,     \* the overloads that may be registered: [scope, args, ret, syntax]
  Readers,        \* the other functions: name -> type, without arguments
  Priorities,     \* arithmetic type -> priority
  Calls,          \* what a script may write: [scope, settled, exp, args]
  MaxEdges, MaxOverloads

\* The conversion the system registers itself.
IntToFloat == [from |-> "int", to |-> "float", cost |-> 1]

\* Costs are not negative (register_implicit_conversion refuses others).
ASSUME OverloadAssumption ==
  /\ MaxEdges \in Nat \ {0} /\ MaxOverloads \in Nat
  /\ IntToFloat \in Conversions
  /\ \A e \in Conversions : e.cost \in Nat
  /\ \A f \in Signatures : f.args \in Seq(STRING)
  /\ \A t \in DOMAIN Priorities : Priorities[t] \in Int
  /\ \A c \in Calls : c.args # <<>> /\ c.args \in Seq([fn : STRING, t : STRING])

VARIABLES
  edges,          \* system::implicit_conversions
  overloads,      \* system::mfuncs of the name
  call,           \* the call last compiled
  outcome         \* what resolve_function made of it

vars == <<edges, overloads, call, outcome>>

NoSignature == [scope |-> "", args |-> <<>>, ret |-> "", syntax |-> ""]
Unresolved(why) == [ok |-> FALSE, why |-> why, chosen |-> NoSignature]
NoCall == [scope |-> "", settled |-> "", exp |-> "void", args |-> <<>>]

\* A scope whose type the script does not know; `settled` is the type an
\* earlier call has committed it to, if any (scope_type_upvalue).
Untyped == "element_view"

-----------------------------------------------------------------------------
(* Resolution, among edges `es` and overloads `fs`; `cost` is              *)
(* parse_context::conversion_cost                                          *)

\* implicit_conversion_cost
Cost(es, from, to) == IF from = to THEN 0 ELSE FindConversionPath(es, from, to).cost
Reaches(es, from, to) == from = to \/ FindConversionPath(es, from, to).found
TooFar(es, from, to) == from # to /\ FindConversionPath(es, from, to).overflow

\* The overloads of the current scope; if there is none, those without a scope,
\* and all of them when the scope is untyped.
Applies(fs, f, scope) ==
  IF \E k \in DOMAIN fs : fs[k].scope = scope THEN f.scope = scope
  ELSE f.scope = "" \/ scope = Untyped

TypeOf(x) == IF x.fn = "" THEN x.t ELSE Readers[x.fn]

\* A value is widened to a fundamental parameter without a registered
\* conversion, unless that would drop a fraction.
Widens(x, param) ==
  x.fn = "" /\ <<x.t, param>> \in ({"bool", "int", "float"} \X {"bool", "float"}) \union {<<"bool", "int">>}

Accepts(es, x, param) ==
  (Reaches(es, TypeOf(x), param) \/ Widens(x, param)) /\ ~TooFar(es, TypeOf(x), param)

Charge(es, x, param) == IF Reaches(es, TypeOf(x), param) THEN Cost(es, TypeOf(x), param) ELSE 1

\* An argument is compiled expecting the parameter's type and converted to it.
\* A call among the arguments is resolved in turn, and with it the cost starts
\* anew: the winner's context replaces the caller's.
Argument(es, acc, x, param) ==
  LET before == IF x.fn = "" THEN acc.cost ELSE 0
  IN IF ~acc.ok THEN acc
     ELSE IF ~Accepts(es, x, param) THEN [acc EXCEPT !.ok = FALSE]
     ELSE [acc EXCEPT !.cost = before + Charge(es, x, param)]

Arguments(es, f, c) ==
  LET parsed[k \in 0 .. Len(f.args)] ==
        IF k = 0 THEN [ok |-> Len(c.args) = Len(f.args), cost |-> 0]
        ELSE Argument(es, parsed[k - 1], c.args[k], f.args[k])
  IN parsed[Len(f.args)]

Rank(f) ==
  LET rank[k \in 0 .. Len(f.args)] ==
        IF k = 0 THEN 0
        ELSE rank[k - 1] + (IF f.args[k] \in DOMAIN Priorities THEN Priorities[f.args[k]] ELSE 1000)
  IN rank[Len(f.args)]

\* Scalars are bools, strings and the arithmetic types, with int and float
\* among them; of other results the conversion is not weighed, and not needed.
WeighsReturn(f, c) ==
  /\ f.ret \in {"bool", "str"} \union DOMAIN Priorities
  /\ c.exp \notin {"void", "any", Untyped, f.ret}

ReturnCost(es, f, c) == IF WeighsReturn(f, c) THEN Cost(es, f.ret, c.exp) ELSE 0

\* An effect has no value and an operator is nothing but one; in an untyped
\* scope an operator of a scope fails, and so does a function of another scope
\* than the one the script has settled on.
InContext(f, c) ==
  /\ f.ret = "void" => c.exp = "void"
  /\ f.syntax = "operator" => c.exp # "void"
  /\ c.scope = Untyped /\ f.scope # "" => f.syntax # "operator" /\ c.settled \in {"", f.scope}

\* One candidate, tried on a copy of the context.
Trial(es, f, c) ==
  LET parsed == Arguments(es, f, c)
  IN [ok |-> parsed.ok /\ InContext(f, c) /\ (WeighsReturn(f, c) => Reaches(es, f.ret, c.exp)), f |-> f,
      cost |-> 2 * parsed.cost + ReturnCost(es, f, c),
      exact |-> c.exp # "void" /\ f.ret = c.exp,
      rank |-> Rank(f)]

\* Bug: an exact result counts before the cost of the arguments.
BetterResult(x, y) == IF x.exact # y.exact THEN x.exact ELSE x.cost < y.cost

Better(x, y) ==
  IF x.cost # y.cost THEN x.cost < y.cost
  ELSE IF x.exact # y.exact THEN x.exact
  ELSE x.rank < y.rank

Tied(x, y) == x.cost = y.cost /\ x.exact = y.exact /\ x.rank = y.rank

\* Bug: a tie among candidates that lose is remembered.
ContestStaleTie(acc, x) ==
  IF acc.best = <<>> \/ Better(x, acc.best[1]) THEN [acc EXCEPT !.best = <<x>>]
  ELSE IF Tied(x, acc.best[1]) THEN [acc EXCEPT !.ambiguous = TRUE]
  ELSE acc

\* A candidate that compiles is compared with the best one before it.
Contest(acc, x) ==
  IF acc.best = <<>> \/ Better(x, acc.best[1]) THEN [best |-> <<x>>, ambiguous |-> FALSE]
  ELSE IF Tied(x, acc.best[1]) THEN [acc EXCEPT !.ambiguous = TRUE]
  ELSE acc

Candidate(es, fs, f, c, acc) ==
  LET x == Trial(es, f, c)
  IN IF Applies(fs, f, c.scope) /\ x.ok THEN Contest(acc, x) ELSE acc

\* The candidates are tried in the order of registration.
Winner(es, fs, c) ==
  LET after[k \in 0 .. Len(fs)] ==
        IF k = 0 THEN [best |-> <<>>, ambiguous |-> FALSE] ELSE Candidate(es, fs, fs[k], c, after[k - 1])
  IN after[Len(fs)]

\* A conversion of a result that costs too much is an error of the call, not
\* of the candidate.
Overflows(es, fs, c) ==
  \E k \in DOMAIN fs : Applies(fs, fs[k], c.scope) /\ WeighsReturn(fs[k], c) /\ TooFar(es, fs[k].ret, c.exp)

Resolve(es, fs, c) ==
  LET winner == Winner(es, fs, c)
  IN IF Overflows(es, fs, c) THEN Unresolved("overflow")
     ELSE IF winner.best = <<>> THEN Unresolved("none")
     ELSE IF winner.ambiguous THEN Unresolved("ambiguous")
     ELSE [ok |-> TRUE, why |-> "", chosen |-> winner.best[1].f]

-----------------------------------------------------------------------------

\* The constructor has registered the conversion of integers.
Init == edges = <<IntToFloat>> /\ overloads = <<>> /\ call = NoCall /\ outcome = Unresolved("")

\* register_implicit_conversion
AddConversion ==
  \E e \in Conversions :
    /\ call = NoCall
    /\ edges' = RegisterConversion(edges, e) /\ Len(edges') <= MaxEdges
    /\ UNCHANGED <<overloads, call, outcome>>

\* Bug: an overload may be registered twice.
RegistrableTwice(f) == \A k \in DOMAIN overloads : overloads[k].syntax = f.syntax

\* register_function: all overloads of a name are written alike, and no two
\* take the same arguments in the same scope.
Registrable(f) ==
  \A k \in DOMAIN overloads :
    /\ overloads[k].syntax = f.syntax
    /\ <<overloads[k].scope, overloads[k].args>> # <<f.scope, f.args>>

AddOverload ==
  \E f \in Signatures :
    /\ call = NoCall
    /\ Len(overloads) < MaxOverloads /\ Registrable(f)
    /\ overloads' = Append(overloads, f)
    /\ UNCHANGED <<edges, call, outcome>>

\* A system is complete when its scripts are compiled.
Parse ==
  \E c \in Calls :
    /\ call = NoCall /\ overloads # <<>>
    /\ call' = c /\ outcome' = Resolve(edges, overloads, c)
    /\ UNCHANGED <<edges, overloads>>

Next == AddConversion \/ AddOverload \/ Parse

Spec == Init /\ [][Next]_vars

-----------------------------------------------------------------------------

\* There is one edge at most from a type to another, and the choice is among
\* what is registered.
TypeOK ==
  /\ Len(edges) <= MaxEdges /\ ToSet(edges) \subseteq Conversions
  /\ \A j, k \in DOMAIN edges : edges[j].from = edges[k].from /\ edges[j].to = edges[k].to => j = k
  /\ Len(overloads) <= MaxOverloads /\ ToSet(overloads) \subseteq Signatures
  /\ call \in Calls \union {NoCall}
  /\ outcome.ok => outcome.chosen \in ToSet(overloads)

\* All chains of conversions between two types; none that is longer, with a
\* type in it twice, is cheaper.
Chains(es, from, to) ==
  {s \in SeqOf(ToSet(es), Len(es)) :
     /\ s = <<>> => from = to
     /\ s # <<>> => s[1].from = from /\ s[Len(s)].to = to
     /\ \A k \in 1 .. (Len(s) - 1) : s[k].to = s[k + 1].from}

ChainCost(s) ==
  LET sum[k \in 0 .. Len(s)] == IF k = 0 THEN 0 ELSE sum[k - 1] + s[k].cost
  IN sum[Len(s)]

\* A conversion takes the cheapest chain there is, however the edges were
\* registered; one that has no chain is refused, one that has none within the
\* limit is an error, and no sum that would pass the limit is taken for a
\* cheap one (find_conversion_path).
CheapestChain ==
  overloads = <<>> =>
    \A from \in {e.from : e \in Conversions}, to \in {e.to : e \in Conversions} :
      LET p == FindConversionPath(edges, from, to)
          chains == Chains(edges, from, to)
      IN /\ p.found <=> chains # {}
         /\ p.found => (p.overflow <=> \A s \in chains : ChainCost(s) > MaxCost)
         /\ p.found /\ ~p.overflow =>
              p.path \in chains /\ p.cost = ChainCost(p.path) /\ \A s \in chains : p.cost <= ChainCost(s)

\* The same overloads, registered in any order.
Reorderings ==
  {fs \in [DOMAIN overloads -> ToSet(overloads)] :
     /\ ToSet(fs) = ToSet(overloads)
     /\ \A j, k \in DOMAIN overloads : fs[j] = fs[k] => j = k}

\* Which overload is called, if any, does not depend on the order the
\* overloads were registered in (resolve_function keeps the best one so far
\* and a flag for a tie).
OrderIsIrrelevant == call # NoCall => \A fs \in Reorderings : Resolve(edges, fs, call) = outcome

\* The arguments whose conversions are weighed: a call among them makes
\* resolve_function forget what the ones before it cost.
Weighed(c) == {k \in DOMAIN c.args : \A j \in DOMAIN c.args : j > k => c.args[j].fn = ""}

ArgumentsCost(es, f, c) ==
  LET sum[k \in 0 .. Len(c.args)] ==
        IF k = 0 THEN 0
        ELSE sum[k - 1] + (IF k \in Weighed(c) THEN Charge(es, c.args[k], f.args[k]) ELSE 0)
  IN sum[Len(c.args)]

TotalCost(es, f, c) == 2 * ArgumentsCost(es, f, c) + ReturnCost(es, f, c)

\* The overloads the call may be resolved to.
Candidates == {f \in ToSet(overloads) : Applies(overloads, f, call.scope) /\ Trial(edges, f, call).ok}

\* The order of overloads: by the cost of the conversions that are weighed, then
\* by whether the result is of the type expected, then by priority.
Precedes(f, g) ==
  LET cost(h) == TotalCost(edges, h, call)
      exact(h) == call.exp # "void" /\ h.ret = call.exp
  IN \/ cost(f) < cost(g)
     \/ cost(f) = cost(g) /\ exact(f) /\ ~exact(g)
     \/ cost(f) = cost(g) /\ exact(f) = exact(g) /\ Rank(f) < Rank(g)

Best == {f \in Candidates : \A g \in Candidates : ~Precedes(g, f)}

\* The overload that is called is the one that precedes all the others; the call
\* is ambiguous only if several come first, and has no overload only if none
\* compiles ("Function and operator overloads are resolved by scope, argument
\* types, conversion cost, and priority").  The conversions of a result that is
\* no scalar, and of the arguments before the last one that is a call, are not
\* weighed.
BestOverload ==
  call # NoCall =>
    \/ outcome.ok /\ Best = {outcome.chosen}
    \/ outcome.why = "ambiguous" /\ \E f, g \in Best : f # g
    \/ outcome.why = "none" /\ Candidates = {}
    \/ outcome.why = "overflow" /\ Overflows(edges, overloads, call)

\* A call that needs no conversion with one of the overloads gets that one,
\* when conversions are not free and no argument but the first is a call.  In an
\* untyped scope an overload of another scope with the same arguments may tie
\* with it, and a result that costs too much is an error of any call.
ExactMatchWins ==
  call # NoCall /\ Weighed(call) = DOMAIN call.args /\ (\A k \in DOMAIN edges : edges[k].cost > 0) =>
    \A f \in Candidates :
      TotalCost(edges, f, call) = 0 =>
        \/ outcome.chosen = f
        \/ outcome.why = "overflow"
        \/ call.scope = Untyped /\ \E g \in Candidates : g # f /\ g.args = f.args

=============================================================================
