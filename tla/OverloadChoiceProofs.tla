------------------------ MODULE OverloadChoiceProofs ------------------------
(***************************************************************************)
(* Proofs about OverloadChoice: that the search for a conversion finds the *)
(* cheapest chain, for every list of edges, and what follows for the       *)
(* overload a call is resolved to.                                         *)
(***************************************************************************)
EXTENDS OverloadChoice, SequenceTheorems, FiniteSetTheorems, NaturalFacts

-----------------------------------------------------------------------------
(* Recursion                                                                *)

\* `f` starts at s0, and step k turns its value into the next one.
Stepwise(f, s0, D, n) == f[0] = s0 /\ \A k \in 1 .. n : f[k] = D[k][f[k - 1]]

\* One more value of a function that is defined step by step.
LEMMA OneMoreValue ==
  ASSUME NEW S, NEW s0 \in S, NEW N \in Nat, NEW D \in [1 .. N -> [S -> S]], NEW n \in Nat, n < N,
         NEW f \in [0 .. n -> S], Stepwise(f, s0, D, n)
  PROVE  \E g \in [0 .. n + 1 -> S] : Stepwise(g, s0, D, n + 1)
<1>1. n + 1 \in 1 .. N /\ n \in 0 .. n
  OBVIOUS
<1>2. D[n + 1] \in [S -> S] /\ f[n] \in S
  BY <1>1
<1>3. PICK x \in S : x = D[n + 1][f[n]]
  BY <1>2
<1> DEFINE g == [k \in 0 .. n + 1 |-> IF k = n + 1 THEN x ELSE f[k]]
<1>4. \A k \in 0 .. n : g[k] = f[k]
  OBVIOUS
<1>5. g[n + 1] = x /\ g \in [0 .. n + 1 -> S]
  OBVIOUS
<1> HIDE DEF g
<1>6. ASSUME NEW k \in 1 .. n + 1
      PROVE  g[k] = D[k][g[k - 1]]
  <2>1. CASE k = n + 1
    <3>1. k - 1 = n
      BY <2>1
    <3> QED
      BY <1>1, <1>3, <1>4, <1>5, <2>1, <3>1
  <2>2. CASE k # n + 1
    <3>1. k \in 1 .. n /\ k \in 0 .. n /\ k - 1 \in 0 .. n
      BY <2>2
    <3> QED
      BY <1>4, <3>1 DEF Stepwise
  <2> QED
    BY <2>1, <2>2
<1>7. g[0] = s0
  BY <1>4 DEF Stepwise
<1> QED
  BY <1>5, <1>6, <1>7 DEF Stepwise

\* A function defined step by step on 0 .. N exists.
LEMMA Recursion ==
  ASSUME NEW S, NEW s0 \in S, NEW N \in Nat, NEW D \in [1 .. N -> [S -> S]]
  PROVE  \E f \in [0 .. N -> S] : Stepwise(f, s0, D, N)
<1> DEFINE Q(n) == \E f \in [0 .. n -> S] : Stepwise(f, s0, D, n)
           T == {n \in 0 .. N : Q(n)}
<1>1. 0 \in T
  <2> DEFINE f == [k \in 0 .. 0 |-> s0]
  <2>1. f \in [0 .. 0 -> S] /\ Stepwise(f, s0, D, 0)
    BY DEF Stepwise
  <2>2. Q(0)
    BY <2>1
  <2> HIDE DEF Q
  <2> QED
    BY <2>2
<1>2. ASSUME NEW n \in T, n < N
      PROVE  n + 1 \in T
  <2>1. PICK f \in [0 .. n -> S] : Stepwise(f, s0, D, n)
    OBVIOUS
  <2>2. n \in Nat /\ n + 1 \in 0 .. N
    BY <1>2
  <2>3. Q(n + 1)
    <3> HIDE DEF T
    <3> QED
      BY <1>2, <2>1, <2>2, OneMoreValue
  <2> HIDE DEF Q
  <2> QED
    BY <2>2, <2>3
<1>3. 0 .. N \subseteq T
  <2>1. T \in SUBSET Nat
    OBVIOUS
  <2> HIDE DEF T
  <2> QED
    BY <1>1, <1>2, <2>1, InductionUpTo
<1> QED
  BY <1>3

\* A function that is only known to follow the steps has values in S.
LEMMA RecursionIs ==
  ASSUME NEW S, NEW s0 \in S, NEW N \in Nat, NEW D \in [1 .. N -> [S -> S]],
         NEW g, g[0] = s0, \A k \in 1 .. N : g[k - 1] \in S => g[k] = D[k][g[k - 1]]
  PROVE  /\ \A k \in 0 .. N : g[k] \in S
         /\ \A k \in 1 .. N : g[k] = D[k][g[k - 1]]
<1> DEFINE T == {k \in 0 .. N : g[k] \in S}
<1>1. 0 \in T
  OBVIOUS
<1>2. ASSUME NEW k \in T, k < N
      PROVE  k + 1 \in T
  <2>1. k + 1 \in 1 .. N /\ (k + 1) - 1 = k /\ g[k] \in S
    BY <1>2
  <2>2. g[k + 1] = D[k + 1][g[k]] /\ D[k + 1] \in [S -> S]
    BY <2>1
  <2> QED
    BY <2>1, <2>2
<1>3. 0 .. N \subseteq T
  <2>1. T \in SUBSET Nat
    OBVIOUS
  <2> HIDE DEF T
  <2> QED
    BY <1>1, <1>2, <2>1, InductionUpTo
<1>4. ASSUME NEW k \in 1 .. N
      PROVE  g[k - 1] \in S
  <2>1. k - 1 \in 0 .. N
    OBVIOUS
  <2> QED
    BY <1>3, <2>1
<1> QED
  BY <1>3, <1>4

-----------------------------------------------------------------------------
(* Sums                                                                     *)

\* Every sum of the model is one of these: `a` is added up to index n.
IsSum(f, a, n) == f = [k \in 0 .. n |-> IF k = 0 THEN 0 ELSE f[k - 1] + a[k]]

\* The values of a sum, one after the other.
LEMMA SumFacts ==
  ASSUME NEW n \in Nat, NEW a, \A k \in 1 .. n : a[k] \in Int, NEW f, IsSum(f, a, n)
  PROVE  f[0] = 0 /\ (\A k \in 0 .. n : f[k] \in Int) /\ \A k \in 1 .. n : f[k] = f[k - 1] + a[k]
<1> DEFINE D == [k \in 1 .. n |-> [x \in Int |-> x + a[k]]]
           e(k) == IF k = 0 THEN 0 ELSE f[k - 1] + a[k]
<1>1. D \in [1 .. n -> [Int -> Int]] /\ \A k \in 1 .. n : \A x \in Int : D[k][x] = x + a[k]
  OBVIOUS
<1>2. \A k \in 0 .. n : f[k] = e(k)
  <2>1. f = [k \in 0 .. n |-> e(k)]
    BY DEF IsSum
  <2> HIDE DEF e
  <2> QED
    BY <2>1
<1> HIDE DEF D
<1>3. f[0] = 0 /\ \A k \in 1 .. n : f[k] = f[k - 1] + a[k]
  BY <1>2
<1>4. \A k \in 1 .. n : f[k - 1] \in Int => f[k] = D[k][f[k - 1]]
  BY <1>1, <1>3
<1>5. \A k \in 0 .. n : f[k] \in Int
  <2>1. f[0] = 0 /\ 0 \in Int
    BY <1>3
  <2> QED
    BY <1>1, <1>4, <2>1, RecursionIs, ZenonT(60)
<1> QED
  BY <1>3, <1>5

\* A sum of integers exists.
LEMMA SumExists ==
  ASSUME NEW n \in Nat, NEW a, \A k \in 1 .. n : a[k] \in Int
  PROVE  \E f : IsSum(f, a, n)
<1> DEFINE D == [k \in 1 .. n |-> [x \in Int |-> x + a[k]]]
<1>1. D \in [1 .. n -> [Int -> Int]] /\ \A k \in 1 .. n : \A x \in Int : D[k][x] = x + a[k]
  OBVIOUS
<1> HIDE DEF D
<1>2. PICK f \in [0 .. n -> Int] : Stepwise(f, 0, D, n)
  <2>1. 0 \in Int
    OBVIOUS
  <2> QED
    BY <1>1, <2>1, Recursion
<1> DEFINE e(k) == IF k = 0 THEN 0 ELSE f[k - 1] + a[k]
<1>3. ASSUME NEW k \in 0 .. n
      PROVE  f[k] = e(k)
  <2>1. CASE k = 0
    BY <1>2, <2>1 DEF Stepwise
  <2>2. CASE k # 0
    <3>1. k \in 1 .. n /\ k - 1 \in 0 .. n
      BY <2>2
    <3> QED
      BY <1>1, <1>2, <2>2, <3>1 DEF Stepwise
  <2> QED
    BY <2>1, <2>2
<1>4. f = [k \in 0 .. n |-> f[k]]
  OBVIOUS
<1>5. f = [k \in 0 .. n |-> e(k)]
  <2> HIDE DEF e
  <2> QED
    BY <1>3, <1>4
<1> QED
  BY <1>5 DEF IsSum

\* A sum that goes on as another one ends is the same up to there.
LEMMA SumsAgree ==
  ASSUME NEW n \in Nat, NEW m \in Nat, NEW a, NEW b, NEW f, NEW g,
         \A k \in 1 .. n : a[k] \in Int, \A k \in 1 .. m : b[k] \in Int,
         IsSum(f, a, n), IsSum(g, b, m), n <= m, \A k \in 1 .. n : a[k] = b[k]
  PROVE  \A k \in 0 .. n : f[k] = g[k]
<1> DEFINE T == {k \in 0 .. n : f[k] = g[k]}
<1>1. /\ f[0] = 0 /\ \A k \in 1 .. n : f[k] = f[k - 1] + a[k]
      /\ g[0] = 0 /\ \A k \in 1 .. m : g[k] = g[k - 1] + b[k]
  BY SumFacts, ZenonT(60)
<1>2. 0 \in T
  BY <1>1
<1>3. ASSUME NEW k \in T, k < n
      PROVE  k + 1 \in T
  <2>1. k + 1 \in 1 .. n /\ k + 1 \in 1 .. m /\ (k + 1) - 1 = k /\ k + 1 \in 0 .. n
    BY <1>3
  <2>2. f[k + 1] = f[k] + a[k + 1] /\ g[k + 1] = g[k] + b[k + 1]
    BY <1>1, <2>1
  <2>3. f[k] = g[k] /\ a[k + 1] = b[k + 1]
    BY <2>1
  <2>4. f[k + 1] = g[k + 1]
    BY <2>2, <2>3
  <2> QED
    BY <2>1, <2>4
<1>4. 0 .. n \subseteq T
  <2>1. T \in SUBSET Nat
    OBVIOUS
  <2> HIDE DEF T
  <2> QED
    BY <1>2, <1>3, <2>1, InductionUpTo
<1> QED
  BY <1>4

\* A sum of natural numbers is one.
LEMMA SumIsNat ==
  ASSUME NEW n \in Nat, NEW a, \A k \in 1 .. n : a[k] \in Nat, NEW f, IsSum(f, a, n)
  PROVE  \A k \in 0 .. n : f[k] \in Nat
<1> DEFINE D == [k \in 1 .. n |-> [x \in Nat |-> x + a[k]]]
<1>1. D \in [1 .. n -> [Nat -> Nat]] /\ \A k \in 1 .. n : \A x \in Nat : D[k][x] = x + a[k]
  OBVIOUS
<1> HIDE DEF D
<1>2. f[0] = 0 /\ \A k \in 1 .. n : f[k] = f[k - 1] + a[k]
  BY SumFacts
<1>3. \A k \in 1 .. n : f[k - 1] \in Nat => f[k] = D[k][f[k - 1]]
  BY <1>1, <1>2
<1>4. f[0] = 0 /\ 0 \in Nat
  BY <1>2
<1> QED
  BY <1>1, <1>3, <1>4, RecursionIs, ZenonT(60)

\* A sum of natural numbers only grows.
LEMMA SumGrows ==
  ASSUME NEW n \in Nat, NEW a, \A k \in 1 .. n : a[k] \in Nat, NEW f, IsSum(f, a, n),
         NEW j \in 0 .. n, NEW l \in 0 .. n, j <= l
  PROVE  f[j] <= f[l]
<1> DEFINE T == {k \in 0 .. n : j <= k => f[j] <= f[k]}
<1>1. /\ \A k \in 0 .. n : f[k] \in Nat
      /\ \A k \in 1 .. n : f[k] = f[k - 1] + a[k]
  BY SumFacts, SumIsNat
<1>2. 0 \in T
  BY <1>1
<1>3. ASSUME NEW k \in T, k < n
      PROVE  k + 1 \in T
  <2>1. k + 1 \in 1 .. n /\ k + 1 \in 0 .. n /\ (k + 1) - 1 = k /\ k \in 0 .. n
    BY <1>3
  <2>2. f[k + 1] = f[k] + a[k + 1] /\ a[k + 1] \in Nat /\ f[k] \in Nat /\ f[j] \in Nat
    BY <1>1, <2>1
  <2>3. j = k + 1 \/ (j <= k + 1 => j <= k)
    OBVIOUS
  <2>4. j <= k => f[j] <= f[k]
    OBVIOUS
  <2>5. j <= k + 1 => f[j] <= f[k + 1]
    BY <2>2, <2>3, <2>4
  <2> QED
    BY <2>1, <2>5
<1>4. 0 .. n \subseteq T
  <2>1. T \in SUBSET Nat
    OBVIOUS
  <2> HIDE DEF T
  <2> QED
    BY <1>2, <1>3, <2>1, InductionUpTo
<1> QED
  BY <1>4

-----------------------------------------------------------------------------
(* Chains of conversions                                                    *)

\* The costs of a chain, and their sum.
Costs(s) == [k \in 1 .. Len(s) |-> s[k].cost]

IsCostSum(f, s) == f = [k \in 0 .. Len(s) |-> IF k = 0 THEN 0 ELSE f[k - 1] + s[k].cost]

\* The costs along a chain of conversions.
LEMMA EdgeCosts ==
  ASSUME NEW s \in Seq(Conversions)
  PROVE  /\ Len(s) \in Nat
         /\ \A k \in 1 .. Len(s) : s[k] \in Conversions /\ Costs(s)[k] \in Nat /\ Costs(s)[k] \in Int /\ Costs(s)[k] = s[k].cost
<1>1. Len(s) \in Nat /\ \A k \in 1 .. Len(s) : s[k] \in Conversions
  OBVIOUS
<1>2. \A k \in 1 .. Len(s) : Costs(s)[k] = s[k].cost
  BY DEF Costs
<1>3. \A e \in Conversions : e.cost \in Nat
  BY OverloadAssumption
<1> QED
  BY <1>1, <1>2, <1>3

\* The cost of a chain is the sum of the costs of its edges.
LEMMA ChainCostIs ==
  ASSUME NEW s \in Seq(Conversions)
  PROVE  \E f : IsSum(f, Costs(s), Len(s)) /\ ChainCost(s) = f[Len(s)]
<1>1. Len(s) \in Nat /\ \A k \in 1 .. Len(s) : Costs(s)[k] \in Int /\ Costs(s)[k] = s[k].cost
  BY EdgeCosts
<1>2. ASSUME NEW f
      PROVE  IsCostSum(f, s) <=> IsSum(f, Costs(s), Len(s))
  <2> DEFINE d(k) == IF k = 0 THEN 0 ELSE f[k - 1] + s[k].cost
             e(k) == IF k = 0 THEN 0 ELSE f[k - 1] + Costs(s)[k]
  <2>1. ASSUME NEW k \in 0 .. Len(s)
        PROVE  d(k) = e(k)
    <3>1. k = 0 \/ k \in 1 .. Len(s)
      BY <1>1
    <3> QED
      BY <1>1, <3>1
  <2> HIDE DEF d, e
  <2>2. [k \in 0 .. Len(s) |-> d(k)] = [k \in 0 .. Len(s) |-> e(k)]
    BY <2>1
  <2> QED
    BY <2>2 DEF d, e, IsCostSum, IsSum
<1>3. PICK f : IsSum(f, Costs(s), Len(s))
  BY <1>1, SumExists
<1>4. ChainCost(s) = (CHOOSE g : IsCostSum(g, s))[Len(s)]
  BY DEF ChainCost, IsCostSum
<1>5. \E g : IsCostSum(g, s)
  BY <1>2, <1>3
<1>6. PICK g : g = CHOOSE h : IsCostSum(h, s)
  OBVIOUS
<1>7. IsCostSum(g, s)
  BY <1>5, <1>6
<1> QED
  BY <1>2, <1>4, <1>6, <1>7

\* What the search needs to know of the cost.
LEMMA ChainCostFacts ==
  ASSUME NEW s \in Seq(Conversions)
  PROVE  /\ ChainCost(s) \in Nat
         /\ s = <<>> => ChainCost(s) = 0
<1>1. PICK f : IsSum(f, Costs(s), Len(s)) /\ ChainCost(s) = f[Len(s)]
  BY ChainCostIs
<1>2. Len(s) \in Nat /\ Len(s) \in 0 .. Len(s) /\ \A k \in 1 .. Len(s) : Costs(s)[k] \in Nat /\ Costs(s)[k] \in Int
  BY EdgeCosts
<1>3. f[0] = 0 /\ \A k \in 0 .. Len(s) : f[k] \in Nat
  BY <1>1, <1>2, SumFacts, SumIsNat
<1> QED
  BY <1>1, <1>2, <1>3

\* One more conversion adds its cost.
LEMMA LongerChain ==
  ASSUME NEW s \in Seq(Conversions), NEW e \in Conversions
  PROVE  ChainCost(Append(s, e)) = ChainCost(s) + e.cost
<1> PICK t : t = Append(s, e)
  OBVIOUS
<1>1. t \in Seq(Conversions) /\ Len(t) = Len(s) + 1 /\ t[Len(t)] = e /\ \A k \in 1 .. Len(s) : t[k] = s[k]
  OBVIOUS
<1>2. /\ Len(s) \in Nat /\ \A k \in 1 .. Len(s) : Costs(s)[k] \in Int /\ Costs(s)[k] = s[k].cost
      /\ Len(t) \in Nat /\ \A k \in 1 .. Len(t) : Costs(t)[k] \in Int /\ Costs(t)[k] = t[k].cost
  BY <1>1, EdgeCosts
<1>3. PICK f : IsSum(f, Costs(s), Len(s)) /\ ChainCost(s) = f[Len(s)]
  BY ChainCostIs
<1>4. PICK g : IsSum(g, Costs(t), Len(t)) /\ ChainCost(t) = g[Len(t)]
  BY <1>1, ChainCostIs
<1>5. \A k \in 1 .. Len(s) : Costs(s)[k] = Costs(t)[k]
  <2>1. \A k \in 1 .. Len(s) : k \in 1 .. Len(t)
    BY <1>1, <1>2
  <2> QED
    BY <1>1, <1>2, <2>1
<1>6. \A k \in 0 .. Len(s) : f[k] = g[k]
  <2>1. PICK n, m, a, b : n = Len(s) /\ m = Len(t) /\ a = Costs(s) /\ b = Costs(t)
    OBVIOUS
  <2>2. n \in Nat /\ m \in Nat /\ n <= m
    BY <1>1, <1>2, <2>1
  <2>3. (\A k \in 1 .. n : a[k] \in Int) /\ (\A k \in 1 .. m : b[k] \in Int) /\ \A k \in 1 .. n : a[k] = b[k]
    BY <1>2, <1>5, <2>1
  <2>4. IsSum(f, a, n) /\ IsSum(g, b, m)
    BY <1>3, <1>4, <2>1
  <2>5. \A k \in 0 .. n : f[k] = g[k]
    BY <2>2, <2>3, <2>4, SumsAgree
  <2> QED
    BY <2>1, <2>5
<1>7. g[Len(t)] = g[Len(t) - 1] + Costs(t)[Len(t)]
  <2>1. Len(t) \in 1 .. Len(t)
    BY <1>1, <1>2
  <2> QED
    BY <1>2, <1>4, <2>1, SumFacts
<1>8. Len(t) - 1 = Len(s) /\ Len(s) \in 0 .. Len(s) /\ Costs(t)[Len(t)] = e.cost
  <2>1. Len(t) \in 1 .. Len(t)
    BY <1>1, <1>2
  <2> QED
    BY <1>1, <1>2, <2>1
<1> QED
  BY <1>3, <1>4, <1>6, <1>7, <1>8

\* A chain of edges of `es` from one type to another.
At(s, from, k) == IF k = 0 THEN from ELSE s[k].to

\* A chain of registered conversions between two types.
ChainOf(es, s, from, to) ==
  /\ s \in Seq(Conversions)
  /\ \A k \in 1 .. Len(s) : \E i \in DOMAIN es : s[k] = es[i]
  /\ \A k \in 1 .. Len(s) : s[k].from = At(s, from, k - 1)
  /\ At(s, from, Len(s)) = to

\* A type is converted to itself by the empty chain.
LEMMA NoEdges ==
  ASSUME NEW es, NEW from
  PROVE  ChainOf(es, <<>>, from, from)
<1>1. <<>> \in Seq(Conversions) /\ Len(<<>>) = 0
  OBVIOUS
<1> QED
  BY <1>1 DEF ChainOf, At

\* A chain followed by one more edge is a chain.
LEMMA OneMoreEdge ==
  ASSUME NEW es \in Seq(Conversions), NEW s, NEW from, NEW mid, ChainOf(es, s, from, mid),
         NEW i \in DOMAIN es, es[i].from = mid
  PROVE  ChainOf(es, Append(s, es[i]), from, es[i].to)
<1> PICK e, t : e = es[i] /\ t = Append(s, e)
  OBVIOUS
<1>1. s \in Seq(Conversions) /\ e \in Conversions
  BY DEF ChainOf
<1>2. /\ t \in Seq(Conversions) /\ Len(t) = Len(s) + 1 /\ Len(s) \in Nat
      /\ t[Len(t)] = e /\ \A k \in 1 .. Len(s) : t[k] = s[k]
  BY <1>1
<1>3. ASSUME NEW k \in 1 .. Len(t)
      PROVE  (\E j \in DOMAIN es : t[k] = es[j]) /\ t[k].from = At(t, from, k - 1)
  <2>1. CASE k = Len(t)
    <3>1. At(t, from, Len(s)) = At(s, from, Len(s))
      <4>1. CASE Len(s) = 0
        BY <4>1 DEF At
      <4>2. CASE Len(s) # 0
        <5>1. Len(s) \in 1 .. Len(s)
          BY <1>2, <4>2
        <5> QED
          BY <1>2, <4>2, <5>1 DEF At
      <4> QED
        BY <4>1, <4>2
    <3>2. k - 1 = Len(s) /\ t[k] = e
      BY <1>2, <2>1
    <3>3. At(s, from, Len(s)) = mid
      BY DEF ChainOf
    <3> QED
      BY <3>1, <3>2, <3>3
  <2>2. CASE k # Len(t)
    <3>1. k \in 1 .. Len(s) /\ t[k] = s[k]
      BY <1>2, <2>2
    <3>2. At(t, from, k - 1) = At(s, from, k - 1)
      <4>1. CASE k = 1
        BY <4>1 DEF At
      <4>2. CASE k # 1
        <5>1. k - 1 \in 1 .. Len(s)
          BY <3>1, <4>2
        <5> QED
          BY <1>2, <5>1 DEF At
      <4> QED
        BY <4>1, <4>2
    <3> QED
      BY <3>1, <3>2 DEF ChainOf
  <2> QED
    BY <2>1, <2>2
<1>4. At(t, from, Len(t)) = e.to
  BY <1>2 DEF At
<1> QED
  BY <1>2, <1>3, <1>4 DEF ChainOf

-----------------------------------------------------------------------------
(* The states of the search                                                 *)

\* A cost past the limit is kept as one past it: capping is monotonic, and
\* capping a sum of a capped cost is capping the sum (find_conversion_path).
LEMMA CappedFacts ==
  ASSUME NEW n \in Nat, NEW m \in Nat
  PROVE  /\ Capped(n) \in Nat /\ Capped(n) <= MaxCost + 1 /\ Capped(n) <= n
         /\ n <= m => Capped(n) <= Capped(m)
         /\ Capped(Capped(n) + m) = Capped(n + m)
         /\ Capped(n) <= Capped(n + m)
         /\ Capped(n) > MaxCost <=> n > MaxCost
         /\ n <= MaxCost => Capped(n) = n
<1>1. MaxCost \in Nat
  BY MaxCostAssumption
<1> QED
  BY <1>1 DEF Capped

\* What a chain costs that goes on from a node that is no dearer.
LEMMA CappedSum ==
  ASSUME NEW x \in Nat, NEW n \in Nat, NEW m \in Nat, x <= Capped(n)
  PROVE  Capped(x + m) <= Capped(n + m)
<1>1. MaxCost \in Nat
  BY MaxCostAssumption
<1> QED
  BY <1>1 DEF Capped

\* The states a search can be in.
Types(es, from) == {from} \union {es[i].to : i \in DOMAIN es}
Nodes(es, from) == [t : Types(es, from), cost : Nat, path : Seq(Conversions)]
Bests(es, from) == UNION {[D -> Nat] : D \in SUBSET Types(es, from)}
Paths == [found : BOOLEAN, cost : Nat, path : Seq(Conversions), overflow : BOOLEAN]
States(es, from) == [open : Seq(Nodes(es, from)), best : Bests(es, from), answer : Paths]

\* A registered edge.
LEMMA EdgeOf ==
  ASSUME NEW es \in Seq(Conversions), NEW from, NEW i \in DOMAIN es
  PROVE  es[i] \in Conversions /\ es[i].cost \in Nat /\ es[i].to \in Types(es, from)
<1>1. es[i] \in Conversions
  OBVIOUS
<1> QED
  BY <1>1, OverloadAssumption DEF Types

\* The least costs known so far.
LEMMA BestFacts ==
  ASSUME NEW es, NEW from, NEW b \in Bests(es, from)
  PROVE  /\ DOMAIN b \subseteq Types(es, from)
         /\ \A t \in DOMAIN b : b[t] \in Nat
         /\ b \in [DOMAIN b -> Nat]
<1>1. PICK D \in SUBSET Types(es, from) : b \in [D -> Nat]
  BY DEF Bests
<1> QED
  BY <1>1

\* A type that is reached cheaper, or for the first time.
LEMMA ReachedFacts ==
  ASSUME NEW es \in Seq(Conversions), NEW from, NEW st \in States(es, from), NEW cur \in Nodes(es, from),
         NEW i \in DOMAIN es, NEW cost \in Nat, NEW r, r = Reached(cur, st, es[i], cost)
  PROVE  /\ r \in States(es, from) /\ r.answer = st.answer
         /\ r.open = Append(st.open, [t |-> es[i].to, cost |-> cost, path |-> Append(cur.path, es[i])])
         /\ DOMAIN r.best = DOMAIN st.best \union {es[i].to}
         /\ \A t \in DOMAIN r.best : r.best[t] = IF t = es[i].to THEN cost ELSE st.best[t]
<1> DEFINE o == Append(st.open, [t |-> es[i].to, cost |-> cost, path |-> Append(cur.path, es[i])])
           b == [t \in DOMAIN st.best \union {es[i].to} |-> IF t = es[i].to THEN cost ELSE st.best[t]]
<1>1. es[i] \in Conversions /\ es[i].to \in Types(es, from)
  BY EdgeOf
<1>2. /\ st.open \in Seq(Nodes(es, from)) /\ st.best \in Bests(es, from) /\ st.answer \in Paths
      /\ st = [open |-> st.open, best |-> st.best, answer |-> st.answer]
  BY DEF States
<1>3. o \in Seq(Nodes(es, from))
  <2>1. Append(cur.path, es[i]) \in Seq(Conversions)
    BY <1>1 DEF Nodes
  <2>2. [t |-> es[i].to, cost |-> cost, path |-> Append(cur.path, es[i])] \in Nodes(es, from)
    BY <1>1, <2>1 DEF Nodes
  <2> QED
    BY <1>2, <2>2
<1>4. b \in Bests(es, from)
  <2>1. DOMAIN st.best \subseteq Types(es, from) /\ \A t \in DOMAIN st.best : st.best[t] \in Nat
    BY <1>2, BestFacts
  <2>2. b \in [DOMAIN st.best \union {es[i].to} -> Nat]
    BY <2>1
  <2>3. DOMAIN st.best \union {es[i].to} \in SUBSET Types(es, from)
    BY <1>1, <2>1
  <2> HIDE DEF b
  <2> QED
    BY <2>2, <2>3 DEF Bests
<1>5. r = [open |-> o, best |-> b, answer |-> st.answer]
  BY <1>2, Zenon DEF Reached
<1>6. DOMAIN b = DOMAIN st.best \union {es[i].to} /\ \A t \in DOMAIN b : b[t] = IF t = es[i].to THEN cost ELSE st.best[t]
  OBVIOUS
<1> HIDE DEF b
<1> QED
  BY <1>2, <1>3, <1>4, <1>5, <1>6 DEF States

\* One edge: its target is known to be no dearer, or it is reached.
LEMMA RelaxFacts ==
  ASSUME NEW es \in Seq(Conversions), NEW from, NEW st \in States(es, from), NEW cur \in Nodes(es, from),
         NEW i \in DOMAIN es
  PROVE  /\ Relax(cur, st, es[i]) \in States(es, from)
         /\ Capped(cur.cost + es[i].cost) \in Nat
         /\ IF es[i].to \in DOMAIN st.best /\ st.best[es[i].to] <= Capped(cur.cost + es[i].cost)
            THEN Relax(cur, st, es[i]) = st
            ELSE Relax(cur, st, es[i]) = Reached(cur, st, es[i], Capped(cur.cost + es[i].cost))
<1>1. cur.cost + es[i].cost \in Nat
  BY EdgeOf DEF Nodes
<1>2. Capped(cur.cost + es[i].cost) \in Nat
  BY <1>1, CappedFacts
<1>3. Reached(cur, st, es[i], Capped(cur.cost + es[i].cost)) \in States(es, from)
  <2>1. PICK cost, r : cost = Capped(cur.cost + es[i].cost) /\ r = Reached(cur, st, es[i], cost)
    OBVIOUS
  <2>2. r \in States(es, from)
    BY <1>2, <2>1, ReachedFacts, ZenonT(60)
  <2> QED
    BY <2>1, <2>2
<1> QED
  BY <1>2, <1>3 DEF Relax

\* The edges one after the other.
Expands(f, es, cur, st) ==
  f = [k \in 0 .. Len(es) |->
         IF k = 0 THEN st
         ELSE IF es[k].from = cur.t THEN Relax(cur, f[k - 1], es[k])
         ELSE f[k - 1]]

\* Edge k, followed if it starts at node `cur`.
OneEdge(es, cur, k, x) == IF es[k].from = cur.t THEN Relax(cur, x, es[k]) ELSE x

\* Expanding a node follows its edges one by one.
LEMMA ExpandIs ==
  ASSUME NEW es \in Seq(Conversions), NEW from, NEW st \in States(es, from), NEW cur \in Nodes(es, from)
  PROVE  \E f : /\ f[0] = st /\ Expand(es, cur, st) = f[Len(es)]
                /\ \A k \in 0 .. Len(es) : f[k] \in States(es, from)
                /\ \A k \in 1 .. Len(es) : f[k] = OneEdge(es, cur, k, f[k - 1])
<1> DEFINE S == States(es, from)
           D == [k \in 1 .. Len(es) |-> [x \in S |-> OneEdge(es, cur, k, x)]]
<1>1. Len(es) \in Nat /\ DOMAIN es = 1 .. Len(es)
  OBVIOUS
<1>2. \A k \in 1 .. Len(es) : \A x \in S : OneEdge(es, cur, k, x) \in S
  BY <1>1, RelaxFacts DEF OneEdge
<1>3. D \in [1 .. Len(es) -> [S -> S]] /\ \A k \in 1 .. Len(es) : \A x \in S : D[k][x] = OneEdge(es, cur, k, x)
  BY <1>2
<1> HIDE DEF D
<1>4. ASSUME NEW f
      PROVE  Expands(f, es, cur, st)
               <=> f = [k \in 0 .. Len(es) |-> IF k = 0 THEN st ELSE OneEdge(es, cur, k, f[k - 1])]
  BY Zenon DEF Expands, OneEdge
<1>5. \E f : Expands(f, es, cur, st)
  <2>1. PICK f \in [0 .. Len(es) -> S] : Stepwise(f, st, D, Len(es))
    BY <1>1, <1>3, Recursion
  <2> DEFINE e(k) == IF k = 0 THEN st ELSE OneEdge(es, cur, k, f[k - 1])
  <2>2. ASSUME NEW k \in 0 .. Len(es)
        PROVE  f[k] = e(k)
    <3>1. CASE k = 0
      BY <2>1, <3>1 DEF Stepwise
    <3>2. CASE k # 0
      <4>1. k \in 1 .. Len(es) /\ k - 1 \in 0 .. Len(es)
        BY <1>1, <3>2
      <4>2. f[k] = D[k][f[k - 1]] /\ f[k - 1] \in S
        BY <2>1, <4>1 DEF Stepwise
      <4> HIDE DEF S
      <4> QED
        BY <1>3, <3>2, <4>1, <4>2
    <3> QED
      BY <3>1, <3>2
  <2>3. f = [k \in 0 .. Len(es) |-> f[k]]
    OBVIOUS
  <2> HIDE DEF e, S
  <2>4. f = [k \in 0 .. Len(es) |-> e(k)]
    BY <2>2, <2>3
  <2> QED
    BY <1>4, <2>4 DEF e
<1>6. PICK f : f = CHOOSE g : Expands(g, es, cur, st)
  OBVIOUS
<1>7. Expands(f, es, cur, st)
  BY <1>5, <1>6
<1>8. Expand(es, cur, st) = f[Len(es)]
  BY <1>6 DEF Expand, Expands
<1>9. f[0] = st /\ \A k \in 1 .. Len(es) : f[k] = OneEdge(es, cur, k, f[k - 1])
  <2> DEFINE e(k) == IF k = 0 THEN st ELSE OneEdge(es, cur, k, f[k - 1])
  <2>1. f = [k \in 0 .. Len(es) |-> e(k)]
    BY <1>4, <1>7
  <2> HIDE DEF e
  <2>2. \A k \in 0 .. Len(es) : f[k] = e(k)
    BY <2>1
  <2>3. 0 \in 0 .. Len(es) /\ \A k \in 1 .. Len(es) : k # 0 /\ k \in 0 .. Len(es)
    BY <1>1
  <2> QED
    BY <2>2, <2>3 DEF e
<1>10. \A k \in 0 .. Len(es) : f[k] \in S
  <2>1. \A k \in 1 .. Len(es) : f[k - 1] \in S => f[k] = D[k][f[k - 1]]
    BY <1>3, <1>9
  <2> HIDE DEF S
  <2>2. st \in S /\ f[0] = st
    BY <1>9 DEF S
  <2> QED
    BY <1>1, <1>3, <2>1, <2>2, RecursionIs, ZenonT(60)
<1> QED
  BY <1>8, <1>9, <1>10

\* What is left when one element is taken out.
LEMMA RemoveAtFacts ==
  ASSUME NEW S, NEW s \in Seq(S), NEW k \in DOMAIN s, NEW r, r = RemoveAt(s, k)
  PROVE  /\ r \in Seq(S) /\ Len(r) = Len(s) - 1
         /\ \A j \in DOMAIN r : (j < k /\ j \in DOMAIN s /\ r[j] = s[j]) \/ (j >= k /\ j + 1 \in DOMAIN s /\ r[j] = s[j + 1])
         /\ \A j \in DOMAIN s : j # k => \E l \in DOMAIN r : r[l] = s[j]
<1>1. k \in 1 .. Len(s) /\ Len(s) \in Nat
  OBVIOUS
<1> DEFINE a == SubSeq(s, 1, k - 1)
           b == SubSeq(s, k + 1, Len(s))
<1>2. /\ a \in Seq(S) /\ Len(a) = k - 1 /\ \A j \in 1 .. k - 1 : a[j] = s[j]
      /\ b \in Seq(S) /\ Len(b) = Len(s) - k /\ \A j \in 1 .. Len(s) - k : b[j] = s[k + j]
  BY <1>1
<1>3. r = a \o b
  BY DEF RemoveAt
<1> HIDE DEF a, b
<1>4. r \in Seq(S) /\ Len(r) = Len(s) - 1
  BY <1>1, <1>2, <1>3
<1>5. \A j \in 1 .. Len(r) : r[j] = IF j <= Len(a) THEN a[j] ELSE b[j - Len(a)]
  BY <1>2, <1>3, SMTT(30)
<1>6. ASSUME NEW j \in DOMAIN r
      PROVE  (j < k /\ j \in DOMAIN s /\ r[j] = s[j]) \/ (j >= k /\ j + 1 \in DOMAIN s /\ r[j] = s[j + 1])
  <2>1. j \in 1 .. Len(s) - 1
    BY <1>1, <1>4
  <2>2. CASE j < k
    <3>1. j \in 1 .. k - 1 /\ j \in 1 .. Len(s) /\ j \in 1 .. Len(r)
      BY <1>1, <1>4, <2>1, <2>2
    <3> QED
      BY <1>2, <1>5, <2>2, <3>1
  <2>3. CASE j >= k
    <3>1. j - (k - 1) \in 1 .. Len(s) - k /\ j + 1 \in 1 .. Len(s) /\ ~(j <= k - 1) /\ j \in 1 .. Len(r)
      BY <1>1, <1>4, <2>1, <2>3
    <3>2. r[j] = b[j - (k - 1)] /\ b[j - (k - 1)] = s[k + (j - (k - 1))]
      BY <1>2, <1>5, <3>1
    <3>3. k + (j - (k - 1)) = j + 1
      BY <1>1, <2>1
    <3> QED
      BY <2>3, <3>1, <3>2, <3>3
  <2> QED
    BY <1>1, <2>1, <2>2, <2>3
<1>7. ASSUME NEW j \in DOMAIN s, j # k
      PROVE  \E l \in DOMAIN r : r[l] = s[j]
  <2>1. DOMAIN r = 1 .. Len(s) - 1 /\ j \in 1 .. Len(s)
    BY <1>4
  <2>2. CASE j < k
    <3>1. j \in DOMAIN r
      BY <1>1, <2>1, <2>2
    <3>2. r[j] = s[j]
      BY <1>1, <1>6, <2>1, <2>2, <3>1
    <3> QED
      BY <3>1, <3>2
  <2>3. CASE j > k
    <3>1. j - 1 \in DOMAIN r /\ ~(j - 1 < k) /\ (j - 1) + 1 = j
      BY <1>1, <2>1, <2>3
    <3>2. r[j - 1] = s[j]
      BY <1>6, <3>1
    <3> QED
      BY <3>1, <3>2
  <2> QED
    BY <1>1, <1>7, <2>1, <2>2, <2>3
<1> QED
  BY <1>4, <1>6, <1>7

\* The node that is visited next is an open one, and none costs less.
LEMMA CheapestOpenFacts ==
  ASSUME NEW S, NEW open \in Seq(S), open # <<>>, \A j \in DOMAIN open : open[j].cost \in Nat,
         NEW k, k = CheapestOpen(open)
  PROVE  k \in DOMAIN open /\ \A j \in DOMAIN open : open[k].cost <= open[j].cost
<1> DEFINE T == {open[j].cost : j \in DOMAIN open}
           First(i) == \A j \in DOMAIN open : open[i].cost < open[j].cost \/ (open[i].cost = open[j].cost /\ i <= j)
<1>1. DOMAIN open = 1 .. Len(open) /\ Len(open) \in Nat /\ 1 \in DOMAIN open
  OBVIOUS
<1>2. PICK m \in T : \A n \in T : m <= n
  <2>1. T \in SUBSET Nat /\ T # {}
    BY <1>1
  <2> HIDE DEF T
  <2> QED
    BY <2>1, Least
<1> DEFINE U == {j \in DOMAIN open : open[j].cost = m}
<1>3. PICK i \in U : \A j \in U : i <= j
  <2>1. U \in SUBSET Nat /\ U # {}
    BY <1>1, <1>2
  <2> HIDE DEF U
  <2> QED
    BY <2>1, Least
<1>4. i \in DOMAIN open /\ First(i)
  <2>1. ASSUME NEW j \in DOMAIN open
        PROVE  open[i].cost < open[j].cost \/ (open[i].cost = open[j].cost /\ i <= j)
    <3>1. open[i].cost = m /\ open[j].cost \in T /\ m <= open[j].cost /\ m \in Nat /\ open[j].cost \in Nat
      BY <1>2, <1>3
    <3>2. CASE open[j].cost = m
      BY <1>3, <3>1, <3>2
    <3>3. CASE open[j].cost # m
      BY <3>1, <3>3
    <3> QED
      BY <3>2, <3>3
  <2> QED
    BY <1>3, <2>1
<1>5. k \in DOMAIN open /\ First(k)
  <2>1. k = CHOOSE x \in DOMAIN open : First(x)
    BY DEF CheapestOpen
  <2> HIDE DEF First
  <2> QED
    BY <1>4, <2>1
<1>6. ASSUME NEW j \in DOMAIN open
      PROVE  open[k].cost <= open[j].cost
  <2>1. open[k].cost < open[j].cost \/ open[k].cost = open[j].cost
    BY <1>5
  <2>2. open[k].cost \in Nat /\ open[j].cost \in Nat
    BY <1>5
  <2> QED
    BY <2>1, <2>2
<1> QED
  BY <1>5, <1>6

\* The open nodes of r are those of st but node k.
Removed(st, k, r) ==
  /\ Len(r.open) = Len(st.open) - 1
  /\ \A j \in DOMAIN r.open : \/ j < k /\ j \in DOMAIN st.open /\ r.open[j] = st.open[j]
                              \/ j >= k /\ j + 1 \in DOMAIN st.open /\ r.open[j] = st.open[j + 1]
  /\ \A j \in DOMAIN st.open : j # k => \E l \in DOMAIN r.open : r.open[l] = st.open[j]

\* What a turn of the loop starts from: a node, and the state without it.
LEMMA TurnFacts ==
  ASSUME NEW es, NEW from, NEW st \in States(es, from), st.open # <<>>,
         NEW k, k = CheapestOpen(st.open), NEW r, r = [st EXCEPT !.open = RemoveAt(@, k)]
  PROVE  /\ k \in DOMAIN st.open /\ st.open[k] \in Nodes(es, from)
         /\ r \in States(es, from) /\ r.best = st.best /\ r.answer = st.answer
         /\ \A j \in DOMAIN st.open : st.open[k].cost <= st.open[j].cost
         /\ Removed(st, k, r)
<1>1. /\ st.open \in Seq(Nodes(es, from)) /\ st.best \in Bests(es, from) /\ st.answer \in Paths
      /\ st = [open |-> st.open, best |-> st.best, answer |-> st.answer]
  BY DEF States
<1>2. \A j \in DOMAIN st.open : st.open[j] \in Nodes(es, from) /\ st.open[j].cost \in Nat
  <2>1. \A j \in DOMAIN st.open : st.open[j] \in Nodes(es, from)
    BY <1>1
  <2>2. \A o \in Nodes(es, from) : o.cost \in Nat
    BY DEF Nodes
  <2> QED
    BY <2>1, <2>2
<1>3. k \in DOMAIN st.open /\ \A j \in DOMAIN st.open : st.open[k].cost <= st.open[j].cost
  <2>1. PICK open, S : open = st.open /\ S = Nodes(es, from)
    OBVIOUS
  <2>2. open \in Seq(S) /\ open # <<>> /\ (\A j \in DOMAIN open : open[j].cost \in Nat) /\ k = CheapestOpen(open)
    BY <1>1, <1>2, <2>1
  <2>3. k \in DOMAIN open /\ \A j \in DOMAIN open : open[k].cost <= open[j].cost
    BY <2>2, CheapestOpenFacts
  <2> QED
    BY <2>1, <2>3
<1>4. PICK o : o = RemoveAt(st.open, k)
  OBVIOUS
<1>5. r = [open |-> o, best |-> st.best, answer |-> st.answer]
  BY <1>1, <1>4
<1>6. /\ o \in Seq(Nodes(es, from)) /\ Len(o) = Len(st.open) - 1
      /\ \A j \in DOMAIN o : \/ j < k /\ j \in DOMAIN st.open /\ o[j] = st.open[j]
                             \/ j >= k /\ j + 1 \in DOMAIN st.open /\ o[j] = st.open[j + 1]
      /\ \A j \in DOMAIN st.open : j # k => \E l \in DOMAIN o : o[l] = st.open[j]
  BY <1>1, <1>3, <1>4, RemoveAtFacts
<1>7. r \in States(es, from)
  BY <1>1, <1>5, <1>6 DEF States
<1>8. Removed(st, k, r)
  BY <1>5, <1>6 DEF Removed
<1> QED
  BY <1>2, <1>3, <1>5, <1>6, <1>7, <1>8

\* A turn leads from a state to a state.
LEMMA VisitType ==
  ASSUME NEW es \in Seq(Conversions), NEW from, NEW to, NEW st \in States(es, from)
  PROVE  Visit(es, to, st) \in States(es, from)
<1>1. CASE st.answer.found \/ st.open = <<>>
  BY <1>1 DEF Visit
<1>2. CASE ~(st.answer.found \/ st.open = <<>>)
  <2>1. PICK k, cur, r : k = CheapestOpen(st.open) /\ cur = st.open[k] /\ r = [st EXCEPT !.open = RemoveAt(@, k)]
    OBVIOUS
  <2>2. Visit(es, to, st) = Take(es, to, cur, r)
    BY <1>2, <2>1 DEF Visit, TakeAt
  <2>3. cur \in Nodes(es, from) /\ r \in States(es, from)
    BY <1>2, <2>1, TurnFacts
  <2>4. Expand(es, cur, r) \in States(es, from)
    <3>1. PICK f : Expand(es, cur, r) = f[Len(es)] /\ \A k1 \in 0 .. Len(es) : f[k1] \in States(es, from)
      BY <2>3, ExpandIs
    <3>2. Len(es) \in 0 .. Len(es)
      OBVIOUS
    <3> QED
      BY <3>1, <3>2
  <2>5. [r EXCEPT !.answer = [found |-> TRUE, cost |-> cur.cost, path |-> cur.path, overflow |-> cur.cost > MaxCost]]
          \in States(es, from)
    <3>1. PICK p : p = [found |-> TRUE, cost |-> cur.cost, path |-> cur.path, overflow |-> cur.cost > MaxCost]
      OBVIOUS
    <3>2. p \in Paths
      <4>1. cur.cost \in Nat /\ cur.path \in Seq(Conversions) /\ (cur.cost > MaxCost) \in BOOLEAN
        BY <2>3 DEF Nodes
      <4> QED
        BY <3>1, <4>1 DEF Paths
    <3>3. [r EXCEPT !.answer = p] \in States(es, from)
      BY <2>3, <3>2 DEF States
    <3> QED
      BY <3>1, <3>3
  <2> QED
    BY <2>2, <2>3, <2>4, <2>5, Zenon DEF Take
<1> QED
  BY <1>1, <1>2

\* The turns one after the other.
Visits(f, es, from, to) ==
  f = [n \in 0 .. Len(es) + 1 |-> IF n = 0 THEN StartSearch(from) ELSE Visit(es, to, f[n - 1])]

\* What the search starts from.
LEMMA StartType ==
  ASSUME NEW es, NEW from
  PROVE  /\ StartSearch(from) \in States(es, from)
         /\ StartSearch(from) = [open |-> <<[t |-> from, cost |-> 0, path |-> <<>>]>>, best |-> [t \in {from} |-> 0], answer |-> NoPath]
<1>1. [t |-> from, cost |-> 0, path |-> <<>>] \in Nodes(es, from)
  BY DEF Nodes, Types
<1>2. <<[t |-> from, cost |-> 0, path |-> <<>>]>> \in Seq(Nodes(es, from))
  BY <1>1
<1>3. [t \in {from} |-> 0] \in Bests(es, from)
  <2>1. {from} \in SUBSET Types(es, from) /\ [t \in {from} |-> 0] \in [{from} -> Nat]
    BY DEF Types
  <2> QED
    BY <2>1 DEF Bests
<1>4. NoPath \in Paths
  <2>1. <<>> \in Seq(Conversions) /\ 0 \in Nat
    OBVIOUS
  <2> QED
    BY <2>1 DEF NoPath, Paths
<1>5. StartSearch(from) = [open |-> <<[t |-> from, cost |-> 0, path |-> <<>>]>>, best |-> [t \in {from} |-> 0], answer |-> NoPath]
  BY Zenon DEF StartSearch
<1>6. PICK o, b, p : o = <<[t |-> from, cost |-> 0, path |-> <<>>]>> /\ b = [t \in {from} |-> 0] /\ p = NoPath
  OBVIOUS
<1>7. [open |-> o, best |-> b, answer |-> p] \in States(es, from)
  BY <1>2, <1>3, <1>4, <1>6 DEF States
<1> QED
  BY <1>5, <1>6, <1>7

\* The search, turn by turn.
Turns(f, es, from, to) ==
  /\ f[0] = StartSearch(from) /\ Search(es, from, to) = f[Len(es) + 1]
  /\ \A n \in 0 .. Len(es) + 1 : f[n] \in States(es, from)
  /\ \A n \in 1 .. Len(es) + 1 : f[n] = Visit(es, to, f[n - 1])

\* Every search goes on like that.
LEMMA SearchIs ==
  ASSUME NEW es \in Seq(Conversions), NEW from, NEW to
  PROVE  \E f : Turns(f, es, from, to)
<1> DEFINE S == States(es, from)
           N == Len(es) + 1
           st == StartSearch(from)
           D == [n \in 1 .. N |-> [x \in S |-> Visit(es, to, x)]]
<1>1. N \in Nat
  OBVIOUS
<1>2. \A x \in S : Visit(es, to, x) \in S
  BY VisitType
<1>3. D \in [1 .. N -> [S -> S]] /\ \A n \in 1 .. N : \A x \in S : D[n][x] = Visit(es, to, x)
  BY <1>2
<1>4. st \in S
  BY StartType
<1> HIDE DEF D, N, st
<1>5. \E f : Visits(f, es, from, to)
  <2>1. PICK f \in [0 .. N -> S] : Stepwise(f, st, D, N)
    BY <1>1, <1>3, <1>4, Recursion
  <2> DEFINE e(n) == IF n = 0 THEN st ELSE Visit(es, to, f[n - 1])
  <2>2. ASSUME NEW n \in 0 .. N
        PROVE  f[n] = e(n)
    <3>1. CASE n = 0
      BY <2>1, <3>1 DEF Stepwise
    <3>2. CASE n # 0
      <4>1. n \in 1 .. N /\ n - 1 \in 0 .. N
        BY <1>1, <3>2
      <4>2. f[n] = D[n][f[n - 1]] /\ f[n - 1] \in S
        BY <2>1, <4>1 DEF Stepwise
      <4> HIDE DEF S
      <4> QED
        BY <1>3, <3>2, <4>1, <4>2
    <3> QED
      BY <3>1, <3>2
  <2>3. f = [n \in 0 .. N |-> f[n]]
    OBVIOUS
  <2> HIDE DEF e, S
  <2>4. f = [n \in 0 .. N |-> e(n)]
    BY <2>2, <2>3
  <2> QED
    BY <2>4 DEF e, N, st, Visits
<1>6. PICK f : f = CHOOSE g : Visits(g, es, from, to)
  OBVIOUS
<1>7. Visits(f, es, from, to)
  BY <1>5, <1>6
<1>8. Search(es, from, to) = f[N]
  BY <1>6 DEF N, Search, Visits
<1>9. f[0] = st /\ \A n \in 1 .. N : f[n] = Visit(es, to, f[n - 1])
  <2> DEFINE e(n) == IF n = 0 THEN st ELSE Visit(es, to, f[n - 1])
  <2>1. f = [n \in 0 .. N |-> e(n)]
    BY <1>7 DEF N, st, Visits
  <2> HIDE DEF e
  <2>2. \A n \in 0 .. N : f[n] = e(n)
    BY <2>1
  <2>3. 0 \in 0 .. N /\ \A n \in 1 .. N : n # 0 /\ n \in 0 .. N
    BY <1>1
  <2> QED
    BY <2>2, <2>3 DEF e
<1>10. \A n \in 0 .. N : f[n] \in S
  <2>1. \A n \in 1 .. N : f[n - 1] \in S => f[n] = D[n][f[n - 1]]
    BY <1>3, <1>9
  <2> HIDE DEF S
  <2> QED
    BY <1>1, <1>3, <1>4, <1>9, <2>1, RecursionIs, ZenonT(60)
<1> QED
  BY <1>8, <1>9, <1>10 DEF N, Turns, st

-----------------------------------------------------------------------------
(* The loop of the search: X are the types expanded so far, E the edges     *)
(* that were followed, n bounds the length of the chains                    *)

\* An open node stands for a chain from the start; it is no cheaper than what
\* is known of its type and of the expanded ones, and stale if its type is
\* one of them.
NodeOK(es, from, st, X, n, o) ==
  /\ ChainOf(es, o.path, from, o.t) /\ Len(o.path) <= n
  /\ o.cost = Capped(ChainCost(o.path))
  /\ o.t \in DOMAIN st.best /\ st.best[o.t] <= o.cost
  /\ \A x \in X : st.best[x] <= o.cost
  /\ o.t \in X => o.cost # st.best[o.t]

Searching(es, from, to, st, X, E, n) ==
  /\ st \in States(es, from) /\ ~st.answer.found
  /\ X \subseteq DOMAIN st.best /\ to \notin X
  /\ from \in DOMAIN st.best /\ st.best[from] = 0
  /\ \A j \in DOMAIN st.open : NodeOK(es, from, st, X, n, st.open[j])
  /\ \A j, l \in DOMAIN st.open : st.open[j].t = st.open[l].t /\ st.open[j].cost = st.open[l].cost => j = l
  /\ \A t \in DOMAIN st.best : t \in X \/ \E j \in DOMAIN st.open : st.open[j].t = t /\ st.open[j].cost = st.best[t]
  /\ E \subseteq DOMAIN es
  /\ \A i \in E : /\ es[i].from \in X /\ es[i].to \in DOMAIN st.best
                  /\ st.best[es[i].to] <= Capped(st.best[es[i].from] + es[i].cost)

\* The same while node `cur` is expanded, whose type is one of X already.
Expanding(es, from, to, cur, st, X, E, n) ==
  /\ Searching(es, from, to, st, X, E, n)
  /\ cur \in Nodes(es, from) /\ cur.t \in X /\ st.best[cur.t] = cur.cost
  /\ ChainOf(es, cur.path, from, cur.t) /\ Len(cur.path) < n /\ cur.cost = Capped(ChainCost(cur.path))
  /\ \A x \in X : st.best[x] <= cur.cost
  /\ \A j \in DOMAIN st.open : cur.cost <= st.open[j].cost

\* The parts of a state of the search.
LEMMA StateFacts ==
  ASSUME NEW es, NEW from, NEW st \in States(es, from)
  PROVE  /\ \A t \in DOMAIN st.best : st.best[t] \in Nat
         /\ st.open \in Seq(Nodes(es, from)) /\ DOMAIN st.open = 1 .. Len(st.open) /\ Len(st.open) \in Nat
         /\ \A j \in DOMAIN st.open : st.open[j] \in Nodes(es, from) /\ st.open[j].cost \in Nat
         /\ st.answer \in Paths
<1>1. st.open \in Seq(Nodes(es, from)) /\ st.best \in Bests(es, from) /\ st.answer \in Paths
  BY DEF States
<1>2. \A j \in DOMAIN st.open : st.open[j] \in Nodes(es, from)
  BY <1>1
<1>3. \A o \in Nodes(es, from) : o.cost \in Nat
  BY DEF Nodes
<1>4. \A t \in DOMAIN st.best : st.best[t] \in Nat
  BY <1>1, BestFacts
<1>5. DOMAIN st.open = 1 .. Len(st.open) /\ Len(st.open) \in Nat
  BY <1>1
<1> QED
  BY <1>1, <1>2, <1>3, <1>4, <1>5

\* What reaching a type over one more edge costs, and the chain it adds.
LEMMA OneMoreStep ==
  ASSUME NEW es \in Seq(Conversions), NEW from, NEW cur \in Nodes(es, from), NEW i \in DOMAIN es,
         ChainOf(es, cur.path, from, cur.t), cur.cost = Capped(ChainCost(cur.path)), es[i].from = cur.t
  PROVE  /\ ChainOf(es, Append(cur.path, es[i]), from, es[i].to)
         /\ Len(Append(cur.path, es[i])) = Len(cur.path) + 1
         /\ Capped(cur.cost + es[i].cost) = Capped(ChainCost(Append(cur.path, es[i])))
         /\ Capped(cur.cost + es[i].cost) \in Nat /\ cur.cost <= Capped(cur.cost + es[i].cost)
<1>1. cur.path \in Seq(Conversions) /\ es[i] \in Conversions /\ es[i].cost \in Nat
  BY EdgeOf DEF ChainOf
<1>2. PICK s, e, n, m : s = cur.path /\ e = es[i] /\ n = ChainCost(s) /\ m = es[i].cost
  OBVIOUS
<1>3. n \in Nat /\ m \in Nat /\ cur.cost = Capped(n) /\ ChainCost(Append(s, e)) = n + m
  BY <1>1, <1>2, ChainCostFacts, LongerChain
<1>4. Capped(Capped(n) + m) = Capped(n + m) /\ Capped(n) <= Capped(n + m) /\ n + m \in Nat
  <2>1. Capped(Capped(n) + m) = Capped(n + m) /\ Capped(n) <= Capped(n + m)
    BY <1>3, CappedFacts, Zenon
  <2> QED
    BY <1>3, <2>1
<1>5. Capped(n + m) \in Nat
  BY <1>4, CappedFacts
<1>6. ChainOf(es, Append(s, e), from, e.to)
  BY <1>2, OneMoreEdge
<1>7. Len(Append(s, e)) = Len(s) + 1
  BY <1>1, <1>2
<1> QED
  BY <1>2, <1>3, <1>4, <1>5, <1>6, <1>7

\* One edge out of the node that is expanded.
LEMMA RelaxStep ==
  ASSUME NEW es \in Seq(Conversions), NEW from, NEW to, NEW cur, NEW st, NEW X, NEW E, NEW n \in Nat,
         Expanding(es, from, to, cur, st, X, E, n), NEW i \in DOMAIN es, es[i].from = cur.t,
         NEW r, r = Relax(cur, st, es[i])
  PROVE  /\ Expanding(es, from, to, cur, r, X, E \union {i}, n)
         /\ Len(r.open) <= Len(st.open) + 1 /\ Len(r.open) \in Nat
<1> PICK e, cost : e = es[i] /\ cost = Capped(cur.cost + es[i].cost)
  OBVIOUS
<1>1. st \in States(es, from) /\ cur \in Nodes(es, from) /\ Searching(es, from, to, st, X, E, n)
  BY DEF Expanding, Searching
<1>2. /\ \A t \in DOMAIN st.best : st.best[t] \in Nat
      /\ st.open \in Seq(Nodes(es, from)) /\ DOMAIN st.open = 1 .. Len(st.open) /\ Len(st.open) \in Nat
      /\ \A j \in DOMAIN st.open : st.open[j] \in Nodes(es, from) /\ st.open[j].cost \in Nat
      /\ st.answer \in Paths
  BY <1>1, StateFacts
<1>3. /\ ChainOf(es, Append(cur.path, e), from, e.to)
      /\ Len(Append(cur.path, e)) = Len(cur.path) + 1
      /\ cost = Capped(ChainCost(Append(cur.path, e)))
      /\ cost \in Nat /\ cur.cost <= cost /\ cur.cost \in Nat
  <2>1. ChainOf(es, cur.path, from, cur.t) /\ cur.cost = Capped(ChainCost(cur.path))
    BY DEF Expanding
  <2>2. cur.cost \in Nat
    BY <1>1 DEF Nodes
  <2> QED
    BY <1>1, <2>1, <2>2, OneMoreStep
<1>4. /\ X \subseteq DOMAIN st.best /\ to \notin X /\ from \in DOMAIN st.best /\ st.best[from] = 0
      /\ cur.t \in X /\ st.best[cur.t] = cur.cost /\ E \subseteq DOMAIN es
      /\ \A x \in X : st.best[x] <= cur.cost
  BY <1>1 DEF Expanding, Searching
<1>5. CASE e.to \in DOMAIN st.best /\ st.best[e.to] <= cost
  <2>1. r = st
    BY <1>1, <1>5, RelaxFacts
  <2>2. E \union {i} \subseteq DOMAIN es
    BY <1>4
  <2>3. \A i1 \in E \union {i} :
          /\ es[i1].from \in X /\ es[i1].to \in DOMAIN st.best
          /\ st.best[es[i1].to] <= Capped(st.best[es[i1].from] + es[i1].cost)
    <3>1. \A i1 \in E : /\ es[i1].from \in X /\ es[i1].to \in DOMAIN st.best
                        /\ st.best[es[i1].to] <= Capped(st.best[es[i1].from] + es[i1].cost)
      BY <1>1 DEF Searching
    <3>2. es[i].from \in X /\ es[i].to \in DOMAIN st.best /\ st.best[es[i].to] <= Capped(st.best[es[i].from] + es[i].cost)
      BY <1>4, <1>5
    <3> QED
      BY <3>1, <3>2
  <2>4. Searching(es, from, to, st, X, E \union {i}, n)
    BY <1>1, <2>2, <2>3 DEF Searching
  <2>5. Expanding(es, from, to, cur, st, X, E \union {i}, n)
    BY <2>4 DEF Expanding
  <2>6. Len(st.open) <= Len(st.open) + 1
    BY <1>2
  <2> QED
    BY <1>2, <2>1, <2>5, <2>6
<1>6. CASE ~(e.to \in DOMAIN st.best /\ st.best[e.to] <= cost)
  <2> PICK o : o = [t |-> e.to, cost |-> cost, path |-> Append(cur.path, e)]
    OBVIOUS
  <2>1. /\ r \in States(es, from) /\ r.answer = st.answer /\ r.open = Append(st.open, o)
        /\ DOMAIN r.best = DOMAIN st.best \union {e.to}
        /\ \A t \in DOMAIN r.best : r.best[t] = IF t = e.to THEN cost ELSE st.best[t]
    <3>1. r = Reached(cur, st, es[i], cost)
      BY <1>1, <1>6, RelaxFacts
    <3>2. /\ r \in States(es, from) /\ r.answer = st.answer
          /\ r.open = Append(st.open, [t |-> es[i].to, cost |-> cost, path |-> Append(cur.path, es[i])])
          /\ DOMAIN r.best = DOMAIN st.best \union {es[i].to}
          /\ \A t \in DOMAIN r.best : r.best[t] = IF t = es[i].to THEN cost ELSE st.best[t]
      BY <1>1, <1>3, <3>1, ReachedFacts, SMTT(30)
    <3>3. o = [t |-> es[i].to, cost |-> cost, path |-> Append(cur.path, es[i])]
      OBVIOUS
    <3> QED
      BY <3>2, <3>3
  <2>2. o.t = e.to /\ o.cost = cost /\ o.path = Append(cur.path, e)
    OBVIOUS
  <2>3. /\ Len(r.open) = Len(st.open) + 1 /\ DOMAIN r.open = 1 .. Len(st.open) + 1
        /\ r.open[Len(st.open) + 1] = o
        /\ \A j \in DOMAIN st.open : j \in DOMAIN r.open /\ r.open[j] = st.open[j]
        /\ \A j \in DOMAIN r.open : j = Len(st.open) + 1 \/ j \in DOMAIN st.open
    <3>1. o \in Nodes(es, from)
      <4>1. r.open \in Seq(Nodes(es, from))
        BY <2>1, StateFacts
      <4>2. Len(st.open) + 1 \in DOMAIN Append(st.open, o) /\ Append(st.open, o)[Len(st.open) + 1] = o
        BY <1>2
      <4> QED
        BY <2>1, <4>1, <4>2
    <3>2. PICK q, S : q = st.open /\ S = Nodes(es, from)
      OBVIOUS
    <3>3. q \in Seq(S) /\ o \in S
      BY <1>2, <3>1, <3>2
    <3>4. /\ Len(Append(q, o)) = Len(q) + 1 /\ DOMAIN Append(q, o) = 1 .. Len(q) + 1
          /\ Append(q, o)[Len(q) + 1] = o /\ Len(q) \in Nat /\ DOMAIN q = 1 .. Len(q)
          /\ \A j \in 1 .. Len(q) : Append(q, o)[j] = q[j]
      BY <3>3
    <3> QED
      BY <2>1, <3>2, <3>4
  <2>4. e.to \notin X /\ e.to # from
    <3>1. ASSUME e.to \in X PROVE FALSE
      <4>1. e.to \in DOMAIN st.best /\ st.best[e.to] <= cur.cost /\ st.best[e.to] \in Nat
        BY <1>2, <1>4, <3>1
      <4> QED
        BY <1>3, <1>6, <4>1
    <3>2. ASSUME e.to = from PROVE FALSE
      BY <1>3, <1>4, <1>6, <3>2
    <3> QED
      BY <3>1, <3>2
  <2>5. \A t \in DOMAIN st.best : t \in DOMAIN r.best /\ r.best[t] \in Nat /\ r.best[t] <= st.best[t]
    <3>1. ASSUME NEW t \in DOMAIN st.best
          PROVE  t \in DOMAIN r.best /\ r.best[t] \in Nat /\ r.best[t] <= st.best[t]
      <4>1. t \in DOMAIN r.best /\ st.best[t] \in Nat
        BY <1>2, <2>1
      <4>2. CASE t = e.to
        <5>1. ~(st.best[t] <= cost)
          BY <1>6, <4>2
        <5> QED
          BY <1>3, <2>1, <4>1, <4>2, <5>1
      <4>3. CASE t # e.to
        BY <2>1, <4>1, <4>3
      <4> QED
        BY <4>2, <4>3
    <3> QED
      BY <3>1
  <2>6. \A x \in X : r.best[x] = st.best[x] /\ x \in DOMAIN r.best
    BY <1>4, <2>1, <2>4
  <2>7. e.to \in DOMAIN r.best /\ r.best[e.to] = cost
    BY <2>1
  <2>8. ASSUME NEW j \in DOMAIN st.open
        PROVE  NodeOK(es, from, r, X, n, st.open[j])
    <3>1. PICK p : p = st.open[j]
      OBVIOUS
    <3>2. NodeOK(es, from, st, X, n, p) /\ p.cost \in Nat
      BY <1>1, <1>2, <3>1 DEF Searching
    <3>3. p.t \in DOMAIN r.best /\ r.best[p.t] <= p.cost
      <4>1. p.t \in DOMAIN st.best /\ st.best[p.t] <= p.cost
        BY <3>2 DEF NodeOK
      <4>2. st.best[p.t] \in Nat /\ r.best[p.t] \in Nat /\ r.best[p.t] <= st.best[p.t]
        BY <1>2, <2>5, <4>1
      <4> QED
        BY <2>5, <3>2, <4>1, <4>2
    <3>4. (\A x \in X : r.best[x] <= p.cost) /\ (p.t \in X => p.cost # r.best[p.t])
      BY <2>6, <3>2 DEF NodeOK
    <3> QED
      BY <3>1, <3>2, <3>3, <3>4 DEF NodeOK
  <2>9. NodeOK(es, from, r, X, n, o)
    <3>1. Len(o.path) <= n
      <4>1. Len(cur.path) < n /\ Len(cur.path) \in Nat
        BY <1>1 DEF Expanding, Nodes
      <4> QED
        BY <1>3, <2>2, <4>1
    <3>2. \A x \in X : r.best[x] <= o.cost
      <4>1. ASSUME NEW x \in X
            PROVE  r.best[x] <= o.cost
        <5>1. r.best[x] = st.best[x] /\ st.best[x] \in Nat /\ st.best[x] <= cur.cost
          BY <1>2, <1>4, <2>6
        <5> QED
          BY <1>3, <2>2, <5>1
      <4> QED
        BY <4>1
    <3>3. o.t \notin X /\ o.t \in DOMAIN r.best /\ r.best[o.t] <= o.cost
      BY <1>3, <2>2, <2>4, <2>7
    <3> QED
      BY <1>3, <2>2, <3>1, <3>2, <3>3 DEF NodeOK
  <2>10. \A j \in DOMAIN r.open : NodeOK(es, from, r, X, n, r.open[j]) /\ cur.cost <= r.open[j].cost
    <3>1. \A j \in DOMAIN st.open : cur.cost <= st.open[j].cost
      BY DEF Expanding
    <3> QED
      BY <1>3, <2>2, <2>3, <2>8, <2>9, <3>1
  <2>11. ASSUME NEW j \in DOMAIN st.open
         PROVE  ~(st.open[j].t = o.t /\ st.open[j].cost = o.cost)
    <3>1. NodeOK(es, from, st, X, n, st.open[j])
      BY <1>1 DEF Searching
    <3>2. st.open[j].t \in DOMAIN st.best /\ st.best[st.open[j].t] <= st.open[j].cost
      BY <3>1 DEF NodeOK
    <3> QED
      BY <1>6, <2>2, <3>2
  <2>12. \A j, l \in DOMAIN r.open : r.open[j].t = r.open[l].t /\ r.open[j].cost = r.open[l].cost => j = l
    <3>1. \A j, l \in DOMAIN st.open : st.open[j].t = st.open[l].t /\ st.open[j].cost = st.open[l].cost => j = l
      BY <1>1 DEF Searching
    <3>2. ASSUME NEW j \in DOMAIN r.open, NEW l \in DOMAIN r.open,
                 r.open[j].t = r.open[l].t, r.open[j].cost = r.open[l].cost
          PROVE  j = l
      <4>1. CASE j \in DOMAIN st.open /\ l \in DOMAIN st.open
        BY <2>3, <3>1, <3>2, <4>1
      <4>2. CASE j \in DOMAIN st.open /\ l = Len(st.open) + 1
        BY <2>3, <2>11, <3>2, <4>2
      <4>3. CASE l \in DOMAIN st.open /\ j = Len(st.open) + 1
        <5>1. r.open[l] = st.open[l] /\ r.open[j] = o
          BY <2>3, <4>3
        <5>2. st.open[l].t = o.t /\ st.open[l].cost = o.cost
          BY <3>2, <5>1
        <5> QED
          BY <2>11, <4>3, <5>2
      <4> QED
        BY <2>3, <4>1, <4>2, <4>3
    <3> QED
      BY <3>2
  <2>13. ASSUME NEW t \in DOMAIN r.best
         PROVE  t \in X \/ \E j \in DOMAIN r.open : r.open[j].t = t /\ r.open[j].cost = r.best[t]
    <3>1. CASE t = e.to
      <4>1. Len(st.open) + 1 \in DOMAIN r.open
        BY <1>2, <2>3
      <4> QED
        BY <2>2, <2>3, <2>7, <3>1, <4>1
    <3>2. CASE t # e.to
      <4>1. t \in DOMAIN st.best /\ r.best[t] = st.best[t]
        BY <2>1, <3>2
      <4>2. t \in X \/ \E j \in DOMAIN st.open : st.open[j].t = t /\ st.open[j].cost = st.best[t]
        BY <1>1, <4>1 DEF Searching
      <4> QED
        BY <2>3, <4>1, <4>2
    <3> QED
      BY <3>1, <3>2
  <2>14. ASSUME NEW i1 \in E \union {i}
         PROVE  /\ es[i1].from \in X /\ es[i1].to \in DOMAIN r.best
                /\ r.best[es[i1].to] <= Capped(r.best[es[i1].from] + es[i1].cost)
    <3>1. CASE i1 = i
      <4>1. r.best[es[i].from] = cur.cost /\ es[i].from \in X
        BY <1>4, <2>6
      <4> QED
        BY <1>3, <2>7, <3>1, <4>1
    <3>2. CASE i1 # i
      <4>1. i1 \in E
        BY <3>2
      <4>2. es[i1].from \in X /\ es[i1].to \in DOMAIN st.best /\ st.best[es[i1].to] <= Capped(st.best[es[i1].from] + es[i1].cost)
        BY <1>1, <4>1 DEF Searching
      <4>3. PICK x, y, z : x = r.best[es[i1].to] /\ y = st.best[es[i1].to] /\ z = Capped(st.best[es[i1].from] + es[i1].cost)
        OBVIOUS
      <4>4. x \in Nat /\ y \in Nat /\ x <= y /\ y <= z
        BY <1>2, <2>5, <4>2, <4>3
      <4>5. z \in Nat
        <5>1. st.best[es[i1].from] \in Nat /\ es[i1].cost \in Nat
          <6>1. i1 \in DOMAIN es
            BY <1>4, <4>1
          <6> QED
            BY <1>2, <1>4, <4>2, <6>1, EdgeOf
        <5>2. st.best[es[i1].from] + es[i1].cost \in Nat
          BY <5>1, SMTT(30)
        <5> QED
          BY <4>3, <5>2, CappedFacts
      <4>6. x <= z
        BY <4>4, <4>5
      <4>7. r.best[es[i1].from] = st.best[es[i1].from]
        BY <2>6, <4>2
      <4> QED
        BY <2>5, <4>2, <4>3, <4>6, <4>7
    <3> QED
      BY <3>1, <3>2
  <2>15. Searching(es, from, to, r, X, E \union {i}, n)
    <3>1. ~r.answer.found /\ X \subseteq DOMAIN r.best
      BY <1>1, <2>1, <2>6 DEF Searching
    <3>2. from \in DOMAIN r.best /\ r.best[from] = 0
      BY <1>4, <2>1, <2>4
    <3>3. E \union {i} \subseteq DOMAIN es
      BY <1>4
    <3> QED
      BY <1>4, <2>1, <2>10, <2>12, <2>13, <2>14, <3>1, <3>2, <3>3 DEF Searching
  <2>16. r.best[cur.t] = cur.cost /\ \A x \in X : r.best[x] <= cur.cost
    BY <1>4, <2>6
  <2>17. Expanding(es, from, to, cur, r, X, E \union {i}, n)
    BY <1>4, <2>10, <2>15, <2>16 DEF Expanding
  <2> QED
    BY <1>2, <2>3, <2>17
<1> QED
  BY <1>5, <1>6

\* What every edge out of a type of X that can be followed is.
Followed(es, X) == {i \in DOMAIN es : es[i].from \in X}

\* A chain that is cheaper than every open node ends at an expanded type.
LEMMA Frontier ==
  ASSUME NEW es \in Seq(Conversions), NEW from, NEW to, NEW st, NEW X, NEW n,
         Searching(es, from, to, st, X, Followed(es, X), n),
         NEW m \in Nat, \A j \in DOMAIN st.open : m <= st.open[j].cost,
         NEW s, NEW t, ChainOf(es, s, from, t), Capped(ChainCost(s)) < m
  PROVE  t \in X
<1>1. s \in Seq(Conversions) /\ st \in States(es, from)
  BY DEF ChainOf, Searching
<1>2. PICK f : IsSum(f, Costs(s), Len(s)) /\ ChainCost(s) = f[Len(s)]
  BY <1>1, ChainCostIs
<1>3. /\ Len(s) \in Nat
      /\ \A k \in 1 .. Len(s) : s[k] \in Conversions /\ Costs(s)[k] \in Nat /\ Costs(s)[k] \in Int /\ Costs(s)[k] = s[k].cost
  BY <1>1, EdgeCosts
<1>4. /\ f[0] = 0 /\ \A k \in 1 .. Len(s) : f[k] = f[k - 1] + s[k].cost
      /\ \A k \in 0 .. Len(s) : f[k] \in Nat /\ f[k] <= f[Len(s)]
  <2>1. f[0] = 0 /\ \A k \in 1 .. Len(s) : f[k] = f[k - 1] + Costs(s)[k]
    BY <1>2, <1>3, SumFacts, SMTT(30)
  <2>2. \A k \in 0 .. Len(s) : f[k] \in Nat
    BY <1>2, <1>3, SumIsNat
  <2>3. ASSUME NEW k \in 0 .. Len(s)
        PROVE  f[k] <= f[Len(s)]
    <3>1. k <= Len(s) /\ Len(s) \in 0 .. Len(s)
      BY <1>3
    <3> QED
      BY <1>2, <1>3, <3>1, SumGrows
  <2> QED
    BY <1>3, <2>1, <2>2, <2>3
<1>5. /\ \A u \in DOMAIN st.best : st.best[u] \in Nat
      /\ \A j \in DOMAIN st.open : st.open[j].cost \in Nat
  BY <1>1, StateFacts
<1> DEFINE T == {k \in 0 .. Len(s) : At(s, from, k) \in X /\ st.best[At(s, from, k)] <= Capped(f[k])}
<1>6. ASSUME NEW u \in DOMAIN st.best, NEW k \in 0 .. Len(s), st.best[u] <= Capped(f[k])
      PROVE  u \in X
  <2> SUFFICES ASSUME u \notin X PROVE FALSE
    OBVIOUS
  <2>1. PICK j \in DOMAIN st.open : st.open[j].cost = st.best[u]
    BY DEF Searching
  <2>2. PICK x, y, z : x = st.best[u] /\ y = Capped(f[k]) /\ z = Capped(f[Len(s)])
    OBVIOUS
  <2>3. m <= x /\ x <= y /\ z < m /\ x \in Nat
    BY <1>2, <1>5, <1>6, <2>1, <2>2
  <2>4. y \in Nat /\ z \in Nat /\ y <= z
    <3>1. PICK a, b : a = f[k] /\ b = f[Len(s)]
      OBVIOUS
    <3>2. a \in Nat /\ b \in Nat /\ a <= b
      <4>1. Len(s) \in 0 .. Len(s)
        BY <1>3
      <4> QED
        BY <1>4, <3>1, <4>1
    <3>3. Capped(a) \in Nat /\ Capped(b) \in Nat /\ Capped(a) <= Capped(b)
      BY <3>2, CappedFacts
    <3> QED
      BY <2>2, <3>1, <3>3
  <2> QED
    BY <2>3, <2>4
<1>7. 0 \in T
  <2>1. At(s, from, 0) = from /\ from \in DOMAIN st.best /\ st.best[from] = 0 /\ 0 \in 0 .. Len(s)
    BY <1>3 DEF At, Searching
  <2>2. 0 <= Capped(f[0])
    <3>1. 0 \in Nat
      OBVIOUS
    <3>2. Capped(0) \in Nat
      BY <3>1, CappedFacts
    <3> QED
      BY <1>4, <3>2
  <2> QED
    BY <1>6, <2>1, <2>2
<1>8. ASSUME NEW k \in T, k < Len(s)
      PROVE  k + 1 \in T
  <2>1. k + 1 \in 1 .. Len(s) /\ k + 1 \in 0 .. Len(s) /\ k \in 0 .. Len(s) /\ (k + 1) - 1 = k
    BY <1>3, <1>8
  <2> PICK l : l = k + 1
    OBVIOUS
  <2>2. PICK i \in DOMAIN es : s[l] = es[i]
    BY <2>1 DEF ChainOf
  <2>3. es[i].from = At(s, from, k) /\ At(s, from, l) = es[i].to
    <3>1. s[l].from = At(s, from, l - 1)
      BY <2>1 DEF ChainOf
    <3>2. l # 0
      BY <2>1
    <3> QED
      BY <2>1, <2>2, <3>1, <3>2 DEF At
  <2>4. i \in Followed(es, X) /\ es[i].from \in X
    BY <2>3 DEF Followed
  <2>5. es[i].to \in DOMAIN st.best /\ st.best[es[i].to] <= Capped(st.best[es[i].from] + es[i].cost)
    BY <2>4 DEF Searching
  <2>6. PICK x, a, c : x = st.best[es[i].from] /\ a = f[k] /\ c = es[i].cost
    OBVIOUS
  <2>7. x \in Nat /\ a \in Nat /\ c \in Nat /\ x <= Capped(a) /\ f[l] = a + c
    <3>1. x \in Nat
      <4>1. X \subseteq DOMAIN st.best
        BY DEF Searching
      <4> QED
        BY <1>5, <2>4, <2>6, <4>1
    <3>2. a \in Nat /\ f[l] = a + s[l].cost
      BY <1>4, <2>1, <2>6
    <3>3. x <= Capped(a)
      BY <2>3, <2>6
    <3> QED
      BY <2>2, <2>6, <3>1, <3>2, <3>3, EdgeOf
  <2>8. st.best[es[i].to] <= Capped(f[l])
    <3>1. Capped(x + c) <= Capped(a + c)
      BY <2>7, CappedSum
    <3>2. Capped(x + c) \in Nat /\ Capped(a + c) \in Nat
      <4>1. x + c \in Nat /\ a + c \in Nat
        BY <2>7
      <4> QED
        BY <4>1, CappedFacts
    <3>3. st.best[es[i].to] <= Capped(x + c) /\ st.best[es[i].to] \in Nat
      BY <1>5, <2>5, <2>6
    <3>4. PICK y, z, w : y = st.best[es[i].to] /\ z = Capped(x + c) /\ w = Capped(a + c)
      OBVIOUS
    <3>5. y <= w
      BY <3>1, <3>2, <3>3, <3>4
    <3> QED
      BY <2>7, <3>4, <3>5
  <2>9. es[i].to \in X
    BY <1>6, <2>1, <2>5, <2>8
  <2> QED
    BY <2>1, <2>3, <2>8, <2>9
<1>9. 0 .. Len(s) \subseteq T
  <2>1. T \in SUBSET Nat
    BY <1>3
  <2> HIDE DEF T
  <2> QED
    BY <1>3, <1>7, <1>8, <2>1, InductionUpTo
<1>10. Len(s) \in T
  <2>1. Len(s) \in 0 .. Len(s)
    BY <1>3
  <2> HIDE DEF T
  <2> QED
    BY <1>9, <2>1
<1> QED
  BY <1>10 DEF ChainOf

\* All the edges out of the node that is expanded.
LEMMA ExpandStep ==
  ASSUME NEW es \in Seq(Conversions), NEW from, NEW to, NEW cur, NEW st, NEW X, NEW n \in Nat, NEW m \in Int,
         Expanding(es, from, to, cur, st, X, Followed(es, X \ {cur.t}), n),
         m + Len(st.open) <= Cardinality(Followed(es, X \ {cur.t})),
         NEW r, r = Expand(es, cur, st)
  PROVE  /\ Searching(es, from, to, r, X, Followed(es, X), n)
         /\ m + Len(r.open) <= Cardinality(Followed(es, X))
<1> DEFINE A == Followed(es, X \ {cur.t})
           E(k) == A \union {i \in 1 .. k : es[i].from = cur.t}
<1>1. DOMAIN es = 1 .. Len(es) /\ Len(es) \in Nat
  OBVIOUS
<1>2. PICK f : /\ f[0] = st /\ r = f[Len(es)]
               /\ \A k \in 1 .. Len(es) : f[k] = OneEdge(es, cur, k, f[k - 1])
  <2>1. st \in States(es, from) /\ cur \in Nodes(es, from)
    BY DEF Expanding, Searching
  <2> QED
    BY <2>1, ExpandIs
<1>3. \A k \in 0 .. Len(es) : E(k) \subseteq DOMAIN es /\ IsFiniteSet(E(k)) /\ Cardinality(E(k)) \in Nat
  <2>1. \A k \in 0 .. Len(es) : E(k) \subseteq 1 .. Len(es)
    BY <1>1 DEF Followed
  <2>2. IsFiniteSet(1 .. Len(es))
    <3>1. 1 \in Int /\ Len(es) \in Int
      BY <1>1
    <3> QED
      BY <3>1, FS_Interval
  <2> HIDE DEF E
  <2>3. ASSUME NEW k \in 0 .. Len(es)
        PROVE  IsFiniteSet(E(k))
    <3>1. E(k) \in SUBSET (1 .. Len(es))
      BY <2>1
    <3> QED
      BY <2>2, <3>1, FS_Subset
  <2> QED
    BY <1>1, <2>1, <2>3, FS_CardinalityType
<1> DEFINE P(k) == Expanding(es, from, to, cur, f[k], X, E(k), n) /\ m + Len(f[k].open) <= Cardinality(E(k))
           T == {k \in 0 .. Len(es) : P(k)}
<1>4. 0 \in T
  <2>1. E(0) = A
    OBVIOUS
  <2>2. 0 \in 0 .. Len(es)
    BY <1>1
  <2>3. P(0)
    BY <1>2, <2>1
  <2> HIDE DEF P
  <2> QED
    BY <2>2, <2>3
<1>5. ASSUME NEW k \in T, k < Len(es)
      PROVE  k + 1 \in T
  <2>1. k + 1 \in 1 .. Len(es) /\ k + 1 \in 0 .. Len(es) /\ (k + 1) - 1 = k /\ k \in 0 .. Len(es)
    BY <1>1, <1>5
  <2>2. P(k)
    OBVIOUS
  <2> PICK l : l = k + 1
    OBVIOUS
  <2>3. f[l] = OneEdge(es, cur, l, f[k])
    BY <1>2, <2>1
  <2>4. CASE es[l].from = cur.t
    <3>1. E(l) = E(k) \union {l}
      BY <2>1, <2>4
    <3>2. l \notin E(k)
      BY <2>1, <2>4 DEF Followed
    <3>3. f[l] = Relax(cur, f[k], es[l])
      BY <2>3, <2>4 DEF OneEdge
    <3>4. /\ Expanding(es, from, to, cur, f[l], X, E(k) \union {l}, n)
          /\ Len(f[l].open) <= Len(f[k].open) + 1 /\ Len(f[l].open) \in Nat
      <4>1. PICK F, a, b : F = E(k) /\ a = f[k] /\ b = f[l]
        OBVIOUS
      <4>2. Expanding(es, from, to, cur, a, X, F, n) /\ b = Relax(cur, a, es[l]) /\ l \in DOMAIN es
        BY <1>1, <2>1, <2>2, <3>3, <4>1
      <4>3. /\ Expanding(es, from, to, cur, b, X, F \union {l}, n)
            /\ Len(b.open) <= Len(a.open) + 1 /\ Len(b.open) \in Nat
        <5> HIDE DEF E, P, T
        <5> QED
          BY <2>4, <4>2, RelaxStep
      <4> QED
        BY <4>1, <4>3
    <3>5. Cardinality(E(l)) = Cardinality(E(k)) + 1
      <4>1. PICK F : F = E(k)
        OBVIOUS
      <4>2. IsFiniteSet(F) /\ l \notin F
        BY <1>3, <2>1, <3>2, <4>1
      <4>3. Cardinality(F \union {l}) = Cardinality(F) + 1
        BY <4>2, FS_AddElement
      <4> QED
        BY <3>1, <4>1, <4>3
    <3>6. m + Len(f[l].open) <= Cardinality(E(l))
      <4>1. PICK x, y, c, d : x = Len(f[k].open) /\ y = Len(f[l].open) /\ c = Cardinality(E(k)) /\ d = Cardinality(E(l))
        OBVIOUS
      <4>2. m + x <= c /\ y <= x + 1 /\ d = c + 1 /\ y \in Nat /\ c \in Nat
        BY <1>3, <2>1, <2>2, <3>4, <3>5, <4>1
      <4>3. x \in Nat
        <5>1. f[k] \in States(es, from)
          BY <2>2 DEF Expanding, Searching
        <5> QED
          BY <4>1, <5>1, StateFacts
      <4>4. m + y <= d
        BY <4>2, <4>3
      <4> QED
        BY <4>1, <4>4
    <3>7. P(l)
      BY <3>1, <3>4, <3>6
    <3> HIDE DEF P
    <3> QED
      BY <2>1, <3>7
  <2>5. CASE es[l].from # cur.t
    <3>1. E(l) = E(k)
      BY <2>1, <2>5
    <3>2. f[l] = f[k]
      BY <2>3, <2>5 DEF OneEdge
    <3>3. P(l)
      BY <2>2, <3>1, <3>2
    <3> HIDE DEF P
    <3> QED
      BY <2>1, <3>3
  <2> QED
    BY <2>4, <2>5
<1>6. 0 .. Len(es) \subseteq T
  <2>1. T \in SUBSET Nat
    BY <1>1
  <2> HIDE DEF T
  <2> QED
    BY <1>1, <1>4, <1>5, <2>1, InductionUpTo
<1>7. P(Len(es))
  <2>1. Len(es) \in 0 .. Len(es)
    BY <1>1
  <2> HIDE DEF P
  <2> QED
    BY <1>6, <2>1
<1>8. E(Len(es)) = Followed(es, X)
  <2>1. cur.t \in X
    BY DEF Expanding
  <2> QED
    BY <1>1, <2>1 DEF Followed
<1> QED
  BY <1>2, <1>7, <1>8 DEF Expanding

\* What the search answers: a chain, and none is cheaper.
Answered(es, from, to, p) ==
  /\ p.found /\ ChainOf(es, p.path, from, to) /\ Len(p.path) <= Len(es)
  /\ p.cost = Capped(ChainCost(p.path)) /\ p.overflow = (p.cost > MaxCost)
  /\ \A s : ChainOf(es, s, from, to) => p.cost <= Capped(ChainCost(s))

\* After n turns: there is an answer, or the search goes on.
Loop(es, from, to, st, n) ==
  \/ Answered(es, from, to, st.answer)
  \/ \E X : /\ Searching(es, from, to, st, X, Followed(es, X), n)
            /\ st.open = <<>> \/ n + Len(st.open) <= 1 + Cardinality(Followed(es, X))

\* Nothing is expanded before the first turn.
LEMMA LoopStarts ==
  ASSUME NEW es \in Seq(Conversions), NEW from, NEW to
  PROVE  Loop(es, from, to, StartSearch(from), 0)
<1> PICK st, o : /\ st = StartSearch(from) /\ o = [t |-> from, cost |-> 0, path |-> <<>>]
  OBVIOUS
<1>1. /\ st \in States(es, from) /\ st.open = <<o>> /\ DOMAIN st.best = {from} /\ st.best[from] = 0
      /\ ~st.answer.found
  <2>1. st = [open |-> <<o>>, best |-> [t \in {from} |-> 0], answer |-> NoPath]
    BY StartType, Zenon
  <2>2. st.open = <<o>> /\ st.best = [t \in {from} |-> 0] /\ st.answer = NoPath
    BY <2>1
  <2>3. ~NoPath.found
    BY DEF NoPath
  <2> QED
    BY <2>2, <2>3, StartType
<1>2. Len(st.open) = 1 /\ DOMAIN st.open = {1} /\ st.open[1] = o
  BY <1>1
<1>3. Followed(es, {}) = {}
  BY DEF Followed
<1>4. NodeOK(es, from, st, {}, 0, o)
  <2>1. Len(<<>>) = 0 /\ <<>> \in Seq(Conversions) /\ 0 \in Nat
    OBVIOUS
  <2>2. ChainCost(<<>>) = 0
    BY <2>1, ChainCostFacts
  <2>3. Capped(0) = 0
    BY MaxCostAssumption DEF Capped
  <2> QED
    BY <1>1, <2>1, <2>2, <2>3, NoEdges DEF NodeOK
<1>5. Searching(es, from, to, st, {}, {}, 0)
  BY <1>1, <1>2, <1>4 DEF Searching
<1>6. 0 + Len(st.open) <= 1 + Cardinality(Followed(es, {}))
  <2>1. Cardinality(Followed(es, {})) = 0
    BY <1>3, FS_EmptySet
  <2> QED
    BY <1>2, <2>1
<1> QED
  BY <1>3, <1>5, <1>6 DEF Loop

\* A node that costs more than its type is known to is dropped.
LEMMA DropStale ==
  ASSUME NEW es, NEW from, NEW to, NEW st, NEW X, NEW E, NEW n \in Nat,
         Searching(es, from, to, st, X, E, n), st.open # <<>>,
         NEW k, k = CheapestOpen(st.open), NEW r, r = [st EXCEPT !.open = RemoveAt(@, k)],
         st.open[k].cost # st.best[st.open[k].t]
  PROVE  Searching(es, from, to, r, X, E, n + 1)
<1>1. st \in States(es, from)
  BY DEF Searching
<1>2. /\ k \in DOMAIN st.open
      /\ r \in States(es, from) /\ r.best = st.best /\ r.answer = st.answer
      /\ Removed(st, k, r)
  BY <1>1, TurnFacts
<1>3. DOMAIN r.open \subseteq Nat /\ k \in Nat
  <2>1. DOMAIN r.open = 1 .. Len(r.open) /\ DOMAIN st.open = 1 .. Len(st.open)
    BY <1>1, <1>2, StateFacts
  <2> QED
    BY <1>2, <2>1
<1>4. \A j \in DOMAIN r.open : NodeOK(es, from, r, X, n + 1, r.open[j])
  <2>1. ASSUME NEW j \in DOMAIN r.open
        PROVE  NodeOK(es, from, r, X, n + 1, r.open[j])
    <3>1. PICK o, l : o = r.open[j] /\ l \in DOMAIN st.open /\ o = st.open[l]
      BY <1>2 DEF Removed
    <3>2. NodeOK(es, from, st, X, n, o)
      BY <3>1 DEF Searching
    <3>3. Len(o.path) <= n + 1
      <4>1. o.path \in Seq(Conversions) /\ Len(o.path) <= n
        BY <3>2 DEF ChainOf, NodeOK
      <4>2. Len(o.path) \in Nat
        BY <4>1
      <4> QED
        BY <4>1, <4>2
    <3> QED
      BY <1>2, <3>1, <3>2, <3>3 DEF NodeOK
  <2> QED
    BY <2>1
<1>5. ASSUME NEW j \in DOMAIN r.open, NEW l \in DOMAIN r.open,
             r.open[j].t = r.open[l].t, r.open[j].cost = r.open[l].cost
      PROVE  j = l
  <2>1. \A j1, l1 \in DOMAIN st.open : st.open[j1].t = st.open[l1].t /\ st.open[j1].cost = st.open[l1].cost => j1 = l1
    BY DEF Searching
  <2>2. PICK j1 \in DOMAIN st.open : r.open[j] = st.open[j1] /\ ((j < k /\ j1 = j) \/ (j >= k /\ j1 = j + 1))
    BY <1>2 DEF Removed
  <2>3. PICK l1 \in DOMAIN st.open : r.open[l] = st.open[l1] /\ ((l < k /\ l1 = l) \/ (l >= k /\ l1 = l + 1))
    BY <1>2 DEF Removed
  <2>4. j1 = l1
    BY <1>5, <2>1, <2>2, <2>3
  <2>5. j \in Nat /\ l \in Nat
    BY <1>3
  <2> QED
    BY <1>3, <2>2, <2>3, <2>4, <2>5
<1>6. \A t \in DOMAIN r.best : t \in X \/ \E j \in DOMAIN r.open : r.open[j].t = t /\ r.open[j].cost = r.best[t]
  <2>1. ASSUME NEW t \in DOMAIN st.best, t \notin X
        PROVE  \E l \in DOMAIN r.open : r.open[l].t = t /\ r.open[l].cost = r.best[t]
    <3>1. PICK j \in DOMAIN st.open : st.open[j].t = t /\ st.open[j].cost = st.best[t]
      BY <2>1 DEF Searching
    <3>2. j # k
      BY <3>1
    <3> QED
      BY <1>2, <3>1, <3>2 DEF Removed
  <2> QED
    BY <1>2, <2>1
<1> QED
  BY <1>2, <1>4, <1>5, <1>6 DEF Searching

\* A node that is not stale is taken out, and its type becomes an expanded one.
LEMMA TakeNode ==
  ASSUME NEW es \in Seq(Conversions), NEW from, NEW to, NEW st, NEW X, NEW n \in Nat,
         Searching(es, from, to, st, X, Followed(es, X), n), st.open # <<>>,
         NEW k, k = CheapestOpen(st.open), NEW cur, cur = st.open[k],
         NEW r, r = [st EXCEPT !.open = RemoveAt(@, k)],
         cur.cost = st.best[cur.t], cur.t # to
  PROVE  Expanding(es, from, to, cur, r, X \union {cur.t}, Followed(es, X), n + 1)
<1>1. st \in States(es, from)
  BY DEF Searching
<1>2. /\ k \in DOMAIN st.open /\ cur \in Nodes(es, from)
      /\ r \in States(es, from) /\ r.best = st.best /\ r.answer = st.answer
      /\ \A j \in DOMAIN st.open : cur.cost <= st.open[j].cost
      /\ Removed(st, k, r)
  BY <1>1, TurnFacts
<1>3. DOMAIN r.open \subseteq Nat /\ k \in Nat
  <2>1. DOMAIN r.open = 1 .. Len(r.open) /\ DOMAIN st.open = 1 .. Len(st.open)
    BY <1>1, <1>2, StateFacts
  <2> QED
    BY <1>2, <2>1
<1>4. NodeOK(es, from, st, X, n, cur)
  BY <1>2 DEF Searching
<1>5. cur.t \notin X /\ cur.t \in DOMAIN st.best
  BY <1>4 DEF NodeOK
<1> PICK Y : Y = X \union {cur.t}
  OBVIOUS
<1>6. \A j \in DOMAIN r.open : \E l \in DOMAIN st.open : l # k /\ r.open[j] = st.open[l]
  <2>1. ASSUME NEW j \in DOMAIN r.open
        PROVE  \E l \in DOMAIN st.open : l # k /\ r.open[j] = st.open[l]
    <3>1. j \in Nat /\ k \in Nat
      BY <1>3
    <3>2. CASE j < k /\ j \in DOMAIN st.open /\ r.open[j] = st.open[j]
      <4>1. j # k
        BY <3>1, <3>2
      <4> QED
        BY <3>2, <4>1
    <3>3. CASE j >= k /\ j + 1 \in DOMAIN st.open /\ r.open[j] = st.open[j + 1]
      <4>1. j + 1 # k
        BY <3>1, <3>3
      <4> QED
        BY <3>3, <4>1
    <3> QED
      BY <1>2, <3>2, <3>3 DEF Removed
  <2> QED
    BY <2>1
<1>7. \A j1, l1 \in DOMAIN st.open : st.open[j1].t = st.open[l1].t /\ st.open[j1].cost = st.open[l1].cost => j1 = l1
  BY DEF Searching
<1>8. \A j \in DOMAIN r.open : NodeOK(es, from, r, Y, n + 1, r.open[j]) /\ cur.cost <= r.open[j].cost
  <2>1. ASSUME NEW j \in DOMAIN r.open
        PROVE  NodeOK(es, from, r, Y, n + 1, r.open[j]) /\ cur.cost <= r.open[j].cost
    <3>1. PICK l \in DOMAIN st.open : l # k /\ r.open[j] = st.open[l]
      BY <1>6
    <3>2. PICK o : o = st.open[l]
      OBVIOUS
    <3>3. NodeOK(es, from, st, X, n, o) /\ cur.cost <= o.cost
      BY <1>2, <3>1, <3>2 DEF Searching
    <3>4. Len(o.path) <= n + 1
      <4>1. o.path \in Seq(Conversions) /\ Len(o.path) <= n
        BY <3>3 DEF ChainOf, NodeOK
      <4>2. Len(o.path) \in Nat
        BY <4>1
      <4> QED
        BY <4>1, <4>2
    <3>5. \A x \in Y : r.best[x] <= o.cost
      BY <1>2, <3>3 DEF NodeOK
    <3>6. o.t \in Y => o.cost # r.best[o.t]
      <4>1. ASSUME o.t = cur.t, o.cost = cur.cost PROVE FALSE
        BY <1>2, <1>7, <3>1, <3>2, <4>1
      <4> QED
        BY <1>2, <3>3, <4>1 DEF NodeOK
    <3>7. NodeOK(es, from, r, Y, n + 1, o)
      BY <1>2, <3>3, <3>4, <3>5, <3>6 DEF NodeOK
    <3> QED
      BY <3>1, <3>2, <3>3, <3>7
  <2> QED
    BY <2>1
<1>9. ASSUME NEW j \in DOMAIN r.open, NEW l \in DOMAIN r.open,
             r.open[j].t = r.open[l].t, r.open[j].cost = r.open[l].cost
      PROVE  j = l
  <2>1. PICK j1 \in DOMAIN st.open : r.open[j] = st.open[j1] /\ ((j < k /\ j1 = j) \/ (j >= k /\ j1 = j + 1))
    BY <1>2 DEF Removed
  <2>2. PICK l1 \in DOMAIN st.open : r.open[l] = st.open[l1] /\ ((l < k /\ l1 = l) \/ (l >= k /\ l1 = l + 1))
    BY <1>2 DEF Removed
  <2>3. j1 = l1
    BY <1>7, <1>9, <2>1, <2>2
  <2>4. j \in Nat /\ l \in Nat
    BY <1>3
  <2> QED
    BY <1>3, <2>1, <2>2, <2>3, <2>4
<1>10. \A t \in DOMAIN r.best : t \in Y \/ \E j \in DOMAIN r.open : r.open[j].t = t /\ r.open[j].cost = r.best[t]
  <2>1. ASSUME NEW t \in DOMAIN st.best, t \notin Y
        PROVE  \E l \in DOMAIN r.open : r.open[l].t = t /\ r.open[l].cost = r.best[t]
    <3>1. PICK j \in DOMAIN st.open : st.open[j].t = t /\ st.open[j].cost = st.best[t]
      BY <2>1 DEF Searching
    <3>2. j # k
      BY <2>1, <3>1
    <3> QED
      BY <1>2, <3>1, <3>2 DEF Removed
  <2> QED
    BY <1>2, <2>1
<1>11. /\ ~r.answer.found /\ Y \subseteq DOMAIN r.best /\ to \notin Y
       /\ from \in DOMAIN r.best /\ r.best[from] = 0 /\ Followed(es, X) \subseteq DOMAIN es
  BY <1>2, <1>5 DEF Searching
<1>12. \A i \in Followed(es, X) : /\ es[i].from \in Y /\ es[i].to \in DOMAIN r.best
                                  /\ r.best[es[i].to] <= Capped(r.best[es[i].from] + es[i].cost)
  BY <1>2 DEF Searching
<1>13. Searching(es, from, to, r, Y, Followed(es, X), n + 1)
  BY <1>2, <1>8, <1>9, <1>10, <1>11, <1>12 DEF Searching
<1>14. \A x \in Y : r.best[x] <= cur.cost
  <2>1. \A x \in X : st.best[x] <= cur.cost
    BY <1>4 DEF NodeOK
  <2>2. cur.cost <= cur.cost
    BY <1>2 DEF Nodes
  <2> QED
    BY <1>2, <2>1, <2>2
<1>15. ChainOf(es, cur.path, from, cur.t) /\ Len(cur.path) < n + 1 /\ cur.cost = Capped(ChainCost(cur.path))
  <2>1. cur.path \in Seq(Conversions) /\ Len(cur.path) <= n
    BY <1>4 DEF ChainOf, NodeOK
  <2>2. Len(cur.path) \in Nat
    BY <2>1
  <2> QED
    BY <1>4, <2>1, <2>2 DEF NodeOK
<1>16. Expanding(es, from, to, cur, r, Y, Followed(es, X), n + 1)
  <2>1. cur.t \in Y /\ r.best[cur.t] = cur.cost
    BY <1>2
  <2> QED
    BY <1>2, <1>8, <1>13, <1>14, <1>15, <2>1 DEF Expanding
<1> QED
  BY <1>16

\* There are no more edges out of X than edges.
LEMMA FollowedFinite ==
  ASSUME NEW es \in Seq(Conversions), NEW X
  PROVE  Cardinality(Followed(es, X)) \in Nat /\ Cardinality(Followed(es, X)) <= Len(es)
<1>1. DOMAIN es = 1 .. Len(es) /\ Len(es) \in Nat /\ 1 \in Int /\ Len(es) \in Int
  OBVIOUS
<1>2. IsFiniteSet(1 .. Len(es)) /\ Cardinality(1 .. Len(es)) = Len(es)
  <2>1. IsFiniteSet(1 .. Len(es)) /\ Cardinality(1 .. Len(es)) = IF 1 > Len(es) THEN 0 ELSE Len(es) - 1 + 1
    BY <1>1, FS_Interval
  <2> QED
    BY <1>1, <2>1
<1>3. Followed(es, X) \in SUBSET (1 .. Len(es))
  BY <1>1 DEF Followed
<1>4. IsFiniteSet(Followed(es, X)) /\ Cardinality(Followed(es, X)) <= Cardinality(1 .. Len(es))
  BY <1>2, <1>3, FS_Subset
<1> QED
  BY <1>2, <1>4, FS_CardinalityType

\* One turn of the loop.
LEMMA VisitStep ==
  ASSUME NEW es \in Seq(Conversions), NEW from, NEW to, NEW st, NEW n \in 0 .. Len(es), Loop(es, from, to, st, n)
  PROVE  Loop(es, from, to, Visit(es, to, st), n + 1)
<1>1. n \in Nat /\ n <= Len(es) /\ Len(es) \in Nat
  OBVIOUS
<1>2. CASE Answered(es, from, to, st.answer)
  <2>1. Visit(es, to, st) = st
    BY <1>2 DEF Answered, Visit
  <2> QED
    BY <1>2, <2>1 DEF Loop
<1>3. ASSUME NEW X, Searching(es, from, to, st, X, Followed(es, X), n),
             st.open = <<>> \/ n + Len(st.open) <= 1 + Cardinality(Followed(es, X))
      PROVE  Loop(es, from, to, Visit(es, to, st), n + 1)
  <2>1. st \in States(es, from) /\ ~st.answer.found
    BY <1>3 DEF Searching
  <2>2. CASE st.open = <<>>
    <3>1. Visit(es, to, st) = st
      BY <2>2 DEF Visit
    <3>2. Searching(es, from, to, st, X, Followed(es, X), n + 1)
      <4>1. \A j \in DOMAIN st.open : FALSE
        BY <2>2
      <4> QED
        BY <1>3, <4>1 DEF Searching
    <3> QED
      BY <2>2, <3>1, <3>2 DEF Loop
  <2>3. CASE st.open # <<>>
    <3> PICK k, cur, r : k = CheapestOpen(st.open) /\ cur = st.open[k] /\ r = [st EXCEPT !.open = RemoveAt(@, k)]
      OBVIOUS
    <3>1. Visit(es, to, st) = Take(es, to, cur, r)
      BY <2>1, <2>3 DEF Visit, TakeAt
    <3>2. /\ k \in DOMAIN st.open /\ cur \in Nodes(es, from)
          /\ r \in States(es, from) /\ r.best = st.best /\ r.answer = st.answer
          /\ Len(r.open) = Len(st.open) - 1
          /\ \A j \in DOMAIN st.open : cur.cost <= st.open[j].cost
      <4>1. /\ k \in DOMAIN st.open /\ st.open[k] \in Nodes(es, from)
            /\ r \in States(es, from) /\ r.best = st.best /\ r.answer = st.answer
        BY <2>1, <2>3, TurnFacts
      <4>3. Len(r.open) = Len(st.open) - 1
        <5>1. Removed(st, k, r)
          BY <2>1, <2>3, TurnFacts
        <5> QED
          BY <5>1 DEF Removed
      <4>2. \A j \in DOMAIN st.open : st.open[k].cost <= st.open[j].cost
        BY <2>1, <2>3, TurnFacts, Zenon
      <4> QED
        BY <4>1, <4>2, <4>3
    <3>3. Len(st.open) \in Nat
      BY <2>1, StateFacts
    <3>4. NodeOK(es, from, st, X, n, cur)
      BY <1>3, <3>2 DEF Searching
    <3>5. CASE cur.cost # st.best[cur.t]
      <4>1. Visit(es, to, st) = r
        BY <3>1, <3>2, <3>5 DEF Take
      <4>2. Searching(es, from, to, r, X, Followed(es, X), n + 1)
        BY <1>1, <1>3, <2>3, <3>5, DropStale
      <4>3. (n + 1) + Len(r.open) <= 1 + Cardinality(Followed(es, X))
        <5>1. PICK c, a, b : c = Cardinality(Followed(es, X)) /\ a = Len(st.open) /\ b = Len(r.open)
          OBVIOUS
        <5>2. c \in Nat /\ a \in Nat /\ b = a - 1 /\ n + a <= 1 + c
          BY <1>3, <2>3, <3>2, <3>3, <5>1, FollowedFinite
        <5>3. (n + 1) + b <= 1 + c
          BY <1>1, <5>2
        <5> QED
          BY <5>1, <5>3
      <4> QED
        BY <4>1, <4>2, <4>3 DEF Loop
    <3>6. CASE cur.cost = st.best[cur.t] /\ cur.t = to
      <4> PICK p : p = [found |-> TRUE, cost |-> cur.cost, path |-> cur.path, overflow |-> cur.cost > MaxCost]
        OBVIOUS
      <4>1. Visit(es, to, st).answer = p
        <5>1. Visit(es, to, st) = [r EXCEPT !.answer = p]
          BY <3>1, <3>2, <3>6 DEF Take
        <5>2. r = [open |-> r.open, best |-> r.best, answer |-> r.answer]
          BY <3>2 DEF States
        <5> QED
          BY <5>1, <5>2
      <4>2. p.found /\ p.cost = cur.cost /\ p.path = cur.path /\ p.overflow = (p.cost > MaxCost)
        OBVIOUS
      <4>3. Len(cur.path) <= Len(es)
        <5>1. cur.path \in Seq(Conversions) /\ Len(cur.path) <= n
          BY <3>4 DEF ChainOf, NodeOK
        <5>2. Len(cur.path) \in Nat
          BY <5>1
        <5> QED
          BY <1>1, <5>1, <5>2
      <4>4. ASSUME NEW s, ChainOf(es, s, from, to)
            PROVE  cur.cost <= Capped(ChainCost(s))
        <5> SUFFICES ASSUME ~(cur.cost <= Capped(ChainCost(s))) PROVE FALSE
          OBVIOUS
        <5>1. cur.cost \in Nat
          BY <3>2 DEF Nodes
        <5>2. Capped(ChainCost(s)) \in Nat
          <6>1. s \in Seq(Conversions)
            BY <4>4 DEF ChainOf
          <6>2. ChainCost(s) \in Nat
            BY <6>1, ChainCostFacts
          <6> QED
            BY <6>2, CappedFacts
        <5>3. PICK m, c : m = cur.cost /\ c = Capped(ChainCost(s))
          OBVIOUS
        <5>4. m \in Nat /\ c < m /\ Capped(ChainCost(s)) < m
          BY <5>1, <5>2, <5>3
        <5>5. \A j \in DOMAIN st.open : m <= st.open[j].cost
          BY <3>2, <5>3
        <5>6. to \in X
          BY <1>3, <4>4, <5>4, <5>5, Frontier
        <5> QED
          BY <1>3, <5>6 DEF Searching
      <4>5. Answered(es, from, to, p)
        BY <3>4, <3>6, <4>2, <4>3, <4>4 DEF Answered, NodeOK
      <4> QED
        BY <4>1, <4>5 DEF Loop
    <3>7. CASE cur.cost = st.best[cur.t] /\ cur.t # to
      <4> PICK Y, A : Y = X \union {cur.t} /\ A = Followed(es, X)
        OBVIOUS
      <4>1. Visit(es, to, st) = Expand(es, cur, r)
        BY <3>1, <3>2, <3>7 DEF Take
      <4>2. cur.t \notin X /\ Expanding(es, from, to, cur, r, Y, A, n + 1)
        <5>1. cur.t \notin X /\ Expanding(es, from, to, cur, r, X \union {cur.t}, Followed(es, X), n + 1)
          <6>1. cur.cost = st.best[cur.t] /\ cur.t # to
            BY <3>7
          <6>2. cur.t \notin X
            BY <3>4, <6>1 DEF NodeOK
          <6>3. Expanding(es, from, to, cur, r, X \union {cur.t}, Followed(es, X), n + 1)
            BY <1>1, <1>3, <2>3, <6>1, TakeNode
          <6> QED
            BY <6>2, <6>3
        <5> QED
          BY <5>1
      <4>3. A = Followed(es, Y \ {cur.t})
        <5>1. X = Y \ {cur.t}
          BY <4>2
        <5> QED
          BY <5>1
      <4>4. PICK m, l, x : m = n /\ l = n + 1 /\ x = Expand(es, cur, r)
        OBVIOUS
      <4>5. m \in Int /\ l \in Nat /\ l = m + 1
        BY <1>1, <4>4
      <4>6. m + Len(r.open) <= Cardinality(Followed(es, Y \ {cur.t}))
        <5>1. PICK c, a, b : c = Cardinality(A) /\ a = Len(st.open) /\ b = Len(r.open)
          OBVIOUS
        <5>2. c \in Nat /\ a \in Nat /\ b = a - 1 /\ n + a <= 1 + c
          BY <1>3, <2>3, <3>2, <3>3, <5>1, FollowedFinite
        <5>3. m + b <= c
          BY <1>1, <4>4, <5>2
        <5> QED
          BY <4>3, <5>1, <5>3
      <4>7. /\ Searching(es, from, to, x, Y, Followed(es, Y), l)
            /\ m + Len(x.open) <= Cardinality(Followed(es, Y))
        <5>1. Expanding(es, from, to, cur, r, Y, Followed(es, Y \ {cur.t}), l)
          BY <4>2, <4>3, <4>4
        <5> QED
          BY <4>4, <4>5, <4>6, <5>1, ExpandStep
      <4>8. l + Len(x.open) <= 1 + Cardinality(Followed(es, Y))
        <5>1. PICK c, a : c = Cardinality(Followed(es, Y)) /\ a = Len(x.open)
          OBVIOUS
        <5>2. c \in Nat /\ a \in Nat /\ m + a <= c
          <6>1. x \in States(es, from)
            BY <4>7 DEF Searching
          <6> QED
            BY <4>7, <5>1, <6>1, FollowedFinite, StateFacts
        <5>3. l + a <= 1 + c
          BY <4>5, <5>2
        <5> QED
          BY <5>1, <5>3
      <4> QED
        BY <4>1, <4>4, <4>7, <4>8 DEF Loop
    <3> QED
      BY <3>5, <3>6, <3>7
  <2> QED
    BY <2>2, <2>3
<1> QED
  BY <1>2, <1>3 DEF Loop

\* The search finds the cheapest chain, and none only if there is none.
LEMMA PathIs ==
  ASSUME NEW es \in Seq(Conversions), NEW from, NEW to
  PROVE  \/ Answered(es, from, to, FindConversionPath(es, from, to))
         \/ ~FindConversionPath(es, from, to).found /\ \A s : ~ChainOf(es, s, from, to)
<1> PICK f : Turns(f, es, from, to)
  BY SearchIs
<1>1. /\ f[0] = StartSearch(from) /\ Search(es, from, to) = f[Len(es) + 1]
      /\ \A n \in 0 .. Len(es) + 1 : f[n] \in States(es, from)
      /\ \A n \in 1 .. Len(es) + 1 : f[n] = Visit(es, to, f[n - 1])
  BY DEF Turns
<1>2. Len(es) \in Nat /\ Len(es) + 1 \in Nat
  OBVIOUS
<1> PICK N : N = Len(es) + 1
  OBVIOUS
<1> DEFINE P(n) == Loop(es, from, to, f[n], n)
           T == {n \in 0 .. N : P(n)}
<1>3. 0 \in T
  <2>1. P(0)
    BY <1>1, LoopStarts
  <2>2. 0 \in 0 .. N
    BY <1>2
  <2> HIDE DEF P
  <2> QED
    BY <2>1, <2>2
<1>4. ASSUME NEW n \in T, n < N
      PROVE  n + 1 \in T
  <2>1. n \in 0 .. Len(es) /\ n + 1 \in 1 .. Len(es) + 1 /\ (n + 1) - 1 = n /\ n + 1 \in 0 .. N
    BY <1>2, <1>4
  <2>2. PICK l, x : l = n + 1 /\ x = f[n]
    OBVIOUS
  <2>3. f[l] = Visit(es, to, x)
    BY <1>1, <2>1, <2>2
  <2>4. Loop(es, from, to, x, n)
    BY <2>2
  <2>5. P(l)
    BY <2>1, <2>2, <2>3, <2>4, VisitStep
  <2> HIDE DEF P
  <2> QED
    BY <2>1, <2>2, <2>5
<1>5. 0 .. N \subseteq T
  <2>1. T \in SUBSET Nat
    BY <1>2
  <2> HIDE DEF T
  <2> QED
    BY <1>2, <1>3, <1>4, <2>1, InductionUpTo
<1>6. P(N)
  <2>1. N \in 0 .. N
    BY <1>2
  <2> HIDE DEF P
  <2> QED
    BY <1>5, <2>1
<1> PICK st : st = f[N]
  OBVIOUS
<1>7. FindConversionPath(es, from, to) = st.answer
  BY <1>1 DEF FindConversionPath
<1>8. ASSUME NEW X, Searching(es, from, to, st, X, Followed(es, X), N),
             st.open = <<>> \/ N + Len(st.open) <= 1 + Cardinality(Followed(es, X))
      PROVE  ~st.answer.found /\ \A s : ~ChainOf(es, s, from, to)
  <2>1. st.open = <<>>
    <3> SUFFICES ASSUME st.open # <<>> PROVE FALSE
      OBVIOUS
    <3>1. st \in States(es, from)
      BY <1>8 DEF Searching
    <3>2. st.open \in Seq(Nodes(es, from)) /\ Len(st.open) \in Nat
      BY <3>1, StateFacts
    <3>3. Len(st.open) # 0
      <4>1. PICK q, S : q = st.open /\ S = Nodes(es, from)
        OBVIOUS
      <4>2. q \in Seq(S) /\ q # <<>>
        BY <3>2, <4>1
      <4>3. Len(q) # 0
        BY <4>2
      <4> QED
        BY <4>1, <4>3
    <3>4. PICK c, a : c = Cardinality(Followed(es, X)) /\ a = Len(st.open)
      OBVIOUS
    <3>5. c \in Nat /\ c <= Len(es) /\ a \in Nat /\ a # 0 /\ N + a <= 1 + c
      BY <1>8, <3>2, <3>3, <3>4, FollowedFinite
    <3> QED
      BY <1>2, <3>5
  <2>2. ASSUME NEW s, ChainOf(es, s, from, to)
        PROVE  FALSE
    <3>1. s \in Seq(Conversions)
      BY <2>2 DEF ChainOf
    <3>2. ChainCost(s) \in Nat
      BY <3>1, ChainCostFacts
    <3>3. PICK m, c : m = c + 1 /\ c = Capped(ChainCost(s))
      OBVIOUS
    <3>4. m \in Nat /\ Capped(ChainCost(s)) < m
      <4>1. c \in Nat
        BY <3>2, <3>3, CappedFacts
      <4> QED
        BY <3>3, <4>1
    <3>5. \A j \in DOMAIN st.open : m <= st.open[j].cost
      <4>1. \A j \in DOMAIN st.open : FALSE
        BY <2>1
      <4> QED
        BY <4>1
    <3>6. to \in X
      BY <1>8, <2>2, <3>4, <3>5, Frontier
    <3> QED
      BY <1>8, <3>6 DEF Searching
  <2> QED
    BY <1>8, <2>2 DEF Searching
<1> QED
  BY <1>6, <1>7, <1>8 DEF Loop

-----------------------------------------------------------------------------
(* What a conversion costs                                                  *)

\* The answer of the search has its type.
LEMMA PathType ==
  ASSUME NEW es \in Seq(Conversions), NEW from, NEW to
  PROVE  FindConversionPath(es, from, to) \in Paths
<1> PICK f : Turns(f, es, from, to)
  BY SearchIs
<1>1. /\ f[0] = StartSearch(from) /\ Search(es, from, to) = f[Len(es) + 1]
      /\ \A n \in 0 .. Len(es) + 1 : f[n] \in States(es, from)
      /\ \A n \in 1 .. Len(es) + 1 : f[n] = Visit(es, to, f[n - 1])
  BY DEF Turns
<1>2. Len(es) + 1 \in 0 .. Len(es) + 1
  OBVIOUS
<1>3. PICK st : st = f[Len(es) + 1]
  OBVIOUS
<1>4. st \in States(es, from)
  BY <1>1, <1>2, <1>3
<1> QED
  BY <1>1, <1>3, <1>4, StateFacts DEF FindConversionPath

\* A chain of conversions that cost something costs something.
LEMMA ChainsCost ==
  ASSUME NEW es \in Seq(Conversions), \A k \in DOMAIN es : es[k].cost > 0,
         NEW from, NEW to, NEW s, ChainOf(es, s, from, to), s # <<>>
  PROVE  ChainCost(s) > 0
<1>1. s \in Seq(Conversions)
  BY DEF ChainOf
<1>2. PICK f : IsSum(f, Costs(s), Len(s)) /\ ChainCost(s) = f[Len(s)]
  BY <1>1, ChainCostIs
<1>3. /\ Len(s) \in Nat
      /\ \A k \in 1 .. Len(s) : s[k] \in Conversions /\ Costs(s)[k] \in Nat /\ Costs(s)[k] \in Int /\ Costs(s)[k] = s[k].cost
  BY <1>1, EdgeCosts
<1>4. 1 \in 1 .. Len(s) /\ 1 \in 0 .. Len(s) /\ Len(s) \in 0 .. Len(s) /\ 1 <= Len(s) /\ 0 \in 0 .. Len(s)
  <2>1. Len(s) # 0
    BY <1>1
  <2> QED
    BY <1>3, <2>1
<1>5. f[0] = 0 /\ f[1] = f[1 - 1] + Costs(s)[1]
  BY <1>2, <1>3, <1>4, SumFacts
<1>6. f[1] <= f[Len(s)] /\ f[Len(s)] \in Nat
  BY <1>2, <1>3, <1>4, SumGrows, SumIsNat
<1>7. Costs(s)[1] > 0 /\ Costs(s)[1] \in Nat
  <2>1. PICK i \in DOMAIN es : s[1] = es[i]
    BY <1>4 DEF ChainOf
  <2>2. Costs(s)[1] = es[i].cost
    BY <1>3, <1>4, <2>1
  <2> QED
    BY <1>3, <1>4, <2>2
<1>8. f[1] = Costs(s)[1]
  BY <1>5, <1>7
<1>9. PICK x, y, z : x = f[1] /\ y = f[Len(s)] /\ z = Costs(s)[1]
  OBVIOUS
<1>10. y > 0
  BY <1>6, <1>7, <1>8, <1>9
<1> QED
  BY <1>2, <1>9, <1>10

\* A conversion that is free, among edges that are not, converts nothing.
LEMMA CostFacts ==
  ASSUME NEW es \in Seq(Conversions), NEW from, NEW to
  PROVE  /\ Cost(es, from, to) \in Nat
         /\ Reaches(es, from, to) \in BOOLEAN /\ TooFar(es, from, to) \in BOOLEAN
         /\ Reaches(es, from, to) /\ Cost(es, from, to) = 0 /\ (\A k \in DOMAIN es : es[k].cost > 0) => from = to
<1> PICK p : p = FindConversionPath(es, from, to)
  OBVIOUS
<1>1. p \in Paths /\ p.cost \in Nat /\ p.found \in BOOLEAN /\ p.overflow \in BOOLEAN
  BY PathType DEF Paths
<1>2. Cost(es, from, to) = IF from = to THEN 0 ELSE p.cost
  BY DEF Cost
<1>3. Reaches(es, from, to) \in BOOLEAN /\ TooFar(es, from, to) \in BOOLEAN
  BY <1>1 DEF Reaches, TooFar
<1>4. ASSUME from # to, Reaches(es, from, to), Cost(es, from, to) = 0, \A k \in DOMAIN es : es[k].cost > 0
      PROVE  FALSE
  <2>1. p.found /\ p.cost = 0
    BY <1>2, <1>4 DEF Reaches
  <2>2. Answered(es, from, to, p)
    BY <2>1, PathIs
  <2>3. PICK s, c : s = p.path /\ c = ChainCost(s)
    OBVIOUS
  <2>4. ChainOf(es, s, from, to) /\ Capped(c) = 0
    BY <2>1, <2>2, <2>3 DEF Answered
  <2>5. s # <<>>
    <3>1. CASE s = <<>>
      <4>1. Len(s) = 0
        BY <3>1
      <4> QED
        BY <1>4, <2>4, <4>1 DEF At, ChainOf
    <3> QED
      BY <3>1
  <2>6. c > 0
    BY <1>4, <2>3, <2>4, <2>5, ChainsCost
  <2>7. c \in Nat
    <3>1. s \in Seq(Conversions)
      BY <2>4 DEF ChainOf
    <3> QED
      BY <2>3, <3>1, ChainCostFacts
  <2> QED
    BY <2>4, <2>6, <2>7, MaxCostAssumption DEF Capped
<1> QED
  BY <1>1, <1>2, <1>3, <1>4

\* What an argument is charged; one that is charged nothing is of the
\* parameter's type.
LEMMA ChargeFacts ==
  ASSUME NEW es \in Seq(Conversions), NEW x, NEW param
  PROVE  /\ Charge(es, x, param) \in Nat /\ Accepts(es, x, param) \in BOOLEAN
         /\ Accepts(es, x, param) /\ Charge(es, x, param) = 0 /\ (\A k \in DOMAIN es : es[k].cost > 0)
              => TypeOf(x) = param
<1>1. PICK t : t = TypeOf(x)
  OBVIOUS
<1>2. /\ Cost(es, t, param) \in Nat
      /\ Reaches(es, t, param) /\ Cost(es, t, param) = 0 /\ (\A k \in DOMAIN es : es[k].cost > 0) => t = param
  BY CostFacts
<1>3. Charge(es, x, param) = IF Reaches(es, t, param) THEN Cost(es, t, param) ELSE 1
  BY <1>1 DEF Charge
<1>4. Accepts(es, x, param) \in BOOLEAN
  BY DEF Accepts
<1>5. CASE Reaches(es, t, param)
  BY <1>1, <1>2, <1>3, <1>4, <1>5
<1>6. CASE ~Reaches(es, t, param)
  BY <1>3, <1>4, <1>6
<1> QED
  BY <1>5, <1>6

-----------------------------------------------------------------------------
(* One candidate                                                            *)

\* A function that is defined step by step.
Recursive(f, s0, D, N) == f = [k \in 0 .. N |-> IF k = 0 THEN s0 ELSE D[k][f[k - 1]]]

\* The function that is defined step by step.
LEMMA RecursiveFunction ==
  ASSUME NEW S, NEW s0 \in S, NEW N \in Nat, NEW D \in [1 .. N -> [S -> S]]
  PROVE  \E f : Recursive(f, s0, D, N)
<1>1. PICK f \in [0 .. N -> S] : Stepwise(f, s0, D, N)
  BY Recursion
<1> DEFINE e(k) == IF k = 0 THEN s0 ELSE D[k][f[k - 1]]
<1>2. ASSUME NEW k \in 0 .. N
      PROVE  f[k] = e(k)
  <2>1. CASE k = 0
    BY <1>1, <2>1 DEF Stepwise
  <2>2. CASE k # 0
    <3>1. k \in 1 .. N
      BY <2>2
    <3> QED
      BY <1>1, <2>2, <3>1 DEF Stepwise
  <2> QED
    BY <2>1, <2>2
<1>3. f = [k \in 0 .. N |-> f[k]]
  OBVIOUS
<1>4. f = [k \in 0 .. N |-> e(k)]
  <2> HIDE DEF e
  <2> QED
    BY <1>2, <1>3
<1> QED
  BY <1>4 DEF Recursive

\* The arguments compiled so far.
Parsed == [ok : BOOLEAN, cost : Nat]

\* What an argument that compiles adds.
Adds(es, acc, x, param, r) ==
  /\ acc.ok /\ Accepts(es, x, param)
  /\ r.cost = (IF x.fn = "" THEN acc.cost ELSE 0) + Charge(es, x, param)

\* One argument: it compiles and is converted, or the candidate is dropped.
LEMMA ArgumentFacts ==
  ASSUME NEW es \in Seq(Conversions), NEW acc \in Parsed, NEW x, NEW param, NEW r, r = Argument(es, acc, x, param)
  PROVE  r \in Parsed /\ (r.ok => Adds(es, acc, x, param, r))
<1>1. acc.ok \in BOOLEAN /\ acc.cost \in Nat /\ acc = [ok |-> acc.ok, cost |-> acc.cost]
  BY DEF Parsed
<1>2. PICK n, b : n = Charge(es, x, param) /\ b = IF x.fn = "" THEN acc.cost ELSE 0
  OBVIOUS
<1>3. n \in Nat /\ b \in Nat
  BY <1>1, <1>2, ChargeFacts
<1>4. PICK m : m = b + n
  OBVIOUS
<1>5. m \in Nat
  BY <1>3, <1>4
<1>6. r = IF ~acc.ok THEN acc
          ELSE IF ~Accepts(es, x, param) THEN [acc EXCEPT !.ok = FALSE]
          ELSE [acc EXCEPT !.cost = m]
  BY <1>2, <1>4 DEF Argument
<1>7. r \in Parsed /\ (r.ok => acc.ok /\ Accepts(es, x, param) /\ r.cost = m)
  <2>1. CASE ~acc.ok
    BY <1>6, <2>1
  <2>2. CASE acc.ok /\ ~Accepts(es, x, param)
    <3>1. r = [ok |-> FALSE, cost |-> acc.cost]
      BY <1>1, <1>6, <2>2
    <3>2. ~r.ok /\ r \in Parsed
      BY <1>1, <3>1 DEF Parsed
    <3> QED
      BY <3>2
  <2>3. CASE acc.ok /\ Accepts(es, x, param)
    <3>1. r = [ok |-> acc.ok, cost |-> m]
      BY <1>1, <1>6, <2>3
    <3>2. r.cost = m /\ r \in Parsed
      BY <1>1, <1>5, <3>1 DEF Parsed
    <3> QED
      BY <2>3, <3>2
  <2> QED
    BY <2>1, <2>2, <2>3
<1> QED
  BY <1>2, <1>4, <1>7 DEF Adds

IsArguments(g, es, f, c) ==
  g = [k \in 0 .. Len(f.args) |->
         IF k = 0 THEN [ok |-> Len(c.args) = Len(f.args), cost |-> 0]
         ELSE Argument(es, g[k - 1], c.args[k], f.args[k])]

\* What is known of them, argument by argument.
ParsedBy(g, es, f, c) ==
  /\ g[0] = [ok |-> Len(c.args) = Len(f.args), cost |-> 0]
  /\ \A k \in 0 .. Len(f.args) : g[k] \in Parsed
  /\ \A k \in 1 .. Len(f.args) : g[k] = Argument(es, g[k - 1], c.args[k], f.args[k])

\* The arguments one after the other.
LEMMA ArgumentsIs ==
  ASSUME NEW es \in Seq(Conversions), NEW f \in Signatures, NEW c
  PROVE  \E g : ParsedBy(g, es, f, c) /\ Arguments(es, f, c) = g[Len(f.args)]
<1> DEFINE N == Len(f.args)
           s0 == [ok |-> Len(c.args) = Len(f.args), cost |-> 0]
           D == [k \in 1 .. N |-> [x \in Parsed |-> Argument(es, x, c.args[k], f.args[k])]]
<1>1. N \in Nat
  BY OverloadAssumption
<1>2. s0 \in Parsed
  BY DEF Parsed
<1>3. \A x \in Parsed : \A a, p : Argument(es, x, a, p) \in Parsed
  BY ArgumentFacts
<1>4. D \in [1 .. N -> [Parsed -> Parsed]] /\ \A k \in 1 .. N : \A x \in Parsed : D[k][x] = Argument(es, x, c.args[k], f.args[k])
  BY <1>3
<1> HIDE DEF D, N, s0
<1>5. PICK g : Recursive(g, s0, D, N)
  BY <1>1, <1>2, <1>4, RecursiveFunction
<1>6. g[0] = s0 /\ \A k \in 1 .. N : g[k] = D[k][g[k - 1]]
  <2> DEFINE e(k) == IF k = 0 THEN s0 ELSE D[k][g[k - 1]]
  <2>1. g = [k \in 0 .. N |-> e(k)]
    BY <1>5 DEF Recursive
  <2>2. \A k \in 0 .. N : g[k] = e(k)
    <3> HIDE DEF e
    <3> QED
      BY <2>1
  <2>3. 0 \in 0 .. N /\ \A k \in 1 .. N : k # 0 /\ k \in 0 .. N
    BY <1>1
  <2> QED
    BY <2>2, <2>3
<1>7. \A k \in 0 .. N : g[k] \in Parsed
  <2>1. D \in [1 .. N -> [Parsed -> Parsed]]
    BY <1>4
  <2>2. g[0] = s0
    BY <1>6
  <2>3. \A k \in 1 .. N : g[k - 1] \in Parsed => g[k] = D[k][g[k - 1]]
    BY <1>6
  <2> QED
    BY <1>1, <1>2, <2>1, <2>2, <2>3, RecursionIs
<1>8. \A k \in 1 .. N : g[k] = Argument(es, g[k - 1], c.args[k], f.args[k])
  <2>1. ASSUME NEW k \in 1 .. N
        PROVE  g[k] = Argument(es, g[k - 1], c.args[k], f.args[k])
    <3>1. k - 1 \in 0 .. N
      BY <1>1
    <3>2. g[k - 1] \in Parsed
      BY <1>7, <3>1
    <3> QED
      BY <1>4, <1>6, <3>2
  <2> QED
    BY <2>1
<1>9. \E h : IsArguments(h, es, f, c)
  <2> DEFINE e(k) == IF k = 0 THEN s0 ELSE D[k][g[k - 1]]
             d(k) == IF k = 0 THEN s0 ELSE Argument(es, g[k - 1], c.args[k], f.args[k])
  <2>1. \A k \in 0 .. N : e(k) = d(k)
    <3>1. \A k \in 0 .. N : k = 0 \/ k \in 1 .. N
      BY <1>1
    <3> QED
      BY <1>6, <1>8, <3>1
  <2>2. g = [k \in 0 .. N |-> e(k)]
    BY <1>5 DEF Recursive
  <2>3. g = [k \in 0 .. N |-> d(k)]
    <3> HIDE DEF e, d
    <3> QED
      BY <2>1, <2>2
  <2> QED
    BY <2>3 DEF IsArguments, N, s0
<1>10. PICK h : h = CHOOSE x : IsArguments(x, es, f, c)
  OBVIOUS
<1>11. IsArguments(h, es, f, c)
  BY <1>9, <1>10
<1>12. Arguments(es, f, c) = h[N]
  BY <1>10 DEF Arguments, IsArguments, N
<1>13. h[0] = s0 /\ \A k \in 1 .. N : h[k] = Argument(es, h[k - 1], c.args[k], f.args[k])
  <2> DEFINE d(k) == IF k = 0 THEN s0 ELSE Argument(es, h[k - 1], c.args[k], f.args[k])
  <2>1. h = [k \in 0 .. N |-> d(k)]
    BY <1>11 DEF IsArguments, N, s0
  <2>2. \A k \in 0 .. N : h[k] = d(k)
    <3> HIDE DEF d
    <3> QED
      BY <2>1
  <2>3. 0 \in 0 .. N /\ \A k \in 1 .. N : k # 0 /\ k \in 0 .. N
    BY <1>1
  <2> QED
    BY <2>2, <2>3
<1>14. \A k \in 0 .. N : h[k] \in Parsed
  <2>1. \A k \in 1 .. N : h[k - 1] \in Parsed => h[k] = D[k][h[k - 1]]
    BY <1>4, <1>13
  <2> QED
    BY <1>1, <1>2, <1>4, <1>13, <2>1, RecursionIs, ZenonT(60)
<1> QED
  BY <1>12, <1>13, <1>14 DEF N, ParsedBy, s0

\* What each argument weighs.
Weight(es, f, c) == [k \in 1 .. Len(c.args) |-> IF k \in Weighed(c) THEN Charge(es, c.args[k], f.args[k]) ELSE 0]

IsArgumentSum(h, es, f, c) ==
  h = [k \in 0 .. Len(c.args) |->
         IF k = 0 THEN 0
         ELSE h[k - 1] + (IF k \in Weighed(c) THEN Charge(es, c.args[k], f.args[k]) ELSE 0)]

\* What the arguments weigh.
LEMMA WeightFacts ==
  ASSUME NEW es \in Seq(Conversions), NEW f, NEW c \in Calls
  PROVE  /\ Len(c.args) \in Nat /\ DOMAIN c.args = 1 .. Len(c.args)
         /\ \A k \in 1 .. Len(c.args) :
              /\ Weight(es, f, c)[k] \in Nat /\ Weight(es, f, c)[k] \in Int
              /\ Weight(es, f, c)[k] = IF k \in Weighed(c) THEN Charge(es, c.args[k], f.args[k]) ELSE 0
<1>1. Len(c.args) \in Nat /\ DOMAIN c.args = 1 .. Len(c.args)
  <2>1. PICK S : c.args \in Seq(S)
    BY OverloadAssumption
  <2> QED
    BY <2>1
<1>2. \A k \in 1 .. Len(c.args) : Weight(es, f, c)[k] = IF k \in Weighed(c) THEN Charge(es, c.args[k], f.args[k]) ELSE 0
  BY DEF Weight
<1>3. \A k \in 1 .. Len(c.args) : Charge(es, c.args[k], f.args[k]) \in Nat
  BY ChargeFacts
<1>4. \A k \in 1 .. Len(c.args) : Weight(es, f, c)[k] \in Nat
  BY <1>2, <1>3
<1> QED
  BY <1>1, <1>2, <1>4

\* The sum of the costs that are weighed.
LEMMA ArgumentsCostIs ==
  ASSUME NEW es \in Seq(Conversions), NEW f, NEW c \in Calls
  PROVE  \E h : IsSum(h, Weight(es, f, c), Len(c.args)) /\ ArgumentsCost(es, f, c) = h[Len(c.args)]
<1>1. /\ Len(c.args) \in Nat
      /\ \A k \in 1 .. Len(c.args) :
           /\ Weight(es, f, c)[k] \in Int
           /\ Weight(es, f, c)[k] = IF k \in Weighed(c) THEN Charge(es, c.args[k], f.args[k]) ELSE 0
  BY WeightFacts
<1>2. ASSUME NEW h
      PROVE  IsArgumentSum(h, es, f, c) <=> IsSum(h, Weight(es, f, c), Len(c.args))
  <2> DEFINE d(k) == IF k = 0 THEN 0
                     ELSE h[k - 1] + (IF k \in Weighed(c) THEN Charge(es, c.args[k], f.args[k]) ELSE 0)
             e(k) == IF k = 0 THEN 0 ELSE h[k - 1] + Weight(es, f, c)[k]
  <2>1. ASSUME NEW k \in 0 .. Len(c.args)
        PROVE  d(k) = e(k)
    <3>1. k = 0 \/ k \in 1 .. Len(c.args)
      BY <1>1
    <3> QED
      BY <1>1, <3>1
  <2> HIDE DEF d, e
  <2>2. [k \in 0 .. Len(c.args) |-> d(k)] = [k \in 0 .. Len(c.args) |-> e(k)]
    BY <2>1
  <2> QED
    BY <2>2 DEF d, e, IsArgumentSum, IsSum
<1>3. PICK h : IsSum(h, Weight(es, f, c), Len(c.args))
  BY <1>1, SumExists
<1>4. ArgumentsCost(es, f, c) = (CHOOSE g : IsArgumentSum(g, es, f, c))[Len(c.args)]
  BY DEF ArgumentsCost, IsArgumentSum
<1>5. \E g : IsArgumentSum(g, es, f, c)
  BY <1>2, <1>3
<1>6. PICK g : g = CHOOSE x : IsArgumentSum(x, es, f, c)
  OBVIOUS
<1>7. IsArgumentSum(g, es, f, c)
  BY <1>5, <1>6
<1> QED
  BY <1>2, <1>4, <1>6, <1>7

\* The sum of the weights, argument by argument; none is larger than all.
LEMMA ArgumentSumFacts ==
  ASSUME NEW es \in Seq(Conversions), NEW f, NEW c \in Calls, NEW h, IsSum(h, Weight(es, f, c), Len(c.args))
  PROVE  /\ h[0] = 0 /\ \A k \in 1 .. Len(c.args) : h[k] = h[k - 1] + Weight(es, f, c)[k]
         /\ \A k \in 0 .. Len(c.args) : h[k] \in Nat /\ h[k] <= h[Len(c.args)]
<1> PICK n, a : n = Len(c.args) /\ a = Weight(es, f, c)
  OBVIOUS
<1>1. n \in Nat /\ (\A k \in 1 .. n : a[k] \in Nat) /\ (\A k \in 1 .. n : a[k] \in Int) /\ IsSum(h, a, n)
  BY WeightFacts
<1>2. h[0] = 0 /\ \A k \in 1 .. n : h[k] = h[k - 1] + a[k]
  BY <1>1, SumFacts, SMTT(30)
<1>3. \A k \in 0 .. n : h[k] \in Nat
  BY <1>1, SumIsNat
<1>4. \A k \in 0 .. n : k <= n /\ n \in 0 .. n
  BY <1>1
<1>5. \A k \in 0 .. n : h[k] <= h[n]
  BY <1>1, <1>4, SumGrows
<1> QED
  BY <1>2, <1>3, <1>5

\* resolve_function's running cost, which a call among the arguments resets, is
\* the cost of the arguments that are weighed.
LEMMA ArgumentsAgree ==
  ASSUME NEW es \in Seq(Conversions), NEW f \in Signatures, NEW c \in Calls, Arguments(es, f, c).ok
  PROVE  /\ Arguments(es, f, c).cost = ArgumentsCost(es, f, c)
         /\ Len(c.args) = Len(f.args)
         /\ \A k \in 1 .. Len(c.args) : Accepts(es, c.args[k], f.args[k])
<1> PICK g : ParsedBy(g, es, f, c) /\ Arguments(es, f, c) = g[Len(f.args)]
  BY ArgumentsIs
<1>1. /\ Arguments(es, f, c) = g[Len(f.args)]
      /\ g[0] = [ok |-> Len(c.args) = Len(f.args), cost |-> 0]
      /\ \A k \in 0 .. Len(f.args) : g[k] \in Parsed
      /\ \A k \in 1 .. Len(f.args) : g[k] = Argument(es, g[k - 1], c.args[k], f.args[k])
  BY DEF ParsedBy
<1>2. PICK h : IsSum(h, Weight(es, f, c), Len(c.args)) /\ ArgumentsCost(es, f, c) = h[Len(c.args)]
  BY ArgumentsCostIs
<1>3. /\ Len(c.args) \in Nat /\ DOMAIN c.args = 1 .. Len(c.args)
      /\ \A k \in 1 .. Len(c.args) :
              /\ Weight(es, f, c)[k] \in Nat /\ Weight(es, f, c)[k] \in Int
              /\ Weight(es, f, c)[k] = IF k \in Weighed(c) THEN Charge(es, c.args[k], f.args[k]) ELSE 0
  BY WeightFacts
<1>4. Len(f.args) \in Nat
  BY OverloadAssumption
<1>5. h[0] = 0 /\ \A k \in 1 .. Len(c.args) : h[k] = h[k - 1] + Weight(es, f, c)[k]
  BY <1>2, ArgumentSumFacts
<1>6. \A k \in 0 .. Len(c.args) : h[k] \in Nat
  BY <1>2, ArgumentSumFacts
<1> DEFINE N == Len(f.args)
<1>7. ASSUME NEW k \in 1 .. N
      PROVE  g[k].ok => /\ g[k - 1].ok /\ Accepts(es, c.args[k], f.args[k])
                        /\ g[k].cost = (IF c.args[k].fn = "" THEN g[k - 1].cost ELSE 0)
                                         + Charge(es, c.args[k], f.args[k])
  <2>1. k - 1 \in 0 .. N
    BY <1>4
  <2>2. PICK r, a, x, p : r = g[k] /\ a = g[k - 1] /\ x = c.args[k] /\ p = f.args[k]
    OBVIOUS
  <2>3. a \in Parsed /\ r = Argument(es, a, x, p)
    BY <1>1, <2>1, <2>2
  <2>4. r.ok => Adds(es, a, x, p, r)
    BY <2>3, ArgumentFacts
  <2> QED
    BY <2>2, <2>4 DEF Adds
<1> HIDE DEF N
<1>8. \A k \in 0 .. N : g[k].ok
  <2> DEFINE U == {i \in 0 .. N : g[N - i].ok}
  <2>1. 0 \in U
    <3>1. N - 0 = N /\ 0 \in 0 .. N
      BY <1>4 DEF N
    <3> QED
      BY <1>1, <3>1 DEF N
  <2>2. ASSUME NEW i \in U, i < N
        PROVE  i + 1 \in U
    <3>1. i + 1 \in 0 .. N /\ N - i \in 1 .. N /\ (N - i) - 1 = N - (i + 1) /\ g[N - i].ok
      BY <1>4, <2>2 DEF N
    <3>2. g[(N - i) - 1].ok
      BY <1>7, <3>1
    <3> QED
      BY <3>1, <3>2
  <2>3. 0 .. N \subseteq U
    <3>1. U \in SUBSET Nat /\ N \in Nat
      BY <1>4 DEF N
    <3> HIDE DEF U
    <3> QED
      BY <2>1, <2>2, <3>1, InductionUpTo
  <2>4. ASSUME NEW k \in 0 .. N
        PROVE  g[k].ok
    <3>1. N - k \in 0 .. N /\ N - (N - k) = k
      BY <1>4 DEF N
    <3>2. N - k \in U
      BY <2>3, <3>1
    <3> QED
      BY <3>1, <3>2
  <2> QED
    BY <2>4
<1>9. Len(c.args) = N
  <2>1. g[0].ok
    <3>1. 0 \in 0 .. N
      BY <1>4 DEF N
    <3> QED
      BY <1>8, <3>1
  <2>2. g[0].ok = (Len(c.args) = Len(f.args))
    BY <1>1
  <2> QED
    BY <2>1, <2>2 DEF N
<1> DEFINE Plain(k) == \A j \in DOMAIN c.args : j > k => c.args[j].fn = ""
           T == {k \in 0 .. N : IF Plain(k) THEN g[k].cost = h[k] ELSE h[k] = 0}
<1> HIDE DEF Plain
<1>10. N \in Nat /\ DOMAIN c.args = 1 .. N
  BY <1>3, <1>4, <1>9 DEF N
<1>11. 0 \in T
  <2>1. g[0].cost = 0 /\ 0 \in 0 .. N
    BY <1>1, <1>10
  <2> QED
    BY <1>5, <2>1, Zenon
<1>12. ASSUME NEW k \in T, k < N
       PROVE  k + 1 \in T
  <2>1. k + 1 \in 1 .. N /\ k + 1 \in 0 .. N /\ (k + 1) - 1 = k /\ k \in 0 .. N /\ k \in Nat
    BY <1>10, <1>12
  <2> PICK l : l = k + 1
    OBVIOUS
  <2>2. h[l] = h[k] + Weight(es, f, c)[l] /\ h[k] \in Nat
    BY <1>5, <1>6, <1>9, <2>1
  <2>3. PICK w : w = Charge(es, c.args[l], f.args[l])
    OBVIOUS
  <2>4. w \in Nat
    BY <2>3, ChargeFacts
  <2>5. l \in Weighed(c) <=> Plain(l)
    BY <1>10, <2>1 DEF Plain, Weighed
  <2>6. Weight(es, f, c)[l] = IF Plain(l) THEN w ELSE 0
    BY <1>3, <1>9, <2>1, <2>3, <2>5
  <2>7. g[l].ok /\ g[k] \in Parsed
    BY <1>1, <1>8, <2>1 DEF N
  <2>8. g[l].cost = (IF c.args[l].fn = "" THEN g[k].cost ELSE 0) + w
    BY <1>7, <2>1, <2>3, <2>7
  <2>9. Plain(k) <=> Plain(l) /\ c.args[l].fn = ""
    <3>1. \A j \in 1 .. N : (j > k) <=> (j > l \/ j = l)
      BY <1>10, <2>1
    <3>2. l \in 1 .. N
      BY <2>1
    <3> QED
      BY <1>10, <3>1, <3>2 DEF Plain
  <2>10. IF Plain(k) THEN g[k].cost = h[k] ELSE h[k] = 0
    OBVIOUS
  <2>11. PICK gc, gl, hk, hl : gc = g[k].cost /\ gl = g[l].cost /\ hk = h[k] /\ hl = h[l]
    OBVIOUS
  <2>12. gc \in Nat /\ hk \in Nat
    BY <2>2, <2>7, <2>11 DEF Parsed
  <2> HIDE DEF T
  <2>13. IF Plain(l) THEN gl = hl ELSE hl = 0
    <3>1. CASE ~Plain(l)
      <4>1. hl = hk + 0 /\ hk = 0
        BY <2>2, <2>6, <2>9, <2>10, <2>11, <3>1
      <4> QED
        BY <3>1, <4>1
    <3>2. CASE Plain(l) /\ c.args[l].fn = ""
      <4>1. gl = gc + w /\ hl = hk + w
        BY <2>2, <2>6, <2>8, <2>11, <3>2
      <4>2. gc = hk
        BY <2>9, <2>10, <2>11, <3>2
      <4> QED
        BY <3>2, <4>1, <4>2
    <3>3. CASE Plain(l) /\ c.args[l].fn # ""
      <4>1. gl = 0 + w /\ hl = hk + w
        BY <2>2, <2>6, <2>8, <2>11, <3>3
      <4>2. hk = 0
        BY <2>9, <2>10, <2>11, <3>3
      <4> QED
        BY <3>3, <4>1, <4>2
    <3> QED
      BY <3>1, <3>2, <3>3
  <2> QED
    BY <2>1, <2>11, <2>13 DEF T
<1>13. 0 .. N \subseteq T
  <2>1. T \in SUBSET Nat
    BY <1>10
  <2> HIDE DEF T
  <2> QED
    BY <1>10, <1>11, <1>12, <2>1, InductionUpTo
<1>14. g[N].cost = h[N]
  <2>1. N \in 0 .. N
    BY <1>10
  <2>2. N \in T
    BY <1>13, <2>1
  <2>3. Plain(N)
    <3>1. \A j \in 1 .. N : ~(j > N)
      BY <1>10
    <3> QED
      BY <1>10, <3>1 DEF Plain
  <2> QED
    BY <2>2, <2>3
<1>15. \A k \in 1 .. N : Accepts(es, c.args[k], f.args[k])
  <2>1. \A k \in 1 .. N : k \in 0 .. N
    BY <1>10
  <2> QED
    BY <1>7, <1>8, <2>1
<1> QED
  BY <1>1, <1>2, <1>9, <1>14, <1>15 DEF N

\* Arguments that cost nothing are of the parameters' types, when all of them
\* are weighed.
LEMMA NothingConverted ==
  ASSUME NEW es \in Seq(Conversions), \A k \in DOMAIN es : es[k].cost > 0,
         NEW f \in Signatures, NEW c \in Calls, Arguments(es, f, c).ok,
         Weighed(c) = DOMAIN c.args, ArgumentsCost(es, f, c) = 0
  PROVE  Len(c.args) = Len(f.args) /\ \A k \in 1 .. Len(c.args) : f.args[k] = TypeOf(c.args[k])
<1>1. /\ Len(c.args) = Len(f.args)
      /\ \A k \in 1 .. Len(c.args) : Accepts(es, c.args[k], f.args[k])
  BY ArgumentsAgree
<1>2. PICK h : IsSum(h, Weight(es, f, c), Len(c.args)) /\ ArgumentsCost(es, f, c) = h[Len(c.args)]
  BY ArgumentsCostIs
<1>3. /\ Len(c.args) \in Nat /\ DOMAIN c.args = 1 .. Len(c.args)
      /\ \A k \in 1 .. Len(c.args) :
              /\ Weight(es, f, c)[k] \in Nat /\ Weight(es, f, c)[k] \in Int
              /\ Weight(es, f, c)[k] = IF k \in Weighed(c) THEN Charge(es, c.args[k], f.args[k]) ELSE 0
  BY WeightFacts
<1>4. h[0] = 0 /\ \A k \in 1 .. Len(c.args) : h[k] = h[k - 1] + Weight(es, f, c)[k]
  BY <1>2, ArgumentSumFacts
<1>5. \A k \in 0 .. Len(c.args) : h[k] \in Nat /\ h[k] <= h[Len(c.args)]
  BY <1>2, ArgumentSumFacts
<1>6. ASSUME NEW k \in 1 .. Len(c.args)
      PROVE  f.args[k] = TypeOf(c.args[k])
  <2>1. k \in 0 .. Len(c.args) /\ k - 1 \in 0 .. Len(c.args) /\ k <= Len(c.args) /\ Len(c.args) \in 0 .. Len(c.args)
    BY <1>3
  <2>2. h[k] <= h[Len(c.args)]
    BY <1>5, <2>1
  <2>3. PICK x, y, z : x = h[k - 1] /\ y = h[k] /\ z = Weight(es, f, c)[k]
    OBVIOUS
  <2>4. x \in Nat /\ y \in Nat /\ z \in Nat /\ y = x + z /\ y <= 0
    BY <1>2, <1>3, <1>4, <1>5, <2>1, <2>2, <2>3
  <2>5. z = 0
    BY <2>4
  <2>6. Charge(es, c.args[k], f.args[k]) = 0
    BY <1>3, <2>3, <2>5
  <2> QED
    BY <1>1, <2>6, ChargeFacts
<1> QED
  BY <1>1, <1>6

\* What each parameter adds to the rank.
RankOf(f) == [k \in 1 .. Len(f.args) |-> IF f.args[k] \in DOMAIN Priorities THEN Priorities[f.args[k]] ELSE 1000]

IsRank(h, f) ==
  h = [k \in 0 .. Len(f.args) |->
         IF k = 0 THEN 0
         ELSE h[k - 1] + (IF f.args[k] \in DOMAIN Priorities THEN Priorities[f.args[k]] ELSE 1000)]

\* The rank of a signature is a number.
LEMMA RankIs ==
  ASSUME NEW f \in Signatures
  PROVE  Rank(f) \in Int
<1>1. Len(f.args) \in Nat
  BY OverloadAssumption
<1>2. \A k \in 1 .. Len(f.args) : RankOf(f)[k] = IF f.args[k] \in DOMAIN Priorities THEN Priorities[f.args[k]] ELSE 1000
  BY DEF RankOf
<1>3. \A k \in 1 .. Len(f.args) : RankOf(f)[k] \in Int
  BY <1>2, OverloadAssumption
<1>4. ASSUME NEW h
      PROVE  IsRank(h, f) <=> IsSum(h, RankOf(f), Len(f.args))
  <2> DEFINE d(k) == IF k = 0 THEN 0
                     ELSE h[k - 1] + (IF f.args[k] \in DOMAIN Priorities THEN Priorities[f.args[k]] ELSE 1000)
             e(k) == IF k = 0 THEN 0 ELSE h[k - 1] + RankOf(f)[k]
  <2>1. ASSUME NEW k \in 0 .. Len(f.args)
        PROVE  d(k) = e(k)
    <3>1. k = 0 \/ k \in 1 .. Len(f.args)
      BY <1>1
    <3> QED
      BY <1>2, <3>1
  <2> HIDE DEF d, e
  <2>2. [k \in 0 .. Len(f.args) |-> d(k)] = [k \in 0 .. Len(f.args) |-> e(k)]
    BY <2>1
  <2> QED
    BY <2>2 DEF d, e, IsRank, IsSum
<1>5. PICK h : IsSum(h, RankOf(f), Len(f.args))
  BY <1>1, <1>3, SumExists
<1>6. Rank(f) = (CHOOSE g : IsRank(g, f))[Len(f.args)]
  BY DEF IsRank, Rank
<1>7. PICK g : g = CHOOSE x : IsRank(x, f)
  OBVIOUS
<1>8. IsRank(g, f)
  <2>1. \E x : IsRank(x, f)
    BY <1>4, <1>5
  <2> QED
    BY <1>7, <2>1
<1>9. g[Len(f.args)] \in Int
  <2>1. Len(f.args) \in 0 .. Len(f.args)
    BY <1>1
  <2>2. PICK n, a : n = Len(f.args) /\ a = RankOf(f)
    OBVIOUS
  <2>3. n \in Nat /\ (\A k \in 1 .. n : a[k] \in Int) /\ IsSum(g, a, n) /\ n \in 0 .. n
    BY <1>1, <1>3, <1>4, <1>8, <2>1, <2>2
  <2>4. g[n] \in Int
    BY <2>3, SumFacts
  <2> QED
    BY <2>2, <2>4
<1> QED
  BY <1>6, <1>7, <1>9

\* A candidate that was tried.
Ranked == [ok : BOOLEAN, f : Signatures, cost : Nat, exact : BOOLEAN, rank : Int]

\* A candidate that compiles costs what its conversions cost.
LEMMA TrialFacts ==
  ASSUME NEW es \in Seq(Conversions), NEW f \in Signatures, NEW c \in Calls, NEW x, x = Trial(es, f, c)
  PROVE  /\ x \in Ranked /\ x.f = f
         /\ x.exact = (c.exp # "void" /\ f.ret = c.exp) /\ x.rank = Rank(f)
         /\ x.ok => Arguments(es, f, c).ok /\ x.cost = TotalCost(es, f, c)
<1> PICK p : p = Arguments(es, f, c)
  OBVIOUS
<1>1. p \in Parsed
  <2>1. PICK g : ParsedBy(g, es, f, c) /\ Arguments(es, f, c) = g[Len(f.args)]
    BY ArgumentsIs
  <2>2. Len(f.args) \in 0 .. Len(f.args)
    <3>1. Len(f.args) \in Nat
      BY OverloadAssumption
    <3> QED
      BY <3>1
  <2>3. g[Len(f.args)] \in Parsed
    BY <2>1, <2>2 DEF ParsedBy
  <2> QED
    BY <2>1, <2>3
<1>2. PICK r, m, a : r = ReturnCost(es, f, c) /\ m = p.cost /\ a = 2 * m + r
  OBVIOUS
<1>3. r \in Nat /\ m \in Nat
  BY <1>1, <1>2, CostFacts DEF Parsed, ReturnCost
<1>4. a \in Nat
  BY <1>2, <1>3
<1>5. PICK k : k = Rank(f) /\ k \in Int
  BY RankIs
<1>6. PICK ok, ex : /\ ok = (p.ok /\ InContext(f, c) /\ (WeighsReturn(f, c) => Reaches(es, f.ret, c.exp)))
                   /\ ex = (c.exp # "void" /\ f.ret = c.exp)
  OBVIOUS
<1>7. ok \in BOOLEAN /\ ex \in BOOLEAN
  BY <1>6
<1>8. x = [ok |-> ok, f |-> f, cost |-> a, exact |-> ex, rank |-> k]
  BY <1>2, <1>5, <1>6, Zenon DEF Trial
<1>9. x \in Ranked /\ x.f = f /\ x.cost = a /\ x.ok = ok /\ x.exact = ex /\ x.rank = k
  BY <1>4, <1>5, <1>7, <1>8 DEF Ranked
<1>10. ASSUME p.ok
       PROVE  a = TotalCost(es, f, c)
  <2>1. m = ArgumentsCost(es, f, c)
    BY <1>2, <1>10, ArgumentsAgree
  <2> QED
    BY <1>2, <2>1 DEF TotalCost
<1>11. x.ok => p.ok
  BY <1>6, <1>9
<1>12. x.exact = (c.exp # "void" /\ f.ret = c.exp)
  BY <1>6, <1>9
<1> QED
  BY <1>5, <1>9, <1>10, <1>11, <1>12

-----------------------------------------------------------------------------
(* The contest                                                              *)

\* Of two candidates one is better, or they tie.
LEMMA BetterFacts ==
  ASSUME NEW x \in Ranked, NEW y \in Ranked
  PROVE  /\ ~Better(x, x) /\ Tied(x, x)
         /\ Better(x, y) => ~Better(y, x) /\ ~Tied(x, y) /\ ~Tied(y, x)
         /\ Better(x, y) \/ Better(y, x) \/ Tied(x, y)
         /\ Tied(x, y) <=> Tied(y, x)
         /\ ~Better(y, x) => x.cost <= y.cost
<1>1. /\ x.cost \in Nat /\ y.cost \in Nat /\ x.rank \in Int /\ y.rank \in Int
      /\ x.exact \in BOOLEAN /\ y.exact \in BOOLEAN
  BY DEF Ranked
<1> QED
  BY <1>1 DEF Better, Tied

\* Candidates are ordered, ties included.
LEMMA BetterIsTransitive ==
  ASSUME NEW x \in Ranked, NEW y \in Ranked, NEW z \in Ranked
  PROVE  /\ Better(x, y) /\ Better(y, z) => Better(x, z)
         /\ Tied(x, y) /\ Tied(y, z) => Tied(x, z)
         /\ Better(x, y) /\ Tied(y, z) => Better(x, z)
<1>1. /\ x.cost \in Nat /\ y.cost \in Nat /\ z.cost \in Nat /\ x.rank \in Int /\ y.rank \in Int /\ z.rank \in Int
      /\ x.exact \in BOOLEAN /\ y.exact \in BOOLEAN /\ z.exact \in BOOLEAN
  BY DEF Ranked
<1> QED
  BY <1>1 DEF Better, Tied

\* The best of the candidates tried so far.
Winners == [best : Seq(Ranked), ambiguous : BOOLEAN]

\* Among candidates C there is none better than the one that won, and it is
\* ambiguous if another one is as good.
Wins(es, C, c, g) == g \in C /\ \A h \in C : ~Better(Trial(es, h, c), Trial(es, g, c))
Rival(es, C, c, g) == \E h \in C : h # g /\ Tied(Trial(es, h, c), Trial(es, g, c))

Chosen(es, C, c, w) ==
  /\ w \in Winners
  /\ C = {} => w.best = <<>>
  /\ C # {} => \E g : /\ Wins(es, C, c, g) /\ w.best = <<Trial(es, g, c)>>
                      /\ w.ambiguous <=> Rival(es, C, c, g)

\* The best candidate so far, and the flag of a tie.
LEMMA ContestType ==
  ASSUME NEW w \in Winners, NEW x \in Ranked
  PROVE  Contest(w, x) \in Winners
<1>1. w.best \in Seq(Ranked) /\ w = [best |-> w.best, ambiguous |-> w.ambiguous]
  BY DEF Winners
<1>2. <<x>> \in Seq(Ranked)
  OBVIOUS
<1>3. [best |-> <<x>>, ambiguous |-> FALSE] \in Winners
  BY <1>2 DEF Winners
<1>4. [w EXCEPT !.ambiguous = TRUE] \in Winners
  BY DEF Winners
<1> QED
  BY <1>3, <1>4 DEF Contest

\* One more candidate.
LEMMA ContestStep ==
  ASSUME NEW es \in Seq(Conversions), NEW c \in Calls, NEW C \in SUBSET Signatures, NEW w, Chosen(es, C, c, w),
         NEW f \in Signatures, f \notin C, NEW x, x = Trial(es, f, c)
  PROVE  Chosen(es, C \union {f}, c, Contest(w, x))
<1>1. x \in Ranked /\ \A h \in C : Trial(es, h, c) \in Ranked
  BY TrialFacts
<1>2. w \in Winners /\ Contest(w, x) \in Winners
  BY <1>1, ContestType DEF Chosen
<1>3. w = [best |-> w.best, ambiguous |-> w.ambiguous] /\ w.ambiguous \in BOOLEAN
  BY <1>2 DEF Winners
<1> PICK v, K : v = Contest(w, x) /\ K = C \union {f}
  OBVIOUS
<1>4. ASSUME C = {}
      PROVE  \E g : Wins(es, K, c, g) /\ v.best = <<Trial(es, g, c)>> /\ (v.ambiguous <=> Rival(es, K, c, g))
  <2>1. w.best = <<>>
    BY <1>4 DEF Chosen
  <2>2. v = [best |-> <<x>>, ambiguous |-> FALSE]
    BY <2>1 DEF Contest
  <2>3. Wins(es, K, c, f)
    <3>1. ~Better(x, x)
      BY <1>1, BetterFacts
    <3> QED
      BY <1>4, <3>1 DEF Wins
  <2>4. ~Rival(es, K, c, f)
    BY <1>4 DEF Rival
  <2>5. v.best = <<x>> /\ ~v.ambiguous
    BY <2>2
  <2> QED
    BY <2>3, <2>4, <2>5
<1>5. ASSUME NEW g, Wins(es, C, c, g), w.best = <<Trial(es, g, c)>>, w.ambiguous <=> Rival(es, C, c, g)
      PROVE  \E b : Wins(es, K, c, b) /\ v.best = <<Trial(es, b, c)>> /\ (v.ambiguous <=> Rival(es, K, c, b))
  <2> PICK y : y = Trial(es, g, c)
    OBVIOUS
  <2>1. y \in Ranked /\ g \in C /\ w.best # <<>> /\ w.best[1] = y /\ g # f
    BY <1>1, <1>5 DEF Wins
  <2>2. \A h \in C : ~Better(Trial(es, h, c), y)
    BY <1>5 DEF Wins
  <2>3. CASE Better(x, y)
    <3>1. v = [best |-> <<x>>, ambiguous |-> FALSE]
      BY <2>1, <2>3 DEF Contest
    <3>2. v.best = <<x>> /\ ~v.ambiguous
      BY <3>1
    <3>3. \A h \in C : ~Better(Trial(es, h, c), x) /\ ~Tied(Trial(es, h, c), x)
      <4>1. ASSUME NEW h \in C
            PROVE  ~Better(Trial(es, h, c), x) /\ ~Tied(Trial(es, h, c), x)
        <5>1. PICK z : z = Trial(es, h, c)
          OBVIOUS
        <5>2. z \in Ranked /\ ~Better(z, y)
          BY <1>1, <2>2, <5>1
        <5>3. ~Better(z, x)
          BY <1>1, <2>1, <2>3, <5>2, BetterIsTransitive
        <5>4. ~Tied(z, x)
          <6> SUFFICES ASSUME Tied(z, x) PROVE FALSE
            OBVIOUS
          <6>1. z.cost = x.cost /\ z.exact = x.exact /\ z.rank = x.rank
            BY DEF Tied
          <6>2. Better(z, y)
            BY <2>3, <6>1 DEF Better
          <6> QED
            BY <5>2, <6>2
        <5> QED
          BY <5>1, <5>3, <5>4
      <4> QED
        BY <4>1
    <3>4. Wins(es, K, c, f)
      <4>1. ~Better(x, x)
        BY <1>1, BetterFacts
      <4> QED
        BY <3>3, <4>1 DEF Wins
    <3>5. ~Rival(es, K, c, f)
      BY <3>3 DEF Rival
    <3> QED
      BY <3>2, <3>4, <3>5
  <2>4. CASE ~Better(x, y)
    <3>1. Wins(es, K, c, g)
      BY <2>1, <2>2, <2>4 DEF Wins
    <3>2. Rival(es, K, c, g) <=> Rival(es, C, c, g) \/ Tied(x, y)
      BY <2>1 DEF Rival
    <3>3. v.best = w.best /\ (v.ambiguous <=> w.ambiguous \/ Tied(x, y))
      <4>1. CASE Tied(x, y)
        <5>1. v = [w EXCEPT !.ambiguous = TRUE]
          BY <2>1, <2>4, <4>1 DEF Contest
        <5>2. v = [best |-> w.best, ambiguous |-> TRUE]
          BY <1>3, <5>1
        <5> QED
          BY <4>1, <5>2
      <4>2. CASE ~Tied(x, y)
        <5>1. v = w
          BY <2>1, <2>4, <4>2 DEF Contest
        <5> QED
          BY <4>2, <5>1
      <4> QED
        BY <4>1, <4>2
    <3> QED
      BY <1>5, <3>1, <3>2, <3>3
  <2> QED
    BY <2>3, <2>4
<1>6. \E g : Wins(es, K, c, g) /\ v.best = <<Trial(es, g, c)>> /\ (v.ambiguous <=> Rival(es, K, c, g))
  <2>1. CASE C = {}
    BY <1>4, <2>1
  <2>2. CASE C # {}
    <3>1. PICK g : Wins(es, C, c, g) /\ w.best = <<Trial(es, g, c)>> /\ (w.ambiguous <=> Rival(es, C, c, g))
      BY <2>2 DEF Chosen
    <3> QED
      BY <1>5, <3>1
  <2> QED
    BY <2>1, <2>2
<1> QED
  BY <1>2, <1>6 DEF Chosen

\* No overload is registered twice.
Distinct(fs) == \A j, k \in DOMAIN fs : fs[j] = fs[k] => j = k

\* The candidates that compile, among the first k overloads and among all.
SuitableUpTo(es, fs, c, k) ==
  {f \in Signatures : /\ \E j \in 1 .. k : fs[j] = f
                      /\ Applies(fs, f, c.scope) /\ Trial(es, f, c).ok}

Suitable(es, fs, c) == {f \in ToSet(fs) : Applies(fs, f, c.scope) /\ Trial(es, f, c).ok}

IsContest(g, es, fs, c) ==
  g = [k \in 0 .. Len(fs) |->
         IF k = 0 THEN [best |-> <<>>, ambiguous |-> FALSE] ELSE Candidate(es, fs, fs[k], c, g[k - 1])]

\* The same for an overload that may not apply.
LEMMA CandidateType ==
  ASSUME NEW es \in Seq(Conversions), NEW fs, NEW f \in Signatures, NEW c \in Calls, NEW w \in Winners
  PROVE  Candidate(es, fs, f, c, w) \in Winners
<1>1. PICK x : x = Trial(es, f, c)
  OBVIOUS
<1>2. x \in Ranked
  BY <1>1, TrialFacts
<1>3. Contest(w, x) \in Winners
  BY <1>2, ContestType
<1> QED
  BY <1>1, <1>3 DEF Candidate

\* The overloads are tried one after the other.
LEMMA WinnerSteps ==
  ASSUME NEW es \in Seq(Conversions), NEW fs \in Seq(Signatures), NEW c \in Calls
  PROVE  \E g : /\ Winner(es, fs, c) = g[Len(fs)]
                /\ g[0] = [best |-> <<>>, ambiguous |-> FALSE]
                /\ \A k \in 1 .. Len(fs) : g[k] = Candidate(es, fs, fs[k], c, g[k - 1])
<1> DEFINE N == Len(fs)
           s0 == [best |-> <<>>, ambiguous |-> FALSE]
           D == [k \in 1 .. N |-> [x \in Winners |-> Candidate(es, fs, fs[k], c, x)]]
<1>1. N \in Nat /\ \A k \in 1 .. N : fs[k] \in Signatures
  OBVIOUS
<1>2. s0 \in Winners
  <2>1. <<>> \in Seq(Ranked)
    OBVIOUS
  <2> QED
    BY <2>1 DEF Winners
<1>3. \A k \in 1 .. N : \A x \in Winners : Candidate(es, fs, fs[k], c, x) \in Winners
  BY <1>1, CandidateType
<1>4. D \in [1 .. N -> [Winners -> Winners]] /\ \A k \in 1 .. N : \A x \in Winners : D[k][x] = Candidate(es, fs, fs[k], c, x)
  BY <1>3
<1> HIDE DEF D, N, s0
<1>5. PICK g : Recursive(g, s0, D, N)
  BY <1>1, <1>2, <1>4, RecursiveFunction
<1>6. g[0] = s0 /\ \A k \in 1 .. N : g[k] = D[k][g[k - 1]]
  <2> DEFINE e(k) == IF k = 0 THEN s0 ELSE D[k][g[k - 1]]
  <2>1. g = [k \in 0 .. N |-> e(k)]
    BY <1>5 DEF Recursive
  <2>2. \A k \in 0 .. N : g[k] = e(k)
    <3> HIDE DEF e
    <3> QED
      BY <2>1
  <2>3. 0 \in 0 .. N /\ \A k \in 1 .. N : k # 0 /\ k \in 0 .. N
    BY <1>1
  <2> QED
    BY <2>2, <2>3
<1>7. \A k \in 0 .. N : g[k] \in Winners
  <2>1. D \in [1 .. N -> [Winners -> Winners]]
    BY <1>4
  <2>2. g[0] = s0
    BY <1>6
  <2>3. \A k \in 1 .. N : g[k - 1] \in Winners => g[k] = D[k][g[k - 1]]
    BY <1>6
  <2> QED
    BY <1>1, <1>2, <2>1, <2>2, <2>3, RecursionIs, ZenonT(60)
<1>8. \A k \in 1 .. N : g[k] = Candidate(es, fs, fs[k], c, g[k - 1])
  <2>1. ASSUME NEW k \in 1 .. N
        PROVE  g[k] = Candidate(es, fs, fs[k], c, g[k - 1])
    <3>1. k - 1 \in 0 .. N
      BY <1>1
    <3>2. g[k - 1] \in Winners
      BY <1>7, <3>1
    <3> QED
      BY <1>4, <1>6, <3>2
  <2> QED
    BY <2>1
<1>9. \E h : IsContest(h, es, fs, c)
  <2> DEFINE e(k) == IF k = 0 THEN s0 ELSE D[k][g[k - 1]]
             d(k) == IF k = 0 THEN s0 ELSE Candidate(es, fs, fs[k], c, g[k - 1])
  <2>1. \A k \in 0 .. N : e(k) = d(k)
    <3>1. \A k \in 0 .. N : k = 0 \/ k \in 1 .. N
      BY <1>1
    <3> QED
      BY <1>6, <1>8, <3>1
  <2>2. g = [k \in 0 .. N |-> e(k)]
    BY <1>5 DEF Recursive
  <2>3. g = [k \in 0 .. N |-> d(k)]
    <3> HIDE DEF e, d
    <3> QED
      BY <2>1, <2>2
  <2> QED
    BY <2>3 DEF IsContest, N, s0
<1>10. PICK h : h = CHOOSE x : IsContest(x, es, fs, c)
  OBVIOUS
<1>11. IsContest(h, es, fs, c)
  BY <1>9, <1>10
<1>12. Winner(es, fs, c) = h[N]
  BY <1>10 DEF IsContest, N, Winner
<1>13. h[0] = s0 /\ \A k \in 1 .. N : h[k] = Candidate(es, fs, fs[k], c, h[k - 1])
  <2> DEFINE d(k) == IF k = 0 THEN s0 ELSE Candidate(es, fs, fs[k], c, h[k - 1])
  <2>1. h = [k \in 0 .. N |-> d(k)]
    BY <1>11 DEF IsContest, N, s0
  <2>2. \A k \in 0 .. N : h[k] = d(k)
    <3> HIDE DEF d
    <3> QED
      BY <2>1
  <2>3. 0 \in 0 .. N /\ \A k \in 1 .. N : k # 0 /\ k \in 0 .. N
    BY <1>1
  <2> QED
    BY <2>2, <2>3
<1> QED
  BY <1>12, <1>13 DEF N, s0

\* The candidate that won is one of those that none is better than.
LEMMA WinnerIs ==
  ASSUME NEW es \in Seq(Conversions), NEW fs \in Seq(Signatures), Distinct(fs), NEW c \in Calls
  PROVE  Chosen(es, Suitable(es, fs, c), c, Winner(es, fs, c))
<1>1. PICK g : /\ Winner(es, fs, c) = g[Len(fs)]
               /\ g[0] = [best |-> <<>>, ambiguous |-> FALSE]
               /\ \A k \in 1 .. Len(fs) : g[k] = Candidate(es, fs, fs[k], c, g[k - 1])
  BY WinnerSteps
<1>2. Len(fs) \in Nat /\ DOMAIN fs = 1 .. Len(fs) /\ \A k \in 1 .. Len(fs) : fs[k] \in Signatures
  OBVIOUS
<1> PICK N : N = Len(fs)
  OBVIOUS
<1> DEFINE C(k) == SuitableUpTo(es, fs, c, k)
           P(k) == Chosen(es, C(k), c, g[k])
           T == {k \in 0 .. N : P(k)}
<1>3. 0 \in T
  <2>1. C(0) = {}
    BY DEF SuitableUpTo
  <2>2. g[0] \in Winners /\ g[0].best = <<>>
    <3>1. <<>> \in Seq(Ranked)
      OBVIOUS
    <3> QED
      BY <1>1, <3>1 DEF Winners
  <2>3. P(0)
    BY <2>1, <2>2 DEF Chosen
  <2>4. 0 \in 0 .. N
    BY <1>2
  <2> HIDE DEF P
  <2> QED
    BY <2>3, <2>4
<1>4. ASSUME NEW k \in T, k < N
      PROVE  k + 1 \in T
  <2>1. k \in 0 .. N /\ P(k)
    OBVIOUS
  <2> HIDE DEF P, T
  <2>2. k + 1 \in 1 .. N /\ k + 1 \in 0 .. N /\ (k + 1) - 1 = k
    BY <1>2, <1>4, <2>1
  <2> PICK l, f, x : l = k + 1 /\ f = fs[l] /\ x = Trial(es, f, c)
    OBVIOUS
  <2>3. f \in Signatures /\ g[l] = Candidate(es, fs, f, c, g[k])
    BY <1>1, <1>2, <2>2
  <2>4. \A j \in 1 .. l : j \in 1 .. k \/ j = l
    BY <2>1, <2>2
  <2>5. \A j \in 1 .. k : j \in 1 .. l /\ j # l /\ j \in 1 .. N
    BY <1>2, <2>1, <2>2
  <2>6. l \in 1 .. l
    BY <2>2
  <2>7. CASE Applies(fs, f, c.scope) /\ x.ok
    <3>1. C(l) = C(k) \union {f}
      BY <2>3, <2>4, <2>5, <2>6, <2>7 DEF SuitableUpTo
    <3>2. f \notin C(k)
      <4> SUFFICES ASSUME f \in C(k) PROVE FALSE
        OBVIOUS
      <4>1. PICK j \in 1 .. k : fs[j] = f
        BY DEF SuitableUpTo
      <4> QED
        BY <1>2, <2>2, <2>5, <4>1 DEF Distinct
    <3>3. g[l] = Contest(g[k], x)
      BY <2>3, <2>7 DEF Candidate
    <3>4. C(k) \in SUBSET Signatures
      BY DEF SuitableUpTo
    <3>5. PICK w, K : w = g[k] /\ K = C(k)
      OBVIOUS
    <3>6. Chosen(es, K, c, w) /\ K \in SUBSET Signatures /\ f \notin K
      BY <2>1, <3>2, <3>4, <3>5 DEF P
    <3>7. Chosen(es, K \union {f}, c, Contest(w, x))
      BY <2>3, <3>6, ContestStep
    <3>8. P(l)
      BY <3>1, <3>3, <3>5, <3>7 DEF P
    <3> QED
      BY <2>2, <3>8 DEF T
  <2>8. CASE ~(Applies(fs, f, c.scope) /\ x.ok)
    <3>1. C(l) = C(k)
      BY <2>4, <2>5, <2>8 DEF SuitableUpTo
    <3>2. g[l] = g[k]
      BY <2>3, <2>8 DEF Candidate
    <3>3. P(l)
      BY <2>1, <3>1, <3>2 DEF P
    <3> QED
      BY <2>2, <3>3 DEF T
  <2> QED
    BY <2>7, <2>8
<1>5. 0 .. N \subseteq T
  <2>1. T \in SUBSET Nat
    BY <1>2
  <2> HIDE DEF T
  <2> QED
    BY <1>2, <1>3, <1>4, <2>1, InductionUpTo
<1>6. P(N)
  <2>1. N \in 0 .. N
    BY <1>2
  <2> HIDE DEF P
  <2> QED
    BY <1>5, <2>1
<1>7. C(N) = Suitable(es, fs, c)
  BY <1>2 DEF Suitable, SuitableUpTo, ToSet
<1> QED
  BY <1>1, <1>6, <1>7

-----------------------------------------------------------------------------
(* What a call is resolved to                                               *)

\* Winner g is called, unless it has a rival.
Verdict(es, C, c, g, r) ==
  r = IF Rival(es, C, c, g) THEN Unresolved("ambiguous") ELSE [ok |-> TRUE, why |-> "", chosen |-> g]

\* What a call among candidates C is resolved to.
Resolves(es, fs, c, C, r) ==
  /\ Overflows(es, fs, c) => r = Unresolved("overflow")
  /\ ~Overflows(es, fs, c) /\ C = {} => r = Unresolved("none")
  /\ ~Overflows(es, fs, c) /\ C # {} => \E g : Wins(es, C, c, g) /\ Verdict(es, C, c, g, r)

\* An outcome that is not an error.
LEMMA ChosenIs ==
  ASSUME NEW g, NEW r, r = [ok |-> TRUE, why |-> "", chosen |-> g]
  PROVE  r.ok /\ r.chosen = g
<1>1. r.chosen = g
  OBVIOUS
<1>2. r.ok
  OBVIOUS
<1> QED
  BY <1>1, <1>2

\* A call is resolved to a candidate that none beats, unless another ties
\* with it (resolve_function).
LEMMA ResolveIs ==
  ASSUME NEW es \in Seq(Conversions), NEW fs \in Seq(Signatures), Distinct(fs), NEW c \in Calls,
         NEW C, C = Suitable(es, fs, c), NEW r, r = Resolve(es, fs, c)
  PROVE  Resolves(es, fs, c, C, r)
<1> PICK w : w = Winner(es, fs, c)
  OBVIOUS
<1>1. Chosen(es, C, c, w)
  BY WinnerIs
<1>2. r = IF Overflows(es, fs, c) THEN Unresolved("overflow")
          ELSE IF w.best = <<>> THEN Unresolved("none")
          ELSE IF w.ambiguous THEN Unresolved("ambiguous")
          ELSE [ok |-> TRUE, why |-> "", chosen |-> w.best[1].f]
  BY DEF Resolve
<1>3. CASE Overflows(es, fs, c)
  BY <1>2, <1>3 DEF Resolves
<1>4. CASE ~Overflows(es, fs, c) /\ C = {}
  BY <1>1, <1>2, <1>4 DEF Chosen, Resolves
<1>5. CASE ~Overflows(es, fs, c) /\ C # {}
  <2>1. PICK g : Wins(es, C, c, g) /\ w.best = <<Trial(es, g, c)>> /\ (w.ambiguous <=> Rival(es, C, c, g))
    BY <1>1, <1>5 DEF Chosen
  <2>2. g \in Signatures
    BY <2>1 DEF Suitable, ToSet, Wins
  <2>3. w.best # <<>> /\ w.best[1].f = g
    <3>1. w.best[1] = Trial(es, g, c) /\ w.best # <<>>
      BY <2>1
    <3>2. PICK x : x = Trial(es, g, c)
      OBVIOUS
    <3>3. x.f = g
      BY <2>2, <3>2, TrialFacts
    <3> QED
      BY <3>1, <3>2, <3>3
  <2>4. Verdict(es, C, c, g, r)
    BY <1>2, <1>5, <2>1, <2>3 DEF Verdict
  <2> QED
    BY <1>5, <2>1, <2>4 DEF Resolves
<1> QED
  BY <1>3, <1>4, <1>5

\* Two winners among the same candidates are as good as each other.
LEMMA WinnersTie ==
  ASSUME NEW es \in Seq(Conversions), NEW c \in Calls, NEW C \in SUBSET Signatures,
         NEW g, NEW h, Wins(es, C, c, g), Wins(es, C, c, h)
  PROVE  /\ Tied(Trial(es, g, c), Trial(es, h, c)) /\ Tied(Trial(es, h, c), Trial(es, g, c))
         /\ g # h => Rival(es, C, c, g) /\ Rival(es, C, c, h)
<1> PICK x, y : x = Trial(es, g, c) /\ y = Trial(es, h, c)
  OBVIOUS
<1>1. g \in C /\ h \in C /\ ~Better(x, y) /\ ~Better(y, x)
  BY DEF Wins
<1>2. x \in Ranked /\ y \in Ranked
  BY <1>1, TrialFacts
<1>3. Tied(x, y) /\ Tied(y, x)
  BY <1>1, <1>2, BetterFacts
<1> QED
  BY <1>1, <1>3 DEF Rival

\* The same overloads in another order.
LEMMA SameOutcome ==
  ASSUME NEW es \in Seq(Conversions), NEW fs \in Seq(Signatures), NEW gs \in Seq(Signatures),
         Distinct(fs), Distinct(gs), ToSet(fs) = ToSet(gs), NEW c \in Calls
  PROVE  Resolve(es, fs, c) = Resolve(es, gs, c)
<1>1. \A f : Applies(fs, f, c.scope) <=> Applies(gs, f, c.scope)
  <2>1. (\E k \in DOMAIN fs : fs[k].scope = c.scope) <=> (\E k \in DOMAIN gs : gs[k].scope = c.scope)
    BY DEF ToSet
  <2> QED
    BY <2>1 DEF Applies
<1>2. Suitable(es, fs, c) = Suitable(es, gs, c)
  BY <1>1 DEF Suitable
<1>3. Overflows(es, fs, c) <=> Overflows(es, gs, c)
  <2>1. Overflows(es, fs, c)
          <=> (\E f \in ToSet(fs) : Applies(fs, f, c.scope) /\ WeighsReturn(f, c) /\ TooFar(es, f.ret, c.exp))
    BY DEF Overflows, ToSet
  <2>2. Overflows(es, gs, c)
          <=> (\E f \in ToSet(gs) : Applies(gs, f, c.scope) /\ WeighsReturn(f, c) /\ TooFar(es, f.ret, c.exp))
    BY DEF Overflows, ToSet
  <2> QED
    BY <1>1, <2>1, <2>2
<1> PICK C, r, q : C = Suitable(es, fs, c) /\ r = Resolve(es, fs, c) /\ q = Resolve(es, gs, c)
  OBVIOUS
<1>4. Resolves(es, fs, c, C, r)
  BY ResolveIs
<1>5. Resolves(es, gs, c, C, q)
  <2>1. C = Suitable(es, gs, c)
    BY <1>2
  <2> QED
    BY <2>1, ResolveIs
<1>6. CASE Overflows(es, fs, c)
  BY <1>3, <1>4, <1>5, <1>6 DEF Resolves
<1>7. CASE ~Overflows(es, fs, c) /\ C = {}
  BY <1>3, <1>4, <1>5, <1>7 DEF Resolves
<1>8. CASE ~Overflows(es, fs, c) /\ C # {}
  <2>1. PICK g : Wins(es, C, c, g) /\ Verdict(es, C, c, g, r)
    BY <1>4, <1>8 DEF Resolves
  <2>2. PICK h : Wins(es, C, c, h) /\ Verdict(es, C, c, h, q)
    BY <1>3, <1>5, <1>8 DEF Resolves
  <2>3. C \in SUBSET Signatures
    BY DEF Suitable, ToSet
  <2>4. g # h => Rival(es, C, c, g) /\ Rival(es, C, c, h)
    BY <2>1, <2>2, <2>3, WinnersTie
  <2>5. r = q
    <3>1. CASE g = h
      BY <2>1, <2>2, <3>1 DEF Verdict
    <3>2. CASE g # h
      <4>1. r = Unresolved("ambiguous") /\ q = Unresolved("ambiguous")
        BY <2>1, <2>2, <2>4, <3>2 DEF Verdict
      <4> QED
        BY <4>1
    <3> QED
      BY <3>1, <3>2
  <2> QED
    BY <2>5
<1> QED
  BY <1>6, <1>7, <1>8

\* The candidate that is called is the only one that none beats; if there are
\* several, the call is ambiguous.
LEMMA BestIsChosen ==
  ASSUME NEW es \in Seq(Conversions), NEW fs \in Seq(Signatures), Distinct(fs), NEW c \in Calls,
         NEW C, C = Suitable(es, fs, c), NEW r, r = Resolve(es, fs, c)
  PROVE  \/ r.ok /\ \A g : Wins(es, C, c, g) <=> g = r.chosen
         \/ ~r.ok /\ r.why = "ambiguous" /\ \E f, g : f # g /\ Wins(es, C, c, f) /\ Wins(es, C, c, g)
         \/ ~r.ok /\ r.why = "none" /\ C = {}
         \/ ~r.ok /\ r.why = "overflow" /\ Overflows(es, fs, c)
<1>1. \A why : ~Unresolved(why).ok /\ Unresolved(why).why = why
  BY DEF Unresolved
<1>2. Resolves(es, fs, c, C, r)
  BY ResolveIs
<1>3. CASE Overflows(es, fs, c)
  BY <1>1, <1>2, <1>3 DEF Resolves
<1>4. CASE ~Overflows(es, fs, c) /\ C = {}
  BY <1>1, <1>2, <1>4 DEF Resolves
<1>5. CASE ~Overflows(es, fs, c) /\ C # {}
  <2>1. PICK g : Wins(es, C, c, g) /\ Verdict(es, C, c, g, r)
    BY <1>2, <1>5 DEF Resolves
  <2>2. C \in SUBSET Signatures
    BY DEF Suitable, ToSet
  <2>3. CASE Rival(es, C, c, g)
    <3>1. r = Unresolved("ambiguous")
      BY <2>1, <2>3 DEF Verdict
    <3>2. PICK h \in C : h # g /\ Tied(Trial(es, h, c), Trial(es, g, c))
      BY <2>3 DEF Rival
    <3>3. \A i \in C : ~Better(Trial(es, i, c), Trial(es, h, c))
      <4>1. ASSUME NEW i \in C
            PROVE  ~Better(Trial(es, i, c), Trial(es, h, c))
        <5>1. PICK x, y, z : x = Trial(es, i, c) /\ y = Trial(es, h, c) /\ z = Trial(es, g, c)
          OBVIOUS
        <5>2. x \in Ranked /\ y \in Ranked /\ z \in Ranked
          BY <2>1, <2>2, <3>2, <5>1, TrialFacts DEF Wins
        <5>3. Tied(y, z) /\ ~Better(x, z)
          BY <2>1, <3>2, <5>1 DEF Wins
        <5>4. ~Better(x, y)
          BY <5>2, <5>3, BetterIsTransitive
        <5> QED
          BY <5>1, <5>4
      <4> QED
        BY <4>1
    <3>4. Wins(es, C, c, h)
      BY <3>2, <3>3 DEF Wins
    <3> QED
      BY <1>1, <2>1, <3>1, <3>2, <3>4
  <2>4. CASE ~Rival(es, C, c, g)
    <3>1. r = [ok |-> TRUE, why |-> "", chosen |-> g]
      BY <2>1, <2>4 DEF Verdict
    <3>2. r.ok /\ r.chosen = g
      BY <3>1, ChosenIs
    <3>3. ASSUME NEW h, Wins(es, C, c, h)
          PROVE  h = g
      BY <2>1, <2>2, <2>4, <3>3, WinnersTie
    <3> QED
      BY <2>1, <3>2, <3>3
  <2> QED
    BY <2>3, <2>4
<1> QED
  BY <1>3, <1>4, <1>5

\* Overload f takes the arguments of the call as they are written.
AsWritten(c, f) == f.args = [k \in 1 .. Len(c.args) |-> TypeOf(c.args[k])]

\* A candidate that costs nothing takes the arguments as they are.
LEMMA CostsNothing ==
  ASSUME NEW es \in Seq(Conversions), \A k \in DOMAIN es : es[k].cost > 0,
         NEW fs \in Seq(Signatures), NEW c \in Calls, Weighed(c) = DOMAIN c.args,
         NEW f \in Suitable(es, fs, c), TotalCost(es, f, c) = 0
  PROVE  AsWritten(c, f)
<1>1. f \in Signatures /\ Applies(fs, f, c.scope) /\ Trial(es, f, c).ok
  BY DEF Suitable, ToSet
<1>2. Arguments(es, f, c).ok
  <2>1. PICK x : x = Trial(es, f, c)
    OBVIOUS
  <2> QED
    BY <1>1, <2>1, TrialFacts
<1>3. ArgumentsCost(es, f, c) = 0
  <2>1. PICK a, r : a = ArgumentsCost(es, f, c) /\ r = ReturnCost(es, f, c)
    OBVIOUS
  <2>2. r \in Nat
    BY <2>1, CostFacts DEF ReturnCost
  <2>3. a \in Nat
    <3>1. PICK h : IsSum(h, Weight(es, f, c), Len(c.args)) /\ ArgumentsCost(es, f, c) = h[Len(c.args)]
      BY ArgumentsCostIs
    <3>2. Len(c.args) \in 0 .. Len(c.args)
      <4>1. Len(c.args) \in Nat
        BY WeightFacts
      <4> QED
        BY <4>1
    <3>3. \A k \in 0 .. Len(c.args) : h[k] \in Nat
      BY <3>1, ArgumentSumFacts
    <3> QED
      BY <2>1, <3>1, <3>2, <3>3
  <2>4. 2 * a + r = 0
    BY <2>1 DEF TotalCost
  <2> QED
    BY <2>1, <2>2, <2>3, <2>4
<1>4. Len(c.args) = Len(f.args) /\ \A k \in 1 .. Len(c.args) : f.args[k] = TypeOf(c.args[k])
  BY <1>1, <1>2, <1>3, NothingConverted
<1>5. f.args = [k \in 1 .. Len(c.args) |-> TypeOf(c.args[k])]
  <2>1. f.args \in Seq(STRING)
    BY <1>1, OverloadAssumption
  <2>2. f.args = [k \in 1 .. Len(f.args) |-> f.args[k]]
    BY <2>1
  <2> QED
    BY <1>4, <2>2
<1> QED
  BY <1>5 DEF AsWritten

\* Such a candidate is the one that is called, unless the scope is untyped and
\* another scope has one like it.
LEMMA ExactMatchIsChosen ==
  ASSUME NEW es \in Seq(Conversions), \A k \in DOMAIN es : es[k].cost > 0,
         NEW fs \in Seq(Signatures),
         \A j, k \in DOMAIN fs : fs[j].scope = fs[k].scope /\ fs[j].args = fs[k].args => j = k,
         NEW c \in Calls, Weighed(c) = DOMAIN c.args,
         NEW f \in Suitable(es, fs, c), TotalCost(es, f, c) = 0
  PROVE  \/ Resolve(es, fs, c).chosen = f
         \/ Resolve(es, fs, c).why = "overflow"
         \/ c.scope = Untyped /\ \E g \in Suitable(es, fs, c) : g # f /\ g.args = f.args
<1> SUFFICES ASSUME c.scope = Untyped => \A g \in Suitable(es, fs, c) : g.args = f.args => g = f
             PROVE  Resolve(es, fs, c).chosen = f \/ Resolve(es, fs, c).why = "overflow"
  OBVIOUS
<1> PICK C, r : C = Suitable(es, fs, c) /\ r = Resolve(es, fs, c)
  OBVIOUS
<1>1. Distinct(fs)
  BY DEF Distinct
<1>2. Resolves(es, fs, c, C, r)
  BY <1>1, ResolveIs
<1>3. CASE Overflows(es, fs, c)
  <2>1. r = Unresolved("overflow")
    BY <1>3, <1>2 DEF Resolves
  <2> QED
    BY <2>1 DEF Unresolved
<1>4. CASE ~Overflows(es, fs, c)
  <2>1. PICK g : Wins(es, C, c, g) /\ Verdict(es, C, c, g, r)
    BY <1>4, <1>2 DEF Resolves
  <2>2. ASSUME NEW h \in C, Trial(es, h, c).cost = 0
        PROVE  h = f
    <3>1. PICK x : x = Trial(es, h, c)
      OBVIOUS
    <3>2. h \in Signatures /\ x.ok
      BY <3>1 DEF Suitable, ToSet
    <3>3. TotalCost(es, h, c) = 0
      BY <2>2, <3>1, <3>2, TrialFacts
    <3>4. AsWritten(c, f)
      BY CostsNothing
    <3>5. AsWritten(c, h)
      BY <2>2, <3>3, CostsNothing
    <3>6. h.args = f.args
      BY <3>4, <3>5 DEF AsWritten
    <3>7. CASE c.scope = Untyped
      BY <3>6, <3>7
    <3>8. CASE c.scope # Untyped
      <4>1. Applies(fs, h, c.scope) /\ Applies(fs, f, c.scope)
        BY DEF Suitable
      <4>2. h.scope = f.scope
        BY <3>8, <4>1 DEF Applies
      <4>3. PICK j, k : j \in DOMAIN fs /\ k \in DOMAIN fs /\ fs[j] = h /\ fs[k] = f
        BY DEF Suitable, ToSet
      <4> QED
        BY <3>6, <4>2, <4>3
    <3> QED
      BY <3>7, <3>8
  <2>3. Trial(es, f, c).cost = 0 /\ Trial(es, f, c) \in Ranked
    <3>1. PICK x : x = Trial(es, f, c)
      OBVIOUS
    <3>2. f \in Signatures /\ x.ok
      BY <3>1 DEF Suitable, ToSet
    <3> QED
      BY <3>1, <3>2, TrialFacts
  <2>4. g \in C /\ g \in Signatures
    BY <2>1 DEF Suitable, ToSet, Wins
  <2>5. g = f
    <3>1. PICK x, y : x = Trial(es, g, c) /\ y = Trial(es, f, c)
      OBVIOUS
    <3>2. x \in Ranked
      BY <2>4, <3>1, TrialFacts
    <3>3. x.cost <= y.cost
      <4>1. ~Better(y, x)
        BY <2>1, <3>1 DEF Wins
      <4> QED
        BY <2>3, <3>1, <3>2, <4>1, BetterFacts
    <3>4. x.cost = 0
      BY <2>3, <3>1, <3>2, <3>3 DEF Ranked
    <3> QED
      BY <2>2, <2>4, <3>1, <3>4
  <2>6. ~Rival(es, C, c, g)
    <3>1. ASSUME NEW h \in C, h # g, Tied(Trial(es, h, c), Trial(es, g, c))
          PROVE  FALSE
      <4>1. Trial(es, h, c).cost = 0
        BY <2>3, <2>5, <3>1 DEF Tied
      <4> QED
        BY <2>2, <2>5, <3>1, <4>1
    <3> QED
      BY <3>1 DEF Rival
  <2>7. r = [ok |-> TRUE, why |-> "", chosen |-> f]
    BY <2>1, <2>5, <2>6 DEF Verdict
  <2>8. r.chosen = f
    BY <2>7, ChosenIs
  <2> QED
    BY <2>8
<1> QED
  BY <1>3, <1>4


-----------------------------------------------------------------------------
(* What holds of every behaviour                                            *)

\* No two edges between the same types, no two overloads alike.
UniqueEdges(es) == \A j, k \in DOMAIN es : es[j].from = es[k].from /\ es[j].to = es[k].to => j = k
UniqueOverloads(fs) == \A j, k \in DOMAIN fs : fs[j].scope = fs[k].scope /\ fs[j].args = fs[k].args => j = k

\* The inductive invariant: what is registered, and that the outcome is what
\* the last call is resolved to among it.
ChoiceInv ==
  /\ edges \in Seq(Conversions) /\ Len(edges) <= MaxEdges /\ UniqueEdges(edges)
  /\ overloads \in Seq(Signatures) /\ Len(overloads) <= MaxOverloads /\ UniqueOverloads(overloads)
  /\ call \in Calls \union {NoCall}
  /\ IF call = NoCall THEN ~outcome.ok ELSE outcome = Resolve(edges, overloads, call)

\* A conversion that is registered again keeps the place of its edge, and
\* there is still one edge at most between two types (register_implicit_conversion).
LEMMA RegisterFacts ==
  ASSUME NEW es \in Seq(Conversions), UniqueEdges(es), NEW e \in Conversions, NEW r, r = RegisterConversion(es, e)
  PROVE  r \in Seq(Conversions) /\ UniqueEdges(r)
<1> DEFINE same == {k \in DOMAIN es : es[k].from = e.from /\ es[k].to = e.to}
<1>1. Len(es) \in Nat /\ DOMAIN es = 1 .. Len(es) /\ \A k \in DOMAIN es : es[k] \in Conversions
  OBVIOUS
<1>2. CASE same = {}
  <2>1. r = Append(es, e)
    BY <1>2 DEF RegisterConversion
  <2>2. r \in Seq(Conversions) /\ DOMAIN r = 1 .. Len(es) + 1
    BY <2>1
  <2>3. /\ \A k \in 1 .. Len(es) : r[k] = es[k]
        /\ r[Len(es) + 1] = e
    BY <2>1
  <2>4. ASSUME NEW j \in DOMAIN r, NEW k \in DOMAIN r, r[j].from = r[k].from, r[j].to = r[k].to
        PROVE  j = k
    <3>1. (j \in DOMAIN es \/ j = Len(es) + 1) /\ (k \in DOMAIN es \/ k = Len(es) + 1)
      BY <1>1, <2>2
    <3>2. CASE j \in DOMAIN es /\ k \in DOMAIN es
      BY <1>1, <2>3, <2>4, <3>2 DEF UniqueEdges
    <3>3. CASE j \in DOMAIN es /\ k = Len(es) + 1
      <4>1. j \in same
        BY <1>1, <2>3, <2>4, <3>3
      <4> QED
        BY <1>2, <4>1
    <3>4. CASE j = Len(es) + 1 /\ k \in DOMAIN es
      <4>1. k \in same
        BY <1>1, <2>3, <2>4, <3>4
      <4> QED
        BY <1>2, <4>1
    <3> QED
      BY <3>1, <3>2, <3>3, <3>4
  <2> QED
    BY <2>2, <2>4 DEF UniqueEdges
<1>3. CASE same # {}
  <2>1. PICK i \in same : r = [es EXCEPT ![i] = e]
    <3>1. r = [es EXCEPT ![CHOOSE k \in same : TRUE] = e]
      BY <1>3 DEF RegisterConversion
    <3>2. (CHOOSE k \in same : TRUE) \in same
      BY <1>3
    <3> QED
      BY <3>1, <3>2
  <2>2. r \in Seq(Conversions) /\ DOMAIN r = DOMAIN es
    BY <2>1
  <2>3. \A k \in DOMAIN r : r[k].from = es[k].from /\ r[k].to = es[k].to
    BY <2>1, <2>2
  <2> QED
    BY <2>2, <2>3 DEF UniqueEdges
<1> QED
  BY <1>2, <1>3

\* A call has arguments.
LEMMA CallIsMade ==
  ASSUME NEW c \in Calls
  PROVE  c # NoCall
<1>1. c.args # <<>>
  BY OverloadAssumption
<1>2. NoCall.args = <<>>
  BY DEF NoCall
<1> QED
  BY <1>1, <1>2

\* One conversion is registered, and nothing was called.
LEMMA ChoiceInvInit == Init => ChoiceInv
<1> SUFFICES ASSUME Init PROVE ChoiceInv
  OBVIOUS
<1>1. edges = <<IntToFloat>> /\ overloads = <<>> /\ call = NoCall /\ outcome = Unresolved("")
  BY DEF Init
<1>2. ~outcome.ok
  BY <1>1 DEF Unresolved
<1>3. 1 <= MaxEdges /\ 0 <= MaxOverloads /\ IntToFloat \in Conversions
  BY OverloadAssumption
<1>4. edges \in Seq(Conversions) /\ Len(edges) = 1
  <2>1. PICK e : e = IntToFloat
    OBVIOUS
  <2>2. e \in Conversions /\ edges = <<e>>
    BY <1>1, <1>3, <2>1
  <2> QED
    BY <2>2
<1>5. overloads \in Seq(Signatures) /\ Len(overloads) = 0
  <2>1. ASSUME NEW S
        PROVE  <<>> \in Seq(S) /\ Len(<<>>) = 0
    OBVIOUS
  <2> QED
    BY <1>1, <2>1, Zenon
<1>6. UniqueEdges(edges) /\ UniqueOverloads(overloads)
  <2>1. DOMAIN edges = 1 .. 1 /\ DOMAIN overloads = 1 .. 0
    BY <1>4, <1>5
  <2> QED
    BY <2>1 DEF UniqueEdges, UniqueOverloads
<1> QED
  BY <1>1, <1>2, <1>3, <1>4, <1>5, <1>6 DEF ChoiceInv

\* Registering keeps edges and overloads apart; a call is resolved among what
\* is registered then, and nothing is registered after it.
LEMMA ChoiceInvNext == ChoiceInv /\ [Next]_vars => ChoiceInv'
<1> SUFFICES ASSUME ChoiceInv, [Next]_vars PROVE ChoiceInv'
  OBVIOUS
<1>1. CASE AddConversion
  <2>1. PICK e \in Conversions : /\ call = NoCall
                                 /\ edges' = RegisterConversion(edges, e) /\ Len(edges') <= MaxEdges
                                 /\ UNCHANGED <<overloads, call, outcome>>
    BY <1>1 DEF AddConversion
  <2>2. edges' \in Seq(Conversions) /\ UniqueEdges(edges')
    <3>1. PICK r : r = RegisterConversion(edges, e)
      OBVIOUS
    <3>2. r \in Seq(Conversions) /\ UniqueEdges(r)
      BY <3>1, RegisterFacts DEF ChoiceInv
    <3> QED
      BY <2>1, <3>1, <3>2
  <2> QED
    BY <2>1, <2>2 DEF ChoiceInv, UniqueEdges, UniqueOverloads
<1>2. CASE AddOverload
  <2>1. PICK f \in Signatures : /\ call = NoCall
                                /\ Len(overloads) < MaxOverloads /\ Registrable(f)
                                /\ overloads' = Append(overloads, f)
                                /\ UNCHANGED <<edges, call, outcome>>
    BY <1>2 DEF AddOverload
  <2>2. /\ overloads \in Seq(Signatures) /\ Len(overloads) \in Nat /\ DOMAIN overloads = 1 .. Len(overloads)
        /\ UniqueOverloads(overloads) /\ MaxOverloads \in Nat
    BY OverloadAssumption DEF ChoiceInv
  <2>3. overloads' \in Seq(Signatures) /\ Len(overloads') = Len(overloads) + 1 /\ DOMAIN overloads' = 1 .. Len(overloads) + 1
    BY <2>1, <2>2
  <2>4. (\A k \in 1 .. Len(overloads) : overloads'[k] = overloads[k]) /\ overloads'[Len(overloads) + 1] = f
    BY <2>1, <2>2
  <2>5. \A k \in DOMAIN overloads : ~(overloads[k].scope = f.scope /\ overloads[k].args = f.args)
    BY <2>1 DEF Registrable
  <2>6. UniqueOverloads(overloads')
    BY <2>2, <2>3, <2>4, <2>5 DEF UniqueOverloads
  <2> QED
    BY <2>1, <2>2, <2>3, <2>6 DEF ChoiceInv, UniqueEdges, UniqueOverloads
<1>3. CASE Parse
  <2>1. PICK c \in Calls : /\ call' = c /\ outcome' = Resolve(edges, overloads, c)
                           /\ UNCHANGED <<edges, overloads>>
    BY <1>3 DEF Parse
  <2>2. call' # NoCall
    BY <2>1, CallIsMade
  <2> QED
    BY <2>1, <2>2 DEF ChoiceInv, UniqueEdges, UniqueOverloads
<1>4. CASE UNCHANGED vars
  BY <1>4 DEF ChoiceInv, UniqueEdges, UniqueOverloads, vars
<1> QED
  BY <1>1, <1>2, <1>3, <1>4 DEF Next

\* What is registered has no two edges between the same types and no two
\* overloads alike, and the outcome is what the call is resolved to.
THEOREM ChoiceInvHolds == Spec => []ChoiceInv
<1>1. Init => ChoiceInv
  BY ChoiceInvInit
<1>2. ChoiceInv /\ [Next]_vars => ChoiceInv'
  BY ChoiceInvNext
<1> QED
  BY <1>1, <1>2, PTL DEF Spec

\* The chains of the reference definition are those the search is proved to
\* choose from.
LEMMA ChainsAre ==
  ASSUME NEW es \in Seq(Conversions), NEW from, NEW to, NEW s
  PROVE  s \in Chains(es, from, to) <=> ChainOf(es, s, from, to) /\ Len(s) <= Len(es)
<1>1. Len(es) \in Nat /\ DOMAIN es = 1 .. Len(es) /\ \A i \in DOMAIN es : es[i] \in Conversions
  OBVIOUS
<1>2. ASSUME s \in Chains(es, from, to)
      PROVE  ChainOf(es, s, from, to) /\ Len(s) <= Len(es)
  <2>1. PICK m \in 0 .. Len(es) : s \in [1 .. m -> ToSet(es)]
    BY <1>2 DEF Chains, SeqOf
  <2>2. /\ s = <<>> => from = to
        /\ s # <<>> => s[1].from = from /\ s[Len(s)].to = to
        /\ \A k \in 1 .. (Len(s) - 1) : s[k].to = s[k + 1].from
    BY <1>2 DEF Chains
  <2>3. \A k \in 1 .. m : \E i \in DOMAIN es : s[k] = es[i]
    BY <2>1 DEF ToSet
  <2>4. s \in Seq(Conversions) /\ Len(s) = m
    <3>1. \A k \in 1 .. m : s[k] \in Conversions
      BY <1>1, <2>3
    <3>2. s \in [1 .. m -> Conversions]
      BY <2>1, <3>1
    <3> QED
      BY <1>1, <3>2
  <2>5. ASSUME NEW k \in 1 .. Len(s)
        PROVE  s[k].from = At(s, from, k - 1)
    <3>1. CASE k = 1
      BY <2>2, <2>4, <2>5, <3>1 DEF At
    <3>2. CASE k # 1
      <4>1. k - 1 \in 1 .. (Len(s) - 1) /\ (k - 1) + 1 = k /\ k - 1 # 0
        BY <2>4, <3>2
      <4> QED
        BY <2>2, <4>1 DEF At
    <3> QED
      BY <3>1, <3>2
  <2>6. At(s, from, Len(s)) = to
    <3>1. CASE s = <<>>
      BY <2>2, <3>1 DEF At
    <3>2. CASE s # <<>>
      BY <2>2, <2>4, <3>2 DEF At
    <3> QED
      BY <3>1, <3>2
  <2>7. Len(s) <= Len(es)
    BY <1>1, <2>4
  <2>8. \A k \in 1 .. Len(s) : \E i \in DOMAIN es : s[k] = es[i]
    BY <2>3, <2>4
  <2> QED
    BY <2>4, <2>5, <2>6, <2>7, <2>8 DEF ChainOf
<1>3. ASSUME ChainOf(es, s, from, to), Len(s) <= Len(es)
      PROVE  s \in Chains(es, from, to)
  <2>1. s \in Seq(Conversions) /\ Len(s) \in 0 .. Len(es)
    BY <1>1, <1>3 DEF ChainOf
  <2>2. s \in [1 .. Len(s) -> ToSet(es)]
    BY <1>3, <2>1 DEF ChainOf, ToSet
  <2>3. s \in SeqOf(ToSet(es), Len(es))
    BY <2>1, <2>2 DEF SeqOf
  <2>4. s = <<>> => from = to
    BY <1>3 DEF At, ChainOf
  <2>5. s # <<>> => s[1].from = from /\ s[Len(s)].to = to
    BY <1>3, <2>1 DEF At, ChainOf
  <2>6. ASSUME NEW k \in 1 .. (Len(s) - 1)
        PROVE  s[k].to = s[k + 1].from
    <3>1. k + 1 \in 1 .. Len(s) /\ (k + 1) - 1 = k /\ k # 0
      BY <2>1
    <3>2. s[k + 1].from = At(s, from, (k + 1) - 1)
      BY <1>3, <3>1 DEF ChainOf
    <3> QED
      BY <3>1, <3>2 DEF At
  <2> QED
    BY <2>3, <2>4, <2>5, <2>6 DEF Chains
<1> QED
  BY <1>2, <1>3

\* What is claimed of a search for a conversion, for every list of edges and
\* any two types (find_conversion_path).
THEOREM SearchIsRight ==
  ASSUME NEW es \in Seq(Conversions), NEW from, NEW to, NEW p, p = FindConversionPath(es, from, to),
         NEW chains, chains = Chains(es, from, to)
  PROVE  /\ p.found <=> chains # {}
         /\ p.found => (p.overflow <=> \A s \in chains : ChainCost(s) > MaxCost)
         /\ p.found /\ ~p.overflow =>
              p.path \in chains /\ p.cost = ChainCost(p.path) /\ \A s \in chains : p.cost <= ChainCost(s)
<1>1. \A s \in chains : ChainOf(es, s, from, to) /\ ChainCost(s) \in Nat
  <2>1. \A s \in chains : ChainOf(es, s, from, to)
    BY ChainsAre
  <2> QED
    BY <2>1, ChainCostFacts DEF ChainOf
<1>2. CASE Answered(es, from, to, p)
  <2>1. /\ p.found /\ ChainOf(es, p.path, from, to) /\ p.path \in chains
        /\ p.cost = Capped(ChainCost(p.path)) /\ p.overflow = (p.cost > MaxCost)
    BY <1>2, ChainsAre DEF Answered
  <2>2. ASSUME NEW s \in chains
        PROVE  /\ ChainCost(s) \in Nat /\ Capped(ChainCost(s)) \in Nat
               /\ p.cost <= Capped(ChainCost(s)) /\ Capped(ChainCost(s)) <= ChainCost(s)
               /\ Capped(ChainCost(s)) > MaxCost <=> ChainCost(s) > MaxCost
               /\ ChainCost(s) <= MaxCost => Capped(ChainCost(s)) = ChainCost(s)
    <3>1. ChainCost(s) \in Nat /\ 0 \in Nat
      BY <1>1
    <3>2. p.cost <= Capped(ChainCost(s))
      BY <1>1, <1>2 DEF Answered
    <3> QED
      BY <3>1, <3>2, CappedFacts
  <2>3. p.cost \in Nat /\ MaxCost \in Nat
    BY <2>1, <2>2, MaxCostAssumption
  <2>4. p.overflow <=> \A s \in chains : ChainCost(s) > MaxCost
    <3>1. ASSUME p.overflow, NEW s \in chains
          PROVE  ChainCost(s) > MaxCost
      <4>1. p.cost > MaxCost
        BY <2>1, <3>1, Zenon
      <4> QED
        BY <2>2, <2>3, <4>1
    <3>2. ASSUME \A s \in chains : ChainCost(s) > MaxCost
          PROVE  p.overflow
      BY <2>1, <2>2, <3>2
    <3> QED
      BY <2>1, <3>1, <3>2
  <2>5. ASSUME ~p.overflow
        PROVE  p.cost = ChainCost(p.path) /\ \A s \in chains : p.cost <= ChainCost(s)
    <3>1. p.cost <= MaxCost
      <4>1. ~(p.cost > MaxCost)
        BY <2>1, <2>5, Zenon
      <4> QED
        BY <2>3, <4>1
    <3>2. p.cost = ChainCost(p.path)
      BY <2>1, <2>2, <2>3, <3>1
    <3>3. ASSUME NEW s \in chains
          PROVE  p.cost <= ChainCost(s)
      BY <2>2, <2>3
    <3> QED
      BY <3>2, <3>3
  <2> QED
    BY <2>1, <2>4, <2>5
<1>3. CASE ~p.found /\ \A s : ~ChainOf(es, s, from, to)
  BY <1>1, <1>3
<1> QED
  BY <1>2, <1>3, PathIs

\* The search for a conversion finds the cheapest chain there is, for every
\* set of conversions and every limit, whatever order they came in.
THEOREM ConversionsAreCheapest == Spec => []CheapestChain
<1>1. ChoiceInv => CheapestChain
  <2> SUFFICES ASSUME ChoiceInv, NEW from, NEW to, NEW p, p = FindConversionPath(edges, from, to),
                      NEW chains, chains = Chains(edges, from, to)
               PROVE  /\ p.found <=> chains # {}
                      /\ p.found => (p.overflow <=> \A s \in chains : ChainCost(s) > MaxCost)
                      /\ p.found /\ ~p.overflow =>
                           p.path \in chains /\ p.cost = ChainCost(p.path) /\ \A s \in chains : p.cost <= ChainCost(s)
    BY DEF CheapestChain
  <2>1. edges \in Seq(Conversions)
    BY DEF ChoiceInv
  <2> QED
    BY <2>1, SearchIsRight
<1> QED
  BY <1>1, ChoiceInvHolds, PTL

\* The outcome of a call is its resolution; overloads are distinct.
LEMMA CallFacts ==
  ASSUME ChoiceInv, call # NoCall
  PROVE  /\ edges \in Seq(Conversions) /\ overloads \in Seq(Signatures) /\ Distinct(overloads)
         /\ call \in Calls /\ outcome = Resolve(edges, overloads, call)
<1>1. Distinct(overloads)
  BY DEF ChoiceInv, Distinct, UniqueOverloads
<1> QED
  BY <1>1 DEF ChoiceInv

\* An outcome without an error is of a call.
LEMMA OutcomeOfCall ==
  ASSUME ChoiceInv, outcome.ok
  PROVE  call # NoCall
  BY DEF ChoiceInv

\* What is registered stays within bounds and without duplicates, and what is
\* called is one of the registered overloads.
THEOREM ChoiceTypeCorrect == Spec => []TypeOK
<1>1. ChoiceInv => TypeOK
  <2> SUFFICES ASSUME ChoiceInv PROVE TypeOK
    OBVIOUS
  <2>1. ToSet(edges) \subseteq Conversions /\ ToSet(overloads) \subseteq Signatures
    BY DEF ChoiceInv, ToSet
  <2>2. ASSUME outcome.ok
        PROVE  outcome.chosen \in ToSet(overloads)
    <3>1. /\ edges \in Seq(Conversions) /\ overloads \in Seq(Signatures) /\ Distinct(overloads)
          /\ call \in Calls /\ outcome = Resolve(edges, overloads, call)
      BY <2>2, CallFacts, OutcomeOfCall
    <3>2. PICK C, r : C = Suitable(edges, overloads, call) /\ r = outcome
      OBVIOUS
    <3>3. Wins(edges, C, call, r.chosen)
      BY <2>2, <3>1, <3>2, BestIsChosen
    <3>4. outcome.chosen \in Suitable(edges, overloads, call)
      BY <3>2, <3>3 DEF Wins
    <3> QED
      BY <3>4 DEF Suitable
  <2> QED
    BY <2>1, <2>2 DEF ChoiceInv, TypeOK, UniqueEdges
<1> QED
  BY <1>1, ChoiceInvHolds, PTL

\* Which overload is called does not depend on the order of registration.
THEOREM OrderNeverMatters == Spec => []OrderIsIrrelevant
<1>1. ChoiceInv => OrderIsIrrelevant
  <2> SUFFICES ASSUME ChoiceInv, call # NoCall, NEW fs \in Reorderings
               PROVE  Resolve(edges, fs, call) = outcome
    BY DEF OrderIsIrrelevant
  <2>1. /\ edges \in Seq(Conversions) /\ overloads \in Seq(Signatures) /\ Distinct(overloads)
        /\ call \in Calls /\ outcome = Resolve(edges, overloads, call)
    BY CallFacts
  <2>2. /\ fs \in [DOMAIN overloads -> ToSet(overloads)] /\ ToSet(fs) = ToSet(overloads)
        /\ \A j, k \in DOMAIN overloads : fs[j] = fs[k] => j = k
    BY DEF Reorderings
  <2>3. fs \in Seq(Signatures) /\ Distinct(fs)
    <3>1. Len(overloads) \in Nat /\ DOMAIN overloads = 1 .. Len(overloads)
      BY <2>1
    <3>2. ToSet(overloads) \subseteq Signatures
      BY <2>1 DEF ToSet
    <3>3. fs \in [1 .. Len(overloads) -> Signatures]
      BY <2>2, <3>1, <3>2
    <3> QED
      BY <2>2, <3>1, <3>3 DEF Distinct
  <2> QED
    BY <2>1, <2>2, <2>3, SameOutcome
<1> QED
  BY <1>1, ChoiceInvHolds, PTL

\* The candidates that none precedes are those that none beats.
LEMMA BestAreWinners ==
  ASSUME ChoiceInv, call # NoCall, NEW C, C = Suitable(edges, overloads, call)
  PROVE  Candidates = C /\ \A g : g \in Best <=> Wins(edges, C, call, g)
<1>1. edges \in Seq(Conversions) /\ overloads \in Seq(Signatures) /\ call \in Calls
  BY CallFacts
<1>2. Candidates = C
  BY DEF Candidates, Suitable
<1>3. ASSUME NEW f \in C, NEW g \in C
      PROVE  Precedes(f, g) <=> Better(Trial(edges, f, call), Trial(edges, g, call))
  <2>1. PICK x, y : x = Trial(edges, f, call) /\ y = Trial(edges, g, call)
    OBVIOUS
  <2>2. f \in Signatures /\ g \in Signatures /\ x.ok /\ y.ok
    BY <1>1, <2>1 DEF Suitable, ToSet
  <2>3. /\ x \in Ranked /\ x.cost = TotalCost(edges, f, call) /\ x.rank = Rank(f)
        /\ x.exact = (call.exp # "void" /\ f.ret = call.exp)
    BY <1>1, <2>1, <2>2, TrialFacts
  <2>4. /\ y \in Ranked /\ y.cost = TotalCost(edges, g, call) /\ y.rank = Rank(g)
        /\ y.exact = (call.exp # "void" /\ g.ret = call.exp)
    BY <1>1, <2>1, <2>2, TrialFacts
  <2>5. /\ x.cost \in Nat /\ y.cost \in Nat /\ x.rank \in Int /\ y.rank \in Int
        /\ x.exact \in BOOLEAN /\ y.exact \in BOOLEAN
    BY <2>3, <2>4 DEF Ranked
  <2>6. Precedes(f, g) <=> \/ x.cost < y.cost
                           \/ x.cost = y.cost /\ x.exact /\ ~y.exact
                           \/ x.cost = y.cost /\ x.exact = y.exact /\ x.rank < y.rank
    BY <2>3, <2>4 DEF Precedes
  <2>7. Precedes(f, g) <=> Better(x, y)
    BY <2>5, <2>6 DEF Better
  <2> QED
    BY <2>1, <2>7
<1> QED
  BY <1>2, <1>3 DEF Best, Wins

\* The overload that is called precedes all the others, and a call that has none
\* is ambiguous, without a candidate, or an overflow.
THEOREM BestOverloadIsCalled == Spec => []BestOverload
<1>1. ChoiceInv => BestOverload
  <2> SUFFICES ASSUME ChoiceInv, call # NoCall
               PROVE  \/ outcome.ok /\ Best = {outcome.chosen}
                      \/ outcome.why = "ambiguous" /\ \E f, g \in Best : f # g
                      \/ outcome.why = "none" /\ Candidates = {}
                      \/ outcome.why = "overflow" /\ Overflows(edges, overloads, call)
    BY DEF BestOverload
  <2>1. /\ edges \in Seq(Conversions) /\ overloads \in Seq(Signatures) /\ Distinct(overloads)
        /\ call \in Calls /\ outcome = Resolve(edges, overloads, call)
    BY CallFacts
  <2>2. PICK C, r : C = Suitable(edges, overloads, call) /\ r = outcome
    OBVIOUS
  <2>3. Candidates = C /\ \A g : g \in Best <=> Wins(edges, C, call, g)
    BY <2>2, BestAreWinners
  <2>4. \/ r.ok /\ \A g : Wins(edges, C, call, g) <=> g = r.chosen
        \/ ~r.ok /\ r.why = "ambiguous" /\ \E f, g : f # g /\ Wins(edges, C, call, f) /\ Wins(edges, C, call, g)
        \/ ~r.ok /\ r.why = "none" /\ C = {}
        \/ ~r.ok /\ r.why = "overflow" /\ Overflows(edges, overloads, call)
    BY <2>1, <2>2, BestIsChosen
  <2>5. (\A g : Wins(edges, C, call, g) <=> g = r.chosen) => Best = {r.chosen}
    BY <2>3
  <2>6. (\E f, g : f # g /\ Wins(edges, C, call, f) /\ Wins(edges, C, call, g)) => \E f, g \in Best : f # g
    BY <2>3
  <2> QED
    BY <2>2, <2>3, <2>4, <2>5, <2>6
<1> QED
  BY <1>1, ChoiceInvHolds, PTL

\* An overload that takes the arguments as they are is the one that is called,
\* unless one of another scope ties with it in an untyped scope.
THEOREM ExactMatchIsCalled == Spec => []ExactMatchWins
<1>1. ChoiceInv => ExactMatchWins
  <2> SUFFICES ASSUME ChoiceInv, call # NoCall, Weighed(call) = DOMAIN call.args,
                      NEW f \in Candidates, TotalCost(edges, f, call) = 0, \A k \in DOMAIN edges : edges[k].cost > 0
               PROVE  \/ outcome.chosen = f
                      \/ outcome.why = "overflow"
                      \/ call.scope = Untyped /\ \E g \in Candidates : g # f /\ g.args = f.args
    BY DEF ExactMatchWins
  <2>1. /\ edges \in Seq(Conversions) /\ overloads \in Seq(Signatures) /\ Distinct(overloads)
        /\ call \in Calls /\ outcome = Resolve(edges, overloads, call)
    BY CallFacts
  <2>2. Candidates = Suitable(edges, overloads, call) /\ f \in Suitable(edges, overloads, call)
    BY DEF Candidates, Suitable
  <2>3. \A j, k \in DOMAIN overloads : overloads[j].scope = overloads[k].scope /\ overloads[j].args = overloads[k].args => j = k
    BY DEF ChoiceInv, UniqueOverloads
  <2> QED
    BY <2>1, <2>2, <2>3, ExactMatchIsChosen
<1> QED
  BY <1>1, ChoiceInvHolds, PTL
=============================================================================
