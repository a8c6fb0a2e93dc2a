----------------------- MODULE ExecuteFramesImplProofs -----------------------
(***************************************************************************)
(* Proofs that ExecuteFrames implements ScriptCalls: whatever the scripts, *)
(* a run over the flat stores behaves as one with private environments and *)
(* lists passed by reference.                                              *)
(***************************************************************************)
EXTENDS ExecuteFramesImpl, ExecuteFramesProofs, NaturalFacts

-----------------------------------------------------------------------------
(* The swaps of one level *)

\* A level that is laid out as a call site's is: the bound lists are the
\* caller's, none bound twice, and they end where the callee's begin.
GoodLevel(v) ==
  /\ v.lists \in Nat /\ v.base \in Nat /\ v.top \in Nat
  /\ v.base + v.lists <= v.top
  /\ \A l \in DOMAIN v.bind : l \in Nat /\ v.bind[l] \in Slots(v.lists)
  /\ \A l, m \in DOMAIN v.bind : v.bind[l] = v.bind[m] => l = m

\* The slots a level swaps: a bound list's and its callee's.
LEMMA SwappedSlots ==
  ASSUME NEW v, GoodLevel(v), NEW l \in DOMAIN v.bind, NEW m \in DOMAIN v.bind
  PROVE  /\ v.top + l + 1 \in Nat /\ v.base + v.bind[l] + 1 \in Nat
         /\ v.base + v.bind[l] + 1 <= v.base + v.lists
         /\ v.top + m + 1 > v.base + v.lists
         /\ v.top + m + 1 # v.base + v.bind[l] + 1
         /\ v.top + l + 1 = v.top + m + 1 => l = m
         /\ v.base + v.bind[l] + 1 = v.base + v.bind[m] + 1 => l = m
<1>1. /\ l \in Nat /\ m \in Nat /\ v.top \in Nat /\ v.base \in Nat /\ v.lists \in Nat
      /\ v.base + v.lists <= v.top
      /\ v.bind[l] \in Nat /\ v.bind[l] < v.lists /\ v.bind[m] \in Nat
      /\ v.bind[l] = v.bind[m] => l = m
  BY DEF GoodLevel, Slots
<1> QED
  BY <1>1

\* The slot of a bound list of the callee holds the caller's list.
LEMMA CalleeGoes ==
  ASSUME NEW v, GoodLevel(v), NEW l \in DOMAIN v.bind
  PROVE  Swapped(v, v.top + l + 1) = v.base + v.bind[l] + 1
<1> DEFINE k == v.top + l + 1
<1>1. \A m \in DOMAIN v.bind : k = v.top + m + 1 => m = l
  BY SwappedSlots
<1>2. (CHOOSE m \in DOMAIN v.bind : k = v.top + m + 1) = l
  BY <1>1
<1> QED
  BY <1>2 DEF Swapped

\* And the caller's slot what the callee's held.
LEMMA CallerGoes ==
  ASSUME NEW v, GoodLevel(v), NEW l \in DOMAIN v.bind
  PROVE  Swapped(v, v.base + v.bind[l] + 1) = v.top + l + 1
<1> DEFINE k == v.base + v.bind[l] + 1
<1>1. \A m \in DOMAIN v.bind : k # v.top + m + 1 /\ (k = v.base + v.bind[m] + 1 => m = l)
  BY SwappedSlots
<1>2. (CHOOSE m \in DOMAIN v.bind : k = v.base + v.bind[m] + 1) = l
  BY <1>1
<1> QED
  BY <1>1, <1>2 DEF Swapped

\* A slot no bound list names is not touched.
LEMMA OthersStay ==
  ASSUME NEW v, NEW k,
         \A l \in DOMAIN v.bind : k # v.top + l + 1 /\ k # v.base + v.bind[l] + 1
  PROVE  Swapped(v, k) = k
  BY DEF Swapped

\* Swapping twice changes nothing.
LEMMA SwappedTwice ==
  ASSUME NEW v, GoodLevel(v), NEW k \in Nat
  PROVE  Swapped(v, k) \in Nat /\ Swapped(v, Swapped(v, k)) = k
<1>1. CASE \E l \in DOMAIN v.bind : k = v.top + l + 1
  <2>1. PICK l \in DOMAIN v.bind : k = v.top + l + 1
    BY <1>1
  <2> QED
    BY <2>1, CalleeGoes, CallerGoes, SwappedSlots
<1>2. CASE \E l \in DOMAIN v.bind : k = v.base + v.bind[l] + 1
  <2>1. PICK l \in DOMAIN v.bind : k = v.base + v.bind[l] + 1
    BY <1>2
  <2> QED
    BY <2>1, CalleeGoes, CallerGoes, SwappedSlots
<1>3. CASE \A l \in DOMAIN v.bind : k # v.top + l + 1 /\ k # v.base + v.bind[l] + 1
  BY <1>3, OthersStay
<1> QED
  BY <1>1, <1>2, <1>3

\* A slot above the caller's lists that is not a bound slot of the callee.
LEMMA AboveStays ==
  ASSUME NEW v, GoodLevel(v), NEW k \in Nat, k > v.base + v.lists,
         \A l \in DOMAIN v.bind : k # v.top + l + 1
  PROVE  Swapped(v, k) = k
<1>1. ASSUME NEW l \in DOMAIN v.bind
      PROVE  k # v.base + v.bind[l] + 1
  <2>1. /\ v.base + v.bind[l] + 1 <= v.base + v.lists /\ v.base + v.bind[l] + 1 \in Nat
        /\ v.base + v.lists \in Nat
    BY SwappedSlots DEF GoodLevel
  <2> QED
    BY <2>1
<1> QED
  BY <1>1, OthersStay

\* The vector of lists after the swaps of a level.
Permuted(ls, v) == [k \in DOMAIN ls |-> ls[Swapped(v, k)]]

\* The swap_bound_list opcodes of a site move contents along these slots.
LEMMA SwapMoves ==
  ASSUME NEW ls, NEW c, NEW v, v.bind = c.bind, v.top = Len(ls) - c.nlists,
         Len(ls) \in Nat, c.nlists \in Nat, GoodLevel(v)
  PROVE  SwapBound(ls, c, v.base) = Permuted(ls, v)
<1>1. ASSUME NEW l \in DOMAIN c.bind
      PROVE  /\ Len(ls) - c.nlists + l + 1 = v.top + l + 1
             /\ c.bind[l] + v.base + 1 = v.base + v.bind[l] + 1
             /\ v.bind[l] \in Nat
  <2>1. v.base \in Nat /\ v.bind[l] \in Nat
    BY DEF GoodLevel, Slots
  <2> QED
    BY <2>1
<1>2. ASSUME NEW k \in DOMAIN ls
      PROVE  SwapBound(ls, c, v.base)[k] = ls[Swapped(v, k)]
  <2>1. CASE \E l \in DOMAIN c.bind : k = v.top + l + 1
    <3>1. PICK l \in DOMAIN c.bind : k = v.top + l + 1
      BY <2>1
    <3>2. \A m \in DOMAIN c.bind : k = Len(ls) - c.nlists + m + 1 <=> m = l
      BY <1>1, <3>1, SwappedSlots
    <3>3. (CHOOSE m \in DOMAIN c.bind : k = Len(ls) - c.nlists + m + 1) = l
      BY <3>2
    <3>4. SwapBound(ls, c, v.base)[k] = ls[c.bind[l] + v.base + 1]
      BY <3>2, <3>3 DEF SwapBound
    <3> QED
      BY <1>1, <3>1, <3>4, CalleeGoes
  <2>2. CASE \E l \in DOMAIN c.bind : k = v.base + v.bind[l] + 1
    <3>1. PICK l \in DOMAIN c.bind : k = v.base + v.bind[l] + 1
      BY <2>2
    <3>2. \A m \in DOMAIN c.bind : /\ k # Len(ls) - c.nlists + m + 1
                                   /\ k = c.bind[m] + v.base + 1 <=> m = l
      BY <1>1, <3>1, SwappedSlots
    <3>3. (CHOOSE m \in DOMAIN c.bind : k = c.bind[m] + v.base + 1) = l
      BY <3>2
    <3>4. SwapBound(ls, c, v.base)[k] = ls[Len(ls) - c.nlists + l + 1]
      BY <3>2, <3>3 DEF SwapBound
    <3> QED
      BY <1>1, <3>1, <3>4, CallerGoes
  <2>3. CASE \A l \in DOMAIN c.bind : k # v.top + l + 1 /\ k # v.base + v.bind[l] + 1
    <3>1. \A m \in DOMAIN c.bind : k # Len(ls) - c.nlists + m + 1 /\ k # c.bind[m] + v.base + 1
      BY <1>1, <2>3
    <3>2. SwapBound(ls, c, v.base)[k] = ls[k]
      BY <3>1 DEF SwapBound
    <3> QED
      BY <2>3, <3>2, OthersStay
  <2> QED
    BY <2>1, <2>2, <2>3
<1> QED
  BY <1>2 DEF SwapBound, Permuted

-----------------------------------------------------------------------------
(* The swaps of all levels *)

IsPlace(f, lv, n) ==
  f = [i \in 0 .. n |-> [k \in Nat |-> IF i = 0 THEN k ELSE Swapped(lv[i], f[i - 1][k])]]

\* The function exists for one level more: the step of the induction.
LEMMA OneMorePlace ==
  ASSUME NEW lv, NEW n \in Nat, NEW f, IsPlace(f, lv, n)
  PROVE  \E g : IsPlace(g, lv, n + 1)
<1> DEFINE g == [i \in 0 .. (n + 1) |-> IF i = n + 1 THEN [k \in Nat |-> Swapped(lv[n + 1], f[n][k])] ELSE f[i]]
           step(h, i) == [k \in Nat |-> IF i = 0 THEN k ELSE Swapped(lv[i], h[i - 1][k])]
<1>1. ASSUME NEW i \in 0 .. (n + 1)
      PROVE  g[i] = step(g, i)
  <2>1. CASE i = n + 1
    <3>1. i # 0 /\ i - 1 = n /\ n \in 0 .. (n + 1) /\ n # n + 1
      BY <2>1
    <3>2. g[i - 1] = f[n]
      BY <3>1
    <3> QED
      BY <2>1, <3>1, <3>2
  <2>2. CASE i # n + 1
    <3>1. i \in 0 .. n
      BY <2>2
    <3>2. f[i] = step(f, i)
      BY <3>1 DEF IsPlace
    <3>3. i # 0 => g[i - 1] = f[i - 1]
      BY <3>1
    <3> QED
      BY <2>2, <3>2, <3>3
  <2> QED
    BY <2>1, <2>2
<1>2. g = [i \in 0 .. (n + 1) |-> g[i]]
  OBVIOUS
<1> HIDE DEF g
<1>3. IsPlace(g, lv, n + 1)
  BY <1>1, <1>2 DEF IsPlace
<1> QED
  BY <1>3

\* The equation that defines Place has a solution, so CHOOSE picks one.
LEMMA PlaceIs ==
  ASSUME NEW lv, Len(lv) \in Nat
  PROVE  IsPlace(Place(lv), lv, Len(lv))
<1> DEFINE T == {n \in Nat : \E f : IsPlace(f, lv, n)}
<1>1. 0 \in T
  <2> DEFINE f == [i \in 0 .. 0 |-> [k \in Nat |-> k]]
  <2>1. \A i \in 0 .. 0 : i = 0
    OBVIOUS
  <2>2. IsPlace(f, lv, 0)
    BY <2>1 DEF IsPlace
  <2> QED
    BY <2>2
<1>2. ASSUME NEW n \in T, n < Len(lv)
      PROVE  n + 1 \in T
  <2>1. PICK f : IsPlace(f, lv, n)
    OBVIOUS
  <2>2. \E g : IsPlace(g, lv, n + 1)
    <3> HIDE DEF T
    <3> QED
      BY <2>1, OneMorePlace DEF T
  <2> QED
    BY <2>2
<1>3. Len(lv) \in T
  <2>1. T \in SUBSET Nat
    OBVIOUS
  <2> HIDE DEF T
  <2>2. 0 .. Len(lv) \subseteq T
    BY <1>1, <1>2, <2>1, InductionUpTo
  <2> QED
    BY <2>2
<1>4. PICK f : IsPlace(f, lv, Len(lv))
  BY <1>3
<1>5. Place(lv) = CHOOSE g : IsPlace(g, lv, Len(lv))
  BY DEF Place, IsPlace
<1> QED
  BY <1>4, <1>5

\* Place level by level.
LEMMA PlaceFacts ==
  ASSUME NEW lv, Len(lv) \in Nat
  PROVE  /\ \A k \in Nat : Place(lv)[0][k] = k
         /\ \A i \in 1 .. Len(lv) : \A k \in Nat : Place(lv)[i][k] = Swapped(lv[i], Place(lv)[i - 1][k])
         /\ \A i \in 0 .. Len(lv) : Place(lv)[i] = [k \in Nat |-> Place(lv)[i][k]]
<1> DEFINE f == Place(lv)
           step(i) == [k \in Nat |-> IF i = 0 THEN k ELSE Swapped(lv[i], f[i - 1][k])]
<1>1. f = [i \in 0 .. Len(lv) |-> step(i)]
  BY PlaceIs DEF IsPlace
<1>2. \A i \in 0 .. Len(lv) : f[i] = step(i)
  <2> HIDE DEF f
  <2> DEFINE g == [i \in 0 .. Len(lv) |-> step(i)]
  <2>1. \A i \in 0 .. Len(lv) : g[i] = step(i)
    OBVIOUS
  <2>2. f = g
    BY <1>1
  <2> HIDE DEF g, step
  <2> QED
    BY <2>1, <2>2
<1> HIDE DEF f
<1>3. 0 \in 0 .. Len(lv) /\ \A i \in 1 .. Len(lv) : i # 0 /\ i \in 0 .. Len(lv)
  OBVIOUS
<1>4. \A k \in Nat : f[0][k] = k
  BY <1>2, <1>3
<1>5. ASSUME NEW i \in 1 .. Len(lv), NEW k \in Nat
      PROVE  f[i][k] = Swapped(lv[i], f[i - 1][k])
  <2>1. f[i] = step(i) /\ i # 0
    BY <1>2, <1>3
  <2> QED
    BY <2>1
<1>6. ASSUME NEW i \in 0 .. Len(lv)
      PROVE  f[i] = [k \in Nat |-> f[i][k]]
  <2> DEFINE e(k) == IF i = 0 THEN k ELSE Swapped(lv[i], f[i - 1][k])
  <2>1. f[i] = [k \in Nat |-> e(k)]
    BY <1>2
  <2> HIDE DEF e
  <2> QED
    BY <2>1
<1> QED
  BY <1>4, <1>5, <1>6 DEF f

GoodLevels(lv) == \A i \in 1 .. Len(lv) : GoodLevel(lv[i])

\* The swaps permute the slots.
LEMMA PlaceIsOneToOne ==
  ASSUME NEW lv, Len(lv) \in Nat, GoodLevels(lv), NEW i \in 0 .. Len(lv)
  PROVE  /\ \A k \in Nat : Place(lv)[i][k] \in Nat
         /\ \A k, m \in Nat : Place(lv)[i][k] = Place(lv)[i][m] => k = m
<1> DEFINE at(j) == Place(lv)[j]
           T == {j \in 0 .. Len(lv) : /\ \A k \in Nat : at(j)[k] \in Nat
                                      /\ \A k, m \in Nat : at(j)[k] = at(j)[m] => k = m}
<1>1. 0 \in T
  BY PlaceFacts
<1>2. ASSUME NEW j \in T, j < Len(lv)
      PROVE  j + 1 \in T
  <2>1. j + 1 \in 1 .. Len(lv) /\ j + 1 \in 0 .. Len(lv) /\ (j + 1) - 1 = j
    BY <1>2
  <2>2. \A k \in Nat : at(j + 1)[k] = Swapped(lv[j + 1], at(j)[k])
    BY <2>1, PlaceFacts
  <2>3. GoodLevel(lv[j + 1])
    BY <2>1 DEF GoodLevels
  <2>4. /\ \A k \in Nat : at(j)[k] \in Nat
        /\ \A k, m \in Nat : at(j)[k] = at(j)[m] => k = m
    OBVIOUS
  <2> HIDE DEF at, T
  <2>5. ASSUME NEW k \in Nat
        PROVE  at(j + 1)[k] \in Nat /\ Swapped(lv[j + 1], at(j + 1)[k]) = at(j)[k]
    BY <2>2, <2>3, <2>4, SwappedTwice
  <2> QED
    BY <2>1, <2>4, <2>5 DEF T
<1>3. 0 .. Len(lv) \subseteq T
  <2>1. T \in SUBSET Nat
    OBVIOUS
  <2> HIDE DEF T
  <2> QED
    BY <1>1, <1>2, <2>1, InductionUpTo
<1> QED
  BY <1>3

\* Where the first i levels take a list depends on the first i levels.
LEMMA PlacePrefix ==
  ASSUME NEW lv, Len(lv) \in Nat, NEW lw, Len(lw) \in Nat,
         NEW i \in Nat, i <= Len(lv), i <= Len(lw), \A j \in 1 .. i : lv[j] = lw[j]
  PROVE  Place(lv)[i] = Place(lw)[i]
<1> DEFINE T == {j \in 0 .. i : \A k \in Nat : Place(lv)[j][k] = Place(lw)[j][k]}
<1>1. 0 \in T
  BY PlaceFacts
<1>2. ASSUME NEW j \in T, j < i
      PROVE  j + 1 \in T
  <2>1. j + 1 \in 1 .. i /\ j + 1 \in 0 .. i /\ j + 1 \in 1 .. Len(lv) /\ j + 1 \in 1 .. Len(lw) /\ (j + 1) - 1 = j
    BY <1>2
  <2>2. \A k \in Nat : /\ Place(lv)[j + 1][k] = Swapped(lv[j + 1], Place(lv)[j][k])
                       /\ Place(lw)[j + 1][k] = Swapped(lw[j + 1], Place(lw)[j][k])
    BY <2>1, PlaceFacts
  <2>3. \A k \in Nat : Place(lv)[j][k] = Place(lw)[j][k]
    OBVIOUS
  <2> QED
    BY <2>1, <2>2, <2>3
<1>3. 0 .. i \subseteq T
  <2>1. T \in SUBSET Nat
    OBVIOUS
  <2> HIDE DEF T
  <2> QED
    BY <1>1, <1>2, <2>1, InductionUpTo
<1>4. \A k \in Nat : Place(lv)[i][k] = Place(lw)[i][k]
  BY <1>3
<1>5. i \in 0 .. Len(lv) /\ i \in 0 .. Len(lw)
  OBVIOUS
<1>6. Place(lv)[i] = [k \in Nat |-> Place(lv)[i][k]] /\ Place(lw)[i] = [k \in Nat |-> Place(lw)[i][k]]
  BY <1>5, PlaceFacts
<1> QED
  BY <1>4, <1>6

\* Slot k is none the first i levels swap.
Beyond(lv, i, k) ==
  \A j \in 1 .. i : k > lv[j].base + lv[j].lists /\ \A l \in DOMAIN lv[j].bind : k # lv[j].top + l + 1

\* A slot beyond the first levels stays where it is through their swaps.
LEMMA BeyondStays ==
  ASSUME NEW lv, Len(lv) \in Nat, GoodLevels(lv), NEW i \in 0 .. Len(lv), NEW k \in Nat, Beyond(lv, i, k)
  PROVE  Place(lv)[i][k] = k
<1> DEFINE T == {j \in 0 .. i : Place(lv)[j][k] = k}
<1>1. 0 \in T
  BY PlaceFacts
<1>2. ASSUME NEW j \in T, j < i
      PROVE  j + 1 \in T
  <2>1. j + 1 \in 1 .. i /\ j + 1 \in 0 .. i /\ j + 1 \in 1 .. Len(lv) /\ (j + 1) - 1 = j
    BY <1>2
  <2>2. Place(lv)[j + 1][k] = Swapped(lv[j + 1], k)
    BY <2>1, PlaceFacts
  <2>3. Swapped(lv[j + 1], k) = k
    BY <2>1, AboveStays DEF GoodLevels, Beyond
  <2> QED
    BY <2>1, <2>2, <2>3
<1>3. 0 .. i \subseteq T
  <2>1. T \in SUBSET Nat
    OBVIOUS
  <2> HIDE DEF T
  <2> QED
    BY <1>1, <1>2, <2>1, InductionUpTo
<1> QED
  BY <1>3

-----------------------------------------------------------------------------
(* The references of all levels *)

\* The levels of a run: each begins where the one below has its callee's lists,
\* and is lent lists for slots of its own.
Stacked(lv) ==
  /\ Len(lv) \in Nat
  /\ GoodLevels(lv)
  /\ \A i \in 1 .. Len(lv) - 1 :
       /\ lv[i + 1].base = lv[i].top
       /\ DOMAIN lv[i].bind \subseteq Slots(lv[i + 1].lists)
  /\ Len(lv) > 0 => lv[1].base = 0

\* A level further in begins where those further out end or above.
LEMMA LevelsRise ==
  ASSUME NEW lv, Stacked(lv), NEW d \in 1 .. Len(lv), NEW i \in 1 .. Len(lv), d < i
  PROVE  /\ lv[d].top \in Nat /\ lv[i].base \in Nat /\ lv[d].base \in Nat /\ lv[d].lists \in Nat
         /\ lv[d].top <= lv[i].base /\ lv[d].base + lv[d].lists <= lv[i].base
<1> DEFINE T == {j \in 0 .. Len(lv) : d < j => lv[d].top <= lv[j].base}
<1>1. \A j \in 1 .. Len(lv) : /\ lv[j].base \in Nat /\ lv[j].top \in Nat /\ lv[j].lists \in Nat
                              /\ lv[j].base + lv[j].lists <= lv[j].top
  BY DEF Stacked, GoodLevels, GoodLevel
<1>2. Len(lv) \in Nat
  BY DEF Stacked
<1>3. 0 \in T
  BY <1>2
<1>4. ASSUME NEW j \in T, j < Len(lv)
      PROVE  j + 1 \in T
  <2> SUFFICES ASSUME d < j + 1 PROVE lv[d].top <= lv[j + 1].base
    BY <1>2, <1>4
  <2>1. j \in 1 .. Len(lv) - 1 /\ j \in 1 .. Len(lv) /\ j + 1 \in 1 .. Len(lv) /\ (d = j \/ d < j)
    BY <1>2, <1>4
  <2>2. lv[j + 1].base = lv[j].top
    BY <2>1 DEF Stacked
  <2>3. CASE d = j
    BY <1>1, <2>1, <2>2, <2>3
  <2>4. CASE d < j
    <3>1. lv[d].top <= lv[j].base
      BY <2>4
    <3>2. /\ lv[j].base \in Nat /\ lv[j].top \in Nat /\ lv[j].lists \in Nat
          /\ lv[j].base + lv[j].lists <= lv[j].top /\ lv[d].top \in Nat
      BY <1>1, <2>1
    <3> QED
      BY <2>2, <3>1, <3>2, SMTT(30)
  <2> QED
    BY <2>1, <2>3, <2>4
<1>5. 0 .. Len(lv) \subseteq T
  <2>1. T \in SUBSET Nat
    OBVIOUS
  <2> HIDE DEF T
  <2> QED
    BY <1>2, <1>3, <1>4, <2>1, InductionUpTo
<1>6. lv[d].top <= lv[i].base
  BY <1>5
<1>7. /\ lv[d].top \in Nat /\ lv[d].base \in Nat /\ lv[d].lists \in Nat /\ lv[i].base \in Nat
      /\ lv[d].base + lv[d].lists <= lv[d].top
  BY <1>1
<1> QED
  BY <1>6, <1>7

\* The slot of a list no level below lends, and a slot above all levels.
LEMMA OwnIsBeyond ==
  ASSUME NEW lv, Stacked(lv), NEW i \in 2 .. Len(lv),
         NEW m \in Slots(lv[i].lists) \ DOMAIN lv[i - 1].bind
  PROVE  /\ lv[i].base + m + 1 \in Nat
         /\ Beyond(lv, i - 1, lv[i].base + m + 1)
<1>1. /\ Len(lv) \in Nat /\ i \in 1 .. Len(lv) /\ i - 1 \in 1 .. Len(lv) - 1 /\ i - 1 \in 1 .. Len(lv)
      /\ (i - 1) + 1 = i /\ i - 1 < i
  BY DEF Stacked
<1>2. lv[i].base \in Nat /\ m \in Nat /\ lv[i].base = lv[i - 1].top
  <2>1. lv[i].base = lv[i - 1].top
    BY <1>1 DEF Stacked
  <2>2. lv[i].base \in Nat
    BY <1>1, LevelsRise
  <2> QED
    BY <2>1, <2>2 DEF Slots
<1>3. ASSUME NEW j \in 1 .. i - 1
      PROVE  lv[i].base + m + 1 > lv[j].base + lv[j].lists
  <2>1. j \in 1 .. Len(lv) /\ j < i
    BY <1>1
  <2>2. lv[j].base + lv[j].lists <= lv[i].base /\ lv[j].base \in Nat /\ lv[j].lists \in Nat
    BY <1>1, <2>1, LevelsRise
  <2> QED
    BY <1>2, <2>2, SMTT(30)
<1>4. ASSUME NEW j \in 1 .. i - 1, NEW l \in DOMAIN lv[j].bind
      PROVE  lv[i].base + m + 1 # lv[j].top + l + 1
  <2>1. CASE j = i - 1
    <3>1. l # m /\ l \in Nat
      BY <1>1, <2>1 DEF Stacked, GoodLevels, GoodLevel
    <3>2. lv[i].base = lv[j].top
      BY <1>2, <2>1
    <3> QED
      BY <1>2, <3>1, <3>2
  <2>2. CASE j # i - 1
    <3>1. j \in 1 .. Len(lv) - 1 /\ j + 1 \in 1 .. Len(lv) /\ j + 1 < i
      BY <1>1, <2>2
    <3>2. lv[j + 1].base = lv[j].top /\ l \in Slots(lv[j + 1].lists)
      BY <3>1 DEF Stacked
    <3>3. /\ lv[j + 1].base + lv[j + 1].lists <= lv[i].base
          /\ lv[j + 1].base \in Nat /\ lv[j + 1].lists \in Nat
      BY <1>1, <3>1, LevelsRise
    <3>4. l \in Nat /\ l + 1 <= lv[j + 1].lists
      BY <3>2, <3>3 DEF Slots
    <3>5. lv[j + 1].base + l + 1 <= lv[i].base
      BY <1>2, <3>3, <3>4, SMTT(30)
    <3>6. lv[j].top + l + 1 <= lv[i].base /\ lv[j].top + l + 1 \in Nat
      BY <3>2, <3>3, <3>4, <3>5, SMTT(30)
    <3> QED
      BY <1>2, <3>6
  <2> QED
    BY <2>1, <2>2
<1>5. lv[i].base + m + 1 \in Nat
  BY <1>2
<1> QED
  BY <1>3, <1>4, <1>5 DEF Beyond

IsRefs(f, lv, n) ==
  f = [i \in 1 .. n |->
         [l \in Slots(lv[i].lists) |->
            IF i = 1 THEN <<0, l>>
            ELSE IF l \in DOMAIN lv[i - 1].bind THEN f[i - 1][lv[i - 1].bind[l]]
            ELSE <<i, l>>]]

\* The references exist for one level more.
LEMMA OneMoreRefs ==
  ASSUME NEW lv, NEW n \in Nat, NEW f, IsRefs(f, lv, n)
  PROVE  \E g : IsRefs(g, lv, n + 1)
<1> DEFINE step(h, i) == [l \in Slots(lv[i].lists) |->
                            IF i = 1 THEN <<0, l>>
                            ELSE IF l \in DOMAIN lv[i - 1].bind THEN h[i - 1][lv[i - 1].bind[l]]
                            ELSE <<i, l>>]
           g == [i \in 1 .. (n + 1) |-> IF i = n + 1 THEN step(f, i) ELSE f[i]]
<1>1. ASSUME NEW i \in 1 .. (n + 1)
      PROVE  g[i] = step(g, i)
  <2>1. i # 1 => g[i - 1] = f[i - 1]
    OBVIOUS
  <2>2. g[i] = step(f, i)
    <3>1. CASE i = n + 1
      BY <3>1
    <3>2. CASE i # n + 1
      <4>1. i \in 1 .. n
        BY <3>2
      <4>2. f[i] = step(f, i)
        BY <4>1 DEF IsRefs
      <4> QED
        BY <3>2, <4>2
    <3> QED
      BY <3>1, <3>2
  <2> HIDE DEF g
  <2> QED
    BY <2>1, <2>2
<1>2. g = [i \in 1 .. (n + 1) |-> g[i]]
  OBVIOUS
<1> HIDE DEF g
<1>3. IsRefs(g, lv, n + 1)
  BY <1>1, <1>2 DEF IsRefs
<1> QED
  BY <1>3

\* The equation that defines Refs has a solution.
LEMMA RefsIs ==
  ASSUME NEW lv, Len(lv) \in Nat
  PROVE  IsRefs(Refs(lv), lv, Len(lv))
<1> DEFINE T == {n \in Nat : \E f : IsRefs(f, lv, n)}
<1>1. 0 \in T
  <2>1. 1 .. 0 = {}
    OBVIOUS
  <2>2. IsRefs(<<>>, lv, 0)
    BY <2>1 DEF IsRefs
  <2> QED
    BY <2>2
<1>2. ASSUME NEW n \in T, n < Len(lv)
      PROVE  n + 1 \in T
  <2>1. PICK f : IsRefs(f, lv, n)
    OBVIOUS
  <2>2. \E g : IsRefs(g, lv, n + 1)
    <3> HIDE DEF T
    <3> QED
      BY <2>1, OneMoreRefs DEF T
  <2> QED
    BY <2>2
<1>3. Len(lv) \in T
  <2>1. T \in SUBSET Nat
    OBVIOUS
  <2> HIDE DEF T
  <2>2. 0 .. Len(lv) \subseteq T
    BY <1>1, <1>2, <2>1, InductionUpTo
  <2> QED
    BY <2>2
<1>4. PICK f : IsRefs(f, lv, Len(lv))
  BY <1>3
<1>5. Refs(lv) = CHOOSE g : IsRefs(g, lv, Len(lv))
  BY DEF Refs, IsRefs
<1> QED
  BY <1>4, <1>5

\* The references of level i, from those of the level below.
RefsFrom(lv, i, below) ==
  [l \in Slots(lv[i].lists) |->
     IF i = 1 THEN <<0, l>>
     ELSE IF l \in DOMAIN lv[i - 1].bind THEN below[lv[i - 1].bind[l]]
     ELSE <<i, l>>]

\* Refs level by level.
LEMMA RefsFacts ==
  ASSUME NEW lv, Len(lv) \in Nat, NEW i \in 1 .. Len(lv)
  PROVE  Refs(lv)[i] = RefsFrom(lv, i, Refs(lv)[i - 1])
<1> DEFINE f == Refs(lv)
           g == [j \in 1 .. Len(lv) |-> RefsFrom(lv, j, f[j - 1])]
<1>1. f = g
  BY RefsIs DEF IsRefs, RefsFrom
<1>2. g[i] = RefsFrom(lv, i, f[i - 1])
  OBVIOUS
<1> HIDE DEF g
<1> QED
  BY <1>1, <1>2

\* They depend on the lists of the first i levels and on the bindings below it.
LEMMA RefsPrefix ==
  ASSUME NEW lv, Len(lv) \in Nat, NEW lw, Len(lw) \in Nat,
         NEW i \in Nat, i <= Len(lv), i <= Len(lw),
         \A j \in 1 .. i : lv[j].lists = lw[j].lists,
         \A j \in 1 .. i - 1 : lv[j].bind = lw[j].bind
  PROVE  \A j \in 1 .. i : Refs(lv)[j] = Refs(lw)[j]
<1> DEFINE T == {j \in 0 .. i : j > 0 => Refs(lv)[j] = Refs(lw)[j]}
<1>1. 0 \in T
  OBVIOUS
<1>2. ASSUME NEW j \in T, j < i
      PROVE  j + 1 \in T
  <2>1. j + 1 \in 1 .. i /\ j + 1 \in 0 .. i /\ j + 1 \in 1 .. Len(lv) /\ j + 1 \in 1 .. Len(lw)
        /\ (j + 1) - 1 = j /\ (j + 1 # 1 => j \in 1 .. i - 1)
    BY <1>2
  <2>2. /\ Refs(lv)[j + 1] = RefsFrom(lv, j + 1, Refs(lv)[j])
        /\ Refs(lw)[j + 1] = RefsFrom(lw, j + 1, Refs(lw)[j])
    BY <2>1, RefsFacts
  <2>3. lv[j + 1].lists = lw[j + 1].lists
    BY <2>1
  <2>4. CASE j + 1 = 1
    BY <2>1, <2>2, <2>3, <2>4 DEF RefsFrom
  <2>5. CASE j + 1 # 1
    <3>1. lv[j].bind = lw[j].bind /\ Refs(lv)[j] = Refs(lw)[j]
      BY <2>1, <2>5
    <3>2. RefsFrom(lv, j + 1, Refs(lv)[j]) = RefsFrom(lw, j + 1, Refs(lw)[j])
      <4> HIDE DEF T
      <4> QED
        BY <2>1, <2>3, <3>1 DEF RefsFrom
    <3> QED
      BY <2>1, <2>2, <3>2
  <2> QED
    BY <2>4, <2>5
<1>3. 0 .. i \subseteq T
  <2>1. T \in SUBSET Nat
    OBVIOUS
  <2> HIDE DEF T
  <2> QED
    BY <1>1, <1>2, <2>1, InductionUpTo
<1> QED
  BY <1>3

\* A reference of level i: a list of the host, or one that a level up to i was
\* not lent.
RefOf(lv, i, r) ==
  \/ \E m \in Slots(lv[1].lists) : r = <<0, m>>
  \/ \E d \in 2 .. i : \E m \in Slots(lv[d].lists) \ DOMAIN lv[d - 1].bind : r = <<d, m>>

\* The slot of the list when no list is lent.
HomeSlot(lv, r) == IF r[1] = 0 THEN r[2] + 1 ELSE lv[r[1]].base + r[2] + 1

\* A reference names a slot.
LEMMA HomeSlotIsNat ==
  ASSUME NEW lv, Stacked(lv), NEW i \in 1 .. Len(lv), NEW r, RefOf(lv, i, r)
  PROVE  HomeSlot(lv, r) \in Nat
<1>1. CASE \E m \in Slots(lv[1].lists) : r = <<0, m>>
  <2>1. PICK m \in Slots(lv[1].lists) : r = <<0, m>>
    BY <1>1
  <2>2. m \in Nat
    BY DEF Slots
  <2> QED
    BY <2>1, <2>2 DEF HomeSlot
<1>2. CASE \E d \in 2 .. i : \E m \in Slots(lv[d].lists) \ DOMAIN lv[d - 1].bind : r = <<d, m>>
  <2>1. PICK d \in 2 .. i : \E m \in Slots(lv[d].lists) \ DOMAIN lv[d - 1].bind : r = <<d, m>>
    BY <1>2
  <2>2. PICK m \in Slots(lv[d].lists) \ DOMAIN lv[d - 1].bind : r = <<d, m>>
    BY <2>1
  <2>3. d \in 2 .. Len(lv) /\ d # 0
    BY DEF Stacked
  <2>4. HomeSlot(lv, r) = lv[d].base + m + 1
    BY <2>2, <2>3 DEF HomeSlot
  <2> QED
    BY <2>3, <2>4, OwnIsBeyond
<1> QED
  BY <1>1, <1>2 DEF RefOf

\* Where the list sits that level i calls l.
SitsAt(lv, i, l) ==
  LET r == Refs(lv)[i][l]
  IN  RefOf(lv, i, r) /\ Place(lv)[i - 1][HomeSlot(lv, r)] = lv[i].base + l + 1

\* The outermost script's lists sit in their own slots.
LEMMA FirstLevelSits ==
  ASSUME NEW lv, Stacked(lv), 1 \in 1 .. Len(lv), NEW l \in Slots(lv[1].lists)
  PROVE  SitsAt(lv, 1, l)
<1>1. Len(lv) \in Nat /\ lv[1].base = 0 /\ l \in Nat
  BY DEF Stacked, Slots
<1>2. Refs(lv)[1][l] = <<0, l>>
  <2>1. Refs(lv)[1] = RefsFrom(lv, 1, Refs(lv)[1 - 1])
    BY <1>1, RefsFacts
  <2> QED
    BY <2>1 DEF RefsFrom
<1>3. HomeSlot(lv, <<0, l>>) = l + 1
  BY DEF HomeSlot
<1>4. Place(lv)[0][l + 1] = l + 1
  BY <1>1, PlaceFacts
<1>5. RefOf(lv, 1, <<0, l>>)
  BY DEF RefOf
<1> QED
  BY <1>1, <1>2, <1>3, <1>4, <1>5 DEF SitsAt

\* A bound list sits where the caller's swaps have taken it, an own one in its slot.
LEMMA NextLevelSits ==
  ASSUME NEW lv, Stacked(lv), NEW i \in 2 .. Len(lv), NEW l \in Slots(lv[i].lists),
         \A m \in Slots(lv[i - 1].lists) : SitsAt(lv, i - 1, m)
  PROVE  SitsAt(lv, i, l)
<1>1. /\ Len(lv) \in Nat /\ i \in 1 .. Len(lv) /\ i # 1 /\ i - 1 \in 1 .. Len(lv) - 1 /\ i - 1 \in 1 .. Len(lv)
      /\ (i - 1) + 1 = i /\ i - 1 \in 0 .. Len(lv)
  BY DEF Stacked
<1>2. /\ lv[i].base = lv[i - 1].top /\ GoodLevel(lv[i - 1]) /\ l \in Nat
  BY <1>1 DEF Stacked, GoodLevels, Slots
<1> DEFINE bind == lv[i - 1].bind
           r == Refs(lv)[i][l]
<1>3. r = IF l \in DOMAIN bind THEN Refs(lv)[i - 1][bind[l]] ELSE <<i, l>>
  <2>1. Refs(lv)[i] = RefsFrom(lv, i, Refs(lv)[i - 1])
    BY <1>1, RefsFacts
  <2> QED
    BY <1>1, <2>1 DEF RefsFrom
<1>4. CASE l \in DOMAIN bind
  <2>1. bind[l] \in Slots(lv[i - 1].lists)
    BY <1>2, <1>4 DEF GoodLevel
  <2>2. SitsAt(lv, i - 1, bind[l])
    BY <2>1
  <2>3. RefOf(lv, i - 1, r) /\ Place(lv)[(i - 1) - 1][HomeSlot(lv, r)] = lv[i - 1].base + bind[l] + 1
    BY <1>3, <1>4, <2>2 DEF SitsAt
  <2>4. RefOf(lv, i, r)
    <3>1. \A d \in 2 .. i - 1 : d \in 2 .. i
      BY <1>1
    <3> QED
      BY <2>3, <3>1 DEF RefOf
  <2>5. Place(lv)[i - 1][HomeSlot(lv, r)] = Swapped(lv[i - 1], Place(lv)[(i - 1) - 1][HomeSlot(lv, r)])
    BY <1>1, <2>3, PlaceFacts, HomeSlotIsNat
  <2>6. Swapped(lv[i - 1], lv[i - 1].base + bind[l] + 1) = lv[i - 1].top + l + 1
    BY <1>2, <1>4, CallerGoes
  <2> QED
    BY <1>2, <2>3, <2>4, <2>5, <2>6 DEF SitsAt
<1>5. CASE l \notin DOMAIN bind
  <2>1. l \in Slots(lv[i].lists) \ DOMAIN lv[i - 1].bind
    BY <1>5
  <2>2. r = <<i, l>> /\ RefOf(lv, i, r)
    BY <1>1, <1>3, <1>5, <2>1 DEF RefOf
  <2>3. HomeSlot(lv, r) = lv[i].base + l + 1
    BY <1>1, <2>2 DEF HomeSlot
  <2>4. Place(lv)[i - 1][lv[i].base + l + 1] = lv[i].base + l + 1
    BY <1>1, <2>1, OwnIsBeyond, BeyondStays, SMTT(30) DEF Stacked
  <2> QED
    BY <2>2, <2>3, <2>4 DEF SitsAt
<1> QED
  BY <1>4, <1>5

\* Each list of a script sits, after the swaps below it, in the slot its opcodes index.
LEMMA RefsSit ==
  ASSUME NEW lv, Stacked(lv), NEW i \in 1 .. Len(lv), NEW l \in Slots(lv[i].lists)
  PROVE  SitsAt(lv, i, l)
<1> DEFINE T == {j \in 0 .. Len(lv) : j > 0 => \A m \in Slots(lv[j].lists) : SitsAt(lv, j, m)}
<1>1. 0 \in T
  <2>1. 0 \in 0 .. Len(lv)
    BY DEF Stacked
  <2> QED
    BY <2>1
<1>2. ASSUME NEW j \in T, j < Len(lv)
      PROVE  j + 1 \in T
  <2>1. Len(lv) \in Nat /\ j \in Nat /\ j + 1 \in 1 .. Len(lv) /\ j + 1 \in 0 .. Len(lv) /\ (j + 1) - 1 = j
        /\ (j # 0 => j > 0 /\ j + 1 \in 2 .. Len(lv))
    BY <1>2 DEF Stacked
  <2>2. CASE j = 0
    <3>1. \A m \in Slots(lv[1].lists) : SitsAt(lv, 1, m)
      BY <2>1, <2>2, FirstLevelSits
    <3> QED
      BY <2>1, <2>2, <3>1
  <2>3. CASE j # 0
    <3>1. \A m \in Slots(lv[j].lists) : SitsAt(lv, j, m)
      BY <2>1, <2>3
    <3>2. \A m \in Slots(lv[j + 1].lists) : SitsAt(lv, j + 1, m)
      <4> HIDE DEF T
      <4> QED
        BY <2>1, <2>3, <3>1, NextLevelSits
    <3> QED
      BY <2>1, <3>2
  <2> QED
    BY <2>2, <2>3
<1>3. 0 .. Len(lv) \subseteq T
  <2>1. T \in SUBSET Nat /\ Len(lv) \in Nat
    BY DEF Stacked
  <2> HIDE DEF T
  <2> QED
    BY <1>1, <1>2, <2>1, InductionUpTo
<1>4. i \in 0 .. Len(lv) /\ i > 0
  BY DEF Stacked
<1> QED
  BY <1>3, <1>4

-----------------------------------------------------------------------------
(* The vector of lists with every swap undone *)

\* The first L slots hold all that the levels use and lend.
Reach1(v, L) == v.base + v.lists <= L /\ \A l \in DOMAIN v.bind : v.top + l + 1 <= L
Reaches(lv, L) == \A i \in 1 .. Len(lv) : Reach1(lv[i], L)

\* One level's swaps stay within the vector.
LEMMA SwappedWithin ==
  ASSUME NEW v, GoodLevel(v), NEW L \in Nat, Reach1(v, L), NEW k \in 1 .. L
  PROVE  Swapped(v, k) \in 1 .. L
<1>1. ASSUME NEW l \in DOMAIN v.bind
      PROVE  v.top + l + 1 \in 1 .. L /\ v.base + v.bind[l] + 1 \in 1 .. L
  <2>1. /\ v.top \in Nat /\ v.base \in Nat /\ v.lists \in Nat /\ l \in Nat
        /\ v.bind[l] \in Nat /\ v.bind[l] < v.lists
        /\ v.base + v.lists <= L /\ v.top + l + 1 <= L
    BY DEF GoodLevel, Slots, Reach1
  <2> QED
    BY <2>1
<1>2. CASE \E l \in DOMAIN v.bind : k = v.top + l + 1
  BY <1>1, <1>2, CalleeGoes
<1>3. CASE \E l \in DOMAIN v.bind : k = v.base + v.bind[l] + 1
  BY <1>1, <1>3, CallerGoes
<1>4. CASE \A l \in DOMAIN v.bind : k # v.top + l + 1 /\ k # v.base + v.bind[l] + 1
  BY <1>4, OthersStay
<1> QED
  BY <1>2, <1>3, <1>4

\* And so do those of any number of levels.
LEMMA PlaceWithin ==
  ASSUME NEW lv, Len(lv) \in Nat, GoodLevels(lv), NEW L \in Nat, Reaches(lv, L),
         NEW i \in 0 .. Len(lv), NEW k \in 1 .. L
  PROVE  Place(lv)[i][k] \in 1 .. L
<1> DEFINE T == {j \in 0 .. Len(lv) : Place(lv)[j][k] \in 1 .. L}
<1>1. 0 \in T
  BY PlaceFacts
<1>2. ASSUME NEW j \in T, j < Len(lv)
      PROVE  j + 1 \in T
  <2>1. j + 1 \in 1 .. Len(lv) /\ j + 1 \in 0 .. Len(lv) /\ (j + 1) - 1 = j /\ k \in Nat
    BY <1>2
  <2>2. Place(lv)[j + 1][k] = Swapped(lv[j + 1], Place(lv)[j][k])
    BY <2>1, PlaceFacts
  <2>3. GoodLevel(lv[j + 1]) /\ Reach1(lv[j + 1], L)
    BY <2>1 DEF GoodLevels, Reaches
  <2>4. Place(lv)[j][k] \in 1 .. L
    OBVIOUS
  <2>5. Place(lv)[j + 1][k] \in 1 .. L
    BY <2>2, <2>3, <2>4, SwappedWithin
  <2> QED
    BY <2>1, <2>5
<1>3. 0 .. Len(lv) \subseteq T
  <2>1. T \in SUBSET Nat
    OBVIOUS
  <2> HIDE DEF T
  <2> QED
    BY <1>1, <1>2, <2>1, InductionUpTo
<1> QED
  BY <1>3

\* The last level reaches as far as any.
LEMMA LastReaches ==
  ASSUME NEW lv, Stacked(lv), NEW L \in Nat, Len(lv) > 0 => Reach1(lv[Len(lv)], L)
  PROVE  Reaches(lv, L)
<1> DEFINE n == Len(lv)
<1>1. n \in Nat
  BY DEF Stacked
<1>2. ASSUME NEW i \in 1 .. n, i # n
      PROVE  Reach1(lv[i], L)
  <2>1. n \in 1 .. n /\ i < n /\ i \in 1 .. n - 1 /\ i + 1 \in 1 .. n /\ n > 0 /\ (i + 1 = n \/ i + 1 < n)
    BY <1>1, <1>2
  <2>2. /\ lv[i].base + lv[i].lists <= lv[n].base /\ lv[n].base \in Nat
        /\ lv[i].base \in Nat /\ lv[i].lists \in Nat
    BY <2>1, LevelsRise
  <2>3. lv[n].lists \in Nat /\ lv[n].base + lv[n].lists <= L
    BY <2>1 DEF Reach1, Stacked, GoodLevels, GoodLevel
  <2>4. /\ lv[i + 1].base = lv[i].top
        /\ \A l \in DOMAIN lv[i].bind : l \in Slots(lv[i + 1].lists)
    BY <2>1 DEF Stacked
  <2>5. /\ lv[i + 1].base \in Nat /\ lv[i + 1].lists \in Nat
        /\ lv[i + 1].base + lv[i + 1].lists <= lv[n].base + lv[n].lists
    <3>1. CASE i + 1 = n
      BY <2>2, <2>3, <3>1
    <3>2. CASE i + 1 < n
      <4>1. /\ lv[i + 1].base + lv[i + 1].lists <= lv[n].base
            /\ lv[i + 1].base \in Nat /\ lv[i + 1].lists \in Nat
        BY <2>1, <3>2, LevelsRise
      <4> QED
        BY <2>2, <2>3, <4>1, SMTT(30)
    <3> QED
      BY <2>1, <3>1, <3>2
  <2>6. ASSUME NEW l \in DOMAIN lv[i].bind
        PROVE  lv[i].top + l + 1 <= L
    <3>1. l \in Nat /\ l + 1 <= lv[i + 1].lists
      BY <2>4, <2>5 DEF Slots
    <3>2. lv[i + 1].base + l + 1 <= L
      <4>1. lv[i + 1].base + lv[i + 1].lists <= L
        BY <2>2, <2>3, <2>5, SMTT(30)
      <4>2. lv[i + 1].base \in Nat /\ lv[i + 1].lists \in Nat
        BY <2>5
      <4> QED
        BY <3>1, <4>1, <4>2, SMTT(30)
    <3>3. lv[i + 1].base = lv[i].top
      BY <2>4
    <3> QED
      BY <3>2, <3>3
  <2>7. lv[i].base + lv[i].lists <= L
    BY <2>2, <2>3
  <2> QED
    BY <2>6, <2>7 DEF Reach1
<1>3. n > 0 => Reach1(lv[n], L)
  OBVIOUS
<1> QED
  BY <1>1, <1>2, <1>3 DEF Reaches

\* A level that has lent nothing swaps nothing.
LEMMA UnlentStays ==
  ASSUME NEW lv, Len(lv) \in Nat, Len(lv) > 0, DOMAIN lv[Len(lv)].bind = {}, NEW k \in Nat,
         GoodLevels(lv)
  PROVE  Place(lv)[Len(lv)][k] = Place(lv)[Len(lv) - 1][k]
<1> DEFINE n == Len(lv)
<1>1. n \in 1 .. n /\ n - 1 \in 0 .. n
  OBVIOUS
<1>2. Place(lv)[n][k] = Swapped(lv[n], Place(lv)[n - 1][k])
  BY <1>1, PlaceFacts
<1>3. Swapped(lv[n], Place(lv)[n - 1][k]) = Place(lv)[n - 1][k]
  BY OthersStay
<1> QED
  BY <1>2, <1>3

\* A list of the innermost script, that has lent nothing, sits in its own slot.
LEMMA RowSits ==
  ASSUME NEW lv, Stacked(lv), Len(lv) > 0, DOMAIN lv[Len(lv)].bind = {},
         NEW l \in Slots(lv[Len(lv)].lists)
  PROVE  /\ HomeSlot(lv, Refs(lv)[Len(lv)][l]) \in Nat
         /\ Place(lv)[Len(lv)][HomeSlot(lv, Refs(lv)[Len(lv)][l])] = lv[Len(lv)].base + l + 1
<1> DEFINE n == Len(lv)
           r == Refs(lv)[n][l]
<1>1. n \in Nat /\ n \in 1 .. n /\ GoodLevels(lv)
  BY DEF Stacked
<1>2. SitsAt(lv, n, l)
  BY <1>1, RefsSit
<1>3. RefOf(lv, n, r) /\ Place(lv)[n - 1][HomeSlot(lv, r)] = lv[n].base + l + 1
  BY <1>2 DEF SitsAt
<1>4. HomeSlot(lv, r) \in Nat
  BY <1>1, <1>3, HomeSlotIsNat
<1> QED
  BY <1>1, <1>3, <1>4, UnlentStays

\* Where the swaps of all levels have taken the list of slot k.
At(lv, k) == Place(lv)[Len(lv)][k]

\* The vector with the swaps undone, in terms of At.
LEMMA HomeIs ==
  ASSUME NEW lv, NEW ls
  PROVE  Home(lv, ls) = [k \in DOMAIN ls |-> ls[At(lv, k)]]
  BY DEF Home, At

\* At is one-to-one on the slots of the vector.
LEMMA AtFacts ==
  ASSUME NEW lv, Stacked(lv), NEW L \in Nat, Reaches(lv, L)
  PROVE  /\ \A k \in 1 .. L : At(lv, k) \in 1 .. L
         /\ \A k, m \in 1 .. L : At(lv, k) = At(lv, m) => k = m
<1>1. Len(lv) \in Nat /\ GoodLevels(lv) /\ Len(lv) \in 0 .. Len(lv)
  BY DEF Stacked
<1>2. \A k \in 1 .. L : Place(lv)[Len(lv)][k] \in 1 .. L
  BY <1>1, PlaceWithin
<1>3. \A k, m \in Nat : Place(lv)[Len(lv)][k] = Place(lv)[Len(lv)][m] => k = m
  BY <1>1, PlaceIsOneToOne
<1>4. \A k \in 1 .. L : k \in Nat
  OBVIOUS
<1> QED
  BY <1>2, <1>3, <1>4 DEF At

\* The home slot of a reference is one the levels reach.
LEMMA HomeSlotWithin ==
  ASSUME NEW lv, Stacked(lv), NEW L \in Nat, Reaches(lv, L), NEW i \in 1 .. Len(lv), NEW r, RefOf(lv, i, r)
  PROVE  HomeSlot(lv, r) \in 1 .. L
<1>0. Len(lv) \in Nat /\ 1 \in 1 .. Len(lv) /\ GoodLevels(lv) /\ lv[1].base = 0
  BY DEF Stacked
<1>1. CASE \E m \in Slots(lv[1].lists) : r = <<0, m>>
  <2>1. PICK m \in Slots(lv[1].lists) : r = <<0, m>>
    BY <1>1
  <2>2. lv[1].lists \in Nat /\ lv[1].base + lv[1].lists <= L
    BY <1>0 DEF Reaches, Reach1, GoodLevels, GoodLevel
  <2>3. m \in Nat /\ m + 1 <= lv[1].lists
    BY <2>2 DEF Slots
  <2>4. HomeSlot(lv, r) = m + 1
    BY <2>1 DEF HomeSlot
  <2> QED
    BY <1>0, <2>2, <2>3, <2>4
<1>2. CASE \E d \in 2 .. i : \E m \in Slots(lv[d].lists) \ DOMAIN lv[d - 1].bind : r = <<d, m>>
  <2>1. PICK d \in 2 .. i : \E m \in Slots(lv[d].lists) \ DOMAIN lv[d - 1].bind : r = <<d, m>>
    BY <1>2
  <2>2. PICK m \in Slots(lv[d].lists) \ DOMAIN lv[d - 1].bind : r = <<d, m>>
    BY <2>1
  <2>3. d \in 1 .. Len(lv) /\ d # 0
    BY <1>0
  <2>4. HomeSlot(lv, r) = lv[d].base + m + 1
    BY <2>2, <2>3 DEF HomeSlot
  <2>5. lv[d].lists \in Nat /\ lv[d].base \in Nat /\ lv[d].base + lv[d].lists <= L
    BY <1>0, <2>3 DEF Reaches, Reach1, GoodLevels, GoodLevel
  <2>6. m \in Nat /\ m + 1 <= lv[d].lists
    BY <2>5 DEF Slots
  <2> QED
    BY <2>4, <2>5, <2>6, SMTT(30)
<1> QED
  BY <1>1, <1>2 DEF RefOf

Wrote(slots, k, x) == [slots EXCEPT ![k] = x]
LastRef(lv, l) == Refs(lv)[Len(lv)][l]
LastSlot(lv, l) == lv[Len(lv)].base + l + 1

\* The innermost script writes its list l: at home, the list it refers to.
LEMMA HomeWrite ==
  ASSUME NEW lv, Stacked(lv), Len(lv) > 0, DOMAIN lv[Len(lv)].bind = {},
         NEW l \in Slots(lv[Len(lv)].lists), NEW L \in Nat, Reaches(lv, L),
         NEW ls, DOMAIN ls = 1 .. L, NEW x
  PROVE  /\ RefOf(lv, Len(lv), LastRef(lv, l))
         /\ HomeSlot(lv, LastRef(lv, l)) \in 1 .. L
         /\ Home(lv, ls)[HomeSlot(lv, LastRef(lv, l))] = ls[LastSlot(lv, l)]
         /\ Home(lv, Wrote(ls, LastSlot(lv, l), x)) = Wrote(Home(lv, ls), HomeSlot(lv, LastRef(lv, l)), x)
<1> DEFINE r == Refs(lv)[Len(lv)][l]
           p == lv[Len(lv)].base + l + 1
           h == HomeSlot(lv, r)
           lt == [ls EXCEPT ![p] = x]
<1>1. Len(lv) \in Nat /\ Len(lv) \in 1 .. Len(lv)
  BY DEF Stacked
<1>2. RefOf(lv, Len(lv), r)
  BY <1>1, RefsSit DEF SitsAt
<1>3. h \in 1 .. L
  BY <1>1, <1>2, HomeSlotWithin
<1>4. At(lv, h) = p
  BY RowSits DEF At
<1>5. /\ \A k \in 1 .. L : At(lv, k) \in 1 .. L
      /\ \A k, m \in 1 .. L : At(lv, k) = At(lv, m) => k = m
  BY AtFacts
<1>6. Home(lv, ls) = [k \in 1 .. L |-> ls[At(lv, k)]]
  BY HomeIs
<1>7. DOMAIN lt = 1 .. L
  OBVIOUS
<1>8. Home(lv, lt) = [k \in 1 .. L |-> lt[At(lv, k)]]
  BY <1>7, HomeIs
<1>9. ASSUME NEW k \in 1 .. L
      PROVE  lt[At(lv, k)] = [Home(lv, ls) EXCEPT ![h] = x][k]
  <2>1. At(lv, k) = p <=> k = h
    BY <1>3, <1>4, <1>5
  <2>2. At(lv, k) \in 1 .. L
    BY <1>5
  <2> HIDE DEF h, p
  <2>3. CASE k = h
    BY <1>6, <2>1, <2>2, <2>3
  <2>4. CASE k # h
    BY <1>6, <2>1, <2>2, <2>4
  <2> QED
    BY <2>3, <2>4
<1>10. Home(lv, lt) = [Home(lv, ls) EXCEPT ![h] = x]
  <2> HIDE DEF lt, h
  <2> QED
    BY <1>6, <1>8, <1>9
<1>11. Home(lv, ls)[h] = ls[p]
  BY <1>3, <1>4, <1>6
<1> QED
  BY <1>2, <1>3, <1>10, <1>11 DEF Wrote, LastRef, LastSlot

\* Two vectors of levels that differ in the last level at most.
SameBelow(lv, lw) == Len(lw) = Len(lv) /\ \A j \in 1 .. Len(lv) - 1 : lw[j] = lv[j]

\* The swaps of the last level, run either way, move no list from its home.
LEMMA HomeSwap ==
  ASSUME NEW lv, Stacked(lv), NEW lw, Stacked(lw), SameBelow(lv, lw), Len(lv) > 0,
         DOMAIN lv[Len(lv)].bind = {}, NEW L \in Nat, Reaches(lv, L), Reaches(lw, L),
         NEW ls, DOMAIN ls = 1 .. L, NEW lt, lt = [k \in 1 .. L |-> ls[Swapped(lw[Len(lv)], k)]]
  PROVE  Home(lw, lt) = Home(lv, ls) /\ Home(lv, lt) = Home(lw, ls)
<1> DEFINE n == Len(lv)
           v == lw[n]
           place == Place(lv)[n - 1]
<1>1. /\ n \in Nat /\ n \in 1 .. n /\ Len(lw) = n /\ n - 1 \in 0 .. n /\ n - 1 \in Nat
      /\ GoodLevels(lv) /\ GoodLevels(lw) /\ GoodLevel(v) /\ Reach1(v, L)
  BY DEF Stacked, SameBelow, GoodLevels, Reaches
<1>2. Place(lw)[n - 1] = place
  <2>1. n - 1 <= Len(lv) /\ n - 1 <= Len(lw) /\ \A j \in 1 .. n - 1 : lw[j] = lv[j]
    BY <1>1 DEF SameBelow
  <2> QED
    BY <1>1, <2>1, PlacePrefix
<1>3. ASSUME NEW k \in 1 .. L
      PROVE  /\ place[k] \in 1 .. L /\ Swapped(v, place[k]) \in 1 .. L
             /\ At(lv, k) = place[k] /\ At(lw, k) = Swapped(v, place[k])
             /\ Swapped(v, Swapped(v, place[k])) = place[k]
  <2>1. place[k] \in 1 .. L /\ k \in Nat
    BY <1>1, PlaceWithin
  <2>2. At(lv, k) = place[k]
    BY <1>1, <2>1, UnlentStays DEF At
  <2>3. At(lw, k) = Swapped(v, place[k])
    <3>1. n \in 1 .. Len(lw) /\ Len(lw) \in Nat
      BY <1>1
    <3>2. Place(lw)[n][k] = Swapped(lw[n], Place(lw)[n - 1][k])
      BY <2>1, <3>1, PlaceFacts
    <3> QED
      BY <1>1, <1>2, <3>2 DEF At
  <2>4. place[k] \in Nat
    BY <2>1
  <2> QED
    BY <1>1, <2>1, <2>2, <2>3, <2>4, SwappedWithin, SwappedTwice
<1>4. DOMAIN lt = 1 .. L
  OBVIOUS
<1>5. /\ Home(lv, ls) = [k \in 1 .. L |-> ls[At(lv, k)]] /\ Home(lw, ls) = [k \in 1 .. L |-> ls[At(lw, k)]]
      /\ Home(lv, lt) = [k \in 1 .. L |-> lt[At(lv, k)]] /\ Home(lw, lt) = [k \in 1 .. L |-> lt[At(lw, k)]]
  BY <1>4, HomeIs
<1>6. ASSUME NEW k \in 1 .. L
      PROVE  lt[At(lw, k)] = ls[At(lv, k)] /\ lt[At(lv, k)] = ls[At(lw, k)]
  <2> HIDE DEF v, place
  <2>1. \A m \in 1 .. L : lt[m] = ls[Swapped(v, m)]
    BY DEF v
  <2> QED
    BY <1>3, <2>1, SMTT(30)
<1>7. /\ [k \in 1 .. L |-> lt[At(lw, k)]] = [k \in 1 .. L |-> ls[At(lv, k)]]
      /\ [k \in 1 .. L |-> lt[At(lv, k)]] = [k \in 1 .. L |-> ls[At(lw, k)]]
  <2> HIDE DEF v, place
  <2> QED
    BY <1>6
<1> QED
  BY <1>5, <1>7

\* The same, of a sequence swapped by the last of the levels.
LEMMA HomePermuted ==
  ASSUME NEW lv, Stacked(lv), NEW lw, Stacked(lw), SameBelow(lv, lw), Len(lv) > 0,
         DOMAIN lv[Len(lv)].bind = {}, NEW L \in Nat, Reaches(lv, L), Reaches(lw, L),
         NEW ls, DOMAIN ls = 1 .. L, NEW v, v = lw[Len(lv)], NEW lt, lt = Permuted(ls, v)
  PROVE  Home(lv, lt) = Home(lw, ls)
<1>1. lt = [k \in 1 .. L |-> ls[Swapped(lw[Len(lv)], k)]]
  BY DEF Permuted
<1> QED
  BY <1>1, HomeSwap

\* An unlent level on top, and what lies above the reach of the levels, does
\* not show in the home of the first L slots.
LEMMA HomePush ==
  ASSUME NEW lv, Stacked(lv), NEW lw, Stacked(lw), Len(lw) = Len(lv) + 1,
         \A j \in 1 .. Len(lv) : lw[j] = lv[j], DOMAIN lw[Len(lw)].bind = {}, NEW k \in Nat
  PROVE  At(lw, k) = At(lv, k)
<1> DEFINE n == Len(lv)
<1>1. n \in Nat /\ Len(lw) \in Nat /\ Len(lw) > 0 /\ Len(lw) - 1 = n /\ n <= Len(lw) /\ GoodLevels(lw)
  BY DEF Stacked
<1>2. Place(lw)[n] = Place(lv)[n]
  BY <1>1, PlacePrefix
<1>3. Place(lw)[Len(lw)][k] = Place(lw)[Len(lw) - 1][k]
  BY <1>1, UnlentStays
<1> QED
  BY <1>1, <1>2, <1>3 DEF At

\* Slots beyond those the levels reach do not matter.
LEMMA HomeCut ==
  ASSUME NEW lv, Stacked(lv), NEW L \in Nat, Reaches(lv, L),
         NEW ls, NEW lt, NEW M \in Nat, NEW N \in Nat, DOMAIN ls = 1 .. M, DOMAIN lt = 1 .. N,
         L <= M, L <= N, \A k \in 1 .. L : ls[k] = lt[k], NEW k \in 1 .. L
  PROVE  Home(lv, ls)[k] = Home(lv, lt)[k]
<1>1. At(lv, k) \in 1 .. L
  BY AtFacts
<1>2. k \in DOMAIN ls /\ k \in DOMAIN lt
  OBVIOUS
<1> QED
  BY <1>1, <1>2, HomeIs

-----------------------------------------------------------------------------
(* What the host and each level own of the lists at home *)

HostIn(size, home) == [k \in 1 .. size |-> home[k]]
OwnIn(lv, home, i) ==
  IF i = 1 THEN <<>>
  ELSE [l \in Slots(lv[i].lists) \ DOMAIN lv[i - 1].bind |-> home[lv[i].base + l + 1]]

\* The host's part of the lists ends where the second level begins.
HostEnds(lv, size) ==
  /\ size \in Nat /\ lv[1].lists <= size
  /\ Len(lv) > 1 => size = lv[2].base

\* A list of the host sits below all that the levels own.
LEMMA HostSlot ==
  ASSUME NEW lv, Stacked(lv), NEW i \in 2 .. Len(lv), NEW m \in Slots(lv[i].lists),
         NEW size, HostEnds(lv, size)
  PROVE  lv[i].base + m + 1 > size /\ lv[i].base + m + 1 \in Nat /\ lv[1].lists <= size /\ size \in Nat
<1>1. Len(lv) \in Nat /\ 2 \in 1 .. Len(lv) /\ i \in 1 .. Len(lv) /\ (i = 2 \/ 2 < i) /\ Len(lv) > 1
  BY DEF Stacked
<1>2. size = lv[2].base /\ size \in Nat /\ lv[1].lists <= size
  BY <1>1 DEF HostEnds
<1>3. lv[i].base \in Nat /\ lv[2].lists \in Nat
  BY <1>1 DEF Stacked, GoodLevels, GoodLevel
<1>4. size <= lv[i].base
  <2>1. CASE i = 2
    BY <1>2, <2>1
  <2>2. CASE 2 < i
    <3>1. lv[2].base + lv[2].lists <= lv[i].base
      BY <1>1, <2>2, LevelsRise
    <3> QED
      BY <1>2, <1>3, <3>1
  <2> QED
    BY <1>1, <2>1, <2>2
<1>5. m \in Nat
  BY DEF Slots
<1> QED
  BY <1>2, <1>3, <1>4, <1>5

\* Two levels own different slots.
LEMMA OwnSlotsDiffer ==
  ASSUME NEW lv, Stacked(lv), NEW d \in 2 .. Len(lv), NEW m \in Slots(lv[d].lists),
         NEW i \in 2 .. Len(lv), NEW l \in Slots(lv[i].lists), lv[d].base + m + 1 = lv[i].base + l + 1
  PROVE  d = i /\ m = l
<1>1. /\ d \in 1 .. Len(lv) /\ i \in 1 .. Len(lv) /\ Len(lv) \in Nat
      /\ lv[d].base \in Nat /\ lv[i].base \in Nat /\ lv[d].lists \in Nat /\ lv[i].lists \in Nat
  BY DEF Stacked, GoodLevels, GoodLevel
<1>2. m \in Nat /\ l \in Nat /\ m < lv[d].lists /\ l < lv[i].lists
  BY <1>1, SMTT(30) DEF Slots
<1>3. ~(d < i)
  <2> SUFFICES ASSUME d < i PROVE FALSE
    OBVIOUS
  <2>1. lv[d].base + lv[d].lists <= lv[i].base
    BY <1>1, LevelsRise
  <2> QED
    BY <1>1, <1>2, <2>1, SMTT(30)
<1>4. ~(i < d)
  <2> SUFFICES ASSUME i < d PROVE FALSE
    OBVIOUS
  <2>1. lv[i].base + lv[i].lists <= lv[d].base
    BY <1>1, LevelsRise
  <2> QED
    BY <1>1, <1>2, <2>1, SMTT(30)
<1>5. d = i
  BY <1>3, <1>4
<1> QED
  BY <1>1, <1>2, <1>5

\* What the list of a reference holds.
Held(lv, size, home, r) ==
  IF r[1] = 0 THEN HostIn(size, home)[r[2] + 1] ELSE OwnIn(lv, home, r[1])[r[2]]

\* What a reference holds is what its home slot holds.
LEMMA RefHolds ==
  ASSUME NEW lv, Stacked(lv), NEW i \in 1 .. Len(lv), NEW r, RefOf(lv, i, r),
         NEW size, HostEnds(lv, size), NEW home
  PROVE  Held(lv, size, home, r) = home[HomeSlot(lv, r)]
<1>0. Len(lv) \in Nat /\ 1 \in 1 .. Len(lv) /\ lv[1].lists \in Nat
  BY DEF Stacked, GoodLevels, GoodLevel
<1>1. CASE \E m \in Slots(lv[1].lists) : r = <<0, m>>
  <2>1. PICK m \in Slots(lv[1].lists) : r = <<0, m>>
    BY <1>1
  <2>2. m + 1 \in 1 .. size
    BY <1>0 DEF Slots, HostEnds
  <2> QED
    BY <2>1, <2>2 DEF HomeSlot, Held, HostIn
<1>2. CASE \E d \in 2 .. i : \E m \in Slots(lv[d].lists) \ DOMAIN lv[d - 1].bind : r = <<d, m>>
  <2>1. PICK d \in 2 .. i : \E m \in Slots(lv[d].lists) \ DOMAIN lv[d - 1].bind : r = <<d, m>>
    BY <1>2
  <2>2. PICK m \in Slots(lv[d].lists) \ DOMAIN lv[d - 1].bind : r = <<d, m>>
    BY <2>1
  <2>3. d # 0 /\ d # 1
    OBVIOUS
  <2> QED
    BY <2>2, <2>3 DEF HomeSlot, Held, OwnIn
<1> QED
  BY <1>1, <1>2 DEF RefOf

\* A write to the home of a reference changes the list it refers to, and no other.
LEMMA HostWritten ==
  ASSUME NEW lv, Stacked(lv), NEW m \in Slots(lv[1].lists), Len(lv) > 0,
         NEW size, HostEnds(lv, size), NEW L \in Nat, size <= L,
         NEW home, home = [k \in 1 .. L |-> home[k]], NEW x
  PROVE  /\ HostIn(size, Wrote(home, m + 1, x)) = Wrote(HostIn(size, home), m + 1, x)
         /\ \A i \in 1 .. Len(lv) : OwnIn(lv, Wrote(home, m + 1, x), i) = OwnIn(lv, home, i)
<1> DEFINE next == [home EXCEPT ![m + 1] = x]
<1>0. Len(lv) \in Nat /\ lv[1].lists \in Nat /\ size \in Nat /\ lv[1].lists <= size
  BY DEF Stacked, GoodLevels, GoodLevel, HostEnds
<1>1. m \in Nat /\ m + 1 \in 1 .. size /\ 1 .. size \subseteq 1 .. L
  BY <1>0 DEF Slots
<1>2. DOMAIN home = 1 .. L
  OBVIOUS
<1>3. \A k \in 1 .. L : next[k] = IF k = m + 1 THEN x ELSE home[k]
  BY <1>2
<1>4. next = [k \in 1 .. L |-> next[k]]
  BY <1>2
<1>5. \A k : k # m + 1 /\ k \in 1 .. L => next[k] = home[k]
  BY <1>3
<1> HIDE DEF next
<1>6. HostIn(size, next) = [HostIn(size, home) EXCEPT ![m + 1] = x]
  BY <1>1, <1>3 DEF HostIn
<1>7. ASSUME NEW i \in 2 .. Len(lv), NEW l \in Slots(lv[i].lists)
      PROVE  next[lv[i].base + l + 1] = home[lv[i].base + l + 1]
  <2>1. lv[i].base + l + 1 > size /\ lv[i].base + l + 1 \in Nat
    BY HostSlot
  <2>2. lv[i].base + l + 1 # m + 1
    BY <1>0, <1>1, <2>1
  <2> QED
    BY <2>2 DEF next
<1>8. ASSUME NEW i \in 1 .. Len(lv)
      PROVE  OwnIn(lv, next, i) = OwnIn(lv, home, i)
  <2>1. CASE i = 1
    BY <2>1 DEF OwnIn
  <2>2. CASE i # 1
    <3>1. i \in 2 .. Len(lv)
      BY <1>0, <2>2
    <3>2. \A l \in Slots(lv[i].lists) \ DOMAIN lv[i - 1].bind :
            next[lv[i].base + l + 1] = home[lv[i].base + l + 1]
      BY <1>7, <3>1
    <3> QED
      BY <2>2, <3>2 DEF OwnIn
  <2> QED
    BY <2>1, <2>2
<1> QED
  BY <1>6, <1>8 DEF next, Wrote

OwnSlots(lv, d) == Slots(lv[d].lists) \ DOMAIN lv[d - 1].bind
Filled(home, L) == home = [k \in 1 .. L |-> home[k]]

\* Writing the home slot of an own list changes that list and nothing else.
LEMMA OwnWritten ==
  ASSUME NEW lv, Stacked(lv), NEW d \in 2 .. Len(lv), NEW m \in OwnSlots(lv, d),
         NEW size, HostEnds(lv, size), NEW L \in Nat, size <= L, NEW home, Filled(home, L),
         NEW p \in 1 .. L, p = lv[d].base + m + 1, NEW x
  PROVE  /\ HostIn(size, Wrote(home, p, x)) = HostIn(size, home)
         /\ \A i \in 1 .. Len(lv) : i # d => OwnIn(lv, Wrote(home, p, x), i) = OwnIn(lv, home, i)
         /\ OwnIn(lv, Wrote(home, p, x), d) = Wrote(OwnIn(lv, home, d), m, x)
<1> DEFINE next == [home EXCEPT ![p] = x]
<1>0. Len(lv) \in Nat /\ size \in Nat /\ d # 1
  BY DEF Stacked, HostEnds
<1>11. m \in Slots(lv[d].lists)
  BY DEF OwnSlots
<1>1. DOMAIN home = 1 .. L
  BY DEF Filled
<1>2. \A k \in 1 .. L : next[k] = IF k = p THEN x ELSE home[k]
  BY <1>1
<1>3. \A k : k # p => next[k] = home[k]
  BY <1>1
<1>4. next[p] = x
  BY <1>1
<1>5. p > size /\ p \in Nat
  BY <1>11, HostSlot
<1> HIDE DEF next
<1>6. \A k \in 1 .. size : next[k] = home[k]
  <2>1. \A k \in 1 .. size : k # p
    BY <1>0, <1>5
  <2> QED
    BY <1>3, <2>1
<1>7. HostIn(size, next) = HostIn(size, home)
  BY <1>6 DEF HostIn
<1>8. ASSUME NEW i \in 2 .. Len(lv), NEW l \in Slots(lv[i].lists), <<i, l>> # <<d, m>>
      PROVE  next[lv[i].base + l + 1] = home[lv[i].base + l + 1]
  <2>1. lv[i].base + l + 1 # p
    BY <1>8, <1>11, OwnSlotsDiffer
  <2> QED
    BY <1>3, <2>1
<1>9. ASSUME NEW i \in 1 .. Len(lv), i # d
      PROVE  OwnIn(lv, next, i) = OwnIn(lv, home, i)
  <2>1. CASE i = 1
    BY <2>1 DEF OwnIn
  <2>2. CASE i # 1
    <3>1. i \in 2 .. Len(lv)
      BY <1>0, <2>2
    <3>2. \A l \in Slots(lv[i].lists) \ DOMAIN lv[i - 1].bind :
            next[lv[i].base + l + 1] = home[lv[i].base + l + 1]
      BY <1>8, <1>9, <3>1
    <3> QED
      BY <2>2, <3>2 DEF OwnIn
  <2> QED
    BY <2>1, <2>2
<1>10. OwnIn(lv, next, d) = [OwnIn(lv, home, d) EXCEPT ![m] = x]
  <2> DEFINE own == Slots(lv[d].lists) \ DOMAIN lv[d - 1].bind
  <2>1. \A l \in own : next[lv[d].base + l + 1] = IF l = m THEN x ELSE home[lv[d].base + l + 1]
    BY <1>4, <1>8
  <2>2. /\ OwnIn(lv, next, d) = [l \in own |-> next[lv[d].base + l + 1]]
        /\ OwnIn(lv, home, d) = [l \in own |-> home[lv[d].base + l + 1]]
    BY <1>0 DEF OwnIn
  <2> HIDE DEF own
  <2>3. /\ DOMAIN OwnIn(lv, home, d) = own
        /\ \A l \in own : OwnIn(lv, home, d)[l] = home[lv[d].base + l + 1]
    BY <2>2
  <2>4. [OwnIn(lv, home, d) EXCEPT ![m] = x] =
          [l \in own |-> IF l = m THEN x ELSE home[lv[d].base + l + 1]]
    BY <2>3
  <2> QED
    BY <2>1, <2>2, <2>4
<1> QED
  BY <1>7, <1>9, <1>10 DEF next, Wrote

-----------------------------------------------------------------------------
(* The levels of a reachable state *)

LevelOf(scr, base, top, bind) == [lists |-> NLists[scr], base |-> base, top |-> top, bind |-> bind]

\* The level of a script that waits for its callee.
LEMMA WaitingLevel ==
  ASSUME FrameInv, NEW i \in 1 .. Len(frames), i # Len(frames)
  PROVE  Level(i) = LevelOf(frames[i].scr, ListBase(i), ListBase(i + 1), frames[i].site.bind)
<1>1. i \in 1 .. Len(frames) - 1
  BY LenProperties DEF FrameInv, TypeOK
<1>2. frames[i].pc = "called"
  BY <1>1 DEF FrameInv, AllLinked, Link
<1> QED
  BY <1>2 DEF Level, LevelOf, Innermost, Lent

\* The level of the innermost script with its bound lists swapped out.
LEMMA LentLevel ==
  ASSUME Top.pc \in Lent
  PROVE  Level(Len(frames)) = LevelOf(Top.scr, list_base, Len(lists) - Top.site.nlists, Top.site.bind)
  BY DEF Level, LevelOf, Innermost, ListBase, Top

\* And with none swapped out.
LEMMA UnlentLevel ==
  ASSUME Top.pc \notin Lent
  PROVE  Level(Len(frames)) = LevelOf(Top.scr, list_base, list_base + NLists[Top.scr], <<>>)
  BY DEF Level, LevelOf, Innermost, ListBase, Top

\* The level of a call site that has lent its lists.
LEMMA SiteLevel ==
  ASSUME SitesFresh, NEW s \in Scripts, NEW c \in Sites[s], NEW base \in Nat, NEW top \in Nat,
         base + NLists[s] <= top
  PROVE  /\ GoodLevel(LevelOf(s, base, top, c.bind))
         /\ DOMAIN c.bind \subseteq Slots(NLists[c.sub])
         /\ \A L \in Nat : top + NLists[c.sub] <= L => Reach1(LevelOf(s, base, top, c.bind), L)
<1>1. SiteOf(s, c) /\ NLists[s] \in Nat /\ NLists[c.sub] \in Nat /\ c.nlists = NLists[c.sub]
  BY ShapesAssumption, SiteFacts DEF ShapesAssumption
<1>2. \A l \in DOMAIN c.bind : l \in Nat /\ l + 1 <= NLists[c.sub]
  BY <1>1 DEF SiteOf, Slots
<1> DEFINE v == LevelOf(s, base, top, c.bind)
<1>3. v.lists = NLists[s] /\ v.base = base /\ v.top = top /\ v.bind = c.bind
  BY DEF LevelOf
<1> HIDE DEF v
<1>4. GoodLevel(v)
  BY <1>1, <1>2, <1>3 DEF GoodLevel, SiteOf
<1>5. ASSUME NEW L \in Nat, top + NLists[c.sub] <= L
      PROVE  Reach1(v, L)
  <2>1. base + NLists[s] <= L
    BY <1>1, <1>5
  <2>2. ASSUME NEW l \in DOMAIN c.bind
        PROVE  top + l + 1 <= L
    <3>1. l \in Nat /\ l + 1 <= NLists[c.sub]
      BY <1>2
    <3> QED
      BY <1>1, <1>5, <3>1
  <2> QED
    BY <1>3, <2>1, <2>2 DEF Reach1
<1> QED
  BY <1>1, <1>4, <1>5 DEF v, SiteOf

\* A level that lends nothing is laid out as it should be.
LEMMA PlainLevel ==
  ASSUME NEW s \in Scripts, NEW base \in Nat
  PROVE  /\ GoodLevel(LevelOf(s, base, base + NLists[s], <<>>))
         /\ \A L \in Nat : base + NLists[s] <= L => Reach1(LevelOf(s, base, base + NLists[s], <<>>), L)
  BY ShapesAssumption DEF ShapesAssumption, LevelOf, GoodLevel, Reach1

\* What the levels of a reachable state are.
Shape ==
  /\ Len(frames) \in Nat /\ Len(lists) \in Nat
  /\ Len(Levels) = Len(frames) /\ \A i \in 1 .. Len(frames) : Levels[i] = Level(i)
  /\ Stacked(Levels)
  /\ Reaches(Levels, Len(lists))
  /\ DOMAIN lists = 1 .. Len(lists)

\* Levels, frame by frame.
LEMMA LevelsAre ==
  ASSUME FrameInv
  PROVE  /\ Len(frames) \in Nat /\ Len(lists) \in Nat
         /\ Len(Levels) = Len(frames) /\ \A i \in 1 .. Len(frames) : Levels[i] = Level(i)
         /\ DOMAIN lists = 1 .. Len(lists)
<1>1. Len(frames) \in Nat
  BY LenProperties DEF FrameInv, TypeOK
<1>2. Len(lists) \in Nat /\ DOMAIN lists = 1 .. Len(lists)
  BY LenProperties DEF FrameInv, TypeOK
<1>3. Levels \in [1 .. Len(frames) -> {Level(i) : i \in 1 .. Len(frames)}]
  BY DEF Levels
<1>4. Len(Levels) = Len(frames)
  BY <1>1, <1>3, FunctionIsSeq
<1>5. \A i \in 1 .. Len(frames) : Levels[i] = Level(i)
  BY DEF Levels
<1> QED
  BY <1>1, <1>2, <1>4, <1>5

\* Each frame's level is laid out as a call site's is.
LEMMA LevelIsGood ==
  ASSUME SitesFresh, FrameInv, NEW i \in 1 .. Len(frames)
  PROVE  GoodLevel(Level(i)) /\ Level(i).base = ListBase(i) /\ Level(i).lists = NLists[frames[i].scr]
<1>0. Len(frames) \in Nat /\ frames # <<>> /\ frames[i].scr \in Scripts
  <2>1. frames \in Seq(FrameType)
    BY DEF FrameInv, TypeOK
  <2>2. frames[i] \in FrameType
    BY <2>1, ElementOfSeq
  <2>3. Len(frames) \in Nat /\ frames # <<>>
    BY <2>1, LenProperties
  <2> QED
    BY <2>2, <2>3 DEF FrameType
<1>1. CASE i # Len(frames)
  <2>1. Level(i) = LevelOf(frames[i].scr, ListBase(i), ListBase(i + 1), frames[i].site.bind)
    BY <1>1, WaitingLevel
  <2>2. i \in 1 .. Len(frames) - 1 /\ i + 1 \in 1 .. Len(frames) /\ i < i + 1
    BY <1>0, <1>1
  <2>3. Below(i, i + 1) /\ Link(i)
    BY <2>2 DEF FrameInv, AllBelow, AllLinked
  <2>4. frames[i].site \in Sites[frames[i].scr] /\ ListBase(i) + NLists[frames[i].scr] <= ListBase(i + 1)
    BY <2>3 DEF Link, Below
  <2>5. ListBase(i) \in Nat /\ ListBase(i + 1) \in Nat
    BY <2>2, BasesTyped
  <2> QED
    BY <1>0, <2>1, <2>4, <2>5, SiteLevel DEF LevelOf
<1>2. CASE i = Len(frames)
  <2>1. ListBase(i) = list_base /\ list_base \in Nat /\ Top.scr = frames[i].scr /\ Len(lists) \in Nat
    BY <1>0, <1>2, TopFacts DEF ListBase, Innermost, Top
  <2>2. CASE Top.pc \in Lent
    <3>1. Level(i) = LevelOf(Top.scr, list_base, Len(lists) - Top.site.nlists, Top.site.bind)
      BY <1>2, <2>2, LentLevel
    <3>2. Top.pc # "row"
      BY <2>2 DEF Lent
    <3>3. /\ Top.site \in Sites[Top.scr] /\ Top.site.nlists = NLists[Top.site.sub] /\ NLists[Top.site.sub] \in Nat
          /\ list_base + NLists[Top.scr] + NLists[Top.site.sub] <= Len(lists) /\ NLists[Top.scr] \in Nat
      BY <1>0, <3>2, OpenSite, TopFacts
    <3>4. Len(lists) - Top.site.nlists \in Nat /\ list_base + NLists[Top.scr] <= Len(lists) - Top.site.nlists
      <4>1. list_base \in Nat /\ Len(lists) \in Nat
        BY <2>1
      <4>2. /\ Top.site.nlists = NLists[Top.site.sub] /\ NLists[Top.site.sub] \in Nat /\ NLists[Top.scr] \in Nat
            /\ list_base + NLists[Top.scr] + NLists[Top.site.sub] <= Len(lists)
        BY <3>3
      <4> QED
        BY <4>1, <4>2, SMTT(30)
    <3>5. GoodLevel(LevelOf(Top.scr, list_base, Len(lists) - Top.site.nlists, Top.site.bind))
      BY <1>0, <2>1, <3>3, <3>4, SiteLevel
    <3> QED
      BY <2>1, <3>1, <3>5 DEF LevelOf
  <2>3. CASE Top.pc \notin Lent
    <3>1. Level(i) = LevelOf(Top.scr, list_base, list_base + NLists[Top.scr], <<>>)
      BY <1>2, <2>3, UnlentLevel
    <3> QED
      BY <1>0, <2>1, <3>1, PlainLevel DEF LevelOf
  <2> QED
    BY <2>2, <2>3
<1> QED
  BY <1>1, <1>2

\* The innermost level lies within the vector.
LEMMA TopReaches ==
  ASSUME SitesFresh, FrameInv, frames # <<>>
  PROVE  Reach1(Level(Len(frames)), Len(lists))
<1>1. /\ Top.scr \in Scripts /\ list_base \in Nat /\ NLists[Top.scr] \in Nat /\ Len(lists) \in Nat
  BY TopFacts
<1>2. CASE Top.pc \in Lent
  <2>1. Level(Len(frames)) = LevelOf(Top.scr, list_base, Len(lists) - Top.site.nlists, Top.site.bind)
    BY <1>2, LentLevel
  <2>2. Top.pc # "row"
    BY <1>2 DEF Lent
  <2>3. /\ Top.site \in Sites[Top.scr] /\ Top.site.nlists = NLists[Top.site.sub] /\ NLists[Top.site.sub] \in Nat
        /\ list_base + NLists[Top.scr] + NLists[Top.site.sub] <= Len(lists)
    BY <2>2, OpenSite
  <2>4. /\ Len(lists) - Top.site.nlists \in Nat /\ list_base + NLists[Top.scr] <= Len(lists) - Top.site.nlists
        /\ Len(lists) - Top.site.nlists + NLists[Top.site.sub] <= Len(lists)
    BY <1>1, <2>3, SMTT(30)
  <2> QED
    BY <1>1, <2>1, <2>3, <2>4, SiteLevel
<1>3. CASE Top.pc \notin Lent
  <2>1. Level(Len(frames)) = LevelOf(Top.scr, list_base, list_base + NLists[Top.scr], <<>>)
    BY <1>3, UnlentLevel
  <2>2. list_base + NLists[Top.scr] <= Len(lists)
    BY OwnLists
  <2> QED
    BY <1>1, <2>1, <2>2, PlainLevel
<1> QED
  BY <1>2, <1>3

\* What FrameInv says of the levels.
LEMMA LevelsShape == ASSUME SitesFresh PROVE FrameInv => Shape
<1> SUFFICES ASSUME FrameInv PROVE Shape
  OBVIOUS
<1>1. /\ Len(frames) \in Nat /\ Len(lists) \in Nat
      /\ Len(Levels) = Len(frames) /\ \A i \in 1 .. Len(frames) : Levels[i] = Level(i)
      /\ DOMAIN lists = 1 .. Len(lists)
  BY LevelsAre
<1>2. GoodLevels(Levels)
  BY <1>1, LevelIsGood DEF GoodLevels
<1>3. ASSUME NEW i \in 1 .. Len(Levels) - 1
      PROVE  /\ Levels[i + 1].base = Levels[i].top
             /\ DOMAIN Levels[i].bind \subseteq Slots(Levels[i + 1].lists)
  <2>1. i \in 1 .. Len(frames) /\ i + 1 \in 1 .. Len(frames) /\ i # Len(frames) /\ i < i + 1 /\ i \in 1 .. Len(frames) - 1
    BY <1>1
  <2>2. Levels[i] = LevelOf(frames[i].scr, ListBase(i), ListBase(i + 1), frames[i].site.bind)
    BY <1>1, <2>1, WaitingLevel
  <2>3. Levels[i + 1].base = ListBase(i + 1) /\ Levels[i + 1].lists = NLists[frames[i + 1].scr]
    BY <1>1, <2>1, LevelIsGood
  <2>4. Below(i, i + 1) /\ Link(i)
    BY <2>1 DEF FrameInv, AllBelow, AllLinked
  <2>5. /\ frames[i].site \in Sites[frames[i].scr] /\ ListBase(i) + NLists[frames[i].scr] <= ListBase(i + 1)
        /\ frames[i + 1].scr = frames[i].site.sub
    BY <2>4 DEF Link, Below
  <2>6. ListBase(i) \in Nat /\ ListBase(i + 1) \in Nat /\ frames[i].scr \in Scripts
    <3>1. frames[i] \in FrameType
      BY <2>1, ElementOfSeq DEF FrameInv, TypeOK
    <3> QED
      BY <2>1, <3>1, BasesTyped DEF FrameType
  <2>7. DOMAIN frames[i].site.bind \subseteq Slots(NLists[frames[i].site.sub])
    BY <2>5, <2>6, SiteLevel
  <2> QED
    BY <2>2, <2>3, <2>5, <2>7 DEF LevelOf
<1>4. ASSUME Len(Levels) > 0
      PROVE  Levels[1].base = 0
  <2>1. 1 \in 1 .. Len(frames) /\ frames # <<>>
    <3>1. Len(frames) > 0 /\ frames \in Seq(FrameType)
      BY <1>1, <1>4 DEF FrameInv, TypeOK
    <3> QED
      BY <1>1, <3>1, EmptySeq
  <2>2. ListBase(1) = 0
    BY <2>1 DEF FrameInv, Grounded
  <2> QED
    BY <1>1, <2>1, <2>2, LevelIsGood
<1>5. Stacked(Levels)
  BY <1>1, <1>2, <1>3, <1>4 DEF Stacked
<1>6. ASSUME Len(Levels) > 0
      PROVE  Reach1(Levels[Len(Levels)], Len(lists))
  <2>1. Len(frames) \in 1 .. Len(frames) /\ frames # <<>>
    <3>1. Len(frames) > 0 /\ frames \in Seq(FrameType)
      BY <1>1, <1>6 DEF FrameInv, TypeOK
    <3> QED
      BY <1>1, <3>1, EmptySeq
  <2> QED
    BY <1>1, <2>1, TopReaches
<1>7. Reaches(Levels, Len(lists))
  BY <1>1, <1>5, <1>6, LastReaches
<1> QED
  BY <1>1, <1>5, <1>7 DEF Shape

\* And of those of the next state.
LEMMA ShapeNext == ASSUME SitesFresh PROVE FrameInv' => Shape'
  BY LevelsShape, PTL

\* What the refinement mapping shows of the lists, in terms of the levels.
AtHome == Home(Levels, lists)

Mapped ==
  /\ HostLists \in 0 .. Len(lists)
  /\ HostContents = HostIn(HostLists, AtHome)
  /\ frames # <<>> => HostEnds(Levels, HostLists)
  /\ \A i \in 1 .. Len(frames) : OwnOf(i) = OwnIn(Levels, AtHome, i)

\* The own lists of a frame in terms of the levels.
LEMMA OwnIs ==
  ASSUME SitesFresh, FrameInv, NEW i \in 1 .. Len(frames)
  PROVE  OwnOf(i) = OwnIn(Levels, AtHome, i)
<1>0. Shape
  BY LevelsShape
<1>1. CASE i = 1
  BY <1>1 DEF OwnOf, OwnIn
<1>2. CASE i # 1
  <2>1. i - 1 \in 1 .. Len(frames) /\ i - 1 # Len(frames)
    BY <1>0, <1>2 DEF Shape
  <2>2. Levels[i - 1].bind = frames[i - 1].site.bind
    BY <1>0, <2>1, WaitingLevel DEF LevelOf, Shape
  <2>3. Levels[i].lists = NLists[frames[i].scr] /\ Levels[i].base = ListBase(i)
    BY <1>0, LevelIsGood DEF Shape
  <2> QED
    BY <1>2, <2>2, <2>3 DEF OwnOf, OwnIn, AtHome
<1> QED
  BY <1>1, <1>2

\* The host's lists end below every own list of a script.
LEMMA HostEndsBelow ==
  ASSUME SitesFresh, FrameInv, frames # <<>>
  PROVE  HostEnds(Levels, HostLists) /\ HostLists <= Len(lists)
<1>0. Shape /\ 1 \in 1 .. Len(frames) /\ Len(frames) \in Nat
  BY LevelsShape, TopFacts
<1>1. Levels[1].lists = NLists[frames[1].scr] /\ NLists[frames[1].scr] \in Nat
  <2>1. frames[1] \in FrameType
    BY <1>0, ElementOfSeq DEF FrameInv, TypeOK
  <2> QED
    BY <1>0, <2>1, LevelIsGood, ShapesAssumption DEF Shape, FrameType, ShapesAssumption
<1>2. list_base \in Nat /\ Len(lists) \in Nat /\ NLists[Top.scr] \in Nat
  BY TopFacts
<1>3. CASE Len(frames) > 1
  <2>1. 2 \in 1 .. Len(frames) /\ 1 # Len(frames) /\ 1 < 2
    BY <1>0, <1>3
  <2>2. HostLists = ListBase(2) /\ ListBase(2) = Levels[2].base
    BY <1>0, <1>3, <2>1, LevelIsGood DEF Shape, HostLists
  <2>3. ListBase(2) \in Nat /\ ListBase(1) \in Nat /\ ListBase(1) + NLists[frames[1].scr] <= ListBase(2)
    BY <1>0, <2>1, BasesTyped DEF FrameInv, AllBelow, Below
  <2>4. ListBase(2) <= list_base
    <3>1. 1 + 1 = 2
      OBVIOUS
    <3> QED
      BY <1>0, <2>1, <3>1, WaitingBelow
  <2>5. list_base + NLists[Top.scr] <= Len(lists)
    BY OwnLists
  <2>6. NLists[frames[1].scr] <= ListBase(2) /\ ListBase(2) <= Len(lists)
    BY <1>1, <1>2, <2>3, <2>4, <2>5
  <2> QED
    BY <1>1, <2>2, <2>3, <2>6 DEF HostEnds
<1>4. CASE Len(frames) = 1
  <2>1. list_base = 0 /\ frames[1].scr = Top.scr
    BY <1>4, LastFrame DEF Top
  <2>2. ~(Len(frames) > 1)
    BY <1>4
  <2>3. CASE Top.pc \in ListFrameOpen
    <3>1. Top.pc # "row"
      BY <2>3 DEF ListFrameOpen
    <3>2. /\ list_base + NLists[Top.scr] + NLists[Top.site.sub] <= Len(lists) /\ NLists[Top.site.sub] \in Nat
          /\ Top.site.nlists = NLists[Top.site.sub]
      BY <3>1, OpenSite
    <3>3. HostLists = Len(lists) - Top.site.nlists
      BY <2>2, <2>3 DEF HostLists
    <3>4. HostLists \in Nat /\ NLists[Top.scr] <= HostLists /\ HostLists <= Len(lists)
      <4>1. list_base = 0
        BY <2>1
      <4>2. NLists[Top.scr] + NLists[Top.site.sub] <= Len(lists)
        BY <1>2, <3>2, <4>1
      <4> QED
        BY <1>2, <3>2, <3>3, <4>2, SMTT(30)
    <3> QED
      BY <1>0, <1>1, <2>1, <2>2, <3>4 DEF HostEnds, Shape
  <2>4. CASE Top.pc \notin ListFrameOpen
    <3>1. HostLists = Len(lists)
      BY <2>2, <2>4 DEF HostLists
    <3>2. list_base + NLists[Top.scr] <= Len(lists)
      BY OwnLists
    <3>3. NLists[Top.scr] <= Len(lists)
      BY <1>2, <2>1, <3>2
    <3> QED
      BY <1>0, <1>1, <1>2, <2>1, <2>2, <3>1, <3>3 DEF HostEnds, Shape
  <2> QED
    BY <2>3, <2>4
<1> QED
  BY <1>0, <1>3, <1>4

\* What FrameInv says of the mapping.
LEMMA MappedNow == ASSUME SitesFresh PROVE FrameInv => Mapped
<1> SUFFICES ASSUME FrameInv PROVE Mapped
  OBVIOUS
<1>1. HostContents = HostIn(HostLists, AtHome)
  BY DEF HostContents, HostIn, AtHome
<1>2. frames # <<>> => HostEnds(Levels, HostLists) /\ HostLists <= Len(lists)
  BY HostEndsBelow
<1>3. HostLists \in 0 .. Len(lists)
  <2>1. Len(lists) \in Nat
    BY LevelsAre
  <2>2. CASE frames = <<>>
    <3>1. Len(frames) = 0
      BY <2>2
    <3> QED
      BY <2>1, <2>2, <3>1 DEF HostLists
  <2>3. CASE frames # <<>>
    BY <1>2, <2>1, <2>3 DEF HostEnds
  <2> QED
    BY <2>2, <2>3
<1> QED
  BY <1>1, <1>2, <1>3, OwnIs DEF Mapped

\* And of the mapping of the next state.
LEMMA MappedNext == ASSUME SitesFresh PROVE FrameInv' => Mapped'
  BY MappedNow, PTL

-----------------------------------------------------------------------------
(* What a step leaves of the frames that wait *)

\* Sequences that agree up to b agree on a part that ends there.
LEMMA SamePart ==
  ASSUME NEW S, NEW s \in Seq(S), NEW t \in Seq(S), NEW a \in Nat, NEW b \in Nat,
         b <= Len(s), b <= Len(t), \A p \in 1 .. b : t[p] = s[p]
  PROVE  SubSeq(t, a + 1, b) = SubSeq(s, a + 1, b)
<1>1. CASE a + 1 <= b
  <2>1. /\ SubSeq(s, a + 1, b) = [i \in 1 .. (b - (a + 1)) + 1 |-> s[i + (a + 1) - 1]]
        /\ SubSeq(t, a + 1, b) = [i \in 1 .. (b - (a + 1)) + 1 |-> t[i + (a + 1) - 1]]
    OBVIOUS
  <2>2. \A i \in 1 .. (b - (a + 1)) + 1 : i + (a + 1) - 1 \in 1 .. b
    OBVIOUS
  <2> QED
    BY <2>1, <2>2
<1>2. CASE ~(a + 1 <= b)
  <2>1. SubSeq(s, a + 1, b) = <<>> /\ SubSeq(t, a + 1, b) = <<>>
    BY <1>2, SubSeqProperties
  <2> QED
    BY <2>1
<1> QED
  BY <1>1, <1>2

\* A frame below the last kept one has its bases and its successor's kept.
LEMMA KeptFrame ==
  ASSUME FrameInv, NEW m \in Nat, Kept(m), NEW i \in 1 .. m - 1
  PROVE  /\ i \in Nat /\ i \in 1 .. m /\ i + 1 \in 1 .. m
         /\ i \in 1 .. Len(frames) /\ i # Len(frames) /\ i < Len(frames) /\ i < Len(frames') /\ i # Len(frames')
         /\ frames'[i] = frames[i]
         /\ FrameBase(i)' = FrameBase(i) /\ FrameBase(i + 1)' = FrameBase(i + 1)
         /\ ArgBase(i)' = ArgBase(i) /\ SavedBase(i)' = SavedBase(i)
         /\ ListBase(i)' = ListBase(i) /\ ListBase(i + 1)' = ListBase(i + 1)
<1>1. m \in 1 .. Len(frames) /\ m \in 1 .. Len(frames') /\ Len(frames) \in Nat
  BY LenProperties DEF FrameInv, TypeOK, Kept
<1>2. i \in 1 .. m /\ i + 1 \in 1 .. m /\ i \in Nat
  OBVIOUS
<1>3. /\ i \in 1 .. Len(frames) /\ i # Len(frames) /\ i < Len(frames) /\ i < Len(frames') /\ i # Len(frames')
  BY <1>1, <1>2
<1> QED
  BY <1>2, <1>3 DEF Kept

\* The scalars of a script that waits.
LEMMA WaitingScalars ==
  ASSUME FrameInv, KeepsCallers, NEW m \in Nat, Kept(m), NEW i \in 1 .. m - 1
  PROVE  ArgsOf(i)' = ArgsOf(i) /\ SavedOf(i)' = SavedOf(i)
<1>1. /\ i \in 1 .. Len(frames) /\ i # Len(frames) /\ i < Len(frames) /\ i # Len(frames')
      /\ frames'[i] = frames[i] /\ ArgBase(i)' = ArgBase(i) /\ SavedBase(i)' = SavedBase(i)
  BY KeptFrame
<1>2. ScalarsKept(i)
  BY <1>1 DEF KeepsCallers
<1>3. /\ ArgsOf(i) = [k \in Slots(NArgs[frames[i].scr]) |-> args_stack[ArgBase(i) + k]]
      /\ ArgsOf(i)' = [k \in Slots(NArgs[frames[i].scr]) |-> args_stack'[ArgBase(i) + k]]
  BY <1>1 DEF ArgsOf, Effective, Innermost
<1>4. /\ SavedOf(i) = [k \in Slots(NSaved[frames[i].scr]) |-> saved_stack[SavedBase(i) + k]]
      /\ SavedOf(i)' = [k \in Slots(NSaved[frames[i].scr]) |-> saved_stack'[SavedBase(i) + k]]
  BY <1>1 DEF SavedOf, Effective, Innermost
<1> QED
  BY <1>2, <1>3, <1>4 DEF ScalarsKept

\* The operands of a script that waits.
LEMMA WaitingOperands ==
  ASSUME FrameInv, TypeOK', KeepsCallers, NEW m \in Nat, Kept(m), NEW i \in 1 .. m - 1
  PROVE  OpsOf(i)' = OpsOf(i)
<1>1. /\ i \in 1 .. Len(frames) /\ i # Len(frames) /\ i < Len(frames) /\ i # Len(frames')
      /\ FrameBase(i)' = FrameBase(i) /\ FrameBase(i + 1)' = FrameBase(i + 1)
  BY KeptFrame
<1>2. OperandsKept(i)
  BY <1>1 DEF KeepsCallers
<1>3. FrameBase(i) \in Nat /\ FrameBase(i + 1) \in Nat /\ FrameBase(i + 1) <= frame_base
  BY <1>1, WaitingBelow, BasesTyped
<1>4. stack \in Seq(Vals) /\ stack' \in Seq(Vals) /\ frame_base \in Nat /\ Len(stack) \in Nat /\ frame_base <= Len(stack)
  <2>1. frames # <<>>
    BY <1>1
  <2> QED
    BY <2>1, TopFacts DEF TypeOK, TopFit
<1>5. FrameBase(i + 1) <= Len(stack)
  BY <1>3, <1>4
<1>6. /\ OpsOf(i) = SubSeq(stack, FrameBase(i) + 1, FrameBase(i + 1))
      /\ OpsOf(i)' = SubSeq(stack', FrameBase(i) + 1, FrameBase(i + 1))
  BY <1>1 DEF OpsOf, Innermost
<1>7. FrameBase(i + 1) <= Len(stack') /\ \A p \in 1 .. FrameBase(i + 1) : stack'[p] = stack[p]
  BY <1>2 DEF OperandsKept
<1>8. SubSeq(stack', FrameBase(i) + 1, FrameBase(i + 1)) = SubSeq(stack, FrameBase(i) + 1, FrameBase(i + 1))
  <2>1. PICK a \in Nat, b \in Nat : a = FrameBase(i) /\ b = FrameBase(i + 1)
    BY <1>3
  <2>2. b <= Len(stack) /\ b <= Len(stack') /\ \A p \in 1 .. b : stack'[p] = stack[p]
    BY <1>5, <1>7, <2>1
  <2>3. SubSeq(stack', a + 1, b) = SubSeq(stack, a + 1, b)
    BY <1>4, <2>2, SamePart
  <2> QED
    BY <2>1, <2>3
<1> QED
  BY <1>6, <1>8

\* The call site of a kept frame.
LEMMA KeptRunBy ==
  ASSUME FrameInv, NEW m \in Nat, Kept(m), NEW i \in 1 .. m
  PROVE  RunBy(i)' = RunBy(i) /\ frames'[i].scr = frames[i].scr
<1>1. i = 1 \/ i - 1 \in 1 .. m - 1
  OBVIOUS
<1> QED
  BY <1>1 DEF Kept, RunBy

\* The levels below the last kept frame are the same; of its own the lists are.
LEMMA KeptLevels ==
  ASSUME SitesFresh, FrameInv, FrameInv', NEW m \in Nat, Kept(m)
  PROVE  /\ \A i \in 1 .. m - 1 : Levels'[i] = Levels[i]
         /\ \A i \in 1 .. m : Levels'[i].lists = Levels[i].lists /\ Levels'[i].base = Levels[i].base
         /\ m <= Len(Levels) /\ m <= Len(Levels')
<1>1. Shape /\ Shape'
  BY LevelsShape, ShapeNext
<1>2. m \in 1 .. Len(frames) /\ m \in 1 .. Len(frames') /\ Len(frames) \in Nat /\ Len(frames') \in Nat
  BY <1>1 DEF Kept, Shape
<1>3. ASSUME NEW i \in 1 .. m - 1
      PROVE  Levels'[i] = Levels[i]
  <2>1. /\ i \in 1 .. Len(frames) /\ i # Len(frames) /\ i # Len(frames') /\ i \in 1 .. Len(frames')
        /\ frames'[i] = frames[i] /\ ListBase(i)' = ListBase(i) /\ ListBase(i + 1)' = ListBase(i + 1)
    <3>1. i \in 1 .. Len(frames')
      BY <1>2
    <3> QED
      BY <3>1, KeptFrame
  <2>2. frames[i].pc = "called"
    <3>1. i \in 1 .. Len(frames) - 1
      BY <1>2, <2>1
    <3> QED
      BY <3>1 DEF FrameInv, AllLinked, Link
  <2>3. Level(i)' = Level(i)
    BY <2>1, <2>2 DEF Level, Innermost, Lent
  <2> QED
    BY <1>1, <2>1, <2>3 DEF Shape
<1>4. ASSUME NEW i \in 1 .. m
      PROVE  Levels'[i].lists = Levels[i].lists /\ Levels'[i].base = Levels[i].base
  <2>1. i \in 1 .. Len(frames) /\ i \in 1 .. Len(frames')
    BY <1>2
  <2>2. Levels[i] = Level(i) /\ Levels'[i] = Level(i)'
    BY <1>1, <2>1 DEF Shape
  <2>3. /\ Level(i).lists = NLists[frames[i].scr] /\ Level(i).base = ListBase(i)
        /\ Level(i)'.lists = NLists[frames'[i].scr] /\ Level(i)'.base = ListBase(i)'
    BY DEF Level
  <2> QED
    BY <2>2, <2>3 DEF Kept
<1> QED
  BY <1>1, <1>2, <1>3, <1>4 DEF Shape

\* The references of a kept frame.
LEMMA KeptRefs ==
  ASSUME SitesFresh, FrameInv, FrameInv', NEW m \in Nat, Kept(m), NEW i \in 1 .. m
  PROVE  Refs(Levels')[i] = Refs(Levels)[i]
<1>1. /\ \A j \in 1 .. m - 1 : Levels'[j] = Levels[j]
      /\ \A j \in 1 .. m : Levels'[j].lists = Levels[j].lists
      /\ m <= Len(Levels) /\ m <= Len(Levels')
  BY KeptLevels
<1>2. Len(Levels) \in Nat /\ Len(Levels') \in Nat
  BY LevelsShape, ShapeNext DEF Shape
<1> QED
  BY <1>1, <1>2, RefsPrefix

\* The own lists of a kept frame depend on the vector only.
LEMMA KeptOwn ==
  ASSUME SitesFresh, FrameInv, FrameInv', NEW m \in Nat, Kept(m), NEW i \in 1 .. m, NEW home
  PROVE  OwnIn(Levels', home, i) = OwnIn(Levels, home, i)
<1>1. /\ \A j \in 1 .. m - 1 : Levels'[j] = Levels[j]
      /\ \A j \in 1 .. m : Levels'[j].lists = Levels[j].lists /\ Levels'[j].base = Levels[j].base
  BY KeptLevels
<1>2. i = 1 \/ i - 1 \in 1 .. m - 1
  OBVIOUS
<1> QED
  BY <1>1, <1>2 DEF OwnIn

\* The lists a kept frame owns are the same if the first slots are, at home.
LEMMA KeptOwnOf ==
  ASSUME SitesFresh, FrameInv, FrameInv', NEW m \in Nat, Kept(m), NEW i \in 1 .. m,
         NEW K \in Nat, Levels[i].base + Levels[i].lists <= K,
         \A k \in 1 .. K : AtHome'[k] = AtHome[k]
  PROVE  OwnOf(i)' = OwnOf(i)
<1>1. Shape /\ Mapped /\ Mapped'
  BY LevelsShape, MappedNow, MappedNext
<1>2. i \in 1 .. Len(frames) /\ i \in 1 .. Len(frames') /\ Len(frames) \in Nat
  BY <1>1 DEF Kept, Shape
<1>3. OwnOf(i) = OwnIn(Levels, AtHome, i)
  BY <1>1, <1>2 DEF Mapped
<1>4. OwnOf(i)' = OwnIn(Levels', AtHome', i)
  BY <1>1, <1>2 DEF Mapped
<1>5. OwnIn(Levels', AtHome', i) = OwnIn(Levels, AtHome', i)
  BY KeptOwn
<1>6. Levels[i].base \in Nat /\ Levels[i].lists \in Nat
  BY <1>1, <1>2 DEF Shape, Stacked, GoodLevels, GoodLevel
<1>7. ASSUME NEW l \in Slots(Levels[i].lists)
      PROVE  AtHome'[Levels[i].base + l + 1] = AtHome[Levels[i].base + l + 1]
  <2>1. Levels[i].base + l + 1 \in 1 .. K
    BY <1>6 DEF Slots
  <2> QED
    BY <2>1
<1>8. OwnIn(Levels, AtHome', i) = OwnIn(Levels, AtHome, i)
  BY <1>7 DEF OwnIn
<1> QED
  BY <1>3, <1>4, <1>5, <1>8

\* The host's lists are kept if their slots are.
LEMMA KeptHost ==
  ASSUME SitesFresh, FrameInv, FrameInv', HostLists' = HostLists,
         \A k \in 1 .. HostLists : AtHome'[k] = AtHome[k]
  PROVE  HostContents' = HostContents
<1>1. HostContents = HostIn(HostLists, AtHome) /\ HostContents' = HostIn(HostLists', AtHome')
  BY MappedNow, MappedNext DEF Mapped
<1> QED
  BY <1>1 DEF HostIn

\* A script that waits is as before in the abstract run too.
LEMMA KeptEnvFrame ==
  ASSUME SitesFresh, FrameInv, FrameInv', KeepsCallers, NEW m \in Nat, Kept(m), NEW i \in 1 .. m - 1,
         OwnOf(i)' = OwnOf(i)
  PROVE  EnvFrame(i)' = EnvFrame(i)
<1>1. /\ frames'[i].scr = frames[i].scr /\ RunBy(i)' = RunBy(i) /\ Refs(Levels')[i] = Refs(Levels)[i]
  <2>1. i \in 1 .. m
    OBVIOUS
  <2> QED
    BY <2>1, KeptRunBy, KeptRefs
<1>2. ArgsOf(i)' = ArgsOf(i) /\ SavedOf(i)' = SavedOf(i)
  BY WaitingScalars
<1>3. OpsOf(i)' = OpsOf(i)
  <2>1. TypeOK'
    BY DEF FrameInv
  <2> QED
    BY <2>1, WaitingOperands
<1> QED
  BY <1>1, <1>2, <1>3 DEF EnvFrame

\* The abstract run while no exception is in flight.
LEMMA EnvIs ==
  ASSUME ~throwing
  PROVE  Env = [i \in 1 .. Len(frames) |-> EnvFrame(i)]
  BY DEF Env

\* The same in the next state.
LEMMA EnvNext ==
  ASSUME ~throwing'
  PROVE  Env' = [i \in 1 .. Len(frames') |-> EnvFrame(i)']
  BY DEF Env

\* A step of the call site that the scripts do not see.
LEMMA Unseen ==
  ASSUME SitesFresh, FrameInv, FrameInv', KeepsCallers, ~throwing, ~throwing',
         Len(frames') = Len(frames), Kept(Len(frames)),
         stack' = stack, return_value' = return_value,
         ArgsOf(Len(frames))' = ArgsOf(Len(frames)), SavedOf(Len(frames))' = SavedOf(Len(frames)),
         HostLists' = HostLists,
         NEW K \in Nat, Reaches(Levels, K), HostLists <= K, \A k \in 1 .. K : AtHome'[k] = AtHome[k]
  PROVE  UNCHANGED <<Env, HostContents, Result>>
<1> DEFINE n == Len(frames)
<1>1. Shape /\ Mapped
  BY LevelsShape, MappedNow
<1>2. n \in Nat /\ n \in 1 .. n /\ n \in 1 .. Len(frames)
  BY <1>1 DEF Shape, Kept
<1>3. ASSUME NEW i \in 1 .. n
      PROVE  OwnOf(i)' = OwnOf(i)
  <2>1. Levels[i].base + Levels[i].lists <= K
    BY <1>1 DEF Shape, Reaches, Reach1
  <2> QED
    BY <1>2, <2>1, KeptOwnOf
<1>4. ASSUME NEW i \in 1 .. n - 1
      PROVE  EnvFrame(i)' = EnvFrame(i)
  BY <1>2, <1>3, KeptEnvFrame
<1>5. EnvFrame(n)' = EnvFrame(n)
  <2>1. /\ frames'[n].scr = frames[n].scr /\ RunBy(n)' = RunBy(n) /\ Refs(Levels')[n] = Refs(Levels)[n]
    BY <1>2, KeptRunBy, KeptRefs
  <2>2. OpsOf(n)' = OpsOf(n)
    <3>1. FrameBase(n)' = FrameBase(n)
      BY <1>2 DEF Kept
    <3>2. OpsOf(n)' = SubSeq(stack', FrameBase(n)' + 1, Len(stack')) /\ OpsOf(n) = SubSeq(stack, FrameBase(n) + 1, Len(stack))
      BY DEF OpsOf, Innermost
    <3> QED
      BY <3>1, <3>2
  <2>3. OwnOf(n)' = OwnOf(n) /\ ArgsOf(n)' = ArgsOf(n) /\ SavedOf(n)' = SavedOf(n)
    BY <1>2, <1>3
  <2> QED
    BY <2>1, <2>2, <2>3 DEF EnvFrame
<1>6. \A i \in 1 .. n : EnvFrame(i)' = EnvFrame(i)
  BY <1>2, <1>4, <1>5
<1>7. Env' = Env
  <2>1. Env = [i \in 1 .. n |-> EnvFrame(i)] /\ Env' = [i \in 1 .. n |-> EnvFrame(i)']
    BY EnvIs, EnvNext
  <2> QED
    BY <1>6, <2>1
<1>8. HostContents' = HostContents
  <2>1. \A k \in 1 .. HostLists : k \in 1 .. K
    BY <1>1 DEF Mapped
  <2> QED
    BY <2>1, KeptHost
<1>9. Result' = Result
  <2>1. n > 1 => 2 \in 1 .. n
    BY <1>2
  <2> QED
    BY <2>1 DEF Result, Kept
<1> QED
  BY <1>7, <1>8, <1>9

-----------------------------------------------------------------------------
(* The steps of a call site that the scripts do not see *)

\* The innermost level of the next state, its bound lists swapped out.
LEMMA LentLevelNext ==
  ASSUME Top'.pc \in Lent, Len(frames') = Len(frames)
  PROVE  Level(Len(frames))' = LevelOf(Top'.scr, list_base', Len(lists') - Top'.site.nlists, Top'.site.bind)
  BY DEF Level, LevelOf, Innermost, ListBase, Top

\* And with none swapped out.
LEMMA UnlentLevelNext ==
  ASSUME Top'.pc \notin Lent, Len(frames') = Len(frames)
  PROVE  Level(Len(frames))' = LevelOf(Top'.scr, list_base', list_base' + NLists[Top'.scr], <<>>)
  BY DEF Level, LevelOf, Innermost, ListBase, Top

\* Levels are kept if the innermost one is.
LEMMA SameLevels ==
  ASSUME SitesFresh, FrameInv, FrameInv', Kept(Len(frames)), Len(frames') = Len(frames),
         Level(Len(frames))' = Level(Len(frames))
  PROVE  Levels' = Levels
<1> DEFINE n == Len(frames)
<1>1. Shape /\ Shape' /\ n \in Nat /\ n \in 1 .. n
  BY LevelsShape, ShapeNext DEF Shape, Kept
<1>2. \A i \in 1 .. n - 1 : Levels'[i] = Levels[i]
  BY <1>1, KeptLevels
<1>3. Levels'[n] = Levels[n]
  <2>1. Levels[n] = Level(n) /\ Levels'[n] = Level(n)'
    BY <1>1 DEF Shape
  <2> QED
    BY <2>1
<1>4. \A i \in 1 .. n : Levels'[i] = Levels[i]
  BY <1>1, <1>2, <1>3
<1>5. Levels = [i \in 1 .. n |-> Levels[i]] /\ Levels' = [i \in 1 .. n |-> Levels'[i]]
  BY DEF Levels
<1> QED
  BY <1>4, <1>5

\* The scalars the innermost script sees, but for a pending copy-back.
LEMMA PlainScalars ==
  ASSUME Kept(Len(frames)), Len(frames') = Len(frames), UNCHANGED <<args_stack, saved_stack>>,
         Top.pc # "returned", Top'.pc # "returned"
  PROVE  ArgsOf(Len(frames))' = ArgsOf(Len(frames)) /\ SavedOf(Len(frames))' = SavedOf(Len(frames))
<1> DEFINE n == Len(frames)
<1>1. n \in 1 .. n /\ frames[n].pc # "returned" /\ frames'[n].pc # "returned"
  BY DEF Kept, Top
<1>2. frames'[n].scr = frames[n].scr /\ ArgBase(n)' = ArgBase(n) /\ SavedBase(n)' = SavedBase(n)
  BY <1>1 DEF Kept
<1> QED
  BY <1>1, <1>2 DEF ArgsOf, SavedOf, Effective

\* How many lists the host owns does not change with the phase of a call site.
LEMMA HostListsKept ==
  ASSUME Kept(Len(frames)), Len(frames') = Len(frames), Len(frames) \in Nat, frames' # <<>>, frames # <<>>,
         Len(frames) = 1 => \/ Top.pc \in ListFrameOpen /\ Top'.pc \in ListFrameOpen /\
                               Len(lists') - Top'.site.nlists = Len(lists) - Top.site.nlists
                            \/ Top.pc \in ListFrameOpen /\ Top'.pc \notin ListFrameOpen /\
                               Len(lists') = Len(lists) - Top.site.nlists
                            \/ Top.pc \notin ListFrameOpen /\ Top'.pc \in ListFrameOpen /\
                               Len(lists') - Top'.site.nlists = Len(lists)
                            \/ Top.pc \notin ListFrameOpen /\ Top'.pc \notin ListFrameOpen /\
                               Len(lists') = Len(lists)
  PROVE  HostLists' = HostLists
<1>1. CASE Len(frames) > 1
  <2>1. 2 \in 1 .. Len(frames)
    BY <1>1
  <2>2. ListBase(2)' = ListBase(2)
    BY <2>1 DEF Kept
  <2> QED
    BY <1>1, <2>2 DEF HostLists
<1>2. CASE ~(Len(frames) > 1)
  <2>1. Len(frames) = 1
    BY <1>2 DEF Kept
  <2>2. HostLists = IF Top.pc \in ListFrameOpen THEN Len(lists) - Top.site.nlists ELSE Len(lists)
    BY <1>2 DEF HostLists
  <2>3. HostLists' = IF Top'.pc \in ListFrameOpen THEN Len(lists') - Top'.site.nlists ELSE Len(lists')
    BY <1>2 DEF HostLists
  <2> QED
    BY <2>1, <2>2, <2>3
<1> QED
  BY <1>1, <1>2

\* Opening a list frame is no step of the abstract run.
LEMMA EnterUnseen ==
  ASSUME SitesFresh, FrameInv, FrameInv', KeepsCallers,
         NEW s \in Scripts, NEW c \in Sites[s], ListFrameEnter(c)
  PROVE  UNCHANGED <<Env, HostContents, Result>>
<1> DEFINE n == Len(frames)
<1>0. frames # <<>> /\ ~throwing /\ ~throwing' /\ Top.pc = "row"
  BY DEF ListFrameEnter, InRow, Running
<1>1. /\ Kept(n) /\ Len(frames') = n /\ Top'.scr = Top.scr /\ Top'.pc = "entered" /\ Top'.site = c
      /\ TypeOK /\ n \in Nat
  <2>1. c \in AllSites \union {NoSite} /\ "entered" \in Phases /\ TypeOK
    BY SiteFacts DEF Phases, FrameInv
  <2>2. frames' = FramesAt(n, "entered", c) /\ UNCHANGED bases
    BY DEF ListFrameEnter, Reach
  <2> QED
    BY <1>0, <2>1, <2>2, KeptByReach, TopFacts
<1>2. Shape /\ Shape' /\ Mapped
  BY LevelsShape, ShapeNext, MappedNow
<1>3. /\ Len(lists) \in Nat /\ c.nlists \in Nat /\ Len(lists') = Len(lists) + c.nlists
      /\ \A k \in 1 .. Len(lists) : lists'[k] = lists[k]
  <2>1. lists \in Seq(Seq(Vals)) /\ c.nlists \in Nat
    BY SiteFacts DEF FrameInv, TypeOK
  <2>2. [k \in 1 .. c.nlists |-> <<>>] \in Seq(Seq(Vals)) /\ Len([k \in 1 .. c.nlists |-> <<>>]) = c.nlists
    BY <2>1, EmptyLists
  <2>3. lists' = lists \o [k \in 1 .. c.nlists |-> <<>>]
    BY DEF ListFrameEnter
  <2> HIDE DEF ListFrameEnter
  <2> QED
    BY <2>1, <2>2, <2>3
<1>4. Levels' = Levels
  <2>1. list_base' = list_base
    BY DEF ListFrameEnter, bases
  <2>2. Level(n)' = Level(n)
    BY <1>0, <1>1, <2>1, UnlentLevel, UnlentLevelNext DEF Lent
  <2> QED
    BY <1>1, <2>2, SameLevels
<1>5. \A k \in 1 .. Len(lists) : AtHome'[k] = AtHome[k]
  <2> DEFINE L == Len(lists)
             M == Len(lists')
  <2>1. /\ L \in Nat /\ M \in Nat /\ L <= M /\ DOMAIN lists = 1 .. L /\ DOMAIN lists' = 1 .. M
        /\ Stacked(Levels) /\ Reaches(Levels, L)
    BY <1>2, <1>3 DEF Shape
  <2>2. ASSUME NEW k \in 1 .. L
        PROVE  Home(Levels, lists')[k] = Home(Levels, lists)[k]
    <3> HIDE DEF L, M
    <3>1. \A j \in 1 .. L : lists'[j] = lists[j]
      BY <1>3 DEF L
    <3> QED
      BY <2>1, <3>1, HomeCut
  <2> QED
    BY <1>4, <2>2 DEF AtHome
<1>6. HostLists' = HostLists
  <2>1. frames' # <<>>
    BY <1>0, <1>1
  <2>2. Len(lists') - c.nlists = Len(lists)
    BY <1>3
  <2> QED
    BY <1>0, <1>1, <2>1, <2>2, HostListsKept DEF ListFrameOpen, Phases
<1>7. ArgsOf(n)' = ArgsOf(n) /\ SavedOf(n)' = SavedOf(n)
  BY <1>0, <1>1, PlainScalars DEF ListFrameEnter
<1>8. stack' = stack /\ return_value' = return_value /\ HostLists <= Len(lists)
  BY <1>2 DEF ListFrameEnter, Mapped
<1> QED
  BY <1>0, <1>1, <1>2, <1>3, <1>5, <1>6, <1>7, <1>8, Unseen DEF Shape

\* What a step from one phase of a call site to another keeps.
LEMMA ReachFacts ==
  ASSUME SitesFresh, FrameInv, frames # <<>>, Top.pc # "row", NEW pc \in Phases, NEW c \in {Top.site, NoSite},
         Reach(pc, c), UNCHANGED bases
  PROVE  /\ Kept(Len(frames)) /\ Len(frames') = Len(frames) /\ Len(frames) \in Nat /\ frames' # <<>>
         /\ Top'.scr = Top.scr /\ Top'.pc = pc /\ Top'.site = c
         /\ list_base' = list_base
         /\ Top.site.nlists \in Nat /\ Len(lists) \in Nat /\ Top.site.nlists <= Len(lists)
<1>1. c \in AllSites \union {NoSite} /\ TypeOK /\ Len(frames) \in Nat
  BY OpenSite, TopFacts
<1>2. /\ Kept(Len(frames)) /\ Len(frames') = Len(frames)
      /\ Top'.scr = Top.scr /\ Top'.pc = pc /\ Top'.site = c
  BY <1>1, KeptByReach DEF Reach
<1>3. list_base' = list_base
  BY DEF bases
<1>4. frames' # <<>>
  <2>1. Len(frames) # 0
    BY TopFacts
  <2> QED
    BY <1>2, <2>1
<1>5. /\ Top.site.nlists = NLists[Top.site.sub] /\ NLists[Top.site.sub] \in Nat
      /\ list_base + NLists[Top.scr] + NLists[Top.site.sub] <= Len(lists)
      /\ list_base \in Nat /\ NLists[Top.scr] \in Nat /\ Len(lists) \in Nat
  BY OpenSite, TopFacts
<1>6. Top.site.nlists <= Len(lists)
  BY <1>5
<1> QED
  BY <1>1, <1>2, <1>3, <1>4, <1>5, <1>6

\* Running the swaps of the innermost call site moves the lists its level lends.
LEMMA SiteSwap ==
  ASSUME NEW v, GoodLevel(v), NEW ls, Len(ls) \in Nat, NEW c, NEW s, NEW base,
         c.nlists \in Nat, v = LevelOf(s, base, Len(ls) - c.nlists, c.bind)
  PROVE  SwapBound(ls, c, base) = Permuted(ls, v)
<1>1. v.base = base /\ v.bind = c.bind /\ v.top = Len(ls) - c.nlists
  BY DEF LevelOf
<1>2. SwapBound(ls, c, v.base) = Permuted(ls, v)
  BY <1>1, SwapMoves
<1> QED
  BY <1>1, <1>2

\* The swaps before the call are no step of the abstract run.
LEMMA SwapInUnseen ==
  ASSUME SitesFresh, FrameInv, FrameInv', KeepsCallers, SwapIn
  PROVE  UNCHANGED <<Env, HostContents, Result>>
<1> DEFINE n == Len(frames)
           L == Len(lists)
<1>0. frames # <<>> /\ ~throwing /\ ~throwing' /\ Top.pc = "entered"
  BY DEF SwapIn, InPhase, Running
<1>1. /\ Kept(n) /\ Len(frames') = n /\ Top'.scr = Top.scr /\ Top'.pc = "swapped" /\ Top'.site = Top.site
      /\ n \in Nat /\ frames' # <<>> /\ list_base' = list_base
      /\ Top.site.nlists \in Nat /\ Top.site.nlists <= L
  <2>1. Reach("swapped", Top.site) /\ UNCHANGED bases /\ "swapped" \in Phases /\ Top.site \in {Top.site, NoSite}
    BY DEF SwapIn, Phases
  <2> QED
    BY <1>0, <2>1, ReachFacts
<1>2. Shape /\ Shape' /\ Mapped
  BY LevelsShape, ShapeNext, MappedNow
<1>3. /\ L \in Nat /\ n \in 1 .. n /\ Len(Levels) = n /\ Len(Levels') = n /\ n > 0
      /\ Stacked(Levels) /\ Stacked(Levels') /\ DOMAIN lists = 1 .. L
      /\ Levels[n] = Level(n) /\ Levels'[n] = Level(n)'
  BY <1>1, <1>2 DEF Shape, Kept
<1>4. lists' = SwapBound(lists, Top.site, list_base)
  BY DEF SwapIn
<1>5. Len(lists') = L
  <2>1. Top.site \in Sites[Top.scr] /\ Top.scr \in Scripts /\ lists \in Seq(Seq(Vals)) /\ list_base \in Nat
    BY <1>0, OpenSite, TopFacts
  <2>2. list_base + NLists[Top.scr] <= Len(lists) /\ Top.site.nlists <= Len(lists)
    BY <1>0, <1>1, OwnLists
  <2> QED
    BY <1>4, <2>1, <2>2, SwapTyped
<1>6. Levels'[n] = LevelOf(Top.scr, list_base, L - Top.site.nlists, Top.site.bind)
  BY <1>1, <1>3, <1>5, LentLevelNext DEF Lent
<1>7. DOMAIN Levels[n].bind = {}
  BY <1>0, <1>3, UnlentLevel DEF LevelOf, Lent
<1>8. SameBelow(Levels, Levels')
  BY <1>1, <1>3, KeptLevels DEF SameBelow
<1>9. AtHome' = AtHome
  <2>1. GoodLevel(Levels'[n]) /\ Reaches(Levels, L) /\ Reaches(Levels', L)
    BY <1>2, <1>3, <1>5 DEF Shape, Stacked, GoodLevels
  <2>2. lists' = [k \in 1 .. L |-> lists[Swapped(Levels'[n], k)]]
    <3>1. PICK v : v = Levels'[n]
      OBVIOUS
    <3>2. GoodLevel(v) /\ v = LevelOf(Top.scr, list_base, L - Top.site.nlists, Top.site.bind)
      BY <1>6, <2>1, <3>1
    <3>3. SwapBound(lists, Top.site, list_base) = Permuted(lists, v)
      BY <1>1, <1>3, <3>2, SiteSwap
    <3> QED
      BY <1>3, <1>4, <3>1, <3>3 DEF Permuted
  <2>3. Home(Levels', lists') = Home(Levels, lists)
    BY <1>3, <1>7, <1>8, <2>1, <2>2, HomeSwap
  <2> QED
    BY <2>3 DEF AtHome
<1>10. HostLists' = HostLists
  BY <1>0, <1>1, <1>5, HostListsKept DEF ListFrameOpen, Phases
<1>11. ArgsOf(n)' = ArgsOf(n) /\ SavedOf(n)' = SavedOf(n)
  BY <1>0, <1>1, PlainScalars DEF SwapIn
<1>12. stack' = stack /\ return_value' = return_value /\ HostLists <= L /\ Reaches(Levels, L)
  BY <1>2 DEF SwapIn, Mapped, Shape
<1>13. \A k \in 1 .. L : AtHome'[k] = AtHome[k]
  BY <1>9
<1> QED
  BY <1>0, <1>1, <1>3, <1>10, <1>11, <1>12, <1>13, Unseen

\* Nor are the write-backs, which count as done since the return.
LEMMA WriteBackUnseen ==
  ASSUME SitesFresh, FrameInv, FrameInv', KeepsCallers, WriteBack
  PROVE  UNCHANGED <<Env, HostContents, Result>>
<1> DEFINE n == Len(frames)
           L == Len(lists)
<1>0. frames # <<>> /\ ~throwing /\ ~throwing' /\ Top.pc = "returned"
  BY DEF WriteBack, InPhase, Running
<1>1. /\ Kept(n) /\ Len(frames') = n /\ Top'.scr = Top.scr /\ Top'.pc = "written" /\ Top'.site = Top.site
      /\ n \in Nat /\ frames' # <<>> /\ list_base' = list_base
  <2>1. Reach("written", Top.site) /\ UNCHANGED bases /\ "written" \in Phases /\ Top.site \in {Top.site, NoSite}
    BY DEF WriteBack, Phases
  <2> QED
    BY <1>0, <2>1, ReachFacts
<1>2. Shape /\ Mapped
  BY LevelsShape, MappedNow
<1>3. lists' = lists /\ stack' = stack /\ return_value' = return_value
  BY DEF WriteBack
<1>4. Levels' = Levels
  <2>1. Level(n)' = Level(n)
    BY <1>0, <1>1, <1>3, LentLevel, LentLevelNext DEF Lent
  <2> QED
    BY <1>1, <2>1, SameLevels
<1>5. AtHome' = AtHome
  BY <1>3, <1>4 DEF AtHome
<1>6. HostLists' = HostLists
  BY <1>0, <1>1, <1>3, HostListsKept DEF ListFrameOpen, Phases
<1>7. ArgsOf(n)' = ArgsOf(n) /\ SavedOf(n)' = SavedOf(n)
  <2>1. frames[n].pc = "returned" /\ frames'[n].pc = "written" /\ frames'[n].scr = frames[n].scr
    BY <1>0, <1>1 DEF Top
  <2>2. /\ ArgBase(n) = arg_base /\ ArgBase(n)' = arg_base /\ SavedBase(n) = saved_base /\ SavedBase(n)' = saved_base
    BY <1>1 DEF ArgBase, SavedBase, Innermost, WriteBack, bases
  <2>3. /\ args_stack' = WrittenBack("arg", arg_base, args_stack)
        /\ saved_stack' = WrittenBack("saved", saved_base, saved_stack)
    BY DEF WriteBack
  <2>4. /\ ArgsOf(n) = [k \in Slots(NArgs[frames[n].scr]) |-> WrittenBack("arg", arg_base, args_stack)[arg_base + k]]
        /\ ArgsOf(n)' = [k \in Slots(NArgs[frames[n].scr]) |-> args_stack'[arg_base + k]]
    BY <1>1, <2>1, <2>2 DEF ArgsOf, Effective, Innermost
  <2>5. /\ SavedOf(n) =
             [k \in Slots(NSaved[frames[n].scr]) |-> WrittenBack("saved", saved_base, saved_stack)[saved_base + k]]
        /\ SavedOf(n)' = [k \in Slots(NSaved[frames[n].scr]) |-> saved_stack'[saved_base + k]]
    BY <1>1, <2>1, <2>2 DEF SavedOf, Effective, Innermost
  <2> QED
    BY <2>3, <2>4, <2>5
<1>8. L \in Nat /\ HostLists <= L /\ Reaches(Levels, L) /\ \A k \in 1 .. L : AtHome'[k] = AtHome[k]
  BY <1>2, <1>5 DEF Mapped, Shape
<1> QED
  BY <1>0, <1>1, <1>3, <1>6, <1>7, <1>8, Unseen

\* Nor the swaps back.
LEMMA SwapOutUnseen ==
  ASSUME SitesFresh, FrameInv, FrameInv', KeepsCallers, SwapOut
  PROVE  UNCHANGED <<Env, HostContents, Result>>
<1> DEFINE n == Len(frames)
           L == Len(lists)
<1>0. frames # <<>> /\ ~throwing /\ ~throwing' /\ Top.pc = "written"
  BY DEF SwapOut, InPhase, Running
<1>1. /\ Kept(n) /\ Len(frames') = n /\ Top'.scr = Top.scr /\ Top'.pc = "unswapped" /\ Top'.site = Top.site
      /\ n \in Nat /\ frames' # <<>> /\ list_base' = list_base
      /\ Top.site.nlists \in Nat /\ Top.site.nlists <= L
  <2>1. Reach("unswapped", Top.site) /\ UNCHANGED bases /\ "unswapped" \in Phases /\ Top.site \in {Top.site, NoSite}
    BY DEF SwapOut, Phases
  <2> QED
    BY <1>0, <2>1, ReachFacts
<1>2. Shape /\ Shape' /\ Mapped
  BY LevelsShape, ShapeNext, MappedNow
<1>3. /\ L \in Nat /\ n \in 1 .. n /\ Len(Levels) = n /\ Len(Levels') = n /\ n > 0
      /\ Stacked(Levels) /\ Stacked(Levels') /\ DOMAIN lists = 1 .. L
      /\ Levels[n] = Level(n) /\ Levels'[n] = Level(n)'
  BY <1>1, <1>2 DEF Shape, Kept
<1>4. lists' = SwapBound(lists, Top.site, list_base)
  BY DEF SwapOut
<1>5. Len(lists') = L
  <2>1. Top.site \in Sites[Top.scr] /\ Top.scr \in Scripts /\ lists \in Seq(Seq(Vals)) /\ list_base \in Nat
    BY <1>0, OpenSite, TopFacts
  <2>2. list_base + NLists[Top.scr] <= Len(lists) /\ Top.site.nlists <= Len(lists)
    BY <1>0, <1>1, OwnLists
  <2> QED
    BY <1>4, <2>1, <2>2, SwapTyped
<1>6. Levels[n] = LevelOf(Top.scr, list_base, L - Top.site.nlists, Top.site.bind)
  BY <1>0, <1>3, LentLevel DEF Lent
<1>7. DOMAIN Levels'[n].bind = {}
  BY <1>1, <1>3, UnlentLevelNext DEF LevelOf, Lent
<1>8. SameBelow(Levels', Levels)
  BY <1>1, <1>3, KeptLevels DEF SameBelow
<1>9. AtHome' = AtHome
  <2>1. GoodLevel(Levels[n]) /\ Reaches(Levels, L) /\ Reaches(Levels', L)
    BY <1>2, <1>3, <1>5 DEF Shape, Stacked, GoodLevels
  <2>2. lists' = [k \in 1 .. L |-> lists[Swapped(Levels[n], k)]]
    <3>1. PICK v : v = Levels[n]
      OBVIOUS
    <3>2. GoodLevel(v) /\ v = LevelOf(Top.scr, list_base, L - Top.site.nlists, Top.site.bind)
      BY <1>6, <2>1, <3>1
    <3>3. SwapBound(lists, Top.site, list_base) = Permuted(lists, v)
      BY <1>1, <1>3, <3>2, SiteSwap
    <3> QED
      BY <1>3, <1>4, <3>1, <3>3 DEF Permuted
  <2>3. Home(Levels', lists') = Home(Levels, lists)
    BY <1>3, <1>7, <1>8, <2>1, <2>2, HomeSwap
  <2> QED
    BY <2>3 DEF AtHome
<1>10. HostLists' = HostLists
  BY <1>0, <1>1, <1>5, HostListsKept DEF ListFrameOpen, Phases
<1>11. ArgsOf(n)' = ArgsOf(n) /\ SavedOf(n)' = SavedOf(n)
  BY <1>0, <1>1, PlainScalars DEF SwapOut
<1>12. stack' = stack /\ return_value' = return_value /\ HostLists <= L /\ Reaches(Levels, L)
  BY <1>2 DEF SwapOut, Mapped, Shape
<1>13. \A k \in 1 .. L : AtHome'[k] = AtHome[k]
  BY <1>9
<1> QED
  BY <1>0, <1>1, <1>3, <1>10, <1>11, <1>12, <1>13, Unseen

\* Nor the end of the list frame.
LEMMA ExitUnseen ==
  ASSUME SitesFresh, FrameInv, FrameInv', KeepsCallers, ListFrameExit
  PROVE  UNCHANGED <<Env, HostContents, Result>>
<1> DEFINE n == Len(frames)
           L == Len(lists)
           M == Len(lists')
<1>0. frames # <<>> /\ ~throwing /\ ~throwing' /\ Top.pc = "unswapped"
  BY DEF ListFrameExit, InPhase, Running
<1>1. /\ Kept(n) /\ Len(frames') = n /\ Top'.scr = Top.scr /\ Top'.pc = "row" /\ Top'.site = NoSite
      /\ n \in Nat /\ frames' # <<>> /\ list_base' = list_base
      /\ Top.site.nlists \in Nat /\ Top.site.nlists <= L
  <2>1. Reach("row", NoSite) /\ UNCHANGED bases /\ "row" \in Phases /\ NoSite \in {Top.site, NoSite}
    BY DEF ListFrameExit, Phases
  <2> QED
    BY <1>0, <2>1, ReachFacts
<1>2. Shape /\ Shape' /\ Mapped /\ Mapped'
  BY LevelsShape, ShapeNext, MappedNow, MappedNext
<1>3. M = L - Top.site.nlists /\ L \in Nat /\ M \in Nat /\ M <= L /\ \A k \in 1 .. M : lists'[k] = lists[k]
  <2>1. lists' = SubSeq(lists, 1, L - Top.site.nlists) /\ lists \in Seq(Seq(Vals)) /\ L \in Nat
    BY <1>2 DEF ListFrameExit, DropListFrame, FrameInv, TypeOK, Shape
  <2>2. L - Top.site.nlists \in 0 .. L
    BY <1>1, <2>1
  <2>3. M = L - Top.site.nlists
    BY <2>1, <2>2, Shortened
  <2>4. \A k \in 1 .. M : lists'[k] = lists[k]
    BY <2>1, <2>2, <2>3, SubSeqProperties
  <2> QED
    BY <2>1, <2>2, <2>3, <2>4
<1>4. Levels' = Levels
  <2>1. Level(n)' = Level(n)
    BY <1>0, <1>1, UnlentLevel, UnlentLevelNext DEF Lent
  <2> QED
    BY <1>1, <2>1, SameLevels
<1>5. \A k \in 1 .. M : AtHome'[k] = AtHome[k]
  <2>1. /\ DOMAIN lists = 1 .. L /\ DOMAIN lists' = 1 .. M
        /\ Stacked(Levels) /\ Reaches(Levels, M)
    BY <1>2, <1>4 DEF Shape
  <2>2. ASSUME NEW k \in 1 .. M
        PROVE  Home(Levels, lists')[k] = Home(Levels, lists)[k]
    <3> HIDE DEF L, M
    <3>1. M <= M /\ L \in Nat /\ M \in Nat /\ M <= L /\ \A j \in 1 .. M : lists'[j] = lists[j]
      BY <1>3
    <3> QED
      BY <2>1, <3>1, HomeCut
  <2> QED
    BY <1>4, <2>2 DEF AtHome
<1>6. HostLists' = HostLists
  BY <1>0, <1>1, <1>3, HostListsKept DEF ListFrameOpen, Phases
<1>7. ArgsOf(n)' = ArgsOf(n) /\ SavedOf(n)' = SavedOf(n)
  BY <1>0, <1>1, PlainScalars DEF ListFrameExit
<1>8. stack' = stack /\ return_value' = return_value /\ HostLists <= M /\ Reaches(Levels, M)
  BY <1>2, <1>4, <1>6 DEF ListFrameExit, Mapped, Shape
<1> QED
  BY <1>0, <1>1, <1>3, <1>5, <1>6, <1>7, <1>8, Unseen

-----------------------------------------------------------------------------
(* The operands of the innermost script *)

Above(s, b) == SubSeq(s, b + 1, Len(s))

\* The operands above a base, one by one.
LEMMA AboveFacts ==
  ASSUME NEW S, NEW s \in Seq(S), NEW b \in Nat, b <= Len(s)
  PROVE  /\ Above(s, b) \in Seq(S) /\ Len(Above(s, b)) = Len(s) - b /\ Len(s) \in Nat
         /\ \A i \in 1 .. Len(s) - b : Above(s, b)[i] = s[b + i]
<1>1. Len(s) \in Nat /\ \A i \in b + 1 .. Len(s) : s[i] \in S
  BY LenProperties, ElementOfSeq
<1>2. /\ SubSeq(s, b + 1, Len(s)) \in Seq(S)
      /\ Len(SubSeq(s, b + 1, Len(s))) = IF b + 1 <= Len(s) THEN Len(s) - (b + 1) + 1 ELSE 0
      /\ \A i \in 1 .. Len(s) - (b + 1) + 1 : SubSeq(s, b + 1, Len(s))[i] = s[(b + 1) + i - 1]
  BY <1>1, SubSeqProperties
<1>3. Len(Above(s, b)) = Len(s) - b
  BY <1>1, <1>2 DEF Above
<1>4. ASSUME NEW i \in 1 .. Len(s) - b
      PROVE  Above(s, b)[i] = s[b + i]
  <2>1. i \in 1 .. Len(s) - (b + 1) + 1 /\ (b + 1) + i - 1 = b + i
    BY <1>1
  <2> QED
    BY <1>2, <2>1 DEF Above
<1> QED
  BY <1>1, <1>2, <1>3, <1>4 DEF Above

\* A push adds to the operands above any base.
LEMMA AbovePush ==
  ASSUME NEW S, NEW s \in Seq(S), NEW b \in Nat, b <= Len(s), NEW v \in S
  PROVE  Above(Append(s, v), b) = Append(Above(s, b), v)
<1> DEFINE t == Append(s, v)
           o == Above(s, b)
<1>1. t \in Seq(S) /\ Len(t) = Len(s) + 1 /\ Len(s) \in Nat /\ \A i \in 1 .. Len(s) : t[i] = s[i] /\ t[Len(s) + 1] = v
  BY AppendProperties, LenProperties
<1>2. o \in Seq(S) /\ Len(o) = Len(s) - b /\ \A i \in 1 .. Len(s) - b : o[i] = s[b + i]
  BY AboveFacts
<1>3. /\ Append(o, v) \in Seq(S) /\ Len(Append(o, v)) = Len(o) + 1 /\ Append(o, v)[Len(o) + 1] = v
      /\ \A i \in 1 .. Len(o) : Append(o, v)[i] = o[i]
  BY <1>2, AppendProperties
<1>4. t[Len(s) + 1] = v
  BY AppendProperties
<1> HIDE DEF t, o
<1>5. /\ Above(t, b) \in Seq(S) /\ Len(Above(t, b)) = Len(t) - b
      /\ \A i \in 1 .. Len(t) - b : Above(t, b)[i] = t[b + i]
  <2>1. t \in Seq(S) /\ b <= Len(t)
    BY <1>1
  <2> QED
    BY <2>1, AboveFacts
<1>6. ASSUME NEW i \in 1 .. Len(Above(t, b))
      PROVE  Above(t, b)[i] = Append(o, v)[i]
  <2>1. CASE i = Len(s) - b + 1
    BY <1>1, <1>2, <1>3, <1>4, <1>5, <2>1
  <2>2. CASE i # Len(s) - b + 1
    <3>1. i \in 1 .. Len(s) - b /\ b + i \in 1 .. Len(s) /\ i \in 1 .. Len(t) - b
      <4>1. i \in 1 .. (Len(s) + 1) - b /\ Len(s) \in Nat /\ Len(t) = Len(s) + 1
        BY <1>1, <1>5
      <4> QED
        BY <2>2, <4>1
    <3> QED
      BY <1>1, <1>2, <1>3, <1>5, <3>1
  <2> QED
    BY <2>1, <2>2
<1>7. Len(Above(t, b)) = Len(Append(o, v))
  BY <1>1, <1>2, <1>3, <1>5
<1>8. Above(t, b) = Append(o, v)
  BY <1>3, <1>5, <1>6, <1>7, SeqEqual
<1> QED
  BY <1>8 DEF t, o

\* A cut above the base cuts the operands.
LEMMA AboveCut ==
  ASSUME NEW S, NEW s \in Seq(S), NEW b \in Nat, NEW n \in Nat, b <= n, n <= Len(s)
  PROVE  Above(SubSeq(s, 1, n), b) = SubSeq(Above(s, b), 1, n - b)
<1> DEFINE t == SubSeq(s, 1, n)
           o == Above(s, b)
           u == SubSeq(o, 1, n - b)
<1>1. /\ t \in Seq(S) /\ Len(t) = n /\ Len(s) \in Nat /\ \A i \in 1 .. n : t[i] = s[i]
  <2>1. n \in 0 .. Len(s) /\ Len(s) \in Nat /\ \A i \in 1 .. n : s[i] \in S
    BY LenProperties, ElementOfSeq
  <2> QED
    BY <2>1, Shortened, SubSeqProperties
<1>2. o \in Seq(S) /\ Len(o) = Len(s) - b /\ \A i \in 1 .. Len(s) - b : o[i] = s[b + i]
  <2>1. b <= Len(s)
    BY <1>1
  <2> QED
    BY <2>1, AboveFacts
<1>3. /\ u \in Seq(S) /\ Len(u) = n - b /\ \A i \in 1 .. n - b : u[i] = o[i]
  <2>1. n - b \in 0 .. Len(o) /\ \A i \in 1 .. n - b : o[i] \in S
    <3>1. n - b \in 0 .. Len(o) /\ \A i \in 1 .. n - b : i \in 1 .. Len(o)
      BY <1>1, <1>2
    <3> QED
      BY <1>2, <3>1, ElementOfSeq
  <2> HIDE DEF o
  <2> QED
    BY <1>2, <2>1, Shortened, SubSeqProperties
<1> HIDE DEF t, o, u
<1>4. /\ Above(t, b) \in Seq(S) /\ Len(Above(t, b)) = n - b /\ \A i \in 1 .. n - b : Above(t, b)[i] = t[b + i]
  <2>1. t \in Seq(S) /\ b <= Len(t) /\ Len(t) = n
    BY <1>1
  <2> QED
    BY <2>1, AboveFacts
<1>5. ASSUME NEW i \in 1 .. Len(Above(t, b))
      PROVE  Above(t, b)[i] = u[i]
  <2>1. i \in 1 .. n - b /\ i \in 1 .. Len(s) - b /\ b + i \in 1 .. n
    BY <1>1, <1>4
  <2> QED
    BY <1>1, <1>2, <1>3, <1>4, <2>1
<1>6. Above(t, b) = u
  BY <1>3, <1>4, <1>5, SeqEqual
<1> QED
  BY <1>6 DEF t, o, u

-----------------------------------------------------------------------------
(* The rows of the innermost script *)

\* The abstract run, script by script.
LEMMA EnvFacts ==
  ASSUME FrameInv, ~throwing, frames # <<>>
  PROVE  /\ Len(Env) = Len(frames) /\ Len(frames) \in Nat /\ Len(frames) \in 1 .. Len(frames)
         /\ Env # <<>> /\ DOMAIN Env = 1 .. Len(frames)
         /\ \A i \in 1 .. Len(frames) : Env[i] = EnvFrame(i)
         /\ Calls!Top = EnvFrame(Len(frames))
<1> DEFINE n == Len(frames)
<1>1. n \in Nat /\ n \in 1 .. n
  BY TopFacts
<1>2. Env = [i \in 1 .. n |-> EnvFrame(i)]
  BY EnvIs
<1>3. Env \in [1 .. n -> {EnvFrame(i) : i \in 1 .. n}]
  BY <1>2
<1>4. Len(Env) = n /\ DOMAIN Env = 1 .. n
  BY <1>1, <1>3, FunctionIsSeq
<1>5. \A i \in 1 .. n : Env[i] = EnvFrame(i)
  BY <1>2
<1>6. Env # <<>>
  <2>1. Len(<<>>) = 0
    OBVIOUS
  <2> QED
    BY <1>1, <1>4, <2>1
<1> QED
  BY <1>1, <1>4, <1>5, <1>6 DEF Calls!Top

\* A step that keeps the scripts that wait changes the innermost one only.
LEMMA TopChanges ==
  ASSUME FrameInv, frames # <<>>, ~throwing, ~throwing', Len(frames') = Len(frames),
         \A i \in 1 .. Len(frames) - 1 : EnvFrame(i)' = EnvFrame(i)
  PROVE  Env' = [Env EXCEPT ![Len(Env)] = EnvFrame(Len(frames))']
<1> DEFINE n == Len(frames)
<1>1. n \in Nat /\ n \in 1 .. n /\ Len(Env) = n /\ DOMAIN Env = 1 .. n /\ \A i \in 1 .. n : Env[i] = EnvFrame(i)
  BY EnvFacts
<1>2. Env' = [i \in 1 .. n |-> EnvFrame(i)']
  BY EnvNext
<1>3. [Env EXCEPT ![Len(Env)] = EnvFrame(n)'] = [i \in 1 .. n |-> IF i = n THEN EnvFrame(n)' ELSE Env[i]]
  BY <1>1
<1>4. \A i \in 1 .. n : EnvFrame(i)' = IF i = n THEN EnvFrame(n)' ELSE Env[i]
  <2> TAKE i \in 1 .. n
  <2>1. i # n => i \in 1 .. n - 1
    BY <1>1
  <2> QED
    BY <1>1, <2>1
<1> QED
  BY <1>2, <1>3, <1>4

FrameRec(scr, args, saved, ref, own, ops, site) ==
  [scr |-> scr, args |-> args, saved |-> saved, ref |-> ref, own |-> own, ops |-> ops, site |-> site]

\* The fields of a script's record, and the record with one of them changed.
LEMMA FrameFields ==
  ASSUME NEW r, NEW a, NEW b, NEW c, NEW d, NEW e, NEW f, NEW g, NEW x, r = FrameRec(a, b, c, d, e, f, g)
  PROVE  /\ [r EXCEPT !.args = x] = FrameRec(a, x, c, d, e, f, g)
         /\ [r EXCEPT !.saved = x] = FrameRec(a, b, x, d, e, f, g)
         /\ [r EXCEPT !.own = x] = FrameRec(a, b, c, d, x, f, g)
         /\ [r EXCEPT !.ops = x] = FrameRec(a, b, c, d, e, x, g)
         /\ r.scr = a /\ r.args = b /\ r.saved = c /\ r.ref = d /\ r.own = e /\ r.ops = f /\ r.site = g
<1>1. [r EXCEPT !.args = x] = FrameRec(a, x, c, d, e, f, g)
  BY DEF FrameRec
<1>2. [r EXCEPT !.saved = x] = FrameRec(a, b, x, d, e, f, g)
  BY DEF FrameRec
<1>3. [r EXCEPT !.own = x] = FrameRec(a, b, c, d, x, f, g)
  BY DEF FrameRec
<1>4. [r EXCEPT !.ops = x] = FrameRec(a, b, c, d, e, x, g)
  BY DEF FrameRec
<1>5. r.scr = a /\ r.args = b /\ r.saved = c /\ r.ref = d /\ r.own = e /\ r.ops = f /\ r.site = g
  BY DEF FrameRec
<1> QED
  BY <1>1, <1>2, <1>3, <1>4, <1>5

WithSlots(r, args, saved, ops) == [r EXCEPT !.args = args, !.saved = saved, !.ops = ops]

\* The record with its scalars changed.
LEMMA FrameSlots ==
  ASSUME NEW r, NEW a, NEW b, NEW c, NEW d, NEW e, NEW f, NEW g, NEW x, NEW y, NEW z,
         r = FrameRec(a, b, c, d, e, f, g)
  PROVE  WithSlots(r, x, y, z) = FrameRec(a, x, y, d, e, z, g)
<1>1. PICK r1 : r1 = [r EXCEPT !.args = x]
  OBVIOUS
<1>2. PICK r2 : r2 = [r1 EXCEPT !.saved = y]
  OBVIOUS
<1>3. WithSlots(r, x, y, z) = [r2 EXCEPT !.ops = z]
  BY <1>1, <1>2 DEF WithSlots
<1>4. r1 = FrameRec(a, x, c, d, e, f, g)
  BY <1>1, FrameFields
<1>5. r2 = FrameRec(a, x, y, d, e, f, g)
  <2>1. [r1 EXCEPT !.saved = y] = FrameRec(a, x, y, d, e, f, g)
    BY <1>4, FrameFields
  <2> QED
    BY <1>2, <2>1
<1>6. [r2 EXCEPT !.ops = z] = FrameRec(a, x, y, d, e, z, g)
  BY <1>5, FrameFields
<1> QED
  BY <1>3, <1>6

\* The record of frame i.
LEMMA EnvFrameIs ==
  ASSUME NEW i
  PROVE  /\ EnvFrame(i) = FrameRec(frames[i].scr, ArgsOf(i), SavedOf(i), Refs(Levels)[i], OwnOf(i), OpsOf(i), RunBy(i))
         /\ EnvFrame(i)' = FrameRec(frames'[i].scr, ArgsOf(i)', SavedOf(i)', Refs(Levels')[i], OwnOf(i)', OpsOf(i)',
                                    RunBy(i)')
  BY DEF EnvFrame, FrameRec

\* A row changes the innermost frame only, of which it leaves all but the slots.
LEMMA RowFrame ==
  ASSUME SitesFresh, FrameInv, FrameInv', KeepsCallers, InRow, ~throwing',
         UNCHANGED <<frames, bases, return_value>>, Len(lists') = Len(lists)
  PROVE  /\ Kept(Len(frames)) /\ Levels' = Levels /\ HostLists' = HostLists /\ Result' = Result
         /\ \A i \in 1 .. Len(frames) - 1 : OwnOf(i)' = OwnOf(i) => EnvFrame(i)' = EnvFrame(i)
         /\ EnvFrame(Len(frames))' =
              FrameRec(Top.scr, ArgsOf(Len(frames))', SavedOf(Len(frames))', Refs(Levels)[Len(frames)],
                       OwnOf(Len(frames))', OpsOf(Len(frames))', RunBy(Len(frames)))
<1> DEFINE n == Len(frames)
<1>0. frames # <<>> /\ TypeOK /\ n \in Nat /\ n \in 1 .. n
  BY TopFacts DEF InRow, Running
<1>1. Kept(n)
  BY <1>0, KeptByRow
<1>2. Levels' = Levels
  <2>1. Level(n)' = Level(n)
    BY <1>0 DEF Level, Innermost, ListBase, bases
  <2> QED
    BY <1>1, <2>1, SameLevels
<1>3. HostLists' = HostLists
  BY DEF HostLists, ListBase, Innermost, Top, bases
<1>4. ASSUME NEW i \in 1 .. n - 1, OwnOf(i)' = OwnOf(i)
      PROVE  EnvFrame(i)' = EnvFrame(i)
  BY <1>0, <1>1, <1>4, KeptEnvFrame
<1>5. /\ frames'[n].scr = frames[n].scr /\ RunBy(n)' = RunBy(n) /\ Refs(Levels')[n] = Refs(Levels)[n]
  BY <1>0, <1>1, <1>2, KeptRunBy
<1>6. EnvFrame(n)' = FrameRec(Top.scr, ArgsOf(n)', SavedOf(n)', Refs(Levels)[n], OwnOf(n)', OpsOf(n)', RunBy(n))
  BY <1>5, EnvFrameIs DEF Top
<1>7. Result' = Result
  BY DEF Result
<1> QED
  BY <1>1, <1>2, <1>3, <1>4, <1>6, <1>7

\* Operands and scalars of the innermost script in terms of the stores.
LEMMA RowScalars ==
  ASSUME FrameInv, InRow, UNCHANGED <<frames, bases>>
  PROVE  /\ OpsOf(Len(frames)) = Above(stack, frame_base) /\ OpsOf(Len(frames))' = Above(stack', frame_base)
         /\ ArgsOf(Len(frames)) = [k \in Slots(NArgs[Top.scr]) |-> args_stack[arg_base + k]]
         /\ ArgsOf(Len(frames))' = [k \in Slots(NArgs[Top.scr]) |-> args_stack'[arg_base + k]]
         /\ SavedOf(Len(frames)) = [k \in Slots(NSaved[Top.scr]) |-> saved_stack[saved_base + k]]
         /\ SavedOf(Len(frames))' = [k \in Slots(NSaved[Top.scr]) |-> saved_stack'[saved_base + k]]
         /\ stack \in Seq(Vals) /\ frame_base \in Nat /\ frame_base <= Len(stack)
<1> DEFINE n == Len(frames)
<1>1. frames # <<>> /\ frames[n].pc = "row" /\ Top = frames[n]
  BY DEF InRow, Running, Top
<1>2. /\ FrameBase(n) = frame_base /\ ArgBase(n) = arg_base /\ SavedBase(n) = saved_base
      /\ FrameBase(n)' = frame_base /\ ArgBase(n)' = arg_base /\ SavedBase(n)' = saved_base
  BY DEF FrameBase, ArgBase, SavedBase, Innermost, bases
<1>3. OpsOf(n) = Above(stack, frame_base) /\ OpsOf(n)' = Above(stack', frame_base)
  BY <1>2 DEF OpsOf, Above, Innermost
<1>4. /\ ArgsOf(n) = [k \in Slots(NArgs[Top.scr]) |-> args_stack[arg_base + k]]
      /\ ArgsOf(n)' = [k \in Slots(NArgs[Top.scr]) |-> args_stack'[arg_base + k]]
  BY <1>1, <1>2 DEF ArgsOf, Effective
<1>5. /\ SavedOf(n) = [k \in Slots(NSaved[Top.scr]) |-> saved_stack[saved_base + k]]
      /\ SavedOf(n)' = [k \in Slots(NSaved[Top.scr]) |-> saved_stack'[saved_base + k]]
  BY <1>1, <1>2 DEF SavedOf, Effective
<1>6. stack \in Seq(Vals) /\ frame_base \in Nat /\ frame_base <= Len(stack)
  BY <1>1, TopFacts DEF TopFit
<1> QED
  BY <1>3, <1>4, <1>5, <1>6

\* A row that leaves the lists alone.
LEMMA ScalarRow ==
  ASSUME SitesFresh, FrameInv, FrameInv', KeepsCallers, InRow, ~throwing',
         UNCHANGED <<frames, lists, bases, return_value>>
  PROVE  /\ UNCHANGED <<HostContents, Result>>
         /\ Env' = [Env EXCEPT ![Len(Env)] = 
              WithSlots(Calls!Top, ArgsOf(Len(frames))', SavedOf(Len(frames))', OpsOf(Len(frames))')]
<1> DEFINE n == Len(frames)
<1>0. frames # <<>> /\ ~throwing /\ n \in Nat /\ n \in 1 .. n
  BY TopFacts DEF InRow, Running
<1>1. /\ Kept(n) /\ Levels' = Levels /\ HostLists' = HostLists /\ Result' = Result
      /\ \A i \in 1 .. n - 1 : OwnOf(i)' = OwnOf(i) => EnvFrame(i)' = EnvFrame(i)
      /\ EnvFrame(n)' = FrameRec(Top.scr, ArgsOf(n)', SavedOf(n)', Refs(Levels)[n], OwnOf(n)', OpsOf(n)', RunBy(n))
  BY RowFrame
<1>2. AtHome' = AtHome
  BY <1>1 DEF AtHome
<1>3. Shape
  BY LevelsShape
<1>4. \A i \in 1 .. n : OwnOf(i)' = OwnOf(i)
  <2> TAKE i \in 1 .. n
  <2>1. Levels[i].base + Levels[i].lists <= Len(lists) /\ Len(lists) \in Nat
    BY <1>3 DEF Shape, Reaches, Reach1
  <2> QED
    BY <1>0, <1>1, <1>2, <2>1, KeptOwnOf
<1>5. HostContents' = HostContents
  BY <1>1, <1>2, KeptHost
<1>6. EnvFrame(n)' = WithSlots(EnvFrame(n), ArgsOf(n)', SavedOf(n)', OpsOf(n)')
  <2>1. OwnOf(n)' = OwnOf(n)
    BY <1>0, <1>4
  <2>2. EnvFrame(n)' = FrameRec(Top.scr, ArgsOf(n)', SavedOf(n)', Refs(Levels)[n], OwnOf(n), OpsOf(n)', RunBy(n))
    BY <1>1, <2>1
  <2>3. EnvFrame(n) = FrameRec(Top.scr, ArgsOf(n), SavedOf(n), Refs(Levels)[n], OwnOf(n), OpsOf(n), RunBy(n))
    BY EnvFrameIs DEF Top
  <2>4. WithSlots(EnvFrame(n), ArgsOf(n)', SavedOf(n)', OpsOf(n)')
           = FrameRec(Top.scr, ArgsOf(n)', SavedOf(n)', Refs(Levels)[n], OwnOf(n), OpsOf(n)', RunBy(n))
    BY <2>3, FrameSlots
  <2> QED
    BY <2>2, <2>4
<1>7. \A i \in 1 .. n - 1 : EnvFrame(i)' = EnvFrame(i)
  <2> TAKE i \in 1 .. n - 1
  <2>1. i \in 1 .. n
    BY <1>0
  <2> QED
    BY <1>1, <1>4, <2>1
<1>8. Env' = [Env EXCEPT ![Len(Env)] = EnvFrame(n)']
  BY <1>0, <1>7, TopChanges
<1>9. Calls!Top = EnvFrame(n)
  BY <1>0, EnvFacts
<1> QED
  BY <1>1, <1>5, <1>6, <1>8, <1>9

\* What the row actions of the abstract specification do to the innermost record.
Left(ops, i, consumed) == IF consumed THEN SubSeq(ops, 1, i - 1) ELSE ops
Changed(e, n, r) == [e EXCEPT ![n] = r]
Pushed(e, n, v) == [e EXCEPT ![n].ops = Append(@, v)]
LessTop(s) == SubSeq(s, 1, Len(s) - 1)
Popped(e, n) == [e EXCEPT ![n].ops = SubSeq(@, 1, Len(@) - 1)]
ArgumentSet(e, n, k, i, consumed) ==
  [e EXCEPT ![n].args[k] = e[n].ops[i], ![n].ops = IF consumed THEN SubSeq(@, 1, i - 1) ELSE @]
SavedSet(e, n, k, i, consumed) ==
  [e EXCEPT ![n].saved[k] = e[n].ops[i], ![n].ops = IF consumed THEN SubSeq(@, 1, i - 1) ELSE @]

\* What a push of the abstract run makes of the environments.
LEMMA PushIs ==
  ASSUME NEW e, NEW n, NEW a, NEW b, NEW c, NEW d, NEW o, NEW f, NEW g,
         NEW t, e[n] = t, t = FrameRec(a, b, c, d, o, f, g), NEW v
  PROVE  Pushed(e, n, v) = Changed(e, n, WithSlots(t, b, c, Append(f, v)))
<1>2. PICK x : x = Append(f, v)
  OBVIOUS
<1>3. t.ops = f
  BY FrameFields
<1>4. [e EXCEPT ![n].ops = Append(@, v)] = [e EXCEPT ![n] = [t EXCEPT !.ops = x]]
  BY <1>2, <1>3
<1>5. [t EXCEPT !.ops = x] = FrameRec(a, b, c, d, o, x, g)
  BY FrameFields
<1>6. WithSlots(t, b, c, x) = FrameRec(a, b, c, d, o, x, g)
  BY FrameSlots
<1> QED
  BY <1>2, <1>4, <1>5, <1>6 DEF Pushed, Changed

\* And a pop.
LEMMA PopIs ==
  ASSUME NEW e, NEW n, NEW a, NEW b, NEW c, NEW d, NEW o, NEW f, NEW g,
         NEW t, e[n] = t, t = FrameRec(a, b, c, d, o, f, g)
  PROVE  Popped(e, n)
           = Changed(e, n, WithSlots(t, b, c, LessTop(f)))
<1>2. PICK x : x = SubSeq(f, 1, Len(f) - 1)
  OBVIOUS
<1>3. t.ops = f
  BY FrameFields
<1>4. [e EXCEPT ![n].ops = SubSeq(@, 1, Len(@) - 1)] = [e EXCEPT ![n] = [t EXCEPT !.ops = x]]
  BY <1>2, <1>3
<1>5. [t EXCEPT !.ops = x] = FrameRec(a, b, c, d, o, x, g)
  BY FrameFields
<1>6. WithSlots(t, b, c, x) = FrameRec(a, b, c, d, o, x, g)
  BY FrameSlots
<1> QED
  BY <1>2, <1>4, <1>5, <1>6 DEF Popped, Changed, LessTop

\* And an argument that is set.
LEMMA SetArgumentIs ==
  ASSUME NEW e, NEW n, NEW a, NEW b, NEW c, NEW d, NEW o, NEW f, NEW g,
         NEW t, e[n] = t, t = FrameRec(a, b, c, d, o, f, g),
         NEW k, NEW i, NEW consumed
  PROVE  ArgumentSet(e, n, k, i, consumed)
           = Changed(e, n, WithSlots(t, Wrote(b, k, f[i]), c, Left(f, i, consumed)))
<1>2. PICK x : x = IF consumed THEN SubSeq(f, 1, i - 1) ELSE f
  OBVIOUS
<1>3. PICK y : y = [b EXCEPT ![k] = f[i]]
  OBVIOUS
<1>4. t.ops = f /\ t.args = b
  BY FrameFields
<1>5. PICK u : u = [t EXCEPT !.args = y]
  OBVIOUS
<1>6. u = FrameRec(a, y, c, d, o, f, g)
  <2>1. [t EXCEPT !.args = y] = FrameRec(a, y, c, d, o, f, g)
    BY FrameFields
  <2> QED
    BY <1>5, <2>1
<1>7. u.ops = f
  BY <1>6, FrameFields
<1>8. [e EXCEPT ![n].args[k] = e[n].ops[i], ![n].ops = IF consumed THEN SubSeq(@, 1, i - 1) ELSE @]
        = [e EXCEPT ![n] = [u EXCEPT !.ops = x]]
  <2>1. [e EXCEPT ![n].args[k] = e[n].ops[i], ![n].ops = IF consumed THEN SubSeq(@, 1, i - 1) ELSE @]
          = [e EXCEPT ![n] = [[e[n] EXCEPT !.args = [e[n].args EXCEPT ![k] = e[n].ops[i]]]
                                 EXCEPT !.ops = IF consumed THEN SubSeq(@, 1, i - 1) ELSE @]]
    BY Zenon
  <2>2. [e[n] EXCEPT !.args = [e[n].args EXCEPT ![k] = e[n].ops[i]]] = u
    BY <1>3, <1>4, <1>5
  <2>3. [u EXCEPT !.ops = IF consumed THEN SubSeq(@, 1, i - 1) ELSE @] = [u EXCEPT !.ops = x]
    BY <1>2, <1>7
  <2> QED
    BY <2>1, <2>2, <2>3
<1>9. [u EXCEPT !.ops = x] = FrameRec(a, y, c, d, o, x, g)
  BY <1>6, FrameFields
<1>10. WithSlots(t, y, c, x) = FrameRec(a, y, c, d, o, x, g)
  BY FrameSlots
<1> QED
  BY <1>2, <1>3, <1>8, <1>9, <1>10 DEF ArgumentSet, Changed, Wrote, Left

\* And a saved value that is set.
LEMMA SetSavedIs ==
  ASSUME NEW e, NEW n, NEW a, NEW b, NEW c, NEW d, NEW o, NEW f, NEW g,
         NEW t, e[n] = t, t = FrameRec(a, b, c, d, o, f, g),
         NEW k, NEW i, NEW consumed
  PROVE  SavedSet(e, n, k, i, consumed)
           = Changed(e, n, WithSlots(t, b, Wrote(c, k, f[i]), Left(f, i, consumed)))
<1>2. PICK x : x = IF consumed THEN SubSeq(f, 1, i - 1) ELSE f
  OBVIOUS
<1>3. PICK y : y = [c EXCEPT ![k] = f[i]]
  OBVIOUS
<1>4. t.ops = f /\ t.saved = c
  BY FrameFields
<1>5. PICK u : u = [t EXCEPT !.saved = y]
  OBVIOUS
<1>6. u = FrameRec(a, b, y, d, o, f, g)
  <2>1. [t EXCEPT !.saved = y] = FrameRec(a, b, y, d, o, f, g)
    BY FrameFields
  <2> QED
    BY <1>5, <2>1
<1>7. u.ops = f
  BY <1>6, FrameFields
<1>8. [e EXCEPT ![n].saved[k] = e[n].ops[i], ![n].ops = IF consumed THEN SubSeq(@, 1, i - 1) ELSE @]
        = [e EXCEPT ![n] = [u EXCEPT !.ops = x]]
  <2>1. [e EXCEPT ![n].saved[k] = e[n].ops[i], ![n].ops = IF consumed THEN SubSeq(@, 1, i - 1) ELSE @]
          = [e EXCEPT ![n] = [[e[n] EXCEPT !.saved = [e[n].saved EXCEPT ![k] = e[n].ops[i]]]
                                 EXCEPT !.ops = IF consumed THEN SubSeq(@, 1, i - 1) ELSE @]]
    BY Zenon
  <2>2. [e[n] EXCEPT !.saved = [e[n].saved EXCEPT ![k] = e[n].ops[i]]] = u
    BY <1>3, <1>4, <1>5
  <2>3. [u EXCEPT !.ops = IF consumed THEN SubSeq(@, 1, i - 1) ELSE @] = [u EXCEPT !.ops = x]
    BY <1>2, <1>7
  <2> QED
    BY <2>1, <2>2, <2>3
<1>9. [u EXCEPT !.ops = x] = FrameRec(a, b, y, d, o, x, g)
  BY <1>6, FrameFields
<1>10. WithSlots(t, b, y, x) = FrameRec(a, b, y, d, o, x, g)
  BY FrameSlots
<1> QED
  BY <1>2, <1>3, <1>8, <1>9, <1>10 DEF SavedSet, Changed, Wrote, Left

\* The record of the innermost script.
LEMMA TopIs ==
  ASSUME FrameInv, ~throwing, frames # <<>>
  PROVE  /\ Env[Len(Env)] = Calls!Top /\ Env # <<>>
         /\ Calls!Top = FrameRec(Top.scr, ArgsOf(Len(frames)), SavedOf(Len(frames)), Refs(Levels)[Len(frames)],
                                 OwnOf(Len(frames)), OpsOf(Len(frames)), RunBy(Len(frames)))
         /\ Calls!Top.scr = Top.scr /\ Calls!Top.args = ArgsOf(Len(frames)) /\ Calls!Top.saved = SavedOf(Len(frames))
         /\ Calls!Top.ref = Refs(Levels)[Len(frames)] /\ Calls!Top.own = OwnOf(Len(frames))
         /\ Calls!Top.ops = OpsOf(Len(frames)) /\ Calls!Top.site = RunBy(Len(frames))
<1>1. Env[Len(Env)] = Calls!Top /\ Env # <<>>
  BY EnvFacts DEF Calls!Top
<1>2. Calls!Top = FrameRec(Top.scr, ArgsOf(Len(frames)), SavedOf(Len(frames)), Refs(Levels)[Len(frames)],
                           OwnOf(Len(frames)), OpsOf(Len(frames)), RunBy(Len(frames)))
  BY EnvFacts, EnvFrameIs DEF Top
<1> QED
  BY <1>1, <1>2, FrameFields

\* A push is one.
LEMMA PushMaps ==
  ASSUME SitesFresh, FrameInv, FrameInv', KeepsCallers, NEW v \in Vals, PushOperand(v)
  PROVE  Calls!PushOperand(v)
<1> DEFINE n == Len(frames)
<1>1. InRow /\ ~throwing /\ ~throwing' /\ frames # <<>> /\ stack' = Append(stack, v)
      /\ UNCHANGED <<frames, args_stack, saved_stack, lists, bases, return_value>>
  BY DEF PushOperand, InRow, Running
<1>2. /\ UNCHANGED <<HostContents, Result>>
      /\ Env' = Changed(Env, Len(Env), WithSlots(Calls!Top, ArgsOf(n)', SavedOf(n)', OpsOf(n)'))
  BY <1>1, ScalarRow DEF Changed
<1>3. ArgsOf(n)' = ArgsOf(n) /\ SavedOf(n)' = SavedOf(n)
  BY <1>1, RowScalars
<1>4. OpsOf(n)' = Append(OpsOf(n), v)
  BY <1>1, RowScalars, AbovePush
<1>5. /\ Env[Len(Env)] = Calls!Top /\ Env # <<>>
      /\ Calls!Top = FrameRec(Top.scr, ArgsOf(n), SavedOf(n), Refs(Levels)[n], OwnOf(n), OpsOf(n), RunBy(n))
  BY <1>1, TopIs
<1>6. Pushed(Env, Len(Env), v)
        = Changed(Env, Len(Env), WithSlots(Calls!Top, ArgsOf(n), SavedOf(n), Append(OpsOf(n), v)))
  <2>1. PICK e, m, t : e = Env /\ m = Len(Env) /\ t = Calls!Top
    OBVIOUS
  <2>2. PICK a, b, c, d, o, f, g : t = FrameRec(a, b, c, d, o, f, g) /\ b = ArgsOf(n) /\ c = SavedOf(n) /\ f = OpsOf(n)
    BY <1>5, <2>1
  <2>3. e[m] = t
    BY <1>5, <2>1
  <2>4. Pushed(e, m, v) = Changed(e, m, WithSlots(t, b, c, Append(f, v)))
    BY <2>2, <2>3, PushIs
  <2> QED
    BY <2>1, <2>2, <2>4
<1> QED
  BY <1>2, <1>3, <1>4, <1>5, <1>6 DEF Calls!PushOperand, Pushed

\* A pop is one.
LEMMA PopMaps ==
  ASSUME SitesFresh, FrameInv, FrameInv', KeepsCallers, PopOperand
  PROVE  Calls!PopOperand
<1> DEFINE n == Len(frames)
<1>1. InRow /\ ~throwing /\ ~throwing' /\ frames # <<>> /\ stack' = SubSeq(stack, 1, Len(stack) - 1)
      /\ UNCHANGED <<frames, args_stack, saved_stack, lists, bases, return_value>> /\ Len(stack) > frame_base
  BY DEF PopOperand, InRow, Running
<1>2. /\ UNCHANGED <<HostContents, Result>>
      /\ Env' = Changed(Env, Len(Env), WithSlots(Calls!Top, ArgsOf(n)', SavedOf(n)', OpsOf(n)'))
  BY <1>1, ScalarRow DEF Changed
<1>3. ArgsOf(n)' = ArgsOf(n) /\ SavedOf(n)' = SavedOf(n)
  BY <1>1, RowScalars
<1>4. OpsOf(n)' = LessTop(OpsOf(n)) /\ OpsOf(n) # <<>>
  <2>1. stack \in Seq(Vals) /\ frame_base \in Nat /\ OpsOf(n) = Above(stack, frame_base) /\ OpsOf(n)' = Above(stack', frame_base)
    BY <1>1, RowScalars
  <2>2. Len(stack) \in Nat /\ Len(OpsOf(n)) = Len(stack) - frame_base
    BY <1>1, <2>1, AboveFacts
  <2>3. PICK m \in Nat : m = Len(stack) - 1
    <3>1. frame_base \in Nat /\ Len(stack) \in Nat /\ Len(stack) > frame_base
      BY <1>1, <2>1, <2>2
    <3>2. Len(stack) - 1 \in Nat
      BY <3>1
    <3> QED
      BY <3>2
  <2>4. frame_base <= m /\ m <= Len(stack) /\ m - frame_base = Len(OpsOf(n)) - 1
    BY <1>1, <2>1, <2>2, <2>3
  <2>5. Above(SubSeq(stack, 1, m), frame_base) = SubSeq(Above(stack, frame_base), 1, m - frame_base)
    BY <2>1, <2>4, AboveCut
  <2>6. OpsOf(n) # <<>>
    <3>1. Len(OpsOf(n)) > 0
      BY <1>1, <2>1, <2>2
    <3>2. Len(<<>>) = 0
      OBVIOUS
    <3> QED
      BY <3>1, <3>2
  <2> QED
    BY <1>1, <2>1, <2>3, <2>4, <2>5, <2>6 DEF LessTop
<1>5. /\ Env[Len(Env)] = Calls!Top /\ Env # <<>> /\ Calls!Top.ops = OpsOf(n)
      /\ Calls!Top = FrameRec(Top.scr, ArgsOf(n), SavedOf(n), Refs(Levels)[n], OwnOf(n), OpsOf(n), RunBy(n))
  BY <1>1, TopIs
<1>6. Popped(Env, Len(Env))
        = Changed(Env, Len(Env), WithSlots(Calls!Top, ArgsOf(n), SavedOf(n), LessTop(OpsOf(n))))
  <2>1. PICK e, m, t : e = Env /\ m = Len(Env) /\ t = Calls!Top
    OBVIOUS
  <2>2. PICK a, b, c, d, o, f, g : t = FrameRec(a, b, c, d, o, f, g) /\ b = ArgsOf(n) /\ c = SavedOf(n) /\ f = OpsOf(n)
    BY <1>5, <2>1
  <2>3. e[m] = t
    BY <1>5, <2>1
  <2>4. Popped(e, m) = Changed(e, m, WithSlots(t, b, c, LessTop(f)))
    BY <2>2, <2>3, PopIs
  <2> QED
    BY <2>1, <2>2, <2>4
<1> QED
  BY <1>2, <1>3, <1>4, <1>5, <1>6 DEF Calls!PopOperand, Popped

\* Writing a slot of a frame writes the slot of the script.
LEMMA WroteShifted ==
  ASSUME NEW f, NEW size \in Nat, DOMAIN f = Slots(size), NEW base \in Nat, NEW n \in Nat, base + n <= size,
         NEW k \in Slots(n), NEW w
  PROVE  [x \in Slots(n) |-> [f EXCEPT ![k + base] = w][base + x]] = Wrote([x \in Slots(n) |-> f[base + x]], k, w)
<1>1. ASSUME NEW x \in Slots(n)
      PROVE  [f EXCEPT ![k + base] = w][base + x] = IF x = k THEN w ELSE f[base + x]
  <2>1. base + x \in DOMAIN f
    BY DEF Slots
  <2>2. k + base = base + x <=> x = k
    BY DEF Slots
  <2> QED
    BY <2>1, <2>2
<1>2. Wrote([x \in Slots(n) |-> f[base + x]], k, w) = [x \in Slots(n) |-> IF x = k THEN w ELSE f[base + x]]
  BY DEF Wrote
<1> QED
  BY <1>1, <1>2

\* The operand a store instruction takes, as the script counts it.
LEMMA StoredOperand ==
  ASSUME FrameInv, InRow, UNCHANGED <<frames, bases>>, NEW i, Stored(i)
  PROVE  \E j \in DOMAIN OpsOf(Len(frames)), consumed \in BOOLEAN :
           /\ consumed => j = Len(OpsOf(Len(frames)))
           /\ OpsOf(Len(frames))[j] = stack[i]
           /\ OpsOf(Len(frames))' = Left(OpsOf(Len(frames)), j, consumed)
<1> DEFINE n == Len(frames)
<1>1. /\ OpsOf(n) = Above(stack, frame_base) /\ OpsOf(n)' = Above(stack', frame_base)
      /\ stack \in Seq(Vals) /\ frame_base \in Nat /\ frame_base <= Len(stack)
  BY RowScalars
<1>2. PICK o : o = OpsOf(n)
  OBVIOUS
<1>3. /\ o \in Seq(Vals) /\ Len(o) = Len(stack) - frame_base /\ Len(stack) \in Nat
      /\ \A p \in 1 .. Len(stack) - frame_base : o[p] = stack[frame_base + p]
  <2>1. /\ Above(stack, frame_base) \in Seq(Vals) /\ Len(Above(stack, frame_base)) = Len(stack) - frame_base
        /\ Len(stack) \in Nat
        /\ \A p \in 1 .. Len(stack) - frame_base : Above(stack, frame_base)[p] = stack[frame_base + p]
    BY <1>1, AboveFacts
  <2> QED
    BY <1>1, <1>2, <2>1
<1>4. i \in frame_base + 1 .. Len(stack)
  BY DEF Stored
<1>5. PICK j \in 1 .. Len(stack) - frame_base : i = frame_base + j
  <2>1. i - frame_base \in 1 .. Len(stack) - frame_base /\ i = frame_base + (i - frame_base)
    BY <1>1, <1>3, <1>4
  <2> QED
    BY <2>1
<1>6. o[j] = stack[i] /\ DOMAIN o = 1 .. Len(stack) - frame_base
  BY <1>3, <1>5
<1>7. CASE UNCHANGED stack
  <2>1. OpsOf(n)' = Left(o, j, FALSE)
    BY <1>1, <1>2, <1>7 DEF Left
  <2> QED
    BY <1>2, <1>5, <1>6, <2>1
<1>8. CASE i = Len(stack) /\ stack' = SubSeq(stack, 1, i - 1)
  <2>1. PICK m \in Nat : m = i - 1
    <3>1. i - 1 \in Nat
      BY <1>1, <1>4
    <3> QED
      BY <3>1
  <2>2. frame_base <= m /\ m <= Len(stack) /\ m - frame_base = j - 1 /\ j = Len(o)
    <3>1. /\ frame_base \in Nat /\ Len(stack) \in Nat /\ Len(o) = Len(stack) - frame_base
          /\ j \in 1 .. Len(stack) - frame_base /\ i = frame_base + j /\ i = Len(stack) /\ m = i - 1
      BY <1>1, <1>3, <1>5, <1>8, <2>1
    <3> QED
      BY <3>1
  <2>3. Above(SubSeq(stack, 1, m), frame_base) = SubSeq(Above(stack, frame_base), 1, m - frame_base)
    BY <1>1, <2>1, <2>2, AboveCut
  <2>4. OpsOf(n)' = Left(o, j, TRUE)
    BY <1>1, <1>2, <1>8, <2>1, <2>2, <2>3 DEF Left
  <2> QED
    BY <1>2, <1>5, <1>6, <2>2, <2>4
<1> QED
  BY <1>7, <1>8 DEF Stored

\* The slots of the innermost script lie inside the stores.
LEMMA RowRoom ==
  ASSUME FrameInv, InRow
  PROVE  /\ Top.scr \in Scripts /\ NArgs[Top.scr] \in Nat /\ NSaved[Top.scr] \in Nat /\ NLists[Top.scr] \in Nat
         /\ arg_base \in Nat /\ saved_base \in Nat /\ list_base \in Nat
         /\ ArgSlots \in Nat /\ SavedSlots \in Nat
         /\ arg_base + NArgs[Top.scr] <= ArgSlots /\ saved_base + NSaved[Top.scr] <= SavedSlots
         /\ DOMAIN args_stack = Slots(ArgSlots) /\ DOMAIN saved_stack = Slots(SavedSlots)
<1>1. frames # <<>>
  BY DEF InRow, Running
<1>2. Len(frames) \in 1 .. Len(frames) /\ TypeOK
  BY <1>1, TopFacts
<1>3. Fit(Len(frames))
  BY <1>2 DEF FrameInv, AllFit
<1>4. Top.scr \in Scripts
  <2>1. frames \in Seq(FrameType)
    BY <1>2 DEF TypeOK
  <2>2. frames[Len(frames)] \in FrameType
    BY <1>2, <2>1, ElementOfSeq
  <2> QED
    BY <2>2 DEF FrameType, Top
<1> QED
  BY <1>2, <1>3, <1>4, ShapesAssumption, LimitsAssumption DEF Fit, ArgBase, SavedBase, Innermost, Top, TypeOK

\* Setting an argument sets the argument of the abstract run.
LEMMA SetArgumentMaps ==
  ASSUME SitesFresh, FrameInv, FrameInv', KeepsCallers, NEW k \in Slots(ArgSlots), NEW i, SetArgument(k, i)
  PROVE  \E j \in DOMAIN Calls!Top.ops, consumed \in BOOLEAN :
           k \in DOMAIN Calls!Top.args /\ Calls!SetArgument(k, j, consumed)
<1> DEFINE n == Len(frames)
<1>1. InRow /\ ~throwing /\ ~throwing' /\ frames # <<>> /\ k < NArgs[Top.scr] /\ Stored(i)
      /\ args_stack' = [args_stack EXCEPT ![k + arg_base] = stack[i]]
      /\ UNCHANGED <<frames, saved_stack, lists, bases, return_value>>
  BY DEF SetArgument, InRow, Running
<1>2. /\ UNCHANGED <<HostContents, Result>>
      /\ Env' = Changed(Env, Len(Env), WithSlots(Calls!Top, ArgsOf(n)', SavedOf(n)', OpsOf(n)'))
  BY <1>1, ScalarRow DEF Changed
<1>3. SavedOf(n)' = SavedOf(n)
  BY <1>1, RowScalars
<1>4. PICK j \in DOMAIN OpsOf(n), consumed \in BOOLEAN :
        /\ consumed => j = Len(OpsOf(n))
        /\ OpsOf(n)[j] = stack[i]
        /\ OpsOf(n)' = Left(OpsOf(n), j, consumed)
  BY <1>1, StoredOperand
<1>5. ArgsOf(n)' = Wrote(ArgsOf(n), k, stack[i]) /\ k \in DOMAIN ArgsOf(n)
  <2>0. PICK size \in Nat, base \in Nat, m \in Nat : size = ArgSlots /\ base = arg_base /\ m = NArgs[Top.scr]
    BY <1>1, RowRoom
  <2>1. PICK f, w : f = args_stack /\ w = stack[i]
    BY Zenon
  <2>2. DOMAIN f = Slots(size) /\ base + m <= size
    BY <1>1, <2>0, <2>1, RowRoom
  <2>3. k \in Slots(m)
    BY <1>1, <2>0, <2>1 DEF Slots
  <2>4. [x \in Slots(m) |-> [f EXCEPT ![k + base] = w][base + x]] = Wrote([x \in Slots(m) |-> f[base + x]], k, w)
    BY <2>2, <2>3, WroteShifted
  <2>5. ArgsOf(n) = [x \in Slots(m) |-> f[base + x]] /\ ArgsOf(n)' = [x \in Slots(m) |-> args_stack'[base + x]]
    BY <1>1, <2>0, <2>1, RowScalars
  <2>6. args_stack' = [f EXCEPT ![k + base] = w]
    BY <1>1, <2>0, <2>1
  <2> QED
    BY <2>0, <2>1, <2>3, <2>4, <2>5, <2>6
<1>6. /\ Env[Len(Env)] = Calls!Top /\ Env # <<>> /\ Calls!Top.ops = OpsOf(n) /\ Calls!Top.args = ArgsOf(n)
      /\ Calls!Top = FrameRec(Top.scr, ArgsOf(n), SavedOf(n), Refs(Levels)[n], OwnOf(n), OpsOf(n), RunBy(n))
  BY <1>1, TopIs
<1>7. ArgumentSet(Env, Len(Env), k, j, consumed)
        = Changed(Env, Len(Env), WithSlots(Calls!Top, Wrote(ArgsOf(n), k, OpsOf(n)[j]), SavedOf(n), Left(OpsOf(n), j, consumed)))
  BY <1>6, SetArgumentIs
<1>8. Env' = ArgumentSet(Env, Len(Env), k, j, consumed)
  BY <1>2, <1>3, <1>4, <1>5, <1>7
<1>9. /\ Env' = [Env EXCEPT ![Len(Env)].args[k] = Calls!Top.ops[j],
                            ![Len(Env)].ops = IF consumed THEN SubSeq(@, 1, j - 1) ELSE @]
  BY <1>6, <1>8 DEF ArgumentSet
<1>10. Calls!SetArgument(k, j, consumed)
  BY <1>2, <1>4, <1>5, <1>6, <1>9 DEF Calls!SetArgument
<1> QED
  BY <1>4, <1>5, <1>6, <1>10

\* And saving a value its saved value.
LEMMA SetSavedMaps ==
  ASSUME SitesFresh, FrameInv, FrameInv', KeepsCallers, NEW k \in Slots(SavedSlots), NEW i, SetSaved(k, i)
  PROVE  \E j \in DOMAIN Calls!Top.ops, consumed \in BOOLEAN :
           k \in DOMAIN Calls!Top.saved /\ Calls!SetSaved(k, j, consumed)
<1> DEFINE n == Len(frames)
<1>1. InRow /\ ~throwing /\ ~throwing' /\ frames # <<>> /\ k < NSaved[Top.scr] /\ Stored(i)
      /\ saved_stack' = [saved_stack EXCEPT ![k + saved_base] = stack[i]]
      /\ UNCHANGED <<frames, args_stack, lists, bases, return_value>>
  BY DEF SetSaved, InRow, Running
<1>2. /\ UNCHANGED <<HostContents, Result>>
      /\ Env' = Changed(Env, Len(Env), WithSlots(Calls!Top, ArgsOf(n)', SavedOf(n)', OpsOf(n)'))
  BY <1>1, ScalarRow DEF Changed
<1>3. ArgsOf(n)' = ArgsOf(n)
  BY <1>1, RowScalars
<1>4. PICK j \in DOMAIN OpsOf(n), consumed \in BOOLEAN :
        /\ consumed => j = Len(OpsOf(n))
        /\ OpsOf(n)[j] = stack[i]
        /\ OpsOf(n)' = Left(OpsOf(n), j, consumed)
  BY <1>1, StoredOperand
<1>5. SavedOf(n)' = Wrote(SavedOf(n), k, stack[i]) /\ k \in DOMAIN SavedOf(n)
  <2>0. PICK size \in Nat, base \in Nat, m \in Nat : size = SavedSlots /\ base = saved_base /\ m = NSaved[Top.scr]
    BY <1>1, RowRoom
  <2>1. PICK f, w : f = saved_stack /\ w = stack[i]
    BY Zenon
  <2>2. DOMAIN f = Slots(size) /\ base + m <= size
    BY <1>1, <2>0, <2>1, RowRoom
  <2>3. k \in Slots(m)
    BY <1>1, <2>0, <2>1 DEF Slots
  <2>4. [x \in Slots(m) |-> [f EXCEPT ![k + base] = w][base + x]] = Wrote([x \in Slots(m) |-> f[base + x]], k, w)
    BY <2>2, <2>3, WroteShifted
  <2>5. SavedOf(n) = [x \in Slots(m) |-> f[base + x]] /\ SavedOf(n)' = [x \in Slots(m) |-> saved_stack'[base + x]]
    BY <1>1, <2>0, <2>1, RowScalars
  <2>6. saved_stack' = [f EXCEPT ![k + base] = w]
    BY <1>1, <2>0, <2>1
  <2> QED
    BY <2>0, <2>1, <2>3, <2>4, <2>5, <2>6
<1>6. /\ Env[Len(Env)] = Calls!Top /\ Env # <<>> /\ Calls!Top.ops = OpsOf(n) /\ Calls!Top.saved = SavedOf(n)
      /\ Calls!Top = FrameRec(Top.scr, ArgsOf(n), SavedOf(n), Refs(Levels)[n], OwnOf(n), OpsOf(n), RunBy(n))
  BY <1>1, TopIs
<1>7. SavedSet(Env, Len(Env), k, j, consumed)
        = Changed(Env, Len(Env), WithSlots(Calls!Top, ArgsOf(n), Wrote(SavedOf(n), k, OpsOf(n)[j]), Left(OpsOf(n), j, consumed)))
  BY <1>6, SetSavedIs
<1>8. Env' = SavedSet(Env, Len(Env), k, j, consumed)
  BY <1>2, <1>3, <1>4, <1>5, <1>7
<1>9. /\ Env' = [Env EXCEPT ![Len(Env)].saved[k] = Calls!Top.ops[j],
                            ![Len(Env)].ops = IF consumed THEN SubSeq(@, 1, j - 1) ELSE @]
  BY <1>6, <1>8 DEF SavedSet
<1>10. Calls!SetSaved(k, j, consumed)
  BY <1>2, <1>4, <1>5, <1>6, <1>9 DEF Calls!SetSaved
<1> QED
  BY <1>4, <1>5, <1>6, <1>10

\* A step that changes the record of one script only.
LEMMA OneChanges ==
  ASSUME FrameInv, frames # <<>>, ~throwing, ~throwing', Len(frames') = Len(frames), NEW d \in 1 .. Len(frames),
         \A i \in 1 .. Len(frames) : i # d => EnvFrame(i)' = EnvFrame(i)
  PROVE  Env' = Changed(Env, d, EnvFrame(d)')
<1> DEFINE n == Len(frames)
<1>1. n \in Nat /\ DOMAIN Env = 1 .. n /\ \A i \in 1 .. n : Env[i] = EnvFrame(i)
  BY EnvFacts
<1>2. Env' = [i \in 1 .. n |-> EnvFrame(i)']
  BY EnvNext
<1>3. [Env EXCEPT ![d] = EnvFrame(d)'] = [i \in 1 .. n |-> IF i = d THEN EnvFrame(d)' ELSE Env[i]]
  BY <1>1
<1>4. \A i \in 1 .. n : EnvFrame(i)' = IF i = d THEN EnvFrame(d)' ELSE Env[i]
  BY <1>1
<1> QED
  BY <1>2, <1>3, <1>4 DEF Changed

OwnSet(e, d, m, x) == [e EXCEPT ![d].own[m] = x]

\* Writing an own list changes one field of one record.
LEMMA OwnSetIs ==
  ASSUME NEW e, NEW n, NEW a, NEW b, NEW c, NEW d, NEW o, NEW f, NEW g,
         NEW t, e[n] = t, t = FrameRec(a, b, c, d, o, f, g), NEW m, NEW x
  PROVE  OwnSet(e, n, m, x) = Changed(e, n, FrameRec(a, b, c, d, Wrote(o, m, x), f, g))
<1>1. PICK y : y = [o EXCEPT ![m] = x]
  OBVIOUS
<1>2. t.own = o
  BY FrameFields
<1>3. [e EXCEPT ![n].own[m] = x] = [e EXCEPT ![n] = [t EXCEPT !.own = y]]
  BY <1>1, <1>2
<1>4. [t EXCEPT !.own = y] = FrameRec(a, b, c, d, y, f, g)
  BY FrameFields
<1> QED
  BY <1>1, <1>3, <1>4 DEF OwnSet, Changed, Wrote

\* A row that changes no scalar keeps everything of every frame but its lists.
LEMMA ListRowFrames ==
  ASSUME SitesFresh, FrameInv, FrameInv', KeepsCallers, InRow, ~throwing',
         UNCHANGED <<frames, stack, args_stack, saved_stack, bases, return_value>>, Len(lists') = Len(lists),
         NEW i \in 1 .. Len(frames)
  PROVE  /\ EnvFrame(i)' = FrameRec(frames[i].scr, ArgsOf(i), SavedOf(i), Refs(Levels)[i], OwnOf(i)', OpsOf(i), RunBy(i))
         /\ EnvFrame(i) = FrameRec(frames[i].scr, ArgsOf(i), SavedOf(i), Refs(Levels)[i], OwnOf(i), OpsOf(i), RunBy(i))
<1> DEFINE n == Len(frames)
<1>1. frames # <<>> /\ TypeOK /\ TypeOK' /\ n \in Nat /\ n \in 1 .. n
  BY TopFacts DEF InRow, Running, FrameInv
<1>2. Kept(n) /\ Levels' = Levels
  BY RowFrame
<1>3. frames'[i].scr = frames[i].scr /\ RunBy(i)' = RunBy(i)
  BY <1>1, <1>2, KeptRunBy
<1>4. ArgsOf(i)' = ArgsOf(i) /\ SavedOf(i)' = SavedOf(i) /\ OpsOf(i)' = OpsOf(i)
  <2>1. CASE i = n
    BY <2>1, RowScalars
  <2>2. CASE i # n
    <3>1. i \in 1 .. n - 1
      BY <1>1, <2>2
    <3> QED
      BY <1>1, <1>2, <3>1, WaitingScalars, WaitingOperands
  <2> QED
    BY <2>1, <2>2
<1>5. Refs(Levels')[i] = Refs(Levels)[i]
  BY <1>2
<1> QED
  BY <1>3, <1>4, <1>5, EnvFrameIs

\* A row that writes a list writes the one its reference names.
LEMMA ListRow ==
  ASSUME SitesFresh, FrameInv, FrameInv', KeepsCallers, InRow, ~throwing',
         UNCHANGED <<frames, stack, args_stack, saved_stack, bases, return_value>>,
         NEW l \in Slots(NLists[Top.scr]), NEW x, lists' = [lists EXCEPT ![l + list_base + 1] = x]
  PROVE  /\ l \in DOMAIN Calls!Top.ref /\ Env # <<>>
         /\ Calls!Contents(Calls!Top.ref[l]) = lists[l + list_base + 1]
         /\ Calls!SetContents(Calls!Top.ref[l], x)
         /\ Result' = Result
<1> DEFINE n == Len(frames)
           L == Len(lists)
           r == Refs(Levels)[n][l]
           p == Levels[n].base + l + 1
           size == HostLists
<1>0. frames # <<>> /\ ~throwing /\ Top.pc = "row" /\ n \in Nat /\ n \in 1 .. n
  BY TopFacts DEF InRow, Running
<1>1. Shape /\ Mapped /\ Mapped'
  BY LevelsShape, MappedNow, MappedNext
<1>2. /\ Stacked(Levels) /\ Len(Levels) = n /\ Reaches(Levels, L) /\ L \in Nat /\ DOMAIN lists = 1 .. L
      /\ Levels[n] = Level(n)
  BY <1>0, <1>1 DEF Shape
<1>3. Level(n) = LevelOf(Top.scr, list_base, list_base + NLists[Top.scr], <<>>)
  BY <1>0, UnlentLevel DEF Lent
<1>4. /\ Levels[n].lists = NLists[Top.scr] /\ Levels[n].base = list_base /\ DOMAIN Levels[n].bind = {}
      /\ p = l + list_base + 1
  <2>1. /\ Level(n).lists = NLists[Top.scr] /\ Level(n).base = list_base /\ Level(n).bind = <<>>
    BY <1>3 DEF LevelOf
  <2>2. list_base \in Nat /\ l \in Nat
    BY RowRoom DEF Slots
  <2> QED
    BY <1>2, <2>1, <2>2
<1>5. Len(lists') = L
  <2>1. lists \in Seq(Seq(Vals)) /\ lists' \in Seq(Seq(Vals))
    BY DEF FrameInv, TypeOK
  <2>2. DOMAIN lists' = DOMAIN lists
    OBVIOUS
  <2> QED
    BY <2>1, <2>2, LenProperties
<1>6. /\ Levels' = Levels /\ HostLists' = HostLists /\ Result' = Result
  BY <1>5, RowFrame
<1>7. /\ RefOf(Levels, n, r) /\ HomeSlot(Levels, r) \in 1 .. L /\ AtHome[HomeSlot(Levels, r)] = lists[p]
      /\ AtHome' = Wrote(AtHome, HomeSlot(Levels, r), x)
  <2>1. PICK lv, ls, lt : lv = Levels /\ ls = lists /\ lt = lists'
    OBVIOUS
  <2>2. /\ Stacked(lv) /\ Len(lv) > 0 /\ DOMAIN lv[Len(lv)].bind = {} /\ l \in Slots(lv[Len(lv)].lists)
        /\ Reaches(lv, L) /\ DOMAIN ls = 1 .. L /\ L \in Nat
    BY <1>0, <1>2, <1>4, <2>1
  <2>3. /\ RefOf(lv, Len(lv), LastRef(lv, l))
        /\ HomeSlot(lv, LastRef(lv, l)) \in 1 .. L
        /\ Home(lv, ls)[HomeSlot(lv, LastRef(lv, l))] = ls[LastSlot(lv, l)]
        /\ Home(lv, Wrote(ls, LastSlot(lv, l), x)) = Wrote(Home(lv, ls), HomeSlot(lv, LastRef(lv, l)), x)
    BY <2>2, HomeWrite, SMTT(60)
  <2>4. LastRef(lv, l) = r /\ LastSlot(lv, l) = p /\ lt = Wrote(ls, LastSlot(lv, l), x)
    BY <1>2, <1>4, <2>1 DEF Wrote, LastRef, LastSlot
  <2> QED
    BY <1>2, <1>6, <2>1, <2>3, <2>4 DEF AtHome
<1>8. /\ size \in Nat /\ size <= L /\ HostEnds(Levels, size) /\ HostContents = HostIn(size, AtHome)
      /\ HostContents' = HostIn(size, AtHome')
      /\ \A i \in 1 .. n : OwnOf(i) = OwnIn(Levels, AtHome, i) /\ OwnOf(i)' = OwnIn(Levels, AtHome', i)
  BY <1>0, <1>1, <1>2, <1>6 DEF Mapped
<1>9. Held(Levels, size, AtHome, r) = lists[p]
  BY <1>0, <1>2, <1>7, <1>8, RefHolds
<1>10. /\ Env # <<>> /\ Calls!Top.ref = Refs(Levels)[n] /\ DOMAIN Env = 1 .. n
       /\ \A i \in 1 .. n : Env[i] = EnvFrame(i)
  BY <1>0, TopIs, EnvFacts
<1>11. l \in DOMAIN Calls!Top.ref
  <2>1. Refs(Levels)[n] = RefsFrom(Levels, n, Refs(Levels)[n - 1])
    BY <1>0, <1>2, RefsFacts
  <2> QED
    BY <1>4, <1>10, <2>1 DEF RefsFrom
<1>12. AtHome = [k \in 1 .. L |-> AtHome[k]]
  <2>1. AtHome = [k \in DOMAIN lists |-> lists[At(Levels, k)]]
    BY HomeIs DEF AtHome
  <2> QED
    BY <1>2, <2>1
<1>13. \A i \in 1 .. n :
         /\ EnvFrame(i)' = FrameRec(frames[i].scr, ArgsOf(i), SavedOf(i), Refs(Levels)[i], OwnOf(i)', OpsOf(i), RunBy(i))
         /\ EnvFrame(i) = FrameRec(frames[i].scr, ArgsOf(i), SavedOf(i), Refs(Levels)[i], OwnOf(i), OpsOf(i), RunBy(i))
  BY <1>5, ListRowFrames
<1> HIDE DEF n, L, r, p, size
<1>14. ASSUME NEW m \in Slots(Levels[1].lists), r = <<0, m>>
       PROVE  /\ Calls!Contents(r) = lists[p]
              /\ Calls!SetContents(r, x)
  <2>1. HomeSlot(Levels, r) = m + 1 /\ r[1] = 0 /\ r[2] = m
    BY <1>14 DEF HomeSlot
  <2>2. Calls!Contents(r) = lists[p]
    BY <1>8, <1>9, <2>1 DEF Calls!Contents, Held
  <2>3. /\ HostIn(size, Wrote(AtHome, m + 1, x)) = Wrote(HostIn(size, AtHome), m + 1, x)
        /\ \A i \in 1 .. n : OwnIn(Levels, Wrote(AtHome, m + 1, x), i) = OwnIn(Levels, AtHome, i)
    BY <1>0, <1>2, <1>8, <1>12, HostWritten DEF n
  <2>4. HostContents' = [HostContents EXCEPT ![m + 1] = x] /\ \A i \in 1 .. n : OwnOf(i)' = OwnOf(i)
    BY <1>7, <1>8, <2>1, <2>3 DEF Wrote
  <2>5. \A i \in 1 .. n : EnvFrame(i)' = EnvFrame(i)
    BY <1>13, <2>4
  <2>6. Env' = Env
    <3>1. Env' = [i \in 1 .. n |-> EnvFrame(i)'] /\ Env = [i \in 1 .. n |-> EnvFrame(i)]
      BY <1>0, EnvIs, EnvNext DEF n
    <3> QED
      BY <2>5, <3>1
  <2> QED
    BY <2>1, <2>2, <2>4, <2>6 DEF Calls!SetContents
<1>15. ASSUME NEW d \in 2 .. n, NEW m \in Slots(Levels[d].lists) \ DOMAIN Levels[d - 1].bind, r = <<d, m>>
       PROVE  /\ Calls!Contents(r) = lists[p]
              /\ Calls!SetContents(r, x)
  <2>1. HomeSlot(Levels, r) = Levels[d].base + m + 1 /\ r[1] = d /\ r[2] = m /\ d # 0 /\ d \in 1 .. n
    BY <1>0, <1>15 DEF HomeSlot, n
  <2>2. PICK t : t = EnvFrame(d)
    OBVIOUS
  <2>3. /\ t = FrameRec(frames[d].scr, ArgsOf(d), SavedOf(d), Refs(Levels)[d], OwnOf(d), OpsOf(d), RunBy(d))
        /\ Env[d] = t
    BY <1>10, <1>13, <2>1, <2>2
  <2>4. Env[d].own = OwnIn(Levels, AtHome, d)
    BY <1>8, <2>1, <2>3, FrameFields
  <2>5. Calls!Contents(r) = lists[p]
    BY <1>9, <2>1, <2>4 DEF Calls!Contents, Held
  <2>6. PICK h \in 1 .. L : h = Levels[d].base + m + 1
    BY <1>7, <2>1
  <2>12. /\ HostIn(size, Wrote(AtHome, h, x)) = HostIn(size, AtHome)
         /\ \A i \in 1 .. n : i # d => OwnIn(Levels, Wrote(AtHome, h, x), i) = OwnIn(Levels, AtHome, i)
         /\ OwnIn(Levels, Wrote(AtHome, h, x), d) = Wrote(OwnIn(Levels, AtHome, d), m, x)
    <3>1. d \in 2 .. Len(Levels)
      BY <1>2
    <3> QED
      <4>1. m \in OwnSlots(Levels, d) /\ Filled(AtHome, L)
        BY <1>12 DEF OwnSlots, Filled
      <4>2. size \in Nat /\ size <= L /\ L \in Nat /\ Stacked(Levels) /\ HostEnds(Levels, size) /\ Len(Levels) = n
        BY <1>2, <1>8
      <4> QED
        BY <2>6, <3>1, <4>1, <4>2, OwnWritten, SMTT(30)
  <2>7. /\ HostContents' = HostContents /\ OwnOf(d)' = Wrote(OwnOf(d), m, x)
        /\ \A i \in 1 .. n : i # d => OwnOf(i)' = OwnOf(i)
    BY <1>7, <1>8, <2>1, <2>6, <2>12
  <2>8. \A i \in 1 .. n : i # d => EnvFrame(i)' = EnvFrame(i)
    BY <1>13, <2>7
  <2>9. Env' = Changed(Env, d, EnvFrame(d)')
    BY <1>0, <2>1, <2>8, OneChanges DEF n
  <2>10. EnvFrame(d)' = FrameRec(frames[d].scr, ArgsOf(d), SavedOf(d), Refs(Levels)[d], Wrote(OwnOf(d), m, x), OpsOf(d), RunBy(d))
    BY <1>13, <2>1, <2>7
  <2>11. Env' = OwnSet(Env, d, m, x)
    BY <2>3, <2>9, <2>10, OwnSetIs
  <2> QED
    BY <2>1, <2>5, <2>7, <2>11 DEF Calls!SetContents, OwnSet
<1>16. /\ Calls!Contents(r) = lists[p]
       /\ Calls!SetContents(r, x)
  BY <1>7, <1>14, <1>15 DEF RefOf
<1> QED
  BY <1>4, <1>6, <1>10, <1>11, <1>16 DEF r, p

\* add_to adds to the list the script's reference names.
LEMMA AddToMaps ==
  ASSUME SitesFresh, FrameInv, FrameInv', KeepsCallers, NEW l \in Nat, NEW v \in Vals, AddTo(l, v)
  PROVE  l \in DOMAIN Calls!Top.ref /\ Calls!AddTo(l, v)
<1>1. /\ InRow /\ ~throwing' /\ UNCHANGED <<frames, stack, args_stack, saved_stack, bases, return_value>>
      /\ lists' = [lists EXCEPT ![l + list_base + 1] = Append(lists[l + list_base + 1], v)]
      /\ l < NLists[Top.scr]
  BY DEF AddTo, InRow, Running
<1>2. l \in Slots(NLists[Top.scr])
  BY <1>1, RowRoom DEF Slots
<1>3. PICK x : x = Append(lists[l + list_base + 1], v)
  OBVIOUS
<1>4. /\ l \in DOMAIN Calls!Top.ref /\ Env # <<>>
      /\ Calls!Contents(Calls!Top.ref[l]) = lists[l + list_base + 1]
      /\ Calls!SetContents(Calls!Top.ref[l], x)
      /\ Result' = Result
  BY <1>1, <1>2, <1>3, ListRow
<1> QED
  BY <1>3, <1>4 DEF Calls!AddTo

\* clear clears it.
LEMMA ClearListMaps ==
  ASSUME SitesFresh, FrameInv, FrameInv', KeepsCallers, NEW l \in Nat, ClearList(l)
  PROVE  l \in DOMAIN Calls!Top.ref /\ Calls!ClearList(l)
<1>1. /\ InRow /\ ~throwing' /\ UNCHANGED <<frames, stack, args_stack, saved_stack, bases, return_value>>
      /\ lists' = [lists EXCEPT ![l + list_base + 1] = <<>>]
      /\ l < NLists[Top.scr]
  BY DEF ClearList, InRow, Running
<1>2. l \in Slots(NLists[Top.scr])
  BY <1>1, RowRoom DEF Slots
<1>3. /\ l \in DOMAIN Calls!Top.ref /\ Env # <<>>
      /\ Calls!SetContents(Calls!Top.ref[l], <<>>)
      /\ Result' = Result
  BY <1>1, <1>2, ListRow
<1> QED
  BY <1>3 DEF Calls!ClearList

-----------------------------------------------------------------------------
(* The host                                                                 *)

\* Between runs the abstract state is the host's.
HostView == Env = <<>> /\ HostContents = lists /\ Result = return_value
AtRest == FrameInv /\ frames = <<>>

\* Between runs the mapping is the identity.
LEMMA HostNow ==
  ASSUME SitesFresh
  PROVE  AtRest => HostView
<1> SUFFICES ASSUME FrameInv, frames = <<>>
             PROVE  HostView
  BY DEF AtRest
<1>0. Len(frames) = 0 /\ ~throwing
  BY DEF FrameInv, ContextReusable
<1>1. Env = <<>>
  <2>1. Env = [i \in 1 .. Len(frames) |-> EnvFrame(i)]
    BY <1>0, EnvIs
  <2>2. 1 .. Len(frames) = {}
    BY <1>0
  <2> HIDE DEF Env
  <2> QED
    BY <2>1, <2>2
<1>2. Shape /\ Mapped
  BY LevelsShape, MappedNow
<1>3. /\ Len(Levels) = 0 /\ Len(lists) \in Nat /\ DOMAIN lists = 1 .. Len(lists) /\ lists \in Seq(Seq(Vals))
  BY <1>0, <1>2 DEF Shape, FrameInv, TypeOK
<1>4. HostLists = Len(lists)
  BY <1>0 DEF HostLists
<1>5. \A k \in 1 .. Len(lists) : At(Levels, k) = k
  <2>1. Place(Levels)[Len(Levels)] = Place(Levels)[0] /\ Len(Levels) \in Nat
    BY <1>3
  <2>2. \A k \in Nat : Place(Levels)[0][k] = k
    BY <2>1, PlaceFacts
  <2> QED
    BY <1>3, <2>1, <2>2 DEF At
<1>6. HostContents = [k \in 1 .. Len(lists) |-> lists[k]]
  <2>1. Home(Levels, lists) = [k \in DOMAIN lists |-> lists[At(Levels, k)]]
    BY HomeIs
  <2>2. \A k \in 1 .. Len(lists) : Home(Levels, lists)[k] = lists[k]
    BY <1>3, <1>5, <2>1
  <2> QED
    BY <1>4, <2>2 DEF HostContents
<1>7. HostContents = lists
  BY <1>3, <1>6
<1>8. Result = return_value
  BY <1>0 DEF Result
<1> QED
  BY <1>1, <1>7, <1>8 DEF HostView

\* The same in the next state.
LEMMA HostNext == ASSUME SitesFresh PROVE AtRest' => HostView'
  BY HostNow, PTL

\* The host's calls between runs.
LEMMA CreateListsMaps ==
  ASSUME SitesFresh, FrameInv, FrameInv', NEW s, CreateLists(s)
  PROVE  Calls!CreateLists(s)
<1>1. /\ frames = <<>> /\ frames' = <<>> /\ lists' = [k \in 1 .. NLists[s] |-> <<>>] /\ return_value' = return_value
  BY DEF CreateLists
<1>2. HostView /\ HostView'
  BY <1>1, HostNow, HostNext DEF AtRest
<1> QED
  BY <1>1, <1>2 DEF HostView, Calls!CreateLists

\* An argument the host sets is seen only when a run begins.
LEMMA HostSetArgUnseen ==
  ASSUME SitesFresh, FrameInv, FrameInv', NEW k, NEW v, HostSetArg(k, v)
  PROVE  UNCHANGED <<Env, HostContents, Result>>
<1>1. /\ frames = <<>> /\ frames' = <<>> /\ lists' = lists /\ return_value' = return_value
  BY DEF HostSetArg
<1>2. HostView /\ HostView'
  BY <1>1, HostNow, HostNext DEF AtRest
<1> QED
  BY <1>1, <1>2 DEF HostView

\* clear() forgets the result.
LEMMA ClearMaps ==
  ASSUME SitesFresh, FrameInv, FrameInv', Clear
  PROVE  Calls!Clear
<1>1. /\ frames = <<>> /\ frames' = <<>> /\ lists' = lists /\ return_value' = Unset
  BY DEF Clear
<1>2. HostView /\ HostView'
  BY <1>1, HostNow, HostNext DEF AtRest
<1> QED
  BY <1>1, <1>2 DEF HostView, Calls!Clear

\* The innermost script has lent nothing.
NothingOpen == Top.pc = "row" \/ (Top.pc = "swapped" /\ Top.site.nlists = 0)

\* Then its level lends nothing either.
LEMMA PlainTop ==
  ASSUME SitesFresh, FrameInv, frames # <<>>, NothingOpen
  PROVE  DOMAIN Level(Len(frames)).bind = {} /\ OpenLists = 0
<1>1. CASE Top.pc = "row"
  <2>1. Level(Len(frames)) = LevelOf(Top.scr, list_base, list_base + NLists[Top.scr], <<>>)
    BY <1>1, UnlentLevel DEF Lent
  <2> QED
    BY <1>1, <2>1 DEF LevelOf, OpenLists
<1>2. CASE Top.pc = "swapped" /\ Top.site.nlists = 0
  <2>1. Level(Len(frames)) = LevelOf(Top.scr, list_base, Len(lists) - Top.site.nlists, Top.site.bind)
    BY <1>2, LentLevel DEF Lent
  <2>2. Top.site \in Sites[Top.scr] /\ Top.scr \in Scripts
    BY <1>2, OpenSite, TopFacts
  <2>3. SiteOf(Top.scr, Top.site)
    BY <2>2, ShapesAssumption
  <2>4. DOMAIN Top.site.bind = {}
    <3>1. DOMAIN Top.site.bind \subseteq Slots(0)
      BY <1>2, <2>3 DEF SiteOf
    <3>2. Slots(0) = {}
      BY DEF Slots
    <3> QED
      BY <3>1, <3>2
  <2> QED
    BY <1>2, <2>1, <2>4 DEF LevelOf, OpenLists
<1> QED
  BY <1>1, <1>2 DEF NothingOpen

\* A vector with one level, which has lent nothing, is at home.
LEMMA OneLevel ==
  ASSUME SitesFresh, FrameInv, Len(frames) = 1, NothingOpen
  PROVE  /\ HostContents = lists /\ Result = return_value
         /\ Refs(Levels)[1] = [l \in Slots(NLists[Top.scr]) |-> <<0, l>>]
<1>0. frames # <<>>
  BY LastFrame
<1>1. Shape /\ Mapped
  BY LevelsShape, MappedNow
<1>2. /\ Len(Levels) = 1 /\ Len(lists) \in Nat /\ DOMAIN lists = 1 .. Len(lists) /\ lists \in Seq(Seq(Vals))
      /\ Stacked(Levels) /\ GoodLevels(Levels) /\ Levels[1] = Level(1)
  BY <1>1 DEF Shape, FrameInv, TypeOK, Stacked
<1>3. Level(1).lists = NLists[Top.scr] /\ DOMAIN Level(1).bind = {}
  <2>1. 1 \in 1 .. Len(frames)
    OBVIOUS
  <2>2. Level(1).lists = NLists[frames[1].scr]
    BY <2>1, LevelIsGood
  <2>3. DOMAIN Level(Len(frames)).bind = {}
    BY <1>0, PlainTop
  <2> QED
    BY <2>2, <2>3 DEF Top
<1>4. Levels[1].lists = NLists[Top.scr] /\ DOMAIN Levels[1].bind = {}
  BY <1>2, <1>3
<1>5. \A k \in Nat : At(Levels, k) = k
  <2>1. \A k \in Nat : Place(Levels)[0][k] = k
    BY <1>2, PlaceFacts
  <2>2. \A k \in Nat : Place(Levels)[1][k] = Place(Levels)[0][k]
    <3>1. Len(Levels) \in Nat /\ Len(Levels) > 0 /\ DOMAIN Levels[Len(Levels)].bind = {} /\ GoodLevels(Levels)
      BY <1>2, <1>4
    <3>2. \A k \in Nat : Place(Levels)[Len(Levels)][k] = Place(Levels)[Len(Levels) - 1][k]
      BY <3>1, UnlentStays
    <3>3. Len(Levels) - 1 = 0
      BY <1>2
    <3> HIDE DEF Levels
    <3> QED
      BY <1>2, <3>2, <3>3
  <2> QED
    BY <1>2, <2>1, <2>2 DEF At
<1>6. HostLists = Len(lists)
  BY <1>0, <1>2 DEF HostLists, ListFrameOpen, NothingOpen
<1>7. HostContents = [k \in 1 .. Len(lists) |-> lists[k]]
  <2>1. Home(Levels, lists) = [k \in DOMAIN lists |-> lists[At(Levels, k)]]
    BY HomeIs
  <2>2. \A k \in 1 .. Len(lists) : Home(Levels, lists)[k] = lists[k]
    BY <1>2, <1>5, <2>1
  <2> QED
    BY <1>6, <2>2 DEF HostContents
<1>8. HostContents = lists
  BY <1>2, <1>7
<1>9. Refs(Levels)[1] = [l \in Slots(NLists[Top.scr]) |-> <<0, l>>]
  <2>1. Refs(Levels)[1] = RefsFrom(Levels, 1, Refs(Levels)[0])
    <3>1. Len(Levels) \in Nat /\ 1 \in 1 .. Len(Levels) /\ 1 - 1 = 0
      BY <1>2
    <3>2. PICK i : i = 1
      OBVIOUS
    <3>3. Refs(Levels)[i] = RefsFrom(Levels, i, Refs(Levels)[i - 1])
      BY <3>1, <3>2, RefsFacts
    <3> QED
      BY <3>1, <3>2, <3>3
  <2> QED
    BY <1>4, <2>1 DEF RefsFrom
<1> QED
  BY <1>8, <1>9 DEF Result

OneRuns == FrameInv /\ Len(frames) = 1 /\ Top.pc = "row"
OneView ==
  /\ HostContents = lists /\ Result = return_value
  /\ Refs(Levels)[1] = [l \in Slots(NLists[Top.scr]) |-> <<0, l>>]

\* The same in the next state.
LEMMA OneLevelNext ==
  ASSUME SitesFresh
  PROVE  OneRuns' => OneView'
<1>1. OneRuns => OneView
  BY OneLevel DEF OneRuns, OneView, NothingOpen
<1> QED
  BY <1>1, PTL

\* A run begins with the scalars that happen to be in the context.
LEMMA ProcessMaps ==
  ASSUME SitesFresh, FrameInv, FrameInv', NEW s \in Scripts, Process(s)
  PROVE  Calls!Run(s)
<1> DEFINE f == [scr |-> s, pc |-> "row", site |-> NoSite, old |-> NoOld]
           args == [k \in Slots(NArgs[s]) |-> args_stack[k]]
           saved == [k \in Slots(NSaved[s]) |-> saved_stack[k]]
           ref == [l \in Slots(NLists[s]) |-> <<0, l>>]
<1>1. /\ frames = <<>> /\ frames' = <<f>> /\ stack' = <<>> /\ ~throwing /\ ~throwing'
      /\ UNCHANGED <<args_stack, saved_stack, lists, bases, return_value>>
      /\ frame_base = 0 /\ arg_base = 0 /\ saved_base = 0 /\ list_base = 0
  BY DEF Process, FrameInv, ContextReusable
<1>2. Len(frames') = 1 /\ frames'[1] = f /\ Top' = f
  BY <1>1 DEF Top
<1>3. HostView
  BY <1>1, HostNow DEF AtRest
<1>4. HostContents' = lists' /\ Result' = return_value' /\ Refs(Levels')[1] = ref
  <2>1. Top'.pc = "row" /\ Top'.scr = s
    BY <1>2
  <2>2. OneView'
    BY <1>2, <2>1, OneLevelNext DEF OneRuns
  <2> QED
    BY <2>1, <2>2 DEF OneView
<1>5. /\ NLists[s] \in Nat /\ NArgs[s] \in Nat /\ NSaved[s] \in Nat
      /\ Len(lists) \in Nat /\ NLists[s] <= Len(lists)
  <2>1. NLists[s] \in Nat /\ NArgs[s] \in Nat /\ NSaved[s] \in Nat
    BY ShapesAssumption
  <2>2. NLists[s] > 0 => 0 + NLists[s] <= Len(lists)
    BY <1>1 DEF Process, ContextFits
  <2>3. Len(lists) \in Nat
    BY LenProperties DEF FrameInv, TypeOK
  <2> QED
    BY <2>1, <2>2, <2>3
<1>6. NArgs[s] <= ArgSlots /\ NSaved[s] <= SavedSlots /\ ArgSlots \in Nat /\ SavedSlots \in Nat
  <2>1. saved_base + MaxSaved[s] <= SavedSlots /\ NArgs[s] <= ArgSlots /\ NSaved[s] <= MaxSaved[s]
        /\ MaxSaved[s] \in Nat
    BY ShapesAssumption, LimitsAssumption DEF Process, ContextFits
  <2> QED
    BY <1>1, <1>5, <2>1, LimitsAssumption
<1>7. args \in [Slots(NArgs[s]) -> SlotVals] /\ saved \in [Slots(NSaved[s]) -> SlotVals]
  <2>1. args_stack \in [Slots(ArgSlots) -> SlotVals] /\ saved_stack \in [Slots(SavedSlots) -> SlotVals]
    BY DEF FrameInv, TypeOK
  <2>2. Slots(NArgs[s]) \subseteq Slots(ArgSlots) /\ Slots(NSaved[s]) \subseteq Slots(SavedSlots)
    BY <1>5, <1>6 DEF Slots
  <2> QED
    BY <2>1, <2>2
<1>8. /\ ArgsOf(1)' = args /\ SavedOf(1)' = saved /\ OpsOf(1)' = <<>> /\ OwnOf(1)' = <<>> /\ RunBy(1)' = NoSite
  <2>1. FrameBase(1)' = 0 /\ ArgBase(1)' = 0 /\ SavedBase(1)' = 0 /\ Innermost(1)'
    BY <1>1, <1>2 DEF FrameBase, ArgBase, SavedBase, Innermost, bases
  <2>2. ArgsOf(1)' = [k \in Slots(NArgs[s]) |-> args_stack[0 + k]] /\ SavedOf(1)' = [k \in Slots(NSaved[s]) |-> saved_stack[0 + k]]
    BY <1>1, <1>2, <2>1 DEF ArgsOf, SavedOf, Effective
  <2>3. \A k \in Slots(NArgs[s]) : 0 + k = k
    BY <1>5 DEF Slots
  <2>4. \A k \in Slots(NSaved[s]) : 0 + k = k
    BY <1>5 DEF Slots
  <2>5. OpsOf(1)' = SubSeq(<<>>, 0 + 1, Len(<<>>))
    BY <1>1, <2>1 DEF OpsOf
  <2>6. SubSeq(<<>>, 0 + 1, Len(<<>>)) = <<>>
    OBVIOUS
  <2>7. OwnOf(1)' = <<>> /\ RunBy(1)' = NoSite
    BY DEF OwnOf, RunBy
  <2> QED
    BY <2>2, <2>3, <2>4, <2>5, <2>6, <2>7
<1>9. Env' = <<FrameRec(s, args, saved, ref, <<>>, <<>>, NoSite)>>
  <2>1. Env' = [i \in 1 .. Len(frames') |-> EnvFrame(i)']
    BY <1>1, EnvNext
  <2>2. EnvFrame(1)' = FrameRec(s, args, saved, ref, <<>>, <<>>, NoSite)
    BY <1>2, <1>4, <1>8, EnvFrameIs
  <2> QED
    BY <1>2, <2>1, <2>2
<1>10. HostContents' = HostContents /\ Result' = Result /\ Len(HostContents) = Len(lists) /\ Env = <<>>
  BY <1>1, <1>3, <1>4 DEF HostView
<1> HIDE DEF args, saved
<1>11. Env' = <<[scr |-> s, args |-> args, saved |-> saved,
                 ref |-> [l \in Calls!Slots(NLists[s]) |-> <<0, l>>],
                 own |-> <<>>, ops |-> <<>>, site |-> Calls!NoSite]>>
  BY <1>9 DEF FrameRec, Calls!Slots, Slots, Calls!NoSite, NoSite
<1>12. /\ args \in [Calls!Slots(NArgs[s]) -> Vals \union {Unset}]
       /\ saved \in [Calls!Slots(NSaved[s]) -> Vals \union {Unset}]
  BY <1>7 DEF Calls!Slots, Slots, SlotVals
<1> QED
  BY <1>5, <1>10, <1>11, <1>12 DEF Calls!Run

-----------------------------------------------------------------------------
(* An error                                                                 *)

\* A step that only raises the exception.
LEMMA ThrowMaps ==
  ASSUME SitesFresh, FrameInv, FrameInv', frames # <<>>, ~throwing, throwing' = TRUE,
         UNCHANGED <<frames, lists, bases, return_value>>
  PROVE  Calls!Abandon
<1>1. Env' = <<>>
  BY DEF Env
<1>2. HostContents' = HostContents /\ Result' = Result
  BY DEF HostContents, HostLists, Levels, Level, ListBase, Innermost, Top, bases, Result
<1>3. Env # <<>>
  BY EnvFacts
<1> QED
  BY <1>1, <1>2, <1>3 DEF Calls!Abandon

\* The rest of a call site replayed by a handler: the swaps back, the drop.
LEMMA Replayed ==
  ASSUME SitesFresh, FrameInv, FrameInv', NEW mid, Stacked(mid), Reaches(mid, Len(lists)), Len(mid) > 0,
         \A k \in Nat : At(mid, k) = At(Levels, k), SameBelow(Levels', mid), DOMAIN Levels'[Len(mid)].bind = {},
         NEW s \in Scripts, NEW c \in Sites[s], NEW base \in Nat, base + NLists[s] + c.nlists <= Len(lists),
         mid[Len(mid)] = LevelOf(s, base, Len(lists) - c.nlists, c.bind),
         lists' = DropListFrame(SwapBound(lists, c, base), c)
  PROVE  /\ Len(lists') = Len(lists) - c.nlists
         /\ \A k \in 1 .. Len(lists) - c.nlists : AtHome'[k] = AtHome[k]
<1> DEFINE L == Len(lists)
           M == L - c.nlists
           lt == SwapBound(lists, c, base)
<1>1. Shape /\ Shape'
  BY LevelsShape, ShapeNext
<1>2. /\ L \in Nat /\ DOMAIN lists = 1 .. L /\ lists \in Seq(Seq(Vals)) /\ Len(mid) \in Nat
      /\ c.nlists \in Nat /\ NLists[s] \in Nat /\ M \in 0 .. L
  <2>1. SiteOf(s, c) /\ NLists[s] \in Nat
    BY ShapesAssumption
  <2>2. L \in Nat /\ DOMAIN lists = 1 .. L /\ lists \in Seq(Seq(Vals)) /\ Len(mid) \in Nat
    BY <1>1 DEF Shape, FrameInv, TypeOK, Stacked
  <2>3. c.nlists \in Nat
    BY <2>1 DEF SiteOf
  <2>4. M \in 0 .. L
    BY <2>1, <2>2, <2>3, SMTT(30)
  <2> QED
    BY <2>1, <2>2, <2>3, <2>4
<1>3. lt \in Seq(Seq(Vals)) /\ Len(lt) = L /\ DOMAIN lt = 1 .. L
  <2>1. base + NLists[s] <= L /\ c.nlists <= L
    BY <1>2
  <2>2. lt \in Seq(Seq(Vals)) /\ Len(lt) = L
    BY <1>2, <2>1, SwapTyped
  <2> QED
    BY <1>2, <2>2, LenProperties
<1>4. /\ lists' = SubSeq(lt, 1, M) /\ Len(lists') = M /\ \A k \in 1 .. M : lists'[k] = lt[k]
  <2>1. lists' = SubSeq(lt, 1, M)
    BY <1>3 DEF DropListFrame
  <2> HIDE DEF lt, M
  <2>2. Len(SubSeq(lt, 1, M)) = M
    BY <1>2, <1>3, Shortened
  <2>3. \A k \in 1 .. M : SubSeq(lt, 1, M)[k] = lt[k]
    BY <1>2, <1>3, <2>2, SubSeqProperties
  <2> QED
    BY <2>1, <2>2, <2>3
<1>5. lt = [k \in 1 .. L |-> lists[Swapped(mid[Len(mid)], k)]]
  <2>1. PICK v : v = mid[Len(mid)]
    OBVIOUS
  <2>2. GoodLevel(v)
    BY <1>2, <2>1 DEF Stacked, GoodLevels
  <2>3. v = LevelOf(s, base, L - c.nlists, c.bind)
    BY <2>1
  <2>4. lt = Permuted(lists, v)
    BY <1>2, <2>2, <2>3, SiteSwap
  <2> QED
    BY <1>2, <2>1, <2>4 DEF Permuted
<1>6. Stacked(Levels') /\ Reaches(Levels', M) /\ Reaches(Levels', L) /\ DOMAIN lists' = 1 .. M /\ M \in Nat
  <2>1. Stacked(Levels') /\ Reaches(Levels', Len(lists')) /\ DOMAIN lists' = 1 .. Len(lists') /\ Len(lists') \in Nat
    BY <1>1 DEF Shape
  <2>2. Stacked(Levels') /\ Reaches(Levels', M) /\ DOMAIN lists' = 1 .. M /\ M \in Nat
    BY <1>4, <2>1
  <2>3. ASSUME NEW i \in 1 .. Len(Levels')
        PROVE  Reach1(Levels'[i], L)
    <3>1. PICK v : v = Levels'[i]
      OBVIOUS
    <3>2. GoodLevel(v) /\ Reach1(v, M)
      BY <2>2, <3>1 DEF Reaches, Stacked, GoodLevels
    <3>3. v.base + v.lists \in Nat /\ v.base + v.lists <= M
      BY <3>2 DEF GoodLevel, Reach1
    <3>4. v.base + v.lists <= L
      BY <1>2, <3>3
    <3>5. ASSUME NEW l \in DOMAIN v.bind
          PROVE  v.top + l + 1 <= L
      <4>1. v.top + l + 1 \in Nat /\ v.top + l + 1 <= M
        BY <3>2 DEF GoodLevel, Reach1
      <4> QED
        BY <1>2, <4>1
    <3> QED
      BY <3>1, <3>4, <3>5 DEF Reach1
  <2> QED
    BY <2>2, <2>3 DEF Reaches
<1>7. Home(Levels', lt) = Home(mid, lists)
  <2>1. PICK lv, ls, lu, m : lv = Levels' /\ ls = lists /\ lu = lt /\ m = L
    OBVIOUS
  <2>2. /\ SameBelow(lv, mid) /\ Len(lv) = Len(mid) /\ Len(lv) > 0 /\ DOMAIN lv[Len(lv)].bind = {}
        /\ Stacked(lv) /\ Stacked(mid) /\ Reaches(lv, m) /\ Reaches(mid, m) /\ DOMAIN ls = 1 .. m /\ m \in Nat
    BY <1>2, <1>6, <2>1 DEF SameBelow
  <2>3. PICK v : v = mid[Len(lv)] /\ lu = Permuted(ls, v)
    BY <1>2, <1>5, <2>1, <2>2 DEF Permuted
  <2>4. Home(lv, lu) = Home(mid, ls)
    BY ONLY <2>2, <2>3, HomePermuted
  <2> HIDE DEF lt
  <2> QED
    BY <2>1, <2>4
<1>8. \A k \in 1 .. L : Home(mid, lists)[k] = AtHome[k]
  <2>1. Home(mid, lists) = [k \in DOMAIN lists |-> lists[At(mid, k)]]
    BY HomeIs
  <2>2. AtHome = [k \in DOMAIN lists |-> lists[At(Levels, k)]]
    BY HomeIs DEF AtHome
  <2> QED
    BY <1>2, <2>1, <2>2
<1>9. ASSUME NEW k \in 1 .. M
      PROVE  AtHome'[k] = AtHome[k]
  <2>1. Home(Levels', lists')[k] = Home(Levels', lt)[k]
    <3>1. PICK lv, ls, lu : lv = Levels' /\ ls = lists' /\ lu = lt
      OBVIOUS
    <3>2. /\ Stacked(lv) /\ Reaches(lv, M) /\ DOMAIN ls = 1 .. M /\ DOMAIN lu = 1 .. L
          /\ M \in Nat /\ L \in Nat /\ M <= M /\ M <= L /\ \A j \in 1 .. M : ls[j] = lu[j]
      <4>1. M <= M /\ M <= L
        BY <1>2
      <4>2. \A j \in 1 .. M : ls[j] = lu[j]
        BY <1>4, <3>1
      <4> HIDE DEF lt, L, M
      <4> QED
        BY <1>2, <1>3, <1>6, <3>1, <4>1, <4>2
    <3> HIDE DEF lt, L, M
    <3>3. Home(lv, ls)[k] = Home(lv, lu)[k]
      BY <3>2, HomeCut
    <3> QED
      BY <3>1, <3>3
  <2>2. k \in 1 .. L
    BY <1>2
  <2> QED
    BY <1>7, <1>8, <2>1, <2>2 DEF AtHome
<1> QED
  BY <1>4, <1>9

\* A refused call abandons the run; its list frame goes with its swaps undone.
LEMMA RefusedMaps ==
  ASSUME SitesFresh, FrameInv, FrameInv', ExecuteRefused
  PROVE  Calls!Abandon
<1> DEFINE n == Len(frames)
           L == Len(lists)
           c == Top.site
<1>0. frames # <<>> /\ ~throwing /\ throwing' /\ Top.pc = "swapped"
  BY DEF ExecuteRefused, InPhase, Running
<1>1. /\ frames' = FramesAt(n, "row", NoSite) /\ UNCHANGED bases /\ return_value' = return_value
      /\ lists' = DropListFrame(SwapBound(lists, c, list_base), c)
  BY DEF ExecuteRefused, Caught, Old, Top, bases
<1>2. /\ Kept(n) /\ Len(frames') = n /\ Top'.scr = Top.scr /\ Top'.pc = "row" /\ Top'.site = NoSite
      /\ n \in Nat /\ frames' # <<>> /\ list_base' = list_base
      /\ c.nlists \in Nat /\ c.nlists <= L
  <2>1. Reach("row", NoSite) /\ "row" \in Phases /\ NoSite \in {Top.site, NoSite}
    BY <1>1 DEF Reach, Phases
  <2> QED
    BY <1>0, <1>1, <2>1, ReachFacts
<1>3. Shape /\ Shape' /\ Mapped /\ Mapped'
  BY LevelsShape, ShapeNext, MappedNow, MappedNext
<1>4. /\ L \in Nat /\ n \in 1 .. n /\ Len(Levels) = n /\ Len(Levels') = n /\ n > 0
      /\ Stacked(Levels) /\ Reaches(Levels, L)
      /\ Levels[n] = Level(n) /\ Levels'[n] = Level(n)'
  BY <1>2, <1>3 DEF Shape, Kept
<1>5. Levels[n] = LevelOf(Top.scr, list_base, L - c.nlists, c.bind)
  BY <1>0, <1>4, LentLevel DEF Lent
<1>6. DOMAIN Levels'[n].bind = {}
  BY <1>2, <1>4, UnlentLevelNext DEF LevelOf, Lent
<1>7. SameBelow(Levels', Levels)
  BY <1>2, <1>4, KeptLevels DEF SameBelow
<1>8. /\ Top.scr \in Scripts /\ c \in Sites[Top.scr] /\ list_base \in Nat
      /\ list_base + NLists[Top.scr] + c.nlists <= L
  BY <1>0, OpenSite, TopFacts
<1>9. /\ Len(lists') = L - c.nlists
      /\ \A k \in 1 .. L - c.nlists : AtHome'[k] = AtHome[k]
  <2>1. PICK mid, s, d, base : mid = Levels /\ s = Top.scr /\ d = c /\ base = list_base
    OBVIOUS
  <2>2. /\ Stacked(mid) /\ Reaches(mid, Len(lists)) /\ Len(mid) > 0 /\ \A k \in Nat : At(mid, k) = At(Levels, k)
        /\ SameBelow(Levels', mid) /\ DOMAIN Levels'[Len(mid)].bind = {}
        /\ s \in Scripts /\ d \in Sites[s] /\ base \in Nat /\ base + NLists[s] + d.nlists <= Len(lists)
        /\ mid[Len(mid)] = LevelOf(s, base, Len(lists) - d.nlists, d.bind)
        /\ lists' = DropListFrame(SwapBound(lists, d, base), d)
    BY <1>1, <1>4, <1>5, <1>6, <1>7, <1>8, <2>1
  <2>3. /\ Len(lists') = Len(lists) - d.nlists
        /\ \A k \in 1 .. Len(lists) - d.nlists : AtHome'[k] = AtHome[k]
    BY <2>2, Replayed
  <2> QED
    BY <2>1, <2>3
<1>10. HostLists' = HostLists
  BY <1>0, <1>2, <1>9, HostListsKept DEF ListFrameOpen, Phases
<1>11. HostContents' = HostContents
  <2>1. HostLists \in Nat /\ HostLists <= L - c.nlists
    BY <1>3, <1>9, <1>10 DEF Mapped
  <2>2. \A k \in 1 .. HostLists : AtHome'[k] = AtHome[k]
    BY <1>2, <1>4, <1>9, <2>1
  <2> QED
    BY <1>10, <2>2, KeptHost
<1>12. Result' = Result
  BY <1>1, <1>2 DEF Result, Kept
<1>13. Env' = <<>> /\ Env # <<>>
  BY <1>0, EnvFacts DEF Env
<1> QED
  BY <1>11, <1>12, <1>13 DEF Calls!Abandon

-----------------------------------------------------------------------------
(* The list frames                                                          *)

\* The list frames of the frames that stay, gapless before, are so after.
LEMMA GaplessBelow ==
  ASSUME FrameInv, Gapless, NEW m \in Nat, Kept(m), NEW i \in 2 .. m - 1
  PROVE  ListBase(i + 1)' = ListBase(i)' + NLists[frames'[i].scr]
<1>1. i \in 1 .. m - 1 /\ i + 1 \in 1 .. m /\ i \in 1 .. m
  OBVIOUS
<1>2. i \in 2 .. Len(frames) - 1
  BY LenProperties DEF FrameInv, TypeOK, Kept
<1>3. ListBase(i + 1) = ListBase(i) + NLists[frames[i].scr]
  BY <1>2 DEF Gapless
<1>4. /\ frames'[i].scr = frames[i].scr
      /\ ListBase(i)' = ListBase(i) /\ ListBase(i + 1)' = ListBase(i + 1)
  BY <1>1 DEF Kept
<1> QED
  BY <1>3, <1>4

\* The innermost frame stays where it is, whatever its call site has open.
LEMMA GaplessStays ==
  ASSUME FrameInv, Gapless, frames # <<>>, Kept(Len(frames)), Len(frames') = Len(frames),
         list_base' = list_base, Top'.scr = Top.scr,
         NEW p \in Nat, OpenLists = p, NEW q \in Nat, OpenLists' = q,
         NEW r \in Nat, Len(lists) = r, Len(lists') = r - p + q
  PROVE  Gapless'
<1> DEFINE n == Len(frames)
<1>1. n \in Nat /\ list_base \in Nat /\ NLists[Top.scr] \in Nat
  BY TopFacts
<1>2. ASSUME NEW i \in 2 .. n - 1
      PROVE  ListBase(i + 1)' = ListBase(i)' + NLists[frames'[i].scr]
  BY <1>1, GaplessBelow
<1>3. ASSUME n > 1
      PROVE  Len(lists') = list_base' + NLists[Top'.scr] + OpenLists'
  <2>1. r = list_base + NLists[Top.scr] + p
    BY <1>3 DEF Gapless
  <2> QED
    BY <1>1, <2>1, SMTT(30)
<1> QED
  BY <1>2, <1>3 DEF Gapless

\* The innermost frame is gone; its caller's call site has its lists open, or
\* dropped them.
LEMMA GaplessDropped ==
  ASSUME SitesFresh, FrameInv, Gapless, Len(frames) > 1, OpenLists = 0,
         Kept(Len(frames) - 1), Len(frames') = Len(frames) - 1,
         list_base' = Top.old.list, Top'.scr = Caller.scr,
         NEW q \in Nat, OpenLists' = q, NEW r \in Nat, Len(lists) = r,
         Len(lists') = r - NLists[Top.scr] + q
  PROVE  Gapless'
<1> DEFINE n == Len(frames)
           m == n - 1
<1>1. /\ n \in Nat /\ m \in Nat /\ list_base \in Nat /\ NLists[Top.scr] \in Nat /\ frames # <<>>
      /\ Top.old.list \in Nat /\ NLists[Caller.scr] \in Nat
  BY CallerFacts, TopFacts
<1>2. ASSUME NEW i \in 2 .. m - 1
      PROVE  ListBase(i + 1)' = ListBase(i)' + NLists[frames'[i].scr]
  BY <1>1, GaplessBelow
<1>3. ASSUME m > 1
      PROVE  Len(lists') = list_base' + NLists[Top'.scr] + OpenLists'
  <2>1. r = list_base + NLists[Top.scr]
    BY <1>1 DEF Gapless
  <2>2. ListBase(m + 1) = ListBase(m) + NLists[frames[m].scr]
    <3>1. m \in 2 .. n - 1
      BY <1>1, <1>3
    <3> QED
      BY <3>1 DEF Gapless
  <2>3. ListBase(m + 1) = list_base /\ ListBase(m) = Top.old.list /\ frames[m] = Caller
    <3>1. m + 1 = n /\ m # n
      BY <1>1
    <3> QED
      BY <3>1 DEF ListBase, Innermost, Top, Caller
  <2>4. list_base = Top.old.list + NLists[Caller.scr]
    BY <2>2, <2>3
  <2> QED
    BY <1>1, <2>1, <2>4
<1> QED
  BY <1>2, <1>3 DEF Gapless

\* How many lists the innermost call site has open.
LEMMA OpenListsIs ==
  ASSUME SitesFresh, FrameInv, frames # <<>>
  PROVE  /\ Top.pc = "row" => OpenLists = 0
         /\ Top.pc # "row" => OpenLists = Top.site.nlists /\ OpenLists \in Nat
         /\ OpenLists \in Nat
<1>1. Top.pc # "row" => Top.site.nlists \in Nat
  BY OpenSite
<1> QED
  BY <1>1 DEF OpenLists

\* The list slots that are open in the next state.
LEMMA OpenListsNext ==
  ASSUME TRUE
  PROVE  /\ Top'.pc = "row" => OpenLists' = 0
         /\ Top'.pc # "row" => OpenLists' = Top'.site.nlists
  BY DEF OpenLists
-----------------------------------------------------------------------------

\* A row neither opens nor drops a list frame.
LEMMA RowKeepsListFrames ==
  ASSUME SitesFresh, FrameInv, ListFrameInv, frames # <<>>, Top.pc = "row",
         UNCHANGED <<frames, bases>>, Len(lists') = Len(lists)
  PROVE  ListFrameInv'
<1>1. Top' = Top /\ Top'.pc = "row" /\ list_base' = list_base /\ OpenLists' = 0 /\ OpenLists = 0
  BY DEF Top, bases, OpenLists
<1>2. Kept(Len(frames)) /\ Len(frames') = Len(frames) /\ Len(lists) \in Nat /\ 0 \in Nat
  BY KeptByRow, TopFacts
<1>3. Gapless'
  <2>1. PICK r : r = Len(lists)
    OBVIOUS
  <2>2. r \in Nat /\ Len(lists) = r /\ Len(lists') = r - 0 + 0
    BY <1>2, <2>1
  <2> QED
    BY <1>1, <1>2, <2>2, GaplessStays DEF ListFrameInv
<1> QED
  BY <1>1, <1>3 DEF ListFrameInv, UngivenAreEmpty, ThrowsFromRow

\* A step that only raises the exception.
LEMMA ThrowKeepsListFrames ==
  ASSUME ListFrameInv, UNCHANGED <<frames, lists, bases>>,
         Top.pc = "row" \/ (Top.pc = "swapped" /\ Top.site.nlists = 0)
  PROVE  ListFrameInv'
  BY DEF ListFrameInv, Gapless, UngivenAreEmpty, ThrowsFromRow, ListBase, Innermost, Top, OpenLists, bases

\* A script nobody runs, or only the host: no list frame at all.
LEMMA OneKeepsListFrames ==
  ASSUME frames' = <<>> \/ (Len(frames') = 1 /\ Top'.pc = "row" /\ frames' # <<>>), ~throwing'
  PROVE  ListFrameInv'
<1>1. Len(frames') \in {0, 1}
  BY EmptySeq
<1>2. Gapless'
  <2>1. PICK m : m = Len(frames')
    OBVIOUS
  <2>2. ~(m > 1) /\ ~\E i \in 2 .. m - 1 : TRUE
    BY <1>1, <2>1
  <2> QED
    BY <2>1, <2>2 DEF Gapless
<1> QED
  BY <1>2 DEF ListFrameInv, UngivenAreEmpty, ThrowsFromRow

\* The list frame that opens is empty and at the end.
LEMMA EnterKeepsListFrames ==
  ASSUME SitesFresh, FrameInv, ListFrameInv, NEW s \in Scripts, NEW c \in Sites[s], ListFrameEnter(c)
  PROVE  ListFrameInv'
<1> DEFINE n == Len(frames)
<1>0. frames # <<>> /\ ~throwing' /\ Top.pc = "row"
  BY DEF ListFrameEnter, InRow, Running
<1>1. /\ Kept(n) /\ Len(frames') = n /\ Top'.scr = Top.scr /\ Top'.pc = "entered" /\ Top'.site = c
      /\ list_base' = list_base
  <2>1. c \in AllSites \union {NoSite} /\ "entered" \in Phases /\ TypeOK
    BY SiteFacts DEF Phases, FrameInv
  <2>2. frames' = FramesAt(n, "entered", c) /\ UNCHANGED bases
    BY DEF ListFrameEnter, Reach
  <2>3. list_base' = list_base
    BY <2>2 DEF bases
  <2> QED
    BY <1>0, <2>1, <2>2, <2>3, KeptByReach
<1>2. PICK r, q : r = Len(lists) /\ q = c.nlists
  OBVIOUS
<1>3. /\ r \in Nat /\ q \in Nat /\ Len(lists') = r + q
      /\ \A l \in Slots(q) : lists'[r + l + 1] = <<>>
  <2> DEFINE new == [k \in 1 .. q |-> <<>>]
  <2>1. lists \in Seq(Seq(Vals)) /\ q \in Nat /\ r \in Nat
    BY <1>2, SiteFacts DEF FrameInv, TypeOK
  <2>2. new \in Seq(Seq(Vals)) /\ Len(new) = q /\ \A k \in 1 .. q : new[k] = <<>>
    BY <2>1, EmptyLists
  <2>3. lists' = lists \o new
    BY <1>2 DEF ListFrameEnter
  <2> HIDE DEF new
  <2>4. Len(lists') = r + q
    <3>1. Len(lists \o new) = Len(lists) + Len(new)
      BY <2>1, <2>2, ConcatProperties
    <3> QED
      BY <1>2, <2>2, <2>3, <3>1
  <2>5. ASSUME NEW l \in Slots(q)
        PROVE  lists'[r + l + 1] = <<>>
    <3>1. l \in Nat /\ l + 1 \in 1 .. q
      BY <2>1 DEF Slots
    <3>2. PICK k : k = l + 1
      OBVIOUS
    <3>3. k \in 1 .. q /\ r + l + 1 = r + k /\ r + k \in r + 1 .. r + q
      BY <2>1, <3>1, <3>2
    <3>4. lists'[r + k] = new[k]
      BY <1>2, <2>1, <2>2, <2>3, <3>3
    <3> QED
      BY <2>2, <3>3, <3>4
  <2> QED
    BY <2>1, <2>4, <2>5
<1>4. OpenLists = 0 /\ OpenLists' = q
  BY <1>0, <1>1, <1>2 DEF OpenLists
<1>5. Gapless'
  <2>1. Len(lists') = r - 0 + q
    BY <1>3
  <2> QED
    BY <1>0, <1>1, <1>2, <1>3, <1>4, <2>1, GaplessStays DEF ListFrameInv
<1>6. UngivenAreEmpty'
  <2>1. Len(lists') - q = r
    BY <1>3
  <2> QED
    BY <1>1, <1>2, <1>3, <2>1 DEF UngivenAreEmpty
<1> QED
  BY <1>0, <1>5, <1>6 DEF ListFrameInv, ThrowsFromRow

\* Every other step of a call site that stays in its frame.
LEMMA ReachKeepsListFrames ==
  ASSUME SitesFresh, FrameInv, ListFrameInv, frames # <<>>, Top.pc # "row",
         NEW pc \in Phases, NEW c \in {Top.site, NoSite}, Reach(pc, c), UNCHANGED bases,
         pc = "row" => Len(lists') = Len(lists) - Top.site.nlists,
         pc # "row" => Len(lists') = Len(lists) /\ c = Top.site,
         UngivenAreEmpty', throwing' => pc = "row"
  PROVE  ListFrameInv'
<1>1. /\ Kept(Len(frames)) /\ Len(frames') = Len(frames) /\ Len(frames) \in Nat /\ frames' # <<>>
      /\ Top'.scr = Top.scr /\ Top'.pc = pc /\ Top'.site = c /\ list_base' = list_base
      /\ Top.site.nlists \in Nat /\ Len(lists) \in Nat /\ Top.site.nlists <= Len(lists)
  BY ReachFacts
<1>2. PICK p, q, r : /\ p = Top.site.nlists /\ r = Len(lists)
                     /\ q = IF pc = "row" THEN 0 ELSE p
  OBVIOUS
<1>3. OpenLists = p /\ OpenLists' = q /\ p \in Nat /\ q \in Nat /\ r \in Nat
  BY <1>1, <1>2 DEF OpenLists
<1>4. Len(lists') = r - p + q
  BY <1>1, <1>2, <1>3
<1>5. Gapless'
  BY <1>1, <1>2, <1>3, <1>4, GaplessStays DEF ListFrameInv
<1> QED
  BY <1>1, <1>5 DEF ListFrameInv, ThrowsFromRow
\* Slots of a callee counted from the end of the vector, and of its caller.
LEMMA EndSlot ==
  ASSUME NEW L \in Nat, NEW q \in Nat, NEW b \in Nat, b + q <= L, NEW l \in Slots(q)
  PROVE  /\ L - q + l + 1 \in 1 .. L /\ L - q + l + 1 > b
         /\ \A m \in Slots(q) : m # l => L - q + l + 1 # L - q + m + 1
  BY DEF Slots

\* A slot of a script lies below the end of its lists.
LEMMA SiteSlot ==
  ASSUME NEW base \in Nat, NEW n \in Nat, NEW m \in Slots(n)
  PROVE  m + base + 1 <= base + n /\ m + base + 1 \in Nat
  BY DEF Slots

\* Arithmetic of three adjacent frames.
LEMMA ThreeParts ==
  ASSUME NEW a \in Nat, NEW b \in Nat, NEW c \in Nat, NEW L \in Nat, a + b + c <= L
  PROVE  a + b \in Nat /\ a + b <= L /\ c <= L /\ L - c \in 0 .. L /\ (a + b) + c <= L
  OBVIOUS

\* The swaps leave the slots of lists that are not given alone.
LEMMA SwapInKeepsListFrames ==
  ASSUME SitesFresh, FrameInv, ListFrameInv, SwapIn
  PROVE  ListFrameInv'
<1> DEFINE c == Top.site
           L == Len(lists)
<1>0. frames # <<>> /\ ~throwing' /\ Top.pc = "entered"
  BY DEF SwapIn, InPhase, Running
<1>1. /\ Reach("swapped", c) /\ UNCHANGED bases /\ lists' = SwapBound(lists, c, list_base)
      /\ "swapped" \in Phases /\ c \in {Top.site, NoSite}
  BY DEF SwapIn, Phases
<1>2. /\ Top.scr \in Scripts /\ c \in Sites[Top.scr] /\ list_base \in Nat /\ lists \in Seq(Seq(Vals)) /\ L \in Nat
      /\ NLists[Top.scr] \in Nat /\ c.nlists \in Nat
      /\ list_base + NLists[Top.scr] + c.nlists <= L
  BY <1>0, OpenSite, TopFacts
<1>3. Len(lists') = L
  <2>1. list_base + NLists[Top.scr] <= L /\ c.nlists <= L
    BY <1>2, ThreeParts
  <2> QED
    BY <1>1, <1>2, <2>1, SwapTyped
<1>4. Top'.pc = "swapped" /\ Top'.site = c
  BY <1>0, <1>1, ReachFacts
<1>5. ASSUME NEW l \in Slots(c.nlists) \ DOMAIN c.bind
      PROVE  lists'[L - c.nlists + l + 1] = <<>>
  <2>1. PICK k : k = L - c.nlists + l + 1
    OBVIOUS
  <2>2. lists[k] = <<>>
    BY <1>0, <2>1 DEF ListFrameInv, UngivenAreEmpty
  <2>3. PICK q, b : q = c.nlists /\ b = list_base + NLists[Top.scr]
    OBVIOUS
  <2>6. q \in Nat /\ b \in Nat /\ b + q <= L /\ l \in Slots(q) /\ k = L - q + l + 1
    BY <1>2, <2>1, <2>3, ThreeParts
  <2>7. /\ k \in 1 .. L /\ k > b
        /\ \A m \in Slots(q) : m # l => k # L - q + m + 1
    BY <1>2, <2>6, EndSlot
  <2>4. ASSUME NEW m \in DOMAIN c.bind
        PROVE  k # L - c.nlists + m + 1 /\ k # c.bind[m] + list_base + 1
    <3>1. m \in Slots(c.nlists) /\ c.bind[m] \in Slots(NLists[Top.scr]) /\ m # l
      BY <1>2, SiteFacts
    <3>2. k # L - c.nlists + m + 1
      BY <2>3, <2>7, <3>1
    <3>3. PICK x : x = c.bind[m] + list_base + 1
      OBVIOUS
    <3>4. x <= b /\ x \in Nat
      BY <1>2, <2>3, <3>1, <3>3, SiteSlot
    <3>5. k # x
      BY <2>6, <2>7, <3>4
    <3> QED
      BY <3>2, <3>3, <3>5
  <2>5. SwapBound(lists, c, list_base)[k] = lists[k]
    <3>1. k \in DOMAIN lists
      BY <1>2, <2>7
    <3> QED
      BY <2>4, <3>1 DEF SwapBound
  <2> QED
    BY <1>1, <2>1, <2>2, <2>5
<1>6. UngivenAreEmpty'
  BY <1>3, <1>4, <1>5 DEF UngivenAreEmpty
<1> QED
  BY <1>0, <1>1, <1>3, <1>6, ReachKeepsListFrames

\* The phases after the return, and a refusal.
LEMMA RestKeepsListFrames ==
  ASSUME SitesFresh, FrameInv, ListFrameInv, WriteBack \/ SwapOut \/ ListFrameExit \/ ExecuteRefused
  PROVE  ListFrameInv'
<1> DEFINE L == Len(lists)
<1>0. frames # <<>> /\ Top.pc # "row"
  BY DEF WriteBack, SwapOut, ListFrameExit, ExecuteRefused, InPhase, Running
<1>1. /\ Top.scr \in Scripts /\ Top.site \in Sites[Top.scr] /\ list_base \in Nat /\ lists \in Seq(Seq(Vals)) /\ L \in Nat
      /\ NLists[Top.scr] \in Nat /\ Top.site.nlists \in Nat
      /\ list_base + NLists[Top.scr] + Top.site.nlists <= L
  BY <1>0, OpenSite, TopFacts
<1>2. list_base + NLists[Top.scr] <= L /\ Top.site.nlists <= L /\ L - Top.site.nlists \in 0 .. L
  BY <1>1, ThreeParts
<1>3. CASE WriteBack
  <2>1. /\ Reach("written", Top.site) /\ UNCHANGED bases /\ lists' = lists /\ ~throwing'
        /\ "written" \in Phases /\ Top.site \in {Top.site, NoSite}
    BY <1>3 DEF WriteBack, Phases, InPhase, Running
  <2>2. Top'.pc = "written"
    BY <1>0, <2>1, ReachFacts
  <2>3. UngivenAreEmpty'
    BY <2>2 DEF UngivenAreEmpty
  <2> QED
    BY <1>0, <2>1, <2>3, ReachKeepsListFrames
<1>4. CASE SwapOut
  <2>1. /\ Reach("unswapped", Top.site) /\ UNCHANGED bases /\ lists' = SwapBound(lists, Top.site, list_base) /\ ~throwing'
        /\ "unswapped" \in Phases /\ Top.site \in {Top.site, NoSite}
    BY <1>4 DEF SwapOut, Phases, InPhase, Running
  <2>2. Top'.pc = "unswapped"
    BY <1>0, <2>1, ReachFacts
  <2>3. UngivenAreEmpty'
    BY <2>2 DEF UngivenAreEmpty
  <2>4. Len(lists') = L
    BY <1>1, <1>2, <2>1, SwapTyped
  <2> QED
    BY <1>0, <2>1, <2>3, <2>4, ReachKeepsListFrames
<1>5. CASE ListFrameExit
  <2>1. /\ Reach("row", NoSite) /\ UNCHANGED bases /\ lists' = DropListFrame(lists, Top.site) /\ ~throwing'
        /\ "row" \in Phases /\ NoSite \in {Top.site, NoSite}
    BY <1>5 DEF ListFrameExit, Phases, InPhase, Running
  <2>2. Top'.pc = "row"
    BY <1>0, <2>1, ReachFacts
  <2>3. UngivenAreEmpty'
    BY <2>2 DEF UngivenAreEmpty
  <2>4. Len(lists') = L - Top.site.nlists
    BY <1>1, <1>2, <2>1, Shortened DEF DropListFrame
  <2> QED
    BY <1>0, <2>1, <2>3, <2>4, ReachKeepsListFrames
<1>6. CASE ExecuteRefused
  <2>1. /\ Reach("row", NoSite) /\ UNCHANGED bases
        /\ lists' = DropListFrame(SwapBound(lists, Top.site, list_base), Top.site)
        /\ "row" \in Phases /\ NoSite \in {Top.site, NoSite}
    BY <1>6 DEF ExecuteRefused, Caught, Old, Reach, Top, bases, Phases
  <2>2. Top'.pc = "row"
    BY <1>0, <2>1, ReachFacts
  <2>3. UngivenAreEmpty'
    BY <2>2 DEF UngivenAreEmpty
  <2>4. Len(lists') = L - Top.site.nlists
    BY <1>1, <2>1, CaughtLists
  <2> QED
    BY <1>0, <2>1, <2>3, <2>4, ReachKeepsListFrames
<1> QED
  BY <1>3, <1>4, <1>5, <1>6

\* The callee's lists are the list frame its site opened.
LEMMA ExecuteKeepsListFrames ==
  ASSUME SitesFresh, FrameInv, ListFrameInv, ExecuteScript
  PROVE  ListFrameInv'
<1> DEFINE n == Len(frames)
           sub == Top.site.sub
<1>0. frames # <<>> /\ ~throwing' /\ Top.pc = "swapped" /\ TypeOK
  BY DEF ExecuteScript, InPhase, Running, FrameInv
<1>1. /\ sub \in Scripts /\ Top.site \in AllSites \union {NoSite} /\ Top.site.nlists = NLists[sub]
      /\ n \in Nat /\ n >= 1 /\ Len(lists) \in Nat /\ list_base \in Nat /\ NLists[Top.scr] \in Nat
      /\ NLists[sub] \in Nat
  BY <1>0, OpenSite, TopFacts
<1>2. /\ Kept(n) /\ Len(frames') = n + 1
      /\ frames'[n + 1] = [scr |-> sub, pc |-> "row", site |-> NoSite, old |-> Old]
  BY <1>0, <1>1, KeptByExecute DEF ExecuteScript
<1>3. /\ Top' = frames'[n + 1] /\ Top'.pc = "row" /\ Top'.scr = sub /\ OpenLists' = 0
      /\ list_base' = Len(lists) - NLists[sub] /\ lists' = lists
  BY <1>2 DEF Top, OpenLists, ExecuteScript, CalleeListBase
<1>4. ASSUME NEW i \in 2 .. n
      PROVE  ListBase(i + 1)' = ListBase(i)' + NLists[frames'[i].scr]
  <2>1. CASE i = n
    <3>1. Len(lists) = list_base + NLists[Top.scr] + NLists[sub]
      BY <1>0, <1>1, <2>1 DEF ListFrameInv, Gapless, OpenLists
    <3>2. ListBase(i)' = list_base /\ frames'[i].scr = Top.scr
      <4>1. i \in 1 .. n
        BY <1>1, <2>1
      <4>2. ListBase(i)' = ListBase(i) /\ frames'[i].scr = frames[i].scr
        BY <1>2, <4>1 DEF Kept
      <4> QED
        BY <2>1, <4>2 DEF ListBase, Innermost, Top
    <3>3. ListBase(i + 1)' = list_base'
      BY <1>2, <2>1 DEF ListBase, Innermost
    <3> QED
      BY <1>1, <1>3, <2>1, <3>1, <3>2, <3>3, SMTT(30)
  <2>2. CASE i # n
    <3>1. i \in 2 .. n - 1
      BY <1>1, <2>2
    <3> QED
      BY <1>1, <1>2, <3>1, GaplessBelow DEF ListFrameInv
  <2> QED
    BY <2>1, <2>2
<1>5. Gapless'
  <2>1. Len(lists') = list_base' + NLists[Top'.scr] + OpenLists'
    BY <1>1, <1>3
  <2>2. n + 1 - 1 = n
    BY <1>1
  <2> QED
    BY <1>2, <1>4, <2>1, <2>2 DEF Gapless
<1> QED
  BY <1>0, <1>3, <1>5 DEF ListFrameInv, UngivenAreEmpty, ThrowsFromRow

\* On return they are the open list frame again.
LEMMA ReturnKeepsListFrames ==
  ASSUME SitesFresh, FrameInv, ListFrameInv, Return
  PROVE  ListFrameInv'
<1> DEFINE m == Len(frames) - 1
<1>0. frames # <<>> /\ ~throwing' /\ Top.pc = "row" /\ TypeOK /\ Len(frames) > 1
  BY DEF Return, InRow, Running, FrameInv
<1>1. Caller.site \in AllSites \union {NoSite} /\ Caller.site.nlists = NLists[Top.scr] /\ NLists[Top.scr] \in Nat
  BY <1>0, CallerFacts, TopFacts
<1>2. "returned" \in Phases
  BY DEF Phases
<1>3. /\ Kept(m) /\ Len(frames') = m /\ Top'.scr = Caller.scr /\ Top'.pc = "returned" /\ Top'.site = Caller.site
      /\ list_base' = Top.old.list /\ lists' = lists /\ Len(lists) \in Nat
  BY <1>0, <1>1, <1>2, KeptByDrop, TopFacts DEF Return
<1>4. OpenLists = 0 /\ OpenLists' = NLists[Top.scr]
  BY <1>0, <1>1, <1>3 DEF OpenLists
<1>5. Gapless'
  <2>1. PICK q, r : q = NLists[Top.scr] /\ r = Len(lists)
    OBVIOUS
  <2>2. q \in Nat /\ r \in Nat /\ OpenLists' = q /\ Len(lists) = r /\ Len(lists') = r - NLists[Top.scr] + q
    BY <1>1, <1>3, <1>4, <2>1
  <2> QED
    BY <1>0, <1>3, <1>4, <2>2, GaplessDropped DEF ListFrameInv
<1> QED
  BY <1>0, <1>3, <1>5 DEF ListFrameInv, UngivenAreEmpty, ThrowsFromRow

\* An exception finds no list frame of the innermost script open.
LEMMA ThrowsWithNoneOpen ==
  ASSUME ListFrameInv, throwing
  PROVE  OpenLists = 0
  BY DEF ListFrameInv, ThrowsFromRow, OpenLists

\* The catch block drops the list frame its site opened.
LEMMA UnwindKeepsListFrames ==
  ASSUME SitesFresh, FrameInv, ListFrameInv, UnwindCallee
  PROVE  ListFrameInv'
<1> DEFINE m == Len(frames) - 1
           c == Caller.site
<1>0. /\ Len(frames) > 1 /\ TypeOK /\ OpenLists = 0 /\ frames # <<>>
  BY ThrowsWithNoneOpen, CallerFacts DEF UnwindCallee, FrameInv
<1>1. /\ c \in Sites[Caller.scr] /\ c \in AllSites \union {NoSite} /\ c.nlists = NLists[Top.scr]
      /\ NLists[Top.scr] \in Nat /\ Caller.scr \in Scripts /\ Top.old.list \in Nat /\ NLists[Caller.scr] \in Nat
      /\ list_base \in Nat /\ Len(lists) \in Nat /\ lists \in Seq(Seq(Vals))
      /\ Top.old.list + NLists[Caller.scr] <= list_base
  BY <1>0, CallerFacts, TopFacts
<1>2. list_base + NLists[Top.scr] <= Len(lists)
  BY <1>0, OwnLists
<1>3. /\ frames' = FramesAt(m, "row", NoSite) /\ list_base' = Top.old.list
      /\ frame_base' = Top.old.frame /\ arg_base' = Top.old.arg /\ saved_base' = Top.old.saved
      /\ lists' = DropListFrame(SwapBound(lists, c, Top.old.list), c)
  BY DEF UnwindCallee, Caught, Caller
<1>4. "row" \in Phases /\ NoSite \in AllSites \union {NoSite}
  BY DEF Phases
<1>5. Kept(m) /\ Len(frames') = m /\ Top'.scr = Caller.scr /\ Top'.pc = "row"
  BY <1>0, <1>3, <1>4, KeptByDrop
<1>6. Len(lists') = Len(lists) - c.nlists
  <2>1. Top.old.list + NLists[Caller.scr] + c.nlists <= Len(lists)
    BY <1>1, <1>2
  <2> QED
    BY <1>1, <1>3, <2>1, CaughtLists
<1>7. OpenLists' = 0
  BY <1>5 DEF OpenLists
<1>8. Gapless'
  <2>1. PICK q, r : q = 0 /\ r = Len(lists)
    OBVIOUS
  <2>2. q \in Nat /\ r \in Nat /\ OpenLists' = q /\ Len(lists) = r /\ Len(lists') = r - NLists[Top.scr] + q
    BY <1>1, <1>6, <1>7, <2>1
  <2> QED
    BY <1>0, <1>3, <1>5, <2>2, GaplessDropped DEF ListFrameInv
<1> QED
  BY <1>5, <1>8 DEF ListFrameInv, UngivenAreEmpty, ThrowsFromRow

\* ListFrameInv is inductive, given FrameInv, unless the depth limit is met
\* with a list frame open.
LEMMA NextKeepsListFrames ==
  ASSUME SitesFresh, FrameInv, ListFrameInv, TooDeepHarmless, [Next]_vars
  PROVE  ListFrameInv'
<1>1. CASE Host
  <2>1. frames = <<>> /\ ~throwing /\ throwing' = throwing
    BY <1>1 DEF Host, CreateLists, HostSetArg, Clear, Process, FrameInv, ContextReusable
  <2>2. ASSUME NEW s \in Roots, Process(s)
        PROVE  Len(frames') = 1 /\ Top'.pc = "row" /\ frames' # <<>>
    BY <2>2 DEF Process, Top
  <2>3. frames' = frames \/ \E s \in Roots : Process(s)
    BY <1>1 DEF Host, CreateLists, HostSetArg, Clear
  <2> QED
    BY <2>1, <2>2, <2>3, OneKeepsListFrames
<1>2. CASE Row
  <2>1. frames # <<>> /\ Top.pc = "row" /\ UNCHANGED <<frames, bases>>
    BY <1>2 DEF Row, PushOperand, PopOperand, SetArgument, SetSaved, AddTo, ClearList, Throw, InRow, Running
  <2>2. Len(lists') = Len(lists)
    <3>1. ASSUME NEW k, NEW x, lists' = [lists EXCEPT ![k] = x]
          PROVE  Len(lists') = Len(lists)
      <4>1. lists \in Seq(Seq(Vals))
        BY DEF FrameInv, TypeOK
      <4> QED
        BY <3>1, <4>1, LenProperties
    <3>2. lists' = lists \/ \E k, x : lists' = [lists EXCEPT ![k] = x]
      BY <1>2 DEF Row, PushOperand, PopOperand, SetArgument, SetSaved, AddTo, ClearList, Throw, stores
    <3> QED
      BY <3>1, <3>2
  <2> QED
    BY <2>1, <2>2, RowKeepsListFrames
<1>3. CASE CallSite
  <2>1. CASE ExecuteTooDeep
    <3>1. /\ UNCHANGED <<frames, lists, bases>> /\ Top.pc = "swapped" /\ Top.site.nlists = 0
      BY <2>1 DEF ExecuteTooDeep, TooDeepHarmless, InPhase, stores
    <3> QED
      BY <3>1, ThrowKeepsListFrames
  <2>2. ASSUME NEW s \in Scripts, NEW c \in Sites[s], ListFrameEnter(c)
        PROVE  ListFrameInv'
    BY <2>2, EnterKeepsListFrames
  <2> QED
    BY <1>3, <2>1, <2>2, SwapInKeepsListFrames, ExecuteKeepsListFrames, ReturnKeepsListFrames, RestKeepsListFrames
    DEF CallSite
<1>4. CASE Finish \/ UnwindToHost
  BY <1>4, OneKeepsListFrames DEF Finish, UnwindToHost, InRow, Running
<1>5. CASE UnwindCallee
  BY <1>5, UnwindKeepsListFrames
<1>6. CASE UNCHANGED vars
  BY <1>6 DEF vars, stores, bases, ListFrameInv, Gapless, UngivenAreEmpty, ThrowsFromRow, ListBase, Innermost, Top,
     OpenLists
<1> QED
  BY <1>1, <1>2, <1>3, <1>4, <1>5, <1>6 DEF Next, Unwind

\* At first there is none.
LEMMA InitListFrames == Init => ListFrameInv
<1> SUFFICES ASSUME Init
             PROVE  ListFrameInv
  OBVIOUS
<1>1. frames = <<>> /\ ~throwing
  BY DEF Init
<1>2. Len(frames) = 0
  BY <1>1
<1>3. Gapless
  <2>1. ~(Len(frames) > 1)
    BY <1>2
  <2>2. 2 .. Len(frames) - 1 = {}
    BY <1>2
  <2> QED
    BY <2>1, <2>2 DEF Gapless
<1> QED
  BY <1>1, <1>3 DEF ListFrameInv, UngivenAreEmpty, ThrowsFromRow

(***************************************************************************)
(* THEOREM.  Unless the depth limit is met with a list frame open, the     *)
(* list frames above the host's lists lie gapless to the end of the vector *)
(* whenever a script runs: the offsets from that end, by which the swaps   *)
(* find the callee's slots, name them.  A callee finds the lists it was    *)
(* not given empty, and an exception leaves a script with none open.       *)
(***************************************************************************)
THEOREM ListFramesGapless == ASSUME SitesFresh PROVE Spec /\ []TooDeepHarmless => []ListFrameInv
<1>1. FrameInv /\ ListFrameInv /\ TooDeepHarmless /\ [Next]_vars => ListFrameInv'
  BY NextKeepsListFrames
<1> QED
  BY <1>1, InitListFrames, FramesLinked, PTL DEF Spec

-----------------------------------------------------------------------------
(* The frames an exception leaves *)

\* The exception that reaches the host leaves its lists as they are.
LEMMA ToHostUnseen ==
  ASSUME SitesFresh, FrameInv, FrameInv', ListFrameInv, UnwindToHost
  PROVE  UNCHANGED <<Env, HostContents, Result>>
<1>1. throwing /\ Len(frames) = 1 /\ frames' = <<>> /\ UNCHANGED <<lists, return_value>>
  BY DEF UnwindToHost, stores
<1>2. HostContents = lists /\ Result = return_value
  BY <1>1, OneLevel DEF ListFrameInv, ThrowsFromRow, NothingOpen
<1>3. HostView'
  <2>1. AtRest'
    BY <1>1 DEF AtRest
  <2> QED
    BY <2>1, HostNext
<1>4. Env = <<>>
  BY <1>1 DEF Env
<1> QED
  BY <1>1, <1>2, <1>3, <1>4 DEF HostView

\* The level of a frame that was the innermost but one.
LEMMA TopLevelNext ==
  ASSUME NEW m, m = Len(frames'), Top'.pc \notin Lent
  PROVE  Level(m)' = LevelOf(Top'.scr, list_base', list_base' + NLists[Top'.scr], <<>>)
  BY DEF Level, Innermost, LevelOf, ListBase, Top

\* The same with its bound lists swapped out.
LEMMA TopLentNext ==
  ASSUME NEW m, m = Len(frames'), Top'.pc \in Lent
  PROVE  Level(m)' = LevelOf(Top'.scr, list_base', Len(lists') - Top'.site.nlists, Top'.site.bind)
  BY DEF Level, Innermost, LevelOf, ListBase, Top

\* The levels below the innermost.
Lower(lv) == [i \in 1 .. Len(lv) - 1 |-> lv[i]]

\* The levels without the innermost one.
LEMMA LowerLevels ==
  ASSUME NEW lv, Stacked(lv), NEW L \in Nat, Reaches(lv, L), NEW m \in Nat, Len(lv) = m + 1
  PROVE  /\ Stacked(Lower(lv)) /\ Reaches(Lower(lv), L) /\ Len(Lower(lv)) = m
         /\ \A i \in 1 .. m : Lower(lv)[i] = lv[i]
<1>1. Lower(lv) = [i \in 1 .. m |-> lv[i]]
  BY DEF Lower
<1>2. Len(Lower(lv)) = m /\ DOMAIN Lower(lv) = 1 .. m
  <2>1. Lower(lv) \in [1 .. m -> {lv[i] : i \in 1 .. m}]
    BY <1>1
  <2> QED
    BY <2>1, FunctionIsSeq
<1>3. \A i \in 1 .. m : Lower(lv)[i] = lv[i]
  BY <1>1
<1>4. \A i \in 1 .. m : i \in 1 .. Len(lv) /\ i - 1 \in Nat
  OBVIOUS
<1>5. GoodLevels(Lower(lv)) /\ Reaches(Lower(lv), L)
  BY <1>2, <1>3, <1>4 DEF Stacked, GoodLevels, Reaches
<1>6. Stacked(Lower(lv))
  <2>1. ASSUME NEW i \in 2 .. m
        PROVE  i \in 2 .. Len(lv) /\ i \in 1 .. m /\ i - 1 \in 1 .. m
    OBVIOUS
  <2>2. ASSUME NEW i \in 1 .. m - 1
        PROVE  i \in 1 .. Len(lv) - 1 /\ i \in 1 .. m /\ i + 1 \in 1 .. m
    OBVIOUS
  <2> QED
    BY <1>2, <1>3, <1>5, <2>1, <2>2 DEF Stacked
<1> QED
  BY <1>2, <1>3, <1>5, <1>6

\* Nor does a catch block change what the abstract run shows: its swaps undo its site's.
LEMMA CalleeUnseen ==
  ASSUME SitesFresh, FrameInv, FrameInv', ListFrameInv, UnwindCallee
  PROVE  UNCHANGED <<Env, HostContents, Result>>
<1> PICK n, m, L : n = Len(frames) /\ m = n - 1 /\ L = Len(lists)
  OBVIOUS
<1> DEFINE c == Caller.site
           s == Caller.scr
           base == Top.old.list
<1>0. /\ n > 1 /\ Len(frames) > 1 /\ TypeOK /\ frames # <<>> /\ NothingOpen /\ throwing /\ throwing'
  BY CallerFacts DEF UnwindCallee, FrameInv, ListFrameInv, ThrowsFromRow, NothingOpen
<1>1. /\ c \in Sites[s] /\ c \in AllSites \union {NoSite} /\ c.nlists = NLists[Top.scr]
      /\ NLists[Top.scr] \in Nat /\ s \in Scripts /\ base \in Nat /\ NLists[s] \in Nat
      /\ list_base \in Nat /\ L \in Nat /\ base + NLists[s] <= list_base /\ n \in Nat
  BY <1>0, CallerFacts, TopFacts
<1>2. L = list_base + c.nlists
  <2>1. OpenLists = 0
    BY <1>0, PlainTop
  <2>2. L = list_base + NLists[Top.scr] + OpenLists
    BY <1>0 DEF ListFrameInv, Gapless
  <2> QED
    BY <1>1, <2>1, <2>2
<1>3. /\ frames' = FramesAt(m, "row", NoSite) /\ list_base' = base
      /\ frame_base' = Top.old.frame /\ arg_base' = Top.old.arg /\ saved_base' = Top.old.saved
      /\ lists' = DropListFrame(SwapBound(lists, c, base), c) /\ return_value' = Top.old.ret
  BY DEF UnwindCallee, Caught, Caller
<1>4. Kept(m) /\ Len(frames') = m /\ Top'.scr = s /\ Top'.pc = "row"
  <2>1. "row" \in Phases /\ NoSite \in AllSites \union {NoSite}
    BY DEF Phases
  <2> QED
    BY <1>0, <1>3, <2>1, KeptByDrop
<1>5. m \in Nat /\ m \in 1 .. m /\ m \in 1 .. n /\ n \in 1 .. n /\ m # n /\ m + 1 = n /\ m > 0
  BY <1>0, <1>1
<1>6. Shape /\ Shape' /\ Mapped'
  BY LevelsShape, ShapeNext, MappedNext
<1>7. /\ Stacked(Levels) /\ Reaches(Levels, L) /\ Len(Levels) = n /\ Len(Levels') = m
      /\ Levels[m] = Level(m) /\ Levels[n] = Level(n) /\ Levels'[m] = Level(m)'
  <2>1. Len(Levels) = n /\ Stacked(Levels) /\ Reaches(Levels, L)
    BY <1>6 DEF Shape
  <2>2. \A i \in 1 .. n : Levels[i] = Level(i)
    BY <1>6 DEF Shape
  <2>3. Len(Levels') = m /\ Levels'[m] = Level(m)'
    BY <1>4, <1>5, <1>6 DEF Shape
  <2> QED
    BY <1>5, <2>1, <2>2, <2>3
<1>8. DOMAIN Levels[n].bind = {}
  BY <1>0, <1>7, PlainTop
<1>9. DOMAIN Levels'[m].bind = {}
  <2>1. Level(m)' = LevelOf(Top'.scr, list_base', list_base' + NLists[Top'.scr], <<>>)
    BY <1>4, TopLevelNext DEF Lent
  <2> QED
    BY <1>7, <2>1 DEF LevelOf
<1>10. Levels[m] = LevelOf(s, base, L - c.nlists, c.bind)
  <2>1. Level(m) = LevelOf(frames[m].scr, ListBase(m), ListBase(m + 1), frames[m].site.bind)
    BY <1>5, WaitingLevel
  <2>2. ListBase(m) = base /\ ListBase(m + 1) = list_base
    BY <1>5 DEF ListBase, Innermost, Top
  <2>3. frames[m] = Caller /\ list_base = L - c.nlists
    BY <1>1, <1>2 DEF Caller
  <2> QED
    BY <1>7, <2>1, <2>2, <2>3
<1>11. Len(lists') = list_base /\ \A k \in 1 .. list_base : AtHome'[k] = AtHome[k]
  <2>1. PICK mid, t, d, b : mid = Lower(Levels) /\ t = s /\ d = c /\ b = base
    OBVIOUS
  <2>2. /\ Stacked(mid) /\ Reaches(mid, L) /\ Len(mid) = m /\ \A i \in 1 .. m : mid[i] = Levels[i]
    <3>1. PICK lv : lv = Levels
      OBVIOUS
    <3>2. Stacked(lv) /\ Reaches(lv, L) /\ Len(lv) = m + 1 /\ m \in Nat /\ L \in Nat
      BY <1>1, <1>5, <1>7, <3>1
    <3>3. /\ Stacked(Lower(lv)) /\ Reaches(Lower(lv), L) /\ Len(Lower(lv)) = m
          /\ \A i \in 1 .. m : Lower(lv)[i] = lv[i]
      BY ONLY <3>2, LowerLevels
    <3> QED
      BY <2>1, <3>1, <3>3
  <2>3. \A k \in Nat : At(mid, k) = At(Levels, k)
    <3>1. Len(Levels) = Len(mid) + 1 /\ DOMAIN Levels[Len(Levels)].bind = {}
      BY <1>5, <1>7, <1>8, <2>2
    <3>2. \A j \in 1 .. Len(mid) : Levels[j] = mid[j]
      BY <2>2
    <3> QED
      BY <1>7, <2>2, <3>1, <3>2, HomePush
  <2>4. SameBelow(Levels', mid)
    <3>1. \A i \in 1 .. m - 1 : Levels'[i] = Levels[i]
      BY <1>4, <1>5, KeptLevels
    <3> QED
      BY <1>5, <1>7, <2>2, <3>1 DEF SameBelow
  <2>5. b + NLists[t] + d.nlists <= Len(lists)
    BY <1>1, <1>2, <2>1
  <2>6. /\ Stacked(mid) /\ Reaches(mid, Len(lists)) /\ Len(mid) > 0 /\ \A k \in Nat : At(mid, k) = At(Levels, k)
        /\ SameBelow(Levels', mid) /\ DOMAIN Levels'[Len(mid)].bind = {}
        /\ t \in Scripts /\ d \in Sites[t] /\ b \in Nat /\ b + NLists[t] + d.nlists <= Len(lists)
        /\ mid[Len(mid)] = LevelOf(t, b, Len(lists) - d.nlists, d.bind)
        /\ lists' = DropListFrame(SwapBound(lists, d, b), d)
    BY <1>1, <1>3, <1>5, <1>9, <1>10, <2>1, <2>2, <2>3, <2>4, <2>5
  <2>7. /\ Len(lists') = Len(lists) - d.nlists
        /\ \A k \in 1 .. Len(lists) - d.nlists : AtHome'[k] = AtHome[k]
    BY <2>6, Replayed
  <2>8. Len(lists) - d.nlists = list_base
    BY <1>1, <1>2, <2>1
  <2> QED
    BY <2>7, <2>8
<1>12. HostLists' = HostLists /\ Result' = Result
  <2>1. CASE m = 1
    <3>1. HostLists' = Len(lists')
      BY <1>0, <1>4, <2>1 DEF HostLists, ListFrameOpen, Phases
    <3>2. HostLists = list_base
      <4>1. Len(frames) = 2
        BY <1>5, <2>1
      <4> QED
        BY <4>1 DEF HostLists, ListBase, Innermost
    <3>3. Result' = return_value' /\ Result = frames[2].old.ret /\ Top = frames[2]
      <4>1. Len(frames) = 2 /\ ~(Len(frames') > 1)
        BY <1>4, <1>5, <2>1
      <4> QED
        BY <4>1 DEF Result, Top
    <3> QED
      BY <1>3, <1>11, <3>1, <3>2, <3>3
  <2>2. CASE m # 1
    <3>1. Len(frames) > 1 /\ Len(frames') > 1 /\ 2 \in 1 .. m
      BY <1>0, <1>4, <1>5, <2>2
    <3>2. ListBase(2)' = ListBase(2) /\ frames'[2].old = frames[2].old
      BY <1>4, <3>1 DEF Kept
    <3> QED
      BY <3>1, <3>2 DEF HostLists, Result
  <2> QED
    BY <2>1, <2>2
<1>13. HostContents' = HostContents
  <2>1. HostLists \in 0 .. list_base
    BY <1>6, <1>11, <1>12 DEF Mapped
  <2>2. \A k \in 1 .. HostLists : AtHome'[k] = AtHome[k]
    BY <1>1, <1>11, <2>1
  <2> QED
    BY <1>12, <2>2, KeptHost
<1> QED
  BY <1>0, <1>12, <1>13 DEF Env

-----------------------------------------------------------------------------
(* Entering a callee *)

\* The frames around a step of execute_script.
LEMMA EntersFrame ==
  ASSUME SitesFresh, FrameInv, ExecuteScript, NEW n, n = Len(frames), NEW c, c = Top.site, NEW sub, sub = c.sub
  PROVE  /\ n \in Nat /\ n \in 1 .. n /\ n > 0 /\ n + 1 \in 1 .. n + 1 /\ n \in 1 .. n + 1 /\ n # n + 1
         /\ frames # <<>> /\ ~throwing /\ ~throwing' /\ Top.pc = "swapped" /\ frames[n] = Top
         /\ Kept(n) /\ Len(frames') = n + 1
         /\ frames'[n].pc = "called" /\ frames'[n].site = c /\ frames'[n].scr = Top.scr
         /\ frames'[n + 1] = [scr |-> sub, pc |-> "row", site |-> NoSite, old |-> Old]
         /\ Top'.pc = "row" /\ Top'.scr = sub
         /\ c \in Sites[Top.scr] /\ sub \in Scripts /\ c.nlists = NLists[sub] /\ NLists[sub] \in Nat
         /\ Top.scr \in Scripts
         /\ list_base \in Nat /\ Len(lists) \in Nat /\ list_base + NLists[Top.scr] + NLists[sub] <= Len(lists)
         /\ list_base' = Len(lists) - NLists[sub] /\ lists' = lists
         /\ ListBase(n)' = list_base /\ ListBase(n + 1)' = list_base'
<1>0. frames # <<>> /\ ~throwing /\ ~throwing' /\ Top.pc = "swapped" /\ frames[n] = Top
  BY DEF ExecuteScript, InPhase, Running, Top
<1>1. /\ n \in Nat /\ n >= 1 /\ c \in Sites[Top.scr] /\ c \in AllSites \union {NoSite} /\ sub \in Scripts
      /\ c.nlists = NLists[sub] /\ NLists[sub] \in Nat /\ Top.scr \in Scripts /\ TypeOK
      /\ list_base \in Nat /\ Len(lists) \in Nat /\ list_base + NLists[Top.scr] + NLists[sub] <= Len(lists)
  BY <1>0, OpenSite, TopFacts
<1>2. n \in 1 .. n /\ n > 0 /\ n + 1 \in 1 .. n + 1 /\ n \in 1 .. n + 1 /\ n # n + 1
  BY <1>1
<1>3. frames' = Append(FramesAt(Len(frames), "called", c), [scr |-> sub, pc |-> "row", site |-> NoSite, old |-> Old])
  BY DEF ExecuteScript
<1>4. /\ Kept(n) /\ Len(frames') = n + 1 /\ frames'[n].pc = "called" /\ frames'[n].site = c
      /\ frames'[n + 1] = [scr |-> sub, pc |-> "row", site |-> NoSite, old |-> Old]
  BY <1>0, <1>1, <1>3, KeptByExecute
<1>5. frames'[n].scr = Top.scr
  BY <1>0, <1>2, <1>4 DEF Kept
<1>6. Top'.pc = "row" /\ Top'.scr = sub
  <2>1. Top' = frames'[n + 1]
    BY <1>4 DEF Top
  <2> QED
    BY <1>4, <2>1
<1>7. list_base' = Len(lists) - NLists[sub] /\ lists' = lists
  BY DEF ExecuteScript, CalleeListBase
<1>8. ListBase(n)' = list_base /\ ListBase(n + 1)' = list_base'
  <2>1. ListBase(n)' = ListBase(n)
    BY <1>2, <1>4 DEF Kept
  <2>2. ListBase(n) = list_base
    BY DEF ListBase, Innermost
  <2>3. ListBase(n + 1)' = list_base'
    BY <1>4 DEF ListBase, Innermost
  <2> QED
    BY <2>1, <2>2, <2>3
<1> QED
  BY <1>0, <1>1, <1>2, <1>4, <1>5, <1>6, <1>7, <1>8

\* The callee is one more level, which has lent nothing.
LEMMA EntersLevel ==
  ASSUME SitesFresh, FrameInv, FrameInv', ExecuteScript,
         NEW n, n = Len(frames), NEW c, c = Top.site, NEW sub, sub = c.sub
  PROVE  /\ Len(Levels) = n /\ Len(Levels') = n + 1 /\ Stacked(Levels) /\ Stacked(Levels')
         /\ \A i \in 1 .. n : Levels'[i] = Levels[i]
         /\ Levels'[n].bind = c.bind
         /\ Levels'[n + 1] = LevelOf(sub, list_base', list_base' + NLists[sub], <<>>)
         /\ \A k \in Nat : At(Levels', k) = At(Levels, k)
         /\ AtHome' = AtHome
<1>1. /\ n \in Nat /\ n \in 1 .. n /\ n + 1 \in 1 .. n + 1 /\ n \in 1 .. n + 1 /\ n # n + 1
      /\ Top.pc = "swapped" /\ Kept(n) /\ Len(frames') = n + 1
      /\ frames'[n].pc = "called" /\ frames'[n].site = c /\ frames'[n].scr = Top.scr
      /\ Top'.pc = "row" /\ Top'.scr = sub
      /\ c.nlists = NLists[sub] /\ list_base' = Len(lists) - NLists[sub] /\ lists' = lists
      /\ ListBase(n)' = list_base /\ ListBase(n + 1)' = list_base'
  BY EntersFrame, ZenonT(60)
<1>2. Shape /\ Shape'
  BY LevelsShape, ShapeNext
<1>3. /\ Len(Levels) = n /\ Len(Levels') = n + 1 /\ Stacked(Levels) /\ Stacked(Levels')
      /\ Levels[n] = Level(n) /\ Levels'[n] = Level(n)' /\ Levels'[n + 1] = Level(n + 1)'
  <2>1. Len(Levels) = n /\ Levels[n] = Level(n) /\ Stacked(Levels)
    BY <1>1, <1>2 DEF Shape
  <2>2. Len(Levels') = n + 1 /\ Stacked(Levels') /\ \A i \in 1 .. n + 1 : Levels'[i] = Level(i)'
    BY <1>1, <1>2 DEF Shape
  <2> QED
    BY <1>1, <2>1, <2>2
<1>4. Levels[n] = LevelOf(Top.scr, list_base, Len(lists) - c.nlists, c.bind)
  BY <1>1, <1>3, LentLevel DEF Lent
<1>5. Levels'[n] = LevelOf(Top.scr, list_base, list_base', c.bind)
  <2>1. ~Innermost(n)'
    BY <1>1 DEF Innermost
  <2>2. "called" \in Lent
    BY DEF Lent
  <2> QED
    BY <1>1, <1>3, <2>1, <2>2 DEF Level, LevelOf
<1>6. Levels'[n + 1] = LevelOf(sub, list_base', list_base' + NLists[sub], <<>>)
  <2>1. PICK m : m = n + 1
    OBVIOUS
  <2>2. Level(m)' = LevelOf(Top'.scr, list_base', list_base' + NLists[Top'.scr], <<>>)
    BY <1>1, <2>1, TopLevelNext DEF Lent
  <2> QED
    BY <1>1, <1>3, <2>1, <2>2
<1>7. \A i \in 1 .. n : Levels'[i] = Levels[i]
  <2>1. \A i \in 1 .. n - 1 : Levels'[i] = Levels[i]
    BY <1>1, KeptLevels
  <2>2. Levels'[n] = Levels[n]
    BY <1>1, <1>4, <1>5
  <2> QED
    BY <1>1, <2>1, <2>2
<1>8. Levels'[n].bind = c.bind
  BY <1>5 DEF LevelOf
<1>9. \A k \in Nat : At(Levels', k) = At(Levels, k)
  <2>1. PICK lv, lw : lv = Levels /\ lw = Levels'
    OBVIOUS
  <2>2. Stacked(lv) /\ Stacked(lw) /\ Len(lw) = Len(lv) + 1 /\ \A j \in 1 .. Len(lv) : lw[j] = lv[j]
    BY <1>3, <1>7, <2>1
  <2>3. DOMAIN lw[Len(lw)].bind = {}
    BY <1>3, <1>6, <2>1 DEF LevelOf
  <2> QED
    BY <2>1, <2>2, <2>3, HomePush
<1>10. AtHome' = AtHome
  <2>1. DOMAIN lists = 1 .. Len(lists) /\ Len(lists) \in Nat
    BY <1>2 DEF Shape
  <2>2. AtHome = [k \in DOMAIN lists |-> lists[At(Levels, k)]] /\ AtHome' = [k \in DOMAIN lists |-> lists[At(Levels', k)]]
    BY <1>1, HomeIs DEF AtHome
  <2>3. \A k \in DOMAIN lists : At(Levels', k) = At(Levels, k)
    BY <1>9, <2>1
  <2> QED
    BY <2>2, <2>3
<1> QED
  BY <1>3, <1>6, <1>7, <1>8, <1>9, <1>10

\* It refers to the lists it was given, and to lists of its own ...
LEMMA EntersRefs ==
  ASSUME SitesFresh, FrameInv, FrameInv', ExecuteScript,
         NEW n, n = Len(frames), NEW c, c = Top.site, NEW sub, sub = c.sub
  PROVE  Refs(Levels')[n + 1]
           = [l \in Slots(NLists[sub]) |->
                IF l \in DOMAIN c.bind THEN Refs(Levels)[n][c.bind[l]] ELSE <<n + 1, l>>]
<1>1. n \in Nat /\ n \in 1 .. n /\ n + 1 \in 1 .. n + 1 /\ Kept(n) /\ (n + 1) - 1 = n /\ n + 1 # 1
  <2>1. n \in Nat /\ n \in 1 .. n /\ n > 0 /\ Kept(n)
    BY EntersFrame
  <2> QED
    BY <2>1
<1>2. Len(Levels') = n + 1 /\ Levels'[n].bind = c.bind /\ Levels'[n + 1].lists = NLists[sub]
  <2>1. /\ Len(Levels') = n + 1 /\ Levels'[n].bind = c.bind
        /\ Levels'[n + 1] = LevelOf(sub, list_base', list_base' + NLists[sub], <<>>)
    BY EntersLevel
  <2> QED
    BY <2>1 DEF LevelOf
<1>3. Refs(Levels')[n] = Refs(Levels)[n]
  BY <1>1, KeptRefs
<1>4. Refs(Levels')[n + 1] = RefsFrom(Levels', n + 1, Refs(Levels')[n])
  <2>1. PICK i, lv : i = n + 1 /\ lv = Levels'
    OBVIOUS
  <2>2. i \in 1 .. Len(lv) /\ Len(lv) \in Nat /\ i - 1 = n
    BY <1>1, <1>2, <2>1
  <2>3. Refs(lv)[i] = RefsFrom(lv, i, Refs(lv)[i - 1])
    BY <2>2, RefsFacts
  <2> QED
    BY <2>1, <2>2, <2>3
<1> QED
  BY <1>1, <1>2, <1>3, <1>4 DEF RefsFrom

\* ... which are empty.
LEMMA EntersOwn ==
  ASSUME SitesFresh, FrameInv, FrameInv', ListFrameInv, ExecuteScript,
         NEW n, n = Len(frames), NEW c, c = Top.site, NEW sub, sub = c.sub
  PROVE  OwnOf(n + 1)' = [l \in Slots(NLists[sub]) \ DOMAIN c.bind |-> <<>>]
<1>1. /\ n \in Nat /\ n > 0 /\ n \in 1 .. n /\ n + 1 \in 1 .. n + 1 /\ Top.pc = "swapped" /\ frames # <<>>
      /\ Len(frames') = n + 1 /\ c.nlists = NLists[sub] /\ NLists[sub] \in Nat
      /\ list_base' = Len(lists) - NLists[sub] /\ lists' = lists /\ list_base \in Nat /\ Len(lists) \in Nat
      /\ list_base + NLists[Top.scr] + NLists[sub] <= Len(lists)
      /\ Top.scr \in Scripts
  BY EntersFrame, ZenonT(60)
<1>2. /\ Len(Levels') = n + 1 /\ Stacked(Levels') /\ Levels'[n].bind = c.bind
      /\ Levels'[n + 1] = LevelOf(sub, list_base', list_base' + NLists[sub], <<>>)
  BY EntersLevel
<1>3. Levels'[n + 1].lists = NLists[sub] /\ Levels'[n + 1].base = list_base' /\ DOMAIN Levels'[n + 1].bind = {}
  BY <1>2 DEF LevelOf
<1>4. OwnOf(n + 1)' = [l \in Slots(NLists[sub]) \ DOMAIN c.bind |-> AtHome'[list_base' + l + 1]]
  <2>1. PICK i : i = n + 1
    OBVIOUS
  <2>2. OwnOf(i)' = OwnIn(Levels', AtHome', i)
    BY <1>1, <2>1, MappedNext DEF Mapped
  <2>3. i # 1 /\ i - 1 = n
    BY <1>1, <2>1
  <2> QED
    BY <1>2, <1>3, <2>1, <2>2, <2>3 DEF OwnIn
<1>5. ASSUME NEW l \in Slots(NLists[sub]) \ DOMAIN c.bind
      PROVE  AtHome'[list_base' + l + 1] = <<>>
  <2>1. PICK lv, i, p, L, q : /\ lv = Levels' /\ i = n + 1 /\ p = list_base' + l + 1
                              /\ L = Len(lists) /\ q = NLists[sub]
    OBVIOUS
  <2>2. lists[L - q + l + 1] = <<>>
    BY <1>1, <2>1 DEF ListFrameInv, UngivenAreEmpty
  <2>3. p = L - q + l + 1 /\ L \in Nat /\ q \in Nat /\ q <= L /\ l \in Slots(q)
    <3>1. p = L - q + l + 1 /\ L \in Nat /\ q \in Nat /\ l \in Slots(q)
      BY <1>1, <2>1
    <3>2. PICK b : b = NLists[Top.scr]
      OBVIOUS
    <3>3. b \in Nat /\ list_base \in Nat /\ list_base + b + q <= L
      BY <1>1, <2>1, <3>2, TopFacts
    <3>4. q <= L
      BY <3>1, <3>3, ThreeParts
    <3> QED
      BY <3>1, <3>4
  <2>4. p \in 1 .. L /\ p \in Nat
    BY <2>3, SlotInRange
  <2>5. /\ Stacked(lv) /\ i \in 2 .. Len(lv) /\ i - 1 = n /\ Len(lv) = n + 1
        /\ l \in Slots(lv[i].lists) \ DOMAIN lv[i - 1].bind /\ p = lv[i].base + l + 1
    <3>1. Len(lv) = n + 1 /\ i = n + 1
      BY <1>2, <2>1
    <3>2. i \in 2 .. Len(lv) /\ i - 1 = n
      BY <1>1, <3>1
    <3>3. Stacked(lv) /\ lv[n].bind = c.bind /\ lv[i].lists = q /\ lv[i].base = list_base'
      BY <1>2, <1>3, <2>1
    <3>4. l \in Slots(q) \ DOMAIN c.bind
      BY <2>1
    <3> QED
      BY <2>1, <3>1, <3>2, <3>3, <3>4
  <2>6. Beyond(lv, n, p)
    BY <2>5, OwnIsBeyond
  <2>7. GoodLevels(lv) /\ Len(lv) \in Nat /\ n \in 0 .. Len(lv)
    BY <1>1, <2>5 DEF Stacked
  <2>8. Place(lv)[n][p] = p
    BY <2>4, <2>6, <2>7, BeyondStays
  <2>9. Place(lv)[n + 1][p] = Place(lv)[n][p]
    <3>1. Len(lv) > 0 /\ DOMAIN lv[Len(lv)].bind = {} /\ Len(lv) = n + 1 /\ Len(lv) - 1 = n
      BY <1>1, <1>3, <2>1, <2>5
    <3>2. Place(lv)[Len(lv)][p] = Place(lv)[Len(lv) - 1][p]
      BY <2>4, <2>7, <3>1, UnlentStays
    <3> QED
      BY <3>1, <3>2
  <2>10. At(lv, p) = p
    BY <2>5, <2>8, <2>9 DEF At
  <2>11. AtHome' = [k \in DOMAIN lists |-> lists[At(lv, k)]]
    BY <1>1, <2>1, HomeIs DEF AtHome
  <2>12. DOMAIN lists = 1 .. L
    BY <2>1, LevelsShape DEF Shape
  <2>13. AtHome'[p] = lists[p]
    BY <2>4, <2>10, <2>11, <2>12
  <2> QED
    BY <2>1, <2>2, <2>3, <2>13
<1> QED
  BY <1>4, <1>5

PassedOn(n, rest, q) == \A k \in Slots(q) : OpsOf(n)[rest + k + 1] = stack[CalleeFrameBase + k + 1]

\* The caller gives up the operands that are the callee's arguments.
LEMMA EntersOperands ==
  ASSUME SitesFresh, FrameInv, ExecuteScript, NEW n, n = Len(frames), NEW c, c = Top.site, NEW sub, sub = c.sub,
         NEW rest, rest = Len(OpsOf(n)) - NArgs[sub]
  PROVE  /\ rest \in Nat /\ rest >= 0 /\ rest <= Len(OpsOf(n))
         /\ OpsOf(n)' = SubSeq(OpsOf(n), 1, rest) /\ OpsOf(n + 1)' = <<>>
         /\ PassedOn(n, rest, NArgs[sub])
<1>1. PICK S, s, b, q, m : S = Vals /\ s = stack /\ b = frame_base /\ q = NArgs[sub] /\ m = CalleeFrameBase
  OBVIOUS
<1>2. /\ s \in Seq(S) /\ b \in Nat /\ b <= Len(s) /\ Len(s) \in Nat /\ q \in Nat /\ m \in Nat /\ b <= m /\ m <= Len(s)
      /\ m = Len(s) - q
  <2>1. frames # <<>> /\ Top.pc = "swapped"
    BY EntersFrame
  <2>2. stack \in Seq(Vals) /\ frame_base \in Nat /\ Len(stack) \in Nat /\ frame_base <= Len(stack)
    BY <2>1, TopFacts DEF TopFit
  <2>3. NArgs[sub] \in Nat /\ CalleeFrameBase \in Nat /\ frame_base <= CalleeFrameBase /\ CalleeFrameBase <= Len(stack)
    BY <2>1, CalleeAbove
  <2>4. CalleeFrameBase = Len(stack) - NArgs[sub]
    BY DEF CalleeFrameBase
  <2> QED
    BY <1>1, <2>2, <2>3, <2>4
<1>3. /\ frame_base' = m /\ stack' = SubSeq(s, 1, m) /\ Len(frames') = n + 1 /\ n # n + 1 /\ Kept(n) /\ n \in 1 .. n
  BY <1>1, EntersFrame DEF ExecuteScript
<1>4. Len(stack') = m /\ stack' \in Seq(S)
  <2>1. m \in 0 .. Len(s)
    BY <1>2
  <2> QED
    BY <1>2, <1>3, <2>1, Shortened
<1>5. OpsOf(n) = Above(s, b)
  <2>1. FrameBase(n) = frame_base
    BY DEF FrameBase, Innermost
  <2> QED
    BY <1>1, <2>1 DEF OpsOf, Innermost, Above
<1>6. FrameBase(n)' = b /\ FrameBase(n + 1)' = m
  <2>1. FrameBase(n)' = FrameBase(n)
    BY <1>3 DEF Kept
  <2>2. FrameBase(n) = frame_base
    BY DEF FrameBase, Innermost
  <2>3. FrameBase(n + 1)' = frame_base'
    BY <1>3 DEF FrameBase, Innermost
  <2> QED
    BY <1>1, <1>3, <2>1, <2>2, <2>3
<1>7. OpsOf(n)' = Above(stack', b)
  <2>1. OpsOf(n)' = SubSeq(stack', FrameBase(n)' + 1, FrameBase(n + 1)')
    BY <1>3 DEF OpsOf, Innermost
  <2> QED
    BY <1>4, <1>6, <2>1 DEF Above
<1>8. OpsOf(n + 1)' = <<>>
  <2>1. OpsOf(n + 1)' = SubSeq(stack', FrameBase(n + 1)' + 1, Len(stack'))
    BY <1>3 DEF OpsOf, Innermost
  <2>2. OpsOf(n + 1)' = Above(stack', m)
    BY <1>6, <2>1 DEF Above
  <2>3. Above(stack', m) \in Seq(S) /\ Len(Above(stack', m)) = 0
    <3>1. PICK t : t = stack'
      OBVIOUS
    <3>2. t \in Seq(S) /\ m <= Len(t) /\ Len(t) = m
      BY <1>2, <1>4, <3>1
    <3>3. Above(t, m) \in Seq(S) /\ Len(Above(t, m)) = Len(t) - m
      BY <1>2, <3>2, AboveFacts
    <3> QED
      BY <1>2, <3>1, <3>2, <3>3
  <2> QED
    BY <2>2, <2>3, EmptySeq
<1>9. Len(OpsOf(n)) = Len(s) - b /\ \A i \in 1 .. Len(s) - b : OpsOf(n)[i] = s[b + i]
  <2>1. s \in Seq(S) /\ b \in Nat /\ b <= Len(s)
    BY <1>2
  <2>2. Len(Above(s, b)) = Len(s) - b /\ \A i \in 1 .. Len(s) - b : Above(s, b)[i] = s[b + i]
    BY ONLY <2>1, AboveFacts
  <2> QED
    BY <1>5, <2>2
<1>10. rest = m - b /\ rest \in Nat /\ rest <= Len(OpsOf(n)) /\ b + rest = m /\ rest + q = Len(s) - b
  <2>1. PICK x, y : x = Len(OpsOf(n)) /\ y = Len(s)
    OBVIOUS
  <2>2. rest = x - q /\ x = y - b /\ m = y - q /\ y \in Nat /\ b \in Nat /\ q \in Nat /\ m \in Nat /\ b <= m
    BY <1>1, <1>2, <1>9, <2>1
  <2>3. rest = m - b /\ rest \in Nat /\ rest <= x /\ b + rest = m /\ rest + q = y - b
    BY ONLY <2>2
  <2> QED
    BY <2>1, <2>3
<1>11. OpsOf(n)' = SubSeq(OpsOf(n), 1, rest)
  <2>1. Above(SubSeq(s, 1, m), b) = SubSeq(Above(s, b), 1, m - b)
    BY <1>2, AboveCut
  <2> QED
    BY <1>3, <1>5, <1>7, <1>10, <2>1
<1>12. ASSUME NEW k \in Slots(q)
       PROVE  OpsOf(n)[rest + k + 1] = s[m + k + 1]
  <2>1. rest + k + 1 \in 1 .. rest + q /\ b + (rest + k + 1) = m + k + 1
    <3>1. k \in Nat /\ k < q
      BY <1>2 DEF Slots
    <3>2. rest \in Nat /\ b \in Nat /\ m \in Nat /\ q \in Nat /\ b + rest = m
      BY <1>2, <1>10
    <3> QED
      BY ONLY <3>1, <3>2
  <2>2. PICK i : i = rest + k + 1
    OBVIOUS
  <2>3. i \in 1 .. Len(s) - b /\ b + i = m + k + 1
    BY <1>10, <2>1, <2>2
  <2>4. OpsOf(n)[i] = s[b + i]
    BY <1>9, <2>3
  <2> QED
    BY <2>2, <2>3, <2>4
<1>13. PassedOn(n, rest, NArgs[sub])
  BY <1>1, <1>12 DEF PassedOn
<1>14. rest \in Nat /\ rest >= 0 /\ rest <= Len(OpsOf(n))
  <2>1. rest >= 0
    BY <1>10
  <2> QED
    BY <1>10, <2>1
<1> QED
  BY <1>8, <1>11, <1>13, <1>14

\* The scalars of the caller stay; the callee has its arguments and no saved value.
LEMMA EntersScalars ==
  ASSUME SitesFresh, FrameInv, KeepsCallers, ExecuteScript,
         NEW n, n = Len(frames), NEW c, c = Top.site, NEW sub, sub = c.sub,
         NEW rest, rest = Len(OpsOf(n)) - NArgs[sub]
  PROVE  /\ ArgsOf(n)' = ArgsOf(n) /\ SavedOf(n)' = SavedOf(n)
         /\ ArgsOf(n + 1)' = [k \in Slots(NArgs[sub]) |-> OpsOf(n)[rest + k + 1]]
         /\ SavedOf(n + 1)' = [k \in Slots(NSaved[sub]) |-> Unset]
<1>1. /\ n \in Nat /\ n \in 1 .. n /\ n # n + 1 /\ n < n + 1 /\ Len(frames') = n + 1 /\ Kept(n) /\ frames # <<>>
      /\ Top.pc = "swapped" /\ frames[n] = Top /\ frames'[n].pc = "called" /\ frames'[n].scr = Top.scr
      /\ frames'[n + 1].scr = sub /\ frames'[n + 1].pc = "row"
  <2>1. /\ n \in Nat /\ n \in 1 .. n /\ n # n + 1 /\ Len(frames') = n + 1 /\ Kept(n) /\ frames # <<>>
        /\ Top.pc = "swapped" /\ frames[n] = Top /\ frames'[n].pc = "called" /\ frames'[n].scr = Top.scr
        /\ frames'[n + 1] = [scr |-> sub, pc |-> "row", site |-> NoSite, old |-> Old]
    BY EntersFrame
  <2> QED
    BY <2>1
<1>2. ScalarsKept(n)
  BY <1>1 DEF KeepsCallers
<1>3. ArgBase(n)' = ArgBase(n) /\ SavedBase(n)' = SavedBase(n)
  BY <1>1 DEF Kept
<1>4. /\ ArgsOf(n) = [k \in Slots(NArgs[Top.scr]) |-> args_stack[ArgBase(n) + k]]
      /\ SavedOf(n) = [k \in Slots(NSaved[Top.scr]) |-> saved_stack[SavedBase(n) + k]]
  BY <1>1 DEF ArgsOf, SavedOf, Effective
<1>5. /\ ArgsOf(n)' = [k \in Slots(NArgs[Top.scr]) |-> args_stack'[ArgBase(n) + k]]
      /\ SavedOf(n)' = [k \in Slots(NSaved[Top.scr]) |-> saved_stack'[SavedBase(n) + k]]
  BY <1>1, <1>3 DEF ArgsOf, SavedOf, Effective
<1>6. ArgsOf(n)' = ArgsOf(n) /\ SavedOf(n)' = SavedOf(n)
  BY <1>1, <1>2, <1>4, <1>5 DEF ScalarsKept
<1>7. ArgBase(n + 1)' = CalleeArgBase /\ SavedBase(n + 1)' = CalleeSavedBase
  BY <1>1 DEF ArgBase, SavedBase, Innermost, ExecuteScript
<1>8. /\ ArgsOf(n + 1)' = [k \in Slots(NArgs[sub]) |-> args_stack'[CalleeArgBase + k]]
      /\ SavedOf(n + 1)' = [k \in Slots(NSaved[sub]) |-> saved_stack'[CalleeSavedBase + k]]
  BY <1>1, <1>7 DEF ArgsOf, SavedOf, Effective
<1>9. /\ args_stack' = ArgsMoved(sub) /\ saved_stack' = SavedFresh(sub)
      /\ CalleeArgBase + NArgs[sub] <= ArgSlots /\ CalleeSavedBase + NSaved[sub] <= SavedSlots
  BY DEF ExecuteScript, SlotsFit
<1>10. /\ NArgs[sub] \in Nat /\ NSaved[sub] \in Nat /\ CalleeArgBase \in Nat /\ CalleeSavedBase \in Nat
       /\ ArgSlots \in Nat /\ SavedSlots \in Nat
       /\ DOMAIN args_stack = Slots(ArgSlots) /\ DOMAIN saved_stack = Slots(SavedSlots)
  BY <1>1, CalleeAbove, TopFacts DEF TypeOK
<1>11. ASSUME NEW k \in Slots(NArgs[sub])
       PROVE  args_stack'[CalleeArgBase + k] = OpsOf(n)[rest + k + 1]
  <2>1. PICK b, q : b = CalleeArgBase /\ q = NArgs[sub]
    OBVIOUS
  <2>2. b + k \in Slots(ArgSlots) /\ (b + k) - b = k
    <3>1. b \in Nat /\ q \in Nat /\ ArgSlots \in Nat /\ b + q <= ArgSlots /\ k \in Slots(q)
      BY <1>9, <1>10, <2>1
    <3>2. k \in Nat
      BY <3>1, SlotIsNat
    <3>3. (b + k) - b = k
      BY ONLY <3>1, <3>2
    <3>4. b + k \in Slots(ArgSlots)
      BY <3>1, ShiftedSlot
    <3> QED
      BY <3>3, <3>4
  <2>3. ArgsMoved(sub)[b + k] = stack[CalleeFrameBase + k + 1]
    <3>1. ArgsMoved(sub)[b + k] = IF (b + k) - b \in Slots(NArgs[sub])
                                  THEN stack[CalleeFrameBase + ((b + k) - b) + 1] ELSE args_stack[b + k]
      BY <1>10, <2>1, <2>2 DEF ArgsMoved
    <3> QED
      BY <2>2, <3>1
  <2>4. OpsOf(n)[rest + k + 1] = stack[CalleeFrameBase + k + 1]
    <3>1. PassedOn(n, rest, NArgs[sub])
      BY EntersOperands
    <3> QED
      BY <3>1 DEF PassedOn
  <2> QED
    BY <1>9, <2>1, <2>3, <2>4
<1>12. ASSUME NEW k \in Slots(NSaved[sub])
       PROVE  saved_stack'[CalleeSavedBase + k] = Unset
  <2>1. PICK b, q : b = CalleeSavedBase /\ q = NSaved[sub]
    OBVIOUS
  <2>2. b + k \in Slots(SavedSlots) /\ (b + k) - b = k
    <3>1. b \in Nat /\ q \in Nat /\ SavedSlots \in Nat /\ b + q <= SavedSlots /\ k \in Slots(q)
      BY <1>9, <1>10, <2>1
    <3>2. k \in Nat
      BY <3>1, SlotIsNat
    <3>3. (b + k) - b = k
      BY ONLY <3>1, <3>2
    <3>4. b + k \in Slots(SavedSlots)
      BY <3>1, ShiftedSlot
    <3> QED
      BY <3>3, <3>4
  <2>3. SavedFresh(sub)[b + k] = Unset
    <3>1. SavedFresh(sub)[b + k] = IF (b + k) - b \in Slots(NSaved[sub]) THEN Unset ELSE saved_stack[b + k]
      BY <1>10, <2>1, <2>2 DEF SavedFresh
    <3> QED
      BY <2>2, <3>1
  <2> QED
    BY <1>9, <2>1, <2>3
<1> QED
  BY <1>6, <1>8, <1>11, <1>12

\* What the call has to keep of the host's view.
LEMMA EntersHostKeeps ==
  ASSUME SitesFresh, FrameInv, FrameInv', ExecuteScript, HostLists' = HostLists, Result' = Result
  PROVE  UNCHANGED <<HostContents, Result>>
<1> PICK n, c, sub : n = Len(frames) /\ c = Top.site /\ sub = c.sub
  OBVIOUS
<1>1. AtHome' = AtHome
  BY EntersLevel
<1> QED
  BY <1>1, KeptHost

\* The call leaves the host's lists and its last result alone.
LEMMA EntersHost ==
  ASSUME SitesFresh, FrameInv, FrameInv', ExecuteScript
  PROVE  UNCHANGED <<HostContents, Result>>
<1> PICK n, c, sub : n = Len(frames) /\ c = Top.site /\ sub = c.sub
  OBVIOUS
<1>0. Top.pc = "swapped" /\ frames'[n + 1] = [scr |-> sub, pc |-> "row", site |-> NoSite, old |-> Old]
  BY EntersFrame, ZenonT(60)
<1>1. /\ n \in Nat /\ n \in 1 .. n /\ n > 0 /\ Kept(n) /\ Len(frames') = n + 1 /\ frames # <<>>
      /\ c.nlists = NLists[sub] /\ list_base' = Len(lists) - NLists[sub] /\ ListBase(n + 1)' = list_base'
  BY EntersFrame, ZenonT(60)
<1>2. Len(frames') > 1
  BY <1>1
<1>3. HostLists' = ListBase(2)' /\ Result' = frames'[2].old.ret
  BY <1>2 DEF HostLists, Result
<1>4. CASE n = 1
  <2>1. HostLists = Len(lists) - NLists[sub] /\ Result = return_value
    BY <1>0, <1>1, <1>4 DEF HostLists, Result, ListFrameOpen, Phases
  <2>2. ListBase(2)' = Len(lists) - NLists[sub]
    BY <1>1, <1>4
  <2>3. frames'[2].old.ret = return_value
    <3>1. frames'[2].old = Old
      BY <1>0, <1>4
    <3> QED
      BY <3>1 DEF Old
  <2> QED
    BY <1>3, <2>1, <2>2, <2>3, EntersHostKeeps
<1>5. CASE n # 1
  <2>1. n > 1 /\ 2 \in 1 .. n
    BY <1>1, <1>5
  <2>2. HostLists = ListBase(2) /\ Result = frames[2].old.ret
    BY <2>1 DEF HostLists, Result
  <2>3. ListBase(2)' = ListBase(2) /\ frames'[2].old = frames[2].old
    BY <1>1, <2>1 DEF Kept
  <2> QED
    BY <1>3, <2>2, <2>3, EntersHostKeeps
<1> QED
  BY <1>4, <1>5

\* The caller waits with the operands it has left, the scripts below it as before.
LEMMA EntersCallers ==
  ASSUME SitesFresh, FrameInv, FrameInv', KeepsCallers, ExecuteScript,
         NEW n, n = Len(frames), NEW c, c = Top.site, NEW sub, sub = c.sub,
         NEW rest, rest = Len(OpsOf(n)) - NArgs[sub]
  PROVE  /\ \A i \in 1 .. n - 1 : EnvFrame(i)' = EnvFrame(i)
         /\ EnvFrame(n)' = FrameRec(Top.scr, ArgsOf(n), SavedOf(n), Refs(Levels)[n], OwnOf(n),
                                    SubSeq(OpsOf(n), 1, rest), RunBy(n))
<1>1. n \in Nat /\ n \in 1 .. n /\ Kept(n) /\ frames'[n].scr = Top.scr
  BY EntersFrame
<1>2. AtHome' = AtHome
  BY EntersLevel
<1>3. Shape
  BY LevelsShape
<1>4. ASSUME NEW i \in 1 .. n
      PROVE  OwnOf(i)' = OwnOf(i)
  <2>1. Levels[i].base + Levels[i].lists <= Len(lists) /\ Len(lists) \in Nat
    BY <1>3 DEF Shape, Reaches, Reach1
  <2> QED
    BY <1>1, <1>2, <2>1, KeptOwnOf
<1>5. ASSUME NEW i \in 1 .. n - 1
      PROVE  EnvFrame(i)' = EnvFrame(i)
  <2>1. i \in 1 .. n
    BY <1>1
  <2>2. OwnOf(i)' = OwnOf(i)
    BY <1>4, <2>1
  <2> QED
    BY <1>1, <2>2, KeptEnvFrame
<1>6. RunBy(n)' = RunBy(n) /\ Refs(Levels')[n] = Refs(Levels)[n] /\ OwnOf(n)' = OwnOf(n)
  BY <1>1, <1>4, KeptRunBy, KeptRefs
<1>7. OpsOf(n)' = SubSeq(OpsOf(n), 1, rest)
  BY EntersOperands
<1>8. ArgsOf(n)' = ArgsOf(n) /\ SavedOf(n)' = SavedOf(n)
  BY EntersScalars
<1>9. EnvFrame(n)' = FrameRec(frames'[n].scr, ArgsOf(n)', SavedOf(n)', Refs(Levels')[n], OwnOf(n)', OpsOf(n)', RunBy(n)')
  BY EnvFrameIs
<1> QED
  BY <1>1, <1>5, <1>6, <1>7, <1>8, <1>9

\* The record of a script that call site c has just entered at the given depth.
Entered(c, ops, rest, ref, depth) ==
  FrameRec(c.sub,
           [k \in Slots(NArgs[c.sub]) |-> ops[rest + k + 1]],
           [k \in Slots(NSaved[c.sub]) |-> Unset],
           [l \in Slots(NLists[c.sub]) |-> IF l \in DOMAIN c.bind THEN ref[c.bind[l]] ELSE <<depth, l>>],
           [l \in Slots(NLists[c.sub]) \ DOMAIN c.bind |-> <<>>],
           <<>>, c)

\* The callee's record.
LEMMA EntersCallee ==
  ASSUME SitesFresh, FrameInv, FrameInv', ListFrameInv, KeepsCallers, ExecuteScript,
         NEW n, n = Len(frames), NEW c, c = Top.site, NEW sub, sub = c.sub,
         NEW rest, rest = Len(OpsOf(n)) - NArgs[sub]
  PROVE  EnvFrame(n + 1)' = Entered(c, OpsOf(n), rest, Refs(Levels)[n], n + 1)
<1> PICK m : m = n + 1
  OBVIOUS
<1>1. /\ n \in Nat /\ n > 0 /\ frames'[n].site = c /\ frames'[m].scr = sub
  <2>1. frames'[m] = [scr |-> sub, pc |-> "row", site |-> NoSite, old |-> Old]
    BY EntersFrame, ZenonT(60)
  <2> QED
    BY <2>1, EntersFrame
<1>2. RunBy(m)' = c
  <2>1. m # 1 /\ m - 1 = n
    BY <1>1
  <2>2. RunBy(m)' = frames'[m - 1].site
    BY <2>1 DEF RunBy
  <2> QED
    BY <1>1, <2>1, <2>2
<1>3. Refs(Levels')[m] = [l \in Slots(NLists[sub]) |-> IF l \in DOMAIN c.bind THEN Refs(Levels)[n][c.bind[l]] ELSE <<m, l>>]
  BY EntersRefs
<1>4. OwnOf(m)' = [l \in Slots(NLists[sub]) \ DOMAIN c.bind |-> <<>>]
  BY EntersOwn
<1>5. OpsOf(m)' = <<>>
  BY EntersOperands
<1>6. /\ ArgsOf(m)' = [k \in Slots(NArgs[sub]) |-> OpsOf(n)[rest + k + 1]]
      /\ SavedOf(m)' = [k \in Slots(NSaved[sub]) |-> Unset]
  BY EntersScalars
<1>7. EnvFrame(m)' = FrameRec(frames'[m].scr, ArgsOf(m)', SavedOf(m)', Refs(Levels')[m], OwnOf(m)', OpsOf(m)', RunBy(m)')
  BY EnvFrameIs
<1> QED
  BY <1>1, <1>2, <1>3, <1>4, <1>5, <1>6, <1>7 DEF Entered

\* A sequence one longer than another it agrees with.
LEMMA LastAppended ==
  ASSUME NEW S, NEW n \in Nat, NEW g \in [1 .. n -> S], NEW f \in [1 .. n + 1 -> S], \A i \in 1 .. n : f[i] = g[i]
  PROVE  f = Append(g, f[n + 1])
<1>1. g \in Seq(S) /\ Len(g) = n
  BY FunctionIsSeq
<1>2. f \in Seq(S) /\ Len(f) = n + 1
  <2> PICK m \in Nat : m = n + 1
    OBVIOUS
  <2>1. f \in [1 .. m -> S]
    OBVIOUS
  <2> QED
    BY <2>1, FunctionIsSeq
<1> PICK x \in S : x = f[n + 1]
  OBVIOUS
<1>3. /\ Append(g, x) \in Seq(S) /\ Len(Append(g, x)) = n + 1 /\ Append(g, x)[n + 1] = x
      /\ \A i \in 1 .. n : Append(g, x)[i] = g[i]
  BY <1>1, AppendProperties
<1>4. \A i \in 1 .. n + 1 : f[i] = Append(g, x)[i]
  <2> TAKE i \in 1 .. n + 1
  <2>1. i \in 1 .. n \/ i = n + 1
    OBVIOUS
  <2> QED
    BY <1>3, <2>1
<1> QED
  BY <1>2, <1>3, <1>4, SeqEqual

\* One record changed and one more on top.
IsArray(e, n) == e = [i \in 1 .. n |-> e[i]]
SameBefore(f, e, n) == \A i \in 1 .. n - 1 : f[i] = e[i]

\* One record changed and one more on top.
LEMMA Grown ==
  ASSUME NEW n \in Nat, n > 0, NEW e, IsArray(e, n), NEW f, IsArray(f, n + 1), SameBefore(f, e, n)
  PROVE  f = Append(Changed(e, n, f[n]), f[n + 1])
<1> USE DEF IsArray, SameBefore
<1> PICK r, x : r = f[n] /\ x = f[n + 1]
  OBVIOUS
<1> PICK g : g = [i \in 1 .. n |-> f[i]]
  OBVIOUS
<1>1. Changed(e, n, r) = g
  <2>1. \A i \in 1 .. n : i # n => i \in 1 .. n - 1
    OBVIOUS
  <2>2. [e EXCEPT ![n] = r] = [i \in 1 .. n |-> IF i = n THEN r ELSE e[i]]
    OBVIOUS
  <2>3. \A i \in 1 .. n : f[i] = IF i = n THEN r ELSE e[i]
    BY <2>1
  <2> QED
    BY <2>2, <2>3 DEF Changed
<1>2. PICK S : S = {f[i] : i \in 1 .. n + 1}
  OBVIOUS
<1>3. \A i \in 1 .. n + 1 : f[i] \in S
  BY <1>2
<1>4. g \in [1 .. n -> S] /\ f \in [1 .. n + 1 -> S] /\ \A i \in 1 .. n : f[i] = g[i]
  BY <1>3
<1>5. f = Append(g, f[n + 1])
  BY <1>4, LastAppended
<1> QED
  BY <1>1, <1>5

\* What a call of the abstract specification makes of the environments.
CallOf(e, t, c) ==
  LET sub   == c.sub
      depth == Len(e) + 1
      ops   == t.ops
      rest  == Len(ops) - NArgs[sub]
  IN  Append(
        [e EXCEPT ![Len(e)].ops = SubSeq(ops, 1, rest)],
        [scr   |-> sub,
         args  |-> [k \in Slots(NArgs[sub]) |-> ops[rest + k + 1]],
         saved |-> [k \in Slots(NSaved[sub]) |-> Unset],
         ref   |-> [l \in Slots(NLists[sub]) |->
                      IF l \in DOMAIN c.bind THEN t.ref[c.bind[l]] ELSE <<depth, l>>],
         own   |-> [l \in Slots(NLists[sub]) \ DOMAIN c.bind |-> <<>>],
         ops   |-> <<>>,
         site  |-> c])

\* The same in terms of the records.
LEMMA CallOfIs ==
  ASSUME NEW e, NEW n, n = Len(e), NEW a, NEW b, NEW v, NEW d, NEW o, NEW f, NEW g,
         NEW t, e[n] = t, t = FrameRec(a, b, v, d, o, f, g), NEW c, NEW rest, rest = Len(f) - NArgs[c.sub]
  PROVE  CallOf(e, t, c)
           = Append(Changed(e, n, FrameRec(a, b, v, d, o, SubSeq(f, 1, rest), g)), Entered(c, f, rest, d, n + 1))
<1>1. t.ops = f /\ t.ref = d
  BY FrameFields
<1>2. PICK x : x = SubSeq(f, 1, rest)
  OBVIOUS
<1>3. [e EXCEPT ![n].ops = x] = [e EXCEPT ![n] = [t EXCEPT !.ops = x]]
  OBVIOUS
<1>4. [t EXCEPT !.ops = x] = FrameRec(a, b, v, d, o, x, g)
  BY FrameFields
<1>5. [e EXCEPT ![n].ops = SubSeq(f, 1, rest)] = Changed(e, n, FrameRec(a, b, v, d, o, SubSeq(f, 1, rest), g))
  BY <1>2, <1>3, <1>4 DEF Changed
<1>6. CallOf(e, t, c) = Append([e EXCEPT ![n].ops = SubSeq(f, 1, rest)], Entered(c, f, rest, d, n + 1))
  BY <1>1, Zenon DEF CallOf, Entered, FrameRec
<1> QED
  BY <1>5, <1>6

\* execute_script's entry is a call of the abstract run.
LEMMA CallMaps ==
  ASSUME SitesFresh, FrameInv, FrameInv', ListFrameInv, KeepsCallers, ExecuteScript
  PROVE  Top.scr \in Scripts /\ Top.site \in Sites[Top.scr] /\ Calls!Call(Top.site)
<1> PICK n, c, sub : n = Len(frames) /\ c = Top.site /\ sub = c.sub
  OBVIOUS
<1> PICK rest : rest = Len(OpsOf(n)) - NArgs[sub]
  OBVIOUS
<1>1. /\ n \in Nat /\ n > 0 /\ n \in 1 .. n /\ Len(frames') = n + 1 /\ frames # <<>> /\ ~throwing /\ ~throwing'
      /\ c \in Sites[Top.scr] /\ Top.scr \in Scripts
  BY EntersFrame
<1>2. rest >= 0
  BY EntersOperands
<1>3. UNCHANGED <<HostContents, Result>>
  BY EntersHost
<1>4. /\ Env[Len(Env)] = Calls!Top /\ Env # <<>>
      /\ Calls!Top = FrameRec(Top.scr, ArgsOf(n), SavedOf(n), Refs(Levels)[n], OwnOf(n), OpsOf(n), RunBy(n))
      /\ Calls!Top.scr = Top.scr /\ Calls!Top.ops = OpsOf(n)
  BY <1>1, TopIs
<1>5. Len(Env) = n /\ DOMAIN Env = 1 .. n /\ \A i \in 1 .. n : Env[i] = EnvFrame(i)
  BY <1>1, EnvFacts
<1>6. Env' = [i \in 1 .. n + 1 |-> EnvFrame(i)']
  BY <1>1, EnvNext
<1>7. Env = [i \in 1 .. n |-> Env[i]]
  <2>1. Env = [i \in 1 .. n |-> EnvFrame(i)]
    BY <1>1, EnvIs
  <2> QED
    BY <2>1
<1>8. /\ \A i \in 1 .. n - 1 : EnvFrame(i)' = EnvFrame(i)
      /\ EnvFrame(n)' = FrameRec(Top.scr, ArgsOf(n), SavedOf(n), Refs(Levels)[n], OwnOf(n), SubSeq(OpsOf(n), 1, rest),
                                 RunBy(n))
  BY EntersCallers
<1>9. Env'[n + 1] = Entered(c, OpsOf(n), rest, Refs(Levels)[n], n + 1)
  <2>1. PICK m : m = n + 1
    OBVIOUS
  <2>2. EnvFrame(n + 1)' = Entered(c, OpsOf(n), rest, Refs(Levels)[n], n + 1)
    BY EntersCallee
  <2>3. Env'[m] = EnvFrame(m)'
    <3>1. m \in 1 .. n + 1
      BY <1>1, <2>1
    <3> QED
      BY <1>6, <3>1
  <2> QED
    BY <2>1, <2>2, <2>3
<1>10. Env' = Append(Changed(Env, n, Env'[n]), Env'[n + 1])
  <2>1. PICK e, f : e = Env /\ f = Env'
    OBVIOUS
  <2>2. IsArray(e, n)
    BY <1>5, <1>7, <2>1 DEF IsArray
  <2>3. IsArray(f, n + 1)
    BY <1>6, <2>1 DEF IsArray
  <2>4. SameBefore(f, e, n)
    <3> USE DEF SameBefore
    <3> TAKE i \in 1 .. n - 1
    <3>1. i \in 1 .. n /\ i \in 1 .. n + 1
      BY <1>1
    <3>2. f[i] = EnvFrame(i)' /\ e[i] = EnvFrame(i)
      BY <1>5, <1>6, <2>1, <3>1
    <3> QED
      BY <1>8, <3>2
  <2>5. f = Append(Changed(e, n, f[n]), f[n + 1])
    BY ONLY <1>1, <2>2, <2>3, <2>4, Grown
  <2> QED
    BY <2>1, <2>5
<1>11. Env'[n] = FrameRec(Top.scr, ArgsOf(n), SavedOf(n), Refs(Levels)[n], OwnOf(n), SubSeq(OpsOf(n), 1, rest), RunBy(n))
  <2>1. n \in 1 .. n + 1
    BY <1>1
  <2> QED
    BY <1>6, <1>8, <2>1
<1>12. Env' = CallOf(Env, Calls!Top, c)
  <2>1. PICK e, t : e = Env /\ t = Calls!Top
    OBVIOUS
  <2>2. PICK a, b, v, d, o, f, g : /\ t = FrameRec(a, b, v, d, o, f, g) /\ a = Top.scr /\ b = ArgsOf(n) /\ v = SavedOf(n)
                                   /\ d = Refs(Levels)[n] /\ o = OwnOf(n) /\ f = OpsOf(n) /\ g = RunBy(n)
    BY <1>4, <2>1
  <2>3. n = Len(e) /\ e[n] = t /\ rest = Len(f) - NArgs[c.sub]
    BY <1>4, <1>5, <2>1, <2>2
  <2>4. CallOf(e, t, c)
          = Append(Changed(e, n, FrameRec(a, b, v, d, o, SubSeq(f, 1, rest), g)), Entered(c, f, rest, d, n + 1))
    BY <2>2, <2>3, CallOfIs, SMTT(30)
  <2>5. Env'[n] = FrameRec(a, b, v, d, o, SubSeq(f, 1, rest), g) /\ Env'[n + 1] = Entered(c, f, rest, d, n + 1)
    BY <1>9, <1>11, <2>2
  <2> QED
    BY <1>10, <2>1, <2>4, <2>5
<1>13. c \in Sites[Calls!Top.scr] /\ Len(Calls!Top.ops) - NArgs[c.sub] >= 0
  BY <1>1, <1>2, <1>4
<1>14. Calls!Call(c)
  BY <1>3, <1>4, <1>12, <1>13, Zenon DEF Calls!Call, CallOf, Calls!Slots, Slots
<1> QED
  BY <1>1, <1>14

-----------------------------------------------------------------------------
(* Leaving a callee *)

\* The frames around a return.
LEMMA ReturnsFrame ==
  ASSUME SitesFresh, FrameInv, ListFrameInv, Return,
         NEW n, n = Len(frames), NEW m, m = n - 1, NEW c, c = Caller.site
  PROVE  /\ n \in Nat /\ n > 1 /\ n \in 1 .. n /\ m \in Nat /\ m > 0 /\ m \in 1 .. m /\ m \in 1 .. n /\ m # n /\ m + 1 = n
         /\ frames # <<>> /\ ~throwing /\ ~throwing' /\ InRow /\ Top.pc = "row" /\ frames[m] = Caller
         /\ Kept(m) /\ Len(frames') = m /\ Top'.scr = Caller.scr /\ Top'.pc = "returned" /\ Top'.site = c
         /\ frames'[m] = Top'
         /\ c \in Sites[Caller.scr] /\ Caller.scr \in Scripts /\ Top.scr \in Scripts /\ c.sub = Top.scr
         /\ c.nlists = NLists[Top.scr] /\ c.nlists \in Nat
         /\ list_base \in Nat /\ Len(lists) \in Nat /\ Len(lists) = list_base + c.nlists /\ lists' = lists
         /\ list_base' = Top.old.list
<1>1. Len(frames) > 1 /\ frames # <<>> /\ InRow /\ ~throwing /\ ~throwing' /\ Top.pc = "row"
  BY DEF Return, InRow, Running
<1>2. /\ c \in Sites[Caller.scr] /\ c \in AllSites \union {NoSite} /\ c.sub = Top.scr /\ c.nlists = NLists[Top.scr]
      /\ Caller.scr \in Scripts
  BY <1>1, CallerFacts
<1>3. /\ n \in Nat /\ Top.scr \in Scripts /\ NLists[Top.scr] \in Nat /\ list_base \in Nat /\ Len(lists) \in Nat /\ TypeOK
  BY <1>1, TopFacts
<1>4. /\ n > 1 /\ n \in 1 .. n /\ m \in Nat /\ m > 0 /\ m \in 1 .. m /\ m \in 1 .. n /\ m # n /\ m + 1 = n
  BY <1>1, <1>3
<1>5. /\ Kept(m) /\ Len(frames') = m /\ Top'.scr = Caller.scr /\ Top'.pc = "returned" /\ Top'.site = c
      /\ list_base' = Top.old.list /\ lists' = lists
  <2>1. "returned" \in Phases
    BY DEF Phases
  <2>2. /\ frames' = FramesAt(Len(frames) - 1, "returned", c)
        /\ frame_base' = Top.old.frame /\ arg_base' = Top.old.arg
        /\ saved_base' = Top.old.saved /\ list_base' = Top.old.list /\ lists' = lists
    BY DEF Return
  <2> QED
    BY <1>1, <1>2, <1>3, <2>1, <2>2, KeptByDrop
<1>6. frames[m] = Caller /\ frames'[m] = Top'
  BY <1>5 DEF Caller, Top
<1>7. Len(lists) = list_base + c.nlists
  <2>1. OpenLists = 0
    BY <1>1 DEF OpenLists
  <2>2. Len(lists) = list_base + NLists[Top.scr] + OpenLists
    BY <1>1 DEF ListFrameInv, Gapless
  <2> QED
    BY <1>2, <1>3, <2>1, <2>2
<1> QED
  BY <1>1, <1>2, <1>3, <1>4, <1>5, <1>6, <1>7

\* The lists are lent as before: only the callee's level, which lent nothing, is gone.
LEMMA ReturnsLevel ==
  ASSUME SitesFresh, FrameInv, FrameInv', ListFrameInv, Return
  PROVE  AtHome' = AtHome
<1> PICK n, m, c : n = Len(frames) /\ m = n - 1 /\ c = Caller.site
  OBVIOUS
<1>1. /\ n \in Nat /\ n > 1 /\ n \in 1 .. n /\ m \in Nat /\ m > 0 /\ m \in 1 .. m /\ m \in 1 .. n /\ m # n /\ m + 1 = n
      /\ frames # <<>> /\ Top.pc = "row" /\ frames[m] = Caller
      /\ Kept(m) /\ Len(frames') = m /\ Top'.scr = Caller.scr /\ Top'.pc = "returned" /\ Top'.site = c
      /\ c.nlists \in Nat /\ list_base \in Nat /\ Len(lists) \in Nat
      /\ Len(lists) = list_base + c.nlists /\ lists' = lists /\ list_base' = Top.old.list
  BY ReturnsFrame
<1>2. Shape /\ Shape'
  BY LevelsShape, ShapeNext
<1>3. /\ Len(Levels) = n /\ Len(Levels') = m /\ Stacked(Levels) /\ Stacked(Levels')
      /\ Levels[m] = Level(m) /\ Levels[n] = Level(n) /\ Levels'[m] = Level(m)'
  <2>1. Len(Levels) = n /\ Stacked(Levels) /\ \A i \in 1 .. n : Levels[i] = Level(i)
    BY <1>2 DEF Shape
  <2>2. Len(Levels') = m /\ Stacked(Levels') /\ Levels'[m] = Level(m)'
    BY <1>1, <1>2 DEF Shape
  <2> QED
    BY <1>1, <2>1, <2>2
<1>4. DOMAIN Levels[n].bind = {}
  BY <1>1, <1>3, PlainTop DEF NothingOpen
<1>5. Levels[m] = LevelOf(Caller.scr, Top.old.list, list_base, c.bind)
  <2>1. Level(m) = LevelOf(frames[m].scr, ListBase(m), ListBase(m + 1), frames[m].site.bind)
    BY <1>1, WaitingLevel
  <2>2. ListBase(m) = Top.old.list /\ ListBase(m + 1) = list_base
    BY <1>1 DEF ListBase, Innermost, Top
  <2> QED
    BY <1>1, <1>3, <2>1, <2>2
<1>6. Levels'[m] = LevelOf(Caller.scr, Top.old.list, list_base, c.bind)
  <2>1. Level(m)' = LevelOf(Top'.scr, list_base', Len(lists') - Top'.site.nlists, Top'.site.bind)
    BY <1>1, TopLentNext DEF Lent
  <2>2. Len(lists) - c.nlists = list_base
    BY <1>1
  <2> QED
    BY <1>1, <1>3, <2>1, <2>2
<1>7. \A i \in 1 .. m : Levels'[i] = Levels[i]
  <2>1. \A i \in 1 .. m - 1 : Levels'[i] = Levels[i]
    BY <1>1, KeptLevels
  <2>2. Levels'[m] = Levels[m]
    BY <1>5, <1>6
  <2> QED
    BY <1>1, <2>1, <2>2
<1>8. \A k \in Nat : At(Levels', k) = At(Levels, k)
  <2>1. PICK lv, lw : lv = Levels' /\ lw = Levels
    OBVIOUS
  <2>2. Stacked(lv) /\ Stacked(lw) /\ Len(lw) = Len(lv) + 1 /\ \A j \in 1 .. Len(lv) : lw[j] = lv[j]
    BY <1>1, <1>3, <1>7, <2>1
  <2>3. DOMAIN lw[Len(lw)].bind = {}
    BY <1>3, <1>4, <2>1
  <2> QED
    BY <2>1, <2>2, <2>3, HomePush
<1>9. DOMAIN lists = 1 .. Len(lists)
  BY <1>2 DEF Shape
<1>10. AtHome = [k \in DOMAIN lists |-> lists[At(Levels, k)]] /\ AtHome' = [k \in DOMAIN lists |-> lists[At(Levels', k)]]
  BY <1>1, HomeIs DEF AtHome
<1>11. \A k \in DOMAIN lists : At(Levels', k) = At(Levels, k)
  BY <1>1, <1>8, <1>9
<1> QED
  BY <1>10, <1>11

\* A return leaves the host's lists and its last result alone.
LEMMA ReturnsHost ==
  ASSUME SitesFresh, FrameInv, FrameInv', ListFrameInv, Return
  PROVE  UNCHANGED <<HostContents, Result>>
<1> PICK n, m, c : n = Len(frames) /\ m = n - 1 /\ c = Caller.site
  OBVIOUS
<1>1. /\ n \in Nat /\ n > 1 /\ m \in Nat /\ m + 1 = n /\ frames # <<>>
      /\ Kept(m) /\ Len(frames') = m /\ Top'.pc = "returned" /\ Top'.site = c
      /\ c.nlists \in Nat /\ list_base \in Nat /\ Len(lists) \in Nat
      /\ Len(lists) = list_base + c.nlists /\ lists' = lists
  BY ReturnsFrame
<1>2. Len(frames) > 1 /\ HostLists = ListBase(2) /\ Result = frames[2].old.ret
  BY <1>1 DEF HostLists, Result
<1>3. CASE m = 1
  <2>1. n = 2 /\ ~(Len(frames') > 1) /\ Len(frames') = 1
    BY <1>1, <1>3
  <2>2. frames' # <<>>
    <3>1. Len(<<>>) = 0
      OBVIOUS
    <3> QED
      BY <2>1, <3>1
  <2>3. HostLists' = Len(lists) - c.nlists
    BY <1>1, <2>1, <2>2 DEF HostLists, ListFrameOpen, Phases
  <2>4. HostLists = list_base
    BY <1>2, <2>1 DEF ListBase, Innermost
  <2>5. HostLists' = HostLists
    BY <1>1, <2>3, <2>4
  <2>6. Result' = return_value' /\ Top = frames[2]
    BY <2>1 DEF Result, Top
  <2>7. return_value' = Top.old.ret
    BY DEF Return
  <2>8. Result' = Result
    BY <1>2, <2>6, <2>7
  <2> QED
    BY <2>5, <2>8, ReturnsLevel, KeptHost
<1>4. CASE m # 1
  <2>1. Len(frames') > 1 /\ 2 \in 1 .. m
    BY <1>1, <1>4
  <2>2. ListBase(2)' = ListBase(2) /\ frames'[2].old = frames[2].old
    BY <1>1, <2>1 DEF Kept
  <2>3. HostLists' = HostLists /\ Result' = Result
    BY <1>2, <2>1, <2>2 DEF HostLists, Result
  <2> QED
    BY <2>3, ReturnsLevel, KeptHost
<1> QED
  BY <1>3, <1>4

\* Nothing appended.
LEMMA ConcatNone ==
  ASSUME NEW S, NEW s \in Seq(S)
  PROVE  s \o <<>> = s
<1>1. <<>> \in Seq(S) /\ Len(<<>>) = 0 /\ Len(s) \in Nat
  BY LenProperties
<1>2. /\ s \o <<>> \in Seq(S) /\ Len(s \o <<>>) = Len(s)
      /\ \A i \in 1 .. Len(s) : (s \o <<>>)[i] = s[i]
  BY <1>1, ConcatProperties
<1> QED
  BY <1>2, SeqEqual

\* One value appended.
LEMMA ConcatOne ==
  ASSUME NEW S, NEW s \in Seq(S), NEW x \in S
  PROVE  s \o <<x>> = Append(s, x)
<1>1. <<x>> \in Seq(S) /\ Len(<<x>>) = 1 /\ <<x>>[1] = x /\ Len(s) \in Nat
  BY LenProperties
<1>2. /\ s \o <<x>> \in Seq(S) /\ Len(s \o <<x>>) = Len(s) + 1
      /\ \A i \in 1 .. Len(s) + 1 : (s \o <<x>>)[i] = IF i <= Len(s) THEN s[i] ELSE <<x>>[i - Len(s)]
  BY <1>1, ConcatProperties
<1>3. /\ Append(s, x) \in Seq(S) /\ Len(Append(s, x)) = Len(s) + 1
      /\ \A i \in 1 .. Len(s) : Append(s, x)[i] = s[i]
      /\ Append(s, x)[Len(s) + 1] = x
  BY AppendProperties
<1>4. \A i \in 1 .. Len(s) + 1 : (s \o <<x>>)[i] = Append(s, x)[i]
  <2> TAKE i \in 1 .. Len(s) + 1
  <2>1. CASE i <= Len(s)
    BY <1>1, <1>2, <1>3, <2>1
  <2>2. CASE i = Len(s) + 1
    <3>1. ~(i <= Len(s)) /\ i - Len(s) = 1
      BY <1>1, <2>2
    <3> QED
      BY <1>1, <1>2, <1>3, <2>2, <3>1
  <2> QED
    BY <1>1, <2>1, <2>2
<1> QED
  BY <1>2, <1>3, <1>4, SeqEqual

\* What the innermost script hands to its caller.
Yield == IF Returns[Top.scr] THEN <<OpsOf(Len(frames))[Len(OpsOf(Len(frames)))]>> ELSE <<>>

\* The operand on top, if the script returns one.
LEMMA YieldIs ==
  ASSUME FrameInv, InRow, Returns[Top.scr] => Len(stack) > frame_base
  PROVE  /\ Returns[Top.scr] => OpsOf(Len(frames)) # <<>> /\ stack[Len(stack)] \in Vals
         /\ Yield = IF Returns[Top.scr] THEN <<stack[Len(stack)]>> ELSE <<>>
<1>1. PICK s, b : s = stack /\ b = frame_base
  OBVIOUS
<1>2. frames # <<>>
  BY DEF InRow, Running
<1>3. s \in Seq(Vals) /\ b \in Nat /\ b <= Len(s) /\ Len(s) \in Nat
  BY <1>1, <1>2, TopFacts DEF TopFit
<1>4. OpsOf(Len(frames)) = Above(s, b)
  <2>1. FrameBase(Len(frames)) = frame_base
    BY DEF FrameBase, Innermost
  <2> QED
    BY <1>1, <2>1 DEF OpsOf, Innermost, Above
<1>5. Len(Above(s, b)) = Len(s) - b /\ \A i \in 1 .. Len(s) - b : Above(s, b)[i] = s[b + i]
  BY ONLY <1>3, AboveFacts
<1>6. ASSUME Len(s) > b
      PROVE  Above(s, b) # <<>> /\ Above(s, b)[Len(Above(s, b))] = s[Len(s)] /\ s[Len(s)] \in Vals
  <2>1. Len(s) - b \in 1 .. Len(s) - b /\ b + (Len(s) - b) = Len(s) /\ Len(s) - b # 0 /\ Len(s) \in 1 .. Len(s)
    BY <1>3, <1>6
  <2>2. Len(<<>>) = 0
    OBVIOUS
  <2>3. Above(s, b) # <<>>
    BY <1>5, <2>1, <2>2
  <2>4. Above(s, b)[Len(s) - b] = s[b + (Len(s) - b)]
    BY <1>5, <2>1
  <2>5. s[Len(s)] \in Vals
    BY <1>3, <2>1, ElementOfSeq
  <2> QED
    BY <1>5, <2>1, <2>3, <2>4, <2>5
<1> QED
  BY <1>1, <1>4, <1>6 DEF Yield

\* The caller's operands are what it had left, with the callee's value.
LEMMA ReturnsOperands ==
  ASSUME SitesFresh, FrameInv, ListFrameInv, Return, NEW m, m = Len(frames) - 1
  PROVE  OpsOf(m)' = OpsOf(m) \o Yield
<1> PICK n, c : n = Len(frames) /\ c = Caller.site
  OBVIOUS
<1>1. /\ m + 1 = n /\ m # n /\ Len(frames') = m /\ InRow /\ frames # <<>> /\ m \in 1 .. m /\ Kept(m)
      /\ Len(frames) > 1 /\ n \in Nat /\ n > 1
  BY ReturnsFrame
<1>2. PICK s, b, q : s = stack /\ b = Top.old.frame /\ q = frame_base
  OBVIOUS
<1>3. /\ s \in Seq(Vals) /\ b \in Nat /\ q \in Nat /\ b <= q /\ q <= Len(s) /\ Len(s) \in Nat
      /\ q = Top.old.size - NArgs[Top.scr]
  BY <1>1, <1>2, CallerFacts, TopFacts DEF TopFit
<1>4. /\ stack' = SubSeq(s, 1, q) \o (IF Returns[Top.scr] THEN <<s[Len(s)]>> ELSE <<>>)
      /\ Returns[Top.scr] => Len(stack) > frame_base
  BY <1>2, <1>3 DEF Return
<1>5. PICK k : k = SubSeq(s, 1, q)
  OBVIOUS
<1>6. k \in Seq(Vals) /\ Len(k) = q /\ \A p \in 1 .. q : k[p] = s[p]
  <2>1. q \in 0 .. Len(s)
    BY <1>3
  <2>2. k \in Seq(Vals) /\ Len(k) = q
    BY <1>3, <1>5, <2>1, Shortened
  <2>3. \A p \in 1 .. q : k[p] = s[p]
    BY <1>3, <1>5, <2>1, SubSeqProperties
  <2> QED
    BY <2>2, <2>3
<1>7. OpsOf(m) = Above(k, b)
  <2>1. FrameBase(m) = b /\ FrameBase(m + 1) = q
    BY <1>1, <1>2 DEF FrameBase, Innermost, Top
  <2>2. OpsOf(m) = SubSeq(s, b + 1, q)
    BY <1>1, <1>2, <2>1 DEF OpsOf, Innermost
  <2>3. SubSeq(k, b + 1, q) = SubSeq(s, b + 1, q)
    <3>1. q <= Len(k)
      BY <1>3, <1>6
    <3> QED
      BY <1>3, <1>6, <3>1, SamePart
  <2> QED
    BY <1>6, <2>2, <2>3 DEF Above
<1>8. OpsOf(m)' = Above(stack', b)
  <2>1. FrameBase(m)' = b
    <3>1. FrameBase(m)' = FrameBase(m)
      BY <1>1 DEF Kept
    <3> QED
      BY <1>1, <1>2, <3>1 DEF FrameBase, Innermost, Top
  <2> QED
    BY <1>1, <2>1 DEF OpsOf, Innermost, Above
<1>9. Above(k, b) \in Seq(Vals) /\ b <= Len(k)
  BY <1>3, <1>6, AboveFacts
<1>10. /\ Returns[Top.scr] => stack[Len(stack)] \in Vals
       /\ Yield = IF Returns[Top.scr] THEN <<stack[Len(stack)]>> ELSE <<>>
  BY <1>1, <1>4, YieldIs
<1>11. CASE Returns[Top.scr]
  <2>1. PICK x : x = s[Len(s)]
    OBVIOUS
  <2>2. x \in Vals /\ Yield = <<x>> /\ stack' = k \o <<x>>
    BY <1>2, <1>4, <1>5, <1>10, <1>11, <2>1
  <2>3. stack' = Append(k, x)
    BY <1>6, <2>2, ConcatOne
  <2>4. Above(Append(k, x), b) = Append(Above(k, b), x)
    BY <1>3, <1>6, <1>9, <2>2, AbovePush
  <2>5. Above(k, b) \o <<x>> = Append(Above(k, b), x)
    BY <1>9, <2>2, ConcatOne
  <2> QED
    BY <1>7, <1>8, <2>2, <2>3, <2>4, <2>5
<1>12. CASE ~Returns[Top.scr]
  <2>1. Yield = <<>> /\ stack' = k \o <<>>
    BY <1>4, <1>5, <1>10, <1>12
  <2>2. stack' = k
    BY <1>6, <2>1, ConcatNone
  <2>3. Above(k, b) \o <<>> = Above(k, b)
    BY <1>9, ConcatNone
  <2> QED
    BY <1>7, <1>8, <2>1, <2>2, <2>3
<1> QED
  BY <1>11, <1>12

\* The arguments of a call that are copied back to a slot, and the last of them.
CopiedTo(out, kind, k) == {a \in DOMAIN out : out[a] = <<kind, k>>}
LastTo(out, kind, k) ==
  {a \in DOMAIN out : out[a] = <<kind, k>> /\ \A b \in DOMAIN out : out[b] = out[a] => b <= a}

\* The in/out argument that wins is the last one.
LEMMA LastIsMax ==
  ASSUME NEW N \in Nat, NEW out, DOMAIN out \subseteq Slots(N), NEW kind, NEW k
  PROVE  /\ LastTo(out, kind, k) = {} <=> CopiedTo(out, kind, k) = {}
         /\ CopiedTo(out, kind, k) # {} =>
              /\ (CHOOSE a \in LastTo(out, kind, k) : TRUE) = Max(CopiedTo(out, kind, k))
              /\ Max(CopiedTo(out, kind, k)) \in Slots(N)
<1> PICK S, T : S = CopiedTo(out, kind, k) /\ T = LastTo(out, kind, k)
  OBVIOUS
<1>1. S \in SUBSET (0 .. N) /\ S \subseteq Slots(N) /\ T \subseteq S
  BY DEF CopiedTo, LastTo, Slots
<1>2. ASSUME S # {}
      PROVE  T = {Max(S)} /\ Max(S) \in S
  <2>1. PICK m : m = Max(S)
    OBVIOUS
  <2>2. m \in S /\ \A y \in S : m >= y
    BY <1>1, <1>2, <2>1, MaxExists
  <2>3. m \in Nat /\ \A y \in S : y \in Nat
    BY <1>1, <2>2
  <2>4. m \in T
    BY <2>2, <2>3 DEF CopiedTo, LastTo
  <2>5. ASSUME NEW a \in T
        PROVE  a = m
    <3>1. a \in S /\ m \in DOMAIN out /\ out[m] = out[a]
      BY <1>1, <2>2 DEF CopiedTo, LastTo
    <3>2. m <= a /\ a <= m /\ a \in Nat
      BY <2>2, <2>3, <3>1 DEF LastTo
    <3> QED
      BY <2>3, <3>2
  <2> QED
    BY <2>1, <2>2, <2>4, <2>5
<1> QED
  BY <1>1, <1>2

\* What a slot holds once the writebacks have run.
Back(out, kind, k, old, slots, base) ==
  IF LastTo(out, kind, k) = {} THEN old ELSE slots[base + CHOOSE a \in LastTo(out, kind, k) : TRUE]

ArgsAre(args, N, slots, base) == args = [j \in Slots(N) |-> slots[base + j]]

\* What is copied back into one slot.
LEMMA BackIs ==
  ASSUME NEW N \in Nat, NEW c, DOMAIN c.out \subseteq Slots(N), NEW kind, NEW k, NEW old, NEW slots, NEW base,
         NEW args, ArgsAre(args, N, slots, base)
  PROVE  Back(c.out, kind, k, old, slots, base) = Calls!CopiedBack(c, args, kind, k, old)
<1> PICK out, S : out = c.out /\ S = CopiedTo(c.out, kind, k)
  OBVIOUS
<1>1. /\ LastTo(out, kind, k) = {} <=> S = {}
      /\ S # {} => (CHOOSE a \in LastTo(out, kind, k) : TRUE) = Max(S) /\ Max(S) \in Slots(N)
  BY LastIsMax
<1>2. Calls!Max(S) = Max(S)
  BY DEF Calls!Max, Max
<1>3. Calls!CopiedBack(c, args, kind, k, old) = IF S = {} THEN old ELSE args[Max(S)]
  BY <1>2 DEF Calls!CopiedBack, CopiedTo
<1> QED
  BY <1>1, <1>3 DEF Back, ArgsAre

\* The writebacks of a site, slot by slot.
Written(out, kind, base, slots, args, callee) ==
  LET from(k) == {a \in DOMAIN out :
                    /\ out[a] = <<kind, k - base>>
                    /\ \A b \in DOMAIN out : out[b] = out[a] => b <= a}
  IN  [k \in DOMAIN slots |->
         IF from(k) = {} THEN slots[k] ELSE args[callee + CHOOSE a \in from(k) : TRUE]]

\* One slot of a store after the write-backs.
LEMMA WrittenAt ==
  ASSUME NEW out, NEW kind, NEW base \in Nat, NEW slots, NEW args, NEW callee, NEW k \in Nat, base + k \in DOMAIN slots
  PROVE  Written(out, kind, base, slots, args, callee)[base + k] = Back(out, kind, k, slots[base + k], args, callee)
<1>1. (base + k) - base = k
  OBVIOUS
<1> PICK b : b = base + k
  OBVIOUS
<1>2. Written(out, kind, base, slots, args, callee)[b]
        = LET from == {a \in DOMAIN out :
                         /\ out[a] = <<kind, b - base>>
                         /\ \A x \in DOMAIN out : out[x] = out[a] => x <= a}
          IN  IF from = {} THEN slots[b] ELSE args[callee + CHOOSE a \in from : TRUE]
  BY DEF Written
<1>3. b - base = k
  BY <1>1
<1> QED
  BY <1>2, <1>3 DEF Back, LastTo

\* The slots of a caller whose callee has returned.
ReturnedTop == frames # <<>> /\ Top.pc = "returned"
ReturnedView ==
  \A i : i = Len(frames) =>
    /\ ArgsOf(i) = [k \in Slots(NArgs[Top.scr]) |->
                      Written(Top.site.out, "arg", arg_base, args_stack, args_stack, CalleeArgBase)[arg_base + k]]
    /\ SavedOf(i) = [k \in Slots(NSaved[Top.scr]) |->
                       Written(Top.site.out, "saved", saved_base, saved_stack, args_stack, CalleeArgBase)[saved_base + k]]

\* The scalars of a script whose callee has returned.
LEMMA ReturnedNow == ASSUME SitesFresh PROVE ReturnedTop => ReturnedView
<1> SUFFICES ASSUME ReturnedTop, NEW i, i = Len(frames)
             PROVE  /\ ArgsOf(i) = [k \in Slots(NArgs[Top.scr]) |->
                          Written(Top.site.out, "arg", arg_base, args_stack, args_stack, CalleeArgBase)[arg_base + k]]
                    /\ SavedOf(i) = [k \in Slots(NSaved[Top.scr]) |->
                          Written(Top.site.out, "saved", saved_base, saved_stack, args_stack, CalleeArgBase)[saved_base + k]]
  BY DEF ReturnedView
<1>1. frames[i] = Top /\ Top.pc = "returned" /\ Innermost(i) /\ ArgBase(i) = arg_base /\ SavedBase(i) = saved_base
  BY DEF ReturnedTop, Top, Innermost, ArgBase, SavedBase
<1>2. /\ ArgsOf(i) = [k \in Slots(NArgs[Top.scr]) |-> WrittenBack("arg", arg_base, args_stack)[arg_base + k]]
      /\ SavedOf(i) = [k \in Slots(NSaved[Top.scr]) |-> WrittenBack("saved", saved_base, saved_stack)[saved_base + k]]
  BY <1>1 DEF ArgsOf, SavedOf, Effective
<1>3. /\ WrittenBack("arg", arg_base, args_stack)
           = Written(Top.site.out, "arg", arg_base, args_stack, args_stack, CalleeArgBase)
      /\ WrittenBack("saved", saved_base, saved_stack)
           = Written(Top.site.out, "saved", saved_base, saved_stack, args_stack, CalleeArgBase)
  BY DEF WrittenBack, Written
<1> QED
  BY <1>2, <1>3

\* The same in the next state.
LEMMA ReturnedNext == ASSUME SitesFresh PROVE ReturnedTop' => ReturnedView'
  BY ReturnedNow, PTL

\* The writebacks as the abstract call describes them.
Copied(c, args, kind, slots) == [k \in DOMAIN slots |-> Calls!CopiedBack(c, args, kind, k, slots[k])]

\* The caller sees its in/out scalars written, nothing else.
LEMMA ReturnsScalars ==
  ASSUME SitesFresh, FrameInv, ListFrameInv, Return, NEW m, m = Len(frames) - 1, NEW n, n = Len(frames)
  PROVE  /\ ArgsOf(m)' = Copied(Caller.site, ArgsOf(n), "arg", ArgsOf(m))
         /\ SavedOf(m)' = Copied(Caller.site, ArgsOf(n), "saved", SavedOf(m))
<1> PICK c, s, t : c = Caller.site /\ s = Caller.scr /\ t = Top.scr
  OBVIOUS
<1>1. /\ m + 1 = n /\ m # n /\ Len(frames') = m /\ frames # <<>> /\ m \in 1 .. m /\ m \in 1 .. n /\ Kept(m)
      /\ Len(frames) > 1 /\ n \in Nat /\ n > 1 /\ Top.pc = "row" /\ frames[m] = Caller /\ frames'[m] = Top'
      /\ Top'.pc = "returned" /\ Top'.site = c /\ Top'.scr = s /\ c.sub = t /\ s \in Scripts /\ c \in Sites[s]
  BY ReturnsFrame, SMTT(30)
<1>2. PICK b, d, q, A, D : b = ArgBase(m) /\ d = SavedBase(m) /\ q = arg_base /\ A = args_stack /\ D = saved_stack
  OBVIOUS
<1>3. /\ b \in Nat /\ d \in Nat /\ q = b + NArgs[s] /\ NArgs[s] \in Nat /\ NSaved[s] \in Nat
      /\ b + NArgs[s] <= ArgSlots /\ d + NSaved[s] <= SavedSlots /\ ArgSlots \in Nat /\ SavedSlots \in Nat
      /\ DOMAIN A = Slots(ArgSlots) /\ DOMAIN D = Slots(SavedSlots)
  <2>1. ArgBase(m) = Top.old.arg /\ SavedBase(m) = Top.old.saved
    BY <1>1 DEF ArgBase, SavedBase, Innermost, Top
  <2>2. Top.old.arg \in Nat /\ Top.old.saved \in Nat /\ arg_base = Top.old.arg + NArgs[s]
    BY <1>1, CallerFacts
  <2>3. Fit(m)
    BY <1>1 DEF FrameInv, AllFit
  <2>4. NArgs[s] \in Nat /\ NSaved[s] \in Nat
    BY <1>1, ShapesAssumption DEF ShapesAssumption
  <2>5. /\ ArgSlots \in Nat /\ SavedSlots \in Nat
        /\ DOMAIN args_stack = Slots(ArgSlots) /\ DOMAIN saved_stack = Slots(SavedSlots)
    BY <1>1, TopFacts DEF TypeOK
  <2> QED
    BY <1>1, <1>2, <2>1, <2>2, <2>3, <2>4, <2>5 DEF Fit
<1>4. args_stack' = A /\ saved_stack' = D /\ arg_base' = b /\ saved_base' = d /\ CalleeArgBase' = q
  <2>1. arg_base' = Top.old.arg /\ saved_base' = Top.old.saved /\ args_stack' = args_stack /\ saved_stack' = saved_stack
    BY DEF Return
  <2>2. ArgBase(m) = Top.old.arg /\ SavedBase(m) = Top.old.saved
    BY <1>1 DEF ArgBase, SavedBase, Innermost, Top
  <2> QED
    BY <1>1, <1>2, <1>3, <2>1, <2>2 DEF CalleeArgBase
<1>6. /\ ArgsOf(m) = [k \in Slots(NArgs[s]) |-> A[b + k]]
      /\ SavedOf(m) = [k \in Slots(NSaved[s]) |-> D[d + k]]
  BY <1>1, <1>2 DEF ArgsOf, SavedOf, Effective, Innermost
<1>7. ArgsOf(n) = [k \in Slots(NArgs[t]) |-> A[q + k]]
  <2>1. frames[n] = Top /\ ArgBase(n) = arg_base
    BY DEF Top, ArgBase, Innermost
  <2> QED
    BY <1>1, <1>2, <2>1 DEF ArgsOf, Effective, Innermost
<1>8. /\ ArgsOf(m)' = [k \in Slots(NArgs[s]) |-> Written(c.out, "arg", b, A, A, q)[b + k]]
      /\ SavedOf(m)' = [k \in Slots(NSaved[s]) |-> Written(c.out, "saved", d, D, A, q)[d + k]]
  <2>1. ReturnedTop'
    <3>1. frames' # <<>>
      <4>1. Len(<<>>) = 0
        OBVIOUS
      <4>2. Len(frames') # 0
        BY <1>1
      <4> QED
        BY <4>1, <4>2
    <3> QED
      BY <1>1, <3>1 DEF ReturnedTop
  <2>2. ReturnedView'
    BY <2>1, ReturnedNext
  <2>3. m = Len(frames')
    BY <1>1
  <2>4. /\ ArgsOf(m)' = [k \in Slots(NArgs[Top'.scr]) |->
                      Written(Top'.site.out, "arg", arg_base', args_stack', args_stack', CalleeArgBase')[arg_base' + k]]
        /\ SavedOf(m)' = [k \in Slots(NSaved[Top'.scr]) |->
                       Written(Top'.site.out, "saved", saved_base', saved_stack', args_stack', CalleeArgBase')[saved_base' + k]]
    BY <2>2, <2>3 DEF ReturnedView
  <2> QED
    BY <1>1, <1>4, <2>4
<1>9. NArgs[t] \in Nat /\ DOMAIN c.out \subseteq Slots(NArgs[t])
  BY <1>1, SiteFacts
<1>10. ASSUME NEW k \in Slots(NArgs[s])
       PROVE  Written(c.out, "arg", b, A, A, q)[b + k] = Calls!CopiedBack(c, ArgsOf(n), "arg", k, A[b + k])
  <2> PICK kind, old, args, N, out, w : /\ kind = "arg" /\ old = A[b + k] /\ args = ArgsOf(n) /\ N = NArgs[t]
                                        /\ out = c.out /\ w = Written(c.out, "arg", b, A, A, q)[b + k]
    OBVIOUS
  <2>1. k \in Nat /\ b + k \in DOMAIN A
    BY <1>3, ShiftedSlot, SlotIsNat
  <2>2. b \in Nat
    BY <1>3
  <2>3. Written(out, kind, b, A, A, q)[b + k] = Back(out, kind, k, A[b + k], A, q)
    BY ONLY <2>1, <2>2, WrittenAt
  <2>4. N \in Nat /\ DOMAIN c.out \subseteq Slots(N) /\ ArgsAre(args, N, A, q)
    BY <1>7, <1>9 DEF ArgsAre
  <2>5. Back(c.out, kind, k, old, A, q) = Calls!CopiedBack(c, args, kind, k, old)
    BY ONLY <2>4, BackIs
  <2> QED
    BY <2>3, <2>5
<1>11. ASSUME NEW k \in Slots(NSaved[s])
       PROVE  Written(c.out, "saved", d, D, A, q)[d + k] = Calls!CopiedBack(c, ArgsOf(n), "saved", k, D[d + k])
  <2> PICK kind, old, args, N, out, w : /\ kind = "saved" /\ old = D[d + k] /\ args = ArgsOf(n) /\ N = NArgs[t]
                                        /\ out = c.out /\ w = Written(c.out, "saved", d, D, A, q)[d + k]
    OBVIOUS
  <2>1. k \in Nat /\ d + k \in DOMAIN D
    BY <1>3, ShiftedSlot, SlotIsNat
  <2>2. d \in Nat
    BY <1>3
  <2>3. Written(out, kind, d, D, A, q)[d + k] = Back(out, kind, k, D[d + k], A, q)
    BY ONLY <2>1, <2>2, WrittenAt
  <2>4. N \in Nat /\ DOMAIN c.out \subseteq Slots(N) /\ ArgsAre(args, N, A, q)
    BY <1>7, <1>9 DEF ArgsAre
  <2>5. Back(c.out, kind, k, old, A, q) = Calls!CopiedBack(c, args, kind, k, old)
    BY ONLY <2>4, BackIs
  <2> QED
    BY <2>3, <2>5
<1> QED
  BY <1>6, <1>8, <1>10, <1>11 DEF Copied

\* The callers below the one that is returned to are as before.
LEMMA ReturnsCallers ==
  ASSUME SitesFresh, FrameInv, FrameInv', ListFrameInv, KeepsCallers, Return,
         NEW n, n = Len(frames), NEW m, m = n - 1, NEW c, c = Caller.site
  PROVE  /\ \A i \in 1 .. m - 1 : EnvFrame(i)' = EnvFrame(i)
         /\ EnvFrame(m)' = FrameRec(Caller.scr, Copied(c, ArgsOf(n), "arg", ArgsOf(m)),
                                    Copied(c, ArgsOf(n), "saved", SavedOf(m)), Refs(Levels)[m], OwnOf(m),
                                    OpsOf(m) \o Yield, RunBy(m))
<1>1. /\ n \in Nat /\ m \in Nat /\ m \in 1 .. m /\ m \in 1 .. n /\ Kept(m)
      /\ Top'.scr = Caller.scr /\ frames'[m] = Top'
  BY ReturnsFrame
<1>2. AtHome' = AtHome
  BY ReturnsLevel
<1>3. Shape
  BY LevelsShape
<1>4. ASSUME NEW i \in 1 .. m
      PROVE  OwnOf(i)' = OwnOf(i)
  <2>0. i \in 1 .. n
    BY <1>1
  <2>1. Levels[i].base + Levels[i].lists <= Len(lists) /\ Len(lists) \in Nat
    BY <1>3, <2>0 DEF Shape, Reaches, Reach1
  <2> QED
    BY <1>1, <1>2, <2>1, KeptOwnOf
<1>5. ASSUME NEW i \in 1 .. m - 1
      PROVE  EnvFrame(i)' = EnvFrame(i)
  <2>1. i \in 1 .. m
    BY <1>1
  <2>2. OwnOf(i)' = OwnOf(i)
    BY <1>4, <2>1
  <2> QED
    BY <1>1, <2>2, KeptEnvFrame
<1>6. RunBy(m)' = RunBy(m) /\ Refs(Levels')[m] = Refs(Levels)[m] /\ OwnOf(m)' = OwnOf(m)
  BY <1>1, <1>4, KeptRunBy, KeptRefs
<1>7. OpsOf(m)' = OpsOf(m) \o Yield
  BY ReturnsOperands
<1>8. /\ ArgsOf(m)' = Copied(c, ArgsOf(n), "arg", ArgsOf(m)) /\ SavedOf(m)' = Copied(c, ArgsOf(n), "saved", SavedOf(m))
  BY ReturnsScalars
<1>9. EnvFrame(m)' = FrameRec(frames'[m].scr, ArgsOf(m)', SavedOf(m)', Refs(Levels')[m], OwnOf(m)', OpsOf(m)', RunBy(m)')
  BY EnvFrameIs
<1> QED
  BY <1>1, <1>5, <1>6, <1>7, <1>8, <1>9

\* One record gone from the top and the one below it changed.
LEMMA FrontIs ==
  ASSUME NEW n \in Nat, NEW m \in Nat, m <= n, NEW e, IsArray(e, n)
  PROVE  SubSeq(e, 1, m) = [i \in 1 .. m |-> e[i]]
<1> PICK S, g : S = {e[i] : i \in 1 .. n} /\ g = [i \in 1 .. m |-> e[i]]
  OBVIOUS
<1>1. \A i \in 1 .. n : e[i] \in S
  OBVIOUS
<1>2. e \in [1 .. n -> S] /\ g \in [1 .. m -> S]
  BY <1>1 DEF IsArray
<1>3. e \in Seq(S) /\ Len(e) = n /\ g \in Seq(S) /\ Len(g) = m
  BY <1>2, FunctionIsSeq
<1>4. /\ SubSeq(e, 1, m) \in Seq(S) /\ Len(SubSeq(e, 1, m)) = m
      /\ \A i \in 1 .. m : SubSeq(e, 1, m)[i] = e[i]
  <2>1. m \in 0 .. Len(e)
    BY <1>3
  <2> QED
    BY <1>3, <2>1, Shortened, SubSeqProperties
<1> QED
  BY <1>3, <1>4, SeqEqual

\* One record gone from the top and the one below it changed.
LEMMA Shrunk ==
  ASSUME NEW n \in Nat, NEW m \in Nat, 0 < m, m <= n, NEW e, IsArray(e, n), NEW f, IsArray(f, m), SameBefore(f, e, m)
  PROVE  f = Changed(SubSeq(e, 1, m), m, f[m])
<1> PICK r, g : r = f[m] /\ g = SubSeq(e, 1, m)
  OBVIOUS
<1>1. g = [i \in 1 .. m |-> e[i]]
  BY FrontIs
<1>2. [g EXCEPT ![m] = r] = [i \in 1 .. m |-> IF i = m THEN r ELSE e[i]]
  BY <1>1
<1>3. \A i \in 1 .. m : f[i] = IF i = m THEN r ELSE e[i]
  <2>1. \A i \in 1 .. m : i # m => i \in 1 .. m - 1
    OBVIOUS
  <2> QED
    BY <2>1 DEF SameBefore
<1> QED
  BY <1>2, <1>3 DEF Changed, IsArray

\* What a return of the abstract specification makes of the environments.
ReturnOf(e, t) ==
  LET value == IF Returns[t.scr] THEN <<t.ops[Len(t.ops)]>> ELSE <<>>
      c     == t.site
      caller == e[Len(e) - 1]
  IN  [SubSeq(e, 1, Len(e) - 1) EXCEPT
         ![Len(e) - 1] =
           [caller EXCEPT
              !.ops = @ \o value,
              !.args = [k \in DOMAIN @ |-> Calls!CopiedBack(c, t.args, "arg", k, @[k])],
              !.saved = [k \in DOMAIN @ |-> Calls!CopiedBack(c, t.args, "saved", k, @[k])]]]

Rewritten(u, x, y, z) == [u EXCEPT !.ops = x, !.args = y, !.saved = z]

\* The caller's record with operands, arguments and saved values replaced.
LEMMA FrameWritten ==
  ASSUME NEW u, NEW a, NEW b, NEW v, NEW d, NEW o, NEW f, NEW g, u = FrameRec(a, b, v, d, o, f, g), NEW x, NEW y, NEW z
  PROVE  Rewritten(u, x, y, z) = FrameRec(a, y, z, d, o, x, g)
<1>1. PICK r1 : r1 = [u EXCEPT !.ops = x]
  OBVIOUS
<1>2. PICK r2 : r2 = [r1 EXCEPT !.args = y]
  OBVIOUS
<1>3. [u EXCEPT !.ops = x, !.args = y, !.saved = z] = [r2 EXCEPT !.saved = z]
  BY <1>1, <1>2, Zenon
<1>4. r1 = FrameRec(a, b, v, d, o, x, g)
  <2>1. [u EXCEPT !.ops = x] = FrameRec(a, b, v, d, o, x, g)
    BY FrameFields
  <2> QED
    BY <1>1, <2>1
<1>5. r2 = FrameRec(a, y, v, d, o, x, g)
  <2>1. [r1 EXCEPT !.args = y] = FrameRec(a, y, v, d, o, x, g)
    BY <1>4, FrameFields
  <2> QED
    BY <1>2, <2>1
<1>6. [r2 EXCEPT !.saved = z] = FrameRec(a, y, z, d, o, x, g)
  BY <1>5, FrameFields
<1> QED
  BY <1>3, <1>6 DEF Rewritten

\* ReturnOf in terms of the records.
LEMMA ReturnOfIs ==
  ASSUME NEW e, NEW m, m = Len(e) - 1, NEW a, NEW b, NEW v, NEW d, NEW o, NEW f, NEW g,
         NEW u, e[m] = u, u = FrameRec(a, b, v, d, o, f, g), NEW t,
         NEW value, value = IF Returns[t.scr] THEN <<t.ops[Len(t.ops)]>> ELSE <<>>
  PROVE  ReturnOf(e, t) = Changed(SubSeq(e, 1, m), m,
           FrameRec(a, Copied(t.site, t.args, "arg", b), Copied(t.site, t.args, "saved", v), d, o, f \o value, g))
<1> DEFINE x == f \o value
           y == Copied(t.site, t.args, "arg", b)
           z == Copied(t.site, t.args, "saved", v)
<1>1. u.ops = f /\ u.args = b /\ u.saved = v
  BY FrameFields
<1>2. u.ops \o value = x
  BY <1>1
<1>3. [k \in DOMAIN u.args |-> Calls!CopiedBack(t.site, t.args, "arg", k, u.args[k])] = y
  BY <1>1 DEF Copied
<1>4. [k \in DOMAIN u.saved |-> Calls!CopiedBack(t.site, t.args, "saved", k, u.saved[k])] = z
  BY <1>1 DEF Copied
<1>5. ReturnOf(e, t) = [SubSeq(e, 1, m) EXCEPT ![m] =
        Rewritten(u, u.ops \o value,
          [k \in DOMAIN u.args |-> Calls!CopiedBack(t.site, t.args, "arg", k, u.args[k])],
          [k \in DOMAIN u.saved |-> Calls!CopiedBack(t.site, t.args, "saved", k, u.saved[k])])]
  BY Zenon DEF ReturnOf, Rewritten
<1> HIDE DEF x, y, z
<1>7. Rewritten(u, x, y, z) = FrameRec(a, y, z, d, o, x, g)
  <2>1. u = FrameRec(a, b, v, d, o, f, g)
    OBVIOUS
  <2> QED
    BY ONLY <2>1, FrameWritten
<1>8. ReturnOf(e, t) = Changed(SubSeq(e, 1, m), m, FrameRec(a, y, z, d, o, x, g))
  BY <1>2, <1>3, <1>4, <1>5, <1>7, Zenon DEF Changed
<1> QED
  BY <1>8, Zenon DEF x, y, z

\* execute_script's tail is a return of the abstract run.
LEMMA ReturnMaps ==
  ASSUME SitesFresh, FrameInv, FrameInv', ListFrameInv, KeepsCallers, Return
  PROVE  Calls!Return
<1> PICK n, m, c : n = Len(frames) /\ m = n - 1 /\ c = Caller.site
  OBVIOUS
<1>1. /\ n \in Nat /\ n > 1 /\ n \in 1 .. n /\ m \in Nat /\ m > 0 /\ m \in 1 .. m /\ m \in 1 .. n
      /\ frames # <<>> /\ ~throwing /\ ~throwing' /\ InRow /\ frames[m] = Caller /\ Len(frames') = m
  BY ReturnsFrame
<1>2. UNCHANGED <<HostContents, Result>>
  BY ReturnsHost
<1>3. /\ Env # <<>>
      /\ Calls!Top.scr = Top.scr /\ Calls!Top.ops = OpsOf(n) /\ Calls!Top.args = ArgsOf(n) /\ Calls!Top.site = RunBy(n)
  BY <1>1, TopIs
<1>4. RunBy(n) = c
  BY <1>1 DEF RunBy
<1>5. Len(Env) = n /\ DOMAIN Env = 1 .. n /\ \A i \in 1 .. n : Env[i] = EnvFrame(i)
  BY <1>1, EnvFacts
<1>6. Env' = [i \in 1 .. m |-> EnvFrame(i)']
  BY <1>1, EnvNext
<1>7. Env = [i \in 1 .. n |-> Env[i]]
  <2>1. Env = [i \in 1 .. n |-> EnvFrame(i)]
    BY <1>1, EnvIs
  <2> QED
    BY <2>1
<1>8. /\ \A i \in 1 .. m - 1 : EnvFrame(i)' = EnvFrame(i)
      /\ EnvFrame(m)' = FrameRec(Caller.scr, Copied(c, ArgsOf(n), "arg", ArgsOf(m)),
                                 Copied(c, ArgsOf(n), "saved", SavedOf(m)), Refs(Levels)[m], OwnOf(m),
                                 OpsOf(m) \o Yield, RunBy(m))
  BY ReturnsCallers
<1>9. Env' = Changed(SubSeq(Env, 1, m), m, Env'[m])
  <2>1. PICK e, f : e = Env /\ f = Env'
    OBVIOUS
  <2>2. IsArray(e, n)
    BY <1>5, <1>7, <2>1 DEF IsArray
  <2>3. IsArray(f, m)
    BY <1>6, <2>1 DEF IsArray
  <2>4. SameBefore(f, e, m)
    <3> USE DEF SameBefore
    <3> TAKE i \in 1 .. m - 1
    <3>1. i \in 1 .. n /\ i \in 1 .. m
      BY <1>1
    <3>2. f[i] = EnvFrame(i)' /\ e[i] = EnvFrame(i)
      BY <1>5, <1>6, <2>1, <3>1
    <3> QED
      BY <1>8, <3>2
  <2>5. m <= n
    BY <1>1
  <2>6. f = Changed(SubSeq(e, 1, m), m, f[m])
    BY ONLY <1>1, <2>2, <2>3, <2>4, <2>5, Shrunk
  <2> QED
    BY <2>1, <2>6
<1>10. Env'[m] = EnvFrame(m)'
  BY <1>1, <1>6
<1>11. Env[m] = FrameRec(Caller.scr, ArgsOf(m), SavedOf(m), Refs(Levels)[m], OwnOf(m), OpsOf(m), RunBy(m))
  BY <1>1, <1>5, EnvFrameIs
<1>12. Yield = IF Returns[Calls!Top.scr] THEN <<Calls!Top.ops[Len(Calls!Top.ops)]>> ELSE <<>>
  BY <1>3 DEF Yield
<1>13. Returns[Calls!Top.scr] => Calls!Top.ops # <<>>
  <2>1. Returns[Top.scr] => Len(stack) > frame_base
    BY DEF Return
  <2>2. Returns[Top.scr] => OpsOf(n) # <<>>
    BY <1>1, <2>1, YieldIs
  <2> QED
    BY <1>3, <2>2
<1>14. Env' = ReturnOf(Env, Calls!Top)
  <2>1. PICK e, t : e = Env /\ t = Calls!Top
    OBVIOUS
  <2>2. PICK a, b, v, d, o, f, g : /\ a = Caller.scr /\ b = ArgsOf(m) /\ v = SavedOf(m)
                                   /\ d = Refs(Levels)[m] /\ o = OwnOf(m) /\ f = OpsOf(m) /\ g = RunBy(m)
    OBVIOUS
  <2>3. PICK u, value : u = e[m] /\ value = Yield
    OBVIOUS
  <2>4. m = Len(e) - 1 /\ u = FrameRec(a, b, v, d, o, f, g) /\ e[m] = u
    BY <1>5, <1>11, <2>1, <2>2, <2>3
  <2>5. value = IF Returns[t.scr] THEN <<t.ops[Len(t.ops)]>> ELSE <<>>
    BY <1>12, <2>1, <2>3
  <2>6. ReturnOf(e, t) = Changed(SubSeq(e, 1, m), m,
           FrameRec(a, Copied(t.site, t.args, "arg", b), Copied(t.site, t.args, "saved", v), d, o, f \o value, g))
    BY ONLY <2>4, <2>5, ReturnOfIs
  <2>7. t.site = c /\ t.args = ArgsOf(n)
    BY <1>3, <1>4, <2>1
  <2>8. Env'[m] = FrameRec(a, Copied(t.site, t.args, "arg", b), Copied(t.site, t.args, "saved", v), d, o, f \o value, g)
    BY <1>8, <1>10, <2>2, <2>3, <2>7, Zenon
  <2> QED
    BY <1>9, <2>1, <2>6, <2>8
<1>15. Len(Env) # 1
  BY <1>1, <1>5
<1> QED
  BY <1>2, <1>3, <1>13, <1>14, <1>15, Zenon DEF Calls!Return, ReturnOf

\* The last row of the outermost script is its last return.
LEMMA FinishMaps ==
  ASSUME SitesFresh, FrameInv, FrameInv', Finish
  PROVE  Calls!Return
<1>1. /\ InRow /\ Len(frames) = 1 /\ frames # <<>> /\ ~throwing /\ frames' = <<>> /\ lists' = lists
      /\ Returns[Top.scr] => Len(stack) > frame_base
      /\ return_value' = IF Returns[Top.scr] THEN stack[Len(stack)] ELSE return_value
  BY DEF Finish, InRow, Running
<1>2. HostContents = lists /\ Result = return_value
  BY <1>1, OneLevel DEF NothingOpen, InRow
<1>3. Env' = <<>> /\ HostContents' = lists' /\ Result' = return_value'
  BY <1>1, HostNext DEF AtRest, HostView
<1>4. /\ Env # <<>> /\ Calls!Top.scr = Top.scr /\ Calls!Top.ops = OpsOf(1)
  BY <1>1, TopIs
<1>5. Len(Env) = 1
  BY <1>1, EnvFacts
<1>6. PICK value : value = Yield
  OBVIOUS
<1>7. value = IF Returns[Calls!Top.scr] THEN <<Calls!Top.ops[Len(Calls!Top.ops)]>> ELSE <<>>
  BY <1>1, <1>4, <1>6 DEF Yield
<1>8. /\ Returns[Top.scr] => OpsOf(1) # <<>>
      /\ Yield = IF Returns[Top.scr] THEN <<stack[Len(stack)]>> ELSE <<>>
  BY <1>1, YieldIs
<1>9. Returns[Calls!Top.scr] => Calls!Top.ops # <<>>
  BY <1>4, <1>8
<1>10. Result' = IF value = <<>> THEN Result ELSE value[1]
  <2>1. CASE Returns[Top.scr]
    <3>1. value = <<stack[Len(stack)]>>
      BY <1>6, <1>8, <2>1
    <3>2. value # <<>> /\ value[1] = stack[Len(stack)]
      BY <3>1
    <3> QED
      BY <1>1, <1>3, <2>1, <3>2
  <2>2. CASE ~Returns[Top.scr]
    BY <1>1, <1>2, <1>3, <1>6, <1>8, <2>2
  <2> QED
    BY <2>1, <2>2
<1>11. HostContents' = HostContents
  BY <1>1, <1>2, <1>3
<1> QED
  BY <1>3, <1>4, <1>5, <1>7, <1>9, <1>10, <1>11, Zenon DEF Calls!Return

\* The mapping begins where ScriptCalls does.
LEMMA InitMaps ==
  ASSUME SitesFresh, FrameInv, Init
  PROVE  Calls!Init
<1>1. frames = <<>> /\ lists = <<>> /\ return_value = Unset
  BY DEF Init
<1>2. HostView
  BY <1>1, HostNow DEF AtRest
<1> QED
  BY <1>1, <1>2 DEF HostView, Calls!Init

-----------------------------------------------------------------------------
(* Every step                                                               *)

Hidden == UNCHANGED <<Env, HostContents, Result>>

\* The host's steps.
LEMMA HostMaps ==
  ASSUME SitesFresh, FrameInv, FrameInv', Host
  PROVE  Calls!Next \/ Hidden
<1>1. ASSUME NEW s \in Roots, CreateLists(s)
      PROVE  Calls!Next
  <2>1. s \in Scripts
    BY ShapesAssumption
  <2>2. Calls!CreateLists(s)
    BY <1>1, CreateListsMaps
  <2> QED
    BY <2>1, <2>2, Zenon DEF Calls!Next
<1>2. ASSUME NEW s \in Roots, Process(s)
      PROVE  Calls!Next
  <2>1. s \in Scripts
    BY ShapesAssumption
  <2>2. Calls!Run(s)
    BY <1>2, <2>1, ProcessMaps
  <2> QED
    BY <2>1, <2>2, Zenon DEF Calls!Next
<1>3. ASSUME NEW k, NEW v, HostSetArg(k, v)
      PROVE  Hidden
  BY <1>3, HostSetArgUnseen DEF Hidden
<1>4. ASSUME Clear
      PROVE  Calls!Next
  BY <1>4, ClearMaps, Zenon DEF Calls!Next
<1> QED
  BY <1>1, <1>2, <1>3, <1>4, Zenon DEF Host

\* The rows of a script.
LEMMA RowMaps ==
  ASSUME SitesFresh, FrameInv, FrameInv', KeepsCallers, Row
  PROVE  Calls!Next
<1>1. ASSUME NEW v \in Vals, PushOperand(v)
      PROVE  Calls!Next
  <2>1. Calls!PushOperand(v) /\ Env # <<>>
    BY <1>1, PushMaps DEF Calls!PushOperand
  <2> QED
    BY <2>1, Zenon DEF Calls!Next, Calls!Row
<1>2. ASSUME PopOperand
      PROVE  Calls!Next
  <2>1. Calls!PopOperand /\ Env # <<>>
    BY <1>2, PopMaps DEF Calls!PopOperand
  <2> QED
    BY <2>1, Zenon DEF Calls!Next, Calls!Row
<1>3. ASSUME NEW k \in Slots(ArgSlots), NEW i, SetArgument(k, i)
      PROVE  Calls!Next
  <2>1. PICK j \in DOMAIN Calls!Top.ops, consumed \in BOOLEAN :
          k \in DOMAIN Calls!Top.args /\ Calls!SetArgument(k, j, consumed)
    BY <1>3, SetArgumentMaps, Zenon
  <2>2. Env # <<>>
    BY <2>1, Zenon DEF Calls!SetArgument
  <2> QED
    BY <2>1, <2>2, Zenon DEF Calls!Next, Calls!Row
<1>4. ASSUME NEW k \in Slots(SavedSlots), NEW i, SetSaved(k, i)
      PROVE  Calls!Next
  <2>1. PICK j \in DOMAIN Calls!Top.ops, consumed \in BOOLEAN :
          k \in DOMAIN Calls!Top.saved /\ Calls!SetSaved(k, j, consumed)
    BY <1>4, SetSavedMaps, Zenon
  <2>2. Env # <<>>
    BY <2>1, Zenon DEF Calls!SetSaved
  <2> QED
    BY <2>1, <2>2, Zenon DEF Calls!Next, Calls!Row
<1>5. ASSUME NEW s \in Scripts, NEW l \in Slots(NLists[s])
      PROVE  l \in Nat
  BY ShapesAssumption DEF Slots
<1>6. ASSUME NEW l \in Nat, ClearList(l)
      PROVE  Calls!Next
  <2>1. l \in DOMAIN Calls!Top.ref /\ Calls!ClearList(l)
    BY <1>6, ClearListMaps
  <2>2. Env # <<>>
    BY <2>1, Zenon DEF Calls!ClearList
  <2> QED
    BY <2>1, <2>2, Zenon DEF Calls!Next, Calls!Row
<1>7. ASSUME NEW l \in Nat, NEW v \in Vals, AddTo(l, v)
      PROVE  Calls!Next
  <2>1. l \in DOMAIN Calls!Top.ref /\ Calls!AddTo(l, v)
    BY <1>7, AddToMaps
  <2>2. Env # <<>>
    BY <2>1, Zenon DEF Calls!AddTo
  <2> QED
    BY <2>1, <2>2, Zenon DEF Calls!Next, Calls!Row
<1>8. ASSUME Throw
      PROVE  Calls!Next
  <2>1. /\ frames # <<>> /\ ~throwing /\ throwing' = TRUE
        /\ UNCHANGED <<frames, lists, bases, return_value>>
    BY <1>8 DEF Throw, InRow, Running, stores
  <2>2. Calls!Abandon
    BY <2>1, ThrowMaps
  <2> QED
    BY <2>2, Zenon DEF Calls!Next
<1>9. ASSUME \E s \in Scripts : \E l \in Slots(NLists[s]) : ClearList(l) \/ \E v \in Vals : AddTo(l, v)
      PROVE  Calls!Next
  BY <1>5, <1>6, <1>7, <1>9, Zenon
<1> QED
  BY <1>1, <1>2, <1>3, <1>4, <1>8, <1>9, Zenon DEF Row

\* The phases of a call site.
LEMMA CallSiteMaps ==
  ASSUME SitesFresh, FrameInv, FrameInv', ListFrameInv, ListFrameInv', KeepsCallers, CallSite
  PROVE  Calls!Next \/ Hidden
<1>1. ASSUME NEW s \in Scripts, NEW c \in Sites[s], ListFrameEnter(c)
      PROVE  Hidden
  BY <1>1, EnterUnseen DEF Hidden
<1>2. ASSUME ExecuteScript
      PROVE  Calls!Next
  <2>1. Top.scr \in Scripts /\ Top.site \in Sites[Top.scr] /\ Calls!Call(Top.site)
    BY <1>2, CallMaps
  <2> QED
    BY <2>1, Zenon DEF Calls!Next
<1>3. ASSUME ExecuteRefused
      PROVE  Calls!Next
  BY <1>3, RefusedMaps, Zenon DEF Calls!Next
<1>4. ASSUME ExecuteTooDeep
      PROVE  Calls!Next
  <2>1. /\ frames # <<>> /\ ~throwing /\ throwing' = TRUE
        /\ UNCHANGED <<frames, lists, bases, return_value>>
    BY <1>4 DEF ExecuteTooDeep, InPhase, Running, stores
  <2>2. Calls!Abandon
    BY <2>1, ThrowMaps
  <2> QED
    BY <2>2, Zenon DEF Calls!Next
<1>5. ASSUME Return
      PROVE  Calls!Next
  BY <1>5, ReturnMaps, Zenon DEF Calls!Next
<1>6. SwapIn => Hidden
  BY SwapInUnseen DEF Hidden
<1>7. WriteBack => Hidden
  BY WriteBackUnseen DEF Hidden
<1>8. SwapOut => Hidden
  BY SwapOutUnseen DEF Hidden
<1>9. ListFrameExit => Hidden
  BY ExitUnseen DEF Hidden
<1> QED
  BY <1>1, <1>2, <1>3, <1>4, <1>5, <1>6, <1>7, <1>8, <1>9, Zenon DEF CallSite

\* An exception in flight is out of sight.
LEMMA UnwindHidden ==
  ASSUME SitesFresh, FrameInv, FrameInv', ListFrameInv, Unwind
  PROVE  Hidden
BY ToHostUnseen, CalleeUnseen DEF Unwind, Hidden

\* Every step of ExecuteFrames is one of ScriptCalls or a stutter.
LEMMA StepMaps ==
  ASSUME SitesFresh, FrameInv, FrameInv', ListFrameInv, ListFrameInv', [KeepsCallers]_vars, [Next]_vars
  PROVE  [Calls!Next]_<<Env, HostContents, Result>>
<1>1. CASE UNCHANGED vars
  <2>1. Hidden
    BY <1>1 DEF Hidden, vars, stores, bases, Env, HostContents, Result, EnvFrame, ArgsOf, SavedOf, Effective, WrittenBack,
       OwnOf, OpsOf, RunBy, HostLists, Levels, Level, ListBase, ArgBase, SavedBase, FrameBase, Innermost, Top,
       CalleeArgBase
  <2> QED
    BY <2>1 DEF Hidden
<1>2. CASE KeepsCallers /\ Next
  <2>1. Finish => Calls!Next
    BY FinishMaps, Zenon DEF Calls!Next
  <2>2. Calls!Next \/ Hidden
    BY <1>2, <2>1, HostMaps, RowMaps, CallSiteMaps, UnwindHidden, Zenon DEF Next
  <2> QED
    BY <2>2 DEF Hidden
<1> QED
  BY <1>1, <1>2

(***************************************************************************)
(* THEOREM.  `execute` gives every script an environment of its own: over  *)
(* the flat stores, the moving bases and the swapped list slots, any       *)
(* program behaves as the one with private arguments, saved values,        *)
(* operands and lists, whose only shared state is the lists a call site    *)
(* binds and the in/out scalars it gets back on return.  Call, return,     *)
(* refusal and exceptions at any depth are covered; the exception that the *)
(* depth limit raises with a list frame open is not, since nothing undoes  *)
(* that frame's swaps.                                                     *)
(***************************************************************************)
THEOREM CallsAreIsolated == ASSUME SitesFresh PROVE Spec /\ []TooDeepHarmless => CallsIsolated
<1>1. FrameInv /\ Init => Calls!Init
  BY InitMaps
<1>2. FrameInv /\ FrameInv' /\ ListFrameInv /\ ListFrameInv' /\ [Next]_vars => [Calls!Next]_(Calls!vars)
  <2> SUFFICES ASSUME FrameInv, FrameInv', ListFrameInv, ListFrameInv', [Next]_vars
               PROVE  [Calls!Next]_(Calls!vars)
    OBVIOUS
  <2>1. [KeepsCallers]_vars
    BY NextKeeps
  <2>2. [Calls!Next]_<<Env, HostContents, Result>>
    BY <2>1, StepMaps
  <2> QED
    BY <2>2 DEF Calls!vars
<1> QED
  BY <1>1, <1>2, FramesLinked, ListFramesGapless, PTL DEF Spec, CallsIsolated, Calls!Spec

\* The steps of an exception.
LEMMA ThrowingKeepsHost ==
  ASSUME SitesFresh, FrameInv, FrameInv', ListFrameInv, throwing, [Next]_vars
  PROVE  HostContents' = HostContents
<1>1. ~Host /\ ~Row /\ ~CallSite /\ ~Finish
  <2>1. frames # <<>>
    BY DEF FrameInv, ContextReusable
  <2>2. ~Host
    BY <2>1 DEF Host, CreateLists, HostSetArg, Clear, Process
  <2>3. ~Row
    BY DEF Row, PushOperand, PopOperand, SetArgument, SetSaved, AddTo, ClearList, Throw, InRow, Running
  <2>4. ~CallSite
    BY DEF CallSite, ListFrameEnter, SwapIn, ExecuteScript, ExecuteRefused, ExecuteTooDeep, Return, WriteBack, SwapOut,
       ListFrameExit, InRow, InPhase, Running
  <2>5. ~Finish
    BY DEF Finish, InRow, Running
  <2> QED
    BY <2>2, <2>3, <2>4, <2>5
<1>2. CASE Unwind
  BY <1>2, UnwindHidden DEF Hidden
<1>3. CASE UNCHANGED vars
  BY <1>3 DEF vars, stores, bases, HostContents, HostLists, Levels, Level, ListBase, Innermost, Top
<1> QED
  BY <1>1, <1>2, <1>3 DEF Next

(***************************************************************************)
(* THEOREM.  "Completed list mutations are retained": while an exception   *)
(* leaves the nested execute_script calls, whose handlers swap the bound   *)
(* lists back and drop the list frames, the host's lists keep their        *)
(* number and their contents.  The depth limit's own exception, met with a *)
(* list frame open, is the one that loses them.                            *)
(***************************************************************************)
THEOREM ListMutationsRetained == ASSUME SitesFresh PROVE Spec /\ []TooDeepHarmless => MutationsRetained
<1>1. FrameInv /\ FrameInv' /\ ListFrameInv /\ [Next]_vars => [throwing => HostContents' = HostContents]_vars
  BY ThrowingKeepsHost
<1> QED
  BY <1>1, FramesLinked, ListFramesGapless, PTL DEF Spec, MutationsRetained

-----------------------------------------------------------------------------
(* Programs that never meet the depth limit                                 *)

\* A script is compiled after the ones it calls: without recursion through
\* the resolver the calls are ranked, and ranks up to the depth limit are
\* never refused.
Ranked(rank) ==
  /\ rank \in [Scripts -> 0 .. MaxDepth]
  /\ \A s \in Scripts : \A c \in Sites[s] : rank[c.sub] < rank[s]

NestsWithin == \E rank \in [Scripts -> 0 .. MaxDepth] : Ranked(rank)

\* Frame i runs a script whose rank leaves room for the frames below it.
LEMMA RankFalls ==
  ASSUME FrameInv, NEW rank, Ranked(rank), NEW i \in 1 .. Len(frames)
  PROVE  frames[i].scr \in Scripts /\ rank[frames[i].scr] + i <= MaxDepth + 1
<1> DEFINE N == Len(frames)
           T == {j \in Nat : j + 1 \in 1 .. N => rank[frames[j + 1].scr] + (j + 1) <= MaxDepth + 1}
<1>1. /\ N \in Nat /\ \A j \in 1 .. N : frames[j].scr \in Scripts
      /\ MaxDepth \in Nat /\ \A s \in Scripts : rank[s] \in Nat /\ rank[s] <= MaxDepth
  <2>1. frames \in Seq(FrameType)
    BY DEF FrameInv, TypeOK
  <2>2. N \in Nat /\ \A j \in 1 .. N : frames[j] \in FrameType
    BY <2>1, LenProperties, ElementOfSeq
  <2> QED
    BY <2>2, LimitsAssumption DEF Ranked, FrameType
<1>2. 0 \in T
  BY <1>1
<1>3. ASSUME NEW j \in T, j < N
      PROVE  j + 1 \in T
  <2> SUFFICES ASSUME j + 2 \in 1 .. N
               PROVE  rank[frames[j + 2].scr] + (j + 2) <= MaxDepth + 1
    BY <1>1
  <2>1. j \in Nat /\ j + 1 \in 1 .. N - 1 /\ j + 1 \in 1 .. N /\ (j + 1) + 1 = j + 2
    BY <1>1
  <2>2. Link(j + 1)
    BY <2>1 DEF FrameInv, AllLinked
  <2>3. frames[j + 1].site \in Sites[frames[j + 1].scr] /\ frames[j + 2].scr = frames[j + 1].site.sub
    BY <2>1, <2>2 DEF Link
  <2>4. frames[j + 1].scr \in Scripts /\ frames[j + 2].scr \in Scripts
    BY <1>1, <2>1
  <2>5. rank[frames[j + 2].scr] < rank[frames[j + 1].scr]
    BY <2>3, <2>4 DEF Ranked
  <2>6. rank[frames[j + 1].scr] + (j + 1) <= MaxDepth + 1
    BY <2>1
  <2>7. rank[frames[j + 2].scr] \in Nat /\ rank[frames[j + 1].scr] \in Nat
    BY <1>1, <2>4
  <2> QED
    BY ONLY <1>1, <2>1, <2>5, <2>6, <2>7
<1>4. 0 .. N \subseteq T
  <2>1. T \in SUBSET Nat
    OBVIOUS
  <2> HIDE DEF T
  <2> QED
    BY <1>1, <1>2, <1>3, <2>1, InductionUpTo
<1>5. i - 1 \in 0 .. N /\ i \in 1 .. N /\ (i - 1) + 1 = i
  BY <1>1
<1>6. i - 1 \in T
  <2> HIDE DEF T
  <2> QED
    BY <1>4, <1>5
<1> QED
  BY <1>1, <1>5, <1>6

\* A script that calls at the depth limit would have rank zero and call nothing.
LEMMA RankedIsHarmless ==
  ASSUME SitesFresh, FrameInv, NestsWithin
  PROVE  TooDeepHarmless
<1> SUFFICES ASSUME InPhase("swapped"), execute_depth >= MaxDepth
             PROVE  FALSE
  BY DEF TooDeepHarmless
<1>1. frames # <<>> /\ Top.pc = "swapped"
  BY DEF InPhase, Running
<1>2. PICK rank : Ranked(rank)
  BY DEF NestsWithin
<1>3. execute_depth = Len(frames) - 1 /\ Len(frames) \in Nat /\ Len(frames) \in 1 .. Len(frames) /\ MaxDepth \in Nat
  <2>1. Len(frames) \in Nat /\ Len(frames) >= 1
    BY <1>1, TopFacts
  <2> QED
    BY <1>1, <2>1, LimitsAssumption DEF FrameInv, ContextReusable
<1>4. PICK n : n = Len(frames)
  OBVIOUS
<1>5. Top.scr \in Scripts /\ rank[Top.scr] + n <= MaxDepth + 1
  BY <1>2, <1>3, <1>4, RankFalls DEF Top
<1>6. Top.site \in Sites[Top.scr] /\ Top.site.sub \in Scripts
  BY <1>1, OpenSite
<1>7. rank[Top.site.sub] \in Nat /\ rank[Top.scr] \in Nat /\ rank[Top.site.sub] < rank[Top.scr]
  BY <1>2, <1>3, <1>5, <1>6 DEF Ranked
<1> QED
  BY <1>3, <1>4, <1>5, <1>7

(***************************************************************************)
(* THEOREM.  A program whose calls do not recur and nest within the depth  *)
(* limit -- every program whose scripts were each compiled once, after the *)
(* ones it executes -- keeps the promises of ScriptCalls without further   *)
(* conditions, and every exception leaves the host's lists as they are.    *)
(***************************************************************************)
THEOREM NestedCallsAreIsolated ==
  ASSUME SitesFresh, NestsWithin
  PROVE  Spec => CallsIsolated /\ MutationsRetained
<1>1. FrameInv => TooDeepHarmless
  BY RankedIsHarmless
<1> QED
  BY <1>1, FramesLinked, CallsAreIsolated, ListMutationsRetained, PTL

=============================================================================
