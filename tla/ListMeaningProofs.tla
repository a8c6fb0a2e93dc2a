--------------------------- MODULE ListMeaningProofs ---------------------------
(***************************************************************************)
(* What the operations on lists compute, for every program, every body and *)
(* every list: the proof of DoesWhatItSays, from the invariant MeaningInv. *)
(***************************************************************************)
EXTENDS ListPipelineProofs

-----------------------------------------------------------------------------
(* Sums *)

\* `s` adds up F, one at a time.
AddsUp(s, F, N) == s[0] = 0 /\ \A k \in 1 .. N : s[k] = s[k - 1] + F[k]

\* What adds up the first n adds up to one more.
LEMMA OneMoreSum ==
  ASSUME NEW N \in Nat, NEW F \in [1 .. N -> Int], NEW n \in Nat, n < N,
         NEW s \in [0 .. n -> Int], AddsUp(s, F, n)
  PROVE  \E t \in [0 .. (n + 1) -> Int] : AddsUp(t, F, n + 1)
<1> DEFINE t == [k \in 0 .. (n + 1) |-> IF k = n + 1 THEN s[n] + F[n + 1] ELSE s[k]]
<1>1. s[n] \in Int /\ F[n + 1] \in Int
  OBVIOUS
<1>2. t \in [0 .. (n + 1) -> Int]
  BY <1>1
<1>3. ASSUME NEW k \in 1 .. (n + 1)
      PROVE  t[k] = t[k - 1] + F[k]
  <2>1. CASE k = n + 1
    BY <2>1
  <2>2. CASE k # n + 1
    <3>1. k \in 1 .. n /\ k \in 0 .. (n + 1) /\ k - 1 \in 0 .. (n + 1) /\ k - 1 # n + 1
      BY <2>2
    <3>2. t[k] = s[k] /\ t[k - 1] = s[k - 1]
      BY <2>2, <3>1
    <3> QED
      BY <3>1, <3>2 DEF AddsUp
  <2> QED
    BY <2>1, <2>2
<1>4. t[0] = 0
  BY DEF AddsUp
<1> HIDE DEF t
<1>5. AddsUp(t, F, n + 1)
  BY <1>3, <1>4 DEF AddsUp
<1> QED
  BY <1>2, <1>5

\* The equation that defines Sums has a solution.
LEMMA SumsExist ==
  ASSUME NEW N \in Nat, NEW F \in [1 .. N -> Int]
  PROVE  \E s \in [0 .. N -> Int] : AddsUp(s, F, N)
<1> DEFINE T == {n \in Nat : \E s \in [0 .. n -> Int] : AddsUp(s, F, n)}
<1>1. 0 \in T
  <2>1. [k \in 0 .. 0 |-> 0] \in [0 .. 0 -> Int]
    OBVIOUS
  <2>2. AddsUp([k \in 0 .. 0 |-> 0], F, 0)
    BY DEF AddsUp
  <2> QED
    BY <2>1, <2>2
<1>2. ASSUME NEW n \in T, n < N
      PROVE  n + 1 \in T
  <2>1. PICK t \in [0 .. n -> Int] : AddsUp(t, F, n)
    OBVIOUS
  <2>2. n \in Nat
    OBVIOUS
  <2>3. \E u \in [0 .. (n + 1) -> Int] : AddsUp(u, F, n + 1)
    <3> HIDE DEF T
    <3> QED
      BY <1>2, <2>1, <2>2, OneMoreSum
  <2> QED
    BY <2>2, <2>3
<1>3. T \in SUBSET Nat
  OBVIOUS
<1>4. 0 .. N \subseteq T
  <2> HIDE DEF T
  <2> QED
    BY <1>1, <1>2, <1>3, InductionUpTo
<1>5. N \in T
  BY <1>4
<1> QED
  BY <1>5

\* What adds up integers is an integer all along.
LEMMA SumsAreInts ==
  ASSUME NEW N \in Nat, NEW F \in [1 .. N -> Int], NEW s, AddsUp(s, F, N)
  PROVE  \A n \in 0 .. N : s[n] \in Int
<1> DEFINE T == {n \in 0 .. N : s[n] \in Int}
<1>1. 0 \in T
  BY DEF AddsUp
<1>2. ASSUME NEW n \in T, n < N
      PROVE  n + 1 \in T
  <2>1. n + 1 \in 1 .. N /\ n + 1 \in 0 .. N /\ s[n] \in Int /\ (n + 1) - 1 = n
    BY <1>2
  <2>2. s[n + 1] = s[n] + F[n + 1] /\ F[n + 1] \in Int
    <3> HIDE DEF T
    <3> QED
      BY <2>1 DEF AddsUp
  <2> QED
    BY <2>1, <2>2
<1>3. T \in SUBSET Nat
  OBVIOUS
<1>4. 0 .. N \subseteq T
  <2> HIDE DEF T
  <2> QED
    BY <1>1, <1>2, <1>3, InductionUpTo
<1> QED
  BY <1>4

\* What the body yields for the elements of a list is a number, and Sums adds it up.
LEMMA SumsFacts ==
  ASSUME NEW op, op.f \in DOMAIN Callbacks, NEW items \in Seq(Items)
  PROVE  /\ Sums(op, items) \in [0 .. Len(items) -> Int]
         /\ Sums(op, items)[0] = 0
         /\ \A k \in 1 .. Len(items) :
              /\ Callbacks[op.f].of[items[k].v] \in Int
              /\ Sums(op, items)[k] = Sums(op, items)[k - 1] + Callbacks[op.f].of[items[k].v]
<1> DEFINE N == Len(items)
           F == [k \in 1 .. N |-> Callbacks[op.f].of[items[k].v]]
<1>1. N \in Nat
  BY LenProperties
<1>2. ASSUME NEW k \in 1 .. N
      PROVE  Callbacks[op.f].of[items[k].v] \in Int
  <2>1. items[k].v \in Elements
    <3>1. items[k] \in Items
      BY ElementOfSeq
    <3> QED
      BY <3>1 DEF Items
  <2> QED
    BY <2>1, BodyFacts, ElementsAssumption
<1>3. F \in [1 .. N -> Int]
  BY <1>2
<1> DEFINE Def(f) == f = [n \in 0 .. N |-> IF n = 0 THEN 0 ELSE f[n - 1] + Callbacks[op.f].of[items[n].v]]
           s == CHOOSE f : Def(f)
<1>4. Sums(op, items) = s
  BY DEF Sums
<1>5. PICK t \in [0 .. N -> Int] : AddsUp(t, F, N)
  <2> HIDE DEF N, F
  <2> QED
    BY <1>1, <1>3, SumsExist
<1>6. Def(t)
  <2>1. ASSUME NEW n \in 0 .. N
        PROVE  t[n] = IF n = 0 THEN 0 ELSE t[n - 1] + Callbacks[op.f].of[items[n].v]
    <3> HIDE DEF N
    <3> QED
      BY <1>1, <1>5 DEF AddsUp
  <2> HIDE DEF N
  <2> QED
    BY <2>1
<1>7. Def(s)
  BY <1>6
<1> HIDE DEF s, N
<1>8. s = [n \in 0 .. N |-> IF n = 0 THEN 0 ELSE s[n - 1] + Callbacks[op.f].of[items[n].v]]
  BY <1>7
<1>9. s[0] = 0 /\ \A k \in 1 .. N : s[k] = s[k - 1] + F[k]
  <2>1. 0 \in 0 .. N /\ \A k \in 1 .. N : k \in 0 .. N /\ k # 0
    BY <1>1
  <2> QED
    BY <1>8, <2>1
<1>10. \A n \in 0 .. N : s[n] \in Int
  <2>1. AddsUp(s, F, N)
    BY <1>9 DEF AddsUp
  <2> HIDE DEF F
  <2> QED
    BY <1>1, <1>3, <2>1, SumsAreInts
<1>11. s \in [0 .. N -> Int]
  BY <1>8, <1>10
<1> QED
  BY <1>2, <1>4, <1>9, <1>11 DEF N

-----------------------------------------------------------------------------
(* Ranks *)

UpTo(S, k) == {j \in S : j <= k}

\* Counting a set of positions in their order.
LEMMA CountStep ==
  ASSUME NEW N \in Nat, NEW S \in SUBSET (1 .. N)
  PROVE  /\ \A k \in 0 .. N : IsFiniteSet(UpTo(S, k)) /\ Cardinality(UpTo(S, k)) \in Nat
         /\ Cardinality(UpTo(S, 0)) = 0 /\ UpTo(S, N) = S
         /\ \A k \in 1 .. N : Cardinality(UpTo(S, k)) = Cardinality(UpTo(S, k - 1)) + (IF k \in S THEN 1 ELSE 0)
<1>1. IsFiniteSet(S)
  <2>1. IsFiniteSet(1 .. N)
    BY FS_Interval
  <2> QED
    BY <2>1, FS_Subset
<1>2. ASSUME NEW k \in 0 .. N
      PROVE  IsFiniteSet(UpTo(S, k)) /\ Cardinality(UpTo(S, k)) \in Nat
  <2>1. UpTo(S, k) \in SUBSET S
    BY DEF UpTo
  <2> QED
    BY <1>1, <2>1, FS_Subset, FS_CardinalityType
<1>3. Cardinality(UpTo(S, 0)) = 0
  <2>1. ASSUME NEW j \in S PROVE ~(j <= 0)
    OBVIOUS
  <2>2. UpTo(S, 0) = {}
    BY <2>1 DEF UpTo
  <2> QED
    BY <2>2, FS_EmptySet
<1>4. UpTo(S, N) = S
  <2>1. ASSUME NEW j \in S PROVE j <= N
    OBVIOUS
  <2> QED
    BY <2>1 DEF UpTo
<1>5. ASSUME NEW k \in 1 .. N
      PROVE  Cardinality(UpTo(S, k)) = Cardinality(UpTo(S, k - 1)) + (IF k \in S THEN 1 ELSE 0)
  <2>1. IsFiniteSet(UpTo(S, k - 1)) /\ Cardinality(UpTo(S, k - 1)) \in Nat
    BY <1>2
  <2>2. CASE k \in S
    <3>1. ASSUME NEW j \in S PROVE j <= k <=> j <= k - 1 \/ j = k
      OBVIOUS
    <3>2. ~(k <= k - 1)
      OBVIOUS
    <3>3. UpTo(S, k) = UpTo(S, k - 1) \union {k} /\ k \notin UpTo(S, k - 1)
      BY <2>2, <3>1, <3>2 DEF UpTo
    <3> QED
      BY <2>1, <2>2, <3>3, FS_AddElement
  <2>3. CASE k \notin S
    <3>1. UpTo(S, k) = UpTo(S, k - 1)
      <4>1. ASSUME NEW j \in S
            PROVE  j <= k <=> j <= k - 1
        BY <2>3
      <4> QED
        BY <4>1 DEF UpTo
    <3> QED
      BY <2>1, <2>3, <3>1
  <2> QED
    BY <2>2, <2>3
<1> QED
  BY <1>2, <1>3, <1>4, <1>5

\* A position of the set counts more than any before it.
LEMMA CountGrows ==
  ASSUME NEW N \in Nat, NEW S \in SUBSET (1 .. N), NEW j \in 0 .. N, NEW k \in S, j < k
  PROVE  Cardinality(UpTo(S, j)) < Cardinality(UpTo(S, k))
<1>1. k \in 0 .. N
  OBVIOUS
<1>2. /\ IsFiniteSet(UpTo(S, k)) /\ Cardinality(UpTo(S, k)) \in Nat /\ Cardinality(UpTo(S, j)) \in Nat
  BY <1>1, CountStep
<1>3. UpTo(S, j) \in SUBSET UpTo(S, k) /\ k \in UpTo(S, k) /\ k \notin UpTo(S, j)
  <2>1. k \in Nat /\ k <= k /\ ~(k <= j)
    OBVIOUS
  <2>2. ASSUME NEW n \in S, n <= j PROVE n <= k
    <3>1. n \in Nat
      OBVIOUS
    <3> QED
      BY <2>1, <2>2, <3>1
  <2> QED
    BY <2>1, <2>2 DEF UpTo
<1>4. Cardinality(UpTo(S, j)) <= Cardinality(UpTo(S, k)) /\ Cardinality(UpTo(S, j)) # Cardinality(UpTo(S, k))
  BY <1>2, <1>3, FS_Subset
<1> QED
  BY <1>2, <1>4

\* The elements the body says yes to are ranked from one on.
LEMMA RankFacts ==
  ASSUME NEW op, was \in Seq(Items)
  PROVE  /\ \A k \in 0 .. Len(was) : Rank(op, k) \in Nat
         /\ Rank(op, 0) = 0 /\ Rank(op, Len(was)) = Cardinality(Those(op))
         /\ \A k \in 1 .. Len(was) : Rank(op, k) = Rank(op, k - 1) + (IF Yields(op, k) = 1 THEN 1 ELSE 0)
         /\ \A k \in Those(op) : Kept(op, Rank(op, k)) = k
<1> DEFINE N == Len(was)
           S == Those(op)
<1>1. N \in Nat /\ DOMAIN was = 1 .. N
  BY LenProperties
<1>2. S \in SUBSET (1 .. N) /\ \A k \in 1 .. N : k \in S <=> Yields(op, k) = 1
  BY <1>1 DEF Those
<1>3. \A k : Rank(op, k) = Cardinality(UpTo(S, k))
  BY DEF Rank, UpTo
<1> HIDE DEF N, S
<1>4. /\ \A k \in 0 .. N : Rank(op, k) \in Nat
      /\ Rank(op, 0) = 0 /\ Rank(op, N) = Cardinality(S)
      /\ \A k \in 1 .. N : Rank(op, k) = Rank(op, k - 1) + (IF Yields(op, k) = 1 THEN 1 ELSE 0)
  BY <1>1, <1>2, <1>3, CountStep
<1>5. ASSUME NEW k \in S
      PROVE  Kept(op, Rank(op, k)) = k
  <2> DEFINE j == Kept(op, Rank(op, k))
  <2>1. j \in S /\ Rank(op, j) = Rank(op, k)
    BY DEF Kept, S
  <2> HIDE DEF j
  <2>2. j \in 0 .. N /\ k \in 0 .. N /\ Rank(op, j) \in Nat
    BY <1>1, <1>2, <1>4, <2>1
  <2>3. ~(j < k)
    <3> SUFFICES ASSUME j < k PROVE FALSE
      OBVIOUS
    <3>1. Rank(op, j) < Rank(op, k)
      BY <1>1, <1>2, <1>3, <2>2, CountGrows
    <3> QED
      BY <2>1, <2>2, <3>1
  <2>4. ~(k < j)
    <3> SUFFICES ASSUME k < j PROVE FALSE
      OBVIOUS
    <3>1. Rank(op, k) < Rank(op, j)
      BY <1>1, <1>2, <1>3, <2>1, <2>2, CountGrows
    <3> QED
      BY <2>1, <2>2, <3>1
  <2>5. j = k
    BY <2>2, <2>3, <2>4
  <2> QED
    BY <2>5 DEF j
<1> QED
  BY <1>4, <1>5 DEF N, S

-----------------------------------------------------------------------------
(* What an element changes *)

Tests == {"any", "all", "none", "first", "last", "count_if", "filter"}

\* A body yields a number for an element, a test yes or no.
LEMMA Answers ==
  ASSUME PipelineInv, AtOp, Op.kind \in WithCallback, NEW k \in 1 .. Len(was)
  PROVE  Yields(Op, k) \in Int /\ (Op.kind \in Tests => Yields(Op, k) \in {0, 1})
<1> DEFINE f == Callbacks[Op.f]
<1>1. Op.f \in DOMAIN Callbacks /\ was \in Seq(Items)
  BY AtOpFacts DEF PipelineInv
<1>2. was[k].v \in Elements
  <2>1. was[k] \in Items
    BY <1>1, ElementOfSeq
  <2> QED
    BY <2>1 DEF Items
<1>3. Yields(Op, k) \in Int
  BY <1>1, <1>2, BodyFacts, ElementsAssumption DEF Yields
<1>4. ASSUME Op.kind \in Tests
      PROVE  Yields(Op, k) \in {0, 1}
  <2>1. built.err = Nothing /\ pc \in DOMAIN built.code
    BY DEF PipelineInv, Staged, AtOp
  <2>2. Sound(Op, built.child, Len(built.code) + Coming + 1)
    BY <2>1 DEF PipelineInv, CodeSound, Op
  <2>3. CallbackExpected(Op.kind) = "bool"
    BY <1>4 DEF CallbackExpected, Tests
  <2>4. f.out = "bool"
    BY <2>2, <2>3 DEF Sound
  <2> QED
    BY <1>1, <1>2, <2>4, CallbacksAssumption DEF CallbacksAssumption, Yields
<1> QED
  BY <1>3, <1>4

\* What an element leaves in the locals.
LEMMA CollectedFields ==
  ASSUME PipelineInv, NEW op, NEW r
  PROVE  /\ Collect(op, r).found = IF Decides(op, r) THEN i ELSE acc.found
         /\ Collect(op, r).out = IF op.kind = "filter" /\ r = 1 THEN acc.out + 1 ELSE acc.out
         /\ Collect(op, r).tmp = IF op.kind = "map" THEN Append(acc.tmp, [t |-> Callbacks[op.f].out, v |-> r]) ELSE acc.tmp
<1>1. acc \in Locals
  BY DEF PipelineInv
<1> DEFINE moved == Moves(Callbacks[op.f])
           found == IF Decides(op, r) THEN i ELSE acc.found
           out == IF op.kind = "filter" /\ r = 1 THEN acc.out + 1 ELSE acc.out
           sum == acc.sum + r
           n == acc.n + 1
           best == IF acc.n = 0 \/ (op.kind = "min" /\ r < acc.best) \/ (op.kind = "max" /\ r > acc.best) THEN r ELSE acc.best
           tmp == IF op.kind = "map" THEN Append(acc.tmp, [t |-> Callbacks[op.f].out, v |-> r]) ELSE acc.tmp
<1>2. Collect(op, r) = [acc EXCEPT !.moved = moved, !.found = found, !.out = out, !.sum = sum, !.n = n,
                                   !.best = best, !.tmp = tmp]
  BY <1>1 DEF Collect, Locals
<1> HIDE DEF moved, found, out, sum, n, best, tmp
<1>3. Collect(op, r).found = found /\ Collect(op, r).out = out /\ Collect(op, r).tmp = tmp
  BY <1>1, <1>2 DEF Locals
<1> QED
  BY <1>3 DEF found, out, tmp

\* The numbers an element adds to the locals.
LEMMA CollectedNumbers ==
  ASSUME PipelineInv, NEW op, NEW r \in Int
  PROVE  /\ Collect(op, r).sum = acc.sum + r /\ Collect(op, r).n = acc.n + 1
         /\ op.kind = "min" => Collect(op, r).best = IF acc.n = 0 \/ r < acc.best THEN r ELSE acc.best
         /\ op.kind = "max" => Collect(op, r).best = IF acc.n = 0 \/ r > acc.best THEN r ELSE acc.best
<1>1. acc \in Locals
  BY DEF PipelineInv
<1> DEFINE moved == Moves(Callbacks[op.f])
           found == IF Decides(op, r) THEN i ELSE acc.found
           out == IF op.kind = "filter" /\ r = 1 THEN acc.out + 1 ELSE acc.out
           sum == acc.sum + r
           n == acc.n + 1
           best == IF acc.n = 0 \/ (op.kind = "min" /\ r < acc.best) \/ (op.kind = "max" /\ r > acc.best) THEN r ELSE acc.best
           tmp == IF op.kind = "map" THEN Append(acc.tmp, [t |-> Callbacks[op.f].out, v |-> r]) ELSE acc.tmp
<1>2. Collect(op, r) = [acc EXCEPT !.moved = moved, !.found = found, !.out = out, !.sum = sum, !.n = n,
                                   !.best = best, !.tmp = tmp]
  BY <1>1 DEF Collect, Locals
<1> HIDE DEF moved, found, out, sum, n, best, tmp
<1>3. Collect(op, r).sum = sum /\ Collect(op, r).n = n /\ Collect(op, r).best = best
  BY <1>1, <1>2 DEF Locals
<1> QED
  BY <1>3 DEF sum, n, best

\* `found` is the position that decides, of those before `next` and of D: the
\* last one, or the first one, which is then the end of the loop.
FoundAt(D, N, last, found, next) ==
  IF found = 0 THEN \A k \in 1 .. (next - 1) : k \notin D
  ELSE /\ found \in 1 .. (next - 1) /\ found \in D
       /\ \A k \in 1 .. (next - 1) : (IF last THEN k > found ELSE k < found) => k \notin D
       /\ ~last => next = N + 1

\* What an element does to the place of the decisive one.
LEMMA FoundStep ==
  ASSUME NEW N \in Nat, NEW at \in 1 .. N, NEW D, NEW last \in BOOLEAN, NEW found \in Nat,
         FoundAt(D, N, last, found, at)
  PROVE  FoundAt(D, N, last, IF at \in D THEN at ELSE found, IF ~last /\ at \in D THEN N + 1 ELSE at + 1)
<1>1. \A k \in 1 .. at : k \in Nat /\ k <= at /\ (k = at \/ k \in 1 .. (at - 1))
  OBVIOUS
<1>2. CASE at \in D /\ last
  <2>1. FoundAt(D, N, last, at, at + 1)
    BY <1>2 DEF FoundAt
  <2> QED
    BY <1>2, <2>1
<1>3. CASE at \in D /\ ~last
  <2>1. found = 0
    BY <1>3 DEF FoundAt
  <2>2. \A k \in 1 .. (at - 1) : k \notin D
    BY <2>1 DEF FoundAt
  <2>3. \A k \in 1 .. N : k < at => k \notin D
    BY <2>2
  <2>4. FoundAt(D, N, last, at, N + 1)
    BY <1>3, <2>3 DEF FoundAt
  <2> QED
    BY <1>3, <2>4
<1>4. CASE at \notin D
  <2>1. FoundAt(D, N, last, found, at + 1)
    <3>1. CASE found = 0
      <4>1. \A k \in 1 .. (at - 1) : k \notin D
        BY <3>1 DEF FoundAt
      <4>2. \A k \in 1 .. at : k \notin D
        BY <1>1, <1>4, <4>1
      <4> QED
        BY <3>1, <4>2 DEF FoundAt
    <3>2. CASE found # 0
      <4>1. /\ found \in 1 .. (at - 1) /\ found \in D /\ last
            /\ \A k \in 1 .. (at - 1) : k > found => k \notin D
        BY <3>2 DEF FoundAt
      <4>2. \A k \in 1 .. at : k > found => k \notin D
        BY <1>1, <1>4, <4>1
      <4>3. found \in 1 .. ((at + 1) - 1)
        BY <4>1
      <4> QED
        BY <3>2, <4>1, <4>2, <4>3 DEF FoundAt
    <3> QED
      BY <3>1, <3>2
  <2> QED
    BY <1>4, <2>1
<1> QED
  BY <1>2, <1>3, <1>4

\* An element is looked at as it was when the operation began, and only filter
\* writes to the list meanwhile.
LEMMA ElementLooksAt ==
  ASSUME PipelineInv, Element
  PROVE  /\ AtOp /\ i > 0 /\ Op.kind \in WithCallback /\ Op.f \in DOMAIN Callbacks
         /\ Op' = Op /\ was' = was /\ results' = results /\ was \in Seq(Items)
         /\ Len(was) \in Nat /\ i \in 1 .. Len(was) /\ DOMAIN was = 1 .. Len(was)
         /\ acc' = Collect(Op, Yields(Op, i))
         /\ i' = IF Settled(Op, Yields(Op, i)) THEN Len(was) + 1 ELSE i + 1
         /\ lists'[Op.list] = IF Op.kind = "filter" /\ Yields(Op, i) = 1
                              THEN [lists[Op.list] EXCEPT ![acc.out + 1] = was[i]] ELSE lists[Op.list]
<1> DEFINE f == Callbacks[Op.f]
           now == lists[Op.list]
           item == now[i]
           r == f.of[item.v]
           kept == Compacted(Op, item, r)
<1>1. /\ Looping /\ AtOp /\ i > 0 /\ i <= Len(now) /\ Op.kind \in WithCallback
      /\ lists' = IF f.adds = Nothing THEN kept ELSE [kept EXCEPT ![f.adds] = Append(@, item)]
      /\ acc' = Collect(Op, r)
      /\ i' = IF Settled(Op, r) THEN Len(now) + 1 ELSE i + 1
      /\ UNCHANGED <<built, pc, was, results>>
  BY DEF Element, Looping
<1>2. /\ Op.list \in Lists /\ now \in Seq(Items) /\ Op.f \in DOMAIN Callbacks /\ f.adds # Op.list
      /\ Len(now) = Len(was) /\ lists \in [Lists -> Seq(Items)]
      /\ \A k \in DOMAIN now : k >= i => now[k] = was[k]
  BY <1>1, AtOpFacts
<1>3. was \in Seq(Items)
  BY DEF PipelineInv
<1>4. Len(was) \in Nat /\ DOMAIN was = 1 .. Len(was) /\ DOMAIN now = 1 .. Len(was) /\ i \in 1 .. Len(was)
  <2>1. i \in Nat
    BY DEF PipelineInv, TypeOK
  <2>2. Len(was) \in Nat /\ DOMAIN was = 1 .. Len(was) /\ DOMAIN now = 1 .. Len(now)
    BY <1>2, <1>3, LenProperties
  <2>3. i > 0 /\ i <= Len(was)
    BY <1>1, <1>2
  <2> HIDE DEF now
  <2> QED
    BY <1>2, <2>1, <2>2, <2>3
<1>5. item = was[i]
  <2>1. i >= i
    BY <1>4
  <2> HIDE DEF now
  <2> QED
    BY <1>2, <1>4, <2>1
<1>6. r = Yields(Op, i)
  BY <1>5 DEF Yields
<1>7. Op' = Op
  BY <1>1 DEF Op
<1>8. kept \in [Lists -> Seq(Items)]
  BY <1>1, CompactedFacts
<1>9. lists'[Op.list] = kept[Op.list]
  <2> HIDE DEF kept, item
  <2>1. CASE f.adds = Nothing
    BY <1>1, <2>1
  <2>2. CASE f.adds # Nothing
    <3> DEFINE other == f.adds
               more == Append(kept[other], item)
    <3>1. other # Op.list /\ lists' = [kept EXCEPT ![other] = more]
      BY <1>1, <1>2, <2>2
    <3> HIDE DEF other, f, more
    <3> QED
      BY <1>2, <1>8, <3>1
  <2> QED
    BY <2>1, <2>2
<1>10. kept[Op.list] = IF Op.kind = "filter" /\ r = 1 THEN [now EXCEPT ![acc.out + 1] = item] ELSE now
  <2> DEFINE new == [now EXCEPT ![acc.out + 1] = item]
  <2>1. CASE Op.kind = "filter" /\ r = 1
    <3>1. kept = [lists EXCEPT ![Op.list] = new]
      BY <2>1 DEF Compacted
    <3> HIDE DEF new, kept
    <3>2. kept[Op.list] = new
      BY <1>2, <3>1
    <3> QED
      BY <2>1, <3>2 DEF new
  <2>2. CASE ~(Op.kind = "filter" /\ r = 1)
    <3>1. kept = [lists EXCEPT ![Op.list] = lists[Op.list]]
      BY <2>2 DEF Compacted
    <3> HIDE DEF kept, r
    <3> QED
      BY <1>2, <2>2, <3>1
  <2> QED
    BY <2>1, <2>2
<1> HIDE DEF f, kept, r
<1>11. acc' = Collect(Op, Yields(Op, i)) /\ i' = IF Settled(Op, Yields(Op, i)) THEN Len(was) + 1 ELSE i + 1
  <2> HIDE DEF now
  <2> QED
    BY <1>1, <1>2, <1>6
<1>12. lists'[Op.list] = IF Op.kind = "filter" /\ Yields(Op, i) = 1 THEN [now EXCEPT ![acc.out + 1] = was[i]] ELSE now
  <2> HIDE DEF now, item
  <2> QED
    BY <1>5, <1>6, <1>9, <1>10
<1> QED
  BY <1>1, <1>2, <1>3, <1>4, <1>7, <1>11, <1>12

\* What the body yields for the list as it was stays what it was.
LEMMA SameYields ==
  ASSUME Op' = Op, was' = was
  PROVE  /\ \A k : Yields(Op, k)' = Yields(Op, k)
         /\ Those(Op)' = Those(Op)
         /\ Sums(Op, was)' = Sums(Op, was)
         /\ \A k : Rank(Op, k)' = Rank(Op, k)
         /\ \A k : Kept(Op, k)' = Kept(Op, k)
<1>1. \A k : Yields(Op, k)' = Yields(Op, k)
  BY DEF Yields
<1>2. Those(Op)' = Those(Op)
  BY DEF Those, Yields
<1>3. Sums(Op, was)' = Sums(Op, was)
  BY DEF Sums
<1>4. \A k : Rank(Op, k)' = Rank(Op, k)
  BY <1>2 DEF Rank
<1>5. \A k : Kept(Op, k)' = Kept(Op, k)
  BY <1>2, <1>4 DEF Kept
<1> QED
  BY <1>1, <1>2, <1>3, <1>4, <1>5

\* The positions that decide.
Deciding(op) == {k \in DOMAIN was : Decides(op, Yields(op, k))}

Questions == {"any", "all", "none", "first", "last"}

\* What FoundSoFar says of a position and of how far the loop is.
SoFar(op, found, next) ==
  IF found = 0 THEN \A k \in 1 .. (next - 1) : ~ Decides(op, Yields(op, k))
  ELSE /\ found \in 1 .. (next - 1) /\ Decides(op, Yields(op, found))
       /\ \A k \in 1 .. (next - 1) :
            (IF op.kind = "last" THEN k > found ELSE k < found) => ~ Decides(op, Yields(op, k))
       /\ op.kind # "last" => next = Len(was) + 1

\* The parts of MeaningInv at a given element.
LEMMA SoFarIsAt ==
  ASSUME was \in Seq(Items), NEW op, NEW found, NEW next \in 1 .. (Len(was) + 1)
  PROVE  SoFar(op, found, next) <=> FoundAt(Deciding(op), Len(was), op.kind = "last", found, next)
<1>1. \A k \in 1 .. (next - 1) : k \in Deciding(op) <=> Decides(op, Yields(op, k))
  <2>1. DOMAIN was = 1 .. Len(was) /\ Len(was) \in Nat
    BY LenProperties
  <2>2. \A k \in 1 .. (next - 1) : k \in DOMAIN was
    BY <2>1
  <2> QED
    BY <2>2 DEF Deciding
<1> QED
  BY <1>1 DEF SoFar, FoundAt

\* An element keeps what is found so far.
LEMMA ElementFound ==
  ASSUME PipelineInv, MeaningInv, Element
  PROVE  FoundSoFar'
<1> DEFINE r == Yields(Op, i)
           N == Len(was)
           D == Deciding(Op)
           last == Op.kind = "last"
<1>1. /\ AtOp /\ i > 0 /\ Op' = Op /\ was' = was /\ was \in Seq(Items)
      /\ N \in Nat /\ i \in 1 .. N /\ DOMAIN was = 1 .. N
      /\ acc' = Collect(Op, r) /\ i' = IF Settled(Op, r) THEN N + 1 ELSE i + 1
  BY ElementLooksAt
<1> SUFFICES ASSUME Op.kind \in Questions PROVE SoFar(Op, acc'.found, i')
  <2>1. \A k : Yields(Op, k)' = Yields(Op, k)
    BY <1>1, SameYields
  <2>2. \A k : Decides(Op, Yields(Op, k))' <=> Decides(Op, Yields(Op, k))
    BY <1>1, <2>1 DEF Decides
  <2>3. ASSUME Op'.kind \in {"any", "all", "none", "first", "last"}
        PROVE  SoFar(Op, acc'.found, i')
    BY <1>1, <2>3 DEF Questions
  <2> QED
    BY <1>1, <2>1, <2>2, <2>3 DEF FoundSoFar, SoFar
<1>2. SoFar(Op, acc.found, i)
  BY <1>1 DEF MeaningInv, FoundSoFar, SoFar, Questions
<1>3. i \in 1 .. (N + 1) /\ acc.found \in Nat
  <2>1. acc.found \in Nat
    BY DEF PipelineInv, Locals
  <2> HIDE DEF N
  <2> QED
    BY <1>1, <2>1
<1>4. FoundAt(D, N, last, acc.found, i)
  BY <1>1, <1>2, <1>3, SoFarIsAt
<1>5. Decides(Op, r) <=> i \in D
  BY <1>1 DEF Deciding
<1>6. acc'.found = IF i \in D THEN i ELSE acc.found
  BY <1>1, <1>5, CollectedFields
<1>7. i' = IF ~last /\ i \in D THEN N + 1 ELSE i + 1
  BY <1>1, <1>5 DEF Settled
<1>8. FoundAt(D, N, last, acc'.found, i')
  <2> HIDE DEF D, N, last
  <2>1. last \in BOOLEAN
    BY DEF last
  <2> QED
    BY <1>1, <1>3, <1>4, <1>6, <1>7, <2>1, FoundStep
<1>9. i' \in 1 .. (N + 1)
  <2> HIDE DEF N, D, last
  <2> QED
    BY <1>1, <1>7
<1> QED
  BY <1>1, <1>8, <1>9, SoFarIsAt

\* Only what a question asks for ends a loop early.
LEMMA GoesOn ==
  ASSUME PipelineInv, Element, Op.kind \notin Questions
  PROVE  i' = i + 1
  BY ElementLooksAt DEF Settled, Decides, Questions

\* And what is taken so far.
LEMMA ElementTaken ==
  ASSUME PipelineInv, MeaningInv, Element
  PROVE  TakenSoFar'
<1> DEFINE r == Yields(Op, i)
           N == Len(was)
<1>1. /\ AtOp /\ i > 0 /\ Op' = Op /\ was' = was /\ was \in Seq(Items) /\ Op.f \in DOMAIN Callbacks
      /\ Op.kind \in WithCallback
      /\ N \in Nat /\ i \in 1 .. N /\ DOMAIN was = 1 .. N
      /\ acc' = Collect(Op, r)
  BY ElementLooksAt
<1>2. TakenSoFar
  BY <1>1 DEF MeaningInv
<1>3. /\ acc'.sum = acc.sum + r /\ acc'.n = acc.n + 1
      /\ Op.kind = "min" => acc'.best = IF acc.n = 0 \/ r < acc.best THEN r ELSE acc.best
      /\ Op.kind = "max" => acc'.best = IF acc.n = 0 \/ r > acc.best THEN r ELSE acc.best
  <2>1. r \in Int
    BY <1>1, Answers
  <2> HIDE DEF r
  <2> QED
    BY <1>1, <2>1, CollectedNumbers
<1>4. /\ acc.sum \in Int /\ acc.n \in Nat /\ acc.best \in Int
  BY DEF PipelineInv, Locals
<1>5. \A k \in 1 .. N : Yields(Op, k) \in Int
  BY <1>1, Answers
<1>6. \A k : Yields(Op, k)' = Yields(Op, k)
  BY <1>1, SameYields
<1>7. Op.kind \in {"sum", "average"} => acc'.sum = Sums(Op, was)[i'-1]
  <2> SUFFICES ASSUME Op.kind \in {"sum", "average"} PROVE acc'.sum = Sums(Op, was)[i'-1]
    OBVIOUS
  <2>1. i' = i + 1
    BY GoesOn DEF Questions
  <2>2. acc.sum = Sums(Op, was)[i - 1]
    BY <1>2 DEF TakenSoFar
  <2>3. Sums(Op, was)[i] = Sums(Op, was)[i - 1] + r
    BY <1>1, SumsFacts DEF Yields
  <2>4. i' - 1 = i
    BY <1>1, <2>1
  <2> HIDE DEF r
  <2> QED
    BY <1>3, <2>2, <2>3, <2>4
<1>8. Op.kind = "count_if" => acc'.sum = Rank(Op, i' - 1)
  <2> SUFFICES ASSUME Op.kind = "count_if" PROVE acc'.sum = Rank(Op, i'-1)
    OBVIOUS
  <2>1. i' = i + 1
    BY GoesOn DEF Questions
  <2>2. acc.sum = Rank(Op, i - 1)
    BY <1>2 DEF TakenSoFar
  <2>3. r \in {0, 1}
    BY <1>1, Answers DEF Tests
  <2>4. Rank(Op, i) = Rank(Op, i - 1) + (IF r = 1 THEN 1 ELSE 0)
    BY <1>1, RankFacts
  <2>5. i' - 1 = i
    BY <1>1, <2>1
  <2> HIDE DEF r
  <2> QED
    BY <1>3, <2>2, <2>3, <2>4, <2>5
<1>9. Op.kind \in {"min", "max", "average"} => acc'.n = i' - 1 /\ i' - 1 = i
  <2> SUFFICES ASSUME Op.kind \in {"min", "max", "average"} PROVE acc'.n = i' - 1 /\ i' - 1 = i
    OBVIOUS
  <2>1. i' = i + 1
    BY GoesOn DEF Questions
  <2>2. acc.n = i - 1
    BY <1>2 DEF TakenSoFar
  <2> HIDE DEF r, N
  <2> QED
    BY <1>1, <1>3, <2>1, <2>2
<1>10. ASSUME Op.kind \in {"min", "max"}
       PROVE  /\ \E k \in 1 .. (i' - 1) : acc'.best = Yields(Op, k)
              /\ Op.kind = "min" => \A k \in 1 .. (i' - 1) : acc'.best <= Yields(Op, k)
              /\ Op.kind = "max" => \A k \in 1 .. (i' - 1) : acc'.best >= Yields(Op, k)
  <2>1. i' - 1 = i /\ acc.n = i - 1
    BY <1>2, <1>9, <1>10 DEF TakenSoFar
  <2>2. /\ i > 1 => \E k \in 1 .. (i - 1) : acc.best = Yields(Op, k)
        /\ Op.kind = "min" => \A k \in 1 .. (i - 1) : acc.best <= Yields(Op, k)
        /\ Op.kind = "max" => \A k \in 1 .. (i - 1) : acc.best >= Yields(Op, k)
    BY <1>2, <1>10 DEF TakenSoFar
  <2>3. \A k \in 1 .. i : k \in 1 .. N /\ (k = i \/ k \in 1 .. (i - 1))
    BY <1>1
  <2>4. r \in Int
    BY <1>1, <1>5
  <2>5. \E k \in 1 .. i : acc'.best = Yields(Op, k)
    <3>1. i \in 1 .. i
      BY <1>1
    <3>2. CASE acc'.best = r
      BY <3>1, <3>2
    <3>3. CASE acc'.best # r
      <4>1. acc'.best = acc.best /\ acc.n # 0
        BY <1>3, <1>10, <3>3
      <4>2. i > 1
        BY <1>1, <2>1, <4>1
      <4>3. PICK k \in 1 .. (i - 1) : acc.best = Yields(Op, k)
        BY <2>2, <4>2
      <4>4. k \in 1 .. i
        BY <1>1
      <4> QED
        BY <4>1, <4>3, <4>4
    <3> QED
      BY <3>2, <3>3
  <2>6. ASSUME Op.kind = "min", NEW k \in 1 .. i
        PROVE  acc'.best <= Yields(Op, k)
    <3>1. acc'.best = IF acc.n = 0 \/ r < acc.best THEN r ELSE acc.best
      BY <1>3, <2>6
    <3>2. Yields(Op, k) \in Int
      BY <1>5, <2>3
    <3>3. CASE k = i
      <4> HIDE DEF r
      <4>1. acc'.best <= r
        BY <1>4, <2>4, <3>1
      <4> QED
        BY <3>3, <4>1 DEF r
    <3>4. CASE k # i
      <4>1. k \in 1 .. (i - 1) /\ acc.n # 0
        BY <1>1, <2>1, <2>3, <3>4
      <4>2. acc.best <= Yields(Op, k)
        BY <2>2, <2>6, <4>1
      <4> HIDE DEF r
      <4> QED
        BY <1>4, <2>4, <3>1, <3>2, <4>1, <4>2
    <3> QED
      BY <3>3, <3>4
  <2>7. ASSUME Op.kind = "max", NEW k \in 1 .. i
        PROVE  acc'.best >= Yields(Op, k)
    <3>1. acc'.best = IF acc.n = 0 \/ r > acc.best THEN r ELSE acc.best
      BY <1>3, <2>7
    <3>2. Yields(Op, k) \in Int
      BY <1>5, <2>3
    <3>3. CASE k = i
      <4> HIDE DEF r
      <4>1. acc'.best >= r
        BY <1>4, <2>4, <3>1
      <4> QED
        BY <3>3, <4>1 DEF r
    <3>4. CASE k # i
      <4>1. k \in 1 .. (i - 1) /\ acc.n # 0
        BY <1>1, <2>1, <2>3, <3>4
      <4>2. acc.best >= Yields(Op, k)
        BY <2>2, <2>7, <4>1
      <4> HIDE DEF r
      <4> QED
        BY <1>4, <2>4, <3>1, <3>2, <4>1, <4>2
    <3> QED
      BY <3>3, <3>4
  <2> QED
    BY <2>1, <2>5, <2>6, <2>7
<1>11. (Sums(Op, was)[i - 1])' = Sums(Op, was)[i' - 1] /\ Rank(Op, i - 1)' = Rank(Op, i' - 1)
  BY <1>1, SameYields
<1> HIDE DEF r, N
<1>12. Op' = Op
  BY <1>1
<1>13. /\ Op.kind \in {"sum", "average"} => acc'.sum = (Sums(Op, was)[i - 1])'
       /\ Op.kind = "count_if" => acc'.sum = Rank(Op, i - 1)'
       /\ Op.kind \in {"min", "max", "average"} => acc'.n = i' - 1
  BY <1>7, <1>8, <1>9, <1>11
<1>14. /\ Op.kind \in {"min", "max"} /\ i' > 1 => \E k \in 1 .. (i' - 1) : acc'.best = Yields(Op, k)'
       /\ Op.kind = "min" => \A k \in 1 .. (i' - 1) : acc'.best <= Yields(Op, k)'
       /\ Op.kind = "max" => \A k \in 1 .. (i' - 1) : acc'.best >= Yields(Op, k)'
  BY <1>6, <1>10
<1>15. /\ (Op.kind \in {"sum", "average"} => acc.sum = Sums(Op, was)[i - 1])'
       /\ (Op.kind = "count_if" => acc.sum = Rank(Op, i - 1))'
       /\ (Op.kind \in {"min", "max", "average"} => acc.n = i - 1)'
  BY <1>12, <1>13
<1>16. /\ (Op.kind \in {"min", "max"} /\ i > 1 => \E k \in 1 .. (i - 1) : acc.best = Yields(Op, k))'
       /\ (Op.kind = "min" => \A k \in 1 .. (i - 1) : acc.best <= Yields(Op, k))'
       /\ (Op.kind = "max" => \A k \in 1 .. (i - 1) : acc.best >= Yields(Op, k))'
  BY <1>12, <1>14
<1> QED
  BY <1>15, <1>16, Zenon DEF TakenSoFar

\* filter has one more element in place, or none.
LEMMA ElementKept ==
  ASSUME PipelineInv, MeaningInv, Element, Op.kind = "filter"
  PROVE  acc'.out = Rank(Op, i' - 1) /\ \A n \in 1 .. acc'.out : lists'[Op.list][n] = was[Kept(Op, n)]
<1> DEFINE r == Yields(Op, i)
           now == lists[Op.list]
           new == lists'[Op.list]
<1>1. /\ AtOp /\ i > 0 /\ was \in Seq(Items)
      /\ Op.kind \in WithCallback
      /\ Len(was) \in Nat /\ i \in 1 .. Len(was) /\ DOMAIN was = 1 .. Len(was)
      /\ acc' = Collect(Op, r)
      /\ new = IF r = 1 THEN [now EXCEPT ![acc.out + 1] = was[i]] ELSE now
  BY ElementLooksAt
<1>2. /\ acc.out = Rank(Op, i - 1) /\ acc.out \in Nat /\ \A n \in 1 .. acc.out : now[n] = was[Kept(Op, n)]
  BY <1>1 DEF MeaningInv, WrittenSoFar, PipelineInv, Locals
<1>3. acc'.out = IF r = 1 THEN acc.out + 1 ELSE acc.out
  <2>1. acc' = Collect(Op, r)
    BY <1>1
  <2> HIDE DEF r
  <2>2. Collect(Op, r).out = IF Op.kind = "filter" /\ r = 1 THEN acc.out + 1 ELSE acc.out
    BY CollectedFields, ZenonT(60)
  <2> QED
    BY <2>1, <2>2
<1>4. i' - 1 = i
  BY <1>1, GoesOn DEF Questions
<1>5. Rank(Op, i) = Rank(Op, i - 1) + (IF r = 1 THEN 1 ELSE 0)
  BY <1>1, RankFacts
<1>6. acc'.out = Rank(Op, i)
  <2> HIDE DEF r
  <2> QED
    BY <1>2, <1>3, <1>5
<1>7. ASSUME NEW n \in 1 .. acc'.out
      PROVE  new[n] = was[Kept(Op, n)]
  <2>1. CASE r = 1
    <3>1. /\ now \in Seq(Items) /\ DOMAIN now = 1 .. Len(was) /\ acc.out + 1 \in DOMAIN now
      <4>1. now \in Seq(Items) /\ Len(now) = Len(was) /\ acc.out < i
        BY <1>1, AtOpFacts
      <4>2. DOMAIN now = 1 .. Len(was)
        BY <4>1, LenProperties
      <4> HIDE DEF now
      <4> QED
        BY <1>1, <1>2, <4>1, <4>2
    <3>2. new = [now EXCEPT ![acc.out + 1] = was[i]] /\ acc'.out = acc.out + 1
      BY <1>1, <1>3, <2>1
    <3>3. CASE n = acc.out + 1
      <4>1. i \in Those(Op)
        BY <1>1, <2>1 DEF Those
      <4>2. Kept(Op, Rank(Op, i)) = i
        BY <1>1, <4>1, RankFacts
      <4>3. new[n] = was[i]
        <5> HIDE DEF new, now
        <5> QED
          BY <3>1, <3>2, <3>3
      <4> QED
        BY <1>6, <3>2, <3>3, <4>2, <4>3
    <3>4. CASE n # acc.out + 1
      <4>1. n \in 1 .. acc.out
        BY <1>2, <3>2, <3>4
      <4>2. new[n] = now[n]
        <5>1. n \in DOMAIN now
          <6> HIDE DEF now
          <6> QED
            BY <1>2, <3>1, <4>1
        <5> HIDE DEF new, now
        <5> QED
          BY <3>1, <3>2, <3>4, <5>1
      <4> QED
        BY <1>2, <4>1, <4>2
    <3> QED
      BY <3>3, <3>4
  <2>2. CASE r # 1
    <3>1. new = now /\ acc'.out = acc.out
      BY <1>1, <1>3, <2>2
    <3> QED
      BY <1>2, <3>1
  <2> QED
    BY <2>1, <2>2
<1> QED
  BY <1>4, <1>6, <1>7

\* map has mapped one more.
LEMMA ElementMapped ==
  ASSUME PipelineInv, MeaningInv, Element, Op.kind = "map"
  PROVE  acc'.tmp = [k \in 1 .. (i' - 1) |-> [t |-> Callbacks[Op.f].out, v |-> Yields(Op, k)]]
<1> DEFINE M(k) == [t |-> Callbacks[Op.f].out, v |-> Yields(Op, k)]
           tmp == acc.tmp
<1>1. /\ AtOp /\ i > 0 /\ i \in 1 .. Len(was) /\ Len(was) \in Nat
      /\ acc' = Collect(Op, Yields(Op, i))
  BY ElementLooksAt
<1>2. tmp = [k \in 1 .. (i - 1) |-> M(k)] /\ tmp \in Seq(Items)
  BY <1>1 DEF MeaningInv, WrittenSoFar, PipelineInv, Locals
<1>3. acc'.tmp = Append(tmp, M(i))
  BY <1>1, CollectedFields
<1>4. i' - 1 = i
  BY <1>1, GoesOn DEF Questions
<1> HIDE DEF M, tmp
<1>5. i - 1 \in Nat /\ Len(tmp) = i - 1
  <2>1. i - 1 \in Nat
    BY <1>1
  <2>2. DOMAIN tmp = 1 .. (i - 1) /\ DOMAIN tmp = 1 .. Len(tmp) /\ Len(tmp) \in Nat
    BY <1>2, LenProperties
  <2> QED
    BY <2>1, <2>2
<1>6. Append(tmp, M(i)) = [k \in 1 .. i |-> M(k)]
  <2>1. Append(tmp, M(i)) = [k \in 1 .. (Len(tmp) + 1) |-> IF k = Len(tmp) + 1 THEN M(i) ELSE tmp[k]]
    BY <1>2, <1>5
  <2>2. Len(tmp) + 1 = i
    BY <1>1, <1>5
  <2>3. ASSUME NEW k \in 1 .. i
        PROVE  (IF k = i THEN M(i) ELSE tmp[k]) = M(k)
    <3>1. k # i => k \in 1 .. (i - 1)
      BY <1>1
    <3> QED
      BY <1>2, <3>1
  <2> QED
    BY <2>1, <2>2, <2>3
<1> QED
  BY <1>3, <1>4, <1>6 DEF M

\* And what is written so far.
LEMMA ElementWritten ==
  ASSUME PipelineInv, MeaningInv, Element
  PROVE  WrittenSoFar'
<1>1. /\ AtOp /\ i > 0 /\ Op' = Op /\ was' = was
      /\ Op.kind # "filter" => lists'[Op.list] = lists[Op.list]
  BY ElementLooksAt
<1>2. Op.kind = "map" => acc'.tmp = [k \in 1 .. (i' - 1) |-> [t |-> Callbacks[Op.f].out, v |-> Yields(Op, k)]]
  BY ElementMapped
<1>3. Op.kind = "filter" => acc'.out = Rank(Op, i' - 1) /\ \A n \in 1 .. acc'.out : lists'[Op.list][n] = was[Kept(Op, n)]
  BY ElementKept
<1>4. Op.kind # "filter" => lists'[Op.list] = was
  BY <1>1 DEF MeaningInv, WrittenSoFar
<1>5. /\ \A k : Yields(Op, k)' = Yields(Op, k)
      /\ Rank(Op, i - 1)' = Rank(Op, i' - 1)
      /\ \A k : Kept(Op, k)' = Kept(Op, k)
  BY <1>1, SameYields
<1>6. (Op.kind = "map" => acc.tmp = [k \in 1 .. (i - 1) |-> [t |-> Callbacks[Op.f].out, v |-> Yields(Op, k)]])'
  <2> SUFFICES ASSUME Op'.kind = "map"
               PROVE  acc'.tmp = [k \in 1 .. (i' - 1) |-> [t |-> Callbacks[Op'.f].out, v |-> Yields(Op, k)']]
    OBVIOUS
  <2>1. acc'.tmp = [k \in 1 .. (i' - 1) |-> [t |-> Callbacks[Op.f].out, v |-> Yields(Op, k)]]
    BY <1>1, <1>2
  <2>2. Callbacks[Op'.f].out = Callbacks[Op.f].out
    BY <1>1
  <2> QED
    BY <1>5, <2>1, <2>2
<1>7. (Op.kind = "filter" => acc.out = Rank(Op, i - 1) /\ \A n \in 1 .. acc.out : lists[Op.list][n] = was[Kept(Op, n)])'
  <2> SUFFICES ASSUME Op'.kind = "filter"
               PROVE  acc'.out = Rank(Op, i - 1)' /\ \A n \in 1 .. acc'.out : lists'[Op'.list][n] = was'[Kept(Op, n)']
    OBVIOUS
  <2> QED
    BY <1>1, <1>3, <1>5
<1>8. (Op.kind # "filter" => lists[Op.list] = was)'
  <2>1. lists'[Op'.list] = lists'[Op.list] /\ Op'.kind = Op.kind
    BY <1>1
  <2> QED
    BY <1>1, <1>4, <2>1
<1> QED
  BY <1>6, <1>7, <1>8 DEF WrittenSoFar

\* So an element keeps MeaningInv.
LEMMA ElementMeaning ==
  ASSUME PipelineInv, MeaningInv, Element
  PROVE  MeaningInv'
<1>1. FoundSoFar' /\ TakenSoFar' /\ WrittenSoFar' /\ results' = results
  BY ElementFound, ElementTaken, ElementWritten, ElementLooksAt
<1> QED
  BY <1>1 DEF MeaningInv

-----------------------------------------------------------------------------
(* The other steps *)

\* While nothing is half way, only what was pushed has to be a number.
LEMMA AsideMeaning ==
  ASSUME results' \in Seq(Int), ~AtOp' \/ i' = 0
  PROVE  MeaningInv'
  BY DEF MeaningInv

\* At first no operation runs.
LEMMA InitMeaning == Init => MeaningInv
<1> SUFFICES ASSUME Init PROVE MeaningInv
  OBVIOUS
<1>1. results = <<>> /\ i = 0
  BY DEF Init
<1> QED
  BY <1>1 DEF MeaningInv

\* An operation begins with nothing looked at.
LEMMA BeginOpMeaning ==
  ASSUME PipelineInv, MeaningInv, BeginOp
  PROVE  MeaningInv'
<1>1. /\ AtOp /\ i' = 1 /\ acc' = NoLocals /\ was' = lists[Op.list]
      /\ UNCHANGED <<built, lists, pc, results, status>>
  BY DEF BeginOp
<1>2. /\ Op' = Op /\ Op.list \in Lists /\ was' \in Seq(Items)
      /\ Op.kind \in WithCallback => Op.f \in DOMAIN Callbacks
  BY <1>1, AtOpFacts DEF Op
<1>3. i' - 1 = 0 /\ \A k \in 1 .. (i' - 1) : FALSE
  BY <1>1
<1>4. acc'.found = 0 /\ acc'.out = 0 /\ acc'.sum = 0 /\ acc'.n = 0 /\ acc'.tmp = <<>>
  BY <1>1 DEF NoLocals
<1>5. FoundSoFar'
  BY <1>3, <1>4 DEF FoundSoFar
<1>6. Rank(Op, i - 1)' = 0
  <2>1. ASSUME NEW j \in Those(Op)'
        PROVE  ~(j <= 0)
    <3>1. j \in DOMAIN was'
      BY DEF Those
    <3>2. DOMAIN was' = 1 .. Len(was') /\ Len(was') \in Nat
      BY <1>2, LenProperties
    <3> QED
      BY <3>1, <3>2
  <2>2. {j \in Those(Op)' : j <= i' - 1} = {}
    BY <1>3, <2>1
  <2>3. Rank(Op, i - 1)' = Cardinality({j \in Those(Op)' : j <= i' - 1})
    BY DEF Rank
  <2> QED
    BY <2>2, <2>3, FS_EmptySet
<1>7. TakenSoFar'
  <2>1. Op.kind \in {"sum", "average"} => Sums(Op', was')[0] = 0
    <3> SUFFICES ASSUME Op.kind \in {"sum", "average"} PROVE Sums(Op', was')[0] = 0
      OBVIOUS
    <3>1. Op'.f \in DOMAIN Callbacks
      BY <1>2 DEF WithCallback, Reducers, NeedsDefault
    <3> QED
      BY <1>2, <3>1, SumsFacts
  <2>2. (Op.kind \in {"sum", "average"} => acc.sum = Sums(Op, was)[i - 1])'
    BY <1>2, <1>3, <1>4, <2>1
  <2>3. ~(i' > 1)
    BY <1>1
  <2> QED
    BY <1>3, <1>4, <1>6, <2>2, <2>3 DEF TakenSoFar
<1>8. WrittenSoFar'
  <2>1. (Op.kind = "map" => acc.tmp = [k \in 1 .. (i - 1) |-> [t |-> Callbacks[Op.f].out, v |-> Yields(Op, k)]])'
    <3> SUFFICES acc'.tmp = [k \in 1 .. (i' - 1) |-> [t |-> Callbacks[Op'.f].out, v |-> Yields(Op, k)']]
      OBVIOUS
    <3>1. 1 .. (i' - 1) = {}
      BY <1>1
    <3> QED
      BY <1>4, <3>1
  <2>2. (Op.kind = "filter" => acc.out = Rank(Op, i - 1) /\ \A n \in 1 .. acc.out : lists[Op.list][n] = was[Kept(Op, n)])'
    <3>1. \A n \in 1 .. acc'.out : FALSE
      BY <1>4
    <3> QED
      BY <1>4, <1>6, <3>1
  <2>3. (Op.kind # "filter" => lists[Op.list] = was)'
    BY <1>1, <1>2
  <2> QED
    BY <2>1, <2>2, <2>3 DEF WrittenSoFar
<1>9. results' \in Seq(Int)
  BY <1>1 DEF MeaningInv
<1> QED
  BY <1>5, <1>7, <1>8, <1>9 DEF MeaningInv

\* What is pushed is a number.
LEMMA AnswerIsInt ==
  ASSUME PipelineInv, MeaningInv, AtOp, i > 0, Op.kind \in Reducers, NEW v \in Values
  PROVE  Answer(Op, v) \in Int
<1> DEFINE now == lists[Op.list]
<1>1. v \in Int /\ now \in Seq(Items) /\ Len(now) \in Nat
  BY AtOpFacts, ElementsAssumption, LenProperties
<1>2. acc.sum \in Int /\ acc.best \in Int /\ acc.n \in Nat /\ acc.found \in Nat
  BY DEF PipelineInv, Locals
<1>3. acc.n # 0 => acc.sum \div acc.n \in Int
  BY <1>2
<1>4. Op.kind \in {"first", "last"} /\ acc.found > 0 => now[acc.found].v \in Int
  <2> SUFFICES ASSUME Op.kind \in {"first", "last"}, acc.found > 0 PROVE now[acc.found].v \in Int
    OBVIOUS
  <2>1. acc.found \in 1 .. (i - 1)
    BY <1>2 DEF MeaningInv, FoundSoFar
  <2>2. i \in Nat /\ i <= Len(now) + 1
    BY AtOpFacts DEF PipelineInv, TypeOK
  <2>3. acc.found \in 1 .. Len(now)
    <3> HIDE DEF now
    <3> QED
      BY <1>1, <2>1, <2>2
  <2>4. now[acc.found] \in Items
    <3> HIDE DEF now
    <3> QED
      BY <1>1, <2>3, ElementOfSeq
  <2> QED
    BY <2>4, ElementsAssumption DEF Items
<1>5. Op.kind \in {"count", "empty", "any", "all", "none", "count_if", "sum", "min", "max", "average", "first", "last"}
  BY DEF Reducers, NeedsDefault
<1> HIDE DEF now
<1> QED
  BY <1>1, <1>2, <1>3, <1>4, <1>5 DEF Answer, now

\* The end of an operation pushes a number.
LEMMA EndOpMeaning ==
  ASSUME PipelineInv, MeaningInv, EndOp
  PROVE  MeaningInv'
<1>1. PICK v \in Values : /\ AtOp /\ i > 0 /\ i' = 0
                          /\ results' = IF Op.kind \in Reducers THEN Append(results, Answer(Op, v)) ELSE results
  BY DEF EndOp
<1>2. results \in Seq(Int)
  BY DEF MeaningInv
<1>3. Op.kind \in Reducers => Append(results, Answer(Op, v)) \in Seq(Int)
  BY <1>1, <1>2, AnswerIsInt, AppendProperties
<1>4. results' \in Seq(Int)
  BY <1>1, <1>2, <1>3
<1> QED
  BY <1>1, <1>4, AsideMeaning

\* MeaningInv is inductive.
LEMMA MeaningStep ==
  ASSUME PipelineInv, MeaningInv, [Next]_vars
  PROVE  MeaningInv'
<1>1. results \in Seq(Int)
  BY DEF MeaningInv
<1>2. ASSUME CompileOp \/ CompileStatement \/ EndCompilation \/ Run
      PROVE  MeaningInv'
  <2>1. i' = i /\ results' = results /\ status \in {"compiling", "ready"}
    BY <1>2 DEF CompileOp, CompileStatement, EndCompilation, Run, Compiling
  <2>2. i = 0
    BY <2>1 DEF PipelineInv, Staged
  <2> QED
    BY <1>1, <2>1, <2>2, AsideMeaning
<1>3. ASSUME Skip \/ ElementFails \/ EndRun
      PROVE  MeaningInv'
  <2>1. results' = results /\ (~AtOp' \/ i' = 0)
    BY <1>3 DEF Skip, ElementFails, EndRun, AtOp
  <2> QED
    BY <1>1, <2>1, AsideMeaning
<1>4. CASE UNCHANGED vars
  <2>1. UNCHANGED <<built, lists, pc, i, acc, was, results, status>> /\ Op' = Op
    BY <1>4 DEF vars, Op
  <2>2. AtOp' <=> AtOp
    BY <2>1 DEF AtOp
  <2>3. AtOp /\ i > 0 => FoundSoFar' /\ TakenSoFar' /\ WrittenSoFar'
    <3> SUFFICES ASSUME AtOp, i > 0 PROVE FoundSoFar' /\ TakenSoFar' /\ WrittenSoFar'
      OBVIOUS
    <3>1. FoundSoFar /\ TakenSoFar /\ WrittenSoFar
      BY DEF MeaningInv
    <3>2. FoundSoFar'
      BY <2>1, <3>1 DEF FoundSoFar, Decides, Yields
    <3>3. TakenSoFar'
      BY <2>1, <3>1, SMTT(30) DEF TakenSoFar, Yields, Sums, Rank, Those
    <3>4. WrittenSoFar'
      <4>1. /\ \A k : Yields(Op, k)' = Yields(Op, k)
            /\ Rank(Op, i - 1)' = Rank(Op, i' - 1)
            /\ \A k : Kept(Op, k)' = Kept(Op, k)
        BY <2>1, SameYields
      <4>2. Op.kind = "map" => acc'.tmp = [k \in 1 .. i - 1 |-> [t |-> Callbacks[Op.f].out, v |-> Yields(Op, k)']]
        BY <2>1, <3>1, <4>1 DEF WrittenSoFar
      <4>3. Op.kind = "filter" => /\ acc'.out = Rank(Op, i - 1)'
                                  /\ \A n \in 1 .. acc.out : lists'[Op.list][n] = was'[Kept(Op, n)']
        BY <2>1, <3>1, <4>1 DEF WrittenSoFar
      <4>4. Op.kind # "filter" => lists'[Op.list] = was'
        BY <2>1, <3>1 DEF WrittenSoFar
      <4> QED
        BY <2>1, <4>2, <4>3, <4>4 DEF WrittenSoFar
    <3> QED
      BY <3>2, <3>3, <3>4
  <2> QED
    BY <1>1, <2>1, <2>2, <2>3 DEF MeaningInv
<1> QED
  BY <1>2, <1>3, <1>4, BeginOpMeaning, ElementMeaning, EndOpMeaning DEF Next

-----------------------------------------------------------------------------
(* What an operation that ends has done *)

\* It has looked at all of its list, and what it knows of it is what it pushes
\* or writes.
LEMMA AtTheEnd ==
  ASSUME PipelineInv, MeaningInv, EndOp, Op.kind \in WithCallback
  PROVE  /\ AtOp /\ i > 0 /\ i - 1 = Len(was) /\ was \in Seq(Items)
         /\ DOMAIN was = 1 .. Len(was) /\ Len(was) \in Nat
         /\ FoundSoFar /\ TakenSoFar /\ WrittenSoFar
<1>1. AtOp /\ i > 0 /\ ~Looping
  BY DEF EndOp
<1>2. Len(lists[Op.list]) = Len(was) /\ i <= Len(was) + 1 /\ was \in Seq(Items) /\ i \in Nat
  BY <1>1, AtOpFacts DEF PipelineInv, TypeOK
<1>3. ~(i <= Len(was))
  BY <1>1, <1>2 DEF Looping
<1>4. DOMAIN was = 1 .. Len(was) /\ Len(was) \in Nat
  BY <1>2, LenProperties
<1> QED
  BY <1>1, <1>2, <1>3, <1>4 DEF MeaningInv

\* The result that is pushed is the last one.
LEMMA Pushed ==
  ASSUME PipelineInv, MeaningInv, EndOp, Op.kind \in Reducers
  PROVE  \E v \in Values : results'[Len(results')] = Answer(Op, v)
<1>1. PICK v \in Values : AtOp /\ i > 0 /\ results' = Append(results, Answer(Op, v))
  BY DEF EndOp
<1>2. results \in Seq(Int) /\ Answer(Op, v) \in Int
  BY <1>1, AnswerIsInt DEF MeaningInv
<1>3. results'[Len(results')] = Answer(Op, v)
  BY <1>1, <1>2, AppendProperties, LenProperties
<1> QED
  BY <1>3

\* What filter and map have written when the loop ends.
LEMMA WhatIsWritten ==
  ASSUME PipelineInv, MeaningInv, EndOp
  PROVE  \E v \in Values : lists'[Op.list] = Written(Op, v)
<1>1. PICK v \in Values : AtOp /\ lists' = [lists EXCEPT ![Op.list] = Written(Op, v)]
  BY DEF EndOp
<1>2. lists'[Op.list] = Written(Op, v)
  BY <1>1, AtOpFacts
<1> QED
  BY <1>2

\* filter keeps those the body says yes to, in their order.
LEMMA FilterDoes ==
  ASSUME PipelineInv, MeaningInv, EndOp, Op.kind = "filter"
  PROVE  lists'[Op.list] = [n \in 1 .. Cardinality(Those(Op)) |-> was[Kept(Op, n)]]
<1> DEFINE now == lists[Op.list]
           out == acc.out
<1>1. /\ AtOp /\ i > 0 /\ i - 1 = Len(was) /\ was \in Seq(Items) /\ Len(was) \in Nat
      /\ WrittenSoFar
  BY AtTheEnd DEF WithCallback
<1>2. out = Rank(Op, Len(was)) /\ \A n \in 1 .. out : now[n] = was[Kept(Op, n)]
  BY <1>1 DEF WrittenSoFar
<1>3. out = Cardinality(Those(Op))
  BY <1>1, <1>2, RankFacts
<1>4. lists'[Op.list] = SubSeq(now, 1, out)
  BY WhatIsWritten DEF Written
<1>5. /\ out \in Nat /\ out < i /\ i \in Nat
      /\ now \in Seq(Items) /\ Len(now) = Len(was)
  BY <1>1, AtOpFacts DEF PipelineInv, TypeOK, Locals
<1> HIDE DEF now, out
<1>6. \A n \in 1 .. out : now[n] \in Items
  <2>1. \A n \in 1 .. out : n \in 1 .. Len(now)
    BY <1>1, <1>5
  <2> QED
    BY <1>5, <2>1, ElementOfSeq
<1>7. /\ SubSeq(now, 1, out) \in Seq(Items) /\ Len(SubSeq(now, 1, out)) = out
      /\ \A n \in 1 .. out : SubSeq(now, 1, out)[n] = now[n]
  <2>1. out \in Int /\ 1 \in Int /\ out - 1 + 1 = out /\ (1 <= out \/ out = 0)
    BY <1>5
  <2>2. \A n \in 1 .. out : 1 + n - 1 = n
    BY <1>5
  <2> QED
    BY <1>6, <2>1, <2>2, SubSeqProperties
<1>8. SubSeq(now, 1, out) = [n \in 1 .. out |-> was[Kept(Op, n)]]
  <2>1. SubSeq(now, 1, out) = [n \in 1 .. out |-> SubSeq(now, 1, out)[n]]
    BY <1>7
  <2> QED
    BY <1>2, <1>7, <2>1
<1> QED
  BY <1>3, <1>4, <1>8

\* map puts what the body yields in the place of each element.
LEMMA MapDoes ==
  ASSUME PipelineInv, MeaningInv, EndOp, Op.kind = "map"
  PROVE  lists'[Op.list] = [k \in DOMAIN was |-> [t |-> Callbacks[Op.f].out, v |-> Yields(Op, k)]]
<1>1. i - 1 = Len(was) /\ DOMAIN was = 1 .. Len(was) /\ WrittenSoFar
  BY AtTheEnd DEF WithCallback
<1>2. lists'[Op.list] = acc.tmp
  BY WhatIsWritten DEF Written
<1> QED
  BY <1>1, <1>2 DEF WrittenSoFar

\* What the body says of all elements, when the loop has been through them.
LEMMA AllLookedAt ==
  ASSUME PipelineInv, MeaningInv, EndOp, Op.kind \in Questions
  PROVE  /\ acc.found \in Nat
         /\ acc.found = 0 => \A k \in DOMAIN was : ~ Decides(Op, Yields(Op, k))
         /\ acc.found > 0 => /\ acc.found \in DOMAIN was /\ Decides(Op, Yields(Op, acc.found))
                             /\ \A k \in DOMAIN was : (IF Op.kind = "last" THEN k > acc.found ELSE k < acc.found)
                                                        => ~ Decides(Op, Yields(Op, k))
         /\ \A k \in DOMAIN was : Yields(Op, k) \in {0, 1}
<1>0. Op.kind \in WithCallback /\ Op.kind \in Tests
  BY DEF WithCallback, Reducers, NeedsDefault, Questions, Tests
<1>1. AtOp /\ i - 1 = Len(was) /\ DOMAIN was = 1 .. Len(was) /\ FoundSoFar
  BY <1>0, AtTheEnd
<1>2. SoFar(Op, acc.found, i)
  BY <1>1 DEF FoundSoFar, SoFar, Questions
<1>3. acc.found \in Nat
  BY DEF PipelineInv, Locals
<1>4. \A k \in DOMAIN was : Yields(Op, k) \in {0, 1}
  BY <1>0, <1>1, Answers
<1> QED
  BY <1>1, <1>2, <1>3, <1>4 DEF SoFar

\* any, all and none answer their question.
LEMMA QuestionsDo ==
  ASSUME PipelineInv, MeaningInv, EndOp, Op.kind \in {"any", "all", "none"}
  PROVE  LET answer == results'[Len(results')]
         IN  /\ Op.kind = "any" => (answer = 1 <=> Those(Op) # {})
             /\ Op.kind = "all" => (answer = 1 <=> Those(Op) = DOMAIN was)
             /\ Op.kind = "none" => (answer = 1 <=> Those(Op) = {})
<1> DEFINE answer == results'[Len(results')]
<1>1. PICK v \in Values : answer = Answer(Op, v)
  BY Pushed DEF Reducers
<1>2. /\ acc.found \in Nat
      /\ acc.found = 0 => \A k \in DOMAIN was : ~ Decides(Op, Yields(Op, k))
      /\ acc.found > 0 => acc.found \in DOMAIN was /\ Decides(Op, Yields(Op, acc.found))
      /\ \A k \in DOMAIN was : Yields(Op, k) \in {0, 1}
  BY AllLookedAt DEF Questions
<1> HIDE DEF answer
<1>3. ASSUME Op.kind = "any"
      PROVE  answer = 1 <=> Those(Op) # {}
  <2>1. \A k : Decides(Op, Yields(Op, k)) <=> Yields(Op, k) = 1
    BY <1>3 DEF Decides
  <2>2. answer = IF acc.found > 0 THEN 1 ELSE 0
    BY <1>1, <1>3 DEF Answer
  <2> QED
    BY <1>2, <2>1, <2>2 DEF Those
<1>4. ASSUME Op.kind = "none"
      PROVE  answer = 1 <=> Those(Op) = {}
  <2>1. \A k : Decides(Op, Yields(Op, k)) <=> Yields(Op, k) = 1
    BY <1>4 DEF Decides
  <2>2. answer = IF acc.found > 0 THEN 0 ELSE 1
    BY <1>1, <1>4 DEF Answer
  <2> QED
    BY <1>2, <2>1, <2>2 DEF Those
<1>5. ASSUME Op.kind = "all"
      PROVE  answer = 1 <=> Those(Op) = DOMAIN was
  <2>1. \A k : Decides(Op, Yields(Op, k)) <=> Yields(Op, k) = 0
    BY <1>5 DEF Decides
  <2>2. answer = IF acc.found > 0 THEN 0 ELSE 1
    BY <1>1, <1>5 DEF Answer
  <2>3. \A k \in DOMAIN was : Yields(Op, k) = 0 <=> ~(Yields(Op, k) = 1)
    BY <1>2
  <2> QED
    BY <1>2, <2>1, <2>2, <2>3 DEF Those
<1> QED
  BY <1>3, <1>4, <1>5 DEF answer

\* first and last pick the first and the last of those the body says yes to.
LEMMA PicksDo ==
  ASSUME PipelineInv, MeaningInv, EndOp, Op.kind \in {"first", "last"}, Those(Op) # {}
  PROVE  LET answer == results'[Len(results')]
         IN  /\ Op.kind = "first" => answer = was[Min(Those(Op))].v
             /\ Op.kind = "last" => answer = was[Max(Those(Op))].v
<1> DEFINE answer == results'[Len(results')]
           at == acc.found
<1>1. PICK v \in Values : answer = Answer(Op, v)
  BY Pushed DEF Reducers, NeedsDefault
<1>2. /\ at \in Nat
      /\ at = 0 => \A k \in DOMAIN was : ~ Decides(Op, Yields(Op, k))
      /\ at > 0 => /\ at \in DOMAIN was /\ Decides(Op, Yields(Op, at))
                   /\ \A k \in DOMAIN was : (IF Op.kind = "last" THEN k > at ELSE k < at) => ~ Decides(Op, Yields(Op, k))
  BY AllLookedAt DEF Questions
<1>3. \A k : Decides(Op, Yields(Op, k)) <=> Yields(Op, k) = 1
  BY DEF Decides
<1>4. DOMAIN was = 1 .. Len(was) /\ WrittenSoFar
  BY AtTheEnd DEF WithCallback, Reducers, NeedsDefault
<1>5. lists[Op.list] = was
  BY <1>4 DEF WrittenSoFar
<1> HIDE DEF answer, at
<1>6. at > 0 /\ at \in Those(Op)
  <2>1. at # 0
    BY <1>2, <1>3 DEF Those
  <2>2. at > 0
    BY <1>2, <2>1
  <2> QED
    BY <1>2, <1>3, <2>2 DEF Those
<1>7. answer = was[at].v
  BY <1>1, <1>5, <1>6 DEF Answer, at
<1>8. Those(Op) \in SUBSET Int
  BY <1>4 DEF Those
<1>9. ASSUME Op.kind = "first"
      PROVE  Min(Those(Op)) = at
  <2>1. ASSUME NEW k \in Those(Op)
        PROVE  at <= k
    <3>1. ~(k < at) /\ k \in Int
      BY <1>2, <1>3, <1>6, <1>8, <1>9 DEF Those
    <3> QED
      BY <1>2, <3>1
  <2> QED
    BY <1>6, <1>8, <2>1, MinIs
<1>10. ASSUME Op.kind = "last"
       PROVE  Max(Those(Op)) = at
  <2>1. ASSUME NEW k \in Those(Op)
        PROVE  at >= k
    <3>1. ~(k > at) /\ k \in Int
      BY <1>2, <1>3, <1>6, <1>8, <1>10 DEF Those
    <3> QED
      BY <1>2, <3>1
  <2> QED
    BY <1>6, <1>8, <2>1, MaxIs
<1> QED
  BY <1>7, <1>9, <1>10 DEF answer

\* sum, average, count_if, min and max, over a list that is not empty.
LEMMA NumbersDo ==
  ASSUME PipelineInv, MeaningInv, EndOp, Op.kind \in {"count_if", "sum", "average", "min", "max"}
  PROVE  LET answer == results'[Len(results')]
         IN  /\ Op.kind = "count_if" => answer = Cardinality(Those(Op))
             /\ Op.kind = "sum" => answer = Total(Op)
             /\ Op.kind = "average" => (was # <<>> => answer = Total(Op) \div Len(was))
             /\ Op.kind = "min" => (was # <<>> => answer = Min(Each(Op)))
             /\ Op.kind = "max" => (was # <<>> => answer = Max(Each(Op)))
<1> DEFINE answer == results'[Len(results')]
           N == Len(was)
<1>0. Op.kind \in WithCallback
  BY DEF WithCallback, Reducers, NeedsDefault
<1>1. PICK v \in Values : answer = Answer(Op, v)
  BY Pushed DEF Reducers, NeedsDefault
<1>2. /\ AtOp /\ i > 0 /\ i - 1 = N /\ N \in Nat /\ was \in Seq(Items) /\ DOMAIN was = 1 .. N
      /\ TakenSoFar
  BY <1>0, AtTheEnd
<1>3. was # <<>> => N # 0
  BY <1>2
<1>4. \A k \in 1 .. N : Yields(Op, k) \in Int
  BY <1>0, <1>2, Answers
<1> HIDE DEF answer
<1>5. Op.kind = "count_if" => answer = Cardinality(Those(Op))
  BY <1>1, <1>2, RankFacts DEF TakenSoFar, Answer
<1>6. Op.kind = "sum" => answer = Total(Op)
  BY <1>1, <1>2 DEF TakenSoFar, Answer, Total
<1>7. Op.kind = "average" => (was # <<>> => answer = Total(Op) \div N)
  BY <1>1, <1>2, <1>3 DEF TakenSoFar, Answer, Total
<1>8. Op.kind \in {"min", "max"} => (was # <<>> => answer = acc.best)
  BY <1>1, <1>2, <1>3 DEF TakenSoFar, Answer
<1>9. Each(Op) \in SUBSET Int
  BY <1>2, <1>4 DEF Each
<1>10. Op.kind \in {"min", "max"} /\ was # <<>> => acc.best \in Each(Op)
  <2> SUFFICES ASSUME Op.kind \in {"min", "max"}, was # <<>> PROVE acc.best \in Each(Op)
    OBVIOUS
  <2>1. i > 1
    <3>1. i \in Nat /\ N # 0
      BY <1>3 DEF PipelineInv, TypeOK
    <3> HIDE DEF N
    <3> QED
      BY <1>2, <3>1
  <2>2. \E k \in 1 .. N : acc.best = Yields(Op, k)
    BY <1>2, <2>1 DEF TakenSoFar
  <2> QED
    BY <1>2, <2>2 DEF Each
<1>11. ASSUME Op.kind = "min", was # <<>>
       PROVE  Min(Each(Op)) = acc.best
  <2>1. \A y \in Each(Op) : acc.best <= y
    BY <1>2, <1>11 DEF TakenSoFar, Each
  <2> QED
    BY <1>9, <1>10, <1>11, <2>1, MinIs
<1>12. ASSUME Op.kind = "max", was # <<>>
       PROVE  Max(Each(Op)) = acc.best
  <2>1. \A y \in Each(Op) : acc.best >= y
    BY <1>2, <1>12 DEF TakenSoFar, Each
  <2> QED
    BY <1>9, <1>10, <1>12, <2>1, MaxIs
<1> QED
  BY <1>5, <1>6, <1>7, <1>8, <1>11, <1>12 DEF answer

\* What a reducer pushes is its definition.
LEMMA ReducedHolds ==
  ASSUME PipelineInv, MeaningInv, EndOp
  PROVE  Reduced
<1>1. CASE Op.kind = "filter"
  BY <1>1, FilterDoes DEF Reduced
<1>2. CASE Op.kind = "map"
  BY <1>2, MapDoes DEF Reduced
<1>3. CASE Op.kind \in {"any", "all", "none"}
  BY <1>3, QuestionsDo DEF Reduced
<1>4. CASE Op.kind \in {"first", "last"}
  BY <1>4, PicksDo DEF Reduced
<1>5. CASE Op.kind \in {"count_if", "sum", "average", "min", "max"}
  BY <1>5, NumbersDo DEF Reduced
<1>6. CASE Op.kind \notin {"filter", "map", "any", "all", "none", "first", "last", "count_if", "sum", "average", "min", "max"}
  BY <1>6 DEF Reduced
<1> QED
  BY <1>1, <1>2, <1>3, <1>4, <1>5, <1>6

-----------------------------------------------------------------------------
(* The theorems *)

\* Half way through an operation its locals, and the list of a filter, say of
\* the elements looked at what the operation is to say of all of them.
THEOREM MeaningInvHolds == Spec => []MeaningInv
<1>1. PipelineInv /\ MeaningInv /\ [Next]_vars => MeaningInv'
  BY MeaningStep
<1> QED
  BY <1>1, InitMeaning, PipelineInvHolds, PTL DEF Spec

\* Whatever the list, the body and the program: an operation that ends has done
\* to its list, or pushed, what its name says.
THEOREM OperationsDoWhatTheySay == Spec => DoesWhatItSays
<1>1. PipelineInv /\ MeaningInv /\ [Next]_vars => [EndOp => Reduced]_vars
  BY ReducedHolds
<1> QED
  BY <1>1, PipelineInvHolds, MeaningInvHolds, PTL DEF Spec, DoesWhatItSays

=============================================================================
