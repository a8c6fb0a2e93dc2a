------------------------ MODULE ExecuteFramesProofs ------------------------
(***************************************************************************)
(* Proofs about ExecuteFrames, for every set of compiled scripts whose     *)
(* call sites are fresh, every size of the context and every depth limit.  *)
(***************************************************************************)
EXTENDS ExecuteFrames, SequenceTheorems, TLAPS

-----------------------------------------------------------------------------
(* Sequences and call sites *)

\* A function on 1 .. n is a sequence of length n.
LEMMA FunctionIsSeq ==
  ASSUME NEW S, NEW n \in Nat, NEW f \in [1 .. n -> S]
  PROVE  f \in Seq(S) /\ Len(f) = n /\ DOMAIN f = 1 .. n
<1>1. f \in Seq(S)
  <2>1. f \in UNION {[1 .. m -> S] : m \in Nat}
    OBVIOUS
  <2> QED
    BY <2>1, SeqDef, Zenon
<1>2. DOMAIN f = 1 .. n
  OBVIOUS
<1>3. Len(f) \in Nat /\ DOMAIN f = 1 .. Len(f)
  BY <1>1, LenProperties
<1> QED
  BY <1>1, <1>2, <1>3

\* What the compiler guarantees of a call site.
LEMMA SiteFacts ==
  ASSUME SitesFresh, NEW s \in Scripts, NEW c \in Sites[s]
  PROVE  /\ c \in AllSites
         /\ c.sub \in Scripts
         /\ c.nlists = NLists[c.sub]
         /\ NLists[c.sub] \in Nat /\ NArgs[c.sub] \in Nat /\ NSaved[c.sub] \in Nat
         /\ MaxStack[c.sub] \in Nat /\ MaxSaved[c.sub] \in Nat
         /\ Returns[c.sub] \in BOOLEAN
         /\ \A l \in DOMAIN c.bind : l \in Slots(c.nlists) /\ c.bind[l] \in Slots(NLists[s])
         /\ \A a \in DOMAIN c.out : a \in Slots(NArgs[c.sub])
<1>1. SiteOf(s, c) /\ c.nlists = NLists[c.sub] /\ c \in AllSites
  BY ShapesAssumption DEF SitesFresh, AllSites, ShapesAssumption
<1> QED
  BY <1>1, ShapesAssumption DEF SiteOf, ShapesAssumption

\* A slot of a list frame, counted from the end of the vector or from a base.
LEMMA SlotInRange ==
  ASSUME NEW len \in Nat, NEW n \in Nat, NEW base \in Nat, NEW l \in Slots(n)
  PROVE  /\ n <= len => len - n + l + 1 \in 1 .. len
         /\ base + n <= len => l + base + 1 \in 1 .. len
  BY DEF Slots

\* A shortened sequence.
LEMMA Shortened ==
  ASSUME NEW S, NEW seq \in Seq(S), NEW n \in 0 .. Len(seq)
  PROVE  SubSeq(seq, 1, n) \in Seq(S) /\ Len(SubSeq(seq, 1, n)) = n
  BY SubSeqProperties

\* Swapping the bound lists keeps the vector a vector of the same length.
LEMMA SwapTyped ==
  ASSUME SitesFresh, NEW s \in Scripts, NEW c \in Sites[s],
         NEW base \in Nat, NEW ls \in Seq(Seq(Vals)),
         base + NLists[s] <= Len(ls), c.nlists <= Len(ls)
  PROVE  SwapBound(ls, c, base) \in Seq(Seq(Vals)) /\ Len(SwapBound(ls, c, base)) = Len(ls)
<1> DEFINE callee(l) == Len(ls) - c.nlists + l + 1
           caller(l) == c.bind[l] + base + 1
           swapped(k) == IF \E l \in DOMAIN c.bind : k = callee(l)
                         THEN ls[caller(CHOOSE l \in DOMAIN c.bind : k = callee(l))]
                         ELSE IF \E l \in DOMAIN c.bind : k = caller(l)
                         THEN ls[callee(CHOOSE l \in DOMAIN c.bind : k = caller(l))]
                         ELSE ls[k]
<1>1. Len(ls) \in Nat /\ DOMAIN ls = 1 .. Len(ls)
  BY LenProperties
<1>2. \A l \in DOMAIN c.bind : callee(l) \in 1 .. Len(ls) /\ caller(l) \in 1 .. Len(ls)
  <2>1. c.nlists \in Nat /\ NLists[s] \in Nat
    BY SiteFacts, ShapesAssumption DEF ShapesAssumption
  <2> TAKE l \in DOMAIN c.bind
  <2>2. l \in Slots(c.nlists) /\ c.bind[l] \in Slots(NLists[s])
    BY SiteFacts
  <2>3. callee(l) \in 1 .. Len(ls)
    BY <1>1, <2>1, <2>2, SlotInRange
  <2>4. caller(l) \in 1 .. Len(ls)
    BY <1>1, <2>1, <2>2, SlotInRange
  <2> QED
    BY <2>3, <2>4
<1>3. ASSUME NEW k \in 1 .. Len(ls)
      PROVE  swapped(k) \in Seq(Vals)
  <2>1. CASE \E l \in DOMAIN c.bind : k = callee(l)
    <3>1. PICK m \in DOMAIN c.bind : m = CHOOSE l \in DOMAIN c.bind : k = callee(l)
      BY <2>1
    <3>2. caller(m) \in 1 .. Len(ls)
      BY <1>2
    <3>3. swapped(k) = ls[caller(m)]
      BY <2>1, <3>1
    <3> HIDE DEF caller, swapped
    <3> QED
      BY <3>2, <3>3, ElementOfSeq
  <2>2. CASE /\ ~\E l \in DOMAIN c.bind : k = callee(l)
             /\ \E l \in DOMAIN c.bind : k = caller(l)
    <3>1. PICK m \in DOMAIN c.bind : m = CHOOSE l \in DOMAIN c.bind : k = caller(l)
      BY <2>2
    <3>2. callee(m) \in 1 .. Len(ls)
      BY <1>2
    <3>3. swapped(k) = ls[callee(m)]
      BY <2>2, <3>1
    <3> HIDE DEF callee, swapped
    <3> QED
      BY <3>2, <3>3, ElementOfSeq
  <2>3. CASE /\ ~\E l \in DOMAIN c.bind : k = callee(l)
             /\ ~\E l \in DOMAIN c.bind : k = caller(l)
    <3>1. swapped(k) = ls[k]
      BY <2>3
    <3> HIDE DEF swapped
    <3> QED
      BY <3>1, ElementOfSeq
  <2> QED
    BY <2>1, <2>2, <2>3
<1>4. SwapBound(ls, c, base) = [k \in 1 .. Len(ls) |-> swapped(k)]
  BY <1>1 DEF SwapBound
<1>5. SwapBound(ls, c, base) \in [1 .. Len(ls) -> Seq(Vals)]
  <2> HIDE DEF swapped
  <2> QED
    BY <1>3, <1>4
<1> QED
  BY <1>1, <1>5, FunctionIsSeq

-----------------------------------------------------------------------------
(* Frames *)

LEMMA MovedFrame ==
  ASSUME NEW f \in FrameType, NEW pc \in Phases, NEW c \in AllSites \union {NoSite}
  PROVE  /\ Moved(f, pc, c) \in FrameType
         /\ Moved(f, pc, c).scr = f.scr /\ Moved(f, pc, c).old = f.old
         /\ Moved(f, pc, c).pc = pc /\ Moved(f, pc, c).site = c
  BY DEF FrameType, Moved

\* Moving the innermost of the first i frames to a phase.
LEMMA FramesAtFacts ==
  ASSUME frames \in Seq(FrameType), NEW i \in 1 .. Len(frames),
         NEW pc \in Phases, NEW c \in AllSites \union {NoSite}
  PROVE  /\ FramesAt(i, pc, c) \in Seq(FrameType)
         /\ Len(FramesAt(i, pc, c)) = i
         /\ FramesAt(i, pc, c)[i].scr = frames[i].scr
         /\ FramesAt(i, pc, c)[i].old = frames[i].old
         /\ FramesAt(i, pc, c)[i].pc = pc
         /\ FramesAt(i, pc, c)[i].site = c
         /\ \A k \in 1 .. i - 1 : FramesAt(i, pc, c)[k] = frames[k]
<1> DEFINE moved == Moved(frames[i], pc, c)
<1>1. i \in Nat /\ Len(frames) \in Nat /\ i <= Len(frames)
  BY LenProperties
<1>2. \A k \in 1 .. i : frames[k] \in FrameType
  BY <1>1, ElementOfSeq
<1>3. /\ moved \in FrameType
      /\ moved.scr = frames[i].scr /\ moved.old = frames[i].old
      /\ moved.pc = pc /\ moved.site = c
  <2>1. frames[i] \in FrameType
    BY <1>1, <1>2
  <2> QED
    BY <2>1, MovedFrame
<1> HIDE DEF moved
<1>4. FramesAt(i, pc, c) = [k \in 1 .. i |-> IF k = i THEN moved ELSE frames[k]]
  BY DEF FramesAt, moved
<1>5. FramesAt(i, pc, c) \in [1 .. i -> FrameType]
  BY <1>2, <1>3, <1>4
<1>6. FramesAt(i, pc, c)[i] = moved
  BY <1>1, <1>4
<1>7. \A k \in 1 .. i - 1 : FramesAt(i, pc, c)[k] = frames[k]
  BY <1>1, <1>4
<1> QED
  BY <1>1, <1>3, <1>5, <1>6, <1>7, FunctionIsSeq

\* The first m frames stay where they are; of the m-th the phase may change.
Kept(m) ==
  /\ m \in 1 .. Len(frames) /\ m \in 1 .. Len(frames')
  /\ \A i \in 1 .. m :
       /\ frames'[i].scr = frames[i].scr /\ frames'[i].old = frames[i].old
       /\ FrameBase(i)' = FrameBase(i) /\ ArgBase(i)' = ArgBase(i)
       /\ SavedBase(i)' = SavedBase(i) /\ ListBase(i)' = ListBase(i)
  /\ \A i \in 1 .. m - 1 : frames'[i] = frames[i]

\* A non-empty sequence of frames has an innermost one.
LEMMA TopTyped ==
  ASSUME frames \in Seq(FrameType), frames # <<>>
  PROVE  /\ Len(frames) \in Nat /\ Len(frames) >= 1
         /\ Top \in FrameType
<1>1. Len(frames) \in Nat /\ Len(frames) >= 1
  BY EmptySeq, LenProperties
<1> QED
  BY <1>1, ElementOfSeq DEF Top

LEMMA KeptByRow ==
  ASSUME TypeOK, frames # <<>>, UNCHANGED <<frames, bases>>
  PROVE  Kept(Len(frames))
<1>1. Len(frames) \in 1 .. Len(frames)
  BY TopTyped DEF TypeOK
<1> QED
  BY <1>1 DEF Kept, FrameBase, ArgBase, SavedBase, ListBase, Innermost, bases

LEMMA KeptByReach ==
  ASSUME TypeOK, frames # <<>>, NEW pc \in Phases, NEW c \in AllSites \union {NoSite},
         frames' = FramesAt(Len(frames), pc, c), UNCHANGED bases
  PROVE  /\ Kept(Len(frames))
         /\ frames' \in Seq(FrameType)
         /\ Len(frames') = Len(frames)
         /\ Top'.scr = Top.scr /\ Top'.pc = pc /\ Top'.site = c
<1> DEFINE n == Len(frames)
<1>1. n \in Nat /\ n >= 1 /\ n \in 1 .. n
  BY TopTyped DEF TypeOK
<1>2. frames \in Seq(FrameType)
  BY DEF TypeOK
<1>3. /\ frames' \in Seq(FrameType) /\ Len(frames') = n
      /\ frames'[n].scr = frames[n].scr /\ frames'[n].old = frames[n].old
      /\ frames'[n].pc = pc /\ frames'[n].site = c
      /\ \A k \in 1 .. n - 1 : frames'[k] = frames[k]
  BY <1>1, <1>2, FramesAtFacts
<1>4. \A i \in 1 .. n : frames'[i].scr = frames[i].scr /\ frames'[i].old = frames[i].old
  BY <1>1, <1>3
<1>5. ASSUME NEW i \in 1 .. n
      PROVE  /\ FrameBase(i)' = FrameBase(i) /\ ArgBase(i)' = ArgBase(i)
             /\ SavedBase(i)' = SavedBase(i) /\ ListBase(i)' = ListBase(i)
  <2>1. CASE i = n
    BY <2>1, <1>3 DEF FrameBase, ArgBase, SavedBase, ListBase, Innermost, bases
  <2>2. CASE i # n
    <3>1. i + 1 \in 1 .. n
      BY <1>1, <2>2
    <3> QED
      BY <3>1, <2>2, <1>3, <1>4 DEF FrameBase, ArgBase, SavedBase, ListBase, Innermost
  <2> QED
    BY <2>1, <2>2
<1> QED
  BY <1>1, <1>3, <1>4, <1>5 DEF Kept, Top

\* execute_script stacks a frame for the callee.
LEMMA KeptByExecute ==
  ASSUME TypeOK, frames # <<>>, NEW c \in AllSites \union {NoSite}, NEW sub \in Scripts,
         frames' = Append(FramesAt(Len(frames), "called", c),
                          [scr |-> sub, pc |-> "row", site |-> NoSite, old |-> Old])
  PROVE  /\ Kept(Len(frames))
         /\ frames' \in Seq(FrameType)
         /\ Len(frames') = Len(frames) + 1
         /\ frames'[Len(frames)].pc = "called" /\ frames'[Len(frames)].site = c
         /\ frames'[Len(frames) + 1] = [scr |-> sub, pc |-> "row", site |-> NoSite, old |-> Old]
<1> DEFINE n == Len(frames)
           callee == [scr |-> sub, pc |-> "row", site |-> NoSite, old |-> Old]
           below == FramesAt(n, "called", c)
<1>1. n \in Nat /\ n >= 1 /\ n \in 1 .. n
  BY TopTyped DEF TypeOK
<1>2. frames \in Seq(FrameType)
  BY DEF TypeOK
<1>3. /\ below \in Seq(FrameType) /\ Len(below) = n
      /\ below[n].scr = frames[n].scr /\ below[n].old = frames[n].old
      /\ below[n].pc = "called" /\ below[n].site = c
      /\ \A k \in 1 .. n - 1 : below[k] = frames[k]
  BY <1>1, <1>2, FramesAtFacts DEF Phases
<1>4. Old \in OldType
  <2>1. Len(stack) \in Nat
    BY LenProperties DEF TypeOK
  <2> QED
    BY <2>1 DEF Old, OldType, TypeOK
<1>5. callee \in FrameType
  BY <1>4 DEF FrameType, Phases
<1> HIDE DEF below, callee
<1>6. frames' = Append(below, callee)
  BY DEF below, callee
<1>7. /\ frames' \in Seq(FrameType) /\ Len(frames') = n + 1
      /\ frames'[n + 1] = callee
      /\ \A k \in 1 .. n : frames'[k] = below[k]
  <2> HIDE DEF n
  <2>1. /\ Append(below, callee) \in Seq(FrameType)
        /\ Len(Append(below, callee)) = n + 1
        /\ Append(below, callee)[n + 1] = callee
        /\ \A k \in 1 .. n : Append(below, callee)[k] = below[k]
    BY <1>3, <1>5, AppendProperties
  <2> QED
    BY <2>1, <1>6
<1>8. \A i \in 1 .. n : frames'[i].scr = frames[i].scr /\ frames'[i].old = frames[i].old
  BY <1>1, <1>3, <1>7, SMTT(30)
<1>9. /\ callee.old.frame = frame_base /\ callee.old.arg = arg_base
      /\ callee.old.saved = saved_base /\ callee.old.list = list_base
  BY DEF callee, Old
<1>10. ASSUME NEW i \in 1 .. n
       PROVE  /\ FrameBase(i)' = FrameBase(i) /\ ArgBase(i)' = ArgBase(i)
              /\ SavedBase(i)' = SavedBase(i) /\ ListBase(i)' = ListBase(i)
  <2>1. i # n + 1
    BY <1>1
  <2>2. CASE i = n
    BY <2>1, <2>2, <1>7, <1>9 DEF FrameBase, ArgBase, SavedBase, ListBase, Innermost
  <2>3. CASE i # n
    <3>1. i + 1 \in 1 .. n
      BY <1>1, <2>3
    <3> QED
      BY <3>1, <2>1, <2>3, <1>7, <1>8 DEF FrameBase, ArgBase, SavedBase, ListBase, Innermost
  <2> QED
    BY <2>2, <2>3
<1>11. \A i \in 1 .. n - 1 : frames'[i] = frames[i]
  BY <1>1, <1>3, <1>7
<1>12. n \in 1 .. Len(frames')
  BY <1>1, <1>7
<1>13. Kept(n)
  BY <1>1, <1>8, <1>10, <1>11, <1>12 DEF Kept
<1> QED
  BY <1>1, <1>3, <1>7, <1>13 DEF callee

\* A callee returns, or its frame is unwound.
LEMMA KeptByDrop ==
  ASSUME TypeOK, Len(frames) > 1, NEW pc \in Phases, NEW c \in AllSites \union {NoSite},
         frames' = FramesAt(Len(frames) - 1, pc, c),
         frame_base' = Top.old.frame, arg_base' = Top.old.arg,
         saved_base' = Top.old.saved, list_base' = Top.old.list
  PROVE  /\ Kept(Len(frames) - 1)
         /\ frames' \in Seq(FrameType)
         /\ Len(frames') = Len(frames) - 1
         /\ Top'.scr = Caller.scr /\ Top'.pc = pc /\ Top'.site = c
<1> DEFINE n == Len(frames)
<1>1. n \in Nat /\ n > 1 /\ n - 1 \in 1 .. n /\ n - 1 \in Nat
  BY LenProperties DEF TypeOK
<1>2. frames \in Seq(FrameType)
  BY DEF TypeOK
<1>3. /\ frames' \in Seq(FrameType) /\ Len(frames') = n - 1
      /\ frames'[n - 1].scr = frames[n - 1].scr /\ frames'[n - 1].old = frames[n - 1].old
      /\ frames'[n - 1].pc = pc /\ frames'[n - 1].site = c
      /\ \A k \in 1 .. (n - 1) - 1 : frames'[k] = frames[k]
  BY <1>1, <1>2, FramesAtFacts
<1>4. \A i \in 1 .. n - 1 : frames'[i].scr = frames[i].scr /\ frames'[i].old = frames[i].old
  BY <1>1, <1>3
<1>5. ASSUME NEW i \in 1 .. n - 1
      PROVE  /\ FrameBase(i)' = FrameBase(i) /\ ArgBase(i)' = ArgBase(i)
             /\ SavedBase(i)' = SavedBase(i) /\ ListBase(i)' = ListBase(i)
  <2>1. i # n
    BY <1>1
  <2>2. CASE i = n - 1
    <3>1. i + 1 = n
      BY <1>1, <2>2
    <3> QED
      BY <3>1, <2>1, <2>2, <1>3 DEF FrameBase, ArgBase, SavedBase, ListBase, Innermost, Top
  <2>3. CASE i # n - 1
    <3>1. i + 1 \in 1 .. n - 1
      BY <1>1, <2>3
    <3> QED
      BY <3>1, <2>1, <2>3, <1>3, <1>4 DEF FrameBase, ArgBase, SavedBase, ListBase, Innermost
  <2> QED
    BY <2>2, <2>3
<1>6. n - 1 \in 1 .. Len(frames) /\ n - 1 \in 1 .. Len(frames')
  BY <1>1, <1>3
<1>7. Kept(n - 1)
  BY <1>3, <1>4, <1>5, <1>6 DEF Kept
<1> QED
  BY <1>3, <1>7 DEF Top, Caller

\* Frames that are kept keep their room, their links and their order.
LEMMA KeptInherits ==
  ASSUME TypeOK, Grounded, AllFit, AllLinked, AllBelow, NEW m \in Nat, Kept(m)
  PROVE  /\ Grounded'
         /\ \A i \in 1 .. m : Fit(i)'
         /\ \A i \in 1 .. m - 1 : Link(i)'
         /\ \A i \in 1 .. m, j \in 1 .. m : i < j => Below(i, j)'
<1>1. m >= 1 /\ 1 \in 1 .. m /\ Len(frames) \in Nat /\ m <= Len(frames)
  BY LenProperties DEF Kept, TypeOK
<1>2. Grounded'
  <2>1. frames # <<>>
    BY <1>1, EmptySeq
  <2> QED
    BY <1>1, <2>1 DEF Kept, Grounded
<1>3. ASSUME NEW i \in 1 .. m
      PROVE  Fit(i)'
  <2>1. Fit(i)
    BY <1>1 DEF AllFit
  <2> QED
    BY <2>1 DEF Kept, Fit
<1>4. ASSUME NEW i \in 1 .. m - 1
      PROVE  Link(i)'
  <2>1. Link(i)
    BY <1>1 DEF AllLinked
  <2>2. i \in 1 .. m /\ i + 1 \in 1 .. m
    BY <1>1
  <2> QED
    BY <2>1, <2>2 DEF Kept, Link
<1>5. ASSUME NEW i \in 1 .. m, NEW j \in 1 .. m, i < j
      PROVE  Below(i, j)'
  <2>1. Below(i, j)
    BY <1>1, <1>5 DEF AllBelow
  <2> QED
    BY <2>1 DEF Kept, Below
<1> QED
  BY <1>2, <1>3, <1>4, <1>5

-----------------------------------------------------------------------------
(* The invariant, by what a step does to the frames *)

\* No script runs after the step.
LEMMA IdleInv ==
  ASSUME TypeOK', ContextReusable', frames' = <<>>
  PROVE  FrameInv'
<1>1. Len(frames') = 0
  BY EmptySeq
<1> QED
  BY <1>1 DEF FrameInv, Grounded, AllFit, AllLinked, AllBelow

\* The frames stay; the stack may change while the innermost is in a row.
LEMMA SameFramesInv ==
  ASSUME FrameInv, frames # <<>>, UNCHANGED <<frames, bases, execute_depth>>,
         TypeOK', Len(lists') = Len(lists),
         stack' = stack \/ (Top.pc = "row" /\ frame_base <= Len(stack'))
  PROVE  FrameInv'
<1>1. Kept(Len(frames)) /\ Len(frames) \in Nat
  BY KeptByRow, LenProperties DEF FrameInv, TypeOK
<1>2. Grounded' /\ AllFit' /\ AllLinked' /\ AllBelow'
  <2>1. /\ Grounded'
        /\ \A i \in 1 .. Len(frames) : Fit(i)'
        /\ \A i \in 1 .. Len(frames) - 1 : Link(i)'
        /\ \A i \in 1 .. Len(frames), j \in 1 .. Len(frames) : i < j => Below(i, j)'
    BY <1>1, KeptInherits DEF FrameInv
  <2> QED
    BY <2>1 DEF AllFit, AllLinked, AllBelow
<1>3. ContextReusable'
  BY DEF FrameInv, ContextReusable
<1>4. TopFit'
  <2>1. Top' = Top
    BY DEF Top
  <2>2. TopFit
    BY DEF FrameInv
  <2> QED
    BY <2>1, <2>2 DEF TopFit, OpenLists, bases
<1> QED
  BY <1>2, <1>3, <1>4 DEF FrameInv

\* The innermost frame moves to another phase.
LEMMA ReachInv ==
  ASSUME FrameInv, frames # <<>>, NEW pc \in Phases, NEW c \in AllSites \union {NoSite},
         frames' = FramesAt(Len(frames), pc, c), UNCHANGED <<bases, execute_depth>>,
         TypeOK', TopFit'
  PROVE  FrameInv'
<1>1. Kept(Len(frames)) /\ Len(frames) \in Nat /\ Len(frames') = Len(frames)
  BY KeptByReach, LenProperties DEF FrameInv, TypeOK
<1>2. Grounded' /\ AllFit' /\ AllLinked' /\ AllBelow'
  <2>1. /\ Grounded'
        /\ \A i \in 1 .. Len(frames) : Fit(i)'
        /\ \A i \in 1 .. Len(frames) - 1 : Link(i)'
        /\ \A i \in 1 .. Len(frames), j \in 1 .. Len(frames) : i < j => Below(i, j)'
    BY <1>1, KeptInherits DEF FrameInv
  <2> QED
    BY <1>1, <2>1 DEF AllFit, AllLinked, AllBelow
<1>3. ContextReusable'
  <2>1. frames' # <<>>
    BY <1>1, TopTyped, EmptySeq DEF FrameInv, TypeOK
  <2> QED
    BY <1>1, <2>1 DEF FrameInv, ContextReusable
<1> QED
  BY <1>2, <1>3 DEF FrameInv

\* The innermost frame is gone and its caller's bases are back.
LEMMA DropInv ==
  ASSUME FrameInv, Len(frames) > 1, NEW pc \in Phases, NEW c \in AllSites \union {NoSite},
         frames' = FramesAt(Len(frames) - 1, pc, c),
         frame_base' = Top.old.frame, arg_base' = Top.old.arg,
         saved_base' = Top.old.saved, list_base' = Top.old.list,
         execute_depth' = execute_depth - 1,
         TypeOK', TopFit'
  PROVE  FrameInv'
<1>1. /\ Kept(Len(frames) - 1) /\ Len(frames) \in Nat
      /\ Len(frames') = Len(frames) - 1
  BY KeptByDrop, LenProperties DEF FrameInv, TypeOK
<1>2. Grounded' /\ AllFit' /\ AllLinked' /\ AllBelow'
  <2>1. /\ Grounded'
        /\ \A i \in 1 .. Len(frames) - 1 : Fit(i)'
        /\ \A i \in 1 .. (Len(frames) - 1) - 1 : Link(i)'
        /\ \A i \in 1 .. Len(frames) - 1, j \in 1 .. Len(frames) - 1 : i < j => Below(i, j)'
    BY <1>1, KeptInherits DEF FrameInv
  <2> QED
    BY <1>1, <2>1 DEF AllFit, AllLinked, AllBelow
<1>3. ContextReusable'
  <2>1. frames' # <<>> /\ frames # <<>>
    BY <1>1, EmptySeq
  <2> QED
    BY <1>1, <2>1 DEF FrameInv, ContextReusable
<1> QED
  BY <1>2, <1>3 DEF FrameInv

-----------------------------------------------------------------------------
(* Initial states, the host *)

LEMMA InitInv == Init => FrameInv
<1> SUFFICES ASSUME Init
             PROVE  FrameInv
  OBVIOUS
<1>1. <<>> \in Seq(FrameType) /\ <<>> \in Seq(Vals) /\ <<>> \in Seq(Seq(Vals)) /\ Len(<<>>) = 0
  BY EmptySeq
<1>2. TypeOK
  <2>1. /\ args_stack \in [Slots(ArgSlots) -> SlotVals]
        /\ saved_stack \in [Slots(SavedSlots) -> SlotVals]
        /\ return_value \in SlotVals
    BY DEF Init, SlotVals
  <2>2. frames = <<>> /\ stack = <<>> /\ lists = <<>> /\ throwing \in BOOLEAN
    BY DEF Init
  <2>3. /\ frame_base \in Nat /\ arg_base \in Nat /\ saved_base \in Nat /\ list_base \in Nat
        /\ execute_depth \in Nat
    BY DEF Init
  <2>4. Len(stack) <= StackSlots
    BY <1>1, <2>2, LimitsAssumption DEF LimitsAssumption
  <2> QED
    BY <1>1, <2>1, <2>2, <2>3, <2>4 DEF TypeOK
<1>3. ContextReusable
  BY DEF Init, ContextReusable
<1> QED
  BY <1>1, <1>2, <1>3 DEF Init, FrameInv, Grounded, AllFit, AllLinked, AllBelow

\* A vector of empty lists.
LEMMA EmptyLists ==
  ASSUME NEW n \in Nat
  PROVE  /\ [k \in 1 .. n |-> <<>>] \in Seq(Seq(Vals))
         /\ Len([k \in 1 .. n |-> <<>>]) = n
<1>1. <<>> \in Seq(Vals)
  BY EmptySeq
<1>2. [k \in 1 .. n |-> <<>>] \in [1 .. n -> Seq(Vals)]
  BY <1>1
<1> QED
  BY <1>2, FunctionIsSeq

LEMMA HostInv == FrameInv /\ Host => FrameInv'
<1> SUFFICES ASSUME FrameInv, Host
             PROVE  FrameInv'
  OBVIOUS
<1> USE DEF FrameInv
<1>1. ASSUME NEW s \in Roots, CreateLists(s)
      PROVE  FrameInv'
  <2>1. NLists[s] \in Nat
    BY ShapesAssumption DEF ShapesAssumption
  <2>2. lists' \in Seq(Seq(Vals))
    BY <1>1, <2>1, EmptyLists DEF CreateLists
  <2>3. TypeOK' /\ ContextReusable' /\ frames' = <<>>
    BY <1>1, <2>2 DEF CreateLists, TypeOK, ContextReusable, bases
  <2> QED
    BY <2>3, IdleInv
<1>2. ASSUME NEW k \in Slots(ArgSlots), NEW v \in Vals, HostSetArg(k, v)
      PROVE  FrameInv'
  <2>1. args_stack' \in [Slots(ArgSlots) -> SlotVals]
    BY <1>2 DEF HostSetArg, TypeOK, SlotVals
  <2>2. TypeOK' /\ ContextReusable' /\ frames' = <<>>
    BY <1>2, <2>1 DEF HostSetArg, TypeOK, ContextReusable, bases
  <2> QED
    BY <2>2, IdleInv
<1>3. ASSUME Clear
      PROVE  FrameInv'
  <2>1. stack' \in Seq(Vals) /\ Len(stack') = 0 /\ 0 <= StackSlots
    BY <1>3, EmptySeq, LimitsAssumption DEF Clear, LimitsAssumption
  <2>2. saved_stack' \in [Slots(SavedSlots) -> SlotVals] /\ return_value' \in SlotVals
    BY <1>3 DEF Clear, SlotVals
  <2>3. TypeOK' /\ ContextReusable' /\ frames' = <<>>
    BY <1>3, <2>1, <2>2 DEF Clear, TypeOK, ContextReusable
  <2> QED
    BY <2>3, IdleInv
<1>4. ASSUME NEW s \in Roots, Process(s)
      PROVE  FrameInv'
  <2> DEFINE f == [scr |-> s, pc |-> "row", site |-> NoSite, old |-> NoOld]
  <2>1. /\ s \in Scripts /\ NLists[s] \in Nat /\ NArgs[s] \in Nat /\ NSaved[s] \in Nat
        /\ MaxStack[s] \in Nat /\ MaxSaved[s] \in Nat
        /\ NArgs[s] <= ArgSlots /\ NSaved[s] <= MaxSaved[s]
        /\ ArgSlots \in Nat /\ SavedSlots \in Nat /\ StackSlots \in Nat
    BY ShapesAssumption, LimitsAssumption DEF ShapesAssumption, LimitsAssumption
  <2>2. /\ frame_base = 0 /\ arg_base = 0 /\ saved_base = 0 /\ list_base = 0
        /\ execute_depth = 0 /\ ~throwing
    BY <1>4 DEF Process, ContextReusable
  <2>3. f \in FrameType
    BY <2>1 DEF FrameType, Phases, NoOld, OldType, SlotVals
  <2>4. frames' = <<f>> /\ stack' = <<>>
    BY <1>4 DEF Process
  <2> HIDE DEF f
  <2>5. frames' \in Seq(FrameType) /\ Len(frames') = 1 /\ frames'[1] = f
    BY <2>3, <2>4
  <2>6. stack' \in Seq(Vals) /\ Len(stack') = 0
    BY <2>4, EmptySeq
  <2>7. UNCHANGED <<throwing, args_stack, saved_stack, lists, frame_base, arg_base,
                    saved_base, list_base, execute_depth, return_value>>
    BY <1>4 DEF Process, bases
  <2>8. TypeOK'
    BY <2>1, <2>5, <2>6, <2>7 DEF TypeOK
  <2>9. ContextReusable'
    BY <2>2, <2>5, <2>7, EmptySeq DEF ContextReusable
  <2>10. /\ FrameBase(1)' = 0 /\ ArgBase(1)' = 0 /\ SavedBase(1)' = 0 /\ ListBase(1)' = 0
    BY <2>2, <2>5, <2>7 DEF FrameBase, ArgBase, SavedBase, ListBase, Innermost
  <2>11. f.scr = s /\ f.pc = "row"
    BY DEF f
  <2>12. ContextFits(s, 0, 0, 0)
    BY <1>4, <2>2 DEF Process
  <2>13. Fit(1)'
    BY <2>1, <2>5, <2>10, <2>11, <2>12 DEF Fit, ContextFits
  <2>14. Len(lists) \in Nat
    BY LenProperties DEF TypeOK
  <2>15. NLists[s] <= Len(lists)
    BY <2>1, <2>12, <2>14 DEF ContextFits
  <2>16. TopFit'
    <3>1. Top' = f
      BY <2>5 DEF Top
    <3> QED
      BY <3>1, <2>1, <2>2, <2>6, <2>7, <2>11, <2>14, <2>15 DEF TopFit, OpenLists
  <2> QED
    BY <2>5, <2>8, <2>9, <2>10, <2>13, <2>16 DEF Grounded, AllFit, AllLinked, AllBelow
<1> QED
  BY <1>1, <1>2, <1>3, <1>4 DEF Host

-----------------------------------------------------------------------------
(* What the invariant says of the innermost frame and of its caller *)

LEMMA TopFacts ==
  ASSUME FrameInv, frames # <<>>
  PROVE  /\ Len(frames) \in Nat /\ Len(frames) >= 1
         /\ Top \in FrameType /\ Top.scr \in Scripts /\ Top.old \in OldType
         /\ NArgs[Top.scr] \in Nat /\ NSaved[Top.scr] \in Nat /\ NLists[Top.scr] \in Nat
         /\ MaxStack[Top.scr] \in Nat /\ Returns[Top.scr] \in BOOLEAN
         /\ frame_base + MaxStack[Top.scr] <= StackSlots
         /\ arg_base + NArgs[Top.scr] <= ArgSlots
         /\ saved_base + NSaved[Top.scr] <= SavedSlots
         /\ ArgSlots \in Nat /\ SavedSlots \in Nat /\ StackSlots \in Nat
         /\ frame_base \in Nat /\ arg_base \in Nat /\ saved_base \in Nat /\ list_base \in Nat
         /\ Len(stack) \in Nat /\ Len(lists) \in Nat
         /\ stack \in Seq(Vals) /\ lists \in Seq(Seq(Vals))
         /\ TopFit /\ TypeOK
<1>1. Len(frames) \in Nat /\ Len(frames) >= 1 /\ Top \in FrameType
  BY TopTyped DEF FrameInv, TypeOK
<1>2. Top.scr \in Scripts /\ Top.old \in OldType
  BY <1>1 DEF FrameType
<1>3. Fit(Len(frames))
  BY <1>1 DEF FrameInv, AllFit
<1>4. /\ NArgs[Top.scr] \in Nat /\ NSaved[Top.scr] \in Nat /\ NLists[Top.scr] \in Nat
      /\ MaxStack[Top.scr] \in Nat /\ Returns[Top.scr] \in BOOLEAN
  BY <1>2, ShapesAssumption DEF ShapesAssumption
<1>5. ArgSlots \in Nat /\ SavedSlots \in Nat /\ StackSlots \in Nat
  BY LimitsAssumption DEF LimitsAssumption
<1>6. /\ frame_base + MaxStack[Top.scr] <= StackSlots
      /\ arg_base + NArgs[Top.scr] <= ArgSlots
      /\ saved_base + NSaved[Top.scr] <= SavedSlots
  BY <1>3 DEF Fit, FrameBase, ArgBase, SavedBase, Innermost, Top
<1>7. Len(stack) \in Nat /\ Len(lists) \in Nat
  BY LenProperties DEF FrameInv, TypeOK
<1> QED
  BY <1>1, <1>2, <1>4, <1>5, <1>6, <1>7 DEF FrameInv, TypeOK

LEMMA CallerFacts ==
  ASSUME SitesFresh, FrameInv, Len(frames) > 1
  PROVE  /\ frames # <<>>
         /\ Caller.scr \in Scripts /\ Caller.site \in Sites[Caller.scr]
         /\ Caller.site \in AllSites /\ Caller.site.sub = Top.scr
         /\ Caller.site.nlists = NLists[Top.scr]
         /\ NArgs[Caller.scr] \in Nat /\ NLists[Caller.scr] \in Nat /\ MaxStack[Caller.scr] \in Nat
         /\ Top.old.frame \in Nat /\ Top.old.arg \in Nat /\ Top.old.saved \in Nat
         /\ Top.old.list \in Nat /\ Top.old.size \in Nat /\ Top.old.ret \in SlotVals
         /\ frame_base = Top.old.size - NArgs[Top.scr]
         /\ Top.old.frame <= frame_base
         /\ Top.old.frame + MaxStack[Caller.scr] <= StackSlots
         /\ arg_base = Top.old.arg + NArgs[Caller.scr]
         /\ Top.old.list + NLists[Caller.scr] <= list_base
         /\ Returns[Top.scr] => frame_base + 1 <= Top.old.frame + MaxStack[Caller.scr]
<1> DEFINE n == Len(frames)
<1>1. frames # <<>>
  BY EmptySeq
<1>2. n \in Nat /\ n - 1 \in 1 .. n - 1 /\ n - 1 \in 1 .. n /\ (n - 1) + 1 = n /\ n - 1 # n
  BY <1>1, TopFacts, SMTT(30)
<1>3. Link(n - 1) /\ Fit(n - 1) /\ Below(n - 1, n)
  <2>1. Link(n - 1) /\ Fit(n - 1)
    BY <1>2 DEF FrameInv, AllLinked, AllFit
  <2>2. n \in 1 .. n /\ n - 1 < n
    <3>1. n \in Nat /\ n >= 1
      BY <1>1, TopFacts
    <3> HIDE DEF n
    <3> QED
      BY <3>1
  <2>3. Below(n - 1, n)
    BY <1>2, <2>2 DEF FrameInv, AllBelow
  <2> QED
    BY <2>1, <2>3
<1>4. /\ FrameBase(n - 1) = Top.old.frame /\ ArgBase(n - 1) = Top.old.arg
      /\ SavedBase(n - 1) = Top.old.saved /\ ListBase(n - 1) = Top.old.list
      /\ FrameBase(n) = frame_base /\ ArgBase(n) = arg_base
      /\ SavedBase(n) = saved_base /\ ListBase(n) = list_base
  BY <1>2 DEF FrameBase, ArgBase, SavedBase, ListBase, Innermost, Top
<1>5. Caller \in FrameType
  BY <1>2, ElementOfSeq DEF Caller, FrameInv, TypeOK
<1>6. Caller.scr \in Scripts
  BY <1>5 DEF FrameType
<1>7. /\ Caller.site \in Sites[Caller.scr] /\ Caller.site.sub = Top.scr
      /\ frame_base = Top.old.size - NArgs[Top.scr]
      /\ Top.old.frame <= frame_base
      /\ arg_base = Top.old.arg + NArgs[Caller.scr]
      /\ Top.old.list + NLists[Caller.scr] <= list_base
      /\ Returns[Top.scr] => frame_base + 1 <= Top.old.frame + MaxStack[Caller.scr]
      /\ Top.old.frame + MaxStack[Caller.scr] <= StackSlots
  BY <1>2, <1>3, <1>4 DEF Link, Fit, Below, Top, Caller
<1>8. /\ Top.old.frame \in Nat /\ Top.old.arg \in Nat /\ Top.old.saved \in Nat
      /\ Top.old.list \in Nat /\ Top.old.size \in Nat /\ Top.old.ret \in SlotVals
  BY <1>1, TopFacts DEF OldType
<1>9. NArgs[Caller.scr] \in Nat /\ NLists[Caller.scr] \in Nat /\ MaxStack[Caller.scr] \in Nat
  BY <1>6, ShapesAssumption DEF ShapesAssumption
<1>10. Caller.site \in AllSites /\ Caller.site.nlists = NLists[Top.scr]
  BY <1>6, <1>7, SiteFacts
<1> QED
  BY <1>1, <1>6, <1>7, <1>8, <1>9, <1>10

\* The call site the innermost frame is in.
LEMMA OpenSite ==
  ASSUME SitesFresh, FrameInv, frames # <<>>, Top.pc # "row"
  PROVE  /\ Top.site \in Sites[Top.scr] /\ Top.site \in AllSites
         /\ Top.site.sub \in Scripts
         /\ Top.site.nlists = NLists[Top.site.sub] /\ NLists[Top.site.sub] \in Nat
         /\ NArgs[Top.site.sub] \in Nat /\ NSaved[Top.site.sub] \in Nat
         /\ MaxStack[Top.site.sub] \in Nat /\ MaxSaved[Top.site.sub] \in Nat
         /\ NSaved[Top.site.sub] <= MaxSaved[Top.site.sub]
         /\ Returns[Top.site.sub] \in BOOLEAN
         /\ list_base + NLists[Top.scr] + NLists[Top.site.sub] <= Len(lists)
<1>1. Top.site \in Sites[Top.scr] /\ Top.scr \in Scripts
  BY TopFacts DEF TopFit
<1>2. list_base + NLists[Top.scr] + Top.site.nlists <= Len(lists)
  BY TopFacts DEF TopFit, OpenLists
<1>3. /\ Top.site \in AllSites /\ Top.site.sub \in Scripts
      /\ Top.site.nlists = NLists[Top.site.sub] /\ NLists[Top.site.sub] \in Nat
      /\ NArgs[Top.site.sub] \in Nat /\ NSaved[Top.site.sub] \in Nat
      /\ MaxStack[Top.site.sub] \in Nat /\ MaxSaved[Top.site.sub] \in Nat
      /\ Returns[Top.site.sub] \in BOOLEAN
  BY <1>1, SiteFacts
<1>4. NSaved[Top.site.sub] <= MaxSaved[Top.site.sub]
  BY <1>3, LimitsAssumption DEF LimitsAssumption
<1> QED
  BY <1>1, <1>2, <1>3, <1>4

\* Whatever its phase, the innermost script has its lists.
LEMMA OwnLists ==
  ASSUME SitesFresh, FrameInv, frames # <<>>
  PROVE  list_base + NLists[Top.scr] <= Len(lists)
<1>1. /\ list_base \in Nat /\ NLists[Top.scr] \in Nat /\ Len(lists) \in Nat
  BY TopFacts
<1>2. CASE Top.pc = "row"
  <2>1. list_base + NLists[Top.scr] + 0 <= Len(lists)
    BY <1>2, TopFacts DEF TopFit, OpenLists
  <2> QED
    BY <1>1, <2>1
<1>3. CASE Top.pc # "row"
  <2>1. /\ list_base + NLists[Top.scr] + NLists[Top.site.sub] <= Len(lists)
        /\ NLists[Top.site.sub] \in Nat
    BY <1>3, OpenSite
  <2> QED
    BY <1>1, <2>1
<1> QED
  BY <1>2, <1>3

\* The bases of every frame are numbers.
LEMMA BasesTyped ==
  ASSUME FrameInv, NEW i \in 1 .. Len(frames)
  PROVE  /\ FrameBase(i) \in Nat /\ ArgBase(i) \in Nat
         /\ SavedBase(i) \in Nat /\ ListBase(i) \in Nat
<1>1. frames # <<>> /\ Len(frames) \in Nat
  BY EmptySeq, LenProperties DEF FrameInv, TypeOK
<1>2. CASE i = Len(frames)
  BY <1>2 DEF FrameBase, ArgBase, SavedBase, ListBase, Innermost, FrameInv, TypeOK
<1>3. CASE i # Len(frames)
  <2>1. i + 1 \in 1 .. Len(frames)
    BY <1>1, <1>3
  <2>2. frames[i + 1] \in FrameType
    BY <2>1, ElementOfSeq DEF FrameInv, TypeOK
  <2>3. frames[i + 1].old \in OldType
    BY <2>2 DEF FrameType
  <2> QED
    BY <1>3, <2>3 DEF FrameBase, ArgBase, SavedBase, ListBase, Innermost, OldType
<1> QED
  BY <1>2, <1>3

-----------------------------------------------------------------------------
(* Rows *)

\* A stored operand comes from the script's own frame.
LEMMA StoredFacts ==
  ASSUME FrameInv, frames # <<>>, NEW i, Stored(i)
  PROVE  /\ stack[i] \in SlotVals
         /\ stack' \in Seq(Vals) /\ frame_base <= Len(stack') /\ Len(stack') <= StackSlots
<1>1. /\ frame_base \in Nat /\ Len(stack) \in Nat /\ StackSlots \in Nat
      /\ stack \in Seq(Vals) /\ Len(stack) <= StackSlots
  BY TopFacts DEF TypeOK
<1>2. i \in 1 .. Len(stack) /\ frame_base < i /\ frame_base <= Len(stack)
  BY <1>1 DEF Stored
<1>3. stack[i] \in SlotVals
  BY <1>1, <1>2, ElementOfSeq DEF SlotVals
<1>4. CASE stack' = stack
  BY <1>1, <1>2, <1>3, <1>4
<1>5. CASE i = Len(stack) /\ stack' = SubSeq(stack, 1, i - 1)
  <2>1. i - 1 \in 0 .. Len(stack)
    BY <1>1, <1>2
  <2>2. stack' \in Seq(Vals) /\ Len(stack') = i - 1
    BY <1>1, <1>5, <2>1, Shortened
  <2> QED
    BY <1>1, <1>2, <1>3, <2>2
<1> QED
  BY <1>4, <1>5 DEF Stored

LEMMA RowInv == FrameInv /\ Row => FrameInv'
<1> SUFFICES ASSUME FrameInv, Row
             PROVE  FrameInv'
  OBVIOUS
<1>1. ASSUME NEW v \in Vals, PushOperand(v)
      PROVE  FrameInv'
  <2>1. frames # <<>> /\ Top.pc = "row"
    BY <1>1 DEF PushOperand, InRow, Running
  <2>2. stack' \in Seq(Vals) /\ Len(stack') = Len(stack) + 1
    BY <1>1, <2>1, TopFacts, AppendProperties DEF PushOperand
  <2>3. frame_base <= Len(stack') /\ Len(stack') <= StackSlots
    <3>1. /\ frame_base \in Nat /\ Len(stack) \in Nat /\ StackSlots \in Nat
          /\ MaxStack[Top.scr] \in Nat /\ frame_base <= Len(stack)
          /\ frame_base + MaxStack[Top.scr] <= StackSlots
      BY <2>1, TopFacts DEF TopFit
    <3>2. Len(stack) + 1 <= frame_base + MaxStack[Top.scr]
      BY <1>1 DEF PushOperand, OperandRoom
    <3> QED
      BY <2>2, <3>1, <3>2
  <2>4. TypeOK'
    BY <1>1, <2>2, <2>3 DEF PushOperand, TypeOK, bases, FrameInv
  <2> QED
    BY <1>1, <2>1, <2>3, <2>4, SameFramesInv DEF PushOperand
<1>2. CASE PopOperand
  <2>1. frames # <<>> /\ Top.pc = "row"
    BY <1>2 DEF PopOperand, InRow, Running
  <2>2. stack' = SubSeq(stack, 1, Len(stack) - 1) /\ Len(stack) - 1 \in 0 .. Len(stack)
    BY <1>2, <2>1, TopFacts, SMTT(30) DEF PopOperand
  <2>3. stack' \in Seq(Vals) /\ Len(stack') = Len(stack) - 1
    BY <2>1, <2>2, TopFacts, Shortened
  <2>4. frame_base <= Len(stack') /\ Len(stack') <= StackSlots
    <3>1. /\ frame_base \in Nat /\ Len(stack) \in Nat /\ StackSlots \in Nat
          /\ Len(stack) <= StackSlots
      BY <2>1, TopFacts DEF TypeOK
    <3>2. Len(stack) > frame_base
      BY <1>2 DEF PopOperand
    <3> QED
      BY <2>3, <3>1, <3>2
  <2>5. TypeOK'
    BY <1>2, <2>3, <2>4 DEF PopOperand, TypeOK, bases, FrameInv
  <2> QED
    BY <1>2, <2>1, <2>4, <2>5, SameFramesInv DEF PopOperand
<1>3. ASSUME NEW k \in Slots(ArgSlots), NEW i \in 1 .. StackSlots, SetArgument(k, i)
      PROVE  FrameInv'
  <2>1. frames # <<>> /\ Top.pc = "row" /\ Stored(i)
    BY <1>3 DEF SetArgument, InRow, Running
  <2>2. /\ stack[i] \in SlotVals
        /\ stack' \in Seq(Vals) /\ frame_base <= Len(stack') /\ Len(stack') <= StackSlots
    BY <2>1, StoredFacts
  <2>3. args_stack' \in [Slots(ArgSlots) -> SlotVals]
    BY <1>3, <2>2 DEF SetArgument, FrameInv, TypeOK
  <2>4. TypeOK'
    BY <1>3, <2>2, <2>3 DEF SetArgument, TypeOK, bases, FrameInv
  <2> QED
    BY <1>3, <2>1, <2>2, <2>4, SameFramesInv DEF SetArgument
<1>4. ASSUME NEW k \in Slots(SavedSlots), NEW i \in 1 .. StackSlots, SetSaved(k, i)
      PROVE  FrameInv'
  <2>1. frames # <<>> /\ Top.pc = "row" /\ Stored(i)
    BY <1>4 DEF SetSaved, InRow, Running
  <2>2. /\ stack[i] \in SlotVals
        /\ stack' \in Seq(Vals) /\ frame_base <= Len(stack') /\ Len(stack') <= StackSlots
    BY <2>1, StoredFacts
  <2>3. saved_stack' \in [Slots(SavedSlots) -> SlotVals]
    BY <1>4, <2>2 DEF SetSaved, FrameInv, TypeOK
  <2>4. TypeOK'
    BY <1>4, <2>2, <2>3 DEF SetSaved, TypeOK, bases, FrameInv
  <2> QED
    BY <1>4, <2>1, <2>2, <2>4, SameFramesInv DEF SetSaved
<1>5. ASSUME NEW s \in Scripts, NEW l \in Slots(NLists[s]), NEW v \in Vals, AddTo(l, v)
      PROVE  FrameInv'
  <2>1. frames # <<>> /\ Top.pc = "row" /\ l < NLists[Top.scr]
    BY <1>5 DEF AddTo, InRow, Running
  <2>2. l \in Nat
    BY ShapesAssumption DEF ShapesAssumption, Slots
  <2>3. l + list_base + 1 \in 1 .. Len(lists)
    <3>1. list_base + NLists[Top.scr] <= Len(lists)
      BY <2>1, TopFacts DEF TopFit, OpenLists
    <3>2. l \in Slots(NLists[Top.scr])
      <4>1. NLists[Top.scr] \in Nat
        BY <2>1, TopFacts
      <4> QED
        BY <2>1, <2>2, <4>1 DEF Slots
    <3>3. NLists[Top.scr] \in Nat /\ list_base \in Nat /\ Len(lists) \in Nat
      BY <2>1, TopFacts
    <3> QED
      BY <3>1, <3>2, <3>3, SlotInRange
  <2>4. Append(lists[l + list_base + 1], v) \in Seq(Vals)
    BY <2>1, <2>3, TopFacts, ElementOfSeq, AppendProperties
  <2>5. lists' \in Seq(Seq(Vals)) /\ Len(lists') = Len(lists)
    BY <1>5, <2>1, <2>3, <2>4, TopFacts, ExceptSeq DEF AddTo
  <2>6. TypeOK'
    BY <1>5, <2>5 DEF AddTo, TypeOK, bases, FrameInv
  <2> QED
    BY <1>5, <2>1, <2>5, <2>6, SameFramesInv DEF AddTo
<1>6. ASSUME NEW s \in Scripts, NEW l \in Slots(NLists[s]), ClearList(l)
      PROVE  FrameInv'
  <2>1. frames # <<>> /\ Top.pc = "row" /\ l < NLists[Top.scr]
    BY <1>6 DEF ClearList, InRow, Running
  <2>2. l \in Nat
    BY ShapesAssumption DEF ShapesAssumption, Slots
  <2>3. l + list_base + 1 \in 1 .. Len(lists)
    <3>1. list_base + NLists[Top.scr] <= Len(lists)
      BY <2>1, TopFacts DEF TopFit, OpenLists
    <3>2. l \in Slots(NLists[Top.scr])
      <4>1. NLists[Top.scr] \in Nat
        BY <2>1, TopFacts
      <4> QED
        BY <2>1, <2>2, <4>1 DEF Slots
    <3>3. NLists[Top.scr] \in Nat /\ list_base \in Nat /\ Len(lists) \in Nat
      BY <2>1, TopFacts
    <3> QED
      BY <3>1, <3>2, <3>3, SlotInRange
  <2>4. <<>> \in Seq(Vals)
    BY EmptySeq
  <2>5. lists' \in Seq(Seq(Vals)) /\ Len(lists') = Len(lists)
    BY <1>6, <2>1, <2>3, <2>4, TopFacts, ExceptSeq DEF ClearList
  <2>6. TypeOK'
    BY <1>6, <2>5 DEF ClearList, TypeOK, bases, FrameInv
  <2> QED
    BY <1>6, <2>1, <2>5, <2>6, SameFramesInv DEF ClearList
<1>7. CASE Throw
  <2>1. frames # <<>>
    BY <1>7 DEF Throw, InRow, Running
  <2>2. TypeOK'
    BY <1>7 DEF Throw, TypeOK, stores, bases, FrameInv
  <2> QED
    BY <1>7, <2>1, <2>2, SameFramesInv DEF Throw, stores
<1> QED
  BY <1>1, <1>2, <1>3, <1>4, <1>5, <1>6, <1>7 DEF Row

-----------------------------------------------------------------------------
(* The opcodes around the call *)

LEMMA ListFrameEnterInv ==
  ASSUME SitesFresh, FrameInv, NEW s \in Scripts, NEW c \in Sites[s], ListFrameEnter(c)
  PROVE  FrameInv'
<1>1. frames # <<>> /\ Top.pc = "row" /\ c \in Sites[Top.scr]
  BY DEF ListFrameEnter, InRow, Running
<1>2. c \in AllSites /\ c.nlists \in Nat
  BY SiteFacts
<1>3. lists' \in Seq(Seq(Vals)) /\ Len(lists') = Len(lists) + c.nlists
  <2> DEFINE fresh == [k \in 1 .. c.nlists |-> <<>>]
  <2>1. fresh \in Seq(Seq(Vals)) /\ Len(fresh) = c.nlists
    BY <1>2, EmptyLists
  <2>2. lists' = lists \o fresh
    BY DEF ListFrameEnter
  <2>3. lists \in Seq(Seq(Vals))
    BY <1>1, TopFacts
  <2> HIDE DEF fresh
  <2>4. lists \o fresh \in Seq(Seq(Vals)) /\ Len(lists \o fresh) = Len(lists) + Len(fresh)
    BY <2>1, <2>3, ConcatProperties, Zenon
  <2> QED
    BY <2>1, <2>2, <2>4
<1>4. frames' = FramesAt(Len(frames), "entered", c) /\ UNCHANGED <<bases, execute_depth>>
  BY DEF ListFrameEnter, Reach
<1>5. /\ frames' \in Seq(FrameType)
      /\ Top'.scr = Top.scr /\ Top'.pc = "entered" /\ Top'.site = c
  BY <1>1, <1>2, <1>4, KeptByReach DEF FrameInv, Phases
<1>6. TypeOK'
  BY <1>3, <1>5 DEF ListFrameEnter, TypeOK, bases, FrameInv
<1>7. TopFit'
  <2>1. /\ frame_base \in Nat /\ Len(stack) \in Nat /\ list_base \in Nat /\ Len(lists) \in Nat
        /\ NLists[Top.scr] \in Nat /\ frame_base <= Len(stack)
        /\ list_base + NLists[Top.scr] <= Len(lists) /\ NArgs[c.sub] \in Nat
    BY <1>1, TopFacts, SiteFacts, SMTT(30) DEF TopFit, OpenLists
  <2>2. UNCHANGED <<stack, frame_base, list_base>>
    BY DEF ListFrameEnter, bases
  <2>3. list_base + NLists[Top.scr] + c.nlists <= Len(lists')
    BY <1>2, <1>3, <2>1
  <2>4. /\ frame_base <= Len(stack) - NArgs[c.sub]
        /\ Returns[c.sub] => Len(stack) - NArgs[c.sub] + 1 <= frame_base + MaxStack[Top.scr]
    <3>1. MaxStack[Top.scr] \in Nat
      BY <1>1, TopFacts
    <3> QED
      BY <2>1, <3>1 DEF ListFrameEnter, OperandRoom
  <2> QED
    BY <1>1, <1>5, <2>1, <2>2, <2>3, <2>4 DEF TopFit, OpenLists
<1> QED
  BY <1>1, <1>2, <1>4, <1>6, <1>7, ReachInv DEF Phases

\* Both swaps of a call site, in and out.
LEMMA SwapInv ==
  ASSUME SitesFresh, FrameInv, frames # <<>>, NEW pc \in {"swapped", "unswapped"},
         Top.pc # "row", pc = "swapped" => Top.pc = "entered",
         lists' = SwapBound(lists, Top.site, list_base), Reach(pc, Top.site),
         UNCHANGED <<throwing, stack, args_stack, saved_stack, bases, execute_depth, return_value>>
  PROVE  FrameInv'
<1>1. /\ Top.site \in AllSites /\ Top.site \in Sites[Top.scr]
      /\ list_base + NLists[Top.scr] + NLists[Top.site.sub] <= Len(lists)
      /\ Top.site.nlists = NLists[Top.site.sub] /\ NLists[Top.site.sub] \in Nat
  BY OpenSite
<1>2. /\ Top.scr \in Scripts /\ list_base \in Nat /\ NLists[Top.scr] \in Nat
      /\ Len(lists) \in Nat /\ lists \in Seq(Seq(Vals)) /\ TopFit
  BY TopFacts
<1>3. lists' \in Seq(Seq(Vals)) /\ Len(lists') = Len(lists)
  <2>1. list_base + NLists[Top.scr] <= Len(lists) /\ Top.site.nlists <= Len(lists)
    BY <1>1, <1>2
  <2> QED
    BY <1>1, <1>2, <2>1, SwapTyped
<1>4. frames' = FramesAt(Len(frames), pc, Top.site)
  BY DEF Reach
<1>5. /\ frames' \in Seq(FrameType)
      /\ Top'.scr = Top.scr /\ Top'.pc = pc /\ Top'.site = Top.site
  BY <1>1, <1>4, KeptByReach DEF FrameInv, Phases
<1>6. TypeOK'
  BY <1>3, <1>5 DEF TypeOK, bases, FrameInv
<1>7. TopFit'
  <2>1. UNCHANGED <<stack, frame_base, arg_base, list_base>>
    BY DEF bases
  <2>2. list_base + NLists[Top.scr] + Top.site.nlists <= Len(lists')
    BY <1>1, <1>3
  <2> QED
    BY <1>1, <1>2, <1>5, <2>1, <2>2 DEF TopFit, OpenLists
<1> QED
  BY <1>1, <1>4, <1>6, <1>7, ReachInv DEF Phases

LEMMA WriteBackInv ==
  ASSUME SitesFresh, FrameInv, WriteBack
  PROVE  FrameInv'
<1> DEFINE c == Top.site
           room == arg_base + NArgs[Top.scr]
<1>1. frames # <<>> /\ Top.pc = "returned"
  BY DEF WriteBack, InPhase, Running
<1>2. /\ c \in AllSites /\ c \in Sites[Top.scr] /\ Top.scr \in Scripts
      /\ NArgs[c.sub] \in Nat /\ NArgs[Top.scr] \in Nat
      /\ arg_base \in Nat /\ ArgSlots \in Nat
      /\ TopFit /\ TypeOK
  BY <1>1, OpenSite, TopFacts
<1>3. room + NArgs[c.sub] <= ArgSlots
  BY <1>1, <1>2 DEF TopFit
<1>4. ASSUME NEW a \in DOMAIN c.out
      PROVE  args_stack[CalleeArgBase + a] \in SlotVals
  <2>1. a \in Slots(NArgs[c.sub])
    BY <1>2, SiteFacts
  <2>2. room \in Nat
    BY <1>2
  <2>3. room + a \in Slots(ArgSlots)
    <3> HIDE DEF room, c
    <3> QED
      BY <1>2, <1>3, <2>1, <2>2 DEF Slots
  <2> QED
    BY <1>2, <2>3 DEF TypeOK, CalleeArgBase
<1>5. ASSUME NEW kind, NEW base, NEW n, NEW slots \in [Slots(n) -> SlotVals]
      PROVE  WrittenBack(kind, base, slots) \in [Slots(n) -> SlotVals]
  <2> DEFINE from(k) == {a \in DOMAIN c.out :
                          /\ c.out[a] = <<kind, k - base>>
                          /\ \A b \in DOMAIN c.out : c.out[b] = c.out[a] => b <= a}
  <2>1. WrittenBack(kind, base, slots)
          = [k \in Slots(n) |-> IF from(k) = {} THEN slots[k]
                                ELSE args_stack[CalleeArgBase + CHOOSE a \in from(k) : TRUE]]
    BY DEF WrittenBack
  <2>2. ASSUME NEW k \in Slots(n), from(k) # {}
        PROVE  args_stack[CalleeArgBase + CHOOSE a \in from(k) : TRUE] \in SlotVals
    <3>1. (CHOOSE a \in from(k) : TRUE) \in from(k)
      BY <2>2
    <3> QED
      BY <3>1, <1>4
  <2> HIDE DEF from
  <2> QED
    BY <2>1, <2>2
<1>6. /\ args_stack' \in [Slots(ArgSlots) -> SlotVals]
      /\ saved_stack' \in [Slots(SavedSlots) -> SlotVals]
  BY <1>2, <1>5 DEF WriteBack, TypeOK
<1>7. frames' = FramesAt(Len(frames), "written", c) /\ UNCHANGED <<bases, execute_depth>>
  BY DEF WriteBack, Reach
<1>8. /\ frames' \in Seq(FrameType)
      /\ Top'.scr = Top.scr /\ Top'.pc = "written" /\ Top'.site = c
  BY <1>1, <1>2, <1>7, KeptByReach DEF Phases
<1>9. TypeOK'
  BY <1>2, <1>6, <1>8 DEF WriteBack, TypeOK, bases
<1>10. TopFit'
  <2>1. UNCHANGED <<stack, lists, frame_base, arg_base, list_base>>
    BY DEF WriteBack, bases
  <2> QED
    BY <1>1, <1>2, <1>8, <2>1 DEF TopFit, OpenLists
<1> QED
  BY <1>1, <1>2, <1>7, <1>9, <1>10, ReachInv DEF Phases

LEMMA ListFrameExitInv ==
  ASSUME SitesFresh, FrameInv, ListFrameExit
  PROVE  FrameInv'
<1>1. frames # <<>> /\ Top.pc = "unswapped"
  BY DEF ListFrameExit, InPhase, Running
<1>2. /\ list_base + NLists[Top.scr] + NLists[Top.site.sub] <= Len(lists)
      /\ Top.site.nlists = NLists[Top.site.sub] /\ NLists[Top.site.sub] \in Nat
      /\ list_base \in Nat /\ NLists[Top.scr] \in Nat /\ Len(lists) \in Nat
      /\ lists \in Seq(Seq(Vals)) /\ TopFit /\ TypeOK
  BY <1>1, OpenSite, TopFacts
<1>3. lists' \in Seq(Seq(Vals)) /\ Len(lists') = Len(lists) - NLists[Top.site.sub]
  <2>1. Len(lists) - Top.site.nlists \in 0 .. Len(lists)
    BY <1>2
  <2>2. lists' = SubSeq(lists, 1, Len(lists) - Top.site.nlists)
    BY DEF ListFrameExit, DropListFrame
  <2>3. SubSeq(lists, 1, Len(lists) - Top.site.nlists) \in Seq(Seq(Vals))
        /\ Len(SubSeq(lists, 1, Len(lists) - Top.site.nlists)) = Len(lists) - Top.site.nlists
    BY <1>2, <2>1, Shortened, SMTT(30)
  <2> QED
    BY <1>2, <2>2, <2>3, SMTT(30)
<1>4. frames' = FramesAt(Len(frames), "row", NoSite) /\ UNCHANGED <<bases, execute_depth>>
  BY DEF ListFrameExit, Reach
<1>5. /\ frames' \in Seq(FrameType)
      /\ Top'.scr = Top.scr /\ Top'.pc = "row" /\ Top'.site = NoSite
  BY <1>1, <1>2, <1>4, KeptByReach DEF Phases
<1>6. TypeOK'
  BY <1>2, <1>3, <1>5 DEF ListFrameExit, TypeOK, bases
<1>7. TopFit'
  <2>1. UNCHANGED <<stack, frame_base, list_base>>
    BY DEF ListFrameExit, bases
  <2>2. list_base + NLists[Top.scr] + 0 <= Len(lists')
    BY <1>2, <1>3
  <2> QED
    BY <1>1, <1>2, <1>5, <2>1, <2>2 DEF TopFit, OpenLists
<1> QED
  BY <1>1, <1>4, <1>6, <1>7, ReachInv DEF Phases

-----------------------------------------------------------------------------
(* The call *)

\* What execute_script writes before it enters the callee.
LEMMA CalleeSlots ==
  ASSUME SitesFresh, FrameInv, frames # <<>>, Top.pc = "swapped", SlotsFit(Top.site.sub)
  PROVE  /\ ArgsMoved(Top.site.sub) \in [Slots(ArgSlots) -> SlotVals]
         /\ SavedFresh(Top.site.sub) \in [Slots(SavedSlots) -> SlotVals]
<1> DEFINE sub == Top.site.sub
<1>1. /\ NArgs[sub] \in Nat /\ frame_base \in Nat /\ Len(stack) \in Nat
      /\ stack \in Seq(Vals) /\ frame_base <= Len(stack) - NArgs[sub]
      /\ arg_base \in Nat /\ NArgs[Top.scr] \in Nat /\ TypeOK
  BY OpenSite, TopFacts DEF TopFit
<1>2. CalleeArgBase \in Nat
  BY <1>1 DEF CalleeArgBase
<1>3. ASSUME NEW k \in Slots(ArgSlots), k - CalleeArgBase \in Slots(NArgs[sub])
      PROVE  stack[CalleeFrameBase + (k - CalleeArgBase) + 1] \in SlotVals
  <2>1. CalleeFrameBase + (k - CalleeArgBase) + 1 \in 1 .. Len(stack)
    <3> DEFINE j == k - CalleeArgBase
               m == NArgs[sub]
    <3>1. j \in Slots(m) /\ CalleeFrameBase = Len(stack) - m /\ m \in Nat /\ m <= Len(stack)
      BY <1>1, <1>3 DEF CalleeFrameBase
    <3> HIDE DEF j, m
    <3>2. Len(stack) - m + j + 1 \in 1 .. Len(stack)
      BY <1>1, <3>1, SlotInRange
    <3>3. CalleeFrameBase + j + 1 \in 1 .. Len(stack)
      BY <3>1, <3>2
    <3> QED
      BY <3>3 DEF j
  <2> QED
    BY <1>1, <2>1, ElementOfSeq DEF SlotVals
<1>4. ArgsMoved(sub) \in [Slots(ArgSlots) -> SlotVals]
  BY <1>1, <1>3 DEF ArgsMoved, TypeOK
<1>5. SavedFresh(sub) \in [Slots(SavedSlots) -> SlotVals]
  BY <1>1 DEF SavedFresh, TypeOK, SlotVals
<1> QED
  BY <1>4, <1>5

LEMMA ExecuteScriptInv ==
  ASSUME SitesFresh, FrameInv, ExecuteScript
  PROVE  FrameInv'
<1> DEFINE c == Top.site
           sub == c.sub
           callee == [scr |-> sub, pc |-> "row", site |-> NoSite, old |-> Old]
<1>1. frames # <<>> /\ Top.pc = "swapped"
  BY DEF ExecuteScript, InPhase, Running
<1>0. PICK n \in Nat : n = Len(frames)
  BY <1>1, TopFacts
<1>2. /\ n \in Nat /\ n >= 1 /\ n \in 1 .. n
      /\ frame_base \in Nat /\ arg_base \in Nat /\ saved_base \in Nat /\ list_base \in Nat
      /\ Len(stack) \in Nat /\ Len(lists) \in Nat
      /\ NArgs[Top.scr] \in Nat /\ NSaved[Top.scr] \in Nat /\ NLists[Top.scr] \in Nat
      /\ stack \in Seq(Vals) /\ TypeOK
  BY <1>0, <1>1, TopFacts
<1>3. /\ c \in AllSites /\ c \in Sites[Top.scr] /\ sub \in Scripts
      /\ NArgs[sub] \in Nat /\ NSaved[sub] \in Nat /\ NLists[sub] \in Nat
      /\ MaxStack[sub] \in Nat /\ MaxSaved[sub] \in Nat
      /\ NSaved[sub] <= MaxSaved[sub]
      /\ list_base + NLists[Top.scr] + NLists[sub] <= Len(lists)
  BY <1>1, OpenSite
<1>4. /\ frame_base <= Len(stack) - NArgs[sub]
      /\ Returns[sub] => Len(stack) - NArgs[sub] + 1 <= frame_base + MaxStack[Top.scr]
  BY <1>1, TopFacts DEF TopFit
<1>5. /\ SlotsFit(sub) /\ CalleeFits(sub)
      /\ args_stack' = ArgsMoved(sub) /\ saved_stack' = SavedFresh(sub)
      /\ stack' = SubSeq(stack, 1, CalleeFrameBase)
      /\ frame_base' = CalleeFrameBase /\ arg_base' = CalleeArgBase
      /\ saved_base' = CalleeSavedBase /\ list_base' = CalleeListBase
      /\ frames' = Append(FramesAt(n, "called", c), callee)
      /\ execute_depth' = execute_depth + 1
      /\ UNCHANGED <<throwing, lists, return_value>>
  BY <1>0 DEF ExecuteScript
<1>6. /\ Kept(n) /\ frames' \in Seq(FrameType) /\ Len(frames') = n + 1
      /\ frames'[n].pc = "called" /\ frames'[n].site = c
      /\ frames'[n + 1] = callee
  BY <1>0, <1>1, <1>2, <1>3, <1>5, KeptByExecute
<1>7. /\ callee.scr = sub /\ callee.pc = "row" /\ callee.old.size = Len(stack)
  BY DEF Old
<1> HIDE DEF callee
<1>8. /\ CalleeFrameBase = Len(stack) - NArgs[sub] /\ CalleeFrameBase \in Nat
      /\ CalleeArgBase = arg_base + NArgs[Top.scr] /\ CalleeArgBase \in Nat
      /\ CalleeSavedBase = saved_base + NSaved[Top.scr] /\ CalleeSavedBase \in Nat
      /\ CalleeListBase = Len(lists) - NLists[sub] /\ CalleeListBase \in Nat
      /\ list_base + NLists[Top.scr] <= CalleeListBase
  <2>1. CalleeFrameBase = Len(stack) - NArgs[sub] /\ CalleeFrameBase \in Nat
    <3> HIDE DEF sub
    <3>1. CalleeFrameBase = Len(stack) - NArgs[sub]
      BY DEF CalleeFrameBase, sub
    <3>2. /\ NArgs[sub] \in Nat /\ Len(stack) \in Nat /\ frame_base \in Nat
          /\ frame_base <= Len(stack) - NArgs[sub]
      BY <1>2, <1>3, <1>4
    <3> QED
      BY <3>1, <3>2
  <2>2. /\ CalleeArgBase = arg_base + NArgs[Top.scr] /\ CalleeArgBase \in Nat
        /\ CalleeSavedBase = saved_base + NSaved[Top.scr] /\ CalleeSavedBase \in Nat
    BY <1>2, SMTT(30) DEF CalleeArgBase, CalleeSavedBase
  <2>3. /\ CalleeListBase = Len(lists) - NLists[sub] /\ CalleeListBase \in Nat
        /\ list_base + NLists[Top.scr] <= CalleeListBase
    <3> HIDE DEF sub
    <3>1. CalleeListBase = Len(lists) - NLists[sub]
      BY DEF CalleeListBase, sub
    <3>2. /\ NLists[sub] \in Nat /\ Len(lists) \in Nat /\ list_base \in Nat
          /\ NLists[Top.scr] \in Nat
          /\ list_base + NLists[Top.scr] + NLists[sub] <= Len(lists)
      BY <1>2, <1>3
    <3> QED
      BY <3>1, <3>2
  <2> QED
    BY <2>1, <2>2, <2>3
<1>9. stack' \in Seq(Vals) /\ Len(stack') = CalleeFrameBase /\ CalleeFrameBase <= Len(stack)
  <2> HIDE DEF sub
  <2>1. CalleeFrameBase \in 0 .. Len(stack)
    <3>1. /\ NArgs[sub] \in Nat /\ Len(stack) \in Nat
          /\ CalleeFrameBase = Len(stack) - NArgs[sub] /\ CalleeFrameBase \in Nat
      BY <1>2, <1>3, <1>8
    <3> QED
      BY <3>1
  <2> QED
    BY <1>2, <1>5, <2>1, Shortened
<1>10. TypeOK'
  <2>1. Len(stack') <= StackSlots
    <3>1. Len(stack) <= StackSlots /\ StackSlots \in Nat /\ Len(stack) \in Nat /\ CalleeFrameBase \in Nat
      BY <1>2, <1>8, LimitsAssumption DEF TypeOK, LimitsAssumption
    <3> QED
      BY <1>9, <3>1
  <2>2. args_stack' \in [Slots(ArgSlots) -> SlotVals] /\ saved_stack' \in [Slots(SavedSlots) -> SlotVals]
    BY <1>1, <1>5, CalleeSlots
  <2>3. execute_depth' \in Nat
    BY <1>2, <1>5 DEF TypeOK
  <2> QED
    BY <1>2, <1>5, <1>6, <1>8, <1>9, <2>1, <2>2, <2>3 DEF TypeOK
<1>11. ContextReusable'
  <2>1. frames' # <<>>
    BY <1>2, <1>6, EmptySeq
  <2>2. execute_depth = n - 1
    BY <1>0, <1>1 DEF FrameInv, ContextReusable
  <2> QED
    BY <1>2, <1>5, <1>6, <2>1, <2>2 DEF ContextReusable
<1>12. /\ Grounded'
       /\ \A i \in 1 .. n : Fit(i)'
       /\ \A i \in 1 .. n - 1 : Link(i)'
       /\ \A i \in 1 .. n, j \in 1 .. n : i < j => Below(i, j)'
  BY <1>2, <1>6, KeptInherits DEF FrameInv
<1>13. /\ FrameBase(n + 1)' = CalleeFrameBase /\ ArgBase(n + 1)' = CalleeArgBase
       /\ SavedBase(n + 1)' = CalleeSavedBase /\ ListBase(n + 1)' = CalleeListBase
       /\ FrameBase(n)' = frame_base /\ ArgBase(n)' = arg_base
       /\ SavedBase(n)' = saved_base /\ ListBase(n)' = list_base
       /\ frames'[n].scr = Top.scr
  <2>1. /\ FrameBase(n + 1)' = CalleeFrameBase /\ ArgBase(n + 1)' = CalleeArgBase
        /\ SavedBase(n + 1)' = CalleeSavedBase /\ ListBase(n + 1)' = CalleeListBase
    BY <1>5, <1>6 DEF FrameBase, ArgBase, SavedBase, ListBase, Innermost
  <2>2. /\ FrameBase(n)' = FrameBase(n) /\ ArgBase(n)' = ArgBase(n)
        /\ SavedBase(n)' = SavedBase(n) /\ ListBase(n)' = ListBase(n)
        /\ frames'[n].scr = frames[n].scr
    BY <1>2, <1>6 DEF Kept
  <2>3. /\ FrameBase(n) = frame_base /\ ArgBase(n) = arg_base
        /\ SavedBase(n) = saved_base /\ ListBase(n) = list_base
    BY <1>0 DEF FrameBase, ArgBase, SavedBase, ListBase, Innermost
  <2> QED
    BY <1>0, <2>1, <2>2, <2>3 DEF Top
<1>14. Fit(n + 1)'
  <2>1. /\ CalleeFrameBase + MaxStack[sub] <= StackSlots
        /\ CalleeArgBase + NArgs[sub] <= ArgSlots
        /\ CalleeSavedBase + NSaved[sub] <= SavedSlots
    BY <1>5 DEF SlotsFit, CalleeFits, ContextFits
  <2> QED
    BY <1>6, <1>7, <1>13, <2>1 DEF Fit
<1>15. Link(n)'
  <2>1. frames'[n].pc = "called" /\ frames'[n].site \in Sites[frames'[n].scr]
    BY <1>3, <1>6, <1>13
  <2>2. frames'[n + 1].scr = sub /\ frames'[n].site.sub = sub /\ frames'[n + 1].old.size = Len(stack)
    BY <1>6, <1>7
  <2> HIDE DEF sub, c
  <2> QED
    BY <1>4, <1>8, <1>13, <2>1, <2>2 DEF Link
<1>16. AllFit' /\ AllLinked'
  <2>1. ASSUME NEW i \in 1 .. n + 1
        PROVE  Fit(i)'
    <3>1. CASE i = n + 1
      BY <1>14, <3>1
    <3>2. CASE i # n + 1
      <4>1. i \in 1 .. n
        BY <1>2, <3>2
      <4> QED
        BY <1>12, <4>1
    <3> QED
      BY <3>1, <3>2
  <2>2. ASSUME NEW i \in 1 .. n
        PROVE  Link(i)'
    <3>1. CASE i = n
      BY <1>15, <3>1
    <3>2. CASE i # n
      <4>1. i \in 1 .. n - 1
        BY <1>2, <3>2
      <4> QED
        BY <1>12, <4>1
    <3> QED
      BY <3>1, <3>2
  <2>3. Len(frames') - 1 = n
    BY <1>2, <1>6
  <2> QED
    BY <1>6, <2>1, <2>2, <2>3 DEF AllFit, AllLinked
<1>18. AllBelow'
  <2>1. ASSUME NEW i \in 1 .. n
        PROVE  Below(i, n + 1)'
    <3> DEFINE s == frames'[i].scr
    <3>1. /\ frame_base <= CalleeFrameBase /\ list_base + NLists[Top.scr] <= CalleeListBase
          /\ frame_base \in Nat /\ arg_base \in Nat /\ saved_base \in Nat /\ list_base \in Nat
          /\ CalleeFrameBase \in Nat /\ CalleeListBase \in Nat
          /\ CalleeArgBase = arg_base + NArgs[Top.scr] /\ CalleeSavedBase = saved_base + NSaved[Top.scr]
          /\ NArgs[Top.scr] \in Nat /\ NSaved[Top.scr] \in Nat /\ NLists[Top.scr] \in Nat
      <4> HIDE DEF sub
      <4>1. frame_base <= CalleeFrameBase
        BY <1>4, <1>8
      <4> QED
        BY <1>2, <1>8, <4>1
    <3>2. CASE i = n
      <4>1. /\ FrameBase(n)' <= CalleeFrameBase /\ ArgBase(n)' + NArgs[Top.scr] <= CalleeArgBase
            /\ SavedBase(n)' + NSaved[Top.scr] <= CalleeSavedBase
            /\ ListBase(n)' + NLists[Top.scr] <= CalleeListBase
        BY <1>13, <3>1
      <4> QED
        BY <1>13, <3>2, <4>1 DEF Below
    <3>3. CASE i # n
      <4>1. i \in 1 .. n /\ n \in 1 .. n /\ i < n
        BY <1>2, <3>3
      <4>2. Below(i, n)'
        BY <1>12, <4>1
      <4>3. /\ FrameBase(i)' \in Nat /\ ArgBase(i)' \in Nat
            /\ SavedBase(i)' \in Nat /\ ListBase(i)' \in Nat
        <5>1. /\ FrameBase(i) \in Nat /\ ArgBase(i) \in Nat
              /\ SavedBase(i) \in Nat /\ ListBase(i) \in Nat
          BY <1>0, BasesTyped
        <5> QED
          BY <1>6, <4>1, <5>1 DEF Kept
      <4>4. s \in Scripts
        <5>1. frames'[i] \in FrameType
          BY <1>2, <1>6, <4>1, ElementOfSeq
        <5> QED
          BY <5>1 DEF FrameType
      <4>5. NArgs[s] \in Nat /\ NSaved[s] \in Nat /\ NLists[s] \in Nat
        BY <4>4, ShapesAssumption DEF ShapesAssumption
      <4>6. /\ FrameBase(i)' <= frame_base /\ ArgBase(i)' + NArgs[s] <= arg_base
            /\ SavedBase(i)' + NSaved[s] <= saved_base /\ ListBase(i)' + NLists[s] <= list_base
        BY <1>13, <4>2 DEF Below
      <4> HIDE DEF s
      <4>7. /\ FrameBase(i)' <= CalleeFrameBase /\ ArgBase(i)' + NArgs[s] <= CalleeArgBase
            /\ SavedBase(i)' + NSaved[s] <= CalleeSavedBase
            /\ ListBase(i)' + NLists[s] <= CalleeListBase
        BY <3>1, <4>3, <4>5, <4>6
      <4> QED
        BY <1>13, <4>7 DEF Below, s
    <3> QED
      BY <3>2, <3>3
  <2>2. ASSUME NEW i \in 1 .. n + 1, NEW j \in 1 .. n + 1, i < j
        PROVE  Below(i, j)'
    <3>1. CASE j = n + 1
      <4>1. i \in 1 .. n
        BY <1>2, <2>2, <3>1
      <4> QED
        BY <2>1, <3>1, <4>1
    <3>2. CASE j # n + 1
      <4>1. i \in 1 .. n /\ j \in 1 .. n
        BY <1>2, <2>2, <3>2
      <4> QED
        BY <1>12, <2>2, <4>1
    <3> QED
      BY <3>1, <3>2
  <2> QED
    BY <1>6, <2>2 DEF AllBelow
<1>17. TopFit'
  <2>1. Top' = callee
    BY <1>6 DEF Top
  <2>2. frame_base' <= Len(stack')
    BY <1>5, <1>8, <1>9
  <2>3. list_base' + NLists[sub] + 0 <= Len(lists')
    BY <1>2, <1>3, <1>5, <1>8, SMTT(30)
  <2> QED
    BY <1>7, <2>1, <2>2, <2>3 DEF TopFit, OpenLists
<1> QED
  BY <1>10, <1>11, <1>12, <1>16, <1>17, <1>18 DEF FrameInv

-----------------------------------------------------------------------------
(* The ways out of a call *)

\* The catch block: the lists a call site had open are gone.
LEMMA CaughtLists ==
  ASSUME SitesFresh, NEW s \in Scripts, NEW c \in Sites[s], NEW base \in Nat,
         lists \in Seq(Seq(Vals)), base + NLists[s] + c.nlists <= Len(lists)
  PROVE  /\ DropListFrame(SwapBound(lists, c, base), c) \in Seq(Seq(Vals))
         /\ Len(DropListFrame(SwapBound(lists, c, base), c)) = Len(lists) - c.nlists
<1>1. Len(lists) \in Nat /\ c.nlists \in Nat /\ NLists[s] \in Nat
  BY LenProperties, SiteFacts, ShapesAssumption DEF ShapesAssumption
<1>2. base + NLists[s] <= Len(lists) /\ c.nlists <= Len(lists)
  BY <1>1
<1>3. /\ SwapBound(lists, c, base) \in Seq(Seq(Vals))
      /\ Len(SwapBound(lists, c, base)) = Len(lists)
  BY <1>2, SwapTyped
<1>4. Len(lists) - c.nlists \in 0 .. Len(lists)
  BY <1>1, <1>2
<1> QED
  BY <1>3, <1>4, Shortened DEF DropListFrame

LEMMA ExecuteRefusedInv ==
  ASSUME SitesFresh, FrameInv, ExecuteRefused
  PROVE  FrameInv'
<1> DEFINE c == Top.site
           sub == c.sub
<1>1. frames # <<>> /\ Top.pc = "swapped"
  BY DEF ExecuteRefused, InPhase, Running
<1>2. /\ c \in Sites[Top.scr] /\ Top.scr \in Scripts
      /\ c.nlists = NLists[sub] /\ NLists[sub] \in Nat /\ NArgs[sub] \in Nat
      /\ list_base + NLists[Top.scr] + NLists[sub] <= Len(lists)
      /\ list_base \in Nat /\ NLists[Top.scr] \in Nat /\ Len(lists) \in Nat
      /\ frame_base \in Nat /\ Len(stack) \in Nat /\ frame_base <= Len(stack) - NArgs[sub]
      /\ stack \in Seq(Vals) /\ lists \in Seq(Seq(Vals)) /\ TypeOK
  BY <1>1, OpenSite, TopFacts DEF TopFit
<1>3. /\ frames' = FramesAt(Len(frames), "row", NoSite)
      /\ stack' = SubSeq(stack, 1, Len(stack) - NArgs[sub])
      /\ UNCHANGED <<bases, return_value, execute_depth>>
      /\ lists' = DropListFrame(SwapBound(lists, c, list_base), c)
      /\ throwing' = TRUE
  BY DEF ExecuteRefused, Caught, Old, Top, bases
<1>4. /\ frames' \in Seq(FrameType)
      /\ Top'.scr = Top.scr /\ Top'.pc = "row" /\ Top'.site = NoSite
  BY <1>1, <1>2, <1>3, KeptByReach DEF Phases
<1>5. stack' \in Seq(Vals) /\ Len(stack') = Len(stack) - NArgs[sub]
  <2> HIDE DEF sub
  <2>1. Len(stack) - NArgs[sub] \in 0 .. Len(stack)
    BY <1>2
  <2> QED
    BY <1>2, <1>3, <2>1, Shortened
<1>6. lists' \in Seq(Seq(Vals)) /\ Len(lists') = Len(lists) - NLists[sub]
  BY <1>2, <1>3, CaughtLists
<1>7. /\ args_stack' \in [Slots(ArgSlots) -> SlotVals]
      /\ saved_stack' \in [Slots(SavedSlots) -> SlotVals]
  <2>1. CASE UNCHANGED <<args_stack, saved_stack>>
    BY <1>2, <2>1 DEF TypeOK
  <2>2. CASE /\ SlotsFit(sub)
             /\ args_stack' = ArgsMoved(sub) /\ saved_stack' = SavedFresh(sub)
    BY <1>1, <2>2, CalleeSlots
  <2> QED
    BY <2>1, <2>2 DEF ExecuteRefused
<1>8. TypeOK'
  <2> HIDE DEF sub
  <2>1. Len(stack') <= StackSlots
    <3>1. Len(stack) <= StackSlots /\ StackSlots \in Nat
      BY <1>2, LimitsAssumption DEF TypeOK, LimitsAssumption
    <3> QED
      BY <1>2, <1>5, <3>1
  <2> QED
    BY <1>2, <1>3, <1>4, <1>5, <1>6, <1>7, <2>1 DEF TypeOK, bases
<1>9. TopFit'
  <2> HIDE DEF sub
  <2>1. UNCHANGED <<frame_base, list_base>>
    BY <1>3 DEF bases
  <2>2. frame_base <= Len(stack') /\ list_base + NLists[Top.scr] + 0 <= Len(lists')
    BY <1>2, <1>5, <1>6, SMTT(30)
  <2> QED
    BY <1>4, <2>1, <2>2 DEF TopFit, OpenLists
<1> QED
  BY <1>1, <1>3, <1>8, <1>9, ReachInv DEF Phases

LEMMA ExecuteTooDeepInv ==
  ASSUME FrameInv, ExecuteTooDeep
  PROVE  FrameInv'
<1>1. frames # <<>>
  BY DEF ExecuteTooDeep, InPhase, Running
<1>2. TypeOK'
  BY DEF ExecuteTooDeep, TypeOK, stores, bases, FrameInv
<1> QED
  BY <1>1, <1>2, SameFramesInv DEF ExecuteTooDeep, stores

LEMMA ReturnInv ==
  ASSUME SitesFresh, FrameInv, Return
  PROVE  FrameInv'
<1> DEFINE value == IF Returns[Top.scr] THEN <<stack[Len(stack)]>> ELSE <<>>
<1>1. Len(frames) > 1 /\ frames # <<>> /\ Top.pc = "row"
  BY DEF Return, InRow, Running
<1>2. /\ stack' = SubSeq(stack, 1, Top.old.size - NArgs[Top.scr]) \o value
      /\ frame_base' = Top.old.frame /\ arg_base' = Top.old.arg
      /\ saved_base' = Top.old.saved /\ list_base' = Top.old.list
      /\ return_value' = Top.old.ret
      /\ frames' = FramesAt(Len(frames) - 1, "returned", Caller.site)
      /\ execute_depth' = execute_depth - 1
      /\ UNCHANGED <<throwing, args_stack, saved_stack, lists>>
      /\ Returns[Top.scr] => Len(stack) > frame_base
  BY DEF Return
<1>3. /\ frame_base \in Nat /\ Len(stack) \in Nat /\ frame_base <= Len(stack)
      /\ stack \in Seq(Vals) /\ Returns[Top.scr] \in BOOLEAN
      /\ list_base + NLists[Top.scr] <= Len(lists) /\ Len(lists) \in Nat
      /\ NLists[Top.scr] \in Nat /\ NArgs[Top.scr] \in Nat
      /\ arg_base + NArgs[Top.scr] <= ArgSlots /\ TypeOK /\ list_base \in Nat
  BY <1>1, TopFacts DEF TopFit, OpenLists
<1>4. /\ Top.old.frame \in Nat /\ Top.old.arg \in Nat /\ Top.old.saved \in Nat
      /\ Top.old.list \in Nat /\ Top.old.ret \in SlotVals
      /\ frame_base = Top.old.size - NArgs[Top.scr]
      /\ Top.old.frame <= frame_base
      /\ Caller.site \in AllSites /\ Caller.site \in Sites[Caller.scr]
      /\ Caller.site.sub = Top.scr /\ Caller.site.nlists = NLists[Top.scr]
      /\ NLists[Caller.scr] \in Nat /\ NArgs[Caller.scr] \in Nat /\ MaxStack[Caller.scr] \in Nat
      /\ Top.old.list + NLists[Caller.scr] <= list_base
      /\ arg_base = Top.old.arg + NArgs[Caller.scr]
      /\ Returns[Top.scr] => frame_base + 1 <= Top.old.frame + MaxStack[Caller.scr]
      /\ Top.old.frame + MaxStack[Caller.scr] <= StackSlots
  BY <1>1, CallerFacts
<1>5. /\ frames' \in Seq(FrameType) /\ Len(frames') = Len(frames) - 1
      /\ Top'.scr = Caller.scr /\ Top'.pc = "returned" /\ Top'.site = Caller.site
  BY <1>1, <1>2, <1>3, <1>4, KeptByDrop DEF Phases
<1>6. /\ stack' \in Seq(Vals) /\ frame_base <= Len(stack') /\ Len(stack') <= StackSlots
  <2> DEFINE kept == SubSeq(stack, 1, frame_base)
  <2>1. kept \in Seq(Vals) /\ Len(kept) = frame_base
    <3>1. frame_base \in 0 .. Len(stack)
      BY <1>3
    <3> QED
      BY <1>3, <3>1, Shortened
  <2>2. stack' = kept \o value
    BY <1>2, <1>4
  <2>3. value \in Seq(Vals) /\ Len(value) = IF Returns[Top.scr] THEN 1 ELSE 0
    <3>1. CASE Returns[Top.scr]
      <4>1. Len(stack) \in 1 .. Len(stack)
        BY <1>2, <1>3, <3>1
      <4>2. stack[Len(stack)] \in Vals
        BY <1>3, <4>1, ElementOfSeq
      <4>3. value = <<stack[Len(stack)]>>
        BY <3>1
      <4> HIDE DEF value
      <4> QED
        BY <3>1, <4>2, <4>3
    <3>2. CASE ~Returns[Top.scr]
      <4>1. value = <<>>
        BY <3>2
      <4> HIDE DEF value
      <4> QED
        BY <3>2, <4>1, EmptySeq
    <3> QED
      BY <3>1, <3>2
  <2> HIDE DEF kept, value
  <2>4. kept \o value \in Seq(Vals) /\ Len(kept \o value) = Len(kept) + Len(value)
    BY <2>1, <2>3, ConcatProperties, Zenon
  <2>5. stack' \in Seq(Vals) /\ Len(stack') = frame_base + Len(value)
    BY <2>1, <2>2, <2>4
  <2>6. StackSlots \in Nat /\ Len(stack) <= StackSlots
    BY <1>3, LimitsAssumption DEF TypeOK, LimitsAssumption
  <2>7. CASE Returns[Top.scr]
    <3>1. Len(value) = 1 /\ frame_base + 1 <= Top.old.frame + MaxStack[Caller.scr]
      BY <1>4, <2>3, <2>7
    <3>2. /\ frame_base \in Nat /\ Top.old.frame \in Nat /\ MaxStack[Caller.scr] \in Nat
          /\ Top.old.frame + MaxStack[Caller.scr] <= StackSlots
      BY <1>3, <1>4
    <3> QED
      BY <2>5, <2>6, <3>1, <3>2
  <2>8. CASE ~Returns[Top.scr]
    <3>1. Len(value) = 0
      BY <2>3, <2>8
    <3> QED
      BY <1>3, <2>5, <2>6, <3>1
  <2> QED
    BY <2>7, <2>8
<1>7. execute_depth' \in Nat
  <2>1. Len(frames) \in Nat /\ execute_depth = Len(frames) - 1
    BY <1>1, TopFacts DEF FrameInv, ContextReusable
  <2> QED
    BY <1>1, <1>2, <2>1
<1>8. TypeOK'
  BY <1>2, <1>3, <1>4, <1>5, <1>6, <1>7 DEF TypeOK
<1>9. TopFit'
  <2>1. Top.old.frame <= Len(stack')
    <3>1. Len(stack') \in Nat
      BY <1>6, LenProperties
    <3>2. /\ frame_base \in Nat /\ Top.old.frame \in Nat /\ Top.old.frame <= frame_base
          /\ frame_base <= Len(stack')
      BY <1>3, <1>4, <1>6
    <3> QED
      BY <3>1, <3>2
  <2>2. Top.old.list + NLists[Caller.scr] + NLists[Top.scr] <= Len(lists)
    <3>1. /\ Top.old.list \in Nat /\ NLists[Caller.scr] \in Nat /\ NLists[Top.scr] \in Nat
          /\ Top.old.list + NLists[Caller.scr] <= list_base /\ list_base \in Nat
          /\ list_base + NLists[Top.scr] <= Len(lists) /\ Len(lists) \in Nat
      BY <1>3, <1>4
    <3> QED
      BY <3>1
  <2>3. Top.old.arg + NArgs[Caller.scr] + NArgs[Top.scr] <= ArgSlots
    BY <1>3, <1>4
  <2> QED
    BY <1>2, <1>4, <1>5, <2>1, <2>2, <2>3 DEF TopFit, OpenLists
<1> QED
  BY <1>1, <1>2, <1>4, <1>8, <1>9, DropInv DEF Phases

LEMMA UnwindCalleeInv ==
  ASSUME SitesFresh, FrameInv, UnwindCallee
  PROVE  FrameInv'
<1> DEFINE c == Caller.site
<1>1. Len(frames) > 1 /\ frames # <<>>
  BY CallerFacts DEF UnwindCallee
<1>2. /\ frames' = FramesAt(Len(frames) - 1, "row", NoSite)
      /\ stack' = SubSeq(stack, 1, Top.old.size - NArgs[c.sub])
      /\ frame_base' = Top.old.frame /\ arg_base' = Top.old.arg
      /\ saved_base' = Top.old.saved /\ list_base' = Top.old.list
      /\ return_value' = Top.old.ret
      /\ lists' = DropListFrame(SwapBound(lists, c, Top.old.list), c)
      /\ execute_depth' = execute_depth - 1
      /\ UNCHANGED <<throwing, args_stack, saved_stack>>
  BY DEF UnwindCallee, Caught, Caller
<1>3. /\ frame_base \in Nat /\ Len(stack) \in Nat /\ frame_base <= Len(stack)
      /\ stack \in Seq(Vals) /\ lists \in Seq(Seq(Vals))
      /\ Len(lists) \in Nat /\ NLists[Top.scr] \in Nat /\ TypeOK /\ list_base \in Nat
  BY <1>1, TopFacts DEF TopFit
<1>4. list_base + NLists[Top.scr] <= Len(lists)
  BY <1>1, OwnLists
<1>5. /\ Top.old.frame \in Nat /\ Top.old.arg \in Nat /\ Top.old.saved \in Nat
      /\ Top.old.list \in Nat /\ Top.old.ret \in SlotVals
      /\ frame_base = Top.old.size - NArgs[c.sub]
      /\ Top.old.frame <= frame_base
      /\ c \in Sites[Caller.scr] /\ Caller.scr \in Scripts
      /\ c.nlists = NLists[Top.scr] /\ NLists[Caller.scr] \in Nat
      /\ Top.old.list + NLists[Caller.scr] <= list_base
  BY <1>1, CallerFacts
<1>6. /\ frames' \in Seq(FrameType) /\ Len(frames') = Len(frames) - 1
      /\ Top'.scr = Caller.scr /\ Top'.pc = "row" /\ Top'.site = NoSite
  BY <1>1, <1>2, <1>3, KeptByDrop DEF Phases
<1>7. stack' \in Seq(Vals) /\ Len(stack') = frame_base /\ Len(stack') <= StackSlots
  <2>1. frame_base \in 0 .. Len(stack)
    BY <1>3
  <2>2. stack' = SubSeq(stack, 1, frame_base)
    BY <1>2, <1>5
  <2>3. stack' \in Seq(Vals) /\ Len(stack') = frame_base
    BY <1>3, <2>1, <2>2, Shortened
  <2>4. StackSlots \in Nat /\ Len(stack) <= StackSlots
    BY <1>3, LimitsAssumption DEF TypeOK, LimitsAssumption
  <2> QED
    BY <1>3, <2>3, <2>4
<1>8. /\ lists' \in Seq(Seq(Vals)) /\ Len(lists') = Len(lists) - NLists[Top.scr]
      /\ Top.old.list + NLists[Caller.scr] <= Len(lists')
  <2> HIDE DEF c
  <2>1. Top.old.list + NLists[Caller.scr] + c.nlists <= Len(lists)
    BY <1>3, <1>4, <1>5, SMTT(30)
  <2>2. lists' \in Seq(Seq(Vals)) /\ Len(lists') = Len(lists) - c.nlists
    BY <1>2, <1>3, <1>5, <2>1, CaughtLists
  <2>3. /\ c.nlists = NLists[Top.scr] /\ NLists[Top.scr] \in Nat /\ NLists[Caller.scr] \in Nat
        /\ Top.old.list \in Nat /\ Top.old.list + NLists[Caller.scr] <= list_base
        /\ list_base \in Nat /\ Len(lists) \in Nat
    BY <1>3, <1>5
  <2> QED
    BY <1>4, <2>2, <2>3
<1>9. execute_depth' \in Nat
  <2>1. Len(frames) \in Nat /\ execute_depth = Len(frames) - 1
    BY <1>1, TopFacts DEF FrameInv, ContextReusable
  <2> QED
    BY <1>1, <1>2, <2>1
<1>10. TypeOK'
  BY <1>2, <1>3, <1>5, <1>6, <1>7, <1>8, <1>9 DEF TypeOK
<1>11. TopFit'
  <2>1. Top.old.frame <= Len(stack') /\ Top.old.list + NLists[Caller.scr] + 0 <= Len(lists')
    <3>1. Top.old.list \in Nat /\ NLists[Caller.scr] \in Nat /\ Top.old.frame <= frame_base
      BY <1>5
    <3> QED
      BY <1>7, <1>8, <3>1
  <2> QED
    BY <1>2, <1>6, <2>1 DEF TopFit, OpenLists
<1> QED
  BY <1>1, <1>2, <1>10, <1>11, DropInv DEF Phases

-----------------------------------------------------------------------------
(* The ways back to the host *)

\* The last frame runs at base zero, so leaving it leaves the bases at zero.
LEMMA LastFrame ==
  ASSUME FrameInv, Len(frames) = 1
  PROVE  /\ frames # <<>> /\ execute_depth = 0
         /\ frame_base = 0 /\ arg_base = 0 /\ saved_base = 0 /\ list_base = 0
<1>1. frames # <<>>
  BY EmptySeq
<1> QED
  BY <1>1 DEF FrameInv, Grounded, ContextReusable, FrameBase, ArgBase, SavedBase, ListBase, Innermost

LEMMA FinishInv ==
  ASSUME FrameInv, Finish
  PROVE  FrameInv'
<1>1. /\ Len(frames) = 1 /\ ~throwing /\ frames' = <<>>
      /\ UNCHANGED <<throwing, args_stack, saved_stack, lists, bases, execute_depth>>
  BY DEF Finish, InRow, Running
<1>2. /\ frames # <<>> /\ execute_depth = 0
      /\ frame_base = 0 /\ arg_base = 0 /\ saved_base = 0 /\ list_base = 0
  BY <1>1, LastFrame
<1>3. /\ stack \in Seq(Vals) /\ Len(stack) \in Nat /\ TypeOK /\ StackSlots \in Nat
      /\ frame_base \in Nat /\ Len(stack) <= StackSlots
  BY <1>2, TopFacts DEF TypeOK
<1>4. stack' \in Seq(Vals) /\ Len(stack') <= StackSlots /\ return_value' \in SlotVals
  <2>1. CASE Returns[Top.scr]
    <3>1. /\ return_value' = stack[Len(stack)]
          /\ stack' = SubSeq(stack, 1, Len(stack) - 1)
          /\ Len(stack) > frame_base
      BY <2>1 DEF Finish
    <3>2. Len(stack) \in 1 .. Len(stack) /\ Len(stack) - 1 \in 0 .. Len(stack)
      BY <1>3, <3>1
    <3>3. return_value' \in SlotVals
      BY <1>3, <3>1, <3>2, ElementOfSeq DEF SlotVals
    <3>4. stack' \in Seq(Vals) /\ Len(stack') = Len(stack) - 1
      BY <1>3, <3>1, <3>2, Shortened
    <3> QED
      BY <1>3, <3>3, <3>4
  <2>2. CASE ~Returns[Top.scr]
    BY <1>3, <2>2 DEF Finish, TypeOK
  <2> QED
    BY <2>1, <2>2
<1>5. TypeOK'
  <2>1. frames' \in Seq(FrameType)
    BY <1>1, EmptySeq
  <2> QED
    BY <1>1, <1>3, <1>4, <2>1 DEF TypeOK, bases
<1>6. ContextReusable'
  BY <1>1, <1>2 DEF ContextReusable, bases
<1> QED
  BY <1>1, <1>5, <1>6, IdleInv

LEMMA UnwindToHostInv ==
  ASSUME FrameInv, UnwindToHost
  PROVE  FrameInv'
<1>1. /\ Len(frames) = 1 /\ throwing' = FALSE /\ frames' = <<>>
      /\ UNCHANGED <<stores, bases, execute_depth, return_value>>
  BY DEF UnwindToHost
<1>2. /\ execute_depth = 0
      /\ frame_base = 0 /\ arg_base = 0 /\ saved_base = 0 /\ list_base = 0
  BY <1>1, LastFrame
<1>3. TypeOK'
  <2>1. frames' \in Seq(FrameType)
    BY <1>1, EmptySeq
  <2> QED
    BY <1>1, <2>1 DEF FrameInv, TypeOK, stores, bases
<1>4. ContextReusable'
  BY <1>1, <1>2 DEF ContextReusable, bases
<1> QED
  BY <1>1, <1>3, <1>4, IdleInv

-----------------------------------------------------------------------------
(* Every step, and the theorems *)

LEMMA NextInv == SitesFresh /\ FrameInv /\ [Next]_vars => FrameInv'
<1> SUFFICES ASSUME SitesFresh, FrameInv, [Next]_vars
             PROVE  FrameInv'
  OBVIOUS
<1>1. CASE Host
  BY <1>1, HostInv
<1>2. CASE Row
  BY <1>2, RowInv
<1>3. CASE CallSite
  <2>1. ASSUME NEW s \in Scripts, NEW c \in Sites[s], ListFrameEnter(c)
        PROVE  FrameInv'
    BY <2>1, ListFrameEnterInv
  <2>2. CASE SwapIn
    <3>1. frames # <<>> /\ Top.pc = "entered"
      BY <2>2 DEF SwapIn, InPhase, Running
    <3> QED
      BY <2>2, <3>1, SwapInv DEF SwapIn
  <2>3. CASE ExecuteScript
    BY <2>3, ExecuteScriptInv
  <2>4. CASE ExecuteRefused
    BY <2>4, ExecuteRefusedInv
  <2>5. CASE ExecuteTooDeep
    BY <2>5, ExecuteTooDeepInv
  <2>6. CASE Return
    BY <2>6, ReturnInv
  <2>7. CASE WriteBack
    BY <2>7, WriteBackInv
  <2>8. CASE SwapOut
    <3>1. frames # <<>> /\ Top.pc = "written"
      BY <2>8 DEF SwapOut, InPhase, Running
    <3> QED
      BY <2>8, <3>1, SwapInv DEF SwapOut
  <2>9. CASE ListFrameExit
    BY <2>9, ListFrameExitInv
  <2> QED
    BY <1>3, <2>1, <2>2, <2>3, <2>4, <2>5, <2>6, <2>7, <2>8, <2>9 DEF CallSite
<1>4. CASE Finish
  BY <1>4, FinishInv
<1>5. CASE Unwind
  BY <1>5, UnwindCalleeInv, UnwindToHostInv DEF Unwind
<1>6. CASE UNCHANGED vars
  BY <1>6, SMTT(30) DEF vars, stores, bases, FrameInv, TypeOK, ContextReusable, Grounded, AllFit, AllLinked,
     AllBelow, Below,     TopFit, OpenLists, Fit, Link, FrameBase, ArgBase, SavedBase, ListBase, Innermost, Top
<1> QED
  BY <1>1, <1>2, <1>3, <1>4, <1>5, <1>6 DEF Next

(***************************************************************************)
(* THEOREM.  The frames of execute_script are always linked the way the    *)
(* compiler laid them out: every running script has the room it was        *)
(* compiled for, and its callee begins where it ends.                      *)
(***************************************************************************)
THEOREM FramesLinked == ASSUME SitesFresh PROVE Spec => []FrameInv
<1>1. FrameInv /\ [Next]_vars => FrameInv'
  BY NextInv
<1> QED
  BY <1>1, InitInv, PTL DEF Spec

(***************************************************************************)
(* THEOREM.  Type correctness, with the operand stack of the context       *)
(* within its storage: a script that runs in the peak it was compiled for  *)
(* never meets context::stack_t's "Stack overflow".                        *)
(***************************************************************************)
THEOREM TypeCorrect == ASSUME SitesFresh PROVE Spec => []TypeOK
<1>1. FrameInv => TypeOK
  BY DEF FrameInv
<1> QED
  BY <1>1, FramesLinked, PTL

\* The inductive invariant keeps every frame inside the stores.
LEMMA LinkedAreDisjoint == SitesFresh /\ FrameInv => FramesDisjoint
<1> SUFFICES ASSUME SitesFresh, FrameInv, NEW i \in 1 .. Len(frames)
             PROVE  Inside(i) /\ \A j \in i + 1 .. Len(frames) : Below(i, j)
  BY DEF FramesDisjoint
<1> DEFINE n == Len(frames)
           s == frames[i].scr
<1>1. frames # <<>> /\ n \in Nat /\ n \in 1 .. n
  <2>1. frames # <<>>
    BY EmptySeq
  <2> QED
    BY <2>1, TopFacts
<1>2. \A j \in i + 1 .. n : Below(i, j)
  <2> TAKE j \in i + 1 .. n
  <2>1. j \in 1 .. n /\ i < j
    BY <1>1
  <2> QED
    BY <2>1 DEF FrameInv, AllBelow
<1>3. /\ FrameBase(n) = frame_base /\ ListBase(n) = list_base /\ frames[n] = Top
      /\ frame_base <= Len(stack) /\ list_base + NLists[Top.scr] <= Len(lists)
      /\ frame_base \in Nat /\ list_base \in Nat /\ Len(stack) \in Nat /\ Len(lists) \in Nat
      /\ NLists[Top.scr] \in Nat
  BY <1>1, TopFacts, OwnLists DEF FrameBase, ListBase, Innermost, Top, TopFit
<1>4. ArgBase(i) + NArgs[s] <= ArgSlots /\ SavedBase(i) + NSaved[s] <= SavedSlots
  <2>1. Fit(i)
    BY DEF FrameInv, AllFit
  <2> QED
    BY <2>1 DEF Fit
<1>5. FrameBase(i) <= Len(stack) /\ ListBase(i) + NLists[s] <= Len(lists)
  <2>1. CASE i = n
    BY <1>3, <2>1
  <2>2. CASE i # n
    <3>1. n \in i + 1 .. n
      BY <1>1, <2>2
    <3>2. FrameBase(i) <= frame_base /\ ListBase(i) + NLists[s] <= list_base
      BY <1>2, <1>3, <3>1 DEF Below
    <3>3. FrameBase(i) \in Nat /\ ListBase(i) \in Nat
      BY BasesTyped
    <3>4. NLists[s] \in Nat
      <4>1. frames[i] \in FrameType
        BY ElementOfSeq DEF FrameInv, TypeOK
      <4> QED
        BY <4>1, ShapesAssumption DEF FrameType, ShapesAssumption
    <3> HIDE DEF s
    <3> QED
      BY <1>3, <3>2, <3>3, <3>4, SMTT(30)
  <2> QED
    BY <2>1, <2>2
<1> QED
  BY <1>2, <1>4, <1>5 DEF Inside

(***************************************************************************)
(* THEOREM.  No two running scripts share an operand, argument,            *)
(* saved-value or list slot, however deep execute_script nests and         *)
(* wherever an exception is thrown: the bases execute_script sets and its  *)
(* catch block restores never let a sub clobber its caller's slots.        *)
(***************************************************************************)
THEOREM SlotsIsolated == ASSUME SitesFresh PROVE Spec => []FramesDisjoint
<1>1. FrameInv => FramesDisjoint
  BY LinkedAreDisjoint
<1> QED
  BY <1>1, FramesLinked, PTL

(***************************************************************************)
(* THEOREM.  Every run, failed or not, gives its context back with the     *)
(* bases and the depth at zero, as the process() of the next run takes     *)
(* them; and while it runs the depth counts the nested executes.           *)
(***************************************************************************)
THEOREM RunsLeaveContextReusable == ASSUME SitesFresh PROVE Spec => []ContextReusable
<1>1. FrameInv => ContextReusable
  BY DEF FrameInv
<1> QED
  BY <1>1, FramesLinked, PTL

-----------------------------------------------------------------------------
(* What belongs to a script that waits: the frame invariant puts every     *)
(* waiting frame below the innermost one, and every step writes at or      *)
(* above the bases of the innermost frame, or of the callee it stacks.     *)

\* The first b operands, the first b lists, the first a arguments and the
\* first s saved values are the same after the step.
StackKeptTo(b) == b <= Len(stack') /\ \A p \in 1 .. b : stack'[p] = stack[p]
ListsKeptTo(b) == b <= Len(lists') /\ \A p \in 1 .. b : lists'[p] = lists[p]
ScalarsKeptTo(a, s) ==
  /\ \A k \in Slots(a) : args_stack'[k] = args_stack[k]
  /\ \A k \in Slots(s) : saved_stack'[k] = saved_stack[k]

-----------------------------------------------------------------------------
(* From what a step keeps to what it keeps of the waiting frames *)

LEMMA Prefix ==
  ASSUME NEW a \in Nat, NEW b \in Nat, NEW len \in Nat, a <= b
  PROVE  /\ \A p \in 1 .. a : p \in 1 .. b
         /\ b <= len => a <= len
  OBVIOUS

LEMMA ShiftedSlot ==
  ASSUME NEW base \in Nat, NEW n \in Nat, NEW end \in Nat, base + n <= end, NEW k \in Slots(n)
  PROVE  base + k \in Slots(end)
  BY DEF Slots

LEMMA WaitingBelow ==
  ASSUME FrameInv, NEW i \in 1 .. Len(frames), i # Len(frames)
  PROVE  /\ FrameBase(i + 1) \in Nat /\ FrameBase(i + 1) <= frame_base
         /\ ListBase(i + 1) \in Nat /\ ListBase(i + 1) <= list_base
         /\ ArgBase(i) \in Nat /\ ArgBase(i) + NArgs[frames[i].scr] <= arg_base
         /\ SavedBase(i) \in Nat /\ SavedBase(i) + NSaved[frames[i].scr] <= saved_base
         /\ i + 1 # Len(frames) => ListBase(i + 1) <= Top.old.list
<1>0. PICK n \in Nat : n = Len(frames)
  BY LenProperties DEF FrameInv, TypeOK
<1>1. /\ i \in 1 .. n /\ i # n /\ i + 1 \in 1 .. n /\ n \in 1 .. n /\ i < n
      /\ i + 1 # n => n - 1 \in 1 .. n /\ i + 1 <= n - 1
  BY <1>0
<1>2. /\ FrameBase(n) = frame_base /\ ArgBase(n) = arg_base
      /\ SavedBase(n) = saved_base /\ ListBase(n) = list_base
  BY <1>0 DEF FrameBase, ArgBase, SavedBase, ListBase, Innermost
<1>3. \A j \in 1 .. n : /\ FrameBase(j) \in Nat /\ ArgBase(j) \in Nat
                        /\ SavedBase(j) \in Nat /\ ListBase(j) \in Nat
                        /\ NLists[frames[j].scr] \in Nat
  <2> TAKE j \in 1 .. n
  <2>1. frames[j] \in FrameType
    BY <1>0, ElementOfSeq DEF FrameInv, TypeOK
  <2>2. NLists[frames[j].scr] \in Nat
    BY <2>1, ShapesAssumption DEF FrameType, ShapesAssumption
  <2> QED
    BY <1>0, <2>2, BasesTyped
<1>4. \A j, k \in 1 .. n : j < k =>
        /\ FrameBase(j) <= FrameBase(k)
        /\ ArgBase(j) + NArgs[frames[j].scr] <= ArgBase(k)
        /\ SavedBase(j) + NSaved[frames[j].scr] <= SavedBase(k)
        /\ ListBase(j) <= ListBase(k)
  <2> TAKE j, k \in 1 .. n
  <2> HAVE j < k
  <2>1. Below(j, k)
    BY <1>0 DEF FrameInv, AllBelow
  <2>2. ListBase(j) \in Nat /\ ListBase(k) \in Nat /\ NLists[frames[j].scr] \in Nat
    BY <1>3
  <2>3. ListBase(j) + NLists[frames[j].scr] <= ListBase(k)
    BY <2>1 DEF Below
  <2>4. ListBase(j) <= ListBase(k)
    BY <2>2, <2>3
  <2> QED
    BY <2>1, <2>4 DEF Below
<1>5. FrameBase(i + 1) <= frame_base /\ ListBase(i + 1) <= list_base
  <2>1. CASE i + 1 = n
    BY <1>2, <1>3, <1>1, <2>1
  <2>2. CASE i + 1 # n
    <3>1. i + 1 < n
      BY <1>1, <2>2
    <3> QED
      BY <1>1, <1>2, <1>4, <3>1
  <2> QED
    BY <2>1, <2>2
<1>6. /\ ArgBase(i) + NArgs[frames[i].scr] <= arg_base
      /\ SavedBase(i) + NSaved[frames[i].scr] <= saved_base
  BY <1>1, <1>2, <1>4
<1>7. ASSUME i + 1 # n
      PROVE  ListBase(i + 1) <= Top.old.list
  <2>1. n - 1 \in 1 .. n /\ i + 1 <= n - 1 /\ n - 1 # n /\ (n - 1) + 1 = n
    BY <1>1, <1>7
  <2>2. ListBase(n - 1) = Top.old.list
    BY <1>0, <2>1 DEF ListBase, Innermost, Top
  <2>3. CASE i + 1 = n - 1
    BY <2>2, <2>3, <1>1, <1>3
  <2>4. CASE i + 1 # n - 1
    <3>1. i + 1 < n - 1
      BY <2>1, <2>4, <1>1
    <3> QED
      BY <1>1, <1>4, <2>1, <2>2, <3>1
  <2> QED
    BY <2>3, <2>4
<1> QED
  BY <1>0, <1>1, <1>3, <1>5, <1>6, <1>7

LEMMA WaitingKept ==
  ASSUME FrameInv, TypeOK', frames # <<>>,
         StackKeptTo(frame_base),
         ScalarsKeptTo(arg_base, saved_base),
         Len(frames') > Len(frames) => ScalarsKeptTo(CalleeArgBase, CalleeSavedBase),
         Len(frames') >= Len(frames) => ListsKeptTo(list_base),
         Len(frames') < Len(frames) => Len(frames') = Len(frames) - 1 /\ ListsKeptTo(Top.old.list)
  PROVE  KeepsCallers
<1>0. PICK n \in Nat : n = Len(frames)
  BY LenProperties DEF FrameInv, TypeOK
<1>1. PICK m \in Nat : m = Len(frames')
  <2>1. frames' \in Seq(FrameType)
    BY DEF TypeOK
  <2> QED
    BY <2>1, LenProperties
<1>2. /\ frame_base \in Nat /\ arg_base \in Nat /\ saved_base \in Nat /\ list_base \in Nat
      /\ NArgs[Top.scr] \in Nat /\ NSaved[Top.scr] \in Nat
  BY TopFacts
<1>3. Top.old.list \in Nat
  <2>1. Top.old \in OldType
    BY TopFacts
  <2> QED
    BY <2>1 DEF OldType
<1>4. Len(stack') \in Nat /\ Len(lists') \in Nat
  <2>1. stack' \in Seq(Vals) /\ lists' \in Seq(Seq(Vals))
    BY DEF TypeOK
  <2> QED
    BY <2>1, LenProperties
<1> SUFFICES ASSUME NEW i \in 1 .. n
             PROVE  /\ i < n => OperandsKept(i)
                    /\ i < n /\ i < m => ListsKept(i)
                    /\ i < n \/ i < m => ScalarsKept(i)
  BY <1>0, <1>1, Zenon DEF KeepsCallers
<1>5. CASE i # n
  <2>1. /\ FrameBase(i + 1) \in Nat /\ FrameBase(i + 1) <= frame_base
        /\ ListBase(i + 1) \in Nat /\ ListBase(i + 1) <= list_base
        /\ ArgBase(i) \in Nat /\ ArgBase(i) + NArgs[frames[i].scr] <= arg_base
        /\ SavedBase(i) \in Nat /\ SavedBase(i) + NSaved[frames[i].scr] <= saved_base
        /\ i + 1 # n => ListBase(i + 1) <= Top.old.list
    BY <1>0, <1>5, WaitingBelow
  <2>2. OperandsKept(i)
    <3>1. FrameBase(i + 1) <= Len(stack') /\ \A p \in 1 .. FrameBase(i + 1) : p \in 1 .. frame_base
      BY <1>2, <1>4, <2>1, Prefix DEF StackKeptTo
    <3> QED
      BY <3>1, Zenon DEF OperandsKept, StackKeptTo
  <2>3. ASSUME i < m
        PROVE  ListsKept(i)
    <3>1. CASE m >= n
      BY <1>0, <1>1, <1>2, <1>4, <2>1, <3>1, SMTT(30) DEF ListsKept, ListsKeptTo
    <3>2. CASE m < n
      <4>1. m = n - 1 /\ ListsKeptTo(Top.old.list)
        BY <1>0, <1>1, <3>2
      <4>2. i + 1 # n
        BY <2>3, <4>1
      <4> QED
        BY <1>3, <1>4, <2>1, <4>1, <4>2, SMTT(30) DEF ListsKept, ListsKeptTo
    <3> QED
      BY <3>1, <3>2
  <2>4. ScalarsKept(i)
    <3>1. frames[i].scr \in Scripts
      <4>1. frames[i] \in FrameType
        BY <1>0, ElementOfSeq DEF FrameInv, TypeOK
      <4> QED
        BY <4>1 DEF FrameType
    <3>2. NArgs[frames[i].scr] \in Nat /\ NSaved[frames[i].scr] \in Nat
      BY <3>1, ShapesAssumption DEF ShapesAssumption
    <3>3. \A k \in Slots(NArgs[frames[i].scr]) : ArgBase(i) + k \in Slots(arg_base)
      BY <1>2, <2>1, <3>2, ShiftedSlot
    <3>4. \A k \in Slots(NSaved[frames[i].scr]) : SavedBase(i) + k \in Slots(saved_base)
      BY <1>2, <2>1, <3>2, ShiftedSlot
    <3> QED
      BY <3>3, <3>4, Zenon DEF ScalarsKept, ScalarsKeptTo
  <2> QED
    BY <2>2, <2>3, <2>4
<1>6. CASE i = n
  <2>1. i < m => ScalarsKept(i)
    <3>1. SUFFICES ASSUME i < m
                   PROVE  ScalarsKept(i)
      OBVIOUS
    <3>2. ScalarsKeptTo(CalleeArgBase, CalleeSavedBase)
      BY <1>0, <1>1, <1>6, <3>1
    <3>3. ArgBase(i) = arg_base /\ SavedBase(i) = saved_base /\ frames[i] = Top
      BY <1>0, <1>6 DEF ArgBase, SavedBase, Innermost, Top
    <3>4. \A k \in Slots(NArgs[frames[i].scr]) : ArgBase(i) + k \in Slots(CalleeArgBase)
      BY <1>2, <3>3 DEF Slots, CalleeArgBase
    <3>5. \A k \in Slots(NSaved[frames[i].scr]) : SavedBase(i) + k \in Slots(CalleeSavedBase)
      BY <1>2, <3>3 DEF Slots, CalleeSavedBase
    <3> QED
      BY <3>2, <3>4, <3>5, Zenon DEF ScalarsKept, ScalarsKeptTo
  <2> QED
    BY <1>6, <2>1
<1> QED
  BY <1>5, <1>6

\* Nothing waits unless two scripts run.
LEMMA NobodyWaits ==
  ASSUME FrameInv, Len(frames) <= 1, Len(frames') <= 1, Len(frames') \in Nat
  PROVE  KeepsCallers
<1>0. PICK n \in Nat : n = Len(frames)
  BY LenProperties DEF FrameInv, TypeOK
<1>1. PICK m \in Nat : m = Len(frames')
  OBVIOUS
<1> SUFFICES ASSUME NEW i \in 1 .. n
             PROVE  ~(i < n) /\ ~(i < m)
  BY <1>0, <1>1, Zenon DEF KeepsCallers
<1> QED
  BY <1>0, <1>1

\* The innermost script is the same before and after the step.
LEMMA StillKept ==
  ASSUME FrameInv, TypeOK', frames # <<>>, Len(frames') = Len(frames),
         StackKeptTo(frame_base), ListsKeptTo(list_base), ScalarsKeptTo(arg_base, saved_base)
  PROVE  KeepsCallers
<1>1. Len(frames) \in Nat
  BY TopFacts
<1>2. ~(Len(frames') > Len(frames)) /\ ~(Len(frames') < Len(frames))
  BY <1>1
<1> QED
  BY <1>2, WaitingKept

-----------------------------------------------------------------------------
(* What the stores keep *)

LEMMA SameStack ==
  ASSUME FrameInv, frames # <<>>, stack' = stack
  PROVE  StackKeptTo(frame_base)
<1>1. frame_base <= Len(stack)
  BY TopFacts DEF TopFit
<1> QED
  BY <1>1 DEF StackKeptTo

LEMMA SameLists ==
  ASSUME SitesFresh, FrameInv, frames # <<>>, lists' = lists
  PROVE  ListsKeptTo(list_base)
<1>1. /\ list_base \in Nat /\ NLists[Top.scr] \in Nat /\ Len(lists) \in Nat
      /\ list_base + NLists[Top.scr] <= Len(lists)
  BY TopFacts, OwnLists
<1>2. list_base <= Len(lists)
  BY <1>1
<1> QED
  BY <1>2 DEF ListsKeptTo

LEMMA SameScalars ==
  ASSUME args_stack' = args_stack, saved_stack' = saved_stack, NEW a, NEW s
  PROVE  ScalarsKeptTo(a, s)
  BY DEF ScalarsKeptTo

\* A sequence cut to n elements keeps its first n.
LEMMA CutKept ==
  ASSUME NEW S, NEW seq \in Seq(S), NEW n \in 0 .. Len(seq), NEW b \in Nat, b <= n
  PROVE  /\ b <= Len(SubSeq(seq, 1, n))
         /\ \A p \in 1 .. b : SubSeq(seq, 1, n)[p] = seq[p]
<1>1. Len(seq) \in Nat
  BY LenProperties
<1>2. /\ Len(SubSeq(seq, 1, n)) = n
      /\ \A p \in 1 .. n : SubSeq(seq, 1, n)[p] = seq[p]
  BY <1>1, SubSeqProperties
<1> QED
  BY <1>2

LEMMA CutStack ==
  ASSUME FrameInv, frames # <<>>, NEW n \in Nat, frame_base <= n, n <= Len(stack),
         stack' = SubSeq(stack, 1, n)
  PROVE  StackKeptTo(frame_base)
<1>1. stack \in Seq(Vals) /\ n \in 0 .. Len(stack) /\ frame_base \in Nat
  BY TopFacts
<1> QED
  BY <1>1, CutKept DEF StackKeptTo

\* The bound lists of a site lie above the base the swaps were compiled for.
LEMMA SwapKept ==
  ASSUME SitesFresh, NEW s \in Scripts, NEW c \in Sites[s], NEW base \in Nat,
         NEW ls \in Seq(Seq(Vals)), base + NLists[s] + c.nlists <= Len(ls), NEW p \in 1 .. base
  PROVE  SwapBound(ls, c, base)[p] = ls[p]
<1>1. /\ Len(ls) \in Nat /\ DOMAIN ls = 1 .. Len(ls)
      /\ c.nlists \in Nat /\ NLists[s] \in Nat
  BY LenProperties, SiteFacts, ShapesAssumption DEF ShapesAssumption
<1>2. p \in DOMAIN ls
  BY <1>1
<1>3. ASSUME NEW l \in DOMAIN c.bind
      PROVE  p # Len(ls) - c.nlists + l + 1 /\ p # c.bind[l] + base + 1
  <2>1. l \in Slots(c.nlists) /\ c.bind[l] \in Slots(NLists[s])
    BY SiteFacts
  <2>2. l \in Nat /\ c.bind[l] \in Nat
    BY <1>1, <2>1 DEF Slots
  <2>3. PICK m \in Nat : m = Len(ls) - c.nlists /\ base <= m
    BY <1>1, SMTT(30)
  <2>4. p # m + l + 1
    BY <2>2, <2>3
  <2>5. p # c.bind[l] + base + 1
    BY <2>2
  <2> QED
    BY <2>3, <2>4, <2>5
<1> QED
  BY <1>2, <1>3 DEF SwapBound

\* What a catch block leaves of the lists below the frame it restores.
LEMMA CaughtKept ==
  ASSUME SitesFresh, NEW s \in Scripts, NEW c \in Sites[s], NEW base \in Nat,
         lists \in Seq(Seq(Vals)), base + NLists[s] + c.nlists <= Len(lists),
         lists' = DropListFrame(SwapBound(lists, c, base), c)
  PROVE  ListsKeptTo(base)
<1>1. /\ Len(lists) \in Nat /\ c.nlists \in Nat /\ NLists[s] \in Nat
  BY LenProperties, SiteFacts, ShapesAssumption DEF ShapesAssumption
<1> DEFINE swapped == SwapBound(lists, c, base)
<1>2. /\ swapped \in Seq(Seq(Vals)) /\ Len(swapped) = Len(lists)
      /\ \A p \in 1 .. base : swapped[p] = lists[p]
  <2>1. base + NLists[s] <= Len(lists) /\ c.nlists <= Len(lists)
    BY <1>1
  <2>2. swapped \in Seq(Seq(Vals)) /\ Len(swapped) = Len(lists)
    BY <2>1, SwapTyped
  <2> QED
    BY <2>2, SwapKept
<1> HIDE DEF swapped
<1>3. lists' = SubSeq(swapped, 1, Len(lists) - c.nlists)
  BY <1>2 DEF DropListFrame, swapped
<1>4. Len(lists) - c.nlists \in 0 .. Len(swapped) /\ base <= Len(lists) - c.nlists
  BY <1>1, <1>2
<1>5. base <= Len(lists') /\ \A p \in 1 .. base : lists'[p] = swapped[p]
  BY <1>2, <1>3, <1>4, CutKept
<1> QED
  BY <1>2, <1>5 DEF ListsKeptTo

-----------------------------------------------------------------------------
(* Rows *)

LEMMA StoredKept ==
  ASSUME FrameInv, frames # <<>>, NEW i, Stored(i)
  PROVE  StackKeptTo(frame_base)
<1>1. CASE stack' = stack
  BY <1>1, SameStack
<1>2. CASE i = Len(stack) /\ stack' = SubSeq(stack, 1, i - 1)
  <2>1. frame_base \in Nat /\ Len(stack) \in Nat /\ i \in frame_base + 1 .. Len(stack)
    BY TopFacts DEF Stored
  <2>2. i - 1 \in Nat /\ frame_base <= i - 1 /\ i - 1 <= Len(stack)
    BY <2>1
  <2> QED
    BY <1>2, <2>2, CutStack
<1> QED
  BY <1>1, <1>2 DEF Stored

\* A slot of the innermost frame is none of those below it.
LEMMA AboveBase ==
  ASSUME NEW base \in Nat, NEW k \in Nat
  PROVE  k + base \notin Slots(base) /\ k + base + 1 \notin 1 .. base
  BY DEF Slots

LEMMA SlotIsNat ==
  ASSUME NEW n \in Nat, NEW k \in Slots(n)
  PROVE  k \in Nat
  BY DEF Slots

LEMMA RowKeeps ==
  ASSUME SitesFresh, FrameInv, TypeOK', Row
  PROVE  KeepsCallers
<1>1. frames # <<>> /\ frames' = frames
  BY DEF Row, PushOperand, PopOperand, SetArgument, SetSaved, ClearList, AddTo, Throw, InRow, Running
<1>2. /\ frame_base \in Nat /\ arg_base \in Nat /\ saved_base \in Nat /\ list_base \in Nat
      /\ Len(stack) \in Nat /\ stack \in Seq(Vals) /\ frame_base <= Len(stack)
      /\ ArgSlots \in Nat /\ SavedSlots \in Nat
  BY <1>1, TopFacts DEF TopFit
<1>3. StackKeptTo(frame_base)
  <2>1. ASSUME NEW v \in Vals, PushOperand(v)
        PROVE  StackKeptTo(frame_base)
    <3>1. stack' = Append(stack, v)
      BY <2>1 DEF PushOperand
    <3>2. /\ Len(stack') = Len(stack) + 1
          /\ \A p \in 1 .. Len(stack) : stack'[p] = stack[p]
      BY <1>2, <3>1, AppendProperties
    <3> QED
      BY <1>2, <3>2 DEF StackKeptTo
  <2>2. ASSUME PopOperand
        PROVE  StackKeptTo(frame_base)
    <3>1. stack' = SubSeq(stack, 1, Len(stack) - 1) /\ Len(stack) > frame_base
      BY <2>2 DEF PopOperand
    <3>2. Len(stack) - 1 \in Nat /\ frame_base <= Len(stack) - 1 /\ Len(stack) - 1 <= Len(stack)
      BY <1>2, <3>1
    <3> QED
      BY <1>1, <3>1, <3>2, CutStack
  <2>3. ASSUME NEW k, NEW i, SetArgument(k, i) \/ SetSaved(k, i)
        PROVE  StackKeptTo(frame_base)
    BY <1>1, <2>3, StoredKept DEF SetArgument, SetSaved
  <2>4. CASE stack' = stack
    BY <1>1, <2>4, SameStack
  <2> QED
    BY <2>1, <2>2, <2>3, <2>4 DEF Row, AddTo, ClearList, Throw, stores
<1>4. ScalarsKeptTo(arg_base, saved_base)
  <2>1. ASSUME NEW k \in Slots(ArgSlots), NEW i, SetArgument(k, i)
        PROVE  ScalarsKeptTo(arg_base, saved_base)
    <3>1. /\ args_stack' = [args_stack EXCEPT ![k + arg_base] = stack[i]]
          /\ saved_stack' = saved_stack
      BY <2>1 DEF SetArgument
    <3>2. k + arg_base \notin Slots(arg_base)
      BY <1>2, AboveBase, SlotIsNat
    <3>3. DOMAIN args_stack = Slots(ArgSlots) /\ \A j \in Slots(arg_base) : j \in Slots(ArgSlots)
      <4>1. arg_base <= ArgSlots
        <5>1. arg_base + NArgs[Top.scr] <= ArgSlots /\ NArgs[Top.scr] \in Nat
          BY <1>1, TopFacts
        <5> QED
          BY <1>2, <5>1
      <4> QED
        BY <1>2, <4>1 DEF FrameInv, TypeOK, Slots
    <3> QED
      BY <3>1, <3>2, <3>3 DEF ScalarsKeptTo
  <2>2. ASSUME NEW k \in Slots(SavedSlots), NEW i, SetSaved(k, i)
        PROVE  ScalarsKeptTo(arg_base, saved_base)
    <3>1. /\ saved_stack' = [saved_stack EXCEPT ![k + saved_base] = stack[i]]
          /\ args_stack' = args_stack
      BY <2>2 DEF SetSaved
    <3>2. k + saved_base \notin Slots(saved_base)
      BY <1>2, AboveBase, SlotIsNat
    <3>3. DOMAIN saved_stack = Slots(SavedSlots) /\ \A j \in Slots(saved_base) : j \in Slots(SavedSlots)
      <4>1. saved_base <= SavedSlots
        <5>1. saved_base + NSaved[Top.scr] <= SavedSlots /\ NSaved[Top.scr] \in Nat
          BY <1>1, TopFacts
        <5> QED
          BY <1>2, <5>1
      <4> QED
        BY <1>2, <4>1 DEF FrameInv, TypeOK, Slots
    <3> QED
      BY <3>1, <3>2, <3>3 DEF ScalarsKeptTo
  <2>3. CASE args_stack' = args_stack /\ saved_stack' = saved_stack
    BY <2>3, SameScalars
  <2> QED
    BY <2>1, <2>2, <2>3 DEF Row, PushOperand, PopOperand, AddTo, ClearList, Throw, stores
<1>5. ListsKeptTo(list_base)
  <2>1. /\ Len(lists) \in Nat /\ lists \in Seq(Seq(Vals)) /\ list_base <= Len(lists)
    <3>1. /\ Len(lists) \in Nat /\ lists \in Seq(Seq(Vals))
          /\ list_base + NLists[Top.scr] <= Len(lists) /\ NLists[Top.scr] \in Nat
      BY <1>1, TopFacts, OwnLists
    <3> QED
      BY <1>2, <3>1
  <2>2. ASSUME NEW s \in Scripts, NEW l \in Slots(NLists[s]), NEW x,
               lists' = [lists EXCEPT ![l + list_base + 1] = x]
        PROVE  ListsKeptTo(list_base)
    <3>1. l + list_base + 1 \notin 1 .. list_base
      <4>1. NLists[s] \in Nat
        BY ShapesAssumption DEF ShapesAssumption
      <4> QED
        BY <1>2, <4>1, AboveBase, SlotIsNat
    <3>2. DOMAIN lists' = DOMAIN lists /\ \A p \in 1 .. list_base : lists'[p] = lists[p]
      <4>1. \A p \in 1 .. list_base : p \in DOMAIN lists
        BY <1>2, <2>1
      <4> QED
        BY <2>2, <3>1, <4>1
    <3>3. Len(lists') = Len(lists)
      <4>1. lists' \in Seq(Seq(Vals))
        BY DEF TypeOK
      <4> QED
        BY <2>1, <3>2, <4>1, LenProperties
    <3> QED
      BY <2>1, <3>2, <3>3 DEF ListsKeptTo
  <2>3. CASE lists' = lists
    BY <1>1, <2>3, SameLists
  <2> QED
    BY <2>2, <2>3 DEF Row, PushOperand, PopOperand, SetArgument, SetSaved, AddTo, ClearList, Throw, stores
<1> QED
  BY <1>1, <1>3, <1>4, <1>5, StillKept

-----------------------------------------------------------------------------
(* Call sites *)

\* The innermost frame moves to another phase and no scalar changes.
LEMMA ReachKeeps ==
  ASSUME SitesFresh, FrameInv, TypeOK', frames # <<>>,
         NEW pc \in Phases, NEW c \in AllSites \union {NoSite}, Reach(pc, c),
         UNCHANGED <<stack, bases>>, ListsKeptTo(list_base), ScalarsKeptTo(arg_base, saved_base)
  PROVE  KeepsCallers
<1>1. Len(frames') = Len(frames)
  BY KeptByReach DEF Reach, FrameInv
<1> QED
  BY <1>1, SameStack, StillKept

LEMMA ListFrameEnterKeeps ==
  ASSUME SitesFresh, FrameInv, TypeOK', NEW s \in Scripts, NEW c \in Sites[s], ListFrameEnter(c)
  PROVE  KeepsCallers
<1>1. frames # <<>> /\ Reach("entered", c)
  BY DEF ListFrameEnter, InRow, Running
<1>2. c \in AllSites /\ c.nlists \in Nat
  BY SiteFacts
<1>3. ListsKeptTo(list_base)
  <2> DEFINE fresh == [k \in 1 .. c.nlists |-> <<>>]
  <2>1. fresh \in Seq(Seq(Vals)) /\ Len(fresh) = c.nlists
    BY <1>2, EmptyLists
  <2>2. lists' = lists \o fresh
    BY DEF ListFrameEnter
  <2>3. /\ lists \in Seq(Seq(Vals)) /\ Len(lists) \in Nat /\ list_base \in Nat
        /\ list_base <= Len(lists)
    <3>1. /\ lists \in Seq(Seq(Vals)) /\ Len(lists) \in Nat /\ list_base \in Nat
          /\ list_base + NLists[Top.scr] <= Len(lists) /\ NLists[Top.scr] \in Nat
      BY <1>1, TopFacts, OwnLists
    <3> QED
      BY <3>1
  <2> HIDE DEF fresh
  <2>4. /\ Len(lists \o fresh) = Len(lists) + Len(fresh)
        /\ \A i \in 1 .. Len(lists) + Len(fresh) :
             (lists \o fresh)[i] = IF i <= Len(lists) THEN lists[i] ELSE fresh[i - Len(lists)]
    BY <2>1, <2>3, ConcatProperties, Zenon
  <2>5. list_base <= Len(lists')
    BY <1>2, <2>1, <2>2, <2>3, <2>4
  <2>6. \A p \in 1 .. list_base : p \in 1 .. Len(lists) + Len(fresh) /\ p <= Len(lists)
    BY <1>2, <2>1, <2>3
  <2>7. \A p \in 1 .. list_base : lists'[p] = lists[p]
    BY <2>2, <2>4, <2>6
  <2> QED
    BY <2>5, <2>7 DEF ListsKeptTo
<1>4. UNCHANGED <<stack, bases>> /\ args_stack' = args_stack /\ saved_stack' = saved_stack
  BY DEF ListFrameEnter
<1> QED
  BY <1>1, <1>2, <1>3, <1>4, SameScalars, ReachKeeps DEF Phases

LEMMA SwapKeeps ==
  ASSUME SitesFresh, FrameInv, TypeOK', frames # <<>>, NEW pc \in {"swapped", "unswapped"},
         Top.pc # "row", lists' = SwapBound(lists, Top.site, list_base), Reach(pc, Top.site),
         UNCHANGED <<stack, args_stack, saved_stack, bases>>
  PROVE  KeepsCallers
<1>1. /\ Top.site \in AllSites /\ Top.site \in Sites[Top.scr]
      /\ list_base + NLists[Top.scr] + Top.site.nlists <= Len(lists)
      /\ Top.site.nlists \in Nat
  BY OpenSite
<1>2. /\ Top.scr \in Scripts /\ list_base \in Nat /\ NLists[Top.scr] \in Nat
      /\ Len(lists) \in Nat /\ lists \in Seq(Seq(Vals))
  BY TopFacts
<1>3. ListsKeptTo(list_base)
  <2>1. list_base + NLists[Top.scr] <= Len(lists) /\ Top.site.nlists <= Len(lists)
    BY <1>1, <1>2
  <2>2. Len(lists') = Len(lists)
    BY <1>1, <1>2, <2>1, SwapTyped
  <2>3. list_base <= Len(lists')
    BY <1>2, <2>1, <2>2
  <2>4. \A p \in 1 .. list_base : lists'[p] = lists[p]
    BY <1>1, <1>2, SwapKept
  <2> QED
    BY <2>3, <2>4 DEF ListsKeptTo
<1> QED
  BY <1>1, <1>3, SameScalars, ReachKeeps DEF Phases

LEMMA ListFrameExitKeeps ==
  ASSUME SitesFresh, FrameInv, TypeOK', ListFrameExit
  PROVE  KeepsCallers
<1>1. /\ frames # <<>> /\ Top.pc # "row" /\ Reach("row", NoSite)
      /\ lists' = DropListFrame(lists, Top.site)
      /\ UNCHANGED <<stack, bases>> /\ args_stack' = args_stack /\ saved_stack' = saved_stack
  BY DEF ListFrameExit, InPhase, Running
<1>2. /\ list_base + NLists[Top.scr] + Top.site.nlists <= Len(lists)
      /\ Top.site.nlists \in Nat
  BY <1>1, OpenSite
<1>3. /\ list_base \in Nat /\ NLists[Top.scr] \in Nat
      /\ Len(lists) \in Nat /\ lists \in Seq(Seq(Vals))
  BY <1>1, TopFacts
<1>4. /\ Len(lists) - Top.site.nlists \in 0 .. Len(lists)
      /\ list_base <= Len(lists) - Top.site.nlists
  BY <1>2, <1>3, SMTT(30)
<1>5. ListsKeptTo(list_base)
  BY <1>1, <1>3, <1>4, CutKept DEF ListsKeptTo, DropListFrame
<1> QED
  BY <1>1, <1>5, SameScalars, ReachKeeps DEF Phases

\* A slot below a frame is none of the frame's.
LEMMA BelowBase ==
  ASSUME NEW base \in Nat, NEW n \in Nat, NEW k \in Slots(base)
  PROVE  k - base \notin Slots(n)
  BY DEF Slots

LEMMA WrittenBackKept ==
  ASSUME FrameInv, frames # <<>>, Top.site \in Sites[Top.scr],
         NEW kind \in {"arg", "saved"}, NEW base \in Nat, NEW slots, NEW k \in Slots(base),
         k \in DOMAIN slots
  PROVE  WrittenBack(kind, base, slots)[k] = slots[k]
<1>1. SiteOf(Top.scr, Top.site) /\ NArgs[Top.scr] \in Nat /\ NSaved[Top.scr] \in Nat
  BY TopFacts, ShapesAssumption DEF ShapesAssumption
<1>2. k - base \notin Slots(NArgs[Top.scr]) /\ k - base \notin Slots(NSaved[Top.scr])
  BY <1>1, BelowBase
<1>3. \A a \in DOMAIN Top.site.out : Top.site.out[a] # <<kind, k - base>>
  <2> TAKE a \in DOMAIN Top.site.out
  <2>1. Top.site.out[a] \in ({"arg"} \X Slots(NArgs[Top.scr])) \union ({"saved"} \X Slots(NSaved[Top.scr]))
    BY <1>1 DEF SiteOf
  <2> QED
    BY <1>2, <2>1
<1> QED
  BY <1>3, Zenon DEF WrittenBack

LEMMA WriteBackKeeps ==
  ASSUME SitesFresh, FrameInv, TypeOK', WriteBack
  PROVE  KeepsCallers
<1>1. /\ frames # <<>> /\ Top.pc # "row" /\ Reach("written", Top.site)
      /\ args_stack' = WrittenBack("arg", arg_base, args_stack)
      /\ saved_stack' = WrittenBack("saved", saved_base, saved_stack)
      /\ UNCHANGED <<stack, bases>> /\ lists' = lists
  BY DEF WriteBack, InPhase, Running
<1>2. Top.site \in AllSites /\ Top.site \in Sites[Top.scr]
  BY <1>1, OpenSite
<1>3. /\ arg_base \in Nat /\ saved_base \in Nat
      /\ \A k \in Slots(arg_base) : k \in DOMAIN args_stack
      /\ \A k \in Slots(saved_base) : k \in DOMAIN saved_stack
  <2>1. /\ arg_base \in Nat /\ saved_base \in Nat /\ ArgSlots \in Nat /\ SavedSlots \in Nat
        /\ NArgs[Top.scr] \in Nat /\ NSaved[Top.scr] \in Nat
        /\ arg_base + NArgs[Top.scr] <= ArgSlots /\ saved_base + NSaved[Top.scr] <= SavedSlots
        /\ DOMAIN args_stack = Slots(ArgSlots) /\ DOMAIN saved_stack = Slots(SavedSlots)
    BY <1>1, TopFacts DEF TypeOK
  <2>2. arg_base <= ArgSlots /\ saved_base <= SavedSlots
    BY <2>1
  <2> QED
    BY <2>1, <2>2 DEF Slots
<1>4. ScalarsKeptTo(arg_base, saved_base)
  BY <1>1, <1>2, <1>3, WrittenBackKept DEF ScalarsKeptTo
<1> QED
  BY <1>1, <1>2, <1>4, SameLists, ReachKeeps DEF Phases

-----------------------------------------------------------------------------
(* execute_script *)

\* Facts about the callee's frame while the call site stands before execute.
LEMMA CalleeAbove ==
  ASSUME SitesFresh, FrameInv, frames # <<>>, Top.pc = "swapped"
  PROVE  /\ Top.site.sub \in Scripts /\ Top.site \in Sites[Top.scr] /\ Top.scr \in Scripts
         /\ NArgs[Top.site.sub] \in Nat /\ NSaved[Top.site.sub] \in Nat
         /\ CalleeFrameBase \in Nat /\ frame_base <= CalleeFrameBase
         /\ CalleeFrameBase <= Len(stack)
         /\ CalleeArgBase \in Nat /\ arg_base <= CalleeArgBase
         /\ CalleeSavedBase \in Nat /\ saved_base <= CalleeSavedBase
         /\ arg_base \in Nat /\ saved_base \in Nat
<1>1. /\ Top.site.sub \in Scripts /\ Top.site \in Sites[Top.scr] /\ Top.scr \in Scripts
      /\ NArgs[Top.site.sub] \in Nat /\ NSaved[Top.site.sub] \in Nat
  BY OpenSite, TopFacts
<1>2. /\ frame_base \in Nat /\ Len(stack) \in Nat /\ arg_base \in Nat /\ saved_base \in Nat
      /\ NArgs[Top.scr] \in Nat /\ NSaved[Top.scr] \in Nat
      /\ frame_base <= Len(stack) - NArgs[Top.site.sub]
  BY TopFacts DEF TopFit
<1>3. /\ CalleeFrameBase \in Nat /\ frame_base <= CalleeFrameBase
      /\ CalleeFrameBase <= Len(stack)
  BY <1>1, <1>2 DEF CalleeFrameBase
<1>4. /\ CalleeArgBase \in Nat /\ arg_base <= CalleeArgBase
      /\ CalleeSavedBase \in Nat /\ saved_base <= CalleeSavedBase
  BY <1>2 DEF CalleeArgBase, CalleeSavedBase
<1> QED
  BY <1>1, <1>2, <1>3, <1>4

LEMMA SmallerPart ==
  ASSUME NEW a \in Nat, NEW b \in Nat, a <= b, NEW k \in Slots(a)
  PROVE  k \in Slots(b)
  BY DEF Slots

\* Entering a callee writes at or above its own frame.
LEMMA CalleeSlotsKept ==
  ASSUME SitesFresh, FrameInv, frames # <<>>, Top.pc = "swapped", SlotsFit(Top.site.sub),
         args_stack' = ArgsMoved(Top.site.sub), saved_stack' = SavedFresh(Top.site.sub)
  PROVE  /\ ScalarsKeptTo(CalleeArgBase, CalleeSavedBase)
         /\ ScalarsKeptTo(arg_base, saved_base)
<1> DEFINE sub == Top.site.sub
<1>1. /\ NArgs[sub] \in Nat /\ NSaved[sub] \in Nat
      /\ CalleeArgBase \in Nat /\ CalleeSavedBase \in Nat
      /\ arg_base \in Nat /\ arg_base <= CalleeArgBase
      /\ saved_base \in Nat /\ saved_base <= CalleeSavedBase
  BY CalleeAbove
<1>2. /\ DOMAIN args_stack = Slots(ArgSlots) /\ DOMAIN saved_stack = Slots(SavedSlots)
      /\ ArgSlots \in Nat /\ SavedSlots \in Nat
  BY TopFacts DEF TypeOK
<1> HIDE DEF sub
<1>3. CalleeArgBase <= ArgSlots /\ CalleeSavedBase <= SavedSlots
  <2>1. CalleeArgBase + NArgs[sub] <= ArgSlots /\ CalleeSavedBase + NSaved[sub] <= SavedSlots
    BY DEF SlotsFit, sub
  <2> QED
    BY <1>1, <1>2, <2>1
<1>4. \A k \in Slots(CalleeArgBase) : args_stack'[k] = args_stack[k]
  <2> TAKE k \in Slots(CalleeArgBase)
  <2>1. k - CalleeArgBase \notin Slots(NArgs[sub])
    BY <1>1, BelowBase
  <2>2. k \in DOMAIN args_stack
    BY <1>1, <1>2, <1>3, SmallerPart
  <2> QED
    BY <2>1, <2>2 DEF ArgsMoved, sub
<1>5. \A k \in Slots(CalleeSavedBase) : saved_stack'[k] = saved_stack[k]
  <2> TAKE k \in Slots(CalleeSavedBase)
  <2>1. k - CalleeSavedBase \notin Slots(NSaved[sub])
    BY <1>1, BelowBase
  <2>2. k \in DOMAIN saved_stack
    BY <1>1, <1>2, <1>3, SmallerPart
  <2> QED
    BY <2>1, <2>2 DEF SavedFresh, sub
<1>6. ScalarsKeptTo(CalleeArgBase, CalleeSavedBase)
  BY <1>4, <1>5 DEF ScalarsKeptTo
<1>7. ScalarsKeptTo(arg_base, saved_base)
  BY <1>1, <1>4, <1>5, SmallerPart DEF ScalarsKeptTo
<1> QED
  BY <1>6, <1>7

LEMMA ExecuteScriptKeeps ==
  ASSUME SitesFresh, FrameInv, TypeOK', ExecuteScript
  PROVE  KeepsCallers
<1>1. /\ frames # <<>> /\ Top.pc = "swapped"
      /\ SlotsFit(Top.site.sub)
      /\ args_stack' = ArgsMoved(Top.site.sub) /\ saved_stack' = SavedFresh(Top.site.sub)
      /\ stack' = SubSeq(stack, 1, CalleeFrameBase) /\ lists' = lists
      /\ frames' = Append(FramesAt(Len(frames), "called", Top.site),
                          [scr |-> Top.site.sub, pc |-> "row", site |-> NoSite, old |-> Old])
  BY DEF ExecuteScript, InPhase, Running
<1>2. StackKeptTo(frame_base)
  BY <1>1, CalleeAbove, CutStack
<1>3. ScalarsKeptTo(CalleeArgBase, CalleeSavedBase) /\ ScalarsKeptTo(arg_base, saved_base)
  BY <1>1, CalleeSlotsKept
<1>4. ListsKeptTo(list_base)
  BY <1>1, SameLists
<1>5. Len(frames) \in Nat /\ Len(frames') = Len(frames) + 1
  <2>1. Top.site \in AllSites /\ Top.site.sub \in Scripts
    BY <1>1, OpenSite
  <2> QED
    BY <1>1, <2>1, TopFacts, KeptByExecute
<1>6. ~(Len(frames') < Len(frames))
  BY <1>5
<1> QED
  BY <1>1, <1>2, <1>3, <1>4, <1>6, WaitingKept

LEMMA ExecuteRefusedKeeps ==
  ASSUME SitesFresh, FrameInv, TypeOK', ExecuteRefused
  PROVE  KeepsCallers
<1>1. /\ frames # <<>> /\ Top.pc = "swapped"
      /\ frames' = FramesAt(Len(frames), "row", NoSite)
      /\ stack' = SubSeq(stack, 1, CalleeFrameBase)
      /\ UNCHANGED bases
      /\ lists' = DropListFrame(SwapBound(lists, Top.site, list_base), Top.site)
  BY DEF ExecuteRefused, InPhase, Running, Caught, Old, Top, CalleeFrameBase, bases
<1>2. StackKeptTo(frame_base)
  BY <1>1, CalleeAbove, CutStack
<1>3. ScalarsKeptTo(arg_base, saved_base)
  <2>1. CASE args_stack' = args_stack /\ saved_stack' = saved_stack
    BY <2>1, SameScalars
  <2>2. CASE /\ SlotsFit(Top.site.sub)
             /\ args_stack' = ArgsMoved(Top.site.sub)
             /\ saved_stack' = SavedFresh(Top.site.sub)
    BY <1>1, <2>2, CalleeSlotsKept
  <2> QED
    BY <2>1, <2>2 DEF ExecuteRefused
<1>4. ListsKeptTo(list_base)
  <2>1. /\ Top.site \in Sites[Top.scr] /\ Top.scr \in Scripts /\ list_base \in Nat
        /\ lists \in Seq(Seq(Vals))
        /\ list_base + NLists[Top.scr] + Top.site.nlists <= Len(lists)
    BY <1>1, OpenSite, TopFacts
  <2> QED
    BY <1>1, <2>1, CaughtKept
<1>5. Len(frames') = Len(frames)
  BY <1>1, KeptByReach DEF FrameInv, Phases
<1> QED
  BY <1>1, <1>2, <1>3, <1>4, <1>5, StillKept

\* The callee's frame goes: what it left of the stack stays its caller's.
LEMMA DropKeeps ==
  ASSUME SitesFresh, FrameInv, TypeOK', Len(frames) > 1,
         NEW pc \in Phases, NEW c \in AllSites \union {NoSite},
         frames' = FramesAt(Len(frames) - 1, pc, c),
         frame_base' = Top.old.frame, arg_base' = Top.old.arg,
         saved_base' = Top.old.saved, list_base' = Top.old.list,
         args_stack' = args_stack, saved_stack' = saved_stack,
         StackKeptTo(frame_base), ListsKeptTo(Top.old.list)
  PROVE  KeepsCallers
<1>1. frames # <<>> /\ TypeOK /\ Len(frames) \in Nat
  BY CallerFacts, TopFacts
<1>2. Len(frames') = Len(frames) - 1
  BY <1>1, KeptByDrop
<1>3. ~(Len(frames') > Len(frames)) /\ ~(Len(frames') >= Len(frames))
  BY <1>1, <1>2
<1> QED
  BY <1>1, <1>2, <1>3, SameScalars, WaitingKept

LEMMA ReturnKeeps ==
  ASSUME SitesFresh, FrameInv, TypeOK', Return
  PROVE  KeepsCallers
<1> DEFINE value == IF Returns[Top.scr] THEN <<stack[Len(stack)]>> ELSE <<>>
           kept == SubSeq(stack, 1, frame_base)
<1>1. /\ Len(frames) > 1 /\ frames # <<>>
      /\ stack' = SubSeq(stack, 1, Top.old.size - NArgs[Top.scr]) \o value
      /\ frame_base' = Top.old.frame /\ arg_base' = Top.old.arg
      /\ saved_base' = Top.old.saved /\ list_base' = Top.old.list
      /\ frames' = FramesAt(Len(frames) - 1, "returned", Caller.site)
      /\ args_stack' = args_stack /\ saved_stack' = saved_stack /\ lists' = lists
      /\ Returns[Top.scr] => Len(stack) > frame_base
  BY DEF Return, InRow, Running
<1>2. /\ frame_base = Top.old.size - NArgs[Top.scr] /\ Caller.site \in AllSites
      /\ Top.old.list \in Nat /\ NLists[Caller.scr] \in Nat
      /\ Top.old.list + NLists[Caller.scr] <= list_base
  BY <1>1, CallerFacts
<1>3. /\ stack \in Seq(Vals) /\ frame_base \in Nat /\ Len(stack) \in Nat
      /\ frame_base <= Len(stack) /\ Returns[Top.scr] \in BOOLEAN
  BY <1>1, TopFacts DEF TopFit
<1>4. StackKeptTo(frame_base)
  <2>1. kept \in Seq(Vals) /\ Len(kept) = frame_base
        /\ \A p \in 1 .. frame_base : kept[p] = stack[p]
    <3>1. frame_base \in 0 .. Len(stack)
      BY <1>3
    <3> QED
      BY <1>3, <3>1, Shortened, CutKept
  <2>2. value \in Seq(Vals) /\ Len(value) \in Nat
    <3>1. CASE Returns[Top.scr]
      <4>1. Len(stack) \in 1 .. Len(stack)
        BY <1>1, <1>3, <3>1
      <4>2. stack[Len(stack)] \in Vals
        BY <1>3, <4>1, ElementOfSeq
      <4>3. value = <<stack[Len(stack)]>>
        BY <3>1
      <4> HIDE DEF value
      <4> QED
        BY <4>2, <4>3
    <3>2. CASE ~Returns[Top.scr]
      BY <3>2
    <3> QED
      BY <1>3, <3>1, <3>2
  <2>3. stack' = kept \o value
    BY <1>1, <1>2
  <2> HIDE DEF kept, value
  <2>4. /\ Len(kept \o value) = Len(kept) + Len(value)
        /\ \A i \in 1 .. Len(kept) + Len(value) :
             (kept \o value)[i] = IF i <= Len(kept) THEN kept[i] ELSE value[i - Len(kept)]
    BY <2>1, <2>2, ConcatProperties, Zenon
  <2>5. frame_base <= Len(stack')
    BY <1>3, <2>1, <2>2, <2>3, <2>4
  <2>6. \A p \in 1 .. frame_base : p \in 1 .. Len(kept) + Len(value) /\ p <= Len(kept)
    BY <1>3, <2>1, <2>2
  <2>7. \A p \in 1 .. frame_base : stack'[p] = stack[p]
    BY <2>1, <2>3, <2>4, <2>6
  <2> QED
    BY <2>5, <2>7 DEF StackKeptTo
<1>5. ListsKeptTo(Top.old.list)
  <2>1. /\ list_base \in Nat /\ Len(lists) \in Nat /\ NLists[Top.scr] \in Nat
        /\ list_base + NLists[Top.scr] <= Len(lists)
    BY <1>1, TopFacts, OwnLists
  <2>2. Top.old.list <= Len(lists)
    BY <1>2, <2>1
  <2> QED
    BY <1>1, <2>2 DEF ListsKeptTo
<1> QED
  BY <1>1, <1>2, <1>4, <1>5, DropKeeps DEF Phases

LEMMA UnwindCalleeKeeps ==
  ASSUME SitesFresh, FrameInv, TypeOK', UnwindCallee
  PROVE  KeepsCallers
<1> DEFINE c == Caller.site
<1>1. /\ Len(frames) > 1
      /\ stack' = SubSeq(stack, 1, Top.old.size - NArgs[c.sub])
      /\ frame_base' = Top.old.frame /\ arg_base' = Top.old.arg
      /\ saved_base' = Top.old.saved /\ list_base' = Top.old.list
      /\ frames' = FramesAt(Len(frames) - 1, "row", NoSite)
      /\ args_stack' = args_stack /\ saved_stack' = saved_stack
      /\ lists' = DropListFrame(SwapBound(lists, c, Top.old.list), c)
  BY DEF UnwindCallee, Caught, Caller
<1>2. /\ frames # <<>> /\ Caller.scr \in Scripts /\ c \in Sites[Caller.scr]
      /\ c.sub = Top.scr /\ c.nlists = NLists[Top.scr]
      /\ frame_base = Top.old.size - NArgs[Top.scr]
      /\ Top.old.list \in Nat /\ NLists[Caller.scr] \in Nat
      /\ Top.old.list + NLists[Caller.scr] <= list_base
  BY <1>1, CallerFacts
<1>3. StackKeptTo(frame_base)
  <2>1. frame_base \in Nat /\ frame_base <= Len(stack)
    BY <1>2, TopFacts DEF TopFit
  <2> QED
    BY <1>1, <1>2, <2>1, CutStack
<1>4. ListsKeptTo(Top.old.list)
  <2>1. /\ list_base \in Nat /\ Len(lists) \in Nat /\ NLists[Top.scr] \in Nat
        /\ list_base + NLists[Top.scr] <= Len(lists) /\ lists \in Seq(Seq(Vals))
    BY <1>2, TopFacts, OwnLists
  <2>2. Top.old.list + NLists[Caller.scr] + c.nlists <= Len(lists)
    BY <1>2, <2>1
  <2> HIDE DEF c
  <2> QED
    BY <1>1, <1>2, <2>1, <2>2, CaughtKept
<1> QED
  BY <1>1, <1>3, <1>4, DropKeeps DEF Phases

-----------------------------------------------------------------------------
(* Every step *)

LEMMA NextKeeps ==
  ASSUME SitesFresh, FrameInv, FrameInv', [Next]_vars
  PROVE  [KeepsCallers]_vars
<1>1. TypeOK' /\ Len(frames') \in Nat /\ Len(frames) \in Nat
  <2>1. frames \in Seq(FrameType) /\ frames' \in Seq(FrameType) /\ TypeOK'
    BY DEF FrameInv, TypeOK
  <2> QED
    BY <2>1, LenProperties
<1>2. CASE Host
  <2>1. frames = <<>> /\ (frames' = <<>> \/ \E f : frames' = <<f>>)
    BY <1>2 DEF Host, CreateLists, HostSetArg, Clear, Process
  <2>3. Len(frames') <= 1
    <3>1. CASE frames' = <<>>
      BY <3>1, EmptySeq
    <3>2. ASSUME NEW f, frames' = <<f>>
          PROVE  Len(frames') <= 1
      BY <3>2
    <3> QED
      BY <2>1, <3>1, <3>2
  <2>2. Len(frames) <= 1
    BY <2>1, EmptySeq
  <2> QED
    BY <1>1, <2>2, <2>3, NobodyWaits
<1>3. CASE Row
  BY <1>1, <1>3, RowKeeps
<1>4. CASE CallSite
  <2>1. ASSUME NEW s \in Scripts, NEW c \in Sites[s], ListFrameEnter(c)
        PROVE  KeepsCallers
    BY <1>1, <2>1, ListFrameEnterKeeps
  <2>2. CASE SwapIn
    <3>1. frames # <<>> /\ Top.pc # "row"
      BY <2>2 DEF SwapIn, InPhase, Running
    <3> QED
      BY <1>1, <2>2, <3>1, SwapKeeps DEF SwapIn
  <2>3. CASE ExecuteScript
    BY <1>1, <2>3, ExecuteScriptKeeps
  <2>4. CASE ExecuteRefused
    BY <1>1, <2>4, ExecuteRefusedKeeps
  <2>5. CASE ExecuteTooDeep
    <3>1. /\ frames # <<>> /\ frames' = frames /\ stack' = stack /\ lists' = lists
          /\ args_stack' = args_stack /\ saved_stack' = saved_stack
      BY <2>5 DEF ExecuteTooDeep, InPhase, Running, stores
    <3> QED
      BY <1>1, <3>1, SameStack, SameLists, SameScalars, StillKept
  <2>6. CASE Return
    BY <1>1, <2>6, ReturnKeeps
  <2>7. CASE WriteBack
    BY <1>1, <2>7, WriteBackKeeps
  <2>8. CASE SwapOut
    <3>1. frames # <<>> /\ Top.pc # "row"
      BY <2>8 DEF SwapOut, InPhase, Running
    <3> QED
      BY <1>1, <2>8, <3>1, SwapKeeps DEF SwapOut
  <2>9. CASE ListFrameExit
    BY <1>1, <2>9, ListFrameExitKeeps
  <2> QED
    BY <1>4, <2>1, <2>2, <2>3, <2>4, <2>5, <2>6, <2>7, <2>8, <2>9 DEF CallSite
<1>5. CASE Finish \/ UnwindToHost
  <2>1. Len(frames) = 1 /\ frames' = <<>>
    BY <1>5 DEF Finish, UnwindToHost
  <2>2. Len(frames) <= 1 /\ Len(frames') <= 1
    BY <2>1, EmptySeq
  <2> QED
    BY <1>1, <2>2, NobodyWaits
<1>6. CASE UnwindCallee
  BY <1>1, <1>6, UnwindCalleeKeeps
<1>7. CASE UNCHANGED vars
  BY <1>7
<1> QED
  BY <1>2, <1>3, <1>4, <1>5, <1>6, <1>7 DEF Next, Unwind

(***************************************************************************)
(* THEOREM.  "A sub never clobbers the caller's slots and needs no         *)
(* snapshot": in every run of every program, no step of execute_script, of *)
(* its catch block or of the callee changes an argument, a saved value or  *)
(* an operand of a script that waits, nor a list below the callee's.       *)
(***************************************************************************)
THEOREM CallersAreKept == ASSUME SitesFresh PROVE Spec => CallersKept
<1>1. FrameInv /\ FrameInv' /\ [Next]_vars => [KeepsCallers]_vars
  BY NextKeeps
<1> QED
  BY <1>1, FramesLinked, PTL DEF Spec, CallersKept
=============================================================================
