------------------------- MODULE ExecuteFramesImpl -------------------------
(***************************************************************************)
(* ExecuteFrames keeps the promises of ScriptCalls: the refinement mapping *)
(* from the flat stores and base offsets to one environment per running    *)
(* script.                                                                 *)
(***************************************************************************)
EXTENDS ExecuteFrames

(***************************************************************************)
(* Where a list is.  A call site that has lent its bound lists has swapped *)
(* their contents with those of its callee's slots, and its callee may     *)
(* have lent them further.  A running script is a level of the vector of   *)
(* lists: how many lists it uses, where they begin, where its callee's     *)
(* begin, and which of its lists sit there.                                *)
(***************************************************************************)
Level(i) ==
  LET f == frames[i]
      level(top, bind) == [lists |-> NLists[f.scr], base |-> ListBase(i), top |-> top, bind |-> bind]
  IN  IF f.pc \in Lent
      THEN level(IF Innermost(i) THEN Len(lists) - f.site.nlists ELSE ListBase(i + 1), f.site.bind)
      ELSE level(ListBase(i) + NLists[f.scr], <<>>)

Levels == [i \in 1 .. Len(frames) |-> Level(i)]

\* The swaps of one level take the list in slot k (counted from one) there.
Swapped(v, k) ==
  IF \E l \in DOMAIN v.bind : k = v.top + l + 1
  THEN v.base + v.bind[CHOOSE l \in DOMAIN v.bind : k = v.top + l + 1] + 1
  ELSE IF \E l \in DOMAIN v.bind : k = v.base + v.bind[l] + 1
  THEN v.top + (CHOOSE l \in DOMAIN v.bind : k = v.base + v.bind[l] + 1) + 1
  ELSE k

\* Where the swaps of the first i levels have taken the list of slot k.
Place(levels) ==
  LET place[i \in 0 .. Len(levels)] ==
        [k \in Nat |-> IF i = 0 THEN k ELSE Swapped(levels[i], place[i - 1][k])]
  IN  place

\* The vector of lists with every swap undone.
Home(levels, ls) == [k \in DOMAIN ls |-> ls[Place(levels)[Len(levels)][k]]]

\* The references of the script at each level: a bound list is its caller's.
Refs(levels) ==
  LET refs[i \in 1 .. Len(levels)] ==
        [l \in Slots(levels[i].lists) |->
           IF i = 1 THEN <<0, l>>
           ELSE IF l \in DOMAIN levels[i - 1].bind THEN refs[i - 1][levels[i - 1].bind[l]]
           ELSE <<i, l>>]
  IN  refs

\* How many lists the host owns: those below the first list frame.
HostLists ==
  IF Len(frames) > 1 THEN ListBase(2)
  ELSE IF frames # <<>> /\ Top.pc \in ListFrameOpen THEN Len(lists) - Top.site.nlists
  ELSE Len(lists)

\* The lists frame i owns: the ones its call site did not bind.
OwnOf(i) ==
  IF i = 1 THEN <<>>
  ELSE [l \in Slots(NLists[frames[i].scr]) \ DOMAIN frames[i - 1].site.bind |->
          Home(Levels, lists)[ListBase(i) + l + 1]]

\* The operands of frame i end where the frame above begins.
OpsOf(i) ==
  SubSeq(stack, FrameBase(i) + 1,
         IF Innermost(i) THEN Len(stack) ELSE FrameBase(i + 1))

\* A returned call whose writebacks are still to run has, for its caller,
\* already happened.
Effective(i, kind, base, slots, n) ==
  LET written == IF Innermost(i) /\ frames[i].pc = "returned"
                 THEN WrittenBack(kind, base, slots) ELSE slots
  IN  [k \in Slots(n) |-> written[base + k]]

ArgsOf(i) == Effective(i, "arg", ArgBase(i), args_stack, NArgs[frames[i].scr])
SavedOf(i) == Effective(i, "saved", SavedBase(i), saved_stack, NSaved[frames[i].scr])

\* The call site that runs frame i.
RunBy(i) == IF i = 1 THEN NoSite ELSE frames[i - 1].site

EnvFrame(i) ==
  [scr   |-> frames[i].scr,
   args  |-> ArgsOf(i),
   saved |-> SavedOf(i),
   ref   |-> Refs(Levels)[i],
   own   |-> OwnOf(i),
   ops   |-> OpsOf(i),
   site  |-> RunBy(i)]

\* An exception on its way to the host has abandoned the run.
Env == IF throwing THEN <<>> ELSE [i \in 1 .. Len(frames) |-> EnvFrame(i)]
HostContents == [k \in 1 .. HostLists |-> Home(Levels, lists)[k]]
Result == IF Len(frames) > 1 THEN frames[2].old.ret ELSE return_value

Calls == INSTANCE ScriptCalls WITH env <- Env, host <- HostContents, result <- Result

(***************************************************************************)
(* PROPERTY.  Whatever rows the scripts run and wherever an exception is   *)
(* thrown, a run behaves as the one with private environments: `execute`   *)
(* never lets one script see or change a slot of another except through    *)
(* the bound lists and, on return, the in/out scalars.                     *)
(***************************************************************************)
CallsIsolated == Calls!Spec
-----------------------------------------------------------------------------

(***************************************************************************)
(* INVARIANT.  What the mapping rests on: above the host's lists the list  *)
(* frames lie gapless up to the end of the vector, so that the offsets the *)
(* swaps count from that end name the callee's slots; a callee finds the   *)
(* lists it was not given empty; and an exception leaves a script with no  *)
(* list frame open.                                                        *)
(***************************************************************************)
Gapless ==
  /\ \A i \in 2 .. Len(frames) - 1 : ListBase(i + 1) = ListBase(i) + NLists[frames[i].scr]
  /\ Len(frames) > 1 => Len(lists) = list_base + NLists[Top.scr] + OpenLists

UngivenAreEmpty ==
  frames # <<>> /\ Top.pc \in {"entered", "swapped"} =>
    \A l \in Slots(Top.site.nlists) \ DOMAIN Top.site.bind :
      lists[Len(lists) - Top.site.nlists + l + 1] = <<>>

ThrowsFromRow == throwing => Top.pc = "row" \/ (Top.pc = "swapped" /\ Top.site.nlists = 0)

ListFrameInv == Gapless /\ UngivenAreEmpty /\ ThrowsFromRow

\* The depth limit is not met with a list frame open: execute_script checks it
\* before the try block whose handler would swap back and drop the frame.
TooDeepHarmless == InPhase("swapped") /\ execute_depth >= MaxDepth => Top.site.nlists = 0

(***************************************************************************)
(* ACTION PROPERTY.  While an exception leaves the frames of `execute`,    *)
(* the host's lists, wherever the swaps have put them, keep their contents *)
(* and their number: completed list mutations are retained.                *)
(***************************************************************************)
MutationsRetained == [][throwing => HostContents' = HostContents]_vars
=============================================================================
