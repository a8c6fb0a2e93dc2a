--------------------------- MODULE ExecuteFrames ---------------------------
(***************************************************************************)
(* The run-time context of devils_script and the script-in-script call.    *)
(*                                                                         *)
(* A context holds four flat stores: the operand stack, the argument       *)
(* slots, the saved-value slots and the vector of lists.  A script is      *)
(* compiled to zero-based indices; `execute` stacks the frame of the       *)
(* callee above the caller's by moving four base offsets, and runs the     *)
(* callee by a nested call of process().  A call site compiles to          *)
(*                                                                         *)
(*   list_frame_enter  swap*  execute  writeback*  swap*  list_frame_exit  *)
(*                                                                         *)
(* and execute_script's catch block replays the tail of that sequence when *)
(* the callee throws.  Every phase of a call site is an action here, and   *)
(* so is every C++ frame an exception leaves.  What a script does between  *)
(* two calls is left open: it may run any row its shape allows.            *)
(***************************************************************************)
EXTENDS Integers, Sequences

CONSTANTS
  Scripts,     \* compiled scripts (script_container objects)
  Roots,       \* the ones the host runs itself
  NArgs,       \* [Scripts -> Nat]: args.size()
  NSaved,      \* [Scripts -> Nat]: saved.size()
  NLists,      \* [Scripts -> Nat]: lists.size()
  MaxStack,    \* [Scripts -> Nat]: max_stack, the compiled operand peak
  MaxSaved,    \* [Scripts -> Nat]: max_saved, the compiled saved-value peak
  Returns,     \* [Scripts -> BOOLEAN]: FALSE when return_type is void
  Sites,       \* [Scripts -> SUBSET SiteType]: its `execute` nodes
  Vals,        \* values
  Unset,       \* a slot whose type is empty
  ArgSlots,    \* context::script_arguments_size
  SavedSlots,  \* capacity of saved_stack
  StackSlots,  \* capacity of stack
  MaxDepth,    \* context::max_execute_depth
  MaxLen       \* bound of the model: longest list a row may build

Slots(n) == 0 .. n - 1

NoSite == [sub |-> "none"]

(***************************************************************************)
(* An `execute` node after compilation: the callee, how many list slots it *)
(* had when the node was compiled, the bound lists (callee slot -> caller  *)
(* slot) and the in/out scalars (callee argument -> caller slot).          *)
(***************************************************************************)
SiteOf(s, c) ==
  /\ c.sub \in Scripts
  /\ c.nlists \in Nat
  /\ DOMAIN c.bind \subseteq Slots(c.nlists)
  /\ \A l \in DOMAIN c.bind : c.bind[l] \in Slots(NLists[s])
  /\ \A l, m \in DOMAIN c.bind : c.bind[l] = c.bind[m] => l = m
  /\ DOMAIN c.out \subseteq Slots(NArgs[c.sub])
  /\ \A a \in DOMAIN c.out :
       c.out[a] \in ({"arg"} \X Slots(NArgs[s])) \union ({"saved"} \X Slots(NSaved[s]))

ASSUME ShapesAssumption ==
  /\ Roots \subseteq Scripts
  /\ NArgs \in [Scripts -> Nat]
  /\ NSaved \in [Scripts -> Nat]
  /\ NLists \in [Scripts -> Nat]
  /\ MaxStack \in [Scripts -> Nat]
  /\ MaxSaved \in [Scripts -> Nat]
  /\ Returns \in [Scripts -> BOOLEAN]
  /\ DOMAIN Sites = Scripts
  /\ \A s \in Scripts : \A c \in Sites[s] : SiteOf(s, c)

\* The compiler rejects a script whose own argument slots or saved values
\* exceed a context's (parse_context's max_args, max_saved_values).
ASSUME LimitsAssumption ==
  /\ ArgSlots \in Nat /\ SavedSlots \in Nat /\ StackSlots \in Nat
  /\ MaxDepth \in Nat /\ MaxLen \in Nat
  /\ \A s \in Scripts : NArgs[s] <= ArgSlots /\ NSaved[s] <= MaxSaved[s]

ASSUME UnsetAssumption == Unset \notin Vals

\* No call site was compiled against an earlier shape of its callee.
SitesFresh == \A s \in Scripts : \A c \in Sites[s] : c.nlists = NLists[c.sub]

VARIABLES
  frames,         \* the nested process() calls, the innermost last
  throwing,       \* an exception is on its way to the host
  stack,          \* ctx->stack
  args_stack,     \* ctx->args_stack
  saved_stack,    \* ctx->saved_stack
  lists,          \* ctx->lists
  frame_base, arg_base, saved_base, list_base,
  execute_depth,
  return_value    \* ctx->_return_value

stores == <<stack, args_stack, saved_stack, lists>>
bases == <<frame_base, arg_base, saved_base, list_base>>
vars == <<frames, throwing, stores, bases, execute_depth, return_value>>

(***************************************************************************)
(* A frame: the script, the phase its current row has reached, the call    *)
(* site it is in, and what execute_script keeps in locals for its caller   *)
(* (old).  Phases of a call site, named for the last opcode that ran.      *)
(***************************************************************************)
Phases == {"row", "entered", "swapped", "called", "returned", "written", "unswapped"}

\* The callee's list frame exists / the bound lists sit in it.
ListFrameOpen == Phases \ {"row"}
Lent == {"swapped", "called", "returned", "written"}

NoOld == [frame |-> 0, arg |-> 0, saved |-> 0, list |-> 0, size |-> 0, ret |-> Unset]

Top == frames[Len(frames)]
Caller == frames[Len(frames) - 1]

Moved(f, pc, c) == [f EXCEPT !.pc = pc, !.site = c]

\* Frames 1 to i, the last of them at phase pc of site c.
FramesAt(i, pc, c) ==
  [k \in 1 .. i |-> IF k = i THEN Moved(frames[i], pc, c) ELSE frames[k]]

\* The innermost frame moves to phase pc of site c.
Reach(pc, c) == frames' = FramesAt(Len(frames), pc, c)

Running == frames # <<>> /\ ~throwing
InRow == Running /\ Top.pc = "row"
InPhase(p) == Running /\ Top.pc = p

Init ==
  /\ frames = <<>>
  /\ throwing = FALSE
  /\ stack = <<>>
  /\ args_stack = [k \in Slots(ArgSlots) |-> Unset]
  /\ saved_stack = [k \in Slots(SavedSlots) |-> Unset]
  /\ lists = <<>>
  /\ frame_base = 0 /\ arg_base = 0 /\ saved_base = 0 /\ list_base = 0
  /\ execute_depth = 0
  /\ return_value = Unset

-----------------------------------------------------------------------------
(* The host, between runs.  It never resets a context it reuses unless it   *)
(* calls Clear or CreateLists.                                              *)

CreateLists(s) ==
  /\ frames = <<>>
  /\ lists' = [k \in 1 .. NLists[s] |-> <<>>]
  /\ UNCHANGED <<frames, throwing, stack, args_stack, saved_stack, bases, execute_depth, return_value>>

HostSetArg(k, v) ==
  /\ frames = <<>>
  /\ args_stack' = [args_stack EXCEPT ![k] = v]
  /\ UNCHANGED <<frames, throwing, stack, saved_stack, lists, bases, execute_depth, return_value>>

Clear ==
  /\ frames = <<>>
  /\ stack' = <<>>
  /\ saved_stack' = [k \in Slots(SavedSlots) |-> Unset]
  /\ frame_base' = 0 /\ arg_base' = 0 /\ saved_base' = 0 /\ list_base' = 0
  /\ execute_depth' = 0
  /\ return_value' = Unset
  /\ UNCHANGED <<frames, throwing, args_stack, lists>>

\* Bug: the operand peak is not checked.
ContextFitsNoStackCheck(s, fbase, sbase, lbase) ==
  /\ sbase + MaxSaved[s] <= SavedSlots
  /\ NLists[s] > 0 => lbase + NLists[s] <= Len(lists)

\* process()'s checks of the context against the script's compiled peaks.
ContextFits(s, fbase, sbase, lbase) ==
  /\ fbase + MaxStack[s] <= StackSlots
  /\ sbase + MaxSaved[s] <= SavedSlots
  /\ NLists[s] > 0 => lbase + NLists[s] <= Len(lists)

\* A top-level process(): one that fails its checks changes nothing.
Process(s) ==
  /\ frames = <<>>
  /\ ContextFits(s, frame_base, saved_base, list_base)
  /\ frames' = <<[scr |-> s, pc |-> "row", site |-> NoSite, old |-> NoOld]>>
  /\ stack' = <<>>
  /\ UNCHANGED <<throwing, args_stack, saved_stack, lists, bases, execute_depth, return_value>>

-----------------------------------------------------------------------------
(* Rows of the running script.  Indices are the script's own, shifted by    *)
(* the bases.                                                               *)

\* Bug: the peak is counted one short.
OperandRoomOffByOne(n) == Len(stack) + n <= frame_base + MaxStack[Top.scr] + 1

\* The compiler counts the operand peak, so no row passes max_stack.
OperandRoom(n) == Len(stack) + n <= frame_base + MaxStack[Top.scr]

PushOperand(v) ==
  /\ InRow
  /\ OperandRoom(1)
  /\ stack' = Append(stack, v)
  /\ UNCHANGED <<frames, throwing, args_stack, saved_stack, lists, bases, execute_depth, return_value>>

PopOperand ==
  /\ InRow
  /\ Len(stack) > frame_base
  /\ stack' = SubSeq(stack, 1, Len(stack) - 1)
  /\ UNCHANGED <<frames, throwing, args_stack, saved_stack, lists, bases, execute_depth, return_value>>

\* The operand a store instruction takes: the r-value form pops the one on
\* top, the l-value form copies the operand at index i of the frame.
Stored(i) ==
  /\ i \in frame_base + 1 .. Len(stack)
  /\ \/ UNCHANGED stack
     \/ i = Len(stack) /\ stack' = SubSeq(stack, 1, i - 1)

\* ctx_set: setarglvalue, setargrvalue
SetArgument(k, i) ==
  /\ InRow
  /\ k < NArgs[Top.scr]
  /\ Stored(i)
  /\ args_stack' = [args_stack EXCEPT ![k + arg_base] = stack[i]]
  /\ UNCHANGED <<frames, throwing, saved_stack, lists, bases, execute_depth, return_value>>

\* Bug: the index is not shifted to the frame.
SetSavedAbsolute(k, i) ==
  /\ InRow
  /\ k < NSaved[Top.scr]
  /\ Stored(i)
  /\ saved_stack' = [saved_stack EXCEPT ![k] = stack[i]]
  /\ UNCHANGED <<frames, throwing, args_stack, lists, bases, execute_depth, return_value>>

\* ctx_save: savectxlvalue, savectxrvalue
SetSaved(k, i) ==
  /\ InRow
  /\ k < NSaved[Top.scr]
  /\ Stored(i)
  /\ saved_stack' = [saved_stack EXCEPT ![k + saved_base] = stack[i]]
  /\ UNCHANGED <<frames, throwing, args_stack, lists, bases, execute_depth, return_value>>

\* ctx:list:l = { add_to = v }
AddTo(l, v) ==
  /\ InRow
  /\ l < NLists[Top.scr]
  /\ Len(lists[l + list_base + 1]) < MaxLen
  /\ lists' = [lists EXCEPT ![l + list_base + 1] = Append(@, v)]
  /\ UNCHANGED <<frames, throwing, stack, args_stack, saved_stack, bases, execute_depth, return_value>>

\* ctx:list:l = { clear }
ClearList(l) ==
  /\ InRow
  /\ l < NLists[Top.scr]
  /\ lists' = [lists EXCEPT ![l + list_base + 1] = <<>>]
  /\ UNCHANGED <<frames, throwing, stack, args_stack, saved_stack, bases, execute_depth, return_value>>

\* A host function, a type check, an assert of the script throws.
Throw ==
  /\ InRow
  /\ throwing' = TRUE
  /\ UNCHANGED <<frames, stores, bases, execute_depth, return_value>>

-----------------------------------------------------------------------------
(* A call site                                                              *)

\* The arguments are on the stack top; the result must fit once they are gone.
ListFrameEnter(c) ==
  /\ InRow
  /\ c \in Sites[Top.scr]
  /\ Len(stack) - NArgs[c.sub] >= frame_base
  /\ Returns[c.sub] => OperandRoom(1 - NArgs[c.sub])
  /\ lists' = lists \o [k \in 1 .. c.nlists |-> <<>>]
  /\ Reach("entered", c)
  /\ UNCHANGED <<throwing, stack, args_stack, saved_stack, bases, execute_depth, return_value>>

\* The swap_bound_list opcodes of site c, run with the caller's list base.
\* The callee's slot is counted from the END of the vector (top_off).
SwapBound(ls, c, base) ==
  LET callee(l) == Len(ls) - c.nlists + l + 1
      caller(l) == c.bind[l] + base + 1
  IN  [k \in DOMAIN ls |->
         IF \E l \in DOMAIN c.bind : k = callee(l)
         THEN ls[caller(CHOOSE l \in DOMAIN c.bind : k = callee(l))]
         ELSE IF \E l \in DOMAIN c.bind : k = caller(l)
         THEN ls[callee(CHOOSE l \in DOMAIN c.bind : k = caller(l))]
         ELSE ls[k]]

\* Bug: one list is dropped, however many were opened.
DropOneList(ls, c) == SubSeq(ls, 1, Len(ls) - 1)

DropListFrame(ls, c) == SubSeq(ls, 1, Len(ls) - c.nlists)

SwapIn ==
  /\ InPhase("entered")
  /\ lists' = SwapBound(lists, Top.site, list_base)
  /\ Reach("swapped", Top.site)
  /\ UNCHANGED <<throwing, stack, args_stack, saved_stack, bases, execute_depth, return_value>>

\* Bug: the callee's arguments go where the caller's are.
SharedArgBase == arg_base

\* Where execute_script puts the callee's frame.
CalleeArgBase == arg_base + NArgs[Top.scr]
CalleeSavedBase == saved_base + NSaved[Top.scr]
CalleeListBase == Len(lists) - NLists[Top.site.sub]
CalleeFrameBase == Len(stack) - NArgs[Top.site.sub]

\* The checks execute_script makes before it writes anything, inside its try.
SlotsFit(sub) ==
  /\ CalleeArgBase + NArgs[sub] <= ArgSlots
  /\ CalleeSavedBase + NSaved[sub] <= SavedSlots

\* The arguments move from the stack top to the callee's argument frame; its
\* saved slots lose their types.
ArgsMoved(sub) ==
  [k \in DOMAIN args_stack |->
     IF k - CalleeArgBase \in Slots(NArgs[sub])
     THEN stack[CalleeFrameBase + (k - CalleeArgBase) + 1]
     ELSE args_stack[k]]

\* Bug: the callee sees what an earlier call left.
SavedStale(sub) == saved_stack

SavedFresh(sub) ==
  [k \in DOMAIN saved_stack |->
     IF k - CalleeSavedBase \in Slots(NSaved[sub]) THEN Unset ELSE saved_stack[k]]

Old == [frame |-> frame_base, arg |-> arg_base, saved |-> saved_base, list |-> list_base,
        size |-> Len(stack), ret |-> return_value]

CalleeFits(sub) == ContextFits(sub, CalleeFrameBase, CalleeSavedBase, CalleeListBase)

ExecuteScript ==
  /\ InPhase("swapped")
  /\ execute_depth < MaxDepth
  /\ LET sub == Top.site.sub
     IN  /\ SlotsFit(sub)
         /\ CalleeFits(sub)
         /\ args_stack' = ArgsMoved(sub)
         /\ saved_stack' = SavedFresh(sub)
         /\ stack' = SubSeq(stack, 1, CalleeFrameBase)
         /\ frame_base' = CalleeFrameBase
         /\ arg_base' = CalleeArgBase
         /\ saved_base' = CalleeSavedBase
         /\ list_base' = CalleeListBase
         /\ frames' = Append(FramesAt(Len(frames), "called", Top.site),
                             [scr |-> sub, pc |-> "row", site |-> NoSite, old |-> Old])
  /\ execute_depth' = execute_depth + 1
  /\ UNCHANGED <<throwing, lists, return_value>>

\* Bug: the catch block drops the list frame without swapping back first.
CaughtWithoutSwaps(i, old) ==
  LET c == frames[i].site
  IN  /\ frames' = FramesAt(i, "row", NoSite)
      /\ stack' = SubSeq(stack, 1, old.size - NArgs[c.sub])
      /\ frame_base' = old.frame
      /\ arg_base' = old.arg
      /\ saved_base' = old.saved
      /\ list_base' = old.list
      /\ return_value' = old.ret
      /\ lists' = DropListFrame(lists, c)

\* Bug: it swaps back but leaves the list frame on the vector.
CaughtKeepingFrame(i, old) ==
  LET c == frames[i].site
  IN  /\ frames' = FramesAt(i, "row", NoSite)
      /\ stack' = SubSeq(stack, 1, old.size - NArgs[c.sub])
      /\ frame_base' = old.frame
      /\ arg_base' = old.arg
      /\ saved_base' = old.saved
      /\ list_base' = old.list
      /\ return_value' = old.ret
      /\ lists' = SwapBound(lists, c, old.list)

\* The catch block of execute_script, for the caller at index i of frames
\* whose locals are old: bases and return value from the locals, arguments
\* off the stack, then the rest of the call site replayed without its
\* writebacks.
Caught(i, old) ==
  LET c == frames[i].site
  IN  /\ frames' = FramesAt(i, "row", NoSite)
      /\ stack' = SubSeq(stack, 1, old.size - NArgs[c.sub])
      /\ frame_base' = old.frame
      /\ arg_base' = old.arg
      /\ saved_base' = old.saved
      /\ list_base' = old.list
      /\ return_value' = old.ret
      /\ lists' = DropListFrame(SwapBound(lists, c, old.list), c)

\* The entry is refused inside the try block: by execute_script itself, or,
\* with the callee's slots already written, by the callee's process().
ExecuteRefused ==
  /\ InPhase("swapped")
  /\ execute_depth < MaxDepth
  /\ LET sub == Top.site.sub
     IN  \/ /\ ~SlotsFit(sub)
            /\ UNCHANGED <<args_stack, saved_stack>>
         \/ /\ SlotsFit(sub)
            /\ ~CalleeFits(sub)
            /\ args_stack' = ArgsMoved(sub)
            /\ saved_stack' = SavedFresh(sub)
  /\ Caught(Len(frames), Old)
  /\ throwing' = TRUE
  /\ UNCHANGED execute_depth

\* The depth limit is checked BEFORE the try block: its catch does not run.
ExecuteTooDeep ==
  /\ InPhase("swapped")
  /\ execute_depth >= MaxDepth
  /\ throwing' = TRUE
  /\ UNCHANGED <<frames, stores, bases, execute_depth, return_value>>

\* The callee's last row (pushreturn, unless it is void) and the rest of
\* execute_script.  The argument slots are left for the writebacks.
Return ==
  /\ InRow
  /\ Len(frames) > 1
  /\ Returns[Top.scr] => Len(stack) > frame_base
  /\ LET old == Top.old
         base == old.size - NArgs[Top.scr]
         value == IF Returns[Top.scr] THEN <<stack[Len(stack)]>> ELSE <<>>
     IN  /\ stack' = SubSeq(stack, 1, base) \o value
         /\ frame_base' = old.frame
         /\ arg_base' = old.arg
         /\ saved_base' = old.saved
         /\ list_base' = old.list
         /\ return_value' = old.ret
         /\ frames' = FramesAt(Len(frames) - 1, "returned", Caller.site)
  /\ execute_depth' = execute_depth - 1
  /\ UNCHANGED <<throwing, args_stack, saved_stack, lists>>

\* The last row of the outermost script.
Finish ==
  /\ InRow
  /\ Len(frames) = 1
  /\ Returns[Top.scr] => Len(stack) > frame_base
  /\ IF Returns[Top.scr]
     THEN /\ return_value' = stack[Len(stack)]
          /\ stack' = SubSeq(stack, 1, Len(stack) - 1)
     ELSE UNCHANGED <<return_value, stack>>
  /\ frames' = <<>>
  /\ UNCHANGED <<throwing, args_stack, saved_stack, lists, bases, execute_depth>>

\* writeback_arg_to_arg, writeback_arg_to_saved, in argument order: of two
\* arguments bound to one caller slot the later is kept.
WrittenBack(kind, base, slots) ==
  LET c == Top.site
      from(k) == {a \in DOMAIN c.out :
                    /\ c.out[a] = <<kind, k - base>>
                    /\ \A b \in DOMAIN c.out : c.out[b] = c.out[a] => b <= a}
  IN  [k \in DOMAIN slots |->
         IF from(k) = {} THEN slots[k]
         ELSE args_stack[CalleeArgBase + CHOOSE a \in from(k) : TRUE]]

WriteBack ==
  /\ InPhase("returned")
  /\ args_stack' = WrittenBack("arg", arg_base, args_stack)
  /\ saved_stack' = WrittenBack("saved", saved_base, saved_stack)
  /\ Reach("written", Top.site)
  /\ UNCHANGED <<throwing, stack, lists, bases, execute_depth, return_value>>

SwapOut ==
  /\ InPhase("written")
  /\ lists' = SwapBound(lists, Top.site, list_base)
  /\ Reach("unswapped", Top.site)
  /\ UNCHANGED <<throwing, stack, args_stack, saved_stack, bases, execute_depth, return_value>>

ListFrameExit ==
  /\ InPhase("unswapped")
  /\ lists' = DropListFrame(lists, Top.site)
  /\ Reach("row", NoSite)
  /\ UNCHANGED <<throwing, stack, args_stack, saved_stack, bases, execute_depth, return_value>>

-----------------------------------------------------------------------------
(* An exception leaves one C++ frame per step.                              *)

\* Bug: an exception leaves the depth count behind.
UnwindCalleeLeakingDepth ==
  /\ throwing
  /\ Len(frames) > 1
  /\ Caught(Len(frames) - 1, Top.old)
  /\ UNCHANGED <<throwing, args_stack, saved_stack, execute_depth>>

UnwindCallee ==
  /\ throwing
  /\ Len(frames) > 1
  /\ Caught(Len(frames) - 1, Top.old)
  /\ execute_depth' = execute_depth - 1
  /\ UNCHANGED <<throwing, args_stack, saved_stack>>

\* process() has no catch: the host sees the exception.
UnwindToHost ==
  /\ throwing
  /\ Len(frames) = 1
  /\ throwing' = FALSE
  /\ frames' = <<>>
  /\ UNCHANGED <<stores, bases, execute_depth, return_value>>

-----------------------------------------------------------------------------

Host ==
  \/ \E s \in Roots : CreateLists(s) \/ Process(s)
  \/ \E k \in Slots(ArgSlots), v \in Vals : HostSetArg(k, v)
  \/ Clear

Row ==
  \/ \E v \in Vals : PushOperand(v)
  \/ PopOperand
  \/ \E k \in Slots(ArgSlots), i \in 1 .. StackSlots : SetArgument(k, i)
  \/ \E k \in Slots(SavedSlots), i \in 1 .. StackSlots : SetSaved(k, i)
  \/ \E s \in Scripts : \E l \in Slots(NLists[s]) :
       ClearList(l) \/ \E v \in Vals : AddTo(l, v)
  \/ Throw

CallSite ==
  \/ \E s \in Scripts : \E c \in Sites[s] : ListFrameEnter(c)
  \/ SwapIn
  \/ ExecuteScript
  \/ ExecuteRefused
  \/ ExecuteTooDeep
  \/ Return
  \/ WriteBack
  \/ SwapOut
  \/ ListFrameExit

Unwind == UnwindCallee \/ UnwindToHost

Next == Host \/ Row \/ CallSite \/ Finish \/ Unwind

Spec == Init /\ [][Next]_vars

-----------------------------------------------------------------------------

SlotVals == Vals \union {Unset}
AllSites == UNION {Sites[s] : s \in Scripts}
OldType == [frame : Nat, arg : Nat, saved : Nat, list : Nat, size : Nat, ret : SlotVals]
FrameType == [scr : Scripts, pc : Phases, site : AllSites \union {NoSite}, old : OldType]

(***************************************************************************)
(* The variables have their types, and the operand stack never outgrows    *)
(* its storage.                                                            *)
(***************************************************************************)
TypeOK ==
  /\ frames \in Seq(FrameType)
  /\ throwing \in BOOLEAN
  /\ stack \in Seq(Vals)
  /\ Len(stack) <= StackSlots
  /\ args_stack \in [Slots(ArgSlots) -> SlotVals]
  /\ saved_stack \in [Slots(SavedSlots) -> SlotVals]
  /\ lists \in Seq(Seq(Vals))
  /\ frame_base \in Nat /\ arg_base \in Nat /\ saved_base \in Nat /\ list_base \in Nat
  /\ execute_depth \in Nat
  /\ return_value \in SlotVals

(***************************************************************************)
(* The bases of frame i: the context's for the innermost frame, the locals *)
(* of the next execute_script for the others.                              *)
(***************************************************************************)
Innermost(i) == i = Len(frames)
FrameBase(i) == IF Innermost(i) THEN frame_base ELSE frames[i + 1].old.frame
ArgBase(i) == IF Innermost(i) THEN arg_base ELSE frames[i + 1].old.arg
SavedBase(i) == IF Innermost(i) THEN saved_base ELSE frames[i + 1].old.saved
ListBase(i) == IF Innermost(i) THEN list_base ELSE frames[i + 1].old.list

\* The slots frame i was compiled to use end where frame j begins or before.
Below(i, j) ==
  LET s == frames[i].scr
  IN  /\ FrameBase(i) <= FrameBase(j)
      /\ ArgBase(i) + NArgs[s] <= ArgBase(j)
      /\ SavedBase(i) + NSaved[s] <= SavedBase(j)
      /\ ListBase(i) + NLists[s] <= ListBase(j)

\* They lie inside the stores.
Inside(i) ==
  LET s == frames[i].scr
  IN  /\ FrameBase(i) <= Len(stack)
      /\ ArgBase(i) + NArgs[s] <= ArgSlots
      /\ SavedBase(i) + NSaved[s] <= SavedSlots
      /\ ListBase(i) + NLists[s] <= Len(lists)

(***************************************************************************)
(* INVARIANT.  At every moment, an exception in flight included, the       *)
(* argument, saved-value and list slots every running script was compiled  *)
(* to use lie inside the stores, and no two running scripts share one.     *)
(***************************************************************************)
FramesDisjoint ==
  \A i \in 1 .. Len(frames) : Inside(i) /\ \A j \in i + 1 .. Len(frames) : Below(i, j)

(***************************************************************************)
(* INVARIANT.  A context no script runs on is ready for the next run,      *)
(* however the last one ended: its bases and its depth are back to zero    *)
(* (process() does not reset them), and a running chain of n scripts has   *)
(* counted n - 1 executes.                                                 *)
(***************************************************************************)
ContextReusable ==
  /\ frames = <<>> => /\ ~throwing
                      /\ execute_depth = 0
                      /\ frame_base = 0 /\ arg_base = 0 /\ saved_base = 0 /\ list_base = 0
  /\ frames # <<>> => execute_depth = Len(frames) - 1

\* While frame i waits for the frame above it: its operands, and all lists
\* up to its callee's; its arguments and saved values.
OperandsKept(i) ==
  /\ FrameBase(i + 1) <= Len(stack')
  /\ \A p \in 1 .. FrameBase(i + 1) : stack'[p] = stack[p]

ListsKept(i) ==
  /\ ListBase(i + 1) <= Len(lists')
  /\ \A p \in 1 .. ListBase(i + 1) : lists'[p] = lists[p]

ScalarsKept(i) ==
  /\ \A k \in Slots(NArgs[frames[i].scr]) :
       args_stack'[ArgBase(i) + k] = args_stack[ArgBase(i) + k]
  /\ \A k \in Slots(NSaved[frames[i].scr]) :
       saved_stack'[SavedBase(i) + k] = saved_stack[SavedBase(i) + k]

\* No step changes anything that belongs to a frame that waits.
KeepsCallers ==
  \A i \in 1 .. Len(frames) :
    /\ i < Len(frames) => OperandsKept(i)
    /\ i < Len(frames) /\ i < Len(frames') => ListsKept(i)
    /\ i < Len(frames) \/ i < Len(frames') => ScalarsKept(i)

(***************************************************************************)
(* ACTION PROPERTY.  "A sub never clobbers the caller's slots and needs no *)
(* snapshot": from the step that enters a callee to the one that leaves    *)
(* it, none changes an argument, a saved value or an operand of a script   *)
(* that waits; lists move only in the step that leaves, to swap back.      *)
(***************************************************************************)
CallersKept == [][KeepsCallers]_vars

-----------------------------------------------------------------------------
(* Why the frames stay disjoint: what each running script and each pair of  *)
(* neighbours keep, and what the phase of the innermost one guarantees.     *)

\* Frame i has, by its bases, the room it was compiled for.
Fit(i) ==
  LET s == frames[i].scr
  IN  /\ FrameBase(i) + MaxStack[s] <= StackSlots
      /\ ArgBase(i) + NArgs[s] <= ArgSlots
      /\ SavedBase(i) + NSaved[s] <= SavedSlots

\* Frame i waits in its call site for frame i + 1, which begins where it
\* ends, and whose result will find room on its operand stack.
Link(i) ==
  LET s == frames[i].scr
      c == frames[i].site
      t == frames[i + 1].scr
  IN  /\ frames[i].pc = "called"
      /\ c \in Sites[s]
      /\ t = c.sub
      /\ FrameBase(i + 1) = frames[i + 1].old.size - NArgs[t]
      /\ ArgBase(i + 1) = ArgBase(i) + NArgs[s]
      /\ SavedBase(i + 1) = SavedBase(i) + NSaved[s]
      /\ Returns[t] => FrameBase(i + 1) + 1 <= FrameBase(i) + MaxStack[s]

\* The list slots the innermost call site has open above its own.
OpenLists == IF Top.pc = "row" THEN 0 ELSE Top.site.nlists

TopFit ==
  LET s == Top.scr
      sub == Top.site.sub
  IN  /\ Top.pc # "called"
      /\ Top.pc # "row" => Top.site \in Sites[s]
      /\ frame_base <= Len(stack)
      /\ list_base + NLists[s] + OpenLists <= Len(lists)
      /\ Top.pc \in {"entered", "swapped"} =>
           /\ frame_base <= Len(stack) - NArgs[sub]
           /\ Returns[sub] => Len(stack) - NArgs[sub] + 1 <= frame_base + MaxStack[s]
      /\ Top.pc = "returned" => arg_base + NArgs[s] + NArgs[sub] <= ArgSlots

AllFit == \A i \in 1 .. Len(frames) : Fit(i)
AllLinked == \A i \in 1 .. Len(frames) - 1 : Link(i)
AllBelow == \A i \in 1 .. Len(frames), j \in 1 .. Len(frames) : i < j => Below(i, j)

\* The outermost script runs at base zero.
Grounded ==
  frames # <<>> => /\ FrameBase(1) = 0 /\ ArgBase(1) = 0
                   /\ SavedBase(1) = 0 /\ ListBase(1) = 0

(***************************************************************************)
(* INVARIANT.  The inductive invariant behind FramesDisjoint and           *)
(* ContextReusable.                                                        *)
(***************************************************************************)
FrameInv ==
  /\ TypeOK
  /\ ContextReusable
  /\ Grounded
  /\ AllFit
  /\ AllLinked
  /\ AllBelow
  /\ frames # <<>> => TopFit
=============================================================================
