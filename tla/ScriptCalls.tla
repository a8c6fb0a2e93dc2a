---------------------------- MODULE ScriptCalls ----------------------------
(***************************************************************************)
(* What a script-in-script call (`execute`) promises, with no storage in   *)
(* sight.                                                                  *)
(*                                                                         *)
(*   - every running script owns its arguments, its saved values, its      *)
(*     lists and its operands: nobody else reads or writes them;           *)
(*   - arguments are passed by value, and the ones the call site marks     *)
(*     in/out are copied back when, and only when, the callee returns;     *)
(*   - a list the call site binds is passed by REFERENCE: the callee works *)
(*     on the caller's list itself, so what it did to the list stays done  *)
(*     even when the run is abandoned by an error;                         *)
(*   - an error abandons the whole run; the host keeps its lists and the   *)
(*     last return value.                                                  *)
(*                                                                         *)
(* ExecuteFrames implements this with four flat arrays and base offsets.   *)
(***************************************************************************)
EXTENDS Integers, Sequences, FiniteSetsExt

CONSTANTS
  Scripts,   \* compiled scripts
  NArgs,     \* [Scripts -> Nat]: argument slots of a script
  NSaved,    \* [Scripts -> Nat]: saved-value slots
  NLists,    \* [Scripts -> Nat]: list slots
  Returns,   \* [Scripts -> BOOLEAN]: FALSE for a void script
  Sites,     \* [Scripts -> call sites]: the `execute` nodes of a script
  Vals,      \* the values of a slot
  Unset      \* the content of a slot nobody has written

VARIABLES
  env,       \* the running scripts, the innermost last
  host,      \* the host's lists, which the outermost script works on
  result     \* the value the last completed run returned

vars == <<env, host, result>>

NoSite == [sub |-> "none"]

Top == env[Len(env)]

\* A list of a running script is a reference: <<0, k>> is the host's list k,
\* <<d, l>> with d > 0 is list l owned by the script running at depth d.
Contents(ref) == IF ref[1] = 0 THEN host[ref[2] + 1] ELSE env[ref[1]].own[ref[2]]

SetContents(ref, list) ==
  IF ref[1] = 0
  THEN /\ host' = [host EXCEPT ![ref[2] + 1] = list]
       /\ env' = env
  ELSE /\ env' = [env EXCEPT ![ref[1]].own[ref[2]] = list]
       /\ host' = host

Slots(n) == 0 .. n - 1

Init ==
  /\ env = <<>>
  /\ host = <<>>
  /\ result = Unset

-----------------------------------------------------------------------------
(* The host, between runs *)

CreateLists(s) ==
  /\ env = <<>>
  /\ host' = [k \in 1 .. NLists[s] |-> <<>>]
  /\ UNCHANGED <<env, result>>

Clear ==
  /\ env = <<>>
  /\ result' = Unset
  /\ UNCHANGED <<env, host>>

\* The outermost script: its arguments and saved values are whatever the
\* host's context holds.
Run(s) ==
  /\ env = <<>>
  /\ NLists[s] <= Len(host)
  /\ \E args \in [Slots(NArgs[s]) -> Vals \union {Unset}],
        saved \in [Slots(NSaved[s]) -> Vals \union {Unset}] :
       env' = <<[scr |-> s, args |-> args, saved |-> saved,
                 ref |-> [l \in Slots(NLists[s]) |-> <<0, l>>],
                 own |-> <<>>, ops |-> <<>>, site |-> NoSite]>>
  /\ UNCHANGED <<host, result>>

-----------------------------------------------------------------------------
(* The rows of the innermost script *)

PushOperand(v) ==
  /\ env # <<>>
  /\ env' = [env EXCEPT ![Len(env)].ops = Append(@, v)]
  /\ UNCHANGED <<host, result>>

PopOperand ==
  /\ env # <<>>
  /\ Top.ops # <<>>
  /\ env' = [env EXCEPT ![Len(env)].ops = SubSeq(@, 1, Len(@) - 1)]
  /\ UNCHANGED <<host, result>>

\* The i-th operand is stored; one taken from the top may be consumed.
SetArgument(k, i, consumed) ==
  /\ env # <<>>
  /\ k \in DOMAIN Top.args
  /\ i \in DOMAIN Top.ops
  /\ consumed => i = Len(Top.ops)
  /\ env' = [env EXCEPT ![Len(env)].args[k] = Top.ops[i],
                        ![Len(env)].ops = IF consumed THEN SubSeq(@, 1, i - 1) ELSE @]
  /\ UNCHANGED <<host, result>>

SetSaved(k, i, consumed) ==
  /\ env # <<>>
  /\ k \in DOMAIN Top.saved
  /\ i \in DOMAIN Top.ops
  /\ consumed => i = Len(Top.ops)
  /\ env' = [env EXCEPT ![Len(env)].saved[k] = Top.ops[i],
                        ![Len(env)].ops = IF consumed THEN SubSeq(@, 1, i - 1) ELSE @]
  /\ UNCHANGED <<host, result>>

AddTo(l, v) ==
  /\ env # <<>>
  /\ l \in DOMAIN Top.ref
  /\ SetContents(Top.ref[l], Append(Contents(Top.ref[l]), v))
  /\ UNCHANGED result

ClearList(l) ==
  /\ env # <<>>
  /\ l \in DOMAIN Top.ref
  /\ SetContents(Top.ref[l], <<>>)
  /\ UNCHANGED result

-----------------------------------------------------------------------------
(* Calls *)

Call(c) ==
  /\ env # <<>>
  /\ c \in Sites[Top.scr]
  /\ LET sub   == c.sub
         depth == Len(env) + 1
         ops   == Top.ops
         rest  == Len(ops) - NArgs[sub]
     IN  /\ rest >= 0
         /\ env' = Append(
              [env EXCEPT ![Len(env)].ops = SubSeq(ops, 1, rest)],
              [scr   |-> sub,
               args  |-> [k \in Slots(NArgs[sub]) |-> ops[rest + k + 1]],
               saved |-> [k \in Slots(NSaved[sub]) |-> Unset],
               ref   |-> [l \in Slots(NLists[sub]) |->
                            IF l \in DOMAIN c.bind THEN Top.ref[c.bind[l]]
                                                   ELSE <<depth, l>>],
               own   |-> [l \in Slots(NLists[sub]) \ DOMAIN c.bind |-> <<>>],
               ops   |-> <<>>,
               site  |-> c])
  /\ UNCHANGED <<host, result>>

\* The value the caller's slot <<kind, k>> has after the copy-back: the last
\* in/out argument that names the slot wins.
CopiedBack(c, args, kind, k, old) ==
  LET from == {a \in DOMAIN c.out : c.out[a] = <<kind, k>>}
  IN  IF from = {} THEN old ELSE args[Max(from)]

Return ==
  /\ env # <<>>
  /\ Returns[Top.scr] => Top.ops # <<>>
  /\ LET value == IF Returns[Top.scr] THEN <<Top.ops[Len(Top.ops)]>> ELSE <<>>
         c     == Top.site
     IN  IF Len(env) = 1
         THEN /\ env' = <<>>
              /\ result' = IF value = <<>> THEN result ELSE value[1]
         ELSE LET caller == env[Len(env) - 1]
              IN  /\ env' = [SubSeq(env, 1, Len(env) - 1) EXCEPT
                       ![Len(env) - 1] =
                         [caller EXCEPT
                            !.ops = @ \o value,
                            !.args = [k \in DOMAIN @ |-> CopiedBack(c, Top.args, "arg", k, @[k])],
                            !.saved = [k \in DOMAIN @ |-> CopiedBack(c, Top.args, "saved", k, @[k])]]]
                  /\ result' = result
  /\ UNCHANGED host

\* An error anywhere in the run: the run is over, nothing is copied back.
Abandon ==
  /\ env # <<>>
  /\ env' = <<>>
  /\ UNCHANGED <<host, result>>

-----------------------------------------------------------------------------

Row ==
  /\ env # <<>>
  /\ \/ \E v \in Vals : PushOperand(v)
     \/ PopOperand
     \/ \E i \in DOMAIN Top.ops, consumed \in BOOLEAN :
          \/ \E k \in DOMAIN Top.args : SetArgument(k, i, consumed)
          \/ \E k \in DOMAIN Top.saved : SetSaved(k, i, consumed)
     \/ \E l \in DOMAIN Top.ref : ClearList(l) \/ \E v \in Vals : AddTo(l, v)

Next ==
  \/ \E s \in Scripts : CreateLists(s) \/ Run(s)
  \/ Clear
  \/ Row
  \/ \E s \in Scripts : \E c \in Sites[s] : Call(c)
  \/ Return
  \/ Abandon

Spec == Init /\ [][Next]_vars
=============================================================================
