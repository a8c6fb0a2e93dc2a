---------------------------- MODULE ListPipeline ----------------------------
(***************************************************************************)
(* Pipelines over the lists of a context: `ctx:list:xs = { filter = {..},  *)
(* sum = {..} }`.  The compiler follows the element type of each list      *)
(* through the operations (system_builtins.cpp, "list"); a running         *)
(* operation holds a reference to its list while its body runs once per    *)
(* element (basic_functions.cpp, list_pipeline).                           *)
(*                                                                         *)
(* A body is one of Callbacks: what it reads and yields, what it computes, *)
(* the values it throws on, the list it adds its element to, and the lists *)
(* of the scripts it executes, the called one first.                       *)
(***************************************************************************)
EXTENDS Integers, Sequences, SequencesExt, FiniteSets, FiniteSetsExt

CONSTANTS
  Programs,    \* sequences of statements [list, cond, ops], ops of [kind, f, def]
  Lists,       \* the names of the lists
  Types,       \* the types of elements
  Callbacks,   \* name -> [in, out, of, fails, adds, binds, frames]
  Elements,    \* what an element of a list may be
  Values       \* what the values that are added, or the defaults, may be

VARIABLES
  todo,        \* what is left to compile
  built,       \* the compiled program: [code, types, child, reduced, err]
  cap,         \* the capacity of context::lists
  lists,       \* their contents: sequences of [t, v], `t` the type it was added as
  pc,          \* the operation
  i,           \* the element of its list that is next; 0: it has not begun
  acc,         \* the locals of the operation
  was,         \* the list when the operation began
  results,     \* what the reducers pushed
  status       \* "compiling", "ready", "running", "done", "failed" or "rejected"

vars == <<todo, built, cap, lists, pc, i, acc, was, results, status>>

-----------------------------------------------------------------------------
(* Compilation *)

\* No element type, no list, no error.
Nothing == "nothing"

\* What the element of a list of no known type is compiled as.
View == "element_view"

NeedsDefault == {"first", "last", "min", "max", "average"}
Reducers == NeedsDefault \union {"count", "empty", "any", "all", "none", "count_if", "sum"}
WithCallback == (Reducers \ {"count", "empty"}) \union {"filter", "map"}

Kinds == WithCallback \union {"add_to", "clear", "count", "empty"}

CallbackExpected(kind) ==
  CASE kind = "map" -> "any"
    [] kind \in {"sum", "min", "max", "average"} -> "float"
    [] OTHER -> "bool"

Reject(b, why) == IF b.err = Nothing THEN [b EXCEPT !.err = why] ELSE b

Frames(f) == FoldLeft(LAMBDA sum, n : sum + n, 0, f.frames)

\* An element type, where there may be none.
MaybeType == Types \union {Nothing, View}

ASSUME ListsAssumption == IsFiniteSet(Lists) /\ Nothing \notin Lists
ASSUME TypesAssumption == Nothing \notin Types /\ View \notin Types
ASSUME ElementsAssumption == Elements \subseteq Int /\ Values \subseteq Elements

\* A body is a function on elements, a test one that says yes or no, and the
\* lists it needs are counted.
ASSUME CallbacksAssumption ==
  \A c \in DOMAIN Callbacks :
    /\ Callbacks[c].of \in [Elements -> Elements]
    /\ Callbacks[c].in \in Types \union {Nothing} /\ Callbacks[c].out \in Types
    /\ Callbacks[c].adds \in Lists \union {Nothing}
    /\ Callbacks[c].out = "bool" => \A v \in Elements : Callbacks[c].of[v] \in {0, 1}
    /\ Frames(Callbacks[c]) \in Nat

Operations == {op \in [kind : Kinds, f : DOMAIN Callbacks \union {Nothing}, def : MaybeType] :
                /\ op.kind \in WithCallback => op.f \in DOMAIN Callbacks
                /\ op.kind = "add_to" => op.def \in Types}
Statements == [list : Lists, cond : BOOLEAN, ops : Seq(Operations)]

ASSUME ProgramsAssumption == Programs \subseteq Seq(Statements)

\* add_to gives a list its type or has to keep it.
AddedType(b, list, t) ==
  IF b.types[list] \in {Nothing, t} THEN [b EXCEPT !.types[list] = t] ELSE Reject(b, "element_type")

\* Bug: a map does not change the element type.
KeptType(op, known) == IF known = Nothing THEN Callbacks[op.f].in ELSE known

\* The type of a list of type `known` after `op`: what it maps to, or what it
\* already was, or what the body reads.
TypeAfter(op, known) ==
  IF op.kind = "map" THEN Callbacks[op.f].out ELSE IF known = Nothing THEN Callbacks[op.f].in ELSE known

\* What the body of an operation pushes when it pushes its element.
ElementType(known) == IF known = Nothing THEN View ELSE known

\* Bug: no one knows the type of what a body adds.
AddedUntyped(b, f, known) == b

\* A body adds its element to a list as add_to adds its value.
BodyAdds(b, f, known) == IF f.adds = Nothing THEN b ELSE AddedType(b, f.adds, ElementType(known))

\* compile_value_section: the element is the scope of the body, which fixes
\* the type of a list that has none; nothing in it may change the list.
ValueSection(b, op, list) ==
  LET f == Callbacks[op.f]
      known == b.types[list]
      expected == CallbackExpected(op.kind)
      added == BodyAdds(b, f, known)
  IN IF list \in {f.adds} \union f.binds THEN Reject(b, "changed_inside")
     ELSE IF known \notin {Nothing, View} /\ f.in \notin {Nothing, known} THEN Reject(b, "scope")
     ELSE IF expected # "any" /\ f.out # expected /\ <<f.out, expected>> # <<"int", "float">> THEN Reject(b, "body_type")
     ELSE [added EXCEPT !.types[list] = TypeAfter(op, known), !.child = IF Frames(f) > @ THEN Frames(f) ELSE @]

\* compile_default_section: it yields what is expected exactly.
DefaultSection(b, op, list) ==
  LET expected == IF op.kind \in {"first", "last"} THEN b.types[list] ELSE "float"
  IN IF op.def = Nothing THEN Reject(b, "requires_default")
     ELSE IF expected \notin {Nothing, View, op.def} THEN Reject(b, "default_type") ELSE b

\* One operation: its input is the element type there is before its body is
\* compiled, for add_to the one after it.
WithOp(b, op, stmt, end) ==
  LET valued == IF op.kind \in WithCallback THEN ValueSection(b, op, stmt.list)
                ELSE IF op.kind = "add_to" THEN AddedType(b, stmt.list, op.def) ELSE b
      done == IF op.kind \in NeedsDefault THEN DefaultSection(valued, op, stmt.list) ELSE valued
      input == IF op.kind = "add_to" THEN done.types[stmt.list] ELSE b.types[stmt.list]
  IN IF b.reduced THEN Reject(b, "reducer_last")
     ELSE [done EXCEPT !.reduced = op.kind \in Reducers,
                       !.code = Append(@, [kind |-> op.kind, f |-> op.f, def |-> op.def, list |-> stmt.list,
                                           input |-> input, cond |-> stmt.cond, end |-> end])]

\* Bug: a false condition skips one command too many.
StatementEndPast(b, stmt) == Len(b.code) + Len(stmt.ops) + 2

\* Where the operations of a statement end that has `stmt.ops` left.
StatementEnd(b, stmt) == Len(b.code) + Len(stmt.ops) + 1

\* Bug: no room for the lists of executed scripts.
MaxOwnLists(b) == Cardinality(Lists)

\* max_lists (finalize_resource_usage): a script's own lists and the deepest
\* frames of the scripts it executes.
MaxLists(b) == Cardinality(Lists) + b.child

-----------------------------------------------------------------------------
(* Execution *)

NoLocals == [found |-> 0, out |-> 0, sum |-> 0, best |-> 0, n |-> 0, tmp |-> <<>>, moved |-> FALSE]

Init ==
  /\ todo \in Programs
  /\ built = [code |-> <<>>, types |-> [l \in Lists |-> Nothing], child |-> 0, reduced |-> FALSE, err |-> Nothing]
  /\ status = "compiling"
  /\ cap = 0 /\ lists = [l \in Lists |-> <<>>]
  /\ pc = 1 /\ i = 0 /\ acc = NoLocals /\ was = <<>> /\ results = <<>>

Compiling == status = "compiling" /\ built.err = Nothing /\ todo # <<>>

\* The next operation of a statement; its condition, if it has one, guards the
\* first of them.
CompileOp ==
  LET stmt == Head(todo)
  IN /\ Compiling /\ stmt.ops # <<>>
     /\ built' = WithOp(built, Head(stmt.ops), stmt, StatementEnd(built, stmt))
     /\ todo' = <<[stmt EXCEPT !.ops = Tail(@), !.cond = FALSE]>> \o Tail(todo)
     /\ UNCHANGED <<cap, lists, pc, i, acc, was, results, status>>

CompileStatement ==
  /\ Compiling /\ Head(todo).ops = <<>>
  /\ built' = [built EXCEPT !.reduced = FALSE]
  /\ todo' = Tail(todo)
  /\ UNCHANGED <<cap, lists, pc, i, acc, was, results, status>>

\* All statements are compiled, or one is not accepted.
EndCompilation ==
  /\ status = "compiling" /\ ~Compiling
  /\ status' = IF built.err = Nothing THEN "ready" ELSE "rejected"
  /\ UNCHANGED <<todo, built, cap, lists, pc, i, acc, was, results>>

\* create_lists, then process.
Run ==
  /\ status = "ready"
  /\ cap' = MaxLists(built)
  /\ lists' = [l \in Lists |-> <<>>]
  /\ status' = "running"
  /\ UNCHANGED <<todo, built, pc, i, acc, was, results>>

Op == built.code[pc]
AtOp == status = "running" /\ pc \in DOMAIN built.code

\* The condition of a statement is false.
Skip ==
  /\ AtOp /\ i = 0 /\ Op.cond
  /\ pc' = Op.end
  /\ UNCHANGED <<todo, built, cap, lists, i, acc, was, results, status>>

BeginOp ==
  /\ AtOp /\ i = 0
  /\ i' = 1 /\ acc' = NoLocals /\ was' = lists[Op.list]
  /\ UNCHANGED <<todo, built, cap, lists, pc, results, status>>

\* What an element is pushed as for the body.
InputType(op) == IF op.input = Nothing THEN built.types[op.list] ELSE op.input

Looping == AtOp /\ i > 0 /\ Op.kind \in WithCallback /\ i <= Len(lists[Op.list])

\* The body runs in the frames of the scripts it executes.
Moves(f) == acc.moved \/ Cardinality(Lists) + Frames(f) > cap

\* What the element at hand decides, and whether that ends the loop.
Decides(op, r) ==
  \/ op.kind \in {"any", "none", "first", "last"} /\ r = 1
  \/ op.kind = "all" /\ r = 0

\* Bug: last stops at the first element it finds.
SettledEarly(op, r) == Decides(op, r)

Settled(op, r) == op.kind # "last" /\ Decides(op, r)

\* The body reads an element as what it is pushed as, and adds it to a list
\* that is known to hold such elements.
Reads(f, op) == f.in \in {Nothing, InputType(op)} /\ (f.adds # Nothing => op.input # Nothing)

\* The locals after the body yielded `r` for the element.
Collect(op, r) ==
  [acc EXCEPT
     !.moved = Moves(Callbacks[op.f]),
     !.found = IF Decides(op, r) THEN i ELSE @,
     !.out = IF op.kind = "filter" /\ r = 1 THEN @ + 1 ELSE @,
     !.sum = @ + r, !.n = @ + 1,
     !.best = IF acc.n = 0 \/ (op.kind = "min" /\ r < @) \/ (op.kind = "max" /\ r > @) THEN r ELSE @,
     !.tmp = IF op.kind = "map" THEN Append(@, [t |-> Callbacks[op.f].out, v |-> r]) ELSE @]

\* Bug: filter erases as it goes.
CompactedErasing(op, item, r) ==
  [lists EXCEPT ![op.list] = IF op.kind = "filter" /\ r = 0 THEN RemoveAt(@, i) ELSE @]

\* filter moves the elements it keeps towards the front as it goes.
Compacted(op, item, r) ==
  [lists EXCEPT ![op.list] = IF op.kind = "filter" /\ r = 1 THEN [@ EXCEPT ![acc.out + 1] = item] ELSE @]

Element ==
  LET f == Callbacks[Op.f]
      item == lists[Op.list][i]
      r == f.of[item.v]
      kept == Compacted(Op, item, r)
  IN /\ Looping /\ Reads(f, Op) /\ item.v \notin f.fails
     /\ lists' = IF f.adds = Nothing THEN kept ELSE [kept EXCEPT ![f.adds] = Append(@, item)]
     /\ acc' = Collect(Op, r)
     /\ i' = IF Settled(Op, r) THEN Len(lists[Op.list]) + 1 ELSE i + 1
     /\ UNCHANGED <<todo, built, cap, pc, was, results, status>>

\* The body throws, or cannot take an element of this type: the run is over
\* and the lists stay as they are.
ElementFails ==
  LET f == Callbacks[Op.f]
  IN /\ Looping /\ (~Reads(f, Op) \/ lists[Op.list][i].v \in f.fails)
     /\ status' = "failed"
     /\ UNCHANGED <<todo, built, cap, lists, pc, i, acc, was, results>>

\* What a reducer pushes when its loop is over; `v` is its default's value.
Answer(op, v) ==
  CASE op.kind = "count" -> Len(lists[op.list])
    [] op.kind = "empty" -> IF lists[op.list] = <<>> THEN 1 ELSE 0
    [] op.kind = "any" -> IF acc.found > 0 THEN 1 ELSE 0
    [] op.kind \in {"all", "none"} -> IF acc.found > 0 THEN 0 ELSE 1
    [] op.kind \in {"count_if", "sum"} -> acc.sum
    [] op.kind \in {"min", "max"} -> IF acc.n = 0 THEN v ELSE acc.best
    [] op.kind = "average" -> IF acc.n = 0 THEN v ELSE acc.sum \div acc.n
    [] OTHER -> IF acc.found > 0 THEN lists[op.list][acc.found].v ELSE v

Written(op, v) ==
  CASE op.kind = "add_to" -> Append(lists[op.list], [t |-> op.def, v |-> v])
    [] op.kind = "clear" -> <<>>
    [] op.kind = "filter" -> SubSeq(lists[op.list], 1, acc.out)
    [] op.kind = "map" -> acc.tmp
    [] OTHER -> lists[op.list]

EndOp ==
  \E v \in Values :
    /\ AtOp /\ i > 0 /\ ~Looping
    /\ lists' = [lists EXCEPT ![Op.list] = Written(Op, v)]
    /\ results' = IF Op.kind \in Reducers THEN Append(results, Answer(Op, v)) ELSE results
    /\ pc' = pc + 1 /\ i' = 0
    /\ UNCHANGED <<todo, built, cap, acc, was, status>>

EndRun ==
  /\ status = "running" /\ pc \notin DOMAIN built.code
  /\ status' = "done"
  /\ UNCHANGED <<todo, built, cap, lists, pc, i, acc, was, results>>

Next == CompileOp \/ CompileStatement \/ EndCompilation \/ Run \/ Skip \/ BeginOp \/ Element \/ ElementFails \/ EndOp \/ EndRun

\* process() runs until the last command or an exception.
Spec == Init /\ [][Next]_vars /\ WF_vars(Next)

-----------------------------------------------------------------------------

Items == [t : MaybeType, v : Elements]

\* An element that is next is one of the list, or the loop is over.
TypeOK ==
  /\ status \in {"compiling", "ready", "running", "done", "failed", "rejected"}
  /\ lists \in [Lists -> Seq(Items)]
  /\ pc \in 1 .. (Len(built.code) + 1)
  /\ i \in Nat /\ (AtOp /\ i > 1 => i <= Len(lists[Op.list]) + 1)

\* An operation handles each element as what it is: the type its body was
\* compiled for, and its elements are pushed as, is the one they were added
\* or mapped with (system_builtins.cpp: "Element type at this op: fed to its
\* callback, checked by add_to, pushed by first/last").  A conditional map that is
\* skipped leaves elements of the type before; the programs here have none.
ElementsHaveTheirType ==
  AtOp /\ i > 0 => \A k \in i .. Len(lists[Op.list]) : lists[Op.list][k].t = InputType(Op)

\* No body, whatever it adds or executes, moves the lists an operation is in
\* the middle of (context::create_lists, container::max_lists).
ReferenceHolds == ~acc.moved

Yields(op, k) == Callbacks[op.f].of[was[k].v]
Those(op) == {k \in DOMAIN was : Yields(op, k) = 1}
Each(op) == {Yields(op, k) : k \in DOMAIN was}

\* What the body of `op` yields for the first elements of `items`, summed.
Sums(op, items) ==
  LET sums[n \in 0 .. Len(items)] == IF n = 0 THEN 0 ELSE sums[n - 1] + Callbacks[op.f].of[items[n].v]
  IN sums
Total(op) == Sums(op, was)[Len(was)]

\* How many up to the k-th the body says yes to, and which is the n-th of them.
Rank(op, k) == Cardinality({j \in Those(op) : j <= k})
Kept(op, n) == CHOOSE k \in Those(op) : Rank(op, k) = n

\* An operation that ends has done to the list as it was when it began what
\* its name says (list_pipeline): the order of what filter keeps, what map
\* makes of each element, and the answer of a reduction, with the early ends of
\* any, all, none and first, the elements that are compared and the empty list.
\* Nothing is said of add_to, clear, count and empty, nor of what the other
\* lists hold.
Reduced ==
  LET answer == results'[Len(results')]
      kept == lists'[Op.list]
  IN CASE Op.kind = "filter" -> kept = [n \in 1 .. Cardinality(Those(Op)) |-> was[Kept(Op, n)]]
       [] Op.kind = "map" -> kept = [k \in DOMAIN was |-> [t |-> Callbacks[Op.f].out, v |-> Yields(Op, k)]]
       [] Op.kind = "any" -> answer = 1 <=> Those(Op) # {}
       [] Op.kind = "all" -> answer = 1 <=> Those(Op) = DOMAIN was
       [] Op.kind = "none" -> answer = 1 <=> Those(Op) = {}
       [] Op.kind = "count_if" -> answer = Cardinality(Those(Op))
       [] Op.kind = "sum" -> answer = Total(Op)
       [] Op.kind = "min" -> was # <<>> => answer = Min(Each(Op))
       [] Op.kind = "max" -> was # <<>> => answer = Max(Each(Op))
       [] Op.kind = "average" -> was # <<>> => answer = Total(Op) \div Len(was)
       [] Op.kind = "first" -> Those(Op) # {} => answer = was[Min(Those(Op))].v
       [] Op.kind = "last" -> Those(Op) # {} => answer = was[Max(Those(Op))].v
       [] OTHER -> TRUE

DoesWhatItSays == [][EndOp => Reduced]_vars

\* A body that throws half way costs no list an element that was not looked at
\* yet, and invents none: the list is as long as it was, its end untouched.
FailureLosesNothing ==
  status = "failed" =>
    LET now == lists[Op.list]
    IN /\ Len(now) = Len(was)
       /\ \A k \in i .. Len(now) : now[k] = was[k]
       /\ ToSet(now) \subseteq ToSet(was)

-----------------------------------------------------------------------------
(* The inductive invariant behind TypeOK, ReferenceHolds and               *)
(* FailureLosesNothing                                                     *)

Commands == [kind : Kinds, f : DOMAIN Callbacks \union {Nothing}, def : MaybeType, list : Lists,
             input : MaybeType, cond : BOOLEAN, end : Nat]
Reasons == {"changed_inside", "scope", "body_type", "requires_default", "default_type", "element_type", "reducer_last"}
Built == [code : Seq(Commands), types : [Lists -> MaybeType], child : Nat, reduced : BOOLEAN,
          err : Reasons \union {Nothing}]
Locals == [found : Nat, out : Nat, sum : Int, best : Int, n : Nat, tmp : Seq(Items), moved : BOOLEAN]

\* The commands the statement being compiled still has to come.
Coming == IF todo = <<>> THEN 0 ELSE Len(Head(todo).ops)

\* A body leaves the list of its operation alone, finds room for the lists it
\* needs and answers a question with yes or no; the operation leads forward to where its statement ends.
Sound(c, room, last) ==
  /\ c.kind \in WithCallback =>
       /\ c.f \in DOMAIN Callbacks
       /\ Callbacks[c.f].adds # c.list
       /\ Frames(Callbacks[c.f]) <= room
       /\ CallbackExpected(c.kind) = "bool" => Callbacks[c.f].out = "bool"
  /\ c.end \in 1 .. last

CodeSound ==
  built.err = Nothing =>
    \A k \in DOMAIN built.code : Sound(built.code[k], built.child, Len(built.code) + Coming + 1)

\* Which part of a program is done when: nothing runs that was not accepted
\* as a whole.
Staged ==
  /\ status \notin {"compiling", "rejected"} => built.err = Nothing /\ todo = <<>>
  /\ status \in {"compiling", "ready", "rejected"} => pc = 1 /\ i = 0
  /\ status \in {"running", "failed", "done"} => cap = MaxLists(built)
  /\ status = "failed" => pc \in DOMAIN built.code /\ i > 0

\* Half way through an operation its list is as long as it was, what filter
\* kept is in the part that was looked at, and the rest is untouched.
HalfWay ==
  status \in {"running", "failed"} /\ pc \in DOMAIN built.code /\ i > 0 =>
    LET now == lists[Op.list]
    IN /\ Len(now) = Len(was) /\ i <= Len(now) + 1
       /\ acc.out < i
       /\ \A k \in DOMAIN now : k >= i => now[k] = was[k]
       /\ \A k \in DOMAIN now : \E j \in DOMAIN was : now[k] = was[j]

\* All of it: what is compiled is sound, the steps come in order, and a list
\* under way is intact.
PipelineInv ==
  /\ TypeOK
  /\ todo \in Seq(Statements) /\ built \in Built
  /\ was \in Seq(Items)
  /\ acc \in Locals /\ ~acc.moved
  /\ CodeSound
  /\ Staged
  /\ HalfWay

-----------------------------------------------------------------------------
(* The inductive invariant behind ElementsHaveTheirType                    *)

\* No statement with a condition maps its list.
Unmapped(stmt) == stmt.cond => \A k \in DOMAIN stmt.ops : stmt.ops[k].kind # "map"
MapsUnconditional == \A p \in Programs : \A n \in DOMAIN p : Unmapped(p[n])

\* A command settles the type of its own list and of the one its body adds to.
Touches(c, l) == c.list = l \/ (c.kind \in WithCallback /\ Callbacks[c.f].adds = l)

TypeLeft(c, l) ==
  IF c.list # l THEN ElementType(c.input)
  ELSE IF c.kind \in WithCallback THEN TypeAfter(c, c.input) ELSE c.input

\* The type list `l` is known by before command `p`.
Known(code, l, p) ==
  LET touching == {k \in 1 .. (p - 1) : Touches(code[k], l)}
  IN IF touching = {} THEN Nothing ELSE TypeLeft(code[Max(touching)], l)

\* A command has the type its list is known by, and neither add_to nor what a
\* body adds changes a type; what a condition skips does not either.
Typed(code, k) ==
  LET c == code[k]
  IN /\ IF c.kind = "add_to" THEN c.input = c.def /\ c.def \in Types /\ Known(code, c.list, k) \in {Nothing, c.def}
        ELSE c.input = Known(code, c.list, k)
     /\ c.kind \in WithCallback /\ Callbacks[c.f].adds # Nothing =>
          Known(code, Callbacks[c.f].adds, k) \in {Nothing, ElementType(c.input)}
     /\ c.cond => k < c.end /\ \A n \in k .. Len(code) : n < c.end => code[n].kind # "map"

CodeTyped ==
  built.err = Nothing =>
    /\ \A l \in Lists : built.types[l] = Known(built.code, l, Len(built.code) + 1)
    /\ \A k \in DOMAIN built.code : Typed(built.code, k)

\* What is still to be compiled maps nothing under a condition.
ComingUnmapped ==
  /\ \A n \in DOMAIN todo : Unmapped(todo[n])
  /\ built.err = Nothing =>
       \A k \in DOMAIN built.code : built.code[k].cond =>
         \A n \in 1 .. Coming : Len(built.code) + n < built.code[k].end => Head(todo).ops[n].kind # "map"

\* During an operation the list its body adds to is already known by what the
\* operation leaves.
KnownNow(l) == Known(built.code, l, IF i > 0 /\ l # Op.list THEN pc + 1 ELSE pc)

ItemsTyped ==
  status = "running" =>
    /\ \A l \in Lists : \A k \in DOMAIN lists[l] : lists[l][k].t \in Types /\ lists[l][k].t = KnownNow(l)
    /\ AtOp /\ i > 0 /\ Op.kind = "map" => \A k \in DOMAIN acc.tmp : acc.tmp[k].t = Callbacks[Op.f].out

\* The lists of a run hold what the compiler knew them to hold, command by
\* command; a list it knew nothing of is empty.
TypingInv == CodeTyped /\ ComingUnmapped /\ ItemsTyped
-----------------------------------------------------------------------------
(* The inductive invariant behind DoesWhatItSays                           *)

\* The element that decides is the last one for last, for the others the first
\* one, which ends the loop.
FoundSoFar ==
  Op.kind \in {"any", "all", "none", "first", "last"} =>
    IF acc.found = 0 THEN \A k \in 1 .. (i - 1) : ~ Decides(Op, Yields(Op, k))
    ELSE /\ acc.found \in 1 .. (i - 1) /\ Decides(Op, Yields(Op, acc.found))
         /\ \A k \in 1 .. (i - 1) :
              (IF Op.kind = "last" THEN k > acc.found ELSE k < acc.found) => ~ Decides(Op, Yields(Op, k))
         /\ Op.kind # "last" => i = Len(was) + 1

TakenSoFar ==
  /\ Op.kind \in {"sum", "average"} => acc.sum = Sums(Op, was)[i - 1]
  /\ Op.kind = "count_if" => acc.sum = Rank(Op, i - 1)
  /\ Op.kind \in {"min", "max", "average"} => acc.n = i - 1
  /\ Op.kind \in {"min", "max"} /\ i > 1 => \E k \in 1 .. (i - 1) : acc.best = Yields(Op, k)
  /\ Op.kind = "min" => \A k \in 1 .. (i - 1) : acc.best <= Yields(Op, k)
  /\ Op.kind = "max" => \A k \in 1 .. (i - 1) : acc.best >= Yields(Op, k)

WrittenSoFar ==
  /\ Op.kind = "map" => acc.tmp = [k \in 1 .. (i - 1) |-> [t |-> Callbacks[Op.f].out, v |-> Yields(Op, k)]]
  /\ Op.kind = "filter" => acc.out = Rank(Op, i - 1) /\ \A n \in 1 .. acc.out : lists[Op.list][n] = was[Kept(Op, n)]
  /\ Op.kind # "filter" => lists[Op.list] = was

\* Half way through an operation its locals, and the list of a filter, say of
\* the elements looked at what the operation is to say of all of them.
MeaningInv ==
  /\ results \in Seq(Int)
  /\ AtOp /\ i > 0 => FoundSoFar /\ TakenSoFar /\ WrittenSoFar

=============================================================================
