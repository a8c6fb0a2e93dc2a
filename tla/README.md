# A verification project for devils_script

`devils_script` is an embeddable C++20 script language: a host registers C++
functions, parses a script into a `container`, and runs the container's command
stream against a `context`, a small stack machine. This directory holds TLA+
models of it, the TLC runs that check them on small instances, and proofs that
TLAPS checks for every instance. The models are translated from the sources
(`src/src`, `src/include/devils_script`); `PROJECT.json` maps each definition to
the lines it stands for.

## 1. The system

    source text
      | tavl (external): events, operators, precedence
      v
    script AST            script_ast.cpp
      v
    rpn block stream      system_ast.cpp      (normalize)
      v
    semantic pass         system.cpp, system_builtins.cpp, system_templates.h
      |   overloads, conversions, constant folding, block code generation,
      |   parse-time operand stack, description tree
      v
    peephole              optimizer.cpp       (drop, fuse, thread, relocate)
      v
    container             container.cpp       commands + description tree
      | process(ctx)                 | describe(ctx)
      v                              v
    context               context.cpp, basic_functions.cpp (opcodes)

The program is sequential. What runs concurrently is confined to parsing: a
`system` is a constant registry that several threads may parse with, sharing
one atomic counter. What makes it hard is elsewhere: flat stores shared by
nested scripts through base offsets, exceptions that leave half-executed
opcode sequences, references held across callbacks, indices that move when
code is rewritten, and state carried from one row or one run to the next.

| component | state | operations | hard behaviour | what makes it correct |
|---|---|---|---|---|
| run-time context | operand stack, argument slots, saved slots, lists, four bases, `execute_depth`, return value, random state, callback count | typed push/pop/get/set, erase, `clear`, `create_lists` | reuse after a run that failed; limits of the stores | bases and depth are zero between runs; no write beyond a checked store |
| script-in-script calls | frames in C++ locals, a list frame per call site | `list_frame_enter`, `swap_bound_list`, `execute_script`, write-backs, `list_frame_exit`, `process` | exception at any depth, recursion through the resolver, passed-on lists, call sites compiled against an older callee | a call behaves as if each script had private slots; bound lists are passed by reference |
| list pipelines | a reference into `ctx->lists`, callback ranges in the command stream | add_to, clear, filter, map, reductions | callback runs scripts that grow `ctx->lists`; callback throws half way | the reference stays valid; a reduction equals its definition |
| opcodes | command index, stacks | jumps, arithmetic, accesses, type checks | jumps to index 0, wrap-around, safe against unsafe variants | same result in both variants on well-typed stacks |
| block code generation | parse-time stack of types, labels | fold_block, select, sequence, switch, random, value_or | nested forward jumps, conditional children, peaks | on every path the operand stack has the depth and the value the source means |
| peephole optimizer | flags per command, recorded index fields | drop dead context pushes, fuse erases, drop and thread jumps, relocate | every stored index moves | the optimized stream does what the original does |
| streaming parse | row checkpoint, parse context, container | parse one row, reject one row, end of input | a rejected row after partial code generation; reseeding | a rejected row leaves nothing behind |
| overload resolution | best candidate so far, tie flag | resolve_function | ties, order of registration, trial compilation on copies, nested calls | the one best overload is chosen, or ambiguity reported |
| implicit conversions | graph of registered conversions | find_conversion_path, setup_type_conversion | cycles, saturation at INT32_MAX | cheapest path |
| constant folding | none | try_eval_const | integer wrap, division by zero, mixed comparison | equals the run-time result |
| registry | functions, operators, enums, arithmetic types | register_* | duplicate signatures, operator properties | lookups are unambiguous |
| description | a copy of the context, value table | describe, make_table | effects skipped, first failure stops | never runs an effect, reports no invented value |
| random numbers | system seed and counter, per-parse and per-run states | seed_script, gen_value, chance, reseed | concurrent parses, callbacks, reseed | distinct scripts get distinct states; a run repeats its rolls |
| script AST and rpn | none that survives | make_script_ast, normalize | scope paths, fixity | block sizes are consistent |
| type traits, text helpers, build | none | | | not modelled |

`PROJECT.json` lists every hazard with its source line, and the properties that
cover it or the reason that none does.

### How components interact

The host owns everything: it calls `parse`, `create_lists`, `set_arg`,
`process`, `clear`. `process` calls opcodes through function pointers; an opcode
may call back into host functions, into a callback range of the same script
(`container_view::process`), or, for `execute`, into `process` of another
script on the same context. Exceptions travel the other way and are caught only
in `execute_script`, which undoes its call site and rethrows. The compiler and
the machine meet in numbers: `max_stack`, `max_saved`, `max_lists`, `max_args`
are computed while compiling and checked by `process` at each entry.

## 2. Modules and plan

    ScriptNumbers        arithmetic at a finite width
      ScriptMachine      one opcode at a time, as a function on a machine state
        ConstFolding     try_eval_const
          ScriptMeaning  what a source tree means (reference, no code)
          CompileContext the container being filled and the parse context
            (with ConversionPaths)
            Codegen      the semantic pass: tree -> commands
            Optimizer    the peephole pass
            ScriptDescription   describe(), one command at a time
        ScriptRun        the run of a stream, whoever compiled it; certificates
                         (proofs: ScriptRunProofs)
          DescribedRun   + ScriptDescription: run, then describe
                         (proofs: DescribedRunProofs)
    CompiledScript       Codegen + Optimizer + ScriptMeaning + ScriptRun: compile, run
      DescribedScript    + DescribedRun: compile, run, describe
    StreamedScript       Codegen + Optimizer + ScriptMeaning: rows, end, run
    OverloadChoice       ConversionPaths: register, resolve
                         (proofs: OverloadChoiceProofs)
    ListPipeline         list operations, compiled and run
                         (proofs: ListPipelineProofs, ListMeaningProofs)
    ExecuteFrames        scripts that execute scripts
                         (proofs: ExecuteFramesProofs)
      ExecuteFramesImpl  that they keep the promises of ScriptCalls
                         (proofs: ExecuteFramesImplProofs)
    NaturalFacts         induction and maxima of numbers, for the proofs
    MCScriptLibrary      the small system the MC modules share
    MC*                  one per model that TLC runs

Everything above is written and checked; the theorems are about `ExecuteFrames`,
its refinement of `ScriptCalls`, `ListPipeline`, `OverloadChoice` with the search
of `ConversionPaths`, and `ScriptRun` and `DescribedRun`. `Codegen` is a walk over a
source tree, written with a recursive operator; it, and whatever extends it, stays
with TLC. That is why the run and the description of a stream are modules of their
own: they take the stream as it is, and ask of it only that it is certified, which
TLC checks of every stream the compiler makes. Not attempted: of `Optimizer`, that a
pass leaves every branch at a command that is kept; of `ConstFolding`, that folding
stays within the integers of the width.

## 3. The core: scripts that execute scripts

### ScriptCalls: the promise

`ScriptCalls` has no storage. A running script is a record of its arguments,
saved values, operands, and lists; a list is a *reference*, to a list of the
host or to one owned by a script further out. `Call` passes arguments by value
and bound lists by reference, `Return` copies the in/out scalars back, `Abandon`
ends the whole run and leaves the host's lists as they are. This is what
`README.md` of the repository and the comments above `execute_script` promise.

### ExecuteFrames: the code

| model | code |
|---|---|
| `stack`, `args_stack`, `saved_stack`, `lists`, the four bases, `execute_depth`, `return_value` | the fields of `context` with those names |
| `frames` | the C++ call stack: one entry per nested `process()`; `old` is what `execute_script` holds in locals, `pc`/`site` say which opcode of a call site ran last |
| `throwing` | a C++ exception in flight |
| `Process`, `Finish`, `UnwindToHost` | `script_container::process` at top level: its checks, its last row, an exception that leaves it |
| `CreateLists`, `HostSetArg`, `Clear` | the host's calls between runs |
| `PushOperand` ... `ClearList`, `Throw` | what a row of a script may do; indices are shifted by the running bases as in the opcodes |
| `ListFrameEnter`, `SwapIn`, `ExecuteScript`, `WriteBack`, `SwapOut`, `ListFrameExit` | the opcode sequence of a call site |
| `Return` | the tail of `execute_script` after `sub->process` |
| `ExecuteRefused` | a throw inside the `try`: an argument or saved frame that does not fit (nothing written yet), or the callee's own `process()` refusing (slots already written) |
| `ExecuteTooDeep` | the throw before the `try` |
| `UnwindCallee` | the catch block of one `execute_script`, and the depth guard's destructor |

All swaps of one site are one action, as are all its write-backs: no opcode of
another kind runs between them. `SwapBound` states what the sequence of
`std::swap`s computes, using that the bound slots of one site are pairwise
distinct (the compiler rejects a list bound twice). A script's rows are left
open: any sequence of pushes, pops and stores its shape allows, so that the
results hold for every program of that shape. A call site whose callee has no
lists compiles to no list opcodes; its list phases are then steps without
effect. `add_to` is modelled with a value at hand; the callbacks of list
operations are the subject of ListPipeline. `execute` while describing throws at
once, on a copy of the context.

### ExecuteFramesImpl: the refinement

Each running script is a `Level` of the vector of lists: how many lists it uses,
where they begin, where its callee's begin and which of its own have been swapped
there. `Place` follows the swaps of all levels, so that `Home`, the vector with
every swap undone, is one equation: list `k` of the abstract run is what now sits
at `Place[k]`. `Refs` gives each script its references: a bound list is its
caller's, the rest are its own. `HostContents`, `EnvFrame` and `Result` rebuild the
abstract state from these; a returned call whose write-backs are still pending
counts as already written. While an exception is in flight the abstract run is
over. `CallsIsolated` is the abstract specification under this mapping.

What makes the mapping work is `ListFrameInv`: above the host's lists the list
frames lie gapless up to the end of the vector. The swaps name the callee's slots
by counting from that end, so one list too many anywhere below makes them move the
wrong lists. `TooDeepHarmless` excludes the one step after which that happens, the
first finding.

### Properties

- `TypeOK`: types, and the operand stack never outgrows its storage. This is
  the one about peaks: `process()` checks compiled peaks, opcodes do not.
- `FramesDisjoint`: the argument, saved and list slots of all running scripts
  lie inside the stores and no two scripts share one.
- `ContextReusable`: between runs bases and depth are zero, however the last
  run ended; `process()` relies on it and does not reset them.
- `CallersKept`: while a callee runs, no step changes an argument, saved value
  or operand of a script that waits for it, nor any list up to the callee's.
- `CallsIsolated`: refinement of ScriptCalls; covers by-reference lists under
  errors, fresh saved values, write-back on success only.
- `FrameInv`: the inductive invariant behind the first three.
- `ListFrameInv`: the list frames are gapless, a callee's own lists start out
  empty, an exception leaves a script with no list frame open; `TooDeepHarmless`:
  the depth limit is not met with one open. Both are what the refinement needs.
- `MutationsRetained`: the host's lists keep contents and number while an
  exception unwinds. (A finding: false at the depth limit.)

### Runs of the core

| run | instance | result |
|---|---|---|
| `chain` | main -> sub -> leaf; main calls sub with and without a bound list, sub passes its list on as leaf's second list; leaf's first list is scratch; in/out into a saved and an argument slot; sub returns a value; two values | all six properties hold, about 35,000 states |
| `recursion` | three self-recursive scripts: one runs out of argument slots, one out of saved slots (refused by the callee's `process`), one without lists reaches the depth limit or the end of the operand stack | `FrameInv`, `ListFrameInv`, `TooDeepHarmless`, `CallsIsolated` and `MutationsRetained` hold, about 276,000 states |
| `depth_limit` | self-recursion with a bound list and depth limit 3 | `MutationsRetained` violated |
| `stale_site` | a site compiled for a callee without lists that has one now | `FramesDisjoint` violated |

Bounds. `ArgSlots`, `SavedSlots`, `StackSlots` and `MaxDepth` are the code's
constants (8, 16, 256, 128) scaled down so that every limit is met: the chain
fits exactly, the recursion exceeds each one. Three scripts are enough for a
list to be lent twice and returned twice. `MaxLen = 1` bounds the length of a
list that a row builds: contents are only moved, and a list that is empty, holds
one value or the other is enough to tell any two apart. Values are symmetric:
the model only copies and compares them. Deadlock checking is on: the host can
always act, and a script can always throw.

No fairness is assumed and no liveness is stated here: a run ends when its script
does, and what scripts do is left open here.

## 4. Compiling and running one script

### The machine: ScriptNumbers, ScriptMachine

`Exec(m, c)` is one command: the state `m` holds the operand stack of typed
values, slots, command index, effects in order and the first error. The checked
build is modelled, so an operand of the wrong type is an error of the run, and
`NeverMisread` says that compiled code never meets it; the unchecked opcodes
would read whatever is there. Integers wrap at `IntBits` bits. A floating-point
number is a count of quarters, or NaN: rounding is out of the model, comparison
with NaN is in. A registered function of the host is a lookup in the host's
answers (`Hosts`), an effect an entry in a log. The roll of a `random` is chosen
by the host as well.

### The compiler: CompileContext, ConstFolding, Codegen

`cx` is the container together with `parse_context`, as resolve_function copies
both for each candidate it tries. Every operator of `Codegen` takes a `cx` and
returns the one it leaves; an error is sticky, as an exception is. The order of
emission, the parse-time stack of types, the scope stack, the patched jump
targets, the records for the optimiser and the description nodes are all kept,
since each can go wrong by itself. `DispatchNode` is `dispatch_node_impl` and
`FoldedBlock` is `fold_block`, with one operator per kind of block; they call each
other through one recursive operator, `Pass`. `Resolve` is
`resolve_function`, `CallFunction` the emitter a registration installs, the
`...Form` operators the built-in forms.

### The reference: ScriptMeaning

An evaluator of source trees that knows no commands, slots, jumps or overloads.
It models no code and is not mapped; it was written from what the forms are for,
and says in one place what AND, select, random, a `?=` block or `prev` mean.

### Optimizer

One operator per pass, in the order of the code, then `Relocate`. What a
description node observes stays (`Observed`), what a branch may enter is an entry.

### ScriptRun, CompiledScript: certificates

`ScriptRun` is `process()` on a stream that is given: `Begin`, a `Step` for each
command, `End`. `CompiledScript` adds where the stream comes from. What compilation
promises of a stream is said in `ScriptRun` without a run: `Layouts` follows the
*types* of the operands along all paths, from the empty stack on, both ways at each
branch, and so gives each command the layouts it may be reached with. The stream is
certified (`CodeIsCertified`) if each command finds what it needs in each of its
layouts (`Fits`: the types on top of the stack, in the slots it addresses, in the
arguments and saved values it names), leads forward, no layout is deeper than
`max_stack`, and the end is reached with the empty one only. There is one thing the
types cannot tell: that the last branch of a `random` is always taken, without which
the path past it ends without a value. `LastBranchTaken` says that of the run.

### ScriptDescription, DescribedRun, DescribedScript

`describe()` as a walk of the same commands on a copy of the context: commands
not reached, effects left out, the first failure that ends it, the nodes that
are given a value at a command. `DescribedRun` runs the stream first and
remembers the top of the stack after each command, then describes;
`DescribedScript` compiles it.

### StreamedScript

The streaming `parse()`: `AcceptRow`, `RejectRow` (with `RestoreRow`, the
checkpoint, field by field) and `SyntaxError` for a row, each alone or together
with the end of input, and `EndOfInput` between rows. Rows are compiled by
`Codegen` and optimised as they arrive. Then the host runs the container, if its
context is large enough.

### OverloadChoice, ConversionPaths

`AddConversion` and `AddOverload` in any order build the registry, which begins
with the system's own conversion of integers; `Parse` resolves a call with values
and nested calls as arguments. `Trial` is what one candidate comes to: `Applies`
chooses candidates by scope (in an untyped scope those of every scope),
`WeighsReturn` says whose result is weighed (a scalar in a block that expects
another type; other results are neither weighed nor refused here), `Argument`
converts one argument, with the widening of fundamental values that needs no
registered conversion (`Widens`), `InContext` is where the emitter refuses. Left
out are overloads that fold any number of arguments, optional parameters,
parameters of any type, and AND, OR, NAND and NOR. The search for a
conversion path is translated loop by loop, saturation included: `Visit` is a turn
of the outer loop (`CheapestOpen` the stable minimum, `Take` what is done with the
node), `Expand` the loop over its edges, `Relax` one edge. Both loops, and the
passes over arguments, parameters and candidates, are recursive functions on the
number of turns, which is how `OverloadChoiceProofs` can reason about them. The
outer loop ends by itself; that `Len(edges) + 1` turns are enough is proved there.
Resolution takes edges and overloads as parameters, so that other lists of them can
be compared.

### ListPipeline

A program is a sequence of statements on lists, compiled first, one operation per
step: element types are followed through the operations, and what each operation's
body may be is checked. A list of unknown type hands its elements out as `View`
(`element_view` in the code), its first operation records no input type, and what
a body adds to another list types that list while the body is compiled. Running, an operation holds its locals (`acc`) and handles one element
per step; the body of an element is one step, in which it yields a value, throws,
adds to another list, or runs scripts that need list slots of their own. `cap` is
what `create_lists()` reserved: a body that needs more would move the vector under
the reference, and `acc.moved` records it.

### Properties

- `PathsAgree`: over all paths of the stream, not only those some host takes,
  a command is reached with one depth of the stack and the end with none. The
  one path left out is the last branch of a `random`: its comparison cannot fail,
  a roll never exceeds the total.
- `WithinReserve`: no run needs more operands than `max_stack` says.
- `NeverMisread`: the type checks the unchecked build leaves out never fail.
- `Certified`: every stream the compiler makes, folded or not and optimised or not,
  has a certificate (above), and `LastBranchTaken` holds. It is what the theorems
  on runs assume of a stream.
- `RunsAsWritten`: result, effects and failure of a run are those of the source
  tree, folded or not, optimised or not.
- `DescribingIsSilent`, `DescribedAsRun`, `DescribedAsUnoptimised`,
  `Terminates`: a description runs no effect; reports only values the run
  produced, and reaches the end if the run did; is the same for the optimised
  stream (except for the `ctx` object that was optimised away); and ends.
- `EffectsStandAlone`: each command that is seen from outside is the one its
  description node is an effect for, nothing else is, and it takes no operands.
  The theorems on descriptions assume it. It is what the fourth finding violates. A
  script that calls `trace` is outside of it as well: its node is no effect, so
  `describe()` traces; the sources of `described` do without.
- `RejectedRowsLeaveNothing`: the container after any mix of rows is the one the
  accepted rows give. `RunsTheAcceptedRows`: and it does what they say.
  `EndsClean`: within its types and its reserve. `LeavesNoOperand` (a finding).
- `CheapestChain`: the search finds a cheapest chain of conversions, an overflow if
  all chains cost too much, nothing only if there is none. `OrderIsIrrelevant`: no
  call depends on the order of registration. `BestOverload`: the overload that is
  called is the only one that precedes all others (`Precedes`: the cost of the
  conversions that are weighed, an exact result, rank); a call is ambiguous,
  unresolved or an overflow only for the reason it gives. `ExactMatchWins`: an
  overload that needs no conversion is called, where conversions are not free;
  in an untyped scope one of another scope may tie with it. Both state the costs
  as the code weighs them, without results that are no scalar and without
  arguments written before a nested call (section 5).
- `ElementsHaveTheirType`, `ReferenceHolds`, `FailureLosesNothing`,
  `DoesWhatItSays`: an element is handled as the type it was added as; no body
  moves the lists; a body that throws costs no element that was not yet looked
  at; filter, map and each reduction equal their definitions on the list as it was
  (`add_to`, `clear`, `count` and `empty`, and what a body does to other lists, are
  modelled, but not part of that claim). The first is
  checked for programs that map no list under a condition; section 5 says what
  happens otherwise.
- `PipelineInv`: the inductive invariant behind the second and the third;
  `TypingInv` the one behind the first, `MeaningInv` the one behind the last.

### Runs

| run | instance | result |
|---|---|---|
| `scripts` | 379 sources: every block, form and operator over a few operands; folding and optimiser on and off; five hosts (conditions, an integer, a number or NaN, a valid or invalid object) | all hold, 54,000 states |
| `nullable_effect` | `?=` calls in an effect block | `PathsAgree` violated |
| `described` | values in nested scopes, branches, slots; effects without arguments; four hosts | all hold, 5,800 states |
| `described_shift` | an effect with an argument before a scope | `DescribedAsRun` violated |
| `rows` | three kinds of stream (effects and tests on a root object, integers without), up to three rows out of up to eleven, some failing at each stage of compilation, one beyond the stack limit; optimiser on and off | all hold, 42,000 states |
| `open_root` | the same | `LeavesNoOperand` violated |
| `overloads` | up to three of six conversions between three types, the system's own the first, with chains on both sides of the cost limit and a cycle; up to three of eight overloads, in each order: two with a scope, one with a result that is not weighed; eight calls, two in an untyped scope | all hold, 70,000 states |
| `lists` | two lists, three objects; each changing operation followed by each reducer; bodies that throw, add to the other list, execute a chain of two scripts with lists, change their own list (rejected); operations on lists that nothing has typed, or that a body types | all hold, 24,800 states |

Bounds. `IntBits = 8` makes 127 + 1 wrap and keeps 100 * 100 a wrap as well.
`MaxCost` is INT32_MAX scaled down to 100, or to 4 where chains have to pass it.
`StackLimit` and `HostStack` are 5 in `rows` so that one row exceeds them, and
out of reach otherwise. A source has at most two or three operands per form: each
form is a loop over children whose clauses are alike, and two clauses show their
interaction. Three rows are one before, one rejected and one after. Three
overloads are a best, a tie and a late improvement. Lists have three elements, so
that "first", "last" and "in between" differ. `CHECK_DEADLOCK FALSE`: a run ends.

Fairness. `WF_vars(Next)` in CompiledScript, DescribedScript and ListPipeline:
`process()` and `describe()` are loops without a wait, on one thread. Only
`Terminates` uses it; that streams have forward jumps only is what makes it true
and is part of `PathsAgree`.

## 5. Findings

Each has a run that shows it and an entry in `PROJECT.json` with the lines.

1. **Depth limit** (`depth_limit`): `execute_script` checks the nesting depth
   before its `try` block, after the call site has opened the list frame and
   swapped the bound lists in. At the limit this one call is not undone. Each
   outer catch block then swaps relative to the wrong end of the vector, and the
   host finds its list without its contents and `ctx->lists` longer than before.
   The comment in the catch block promises that completed list mutations are
   retained, also when entry validation fails.
2. **Stale call site** (`stale_site`): the number of list slots is fixed in the
   `list_frame_enter` operand when the caller is compiled, while `execute_script`
   asks the callee. A test of the repository builds a self-calling script by
   parsing into the container its resolver has already handed out; with lists
   that program gives the callee the caller's list.
3. **`?=` in an effect block** (`nullable_effect`): the guard of a nullable call
   pushes a default of the block's type when the object is invalid; in a block
   without a value it pushes an invalid element that nobody takes off. Everything
   after it runs one slot off on that path.
4. **Describing effects with arguments** (`described_shift`): the call of an
   effect is skipped, its arguments have been pushed and stay. Scopes entered
   afterwards are one slot off, and the description stops with a type error.
5. **A rejected last row** (`open_root`): when the row that is rejected comes
   with the end of input, `parse()` returns before it closes the root scope, and
   every run of the container leaves an operand.

Smaller observations, met while translating, that no run is spent on:

- Each trial of an overload starts its cost at zero (`system.cpp:499`), and a
  winner's context replaces the caller's (`:564`), also that of a call among the
  arguments of an outer trial, which so forgets what the arguments before it cost.
  With overloads (int, int) -> int and (float, int) -> float, `f(1, i1)` where a
  float is expected takes the second and converts the argument, although the
  comment at `:504` and the changelog (`CHANGELOG.md:47`) say that arguments are
  converted as late as possible. The model has the reset (`Argument`); `BestOverload`
  and `ExactMatchWins` count only what is weighed (`Weighed`).
- `finalize_resource_usage` assigns `max_stack` before checking it, and the peak
  of the parse is not in the checkpoint: one row that is too large makes all
  later rows too large, and `process()` refuse the container (phase `refused`).
  A stream without an accepted row has `max_stack` 0 though its root takes a slot.
- A rejected row in a stream leaves the type it settled for an untyped scope.
- A stream whose script name is empty is seeded anew with every row
  (`system.cpp:1716` tells "first row" by the name).
- A string block whose children are all conditional leaves no value when none
  applies; a child without a value under a condition there leaves the
  condition's label unbound (`:1466`).
- In an effect block a false condition skips the remaining siblings as well
  (`:1545` jumps to the end of the block).
- `ctx_set` does not check the number of argument slots, `ctx_set_as` does.
- A list operation before anything has typed its list uses the list's final type,
  also when a later `map` changed it. Without conditions that does no harm, since
  such a list is empty then (`TypingInv`); a conditional `map` that is skipped
  leaves elements of the type before.

## 6. Proofs

`ExecuteFramesProofs` proves, for all constants satisfying the named assumptions and
`SitesFresh`:

| theorem | says |
|---|---|
| `FramesLinked` | `Spec => []FrameInv` |
| `TypeCorrect` | `Spec => []TypeOK` |
| `SlotsIsolated` | `Spec => []FramesDisjoint` |
| `RunsLeaveContextReusable` | `Spec => []ContextReusable` |
| `CallersAreKept` | `Spec => CallersKept` |

Assumptions: `ShapesAssumption` (what the code generator of `execute` checks:
bound slots exist, no caller list bound twice, in/out targets exist),
`LimitsAssumption` (`finalize_resource_usage` rejects a script whose own
argument slots or saved values do not fit), `UnsetAssumption`, and `SitesFresh`
for call sites, which the second finding shows to be needed.

The argument. `FramesDisjoint` is not inductive: nothing in it says where the
next frame begins, nor that a frame has room for what it will still push.
`FrameInv` adds: the outermost script runs at base zero (`Grounded`); each frame
has by its own bases the room it was compiled for (`AllFit`); each waiting frame
is linked to the one it called, which begins exactly where it ends and whose
result will fit (`AllLinked`); frames lie pairwise one above the other
(`AllBelow`); and the phase of the innermost frame says how many list slots its
call site holds open (`TopFit`). A list base is *not* linked by an equation:
after the depth check has thrown, the vector is longer than the frames account
for, and the invariant must survive that; the safety theorems hold in spite of
the first finding. Three lemma groups carry the proof: `Kept` for steps that
leave all frames but the innermost alone, `ExecuteScriptInv` for the push of a
frame, `CaughtLists` with `ReturnInv` and `UnwindCalleeInv` for its removal,
where the caller's facts are found in the locals of the frame that goes.

`CallersAreKept` rests on the same invariant. `WaitingBelow` reads off it that
everything a waiting frame owns lies below the bases of the innermost one;
`WaitingKept` reduces the property to three facts about a step: it keeps the
operands, the scalars and the lists below those bases (for the step that enters
a callee, below the callee's; for the one that leaves it, the lists below the
caller's). Each action then has a lemma of its own.

`ListPipelineProofs` proves, for all programs, lists and bodies satisfying the
assumptions of `ListPipeline` (there are finitely many lists; a body is a function
on elements and the lists it needs are counted):

| theorem | says |
|---|---|
| `PipelineInvHolds` | `Spec => []PipelineInv` |
| `ListsTypeCorrect` | `Spec => []TypeOK` |
| `ReferencesHold` | `Spec => []ReferenceHolds` |
| `FailuresLoseNothing` | `Spec => []FailureLosesNothing` |

`ReferenceHolds` says nothing of the compiler, though it is the compiler that makes
it true. `PipelineInv` adds: each command that was accepted has a body that leaves
its list alone and whose frames `max_lists` counts, and leads no further than where
its statement will end once it is compiled (`CodeSound`, with `Coming` for what is
still to come); the stages follow each other, so that what runs was accepted and
`cap` is what was counted (`Staged`); and half way through an operation its list has
its length, only elements of before, and an untouched rest (`HalfWay`, with `acc.out
< i`: filter never writes ahead of where it reads). `WithOpFacts` carries this
through the compiler, `NoMove` turns the count into "no body moves the lists",
`CompactedFacts` is filter's write; one lemma per action puts them together.

The second half of `ListPipelineProofs` and `ListMeaningProofs` prove the other two
properties of lists, from `PipelineInv` and an inductive invariant each:

| theorem | says |
|---|---|
| `TypingInvHolds` | `MapsUnconditional`: `Spec => []TypingInv` |
| `ElementsAreTyped` | `MapsUnconditional`: `Spec => []ElementsHaveTheirType` |
| `MeaningInvHolds` | `Spec => []MeaningInv` |
| `OperationsDoWhatTheySay` | `Spec => DoesWhatItSays` |

`MapsUnconditional` says that no program maps a list under a condition. That is
the case in which the code does mix types (section 5), so the hypothesis cannot be
dropped. `TypingInv` defines what the compiler knows of a list before command `p`
(`Known`) from the commands before `p` alone, so that it means the same while the
program grows and while it runs; each command was compiled against it, and at run
time list `l` holds just that type. A condition may skip commands: that changes no
knowledge, since none of those is a map and what is left unfilled is empty.

`MeaningInv` says of the elements looked at so far what `DoesWhatItSays` says of
all: the decisive element of `any`, `first`, `last` ...; the sum, as the value of a
function defined by recursion on the position; the best of `min` and `max`; that
filter has written the `Rank` elements it kept, in order. `SumsFacts` and `RankFacts`
are the lemmas on those two functions.

`ExecuteFramesImplProofs` proves the refinement:

| theorem | says |
|---|---|
| `ListFramesGapless` | `SitesFresh`: `Spec /\ []TooDeepHarmless => []ListFrameInv` |
| `CallsAreIsolated` | `SitesFresh`: `Spec /\ []TooDeepHarmless => CallsIsolated` |
| `ListMutationsRetained` | `SitesFresh`: `Spec /\ []TooDeepHarmless => MutationsRetained` |
| `NestedCallsAreIsolated` | `SitesFresh` and `NestsWithin`: `Spec => CallsIsolated /\ MutationsRetained` |

`TooDeepHarmless` is a hypothesis on the run: whenever the depth limit is met, the
callee has no lists. The first finding shows it to be needed, `recursion`, in which
the limit is met, that it can hold there. `NestsWithin` is a condition on the
program alone: the scripts have ranks up to `MaxDepth` that fall with every call.
A script is compiled after the ones it executes, so every program has such ranks
unless a container is parsed into again after it was handed out; the program of
`chain` has them.

The argument has four layers.

1. *Places.* One level's swaps are an involution (`SwappedTwice`), so `Place` is
   one-to-one (`PlaceIsOneToOne`) and stays within the vector (`PlaceWithin`). Levels
   lie one above the other (`Stacked`), so a script's own lists are out of reach of the
   swaps below it (`OwnIsBeyond`), and its references sit, after all swaps below it,
   exactly in the slots its opcodes index (`RefsSit`, by induction on the level).
2. *Changes of the vector.* Writing a slot of the innermost script writes the list
   its reference names and no other (`HomeWrite`, `HostWritten`, `OwnWritten`); running
   a site's swaps while its level turns from lent to unlent, or back, leaves `Home`
   as it is (`HomeSwap`); pushing an unlent level and dropping slots off the end
   change no list that remains (`HomePush`, `HomeCut`).
3. *Environments.* `Kept` frames have their environments kept (`KeptEnvFrame`, on top
   of `CallersAreKept`), so each step is a question about the innermost one or two.
4. *Steps.* One lemma per action: `...Maps` for those that are steps of `ScriptCalls`,
   `...Unseen` for those that are not: opening and dropping a list frame, the swaps,
   the pending write-backs, and every frame an exception leaves.

`OverloadChoiceProofs` proves the properties of the registry, for all conversions,
signatures, priorities and calls satisfying `OverloadAssumption` (costs are not
negative, which `register_implicit_conversion` checks; there is room for the
system's own conversion; a call has arguments):

| theorem | says |
|---|---|
| `ChoiceInvHolds` | `Spec => []ChoiceInv` |
| `ChoiceTypeCorrect` | `Spec => []TypeOK` |
| `SearchIsRight` | what `CheapestChain` says, of every list of edges |
| `ConversionsAreCheapest` | `Spec => []CheapestChain` |
| `OrderNeverMatters` | `Spec => []OrderIsIrrelevant` |
| `BestOverloadIsCalled` | `Spec => []BestOverload` |
| `ExactMatchIsCalled` | `Spec => []ExactMatchWins` |

`ChoiceInv` is small: edges and overloads are distinct, and the outcome is the
resolution of the last call. The work is in the operators.

1. *The search* (`PathIs`). Half way through the loop (`Searching`) a set X of types
   is expanded; each open node stands for a chain, costs no less than any expanded
   type, and is stale if its own type is one of them; each type that is known but
   not expanded has an open node that is not stale; each edge out of X is accounted
   for. `Frontier`: a chain cheaper than every open node ends in X. So the node that
   is taken is cheapest for its type (`TakeNode`), and a search without open nodes
   has seen every type that can be reached. `ExpandStep` also counts: an edge opens one
   node at most and is followed once, so turns and open nodes together never exceed
   the edges out of X by more than one, and the loop has ended in time. Sums past
   the limit are capped; `CappedFacts` says that capping keeps the order and commutes
   with further additions, so a capped chain is never taken for a cheap one.
2. *The candidates* (`WinnerIs`). Candidates are ordered, ties included
   (`BetterFacts`, `BetterIsTransitive`). After each overload the best so far is one
   that no earlier candidate beats, and the flag is set exactly when another ties with
   it (`Chosen`, `ContestStep`). That describes the winner by the *set* of candidates:
   another order gives the same one or the same ambiguity (`WinnersTie`), and the
   winners are those that come first in the order of `BestOverload` (`BestIsChosen`,
   `BestAreWinners`).
3. *The costs*. `ArgumentsAgree`: the accumulated cost, which a nested call resets,
   is the sum over the weighed arguments. `CostFacts`, `ChargeFacts`: where edges cost
   something, a conversion that costs nothing converts nothing. So two candidates
   without a cost take the same arguments, those the call has. In one scope they would
   be registered twice, hence an exact match has no rival; in an untyped scope they may
   belong to two scopes, which is the exception `ExactMatchWins` states.

tlapm does no induction over data. `NaturalFacts` derives it where a proof needs it:
every non-empty set of numbers has a least element, hence a set that contains zero
and is closed under successor is all of them; a function defined by recursion is
shown to exist for every length in this way, and `CHOOSE` then gives its equation.

`ScriptRunProofs` proves, for every stream, table of functions, width of integers
and set of hosts, whoever made the stream:

| theorem | says |
|---|---|
| `CertifiedIsNeverMisread` | `RunSpec /\ []Certified => []NeverMisread` |
| `CertifiedStaysWithinReserve` | `RunSpec /\ []Certified => []WithinReserve` |
| `RunTypeCorrect` | `RunSpec /\ []Certified => []TypeOK` |
| `CertifiedEndsClean` | a run that comes to its end leaves no operand |
| `CertifiedGoesForward` | each step fails or leads to a later command |

and `DescribedRunProofs`:

| theorem | says |
|---|---|
| `MarkedIsSilent` | `DescriptionSpec /\ []Certified /\ []EffectsMarked => []DescribingIsSilent` |
| `DescriptionIsOfTheRun` | `DescriptionSpec /\ []Certified /\ []EffectsStandAlone => []DescribedAsRun` |

`Certified` is a statement on the stream (and on the one test of `random`), not on
its runs: it is decided once, when compilation ends, before any run. The theorems
are the step from there to every run, in which the machine sees values. `scripts` and
`described` check `Certified` and `EffectsStandAlone` of what the compiler makes, so
the hypotheses are met; every behaviour of `Spec` in `CompiledScript` is one of
`RunSpec`, and of `DescribedSpec` one of `DescriptionSpec`: their steps leave `script`
alone and are otherwise the same. `FunctionsAssumption`: the parameters of a
registered function are a sequence of types.

The argument. `NeverMisread` is not inductive, since a step may leave the next command
what it must not find. `RunInPlace` is: the layout of the stack is one of those the
command is certified for (a command that fails leaves the stack as it was), the
arguments have the types declared for them, and an error, if there is one, is one of
the script's own and not for want of an operand. Each group of opcodes has a lemma
that it leads from a place to a place: it passes its own test (`Fits`), it replaces or
cuts out just what `Through` says, and where it goes on is one of `Follows`. For the branches, the layouts of both ways are
there; for `jumpinvalid` and the guard of `?=`, the layout says when the other way is
possible at all. `GivesArguments`, the host's part, is needed for the first step only.

Describing needs two more invariants. `DescribingInv`: besides, the log of the walk
is empty, since only a loud command writes to it and those are left out; here the walk
need not be in place, for a walk that is out of step is just as silent. `FollowingInv`
says that the walk goes where the run went: if the run came to its end, the machine of
the walk is, at each command the run was at, the machine the run had there but for the
log, and is not at a command the run was not at. The run's machines (`before`) are no
part of the model: the invariant says that there is such a trace, and each step of the
run extends it. So a value that is sampled is the one the run left there. That no
opcode looks at the log is one lemma for each group of opcodes again.

Only model-checked:

- everything that speaks of the compiler, whose operators are recursive: `PathsAgree`,
  `RunsAsWritten`, `Certified`, `EffectsStandAlone`, `DescribedAsUnoptimised`, and the
  properties of `StreamedScript`, whose runs would be covered by the same lemmas on
  commands, but which speak of what it compiled;
- `LastBranchTaken`, which is arithmetic on floating-point weights;
- `TooDeepHarmless`, a hypothesis of the refinement;
- liveness (`Terminates`), though `CertifiedGoesForward` is the reason it holds.

## 7. Not modelled

- Pseudo-random numbers and seeding: rolls are chosen freely. Several threads may
  parse with one `system`; the only shared state is one atomic counter.
- The tavl parser (external), the tree walk that turns its output into blocks,
  source positions and error texts.
- Opcodes: the unchecked twins, division, host-defined arithmetic types,
  iterators registered with `register_function_iter`.
- Compiler: optional and enum arguments, `on_effect` names, custom descriptions.
- Lists: `is_in` and `remove_from`, maps whose body yields different types, NaN,
  rolls in a body, a second run without `create_lists()`.
- Streams: a host that calls `parse()` again after the end of input.
- Index fields packed relative to another command, which only list operations and
  iterators record for the optimiser.
- Type traits, formatting, build files, examples and benchmarks hold no state of
  the running program.

## 8. Running

    tlc -workers 2 -config scripts.cfg MCCompiledScript
    tlc -workers 2 -config described.cfg MCDescribedScript
    tlc -workers 2 -config rows.cfg MCStreamedScript
    tlc -workers 2 -config overloads.cfg MCOverloadChoice
    tlc -workers 2 -config lists.cfg MCListPipeline
    tlc -workers 2 -config chain.cfg MCExecuteFrames
    tlapm ExecuteFramesProofs.tla
    tlapm ExecuteFramesImplProofs.tla
    tlapm ListPipelineProofs.tla
    tlapm ListMeaningProofs.tla
    tlapm OverloadChoiceProofs.tla
    tlapm ScriptRunProofs.tla
    tlapm DescribedRunProofs.tla
    tlapm NaturalFacts.tla
