---------------------------- MODULE StreamedScript --------------------------
(***************************************************************************)
(* A container that is filled row by row (the streaming system::parse):    *)
(* every row is compiled, checked and optimised in the context the rows    *)
(* before it left, a row with an error is taken back, and the root's scope *)
(* stays open until the input ends.  Then the host runs what was accepted. *)
(*                                                                         *)
(* Lexing is the parser library's: a row arrives as a tree, or as a syntax *)
(* error.                                                                  *)
(***************************************************************************)
EXTENDS Codegen, Optimizer, ScriptMeaning

CONSTANTS
  Streams,    \* the streams: [ret, root, fold, opt, rows], rows a set of trees
  MaxRows,    \* rows a stream may have
  Hosts,      \* what a script may find when it runs (see ScriptMachine)
  HostStack   \* operand slots of the host's context

VARIABLES
  stream,     \* the stream being read
  read,       \* rows read so far
  cx,         \* the container and the parse context
  accepted,   \* the rows that were not taken back, in order
  reserve,    \* container::max_stack
  m, env,     \* the run and the host's answers
  phase       \* "open", "closed", "running", "refused" or "done"

vars == <<stream, read, cx, accepted, reserve, m, env, phase>>

NoHost == [args |-> <<>>]
RootSlots(s) == IF s.root = "" THEN 0 ELSE 1

StartStream(s) == InitContext(s.ret, s.root, s.fold)

\* The end of a row, with the root's scope left open.
ReturnOfRow(s, c) == Emit(Check(c, Top(c) = s.ret, "return type"), "pushreturn", 0)

RowValue(s, c) ==
  IF s.ret = "void" THEN c
  ELSE ReturnOfRow(s, IF c.types # <<>> /\ Top(c) # s.ret /\ CanConvert(Top(c), s.ret) THEN ConvertTop(c, s.ret) ELSE c)

NothingLeft(s, c) == Check(c, Depth(c) = RootSlots(s), "values left")

EndRow(s, c) == NothingLeft(s, RowValue(s, Check(DropIgnored(c, 0), s.root # "" => Len(c.scopes) = 1, "open scope")))

Translate(s, c, row) ==
  EndRow(s, Dispatch([c EXCEPT !.exp = s.ret], Node(RootBlock(s.ret), <<row>>), ""))

OptimizeRow(s, c) == IF s.opt /\ ~Failed(c) THEN OptimizeCommands(c) ELSE c

CompileParsed(s, parsed) == OptimizeRow(s, WithinLimits(parsed))
CompileRow(s, c, row) == CompileParsed(s, Translate(s, c, row))

\* Bug: the first command of the row stays.
TruncatedLate(before, after) ==
  [after EXCEPT !.code = SubSeq(@, 1, Len(before.code) + IF Len(@) = Len(before.code) THEN 0 ELSE 1),
                !.descs = before.descs, !.dead = before.dead, !.fields = before.fields]

\* row_checkpoint: what only grows is cut back to the length it had.
Truncated(before, after) ==
  [after EXCEPT !.code = SubSeq(@, 1, Len(before.code)), !.descs = SubSeq(@, 1, Len(before.descs)),
                !.dead = SubSeq(@, 1, Len(before.dead)), !.fields = before.fields]

\* Bug: the operands the row left stay on the parse-time stack.
RestoreWithTypes(before, after) ==
  [Truncated(before, after) EXCEPT !.args = before.args, !.saved = before.saved, !.scopes = before.scopes,
     !.exp = before.exp, !.lvalue = before.lvalue, !.prev = before.prev, !.err = ""]

\* Bug: the slots the row named stay named.
RestoreWithSlots(before, after) ==
  [Truncated(before, after) EXCEPT !.types = before.types, !.scopes = before.scopes,
     !.exp = before.exp, !.lvalue = before.lvalue, !.prev = before.prev, !.err = ""]

\* row_checkpoint::restore: the small tables are copies, and what the exception
\* unwinds its owners restore.  The deepest stack, the states drawn for
\* `chance`, the cost and the scope type stay as the row left them.
RestoreRow(before, after) ==
  [Truncated(before, after) EXCEPT !.args = before.args, !.saved = before.saved,
     !.types = before.types, !.scopes = before.scopes,
     !.exp = before.exp, !.lvalue = before.lvalue, !.prev = before.prev, !.err = ""]

\* Bug: the root is forgotten, not erased.
CloseRootTypesOnly(s, c) == IF s.root # "" /\ Len(c.scopes) = 1 THEN [c EXCEPT !.types = <<>>, !.scopes = <<>>] ELSE c

CloseRoot(s, c) == IF s.root # "" /\ Len(c.scopes) = 1 THEN ScopeExit(c) ELSE c

-----------------------------------------------------------------------------
Init ==
  /\ stream \in Streams /\ read = 0 /\ accepted = <<>> /\ reserve = 0
  /\ cx = StartStream(stream)
  /\ env = NoHost /\ m = StartRun(NoHost, NewContext("void", FALSE))
  /\ phase = "open"

\* A row may be all that was left: it comes with the end of the input.
ReadRow ==
  /\ phase = "open" /\ read < MaxRows
  /\ read' = read + 1
  /\ phase' \in {"open", "closed"}

\* `c` is what the row was compiled to.
AcceptRow(row, c) ==
  /\ ~Failed(c)
  /\ ReadRow
  /\ cx' = IF phase' = "closed" THEN CloseRoot(stream, c) ELSE c
  /\ accepted' = Append(accepted, row)
  /\ reserve' = c.peak
  /\ UNCHANGED <<stream, m, env>>

\* finalize_resource_usage writes the container before it checks the limits.
\* The return from the catch block is before the root is closed.
RejectRow(parsed, c) ==
  /\ Failed(c)
  /\ ReadRow
  /\ cx' = RestoreRow(cx, c)
  /\ reserve' = IF Failed(parsed) THEN reserve ELSE c.peak
  /\ UNCHANGED <<stream, accepted, m, env>>

\* Reported before the row touches anything, and before the root is closed.
SyntaxError ==
  /\ ReadRow
  /\ UNCHANGED <<stream, cx, accepted, reserve, m, env>>

FinishRow(row, parsed, c) == AcceptRow(row, c) \/ RejectRow(parsed, c)

OneRow(row, parsed) == FinishRow(row, parsed, CompileParsed(stream, parsed))

ParseRow ==
  \/ /\ phase = "open" /\ read < MaxRows
     /\ \E row \in stream.rows : OneRow(row, Translate(stream, cx, row))
  \/ SyntaxError

\* The input ends between two rows.
EndOfInput ==
  /\ phase = "open"
  /\ cx' = CloseRoot(stream, cx)
  /\ phase' = "closed"
  /\ UNCHANGED <<stream, read, accepted, reserve, m, env>>

\* process() refuses a context with less room than the container asks for.
Begin ==
  /\ phase = "closed"
  /\ env' \in Hosts
  /\ m' = StartRun(env', cx)
  /\ phase' = IF reserve > HostStack THEN "refused" ELSE "running"
  /\ UNCHANGED <<stream, read, cx, accepted, reserve>>

Running == phase = "running" /\ m.err = "" /\ m.pc <= Len(cx.code)

Step ==
  /\ Running
  /\ m' = Exec(m, cx.code[m.pc])
  /\ UNCHANGED <<stream, read, cx, accepted, reserve, env, phase>>

End ==
  /\ phase = "running" /\ ~Running
  /\ phase' = "done"
  /\ UNCHANGED <<stream, read, cx, accepted, reserve, m, env>>

Next == ParseRow \/ EndOfInput \/ Begin \/ Step \/ End

Spec == Init /\ [][Next]_vars

-----------------------------------------------------------------------------
\* Between two rows nothing but the root is on the parse-time stack.
TypeOK ==
  /\ stream \in Streams /\ read \in 0 .. MaxRows /\ Len(accepted) <= read
  /\ phase \in {"open", "closed", "running", "refused", "done"}
  /\ cx.err = "" /\ cx.exp = stream.ret /\ cx.lvalue /\ cx.prev = 0
  /\ phase = "open" => Depth(cx) = RootSlots(stream) /\ Len(cx.scopes) = RootSlots(stream)
  /\ phase = "closed" => Depth(cx) = Len(cx.scopes)

\* What a host sees of a container, and what the rows after read from it; the
\* states drawn for `chance` are told apart by nothing here.
Image(c) ==
  [code |-> [k \in DOMAIN c.code |-> IF c.code[k].op = "chance" THEN Cmd("chance", 0, 0, "") ELSE c.code[k]],
   descs |-> c.descs, args |-> c.args, saved |-> c.saved, types |-> c.types, scopes |-> c.scopes,
   fields |-> c.fields, dead |-> c.dead]

\* A rejected row leaves nothing behind (system.cpp row_checkpoint): the
\* container, with its slot tables, branch targets and description nodes, is
\* the one the accepted rows alone give, whatever was rejected between them.
RejectedRowsLeaveNothing ==
  phase = "open" => Image(cx) = Image(FoldLeft(LAMBDA c, row : CompileRow(stream, c, row), StartStream(stream), accepted))

\* The rows one after the other, each a root block of its own.
NextRow(s, acc, row) == IF acc.st.err # "" THEN acc ELSE Eval(Node("__empty_lvalue", <<row>>), s.ret, acc.st)

ResultOfRows(s, rows, acc) ==
  Outcome(IF s.ret = "void" \/ rows = <<>> THEN Val("void", 0) ELSE As(acc.v, s.ret), acc.st.log, acc.st.err)

MeaningOfRows(s, rows, host) ==
  ResultOfRows(s, rows, FoldLeft(LAMBDA acc, row : NextRow(s, acc, row), Result(None, StartOf(host, s.root)), rows))

\* A run does what the accepted rows say, in the order they came, and nothing
\* a rejected row said: values saved by one row are read by the next, jumps
\* lead out of their own row into the next one, optimised or not.
RunsTheAcceptedRows == phase = "done" => SameOutcome(m, MeaningOfRows(stream, accepted, env))

\* A run of a stream finds the types its rows were compiled for, stays within
\* container::max_stack and, if the root was closed, leaves no operand.
EndsClean ==
  /\ m.err \notin {"operand", "argument type"}
  /\ phase = "running" => Len(m.stack) <= reserve \/ accepted = <<>>
  /\ phase = "done" /\ m.err = "" /\ cx.scopes = <<>> => m.stack = <<>>

\* Every stream is closed, and its run leaves no operand behind (system.cpp:
\* the root scope "is closed once, at the end of input"; tests/audit2.cpp runs
\* a stream with a rejected row and checks that the stack is empty).
LeavesNoOperand == phase = "done" /\ m.err = "" => m.stack = <<>>
=============================================================================
