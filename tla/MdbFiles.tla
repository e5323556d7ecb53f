------------------------------- MODULE MdbFiles -------------------------------
(***************************************************************************)
(* Mono MDB symbols (cecil-mdb), and how a module takes its symbols from   *)
(* such a file and writes them to one (assembly.rs).                       *)
(*                                                                         *)
(* A method's lines are a program for a small machine: an opcode either    *)
(* moves the machine's address, line or file, or appends a row, or does    *)
(* all at once in a single byte.  A program is a sequence of numbers, an   *)
(* operand is one; an offset in the file stands for what is there.         *)
(***************************************************************************)
EXTENDS Workbench

CONSTANTS
  LineBase,         \* least line step of a special opcode (-1)
  LineRange,        \* how many line steps they have (8)
  OpcodeBase,       \* the first of them (9)
  LastOpcode,       \* the greatest byte (255)
  MdbCalls,         \* calls of a client of the writer
  MdbDebugs,        \* symbols of modules: documents and points
  MdbRawFiles       \* files to read

EndSequence == 1
NegateIsHidden == 64
ExtensionsEnd == 127
NoEndInfo == 16777215

-----------------------------------------------------------------------------
(* The machine.  "mode" is what the next number is: 0 an opcode, 2 to 4 the *)
(* operand of that opcode, -1 the size of an extended opcode, -2 its first  *)
(* byte, -3 the rest of its payload, 1 what follows the program.            *)

MachineStart == [mode |-> 0, skip |-> 0, line |-> 1, offset |-> 0, file |-> 1, hidden |-> FALSE, modified |-> FALSE,
                 entries |-> <<>>, rest |-> <<>>]
Row_(m) == [file |-> m.file, row |-> m.line, offset |-> m.offset, hidden |-> m.hidden, column |-> Missing, end |-> Missing]
Emitted_(m) == [m EXCEPT !.entries = Append(@, Row_(m)), !.modified = FALSE]
MaxAddressIncrement(p) == (LastOpcode - p.first) \div p.range

Special(m, opcode, p) ==
  Emitted_([m EXCEPT !.offset = @ + (opcode - p.first) \div p.range, !.line = @ + p.base + ((opcode - p.first) % p.range)])
Standard(m, opcode, p) ==
  CASE opcode = 0 -> [m EXCEPT !.mode = -1]
    [] opcode = 1 -> Emitted_(m)
    [] opcode \in 2..4 -> [m EXCEPT !.mode = opcode]
    [] opcode = 8 -> [m EXCEPT !.offset = @ + MaxAddressIncrement(p), !.modified = TRUE]
    [] OTHER -> Failed
Opcode(m, opcode, p) == IF opcode # 0 /\ opcode >= p.first THEN Special(m, opcode, p) ELSE Standard(m, opcode, p)
Operand(m, n) ==
  CASE m.mode = 2 -> [m EXCEPT !.offset = @ + n, !.modified = TRUE, !.mode = 0]
    [] m.mode = 3 -> [m EXCEPT !.line = @ + n, !.modified = TRUE, !.mode = 0]
    [] m.mode = 4 -> IF n < 0 THEN Failed ELSE [m EXCEPT !.file = n, !.modified = TRUE, !.mode = 0]
(* A payload is skipped before its opcode is acted upon.                    *)
Then(m, size, mode) == IF size = 1 THEN [m EXCEPT !.mode = mode] ELSE [m EXCEPT !.mode = -3, !.skip = [left |-> size - 1, mode |-> mode]]
Extended_(m, ext, size) ==
  CASE ext = EndSequence -> Then(IF m.modified THEN Emitted_(m) ELSE m, size, 1)
    [] ext = NegateIsHidden -> Then([m EXCEPT !.hidden = ~@, !.modified = TRUE], size, 0)
    [] ext \in (NegateIsHidden + 1)..ExtensionsEnd -> Then(m, size, 0)
    [] OTHER -> Failed
Skipped(m) == Then([m EXCEPT !.skip = 0], m.skip.left, m.skip.mode)
MachineStep(m, n, p) ==
  IF m = Failed THEN Failed
  ELSE CASE m.mode = 0 -> Opcode(m, n, p)
         [] m.mode \in 2..4 -> Operand(m, n)
         [] m.mode = -1 -> IF n = 0 THEN Failed ELSE [m EXCEPT !.mode = -2, !.skip = n]
         [] m.mode = -2 -> Extended_(m, n, m.skip)
         [] m.mode = -3 -> Skipped(m)
         [] m.mode = 1 -> [m EXCEPT !.rest = Append(@, n)]

(* Columns follow the program, of rows whose line is not negative, and then *)
(* ends: a delta, and a column unless there is no end.                      *)
ReadsColumn(e) == e.row >= 0
WithColumn(acc, e) ==
  IF acc = Failed THEN Failed
  ELSE IF ~ReadsColumn(e) THEN [acc EXCEPT !.entries = Append(@, e)]
  ELSE IF acc.rest = <<>> THEN Failed
  ELSE [entries |-> Append(acc.entries, [e EXCEPT !.column = Head(acc.rest)]), rest |-> Tail(acc.rest)]
EndOf(acc, e, delta, more) ==
  IF delta = NoEndInfo THEN [entries |-> Append(acc.entries, e), rest |-> more]
  ELSE IF more = <<>> THEN Failed
  ELSE [entries |-> Append(acc.entries, [e EXCEPT !.end = <<e.row + delta, Head(more)>>]), rest |-> Tail(more)]
WithEnd(acc, e) ==
  IF acc = Failed THEN Failed ELSE IF acc.rest = <<>> THEN Failed ELSE EndOf(acc, e, Head(acc.rest), Tail(acc.rest))
Section(acc, included, ends) ==
  IF acc = Failed \/ ~included THEN acc
  ELSE FoldLeft(LAMBDA a, e : IF ends THEN WithEnd(a, e) ELSE WithColumn(a, e), [entries |-> <<>>, rest |-> acc.rest], acc.entries)
Sections(acc, m) == Section(Section(acc, m.columns, FALSE), m.ends, TRUE)
Ended_(machine) == IF machine = Failed THEN Failed ELSE IF machine.mode # 1 THEN Failed ELSE [entries |-> machine.entries, rest |-> machine.rest]
DecodeLines(m, p) ==
  Sections(Ended_(FoldLeft(LAMBDA acc, n : MachineStep(acc, n, p), MachineStart, m.program)), m)

-----------------------------------------------------------------------------
(* Reading a file.                                                          *)

ParametersHold(p) == p.range > 0 /\ p.first > 0
(* A table is as long as its count says, and no number in it is negative.   *)
TableHolds(count, rows) == count >= 0 /\ count = Len(rows)
UnitHolds(u) == u.primary >= 0 /\ \A i \in DOMAIN u.includes : u.includes[i] >= 0
MethodHolds(m) == m.unit >= 0
OpenMdb(file) ==
  IF /\ ParametersHold(file.parameters)
     /\ TableHolds(file.counts[1], file.sources)
     /\ TableHolds(file.counts[2], file.units) /\ \A i \in DOMAIN file.units : UnitHolds(file.units[i])
     /\ TableHolds(file.counts[3], file.methods) /\ \A i \in DOMAIN file.methods : MethodHolds(file.methods[i])
  THEN file ELSE Failed
LinesOf_(entries) == [i \in DOMAIN entries |-> <<entries[i].offset, entries[i].row>>]
DecodedLines(read) == IF read = Failed THEN Failed ELSE LinesOf_(read.entries)
MethodLines(file, m) ==
  IF m.program = Missing THEN Missing
  ELSE IF file.parameters.first > LastOpcode THEN Failed
  ELSE DecodedLines(DecodeLines(m, file.parameters))

-----------------------------------------------------------------------------
(* Writing a method's lines: the machine is led from row to row.            *)

DefaultParameters == [base |-> LineBase, range |-> LineRange, first |-> OpcodeBase]
LargestStep == MaxAddressIncrement(DefaultParameters)
FileCells(file, last) == IF file = last THEN <<>> ELSE <<4, file>>
AddressCells(step) == IF step < LargestStep THEN <<>> ELSE IF step < 2 * LargestStep THEN <<8>> ELSE <<2, step>>
AddressLeft(step) == IF step < LargestStep THEN step ELSE IF step < 2 * LargestStep THEN step - LargestStep ELSE 0
(* A mutation: the range of special opcodes is one line too long.           *)
RowCellsWide(step, left) ==
  IF step \in LineBase..(LineBase + LineRange) THEN <<(step - LineBase + LineRange * left + OpcodeBase) % (LastOpcode + 1)>>
  ELSE <<3, step>> \o (IF left = 0 THEN <<>> ELSE <<2, left>>) \o <<1>>
RowCells(step, left) ==
  IF step \in LineBase..(LineBase + LineRange - 1) THEN <<(step - LineBase + LineRange * left + OpcodeBase) % (LastOpcode + 1)>>
  ELSE <<3, step>> \o (IF left = 0 THEN <<>> ELSE <<2, left>>) \o <<1>>
LeadTo(e, last) ==
  FileCells(e.file, last.file) \o AddressCells(e.offset - last.offset)
    \o RowCells(e.row - last.row, AddressLeft(e.offset - last.offset))
BeforeFirst == [file |-> 1, row |-> 1, offset |-> 0]
ColumnCells(lines) == [i \in DOMAIN SelectSeq(lines, ReadsColumn) |-> -1]
EncodeLines(lines) ==
  FlattenSeq([i \in DOMAIN lines |-> LeadTo(lines[i], IF i = 1 THEN BeforeFirst ELSE lines[i - 1])])
    \o <<0, 1, EndSequence>> \o ColumnCells(lines)

-----------------------------------------------------------------------------
(* The writer.                                                              *)

NewMdbWriter == [sources |-> <<>>, units |-> <<>>, methods |-> <<>>]
PositionIn(s, x) == IF x \in Range(s) THEN CHOOSE i \in DOMAIN s : s[i] = x ELSE 0
AddSource(w, path) == IF path \in Range(w.sources) THEN w ELSE [w EXCEPT !.sources = Append(@, path)]
AddCompileUnit(w, files) ==
  [w EXCEPT !.units = Append(@, [primary |-> IF files = <<>> THEN 0 ELSE files[1], includes |-> SubSeq(files, 2, Len(files))])]
MethodOf_(w, token) == PositionIn([i \in DOMAIN w.methods |-> w.methods[i].token], token)
AtOffset(lines, offset) == {i \in DOMAIN lines : lines[i].offset = offset}
MarkedRow(lines, p) ==
  IF AtOffset(lines, p.offset) = {} THEN Append(lines, p)
  ELSE [lines EXCEPT ![Max(AtOffset(lines, p.offset))] = IF p.row > @.row THEN p ELSE @]
(* Rows of distinct offsets, in order of them.                              *)
InOffsetOrder(lines) ==
  [k \in DOMAIN lines |->
    lines[CHOOSE i \in DOMAIN lines : k = 1 + Cardinality({j \in DOMAIN lines : lines[j].offset < lines[i].offset})]]
WithPoints_(lines, points) == InOffsetOrder(FoldLeft(MarkedRow, lines, points))
WithMethod_(w, token, unit_) ==
  IF MethodOf_(w, token) # 0 THEN w
  ELSE [w EXCEPT !.methods = Append(@, [token |-> token, unit |-> unit_, lines |-> <<>>, locals |-> <<>>])]
MarkedAt(w, i, points) == [w EXCEPT !.methods[i].lines = WithPoints_(@, points)]
MarkIn(w, token, points) == MarkedAt(w, MethodOf_(w, token), points)
MarkSequencePoints(w, token, unit_, points) == MarkIn(WithMethod_(w, token, unit_), token, points)
AddMethodLines(w, token, unit_, entries, source) ==
  MarkSequencePoints(w, token, unit_, [i \in DOMAIN entries |-> [offset |-> entries[i][1], row |-> entries[i][2], file |-> source]])
AddLocalVariable(w, token, name) ==
  IF MethodOf_(w, token) = 0 THEN Failed ELSE [w EXCEPT !.methods[MethodOf_(w, token)].locals = Append(@, name)]

ByToken(methods) ==
  [k \in DOMAIN methods |->
    methods[CHOOSE i \in DOMAIN methods : k = 1 + Cardinality({j \in DOMAIN methods : methods[j].token < methods[i].token})]]
MethodWritten(m) ==
  [token |-> m.token, unit |-> m.unit, program |-> EncodeLines(m.lines), locals |-> m.locals, columns |-> TRUE, ends |-> FALSE]
WriteSorted(w, methods) ==
  [sources |-> w.sources, units |-> w.units, methods |-> [i \in DOMAIN methods |-> MethodWritten(methods[i])],
   counts |-> <<Len(w.sources), Len(w.units), Len(methods)>>, parameters |-> DefaultParameters]
FinalizeMdb(w) == WriteSorted(w, ByToken(w.methods))

-----------------------------------------------------------------------------
(* A module's symbols: documents, and a method's points by document.        *)

Before(n) == Max({n - 1, 0})
DocumentOfUnit(file, m) ==
  IF Before(m.unit) < Len(file.units) THEN Before(file.units[Before(m.unit) + 1].primary) ELSE 0
PointsFor(lines, doc) == <<[document |-> doc, points |-> [i \in DOMAIN lines |-> <<lines[i][1], Max({lines[i][2], 0})>>]]>>
AddPoints(debug, token, lines, doc) ==
  IF lines = Failed \/ debug = Failed THEN Failed
  ELSE IF lines \in {Missing, <<>>} THEN debug
  ELSE [debug EXCEPT !.points = (token :> PointsFor(lines, doc)) @@ @]
AttachMdb(file) ==
  IF file = Failed THEN Failed
  ELSE FoldLeft(LAMBDA debug, m : AddPoints(debug, m.token, MethodLines(file, m), DocumentOfUnit(file, m)),
                [documents |-> file.sources, points |-> <<>>], file.methods)

AllPoints(groups) == FlattenSeq([i \in DOMAIN groups |-> groups[i].points])
FirstDocument(groups) == IF groups = <<>> THEN 0 ELSE groups[1].document
UnitFor(debug, groups) == IF FirstDocument(groups) < Len(debug.documents) THEN FirstDocument(groups) + 1 ELSE 1
SourcesAdded(debug) == FoldLeft(AddSource, NewMdbWriter, debug.documents)
UnitsAdded(w, debug) == FoldLeft(LAMBDA acc, path : AddCompileUnit(acc, <<PositionIn(acc.sources, path)>>), w, debug.documents)
BuildMdb(debug) ==
  FoldLeft(LAMBDA w, token : AddMethodLines(w, token, UnitFor(debug, debug.points[token]), AllPoints(debug.points[token]), 0),
           UnitsAdded(SourcesAdded(debug), debug), SetToSortSeq(DOMAIN debug.points, <))

-----------------------------------------------------------------------------
(* The unit: calls of the writer, its file, a module that reads it (or      *)
(* another file) and writes what it read, and a module that reads that.     *)

MdbState(calls, file, debug) ==
  [calls |-> calls, writer |-> NewMdbWriter, given |-> {}, file |-> file, debug |-> debug, written |-> Missing, again |-> Missing]
MdbInit ==
  /\ unit = "mdb"
  /\ \/ \E calls \in MdbCalls : state = MdbState(calls, Missing, Missing)
     \/ \E file \in MdbRawFiles : state = MdbState(<<>>, file, Missing)
     \/ \E debug \in MdbDebugs : state = MdbState(<<>>, Missing, debug)

Called(op) == unit = "mdb" /\ state.calls # <<>> /\ Head(state.calls).op = op
Answer_(w, given) ==
  /\ state' = [state EXCEPT !.calls = Tail(@), !.writer = IF w = Failed THEN @ ELSE w, !.given = given]
  /\ UNCHANGED unit
SourceCall == Called("source") /\ Answer_(AddSource(state.writer, Head(state.calls).path), state.given)
UnitCall == Called("unit") /\ Answer_(AddCompileUnit(state.writer, Head(state.calls).files), state.given)
PointsCall ==
  /\ Called("points")
  /\ LET c == Head(state.calls) IN
     Answer_(MarkSequencePoints(state.writer, c.token, c.unit, c.points), state.given \cup ({c.token} \X Range(c.points)))
LocalCall == Called("local") /\ Answer_(AddLocalVariable(state.writer, Head(state.calls).token, Head(state.calls).name), state.given)
FinishMdb ==
  /\ unit = "mdb" /\ state.calls = <<>> /\ state.writer # NewMdbWriter /\ state.file = Missing
  /\ state' = [state EXCEPT !.file = FinalizeMdb(state.writer)]
  /\ UNCHANGED unit
ReadMdb ==
  /\ unit = "mdb" /\ state.file # Missing /\ state.debug = Missing
  /\ state' = [state EXCEPT !.debug = AttachMdb(OpenMdb(state.file))]
  /\ UNCHANGED unit
WriteMdb ==
  /\ unit = "mdb" /\ state.debug \notin {Missing, Failed} /\ state.written = Missing
  /\ state' = [state EXCEPT !.written = FinalizeMdb(BuildMdb(state.debug))]
  /\ UNCHANGED unit
ReadMdbAgain ==
  /\ unit = "mdb" /\ state.written # Missing /\ state.again = Missing
  /\ state' = [state EXCEPT !.again = AttachMdb(OpenMdb(state.written))]
  /\ UNCHANGED unit
MdbNext ==
  \/ SourceCall \/ UnitCall \/ PointsCall \/ LocalCall
  \/ FinishMdb \/ ReadMdb \/ WriteMdb \/ ReadMdbAgain

-----------------------------------------------------------------------------
(* The lines of a method are those a client gave, the greatest line of each *)
(* offset, and the machine of the reader is led through them: file, offset  *)
(* and line.  A first offset below zero is written as another opcode.       *)
GivenOf(token) == {g[2] : g \in {h \in state.given : h[1] = token}}
LinesExact(m) ==
  /\ {l.offset : l \in Range(m.lines)} = {p.offset : p \in GivenOf(m.token)}
  /\ \A l \in Range(m.lines) : l \in GivenOf(m.token) /\ \A p \in GivenOf(m.token) : p.offset = l.offset => p.row =< l.row
  /\ \A i \in 2..Len(m.lines) : m.lines[i - 1].offset < m.lines[i].offset
LedThrough(m, read) ==
  read # Failed /\ [i \in DOMAIN read.entries |-> <<read.entries[i].offset, read.entries[i].row, read.entries[i].file>>]
                     = [i \in DOMAIN m.lines |-> <<m.lines[i].offset, m.lines[i].row, m.lines[i].file>>]
Reachable_(lines) == lines # <<>> => lines[1].offset >= 0
MdbReadsBack ==
  unit = "mdb" /\ state.file # Missing /\ state.writer # NewMdbWriter =>
    /\ Len(state.file.methods) = Len(state.writer.methods)
    /\ \A i \in 2..Len(state.file.methods) : state.file.methods[i - 1].token < state.file.methods[i].token
    /\ \A i \in DOMAIN state.file.methods : LET m == state.writer.methods[MethodOf_(state.writer, state.file.methods[i].token)] IN
         /\ LinesExact(m)
         /\ Reachable_(m.lines) => LedThrough(m, DecodeLines(state.file.methods[i], state.file.parameters))

(* A module that writes the symbols it holds and reads them again holds the *)
(* same documents, each once, and of every method the same offsets, each    *)
(* with its greatest line, all in the document of its first points.         *)
Greatest(points) == {p \in points : \A q \in points : q[1] = p[1] => q[2] =< p[2]}
PathOf(debug, doc) == IF doc < Len(debug.documents) THEN debug.documents[doc + 1] ELSE Missing
SamePoints(before, after, token) ==
  /\ Len(after.points[token]) = 1
  /\ Range(after.points[token][1].points) = Greatest(Range(AllPoints(before.points[token])))
  /\ \A i \in 2..Len(after.points[token][1].points) : after.points[token][1].points[i - 1][1] < after.points[token][1].points[i][1]
  /\ PathOf(before, FirstDocument(before.points[token])) # Missing =>
       PathOf(after, after.points[token][1].document) = PathOf(before, FirstDocument(before.points[token]))
WithPoints(debug) == {t \in DOMAIN debug.points : AllPoints(debug.points[t]) # <<>>}
OffsetsHold(debug) == \A t \in DOMAIN debug.points : \A p \in Range(AllPoints(debug.points[t])) : p[1] >= 0
MdbModuleKept ==
  unit = "mdb" /\ state.again # Missing /\ OffsetsHold(state.debug) =>
    /\ state.again # Failed
    /\ Range(state.again.documents) = Range(state.debug.documents) /\ IsInjective(state.again.documents)
    /\ DOMAIN state.again.points = WithPoints(state.debug)
    /\ \A t \in WithPoints(state.debug) : SamePoints(state.debug, state.again, t)
MdbKept == MdbReadsBack /\ MdbModuleKept
=============================================================================
