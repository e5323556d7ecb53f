--------------------------- MODULE PortablePdbFiles ---------------------------
(***************************************************************************)
(* Portable PDBs: the builder that buffers rows in the order a client adds *)
(* them and sorts them at the end (portable_writer.rs), and the reader     *)
(* (portable_reader.rs).                                                   *)
(*                                                                         *)
(* A heap index is what it stands for, and a blob of sequence points the   *)
(* numbers in it.  A token is a table and a RID; tables are named by their *)
(* tag in HasCustomDebugInformation.                                       *)
(***************************************************************************)
EXTENDS CodeViewSymbols

CONSTANTS
  HiddenLine,        \* the line of generated code (0xfeefee)
  UnsignedFit,       \* past the greatest number of a stream (2^29)
  SignedFit,         \* past the greatest signed one (2^28)
  Slash, Backslash,  \* characters of names
  PortableCalls,     \* calls of a client of the builder
  PortableRawFiles   \* files to read

(* Tables, by their tag.  Those past Tables_ are debug tables.              *)
MethodTable == 0
TypeTable == 3
SignatureTable == 11
DocumentTable == 22
ScopeTable == 23
VariableTable == 24
ConstantTable == 25
Tags == 32
TypeSystem == 0..(DocumentTable - 1)
NilToken == <<MethodTable, 0>>
IsMethod(token) == token[1] = MethodTable /\ token[2] > 0

-----------------------------------------------------------------------------
(* Names of documents: a separator and the segments between.                *)

Count_(name, c) == Cardinality({i \in DOMAIN name : name[i] = c})
Separator(name) ==
  IF Count_(name, Slash) = 0 /\ Count_(name, Backslash) = 0 THEN 0
  ELSE IF Count_(name, Slash) >= Count_(name, Backslash) THEN Slash ELSE Backslash
Cuts(name, c) == SetToSortSeq({0, Len(name) + 1} \cup {i \in DOMAIN name : name[i] = c}, <)
Between(name, cuts) == [k \in 1..(Len(cuts) - 1) |-> SubSeq(name, cuts[k] + 1, cuts[k + 1] - 1)]
NameBlob(name) ==
  [separator |-> Separator(name), parts |-> IF Separator(name) = 0 THEN <<name>> ELSE Between(name, Cuts(name, Separator(name)))]
ReadName(blob) ==
  FlattenSeq([i \in DOMAIN blob.parts |-> IF i = 1 \/ blob.separator = 0 THEN blob.parts[i] ELSE <<blob.separator>> \o blob.parts[i]])

-----------------------------------------------------------------------------
(* Sequence points.                                                         *)

Hidden(p) == p.line = HiddenLine /\ p.endLine = HiddenLine
AscendingPoints(points) ==
  /\ \A i \in DOMAIN points : points[i].offset >= 0
  /\ \A i \in 2..Len(points) : points[i - 1].offset < points[i].offset
FitsUnsigned(n) == n < UnsignedFit
FitsSigned(n) == n \in (0 - SignedFit)..(SignedFit - 1)

(* A visible point is told from the visible one before it.                  *)
VisibleBefore(points, i) == {j \in 1..(i - 1) : ~Hidden(points[j])}
(* A mutation: the baseline is the point before, hidden or not.             *)
BaselineHidden(points, i) == IF i = 1 THEN Missing ELSE points[i - 1]
Baseline(points, i) == IF VisibleBefore(points, i) = {} THEN Missing ELSE points[Max(VisibleBefore(points, i))]
Step_(points, i) == IF i = 1 THEN points[1].offset ELSE points[i].offset - points[i - 1].offset
ExtentHolds(lines, columns) ==
  /\ lines >= 0 /\ ~(lines = 0 /\ columns =< 0)
  /\ FitsUnsigned(lines) /\ FitsSigned(columns) /\ (lines = 0 => FitsUnsigned(columns))
StartHolds(p, base) ==
  IF base = Missing THEN FitsUnsigned(p.line) /\ FitsUnsigned(p.column)
  ELSE FitsSigned(p.line - base.line) /\ FitsSigned(p.column - base.column)
StartCells(p, base) == IF base = Missing THEN <<p.line, p.column>> ELSE <<p.line - base.line, p.column - base.column>>
PointCells(p, base) ==
  IF Hidden(p) THEN <<0, 0>> ELSE <<p.endLine - p.line, p.endColumn - p.column>> \o StartCells(p, base)
SwitchCells(documents, i) ==
  IF documents = Missing \/ i = 1 THEN <<>> ELSE IF documents[i] = documents[i - 1] THEN <<>> ELSE <<0, documents[i]>>
PointHolds(points, i) ==
  /\ FitsUnsigned(Step_(points, i))
  /\ Hidden(points[i]) \/ (/\ ExtentHolds(points[i].endLine - points[i].line, points[i].endColumn - points[i].column)
                            /\ StartHolds(points[i], Baseline(points, i)))
EncodePoints(signature, points, documents) ==
  IF ~(FitsUnsigned(signature) /\ \A i \in DOMAIN points : PointHolds(points, i)) THEN Failed
  ELSE <<signature>> \o FlattenSeq([i \in DOMAIN points |->
         SwitchCells(documents, i) \o <<Step_(points, i)>> \o PointCells(points[i], Baseline(points, i))])

(* Decoding gathers numbers until they are a record: a step, no extent      *)
(* for a hidden point, an extent and a start for another; after the first   *)
(* record a step of 0 switches to the document that follows.                *)
Decoder(document) ==
  [document |-> document, got |-> <<>>, records |-> 0, offset |-> 0, line |-> 0, column |-> 0, points |-> <<>>, documents |-> <<>>]
IsSwitch(d) == d.records > 0 /\ d.got[1] = 0
SwitchTo(d, documents) ==
  IF d.got[2] \in 1..documents THEN [d EXCEPT !.document = d.got[2], !.got = <<>>, !.records = @ + 1] ELSE Failed
WithPoint(d, p) ==
  [d EXCEPT !.got = <<>>, !.records = @ + 1, !.offset = p.offset, !.points = Append(@, p), !.documents = Append(@, d.document)]
HiddenPoint(offset) == [offset |-> offset, line |-> HiddenLine, column |-> 0, endLine |-> HiddenLine, endColumn |-> 0]
VisiblePoint(d, line, column) ==
  IF line < 0 \/ column < 0 \/ line + d.got[2] < 0 \/ column + d.got[3] < 0 THEN Failed
  ELSE [WithPoint(d, [offset |-> d.offset + d.got[1], line |-> line, column |-> column, endLine |-> line + d.got[2],
                      endColumn |-> column + d.got[3]]) EXCEPT !.line = line, !.column = column]
Recorded(d, documents) ==
  IF IsSwitch(d) THEN IF Len(d.got) = 2 THEN SwitchTo(d, documents) ELSE d
  ELSE IF Len(d.got) = 3 /\ d.got[2] = 0 /\ d.got[3] = 0 THEN WithPoint(d, HiddenPoint(d.offset + d.got[1]))
  ELSE IF Len(d.got) = 5 THEN VisiblePoint(d, d.line + d.got[4], d.column + d.got[5])
  ELSE d
NextCell(d, n, documents) == IF d = Failed THEN Failed ELSE Recorded([d EXCEPT !.got = Append(@, n)], documents)
Ended(d, initial) ==
  IF d = Failed THEN Failed
  ELSE IF d.got # <<>> THEN Failed ELSE [initial |-> initial, points |-> d.points, documents |-> d.documents]
DecodeFrom(cells, initial, documents) ==
  IF initial \notin 1..documents THEN Failed
  ELSE Ended(FoldLeft(LAMBDA d, n : NextCell(d, n, documents), Decoder(initial), cells), initial)
DecodePoints(row, documents) ==
  IF row.cells = <<>> THEN Missing
  ELSE IF row.document # 0 THEN DecodeFrom(SubSeq(row.cells, 2, Len(row.cells)), row.document, documents)
  ELSE IF Len(row.cells) < 2 THEN Failed
  ELSE DecodeFrom(SubSeq(row.cells, 3, Len(row.cells)), row.cells[2], documents)

-----------------------------------------------------------------------------
(* The builder.                                                             *)

NoEntry == [document |-> 0, points |-> Missing, documents |-> Missing, signature |-> 0]
NewPortable ==
  [documents |-> <<>>, methods |-> <<>>, scopes |-> <<>>, variables |-> <<>>, constants |-> <<>>, imports |-> <<>>,
   infos |-> <<>>, entry |-> NilToken, counts |-> Missing]
EntryFor(b, rid) == IF rid \in DOMAIN b.methods THEN b.methods[rid] ELSE NoEntry
WithEntry(b, rid, entry) == [b EXCEPT !.methods = (rid :> entry) @@ @]

AddSourceDocument(b, name, hash) ==
  IF \E i \in DOMAIN b.documents : b.documents[i].key = name THEN b
  ELSE [b EXCEPT !.documents = Append(@, [key |-> name, name |-> NameBlob(name), hash |-> hash])]
SetPoints(b, method, document, points) ==
  IF ~IsMethod(method) \/ document \notin DOMAIN b.documents \/ ~AscendingPoints(points) THEN Failed
  ELSE WithEntry(b, method[2], [EntryFor(b, method[2]) EXCEPT !.document = document, !.points = points, !.documents = Missing])
ByOffset_(pairs) == SortedOn(pairs, [i \in DOMAIN pairs |-> <<pairs[i].point.offset>>])
WithPairs(b, rid, points, documents) ==
  IF ~AscendingPoints(points) THEN Failed
  ELSE WithEntry(b, rid, [EntryFor(b, rid) EXCEPT !.document = IF documents = <<>> THEN 0 ELSE documents[1],
                                                  !.points = points, !.documents = documents])
OrderedPairs(b, rid, pairs) == WithPairs(b, rid, [i \in DOMAIN pairs |-> pairs[i].point], [i \in DOMAIN pairs |-> pairs[i].document])
SetPointsWithDocuments(b, method, pairs) ==
  IF ~IsMethod(method) \/ \E i \in DOMAIN pairs : pairs[i].document \notin DOMAIN b.documents THEN Failed
  ELSE OrderedPairs(b, method[2], ByOffset_(pairs))
SetLocalVarSig(b, method, rid) ==
  IF IsMethod(method) THEN WithEntry(b, method[2], [EntryFor(b, method[2]) EXCEPT !.signature = rid]) ELSE b
RegisterMethod(b, method) == IF IsMethod(method) THEN WithEntry(b, method[2], EntryFor(b, method[2])) ELSE Failed
SetCounts(b, counts) ==
  IF \E i \in DOMAIN counts : counts[i][1] \notin TypeSystem THEN Failed
  ELSE [b EXCEPT !.counts = FoldLeft(LAMBDA acc, c : [acc EXCEPT ![c[1]] = c[2]], [t \in TypeSystem |-> 0], counts)]
AddImportScope(b, parent) == [b EXCEPT !.imports = Append(@, parent)]
AddLocalScope(b, method, import, variables, constants, start, length) ==
  IF ~IsMethod(method) THEN b
  ELSE [b EXCEPT !.variables = @ \o variables, !.constants = @ \o constants,
                 !.scopes = Append(@, [method |-> method[2], import |-> import, variables |-> Len(b.variables) + 1,
                                       constants |-> Len(b.constants) + 1, start |-> start, length |-> length])]
AddInfo(b, parent, kind) == [b EXCEPT !.infos = Append(@, [cell |-> parent[2] * Tags + parent[1], kind |-> kind])]
TableOf(cell) == cell % Tags
RidOf(cell) == cell \div Tags

-----------------------------------------------------------------------------
(* Sorting scopes.  Each takes its variables and constants along, which end *)
(* where those of the scope added after it began, and what names them by    *)
(* RID follows.                                                             *)

ScopeKeys(scopes) == [i \in DOMAIN scopes |-> <<scopes[i].method, scopes[i].start, 0 - scopes[i].length>>]
InSourceOrder(s) == [i \in DOMAIN s |-> i]
ScopeOrder(scopes) == SortedOn(InSourceOrder(scopes), ScopeKeys(scopes))
(* A mutation: a run ends with its first entry.                             *)
RunEndFirst(starts, i, total) == IF i = Len(starts) THEN total ELSE Min({starts[i], starts[i + 1] - 1})
RunEnd(starts, i, total) == IF i = Len(starts) THEN total ELSE starts[i + 1] - 1
RunOf(starts, i, total) == [k \in 1..(RunEnd(starts, i, total) - starts[i] + 1) |-> starts[i] + k - 1]
(* The old RIDs of a list in the order of its new ones, and where the run   *)
(* of each scope begins.                                                    *)
Runs(order, starts, total) == [k \in DOMAIN order |-> RunOf(starts, order[k], total)]
BeginsAt(runs) == [k \in DOMAIN runs |-> 1 + Len(FlattenSeq(SubSeq(runs, 1, k - 1)))]
VariableStarts(scopes) == [i \in DOMAIN scopes |-> scopes[i].variables]
ConstantStarts(scopes) == [i \in DOMAIN scopes |-> scopes[i].constants]
NewRid(moved, rid) == CHOOSE k \in DOMAIN moved : moved[k] = rid
Moved_(order, variables, constants, table) ==
  CASE table = ScopeTable -> order [] table = VariableTable -> FlattenSeq(variables)
    [] table = ConstantTable -> FlattenSeq(constants) [] OTHER -> Missing
NewCell(cell, moved) ==
  IF moved = Missing THEN cell
  ELSE IF RidOf(cell) \notin DOMAIN moved THEN Failed ELSE NewRid(moved, RidOf(cell)) * Tags + TableOf(cell)
SortInfos(infos, order, variables, constants) ==
  [i \in DOMAIN infos |-> [infos[i] EXCEPT !.cell = NewCell(@, Moved_(order, variables, constants, TableOf(@)))]]
SortedInto(b, order, variables, constants) ==
  IF \E i \in DOMAIN b.infos : NewCell(b.infos[i].cell, Moved_(order, variables, constants, TableOf(b.infos[i].cell))) = Failed THEN Failed
  ELSE [b EXCEPT !.scopes = [k \in DOMAIN order |-> [@[order[k]] EXCEPT !.variables = BeginsAt(variables)[k], !.constants = BeginsAt(constants)[k]]],
                 !.variables = [k \in DOMAIN FlattenSeq(variables) |-> @[FlattenSeq(variables)[k]]],
                 !.constants = [k \in DOMAIN FlattenSeq(constants) |-> @[FlattenSeq(constants)[k]]],
                 !.infos = SortInfos(@, order, variables, constants)]
SortedBy(b, order) ==
  IF order = InSourceOrder(order) THEN b
  ELSE SortedInto(b, order, Runs(order, VariableStarts(b.scopes), Len(b.variables)),
                  Runs(order, ConstantStarts(b.scopes), Len(b.constants)))
SortScopes(b) == SortedBy(b, ScopeOrder(b.scopes))

-----------------------------------------------------------------------------
(* Finishing: every reference lies in the tables of the module.             *)

InfosSorted(infos) == SortedOn(infos, [i \in DOMAIN infos |-> <<infos[i].cell>>])
References_(b) ==
  {<<MethodTable, rid>> : rid \in DOMAIN b.methods}
    \cup {<<SignatureTable, b.methods[rid].signature>> : rid \in DOMAIN b.methods}
    \cup {<<MethodTable, b.scopes[i].method>> : i \in DOMAIN b.scopes}
    \cup {<<TableOf(b.infos[i].cell), RidOf(b.infos[i].cell)>> : i \in DOMAIN b.infos}
    \cup (IF b.entry[2] = 0 THEN {} ELSE {b.entry})
Needed(references, t) == Max({0} \cup {r[2] : r \in {x \in references : x[1] = t}})
Required(b) == [t \in TypeSystem |-> Needed(References_(b), t)]
CountsOf(b) == IF b.counts = Missing THEN Required(b) ELSE b.counts
MethodRow_(entry) ==
  [document |-> entry.document,
   cells |-> IF entry.points \in {Missing, <<>>} THEN <<>> ELSE EncodePoints(entry.signature, entry.points, entry.documents)]
ScopeHolds(scope, imports) == scope.start >= 0 /\ scope.length >= 0 /\ scope.import =< imports
RowsOf(b, counts) ==
  [documents |-> b.documents, methods |-> [rid \in 1..counts[MethodTable] |-> MethodRow_(EntryFor(b, rid))],
   scopes |-> b.scopes, variables |-> b.variables, constants |-> b.constants, imports |-> b.imports,
   infos |-> InfosSorted(b.infos), entry |-> b.entry, counts |-> counts, machines |-> <<>>]
RowsHold(rows) ==
  /\ \A rid \in DOMAIN rows.methods : rows.methods[rid].cells # Failed
  /\ \A i \in DOMAIN rows.scopes : ScopeHolds(rows.scopes[i], Len(rows.imports))
Held(rows) == IF RowsHold(rows) THEN rows ELSE Failed
WithinCounts(b) == \A t \in TypeSystem : Required(b)[t] =< CountsOf(b)[t]
FinalizeSorted(b) ==
  IF b = Failed THEN Failed
  ELSE IF (b.entry[2] # 0 /\ ~IsMethod(b.entry)) \/ ~WithinCounts(b) THEN Failed
  ELSE Held(RowsOf(b, CountsOf(b)))
FinalizePortable(b) == FinalizeSorted(SortScopes(b))

-----------------------------------------------------------------------------
(* The reader.                                                              *)

RowsOfMethod(rows, method) == SetToSortSeq({i \in DOMAIN rows : rows[i].method = method}, <)
NextStart(starts, rid, limit) == IF rid = Len(starts) THEN limit ELSE starts[rid + 1]
ListRange(starts, rid, limit) ==
  IF starts[rid] = 0 THEN <<>>
  ELSE IF NextStart(starts, rid, limit) < starts[rid] \/ starts[rid] > limit \/ NextStart(starts, rid, limit) > limit THEN Failed
  ELSE [k \in 1..(NextStart(starts, rid, limit) - starts[rid]) |-> starts[rid] + k - 1]
ReadScope(file, rid, variables, constants) ==
  IF variables = Failed \/ constants = Failed \/ file.scopes[rid].import > Len(file.imports) THEN Failed
  ELSE [method |-> file.scopes[rid].method, import |-> file.scopes[rid].import, start |-> file.scopes[rid].start,
        length |-> file.scopes[rid].length, variables |-> variables, constants |-> constants]
ScopeAt(file, rid) ==
  ReadScope(file, rid, ListRange(VariableStarts(file.scopes), rid, Len(file.variables) + 1),
            ListRange(ConstantStarts(file.scopes), rid, Len(file.constants) + 1))
AllRead(answers) == IF Failed \in Range(answers) THEN Failed ELSE answers
LocalScopes(file, method) ==
  AllRead([k \in DOMAIN RowsOfMethod(file.scopes, method) |-> ScopeAt(file, RowsOfMethod(file.scopes, method)[k])])
LocalVariables(file, scope) == [k \in DOMAIN scope.variables |-> file.variables[scope.variables[k]]]
LocalConstants(file, scope) == [k \in DOMAIN scope.constants |-> file.constants[scope.constants[k]]]
ReadInfos(file) ==
  [i \in DOMAIN file.infos |-> [parent |-> <<TableOf(file.infos[i].cell), RidOf(file.infos[i].cell)>>, kind |-> file.infos[i].kind]]
ReadDocuments(file) == [i \in DOMAIN file.documents |-> [name |-> ReadName(file.documents[i].name), hash |-> file.documents[i].hash]]
SequencePoints(file, rid) == IF rid \in DOMAIN file.methods THEN DecodePoints(file.methods[rid], Len(file.documents)) ELSE Failed
Kickoff(file, method) ==
  IF RowsOfMethod(file.machines, method) = <<>> THEN Missing ELSE file.machines[RowsOfMethod(file.machines, method)[1]].kickoff
ReadPortable(file) ==
  [documents |-> ReadDocuments(file), infos |-> ReadInfos(file),
   points |-> [rid \in DOMAIN file.methods |-> SequencePoints(file, rid)],
   scopes |-> [rid \in DOMAIN file.methods |-> LocalScopes(file, rid)],
   kickoffs |-> [rid \in DOMAIN file.methods |-> Kickoff(file, rid)]]

-----------------------------------------------------------------------------
(* The unit: calls of the builder, its file, and what the reader says of    *)
(* that file or of another.                                                 *)

SetEntryPoint(b, token) == [b EXCEPT !.entry = token]
PortableState(calls, file) == [calls |-> calls, builder |-> NewPortable, file |-> file, read |-> Missing]
PortableInit ==
  /\ unit = "portable"
  /\ \/ \E calls \in PortableCalls : state = PortableState(calls, Missing)
     \/ \E file \in PortableRawFiles : state = PortableState(<<>>, file)

PortableCalled(op) == unit = "portable" /\ state.calls # <<>> /\ Head(state.calls).op = op
(* A call that is refused leaves the builder as it was.                     *)
BuilderAnswer(b) ==
  /\ state' = [state EXCEPT !.calls = Tail(@), !.builder = IF b = Failed THEN @ ELSE b]
  /\ UNCHANGED unit
DocumentCall ==
  /\ PortableCalled("document")
  /\ BuilderAnswer(AddSourceDocument(state.builder, Head(state.calls).name, Head(state.calls).hash))
SequenceCall ==
  /\ PortableCalled("points")
  /\ BuilderAnswer(SetPoints(state.builder, Head(state.calls).method, Head(state.calls).document, Head(state.calls).points))
PairsCall ==
  /\ PortableCalled("pairs")
  /\ BuilderAnswer(SetPointsWithDocuments(state.builder, Head(state.calls).method, Head(state.calls).pairs))
SignatureCall ==
  /\ PortableCalled("signature")
  /\ BuilderAnswer(SetLocalVarSig(state.builder, Head(state.calls).method, Head(state.calls).rid))
RegisterCall == PortableCalled("register") /\ BuilderAnswer(RegisterMethod(state.builder, Head(state.calls).method))
CountsCall == PortableCalled("counts") /\ BuilderAnswer(SetCounts(state.builder, Head(state.calls).counts))
ImportCall == PortableCalled("import") /\ BuilderAnswer(AddImportScope(state.builder, Head(state.calls).parent))
ScopeCall ==
  /\ PortableCalled("scope")
  /\ LET c == Head(state.calls) IN
     BuilderAnswer(AddLocalScope(state.builder, c.method, c.import, c.variables, c.constants, c.start, c.length))
InfoCall == PortableCalled("info") /\ BuilderAnswer(AddInfo(state.builder, Head(state.calls).parent, Head(state.calls).kind))
EntryCall == PortableCalled("entry") /\ BuilderAnswer(SetEntryPoint(state.builder, Head(state.calls).method))
FinishPortable ==
  /\ unit = "portable" /\ state.calls = <<>> /\ state.file = Missing
  /\ state' = [state EXCEPT !.file = FinalizePortable(state.builder)]
  /\ UNCHANGED unit
ReadPortableFile ==
  /\ unit = "portable" /\ state.file \notin {Missing, Failed} /\ state.read = Missing
  /\ state' = [state EXCEPT !.read = ReadPortable(state.file)]
  /\ UNCHANGED unit
PortableNext ==
  \/ DocumentCall \/ SequenceCall \/ PairsCall \/ SignatureCall \/ RegisterCall
  \/ CountsCall \/ ImportCall \/ ScopeCall \/ InfoCall \/ EntryCall
  \/ FinishPortable \/ ReadPortableFile

-----------------------------------------------------------------------------
(* The reader of a built file finds every document once, with its name, and *)
(* of every method the points set last, each in its document.  A hidden     *)
(* point has no columns.                                                    *)
PointAsRead(p) == IF Hidden(p) THEN HiddenPoint(p.offset) ELSE p
PointsAsRead(points) == [i \in DOMAIN points |-> PointAsRead(points[i])]
PointDocuments(entry) == IF entry.documents = Missing THEN [i \in DOMAIN entry.points |-> entry.document] ELSE entry.documents
PointsFound(entry, found) ==
  IF entry.points \in {Missing, <<>>} THEN found = Missing
  ELSE found = [initial |-> entry.document, points |-> PointsAsRead(entry.points), documents |-> PointDocuments(entry)]
DocumentsFound(b, read) ==
  /\ [i \in DOMAIN read |-> read[i].name] = [i \in DOMAIN b.documents |-> b.documents[i].key]
  /\ IsInjective([i \in DOMAIN read |-> read[i].name])
PointsReadBack(b, read) ==
  /\ DocumentsFound(b, read.documents)
  /\ DOMAIN b.methods \subseteq DOMAIN read.points
  /\ \A rid \in DOMAIN read.points : PointsFound(EntryFor(b, rid), read.points[rid])

(* Whatever the order the scopes were added in, each method's are read from *)
(* the outermost inwards with the locals they were added with, and what     *)
(* debug information was attached to is what it is still attached to.       *)
OwnedBy(rows, starts, i) == SubSeq(rows, starts[i], RunEnd(starts, i, Len(rows)))
AddedScope(b, i) ==
  [b.scopes[i] EXCEPT !.variables = OwnedBy(b.variables, VariableStarts(b.scopes), i),
                      !.constants = OwnedBy(b.constants, ConstantStarts(b.scopes), i)]
FoundScope(file, s) == [s EXCEPT !.variables = LocalVariables(file, s), !.constants = LocalConstants(file, s)]
Outermost(b, i, j) ==
  \/ b.scopes[i].start < b.scopes[j].start
  \/ b.scopes[i].start = b.scopes[j].start /\ b.scopes[i].length > b.scopes[j].length
  \/ b.scopes[i].start = b.scopes[j].start /\ b.scopes[i].length = b.scopes[j].length /\ i < j
ScopePosition(b, i) == 1 + Cardinality({j \in DOMAIN b.scopes : b.scopes[j].method = b.scopes[i].method /\ Outermost(b, j, i)})
ScopesReadBack(b, file, scopes) ==
  /\ \A i \in DOMAIN b.scopes : FoundScope(file, scopes[b.scopes[i].method][ScopePosition(b, i)]) = AddedScope(b, i)
  /\ \A rid \in DOMAIN scopes : Len(scopes[rid]) = Len(RowsOfMethod(b.scopes, rid))
Entry_(rows, rid) == IF rid \in DOMAIN rows THEN rows[rid] ELSE Missing
RangeOf_(s) == IF s = Missing THEN Missing ELSE <<s.method, s.start, s.length>>
DenotedRow(tables, table, rid) ==
  CASE table = ScopeTable -> RangeOf_(Entry_(tables.scopes, rid)) [] table = VariableTable -> Entry_(tables.variables, rid)
    [] table = ConstantTable -> Entry_(tables.constants, rid) [] OTHER -> <<table, rid>>
DebugParent(infos, kind) == infos[CHOOSE i \in DOMAIN infos : infos[i].kind = kind].parent
InfosReadBack(b, file, infos) ==
  /\ Len(infos) = Len(b.infos)
  /\ \A i \in DOMAIN b.infos : LET found == DebugParent(infos, b.infos[i].kind) IN
       /\ found[1] = TableOf(b.infos[i].cell)
       /\ DenotedRow(file, found[1], found[2]) = DenotedRow(b, found[1], RidOf(b.infos[i].cell))
  /\ \A i \in 2..Len(file.infos) : file.infos[i - 1].cell =< file.infos[i].cell

(* A builder is refused only for what no file can hold.                     *)
Dangling(b, cell) ==
  /\ TableOf(cell) \in ScopeTable..ConstantTable
  /\ DenotedRow(b, TableOf(cell), RidOf(cell)) = Missing
Unencodable(entry) == entry.points \notin {Missing, <<>>} /\ EncodePoints(entry.signature, entry.points, Missing) = Failed
Unwritable(b) ==
  \/ \E i \in DOMAIN b.infos : Dangling(b, b.infos[i].cell)
  \/ b.counts # Missing /\ \E r \in References_(b) : r[1] \in TypeSystem /\ r[2] > b.counts[r[1]]
  \/ \E rid \in DOMAIN b.methods : Unencodable(b.methods[rid])
  \/ \E i \in DOMAIN b.scopes : ~ScopeHolds(b.scopes[i], Len(b.imports))
  \/ b.entry[2] # 0 /\ ~IsMethod(b.entry)
BuiltReadsBack ==
  unit = "portable" /\ state.builder # NewPortable =>
    /\ state.file = Failed => Unwritable(state.builder)
    /\ state.read # Missing =>
         /\ PointsReadBack(state.builder, state.read)
         /\ ScopesReadBack(state.builder, state.file, state.read.scopes)
         /\ InfosReadBack(state.builder, state.file, state.read.infos)

(* The points of any file ascend and lie in its documents, and can be       *)
(* written again and read as the same points.                               *)
HiddenHaveNoColumns(points) == \A i \in DOMAIN points : Hidden(points[i]) => points[i] = HiddenPoint(points[i].offset)
Rewritten(p) == [document |-> p.documents[1], cells |-> EncodePoints(0, p.points, p.documents)]
SamePointsAgain(p, row, documents) ==
  row.cells # Failed /\ DecodePoints(row, documents) = [p EXCEPT !.initial = row.document]
AnyPointsKept ==
  unit = "portable" /\ state.read # Missing =>
    \A rid \in DOMAIN state.read.points : LET p == state.read.points[rid] IN
      p \notin {Missing, Failed} =>
        /\ Range(p.documents) \subseteq DOMAIN state.read.documents
        /\ AscendingPoints(p.points)
        /\ p.points # <<>> /\ HiddenHaveNoColumns(p.points) => SamePointsAgain(p, Rewritten(p), Len(state.read.documents))
PortableKept == BuiltReadsBack /\ AnyPointsKept
=============================================================================
