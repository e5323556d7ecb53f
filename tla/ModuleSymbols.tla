----------------------------- MODULE ModuleSymbols -----------------------------
(***************************************************************************)
(* The debug symbols of a module: where they are looked for and what is    *)
(* attached (assembly.rs), what is built from the module in each format    *)
(* (assembly.rs, native_symbols.rs), and the order in which an image and   *)
(* its symbols reach the disk (write_file_with).  The formats themselves   *)
(* are those of PortablePdbFiles, NativePdbFiles and MdbFiles.             *)
(*                                                                         *)
(* A method has a name, a length of IL (Missing: no body), a number of     *)
(* locals and the signature written for them.  Types are lists of methods. *)
(* A name is a number; the checksum of a file is the file.                 *)
(***************************************************************************)
EXTENDS PortablePdbFiles, NativePdbFiles, MdbFiles

CONSTANTS
  LastSegment,       \* u16::MAX
  UnknownSum,        \* a hash of an algorithm native PDBs have no number for
  SymbolModules,     \* modules to write
  OldFiles,          \* what lies beside the image already
  AddedMethod,       \* a method to add
  MaxSymbolEdits, MaxSymbolSaves

(* Names beside the image, in the order they are tried.                     *)
AppendedPdb == 1
StemPdb == 2
AppendedMdb == 3
Outputs == {"none", "portable", "native", "embedded", "mdb"}

-----------------------------------------------------------------------------
(* The rows of methods: owner by owner, when the module is managed and its  *)
(* owners say.                                                              *)

Owners(m) == FlattenSeq(m.types)
RowIn(owners, rid) == CHOOSE k \in DOMAIN owners : owners[k] = rid
OwnedOnce(owners, n) == Len(owners) = n /\ Range(owners) = 1..n
DefinitionRows(m) ==
  IF m.mixed \/ m.methods = <<>> \/ Owners(m) = <<>> THEN Missing
  ELSE IF OwnedOnce(Owners(m), Len(m.methods)) THEN [rid \in DOMAIN m.methods |-> RowIn(Owners(m), rid)] ELSE Failed
(* A mutation: tokens of methods are written as they are.                   *)
RowTokenSame(rows, token) == token
RowToken(rows, token) ==
  IF rows = Missing \/ token[1] # MethodTable \/ token[2] = 0 THEN token
  ELSE IF token[2] \in DOMAIN rows THEN <<MethodTable, rows[token[2]]>> ELSE Failed
HasBody(m, rid) == IF rid \in DOMAIN m.methods THEN m.methods[rid].length # Missing ELSE FALSE

-----------------------------------------------------------------------------
(* A portable PDB.                                                          *)

PortableDocuments(b, documents) == FoldLeft(LAMBDA acc, d : AddSourceDocument(acc, <<d.name>>, d.sum), b, documents)
HandleOf(b, d) == CHOOSE k \in DOMAIN b.documents : b.documents[k].key = <<d.name>>
Pairs(points, handle) == [i \in DOMAIN points |-> [document |-> handle, point |-> points[i]]]
Indexed(debug, groups) == \A g \in DOMAIN groups : groups[g].document < Len(debug.documents)
AllPairs(b, debug, groups) ==
  FlattenSeq([g \in DOMAIN groups |-> Pairs(groups[g].points, HandleOf(b, debug.documents[groups[g].document + 1]))])
(* CodeView has several lines at an address, and lines of no columns.       *)
LastAtOffset(pairs) ==
  SelectSeq(pairs, LAMBDA p : p = pairs[Max({i \in DOMAIN pairs : pairs[i].point.offset = p.point.offset})])
Widened(p) == IF ~Hidden(p) /\ p.line = p.endLine /\ p.column = p.endColumn THEN [p EXCEPT !.endColumn = p.column + 1] ELSE p
WidenedPairs(pairs) == [i \in DOMAIN pairs |-> [pairs[i] EXCEPT !.point = Widened(@)]]
FromCodeView(m, pairs) == IF m.native = Missing THEN pairs ELSE WidenedPairs(LastAtOffset(ByOffset_(pairs)))
PointsSet(b, token, pairs) == IF token = Failed THEN Failed ELSE SetPointsWithDocuments(b, token, pairs)
PortablePoints(b, m, rows, rid) ==
  IF b = Failed THEN Failed
  ELSE IF ~Indexed(m.debug, m.debug.points[rid]) THEN Failed
  ELSE PointsSet(b, RowToken(rows, <<MethodTable, rid>>), FromCodeView(m, AllPairs(b, m.debug, m.debug.points[rid])))
(* Ranges only: a scope's variables, constants and imports are not written. *)
PortableScopes(b, scopes, token) ==
  IF b = Failed \/ token = Failed THEN Failed
  ELSE FoldLeft(LAMBDA acc, s : AddLocalScope(acc, token, 0, <<>>, <<>>, s.start, s.length), b, scopes)
PortableInfo(b, parent, kind) == IF b = Failed \/ parent = Failed THEN Failed ELSE AddInfo(b, parent, kind)
InRidOrder(f) == Upward(DOMAIN f)
WithInfos(b, debug, rows) == FoldLeft(LAMBDA acc, i : PortableInfo(acc, RowToken(rows, i.parent), i.kind), b, debug.infos)
WithScopes(b, debug, rows) ==
  FoldLeft(LAMBDA acc, rid : PortableScopes(acc, debug.scopes[rid], RowToken(rows, <<MethodTable, rid>>)), b, InRidOrder(debug.scopes))
WithPoints__(b, m, rows) == FoldLeft(LAMBDA acc, rid : PortablePoints(acc, m, rows, rid), b, InRidOrder(m.debug.points))
WithSignatures(b, m, rows) ==
  FoldLeft(LAMBDA acc, rid : IF HasBody(m, rid) /\ m.methods[rid].locals > 0
                             THEN SetLocalVarSig(acc, RowToken(rows, <<MethodTable, rid>>), m.methods[rid].signature) ELSE acc,
           b, IF m.mixed THEN <<>> ELSE [rid \in DOMAIN m.methods |-> rid])
EmittedCounts(m) ==
  <<<<MethodTable, Len(m.methods)>>, <<TypeTable, Len(m.types)>>,
    <<SignatureTable, Max({0} \cup {m.methods[rid].signature : rid \in DOMAIN m.methods})>>>>
FinishedPortable(b) == IF b = Failed THEN Failed ELSE FinalizePortable(b)
PortableOf(m, rows) ==
  FinishedPortable(WithInfos(WithScopes(WithPoints__(PortableDocuments(
    WithSignatures(SetEntryPoint(SetCounts(NewPortable, EmittedCounts(m)), RowToken(rows, <<MethodTable, m.entry>>)), m, rows),
    m.debug.documents), m, rows), m.debug, rows), m.debug, rows))
BuildPortable(m) == IF DefinitionRows(m) = Failed THEN Failed ELSE PortableOf(m, DefinitionRows(m))

-----------------------------------------------------------------------------
(* A native PDB.  Managed procedures get addresses of their own in a        *)
(* segment no native procedure is in.                                       *)

NativeFunctions(m) ==
  IF m.native = Missing THEN <<>>
  ELSE SelectSeq(m.native.functions, LAMBDA f : f.token = 0 \/ HasBody(m, f.token))
MergedDocument(documents, d) ==
  IF d.name \notin KnownNames(documents) THEN Append(documents, d)
  ELSE [documents EXCEPT ![ChecksumOf(documents, d.name)] = IF d.sum # 0 \/ @.sum = 0 THEN d ELSE @]
NativeDocuments(m) ==
  FoldLeft(MergedDocument, IF m.native = Missing THEN <<>> ELSE m.native.documents, IF m.debug = Missing THEN <<>> ELSE m.debug.documents)
SumsKnown(m) == m.debug # Missing => \A i \in DOMAIN m.debug.documents : m.debug.documents[i].sum # UnknownSum
ManagedSegment(functions) == Max({s \in 1..LastSegment : \A i \in DOMAIN functions : functions[i].token = 0 => functions[i].segment # s})
NewFunction(rid) ==
  [token |-> rid, name |-> 0, module |-> 1, segment |-> 0, offset |-> 0, length |-> 0, rva |-> Missing, lines |-> <<>>, scopes |-> <<>>]
FunctionAt(functions, rid) == {i \in DOMAIN functions : functions[i].token = rid}
WithFunction(functions, rid) == IF FunctionAt(functions, rid) = {} THEN Append(functions, NewFunction(rid)) ELSE functions

SignatureType(method) == IF method.signature = 0 THEN 0 ELSE FirstMetadataType + method.signature
LocalsOf_(locals, method) == SelectSeq(locals, LAMBDA l : IF l.index = Missing THEN TRUE ELSE l.index < method.locals)
Retyped(locals, method) == [i \in DOMAIN locals |-> [locals[i] EXCEPT !.type = IF @ >= FirstMetadataType THEN SignatureType(method) ELSE @]]
OverBody(scope, i, length) == IF i = 1 /\ scope.parent = 0 THEN [scope EXCEPT !.offset = 0, !.length = length] ELSE scope
BodyScopes(scopes, method) ==
  [i \in DOMAIN scopes |-> [OverBody(scopes[i], i, method.length) EXCEPT !.locals = Retyped(LocalsOf_(@, method), method)]]
PlacedAt(f, method, segment, base) ==
  [f EXCEPT !.name = method.name, !.segment = segment, !.offset = base, !.length = method.length, !.rva = Missing,
            !.scopes = BodyScopes(@, method)]

(* A pair of columns as one number.                                         *)
ColumnSpan == 100
LineOfPoint(p, file) ==
  [offset |-> p.offset, start |-> p.line, end |-> p.endLine, statement |-> ~Hidden(p), columns |-> p.column * ColumnSpan + p.endColumn,
   file |-> file, rva |-> Missing]
LinesOfGroup(points, file) == [i \in DOMAIN points |-> LineOfPoint(points[i], file)]
FunctionLines(debug, groups) ==
  FlattenSeq([g \in DOMAIN groups |-> LinesOfGroup(groups[g].points, debug.documents[groups[g].document + 1].name)])
LinesHold_(debug, groups) == Indexed(debug, groups) /\ \A g \in DOMAIN groups : \A i \in DOMAIN groups[g].points : groups[g].points[i].offset >= 0
WithLines(f, debug, rid) ==
  IF rid \notin DOMAIN debug.points THEN f
  ELSE IF LinesHold_(debug, debug.points[rid]) THEN [f EXCEPT !.lines = FunctionLines(debug, debug.points[rid])] ELSE Failed
DebugScopes(debug, rid) == IF rid \in DOMAIN debug.scopes THEN debug.scopes[rid] ELSE <<>>
RangesHold(scopes) == \A i \in DOMAIN scopes : scopes[i].start >= 0 /\ scopes[i].length >= 0
NewScopes(f, scopes) ==
  <<ScopeOf_(0, 0, f.length)>> \o [i \in DOMAIN scopes |-> ScopeOf_(1, scopes[i].start, scopes[i].length)]
RangesSet(f, scopes) ==
  [i \in DOMAIN f.scopes |-> IF i = 1 THEN f.scopes[1] ELSE [f.scopes[i] EXCEPT !.offset = scopes[i].start, !.length = scopes[i].length]]
WithRanges(f, scopes) ==
  IF f.scopes = <<>> THEN IF RangesHold(scopes) THEN [f EXCEPT !.scopes = NewScopes(f, scopes)] ELSE Failed
  ELSE IF f.scopes[1].parent # 0 \/ Len(scopes) # Len(f.scopes) THEN f
  ELSE IF RangesHold(Tail(scopes)) THEN [f EXCEPT !.scopes = RangesSet(f, scopes)] ELSE Failed
WithDebug(f, debug, rid) ==
  IF debug = Missing THEN f
  ELSE IF WithLines(f, debug, rid) = Failed THEN Failed ELSE WithRanges(WithLines(f, debug, rid), DebugScopes(debug, rid))
(* A mutation: a method of no instructions takes no address.                *)
NextBaseBare(base, length) == base + length
NextBase(base, length) == base + Max({length, 1})
Updated(acc, i, f, base) == IF f = Failed THEN Failed ELSE [functions |-> [acc EXCEPT ![i] = f], base |-> base]
UpdateAt(functions, i, m, rid, segment, base) ==
  Updated(functions, i, WithDebug(PlacedAt(functions[i], m.methods[rid], segment, base), m.debug, rid), NextBase(base, m.methods[rid].length))
UpdateIn(functions, m, rid, segment, base) == UpdateAt(functions, Min(FunctionAt(functions, rid)), m, rid, segment, base)
BuildFunction(acc, m, rid, segment) ==
  IF acc = Failed \/ ~HasBody(m, rid) THEN acc ELSE UpdateIn(WithFunction(acc.functions, rid), m, rid, segment, acc.base)
BuildFunctions(m, functions) ==
  FoldLeft(LAMBDA acc, rid : BuildFunction(acc, m, rid, ManagedSegment(functions)), [functions |-> functions, base |-> 0],
           [rid \in DOMAIN m.methods |-> rid])
(* Tokens change when every method has been looked up by its old one.       *)
Tokened(functions, rows) ==
  [i \in DOMAIN functions |-> [functions[i] EXCEPT !.token = IF @ = 0 THEN 0 ELSE RowToken(rows, <<MethodTable, @>>)[2]]]
DocumentAdded(b, d) ==
  IF b = Failed THEN Failed
  ELSE IF d \in Range(b.documents) THEN b
  ELSE IF d.name \in KnownNames(b.documents) THEN Failed ELSE [b EXCEPT !.documents = Append(@, d)]
StartingBuilder(m) ==
  IF m.native = Missing THEN NewBuilder
  ELSE IF m.native.original = Missing THEN NewBuilder ELSE FromPdb(m.native.original, OpenPdb(m.native.original))
FilledWith(b, functions, documents) ==
  FoldLeft(DocumentAdded, [b EXCEPT !.functions = functions, !.documents = <<>>], documents)
FinishedNative(b) == IF b = Failed THEN Failed ELSE Finalize(b)
NativeWith(m, rows, b, built) ==
  IF rows = Failed \/ b = Failed \/ built = Failed THEN Failed
  ELSE FinishedNative(FilledWith(b, Tokened(built.functions, rows), NativeDocuments(m)))
BuildNative(m) ==
  IF SumsKnown(m) THEN NativeWith(m, DefinitionRows(m), StartingBuilder(m), BuildFunctions(m, NativeFunctions(m))) ELSE Failed

-----------------------------------------------------------------------------
(* An MDB: lines of a method in one unit, that of its first document.       *)

LinePairs(groups) ==
  [g \in DOMAIN groups |-> [document |-> groups[g].document,
                            points |-> [i \in DOMAIN groups[g].points |-> <<groups[g].points[i].offset, groups[g].points[i].line>>]]]
MdbTokens(m, rows) == [rid \in DOMAIN m.debug.points |-> RowToken(rows, <<MethodTable, rid>>)]
MdbPoints_(m, tokens) ==
  FoldLeft(LAMBDA acc, rid : (tokens[rid][2] :> LinePairs(m.debug.points[rid])) @@ acc, <<>>, InRidOrder(tokens))
MdbWith(m, tokens) ==
  IF Failed \in Range(tokens) THEN Failed
  ELSE FinalizeMdb(BuildMdb([documents |-> [i \in DOMAIN m.debug.documents |-> m.debug.documents[i].name], points |-> MdbPoints_(m, tokens)]))
BuildMdbOf(m) == IF DefinitionRows(m) = Failed THEN Failed ELSE MdbWith(m, MdbTokens(m, DefinitionRows(m)))

-----------------------------------------------------------------------------
(* Attaching a portable PDB.  Points are grouped by document.               *)

PickedAt(points, at) == [k \in DOMAIN at |-> points[at[k]]]
GroupAt(found, d) == [document |-> d - 1, points |-> PickedAt(found.points, Upward({i \in DOMAIN found.points : found.documents[i] = d}))]
GroupsIn(found, documents) == [g \in DOMAIN documents |-> GroupAt(found, documents[g])]
Grouped(found) == GroupsIn(found, Upward(Range(found.documents)))
Pointed(points, rid) == IF points[rid] = Missing THEN FALSE ELSE points[rid].points # <<>>
DebugOfRead(read) ==
  [documents |-> [i \in DOMAIN read.documents |-> [name |-> Head(read.documents[i].name), sum |-> read.documents[i].hash]],
   points |-> [rid \in {r \in DOMAIN read.points : Pointed(read.points, r)} |-> Grouped(read.points[rid])],
   scopes |-> [rid \in {r \in DOMAIN read.scopes : read.scopes[r] # <<>>} |-> read.scopes[rid]],
   infos |-> read.infos]
PortableRead(read) == IF Failed \in Range(read.points) \/ Failed \in Range(read.scopes) THEN Failed ELSE DebugOfRead(read)
WithSymbols(m, debug, native) == IF debug = Failed THEN Failed ELSE [m EXCEPT !.debug = debug, !.native = native]
AttachPortable(m, file) == WithSymbols(m, PortableRead(ReadPortable(file)), m.native)

-----------------------------------------------------------------------------
(* Attaching a native PDB: lines of managed methods become points, a        *)
(* document for each name; the rest is kept beside them.                    *)

SourceSeen(documents, d) ==
  IF d.name \in KnownNames(documents) THEN [documents EXCEPT ![ChecksumOf(documents, d.name)] = d] ELSE Append(documents, d)
FileSeen(documents, file) == IF file \in KnownNames(documents) THEN documents ELSE Append(documents, [name |-> file, sum |-> 0])
ManagedFunctions(m, functions) == SelectSeq(functions, LAMBDA f : f.token \in DOMAIN m.methods)
NativeSources(read, managed) == FoldLeft(FileSeen, FoldLeft(SourceSeen, <<>>, read.documents), LineFiles(managed))
PointOfLine(l) ==
  [offset |-> l.offset, line |-> l.start, column |-> l.columns \div ColumnSpan, endLine |-> l.end, endColumn |-> l.columns % ColumnSpan]
LinesOfFile(lines, file) == SelectSeq(lines, LAMBDA l : l.file = file)
PointsOfFile(lines) == [i \in DOMAIN lines |-> PointOfLine(lines[i])]
GroupOfFile(f, documents, d) == [document |-> d - 1, points |-> PointsOfFile(LinesOfFile(f.lines, documents[d].name))]
GroupsOf(f, documents, at) == [g \in DOMAIN at |-> GroupOfFile(f, documents, at[g])]
FilesIn(lines) == {lines[i].file : i \in DOMAIN lines}
LineGroups(f, documents) == GroupsOf(f, documents, Upward({d \in DOMAIN documents : documents[d].name \in FilesIn(f.lines)}))
ScopeRange(f, s) == [method |-> f.token, import |-> 0, start |-> s.offset, length |-> s.length, variables |-> <<>>, constants |-> <<>>]
ScopeRanges(f) == [i \in DOMAIN f.scopes |-> ScopeRange(f, f.scopes[i])]
FunctionSeen(debug, f) ==
  [debug EXCEPT !.points = IF f.lines = <<>> THEN @ ELSE (f.token :> LineGroups(f, debug.documents)) @@ @,
                !.scopes = IF f.scopes = <<>> THEN @ ELSE (f.token :> ScopeRanges(f)) @@ @]
NativeRead(read, managed) ==
  FoldLeft(FunctionSeen, [documents |-> NativeSources(read, managed), points |-> <<>>, scopes |-> <<>>, infos |-> <<>>], managed)
NativeAttached(m, streams, read) ==
  IF read = Failed THEN Failed
  ELSE WithSymbols(m, NativeRead(read, ManagedFunctions(m, read.functions)),
                   [functions |-> read.functions, documents |-> read.documents, original |-> streams])
AttachNative(m, streams) == NativeAttached(m, streams, OpenPdb(streams))

(* Attaching an MDB: points of no width, all in one document.               *)
PointOfEntry(p) == [offset |-> p[1], line |-> p[2], column |-> 0, endLine |-> p[2], endColumn |-> 0]
EntryGroup(group) == [document |-> group.document, points |-> [i \in DOMAIN group.points |-> PointOfEntry(group.points[i])]]
MdbDebug(read) ==
  IF read = Failed THEN Failed
  ELSE [documents |-> [i \in DOMAIN read.documents |-> [name |-> read.documents[i], sum |-> 0]],
        points |-> [rid \in DOMAIN read.points |-> [g \in DOMAIN read.points[rid] |-> EntryGroup(read.points[rid][g])]],
        scopes |-> <<>>, infos |-> <<>>]
AttachMdbFile(m, file) == WithSymbols(m, MdbDebug(AttachMdb(OpenMdb(file))), m.native)

AttachSymbols(m, symbols) ==
  IF symbols = Missing \/ symbols = Failed THEN Failed
  ELSE CASE symbols.kind = "portable" -> AttachPortable(m, symbols.file)
         [] symbols.kind = "native"   -> AttachNative(m, symbols.file)
         [] symbols.kind = "mdb"      -> AttachMdbFile(m, symbols.file)

(* The first file beside the image, else the last PDB in it; one that       *)
(* cannot be unwrapped is none.                                             *)
CodeViewEntry == 2
EmbeddedEntry == 17
ChecksumEntry == 19
IsEmbedded(e) == e.kind = EmbeddedEntry
EmbeddedSymbols(entries) ==
  IF SelectSeq(entries, IsEmbedded) = <<>> THEN Missing ELSE Last(SelectSeq(entries, IsEmbedded)).of
FilesPresent(files) == {i \in DOMAIN files : files[i] # Missing}
LoadSymbols(files, image) ==
  IF FilesPresent(files) # {} THEN files[Min(FilesPresent(files))] ELSE EmbeddedSymbols(image.entries)

-----------------------------------------------------------------------------
(* What is written: the module with its methods in the order of their rows, *)
(* the symbols of the chosen format, the entries of the image.              *)

MovedMethods(methods, rows) == [r \in DOMAIN methods |-> methods[RowIn(rows, r)]]
MovedTypes(types, rows) == [t \in DOMAIN types |-> [i \in DOMAIN types[t] |-> rows[types[t][i]]]]
ByRows(m, rows) ==
  IF rows = Missing THEN m
  ELSE [m EXCEPT !.methods = MovedMethods(@, rows), !.types = MovedTypes(@, rows), !.entry = IF @ = 0 THEN 0 ELSE rows[@]]
ImageOf(m, rows, entries) == [ByRows(m, rows) EXCEPT !.entries = entries, !.debug = Missing, !.native = Missing]

EntryKept(e) == e.kind \notin {CodeViewEntry, EmbeddedEntry, ChecksumEntry}
DebugEntry(kind, of) == [kind |-> kind, of |-> of]
SymbolEntries(output, symbols) ==
  CASE output = "native"   -> <<DebugEntry(CodeViewEntry, symbols), DebugEntry(ChecksumEntry, symbols)>>
    [] output = "embedded" -> <<DebugEntry(EmbeddedEntry, symbols), DebugEntry(ChecksumEntry, symbols)>>
    [] output = "portable" -> <<DebugEntry(ChecksumEntry, symbols)>>
(* Native symbols are written of any module, others when some were loaded;  *)
(* an MDB is built later and leaves the entries as they are.                *)
ImageNamesSymbols(m, output) == output = "native" \/ (output \in {"portable", "embedded"} /\ m.debug # Missing)
SymbolsNamed(kind, file) == IF file = Failed THEN Failed ELSE [kind |-> kind, file |-> file]
Opens(streams) == IF streams = Failed THEN Failed ELSE IF OpenPdb(streams) = Failed THEN Failed ELSE streams
SymbolsFor(m, output) ==
  IF ~ImageNamesSymbols(m, output) THEN Missing
  ELSE IF output = "native" THEN SymbolsNamed("native", Opens(BuildNative(m))) ELSE SymbolsNamed("portable", BuildPortable(m))
EntriesWith(m, output, symbols) ==
  IF symbols = Missing THEN m.entries ELSE SelectSeq(m.entries, EntryKept) \o SymbolEntries(output, symbols)
(* An image of native code that is signed cannot get other entries.         *)
Refused(m, rows, symbols) == rows = Failed \/ symbols = Failed \/ (m.mixed /\ m.signed /\ symbols # Missing)
Serialized(m, output, rows, symbols) ==
  IF Refused(m, rows, symbols) THEN Failed
  ELSE [image |-> ImageOf(m, rows, EntriesWith(m, output, symbols)), symbols |-> symbols]
WriteModuleImage(m, output) == Serialized(m, output, DefinitionRows(m), SymbolsFor(m, output))

(* Files to write: the image first.                                         *)
ImagePlace == 0
Put(place, content) == [place |-> place, content |-> content]
Sidecar(m, output, symbols) ==
  CASE output \in {"portable", "native"} /\ symbols # Missing -> <<Put(StemPdb, symbols)>>
    [] output = "mdb" /\ m.debug # Missing -> <<Put(AppendedMdb, SymbolsNamed("mdb", BuildMdbOf(m)))>>
    [] OTHER -> <<>>
WriteFileWith(m, output, built) ==
  IF built = Failed THEN <<>> ELSE <<Put(ImagePlace, built.image)>> \o Sidecar(m, output, built.symbols)

-----------------------------------------------------------------------------
(* The unit: a module is edited, saved beside older files, and loaded.      *)
(* Modules of native code are edited in ways of their own, not here.        *)

NoSave == [module |-> Missing, output |-> "none", symbols |-> Missing]
ModuleSymbolsInit ==
  /\ unit = "modulesymbols"
  /\ \E m \in SymbolModules, files \in OldFiles :
       state = [module |-> m, image |-> Missing, files |-> files, pending |-> <<>>, saved |-> NoSave, edits |-> 0, saves |-> 0]

Writing_ == state.pending # <<>>
Edited(m) == state' = [state EXCEPT !.module = m, !.edits = @ + 1, !.saved = NoSave]
MayEdit == ~Writing_ /\ state.edits < MaxSymbolEdits
AppendMethod ==
  /\ MayEdit /\ ~state.module.mixed
  /\ \E t \in DOMAIN state.module.types :
       Edited([state.module EXCEPT !.methods = Append(@, AddedMethod), !.types[t] = Append(@, Len(state.module.methods) + 1)])
DropBody ==
  /\ MayEdit /\ ~state.module.mixed
  /\ \E rid \in DOMAIN state.module.methods :
       HasBody(state.module, rid) /\ Edited([state.module EXCEPT !.methods[rid].length = Missing])

SavedAs(output, built) ==
  state' = [state EXCEPT !.pending = WriteFileWith(state.module, output, built), !.saves = @ + 1,
                         !.saved = [module |-> state.module, output |-> output,
                                    symbols |-> IF built = Failed THEN Failed
                                                ELSE IF Sidecar(state.module, output, built.symbols) = <<>> THEN built.symbols
                                                ELSE Sidecar(state.module, output, built.symbols)[1].content]]
SaveModule ==
  /\ ~Writing_ /\ state.saves < MaxSymbolSaves /\ state.saved = NoSave
  /\ \E output \in Outputs : SavedAs(output, WriteModuleImage(state.module, output))
(* Symbols that fail to build are found out when their turn comes.          *)
PutNext ==
  /\ Writing_
  /\ LET next == Head(state.pending) IN
     state' = IF next.content = Failed THEN [state EXCEPT !.pending = <<>>]
              ELSE IF next.place = ImagePlace THEN [state EXCEPT !.image = next.content, !.pending = Tail(@)]
              ELSE [state EXCEPT !.files[next.place] = next.content, !.pending = Tail(@)]
(* A write stops before one of its files, which may be cut short.           *)
StopSaving ==
  /\ Writing_
  /\ \E torn \in BOOLEAN :
       state' = [state EXCEPT !.pending = <<>>, !.saved = NoSave,
                              !.image = IF torn /\ Head(state.pending).place = ImagePlace THEN Failed ELSE @,
                              !.files = IF torn /\ Head(state.pending).place # ImagePlace
                                        THEN [@ EXCEPT ![Head(state.pending).place] = Failed] ELSE @]
(* Reading that fails leaves the program with the module it had.            *)
Reloaded(m) == state' = [state EXCEPT !.module = IF m = Failed THEN @ ELSE m, !.saved = NoSave]
LoadModule ==
  /\ ~Writing_ /\ state.image \notin {Missing, Failed} /\ state.saves < MaxSymbolSaves
  /\ Reloaded(AttachSymbols(state.image, LoadSymbols(state.files, state.image)))

ModuleSymbolsNext ==
  /\ unit = "modulesymbols" /\ UNCHANGED unit
  /\ AppendMethod \/ DropBody \/ SaveModule \/ PutNext \/ StopSaving \/ LoadModule

-----------------------------------------------------------------------------
(* When a save has run to its end and no file is found before what it       *)
(* wrote, the symbols found are the ones just built, and the image names    *)
(* those and no others.                                                     *)
EndedSave == unit = "modulesymbols" /\ ~Writing_ /\ state.saved # NoSave /\ state.saved.symbols \notin {Missing, Failed}
PlaceOf(output) == CASE output \in {"portable", "native"} -> StemPdb [] output = "mdb" -> AppendedMdb [] OTHER -> 0
Unshadowed == FilesPresent(state.files) \cap (1..PlaceOf(state.saved.output)) \subseteq {PlaceOf(state.saved.output)}
FoundFirst == EndedSave /\ Unshadowed /\ (state.saved.output = "embedded" => FilesPresent(state.files) = {})
SameSymbols(a, b) == a \notin {Missing, Failed} /\ a.kind = b.kind /\ a.file = b.file
NamingSymbols(entries) == SelectSeq(entries, LAMBDA e : ~EntryKept(e))
NoneOlder(entries, symbols) ==
  /\ \A e \in Range(NamingSymbols(entries)) : SameSymbols(e.of, symbols)
  /\ IsInjective([i \in DOMAIN NamingSymbols(entries) |-> NamingSymbols(entries)[i].kind])
  /\ \E e \in Range(entries) : e.kind = ChecksumEntry
SymbolsFollow ==
  FoundFirst =>
    /\ SameSymbols(LoadSymbols(state.files, state.image), state.saved.symbols)
    /\ state.saved.output # "mdb" => NoneOlder(state.image.entries, state.saved.symbols)
    /\ SelectSeq(state.image.entries, EntryKept) = SelectSeq(state.saved.module.entries, EntryKept)

(* They belong to the methods that were written: of each, wherever its row  *)
(* is now, the points its method had, as far as the format can say them.    *)
RowOf(rows, rid) == IF rows = Missing THEN rid ELSE rows[rid]
DocumentName(debug, d) == IF d < Len(debug.documents) THEN debug.documents[d + 1].name ELSE Missing
PointsNamed(debug, rid) ==
  IF debug = Missing THEN {}
  ELSE IF rid \notin DOMAIN debug.points THEN {}
  ELSE UNION {{<<DocumentName(debug, g.document), p>> : p \in Range(g.points)} : g \in Range(debug.points[rid])}
OffsetsIn(points) == {p[2].offset : p \in points}
OneAtEach(before, after) == OffsetsIn(after) = OffsetsIn(before) /\ Cardinality(after) = Cardinality(OffsetsIn(before))
(* CodeView has several points at an offset, and points of no width.        *)
PortableBelong(m, before, after) ==
  IF m.native = Missing THEN after = {<<p[1], PointAsRead(p[2])>> : p \in before}
  ELSE OneAtEach(before, after) /\ after \subseteq {<<p[1], PointAsRead(Widened(p[2]))>> : p \in before}
MdbBelong(before, after) ==
  /\ OneAtEach(before, after)
  /\ \A p \in after : p[2].line = Max({q[2].line : q \in {b \in before : b[2].offset = p[2].offset}})
  /\ Cardinality({p[1] : p \in after}) =< 1
  /\ Missing \notin {p[1] : p \in before} => {p[1] : p \in after} \subseteq {p[1] : p \in before}
PointsBelong(m, output, rid, before, after) ==
  CASE output \in {"portable", "embedded"} -> PortableBelong(m, before, after)
    [] output = "native"                   -> after = IF HasBody(m, rid) THEN before ELSE {}
    [] output = "mdb"                      -> MdbBelong(before, after)
RangesIn(debug, rid) == IF rid \in DOMAIN debug.scopes THEN {<<s.start, s.length>> : s \in Range(debug.scopes[rid])} ELSE {}
MethodBelongs(m, output, rid, r, after) ==
  /\ after.methods[r] = m.methods[rid]
  /\ PointsBelong(m, output, rid, PointsNamed(m.debug, rid), PointsNamed(after.debug, r))
  /\ output \in {"portable", "embedded"} => RangesIn(after.debug, r) = RangesIn(m.debug, rid)
MethodsBelong(m, output, rows, after) ==
  after # Failed /\ \A rid \in DOMAIN m.methods : MethodBelongs(m, output, rid, RowOf(rows, rid), after)
SymbolsBelong ==
  FoundFirst =>
    MethodsBelong(state.saved.module, state.saved.output, DefinitionRows(state.saved.module),
                  AttachSymbols(state.image, LoadSymbols(state.files, state.image)))

(* In a native PDB no two managed methods share an address, and none is in  *)
(* a segment of native code: lines are found by address.                    *)
Managed__(functions) == {i \in DOMAIN functions : functions[i].token # 0}
ApartFrom(f, g) == f.offset + f.length =< g.offset \/ g.offset + g.length =< f.offset
ManagedApart(functions) ==
  \A i \in Managed__(functions) : \A j \in DOMAIN functions \ {i} :
    IF functions[j].token = 0 THEN functions[i].segment # functions[j].segment
    ELSE /\ functions[i].token # functions[j].token
         /\ <<functions[i].segment, functions[i].offset>> # <<functions[j].segment, functions[j].offset>>
         /\ functions[i].segment = functions[j].segment => ApartFrom(functions[i], functions[j])
AddressesDisjoint ==
  EndedSave /\ state.saved.output = "native" => ManagedApart(OpenPdb(state.saved.symbols.file).functions)
ModuleKept == SymbolsFollow /\ SymbolsBelong /\ AddressesDisjoint
=============================================================================
