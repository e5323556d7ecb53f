---------------------------- MODULE CodeViewSymbols ----------------------------
(***************************************************************************)
(* Procedures, scopes, lines, documents and publics of native PDBs, as     *)
(* they are read (native/details.rs) and written                           *)
(* (native/codeview_writer.rs).                                            *)
(*                                                                         *)
(* The symbols of a module are records in a row: a procedure or a block    *)
(* opens a scope, an end closes it, and members belong to what is open.    *)
(* Its C13 subsections hold names, checksums and lines.  Names are         *)
(* numbers; a token is the RID of a method, 0 for native procedures.       *)
(***************************************************************************)
EXTENDS Workbench

CONSTANTS
  AddressLimit,      \* past the greatest address (2^32)
  LineLimit,         \* past the greatest line number (2^24)
  LineSpan,          \* most lines an entry spans (127)
  SignedLimits,      \* past what each signed leaf holds, ascending
  UnsignedLimits,    \* and each unsigned one
  SymbolFiles,       \* files to read
  FunctionLists      \* functions and documents to write

(* Sequences of numbers in lexicographic order, and a sequence sorted by    *)
(* keys: elements of equal keys stay in order.                              *)
Smaller(a, b) ==
  \/ \E k \in DOMAIN a \cap DOMAIN b : a[k] < b[k] /\ \A j \in 1..(k - 1) : a[j] = b[j]
  \/ Len(a) < Len(b) /\ SubSeq(b, 1, Len(a)) = a
RankIn(keys, i) == 1 + Cardinality({j \in DOMAIN keys : Smaller(keys[j], keys[i]) \/ (keys[j] = keys[i] /\ j < i)})
SortedAs(s, ranks) == [k \in DOMAIN s |-> s[CHOOSE i \in DOMAIN s : ranks[i] = k]]
SortedOn(s, keys) == SortedAs(s, [i \in DOMAIN s |-> RankIn(keys, i)])

-----------------------------------------------------------------------------
(* Addresses: the section's base and what OMAP moved it to.                 *)

SectionsOf(dbg) == IF dbg.omap # Missing /\ dbg.original # Missing THEN dbg.original ELSE dbg.sections
OmapAscends(omap) == \A i \in 2..Len(omap) : omap[i - 1][1] < omap[i][1]
Moved(omap, rva) == {i \in DOMAIN omap : omap[i][1] =< rva}
ThroughOmap(omap, rva, below) ==
  IF below = {} THEN Missing
  ELSE IF omap[Max(below)][2] = 0 \/ omap[Max(below)][2] + rva - omap[Max(below)][1] >= AddressLimit THEN Missing
  ELSE omap[Max(below)][2] + rva - omap[Max(below)][1]
FromRva(omap, rva) ==
  IF rva >= AddressLimit THEN Missing
  ELSE IF omap \in {Missing, <<>>} THEN rva ELSE ThroughOmap(omap, rva, Moved(omap, rva))
Rva(dbg, segment, offset) ==
  IF segment \in DOMAIN SectionsOf(dbg) THEN FromRva(dbg.omap, SectionsOf(dbg)[segment] + offset) ELSE Missing

-----------------------------------------------------------------------------
(* Members of scopes.                                                       *)

ReadLocal(r) ==
  [name |-> r.name, index |-> IF r.kind \in {"slot", "slotFlags"} THEN r.index ELSE Missing, type |-> r.type,
   flags |-> IF r.kind \in {"slotFlags", "local"} THEN r.flags ELSE 0]
WriteLocal(l) ==
  [op |-> "local", kind |-> IF l.index = Missing THEN "local" ELSE "slotFlags", name |-> l.name,
   index |-> IF l.index = Missing THEN 0 ELSE l.index, type |-> l.type, flags |-> l.flags]

(* A number has a leaf: its form and how many widths wide it is.            *)
ReadConstant(r) ==
  [name |-> r.name, type |-> r.type, form |-> r.leaf[1], width |-> IF r.leaf[1] = "raw" THEN r.leaf[2] ELSE 0, value |-> r.value]
LeastSigned(value) == Min({k \in DOMAIN SignedLimits : value \in (0 - SignedLimits[k])..(SignedLimits[k] - 1)})
LeastUnsigned(value) == Min({k \in DOMAIN UnsignedLimits : value < UnsignedLimits[k]})
LeafOf(c) ==
  CASE c.form = "signed"   -> <<"signed", LeastSigned(c.value)>>
    [] c.form = "unsigned" -> <<"unsigned", LeastUnsigned(c.value)>>
    [] c.form = "float"    -> <<"float", 2>>
    [] c.form = "string"   -> <<"string", 1>>
    [] c.form = "raw"      -> <<"raw", c.width>>
WriteConstant(c) == [op |-> "constant", name |-> c.name, type |-> c.type, leaf |-> LeafOf(c), value |-> c.value]

-----------------------------------------------------------------------------
(* Reading symbols.  A frame is the open scope, 0 for one whose members are *)
(* not kept.                                                                *)

ScopeOf_(parent, offset, length) ==
  [parent |-> parent, offset |-> offset, length |-> length, locals |-> <<>>, constants |-> <<>>, imports |-> <<>>]
Reading_(functions, frames) == [functions |-> functions, frames |-> frames]
OpenFrame(acc) == IF acc.frames = <<>> THEN 0 ELSE Last(acc.frames)
Function_(acc) == Last(acc.functions)
Push(acc, frame) == [acc EXCEPT !.frames = Append(@, frame)]

Procedure(acc, r, module, dbg) ==
  IF acc.frames # <<>> \/ (r.managed /\ r.token =< 0) THEN Failed
  ELSE Reading_(Append(acc.functions,
                  [token |-> IF r.managed THEN r.token ELSE 0, name |-> r.name, module |-> module, segment |-> r.segment,
                   offset |-> r.offset, length |-> r.length,
                   rva |-> IF r.managed THEN Missing ELSE Rva(dbg, r.segment, r.offset),
                   lines |-> <<>>, scopes |-> <<ScopeOf_(0, 0, r.length)>>]), <<1>>)

Within(scope, start, length) == start >= scope.offset /\ start + length =< scope.offset + scope.length
(* A mutation: a block is compared with its procedure only.                 *)
OpenBlockInProcedure(acc, r, f) ==
  IF r.segment # f.segment \/ ~Within(f.scopes[1], r.offset - f.offset, r.length) THEN Failed
  ELSE [functions |-> [acc.functions EXCEPT ![Len(acc.functions)].scopes = Append(@, ScopeOf_(OpenFrame(acc), r.offset - f.offset, r.length))],
        frames |-> Append(acc.frames, Len(f.scopes) + 1)]
OpenBlock(acc, r, f) ==
  IF r.segment # f.segment \/ r.offset < f.offset \/ r.offset - f.offset + r.length > f.length
       \/ ~Within(f.scopes[OpenFrame(acc)], r.offset - f.offset, r.length) THEN Failed
  ELSE [functions |-> [acc.functions EXCEPT ![Len(acc.functions)].scopes = Append(@, ScopeOf_(OpenFrame(acc), r.offset - f.offset, r.length))],
        frames |-> Append(acc.frames, Len(f.scopes) + 1)]
Block(acc, r) == IF OpenFrame(acc) = 0 THEN Push(acc, 0) ELSE OpenBlock(acc, r, Function_(acc))

WithMember(scope, r) ==
  CASE r.op = "local"    -> [scope EXCEPT !.locals = Append(@, ReadLocal(r))]
    [] r.op = "constant" -> IF r.leaf[1] = "unknown" THEN scope ELSE [scope EXCEPT !.constants = Append(@, ReadConstant(r))]
    [] r.op = "import"   -> [scope EXCEPT !.imports = Append(@, r.name)]
    [] OTHER             -> scope
ScopeMember(acc, r) ==
  IF OpenFrame(acc) = 0 THEN acc
  ELSE [acc EXCEPT !.functions[Len(acc.functions)].scopes[OpenFrame(acc)] = WithMember(@, r)]

ReadRecord(acc, r, module, dbg) ==
  IF acc = Failed THEN Failed
  ELSE CASE r.op = "end"   -> [acc EXCEPT !.frames = IF @ = <<>> THEN @ ELSE Front(@)]
         [] r.op = "proc"  -> Procedure(acc, r, module, dbg)
         [] r.op = "block" -> Block(acc, r)
         [] r.op = "opens" -> Push(acc, 0)
         [] OTHER          -> ScopeMember(acc, r)
AllClosed(acc) == IF acc = Failed THEN Failed ELSE IF acc.frames # <<>> THEN Failed ELSE acc.functions
ReadSymbols(records, module, dbg) ==
  AllClosed(FoldLeft(LAMBDA acc, r : ReadRecord(acc, r, module, dbg), Reading_(<<>>, <<>>), records))

-----------------------------------------------------------------------------
(* Reading C13 subsections.  Checksums name their file by an index into the *)
(* module's strings, the file's when it has none; lines name it by the      *)
(* position of its checksum in its own subsection.                          *)

SubsectionsOf(c13, kind) == SelectSeq(c13, LAMBDA sub : sub.kind = kind)
StringsOf(c13, names) == IF SubsectionsOf(c13, "strings") = <<>> THEN names ELSE SubsectionsOf(c13, "strings")[1].table
ChecksIn(sub, strings) == [i \in DOMAIN sub.files |-> strings[sub.files[i].name]]
ChecksOf(c13, strings) ==
  FoldLeft(LAMBDA checks, sub : ChecksIn(sub, strings) @@ checks, <<>>, SubsectionsOf(c13, "files"))
FilesOf(c13) == FlattenSeq([k \in DOMAIN SubsectionsOf(c13, "files") |-> SubsectionsOf(c13, "files")[k].files])
DocumentsOf(c13, strings) ==
  [i \in DOMAIN FilesOf(c13) |-> [name |-> strings[FilesOf(c13)[i].name], sum |-> FilesOf(c13)[i].sum]]
NamedFiles(c13, strings) == \A i \in DOMAIN FilesOf(c13) : FilesOf(c13)[i].name \in DOMAIN strings
AddDocuments(documents, more) ==
  FoldLeft(LAMBDA acc, d : IF d \in Range(acc) THEN acc ELSE Append(acc, d), documents, more)

(* The functions a line subsection speaks of: those at its address, else    *)
(* those at the nearest address before it that reach its end.               *)
AtAddress(functions, segment, offset) == {i \in DOMAIN functions : functions[i].segment = segment /\ functions[i].offset = offset}
Nearest(functions, sub) ==
  {functions[i].offset : i \in {j \in DOMAIN functions : functions[j].segment = sub.segment /\ functions[j].offset =< sub.offset}}
Reaching(functions, sub, found) ==
  {i \in found : sub.offset + sub.length =< functions[i].offset + functions[i].length}
Targets(functions, sub) ==
  IF AtAddress(functions, sub.segment, sub.offset) # {} THEN AtAddress(functions, sub.segment, sub.offset)
  ELSE IF Nearest(functions, sub) = {} THEN {}
  ELSE Reaching(functions, sub, AtAddress(functions, sub.segment, Max(Nearest(functions, sub))))

EntriesOf(sub) ==
  FlattenSeq([b \in DOMAIN sub.blocks |->
    [i \in DOMAIN sub.blocks[b].lines |-> [file |-> sub.blocks[b].file, line |-> sub.blocks[b].lines[i]]]])
LineFor(f, sub, e, checks, dbg) ==
  [offset |-> sub.offset + e.line.delta - f.offset, start |-> e.line.start, end |-> e.line.end, statement |-> e.line.statement,
   columns |-> IF sub.columns THEN e.line.columns ELSE 0, file |-> checks[e.file],
   rva |-> IF f.token # 0 THEN Missing ELSE Rva(dbg, sub.segment, sub.offset + e.line.delta)]
LinesHold(functions, sub, entries, targets, checks) ==
  /\ \A b \in DOMAIN sub.blocks : sub.blocks[b].file \in DOMAIN checks
  /\ \A i \in DOMAIN entries :
       /\ sub.length = 0 \/ entries[i].line.delta < sub.length
       /\ sub.offset + entries[i].line.delta < AddressLimit
       /\ \A t \in targets : functions[t].length = 0 \/ sub.offset + entries[i].line.delta - functions[t].offset < functions[t].length
AddLines(functions, sub, entries, targets, checks, dbg) ==
  IF LinesHold(functions, sub, entries, targets, checks)
  THEN [i \in DOMAIN functions |->
          IF i \in targets
          THEN [functions[i] EXCEPT !.lines = @ \o [k \in DOMAIN entries |-> LineFor(functions[i], sub, entries[k], checks, dbg)]]
          ELSE functions[i]]
  ELSE Failed
ReadLines(functions, subs, checks, dbg) ==
  FoldLeft(LAMBDA fs, sub : IF fs = Failed THEN Failed ELSE AddLines(fs, sub, EntriesOf(sub), Targets(fs, sub), checks, dbg),
           functions, subs)
ByOffset(lines) == SortedOn(lines, [i \in DOMAIN lines |-> <<lines[i].offset>>])
LinesSorted(functions) ==
  IF functions = Failed THEN Failed ELSE [i \in DOMAIN functions |-> [functions[i] EXCEPT !.lines = ByOffset(@)]]

Symbols_(functions, documents) == [functions |-> functions, documents |-> documents]
WithC13(functions, documents, c13, strings, dbg) ==
  IF ~NamedFiles(c13, strings) THEN Failed
  ELSE Symbols_(LinesSorted(ReadLines(functions, SubsectionsOf(c13, "lines"), ChecksOf(c13, strings), dbg)),
                AddDocuments(documents, DocumentsOf(c13, strings)))

-----------------------------------------------------------------------------
(* Reading a file: its modules one after another, its tokens, its publics.  *)

WithModule(acc, functions, c13, file) ==
  IF functions = Failed THEN Failed ELSE WithC13(functions, acc.documents, c13, StringsOf(c13, file.names), file.dbg)
ModuleJoined(acc, read) ==
  IF read = Failed THEN Failed
  ELSE IF read.functions = Failed THEN Failed ELSE Symbols_(acc.functions \o read.functions, read.documents)
ReadModule(acc, file, i) ==
  IF acc = Failed \/ file.modules[i].stream = "gone" THEN Failed
  ELSE IF file.modules[i].stream = "none" \/ file.modules[i].stream = "tokens" THEN acc
  ELSE ModuleJoined(acc, WithModule(acc, ReadSymbols(file.modules[i].symbols, i, file.dbg), file.modules[i].c13, file))
ReadModules(file) == FoldLeft(LAMBDA acc, i : ReadModule(acc, file, i), Symbols_(<<>>, <<>>), [i \in DOMAIN file.modules |-> i])

Remapped(map, token) == IF token = 0 \/ map = Missing THEN token ELSE map[token + 1]
TokensHold(map, functions) ==
  map # Missing => \A i \in DOMAIN functions :
    functions[i].token # 0 => functions[i].token + 1 \in DOMAIN map /\ map[functions[i].token + 1] > 0
ApplyTokens(map, functions) == [i \in DOMAIN functions |-> [functions[i] EXCEPT !.token = Remapped(map, @)]]

PublicOf(dbg, p) ==
  <<p.name, IF Rva(dbg, p.segment, p.offset) = Missing THEN p.offset ELSE Rva(dbg, p.segment, p.offset)>>
ReadPublics(dbg, records) ==
  IF records \in {Failed, Missing} THEN records
  ELSE [i \in DOMAIN SubsectionsOf(records, "public") |-> PublicOf(dbg, SubsectionsOf(records, "public")[i])]
(* Publics of older files are in one of two streams, at one of two places;  *)
(* what cannot be read there is no public.                                  *)
InlinePublics(file) ==
  FoldLeft(LAMBDA found, records :
             IF found # <<>> \/ ReadPublics(file.dbg, records) \in {Failed, Missing} THEN found ELSE ReadPublics(file.dbg, records),
           <<>>, file.inline)
PublicsOf(file) ==
  IF ReadPublics(file.dbg, file.symrec) = Failed THEN Failed
  ELSE IF ReadPublics(file.dbg, file.symrec) \in {Missing, <<>>} THEN InlinePublics(file)
  ELSE ReadPublics(file.dbg, file.symrec)

FunctionKeys(functions) ==
  [i \in DOMAIN functions |-> <<functions[i].segment, functions[i].offset, functions[i].token, functions[i].module>>]
FunctionsSorted(functions) == SortedOn(functions, FunctionKeys(functions))
WithPublics(file, functions, documents, publics) ==
  IF publics = Failed \/ ~TokensHold(file.tokens, functions) THEN Failed
  ELSE [functions |-> FunctionsSorted(ApplyTokens(file.tokens, functions)), documents |-> documents, publics |-> publics]
ReadFileSymbols(file, read) ==
  IF read = Failed THEN Failed ELSE WithPublics(file, read.functions, read.documents, PublicsOf(file))
ReadCodeView(file) ==
  IF file.dbg.omap # Missing /\ ~OmapAscends(file.dbg.omap) THEN Failed ELSE ReadFileSymbols(file, ReadModules(file))

-----------------------------------------------------------------------------
(* Writing symbols.  The first scope covers the procedure and every other   *)
(* one lies in its parent, however many parents up the first one is.        *)

Above(scopes, i) == FoldLeft(LAMBDA at, k : IF at = 1 THEN 1 ELSE scopes[at].parent, i, scopes)
Nests(f, i) ==
  /\ f.scopes[i].parent \in DOMAIN f.scopes \ {i}
  /\ Within(f.scopes[f.scopes[i].parent], f.scopes[i].offset, f.scopes[i].length)
  /\ f.scopes[i].offset + f.scopes[i].length =< f.length
RootCovers(f) == f.scopes[1].parent = 0 /\ f.scopes[1].offset = 0 /\ f.scopes[1].length = f.length
ValidFunction(f) ==
  /\ f.segment # 0 /\ f.offset + f.length < AddressLimit
  /\ f.scopes # <<>> =>
       /\ RootCovers(f)
       /\ \A i \in DOMAIN f.scopes \ {1} : Nests(f, i)
       /\ \A i \in DOMAIN f.scopes : Above(f.scopes, i) = 1

MembersOf_(scope) ==
  [i \in DOMAIN scope.locals |-> WriteLocal(scope.locals[i])]
    \o [i \in DOMAIN scope.constants |-> WriteConstant(scope.constants[i])]
    \o [i \in DOMAIN scope.imports |-> [op |-> "import", name |-> scope.imports[i]]]
End_ == [op |-> "end"]
BlockRecord(f, scope) == [op |-> "block", segment |-> f.segment, offset |-> f.offset + scope.offset, length |-> scope.length]
ChildrenOf_(scopes, i) == SelectSeq([j \in DOMAIN scopes |-> j], LAMBDA j : scopes[j].parent = i)
RECURSIVE ScopeRecords(_, _)
Enclosed(f, i) == <<BlockRecord(f, f.scopes[i])>> \o ScopeRecords(f, i) \o <<End_>>
ScopeRecords(f, i) ==
  MembersOf_(f.scopes[i])
    \o FlattenSeq([k \in DOMAIN ChildrenOf_(f.scopes, i) |-> Enclosed(f, ChildrenOf_(f.scopes, i)[k])])
ProcedureRecord(f) ==
  [op |-> "proc", managed |-> f.token # 0, token |-> f.token, name |-> f.name, segment |-> f.segment, offset |-> f.offset,
   length |-> f.length]
WriteProcedure(f) ==
  <<ProcedureRecord(f)>> \o (IF f.scopes = <<>> THEN <<>> ELSE ScopeRecords(f, 1)) \o <<End_>>

-----------------------------------------------------------------------------
(* Writing C13 subsections.  A sum is the kind of a checksum with one of    *)
(* its values; kind 0 has one value.                                        *)

NamesIn(documents) ==
  FoldLeft(LAMBDA names, d : IF d.name \in Range(names) THEN names ELSE Append(names, d.name), <<>>, documents)
PositionOf(names, name) == Min({i \in DOMAIN names : names[i] = name})
ChecksumOf(documents, name) == Min({i \in DOMAIN documents : documents[i].name = name})
StringsRecord(documents) == [kind |-> "strings", table |-> NamesIn(documents)]
FilesRecord(documents) ==
  [kind |-> "files",
   files |-> [i \in DOMAIN documents |-> [name |-> PositionOf(NamesIn(documents), documents[i].name), sum |-> documents[i].sum]]]

LineHolds(f, l, documents) ==
  /\ l.offset + f.offset < AddressLimit
  /\ f.length = 0 \/ l.offset < f.length
  /\ l.start < LineLimit /\ l.end - l.start \in 0..LineSpan
  /\ \E i \in DOMAIN documents : documents[i].name = l.file
EntryOf(l) == [delta |-> l.offset, start |-> l.start, end |-> l.end, statement |-> l.statement, columns |-> l.columns]
FileBlock(lines, file, documents) ==
  [file |-> ChecksumOf(documents, file), lines |-> [i \in DOMAIN lines |-> EntryOf(lines[i])]]
LinesIn(lines, file) == ByOffset(SelectSeq(lines, LAMBDA l : l.file = file))
Upward(numbers) == [k \in 1..Cardinality(numbers) |-> CHOOSE n \in numbers : Cardinality({m \in numbers : m =< n}) = k]
FilesOfLines(lines) == Upward({lines[i].file : i \in DOMAIN lines})
LinesRecord(f, documents) ==
  [kind |-> "lines", offset |-> f.offset, segment |-> f.segment, length |-> f.length, columns |-> TRUE,
   blocks |-> [b \in DOMAIN FilesOfLines(f.lines) |->
                 FileBlock(LinesIn(f.lines, FilesOfLines(f.lines)[b]), FilesOfLines(f.lines)[b], documents)]]

SameLine(a, b) == EntryOf(a) = EntryOf(b) /\ a.file = b.file
SameLines(f, g) == Len(f.lines) = Len(g.lines) /\ \A i \in DOMAIN f.lines : SameLine(f.lines[i], g.lines[i])
Together(f, g) == f.segment = g.segment /\ f.offset = g.offset
FirstHere(ordered, i) == \A j \in 1..(i - 1) : ~Together(ordered[j], ordered[i])
LinesWritable(ordered, documents) ==
  \A i \in DOMAIN ordered :
    IF FirstHere(ordered, i) THEN \A k \in DOMAIN ordered[i].lines : LineHolds(ordered[i], ordered[i].lines[k], documents)
    ELSE \A j \in 1..(i - 1) : Together(ordered[j], ordered[i]) => SameLines(ordered[j], ordered[i])
LineRecords(ordered, documents) ==
  FlattenSeq([i \in DOMAIN ordered |->
    IF FirstHere(ordered, i) /\ ordered[i].lines # <<>> THEN <<LinesRecord(ordered[i], documents)>> ELSE <<>>])
EncodeOrdered(ordered, documents) ==
  IF (\A i \in DOMAIN ordered : ValidFunction(ordered[i])) /\ LinesWritable(ordered, documents)
  THEN [stream |-> "kept",
        symbols |-> FlattenSeq([i \in DOMAIN ordered |-> WriteProcedure(ordered[i])]),
        c13 |-> <<StringsRecord(documents), FilesRecord(documents)>> \o LineRecords(ordered, documents)]
  ELSE Failed
WriterKeys(functions) ==
  [i \in DOMAIN functions |-> <<functions[i].segment, functions[i].offset, functions[i].token, functions[i].name>>]
EncodeModule(functions, documents) == EncodeOrdered(SortedOn(functions, WriterKeys(functions)), documents)
EncodePublics(publics) ==
  [i \in DOMAIN publics |-> [kind |-> "public", name |-> publics[i].name, segment |-> publics[i].segment, offset |-> publics[i].offset]]

-----------------------------------------------------------------------------
(* A file is read, or functions are given; every module is encoded, and     *)
(* what was encoded is read.                                                *)
Symbols__(functions, documents, file, encoded, again) ==
  [functions |-> functions, documents |-> documents, file |-> file, encoded |-> encoded, again |-> again]
CodeViewInit ==
  /\ unit = "codeview"
  /\ \/ \E f \in SymbolFiles : state = Symbols__(Missing, Missing, f, Missing, Missing)
     \/ \E l \in FunctionLists : state = Symbols__(l.functions, l.documents, Missing, Missing, Missing)

ReadTheFile(read) ==
  state' = [state EXCEPT !.functions = IF read = Failed THEN Failed ELSE read.functions,
                         !.documents = IF read = Failed THEN Failed ELSE read.documents]
ReadSymbolFile ==
  /\ state.functions = Missing
  /\ ReadTheFile(ReadCodeView(state.file))

ModuleCount(functions) == Max({0} \cup {functions[i].module : i \in DOMAIN functions})
OfModule(functions, m) == SelectSeq(functions, LAMBDA f : f.module = m)
EncodeSymbols ==
  /\ state.functions \notin {Missing, Failed} /\ state.encoded = Missing
  /\ state' = [state EXCEPT !.encoded = [m \in 1..ModuleCount(state.functions) |->
                                           EncodeModule(OfModule(state.functions, m), state.documents)]]

PlainFile(modules) ==
  [dbg |-> [omap |-> Missing, sections |-> <<>>, original |-> Missing], names |-> <<>>, tokens |-> Missing,
   symrec |-> Missing, inline |-> <<>>, modules |-> modules]
ReadAgain ==
  /\ state.encoded # Missing /\ state.again = Missing
  /\ \A m \in DOMAIN state.encoded : state.encoded[m] # Failed
  /\ state' = [state EXCEPT !.again = ReadCodeView(PlainFile(state.encoded))]

CodeViewNext == unit = "codeview" /\ UNCHANGED unit /\ (ReadSymbolFile \/ EncodeSymbols \/ ReadAgain)

-----------------------------------------------------------------------------
(* What is written reads back: functions by address, scopes before those in *)
(* them, lines by address and then by file.                                 *)

RECURSIVE PathTo(_, _)
PathTo(scopes, i) == IF i = 1 THEN <<>> ELSE Append(PathTo(scopes, scopes[i].parent), i)
ScopePaths(f) == [i \in DOMAIN f.scopes |-> PathTo(f.scopes, i)]
ScopesNumbered(f, ranks) ==
  [k \in DOMAIN f.scopes |->
     LET i == CHOOSE i \in DOMAIN f.scopes : ranks[i] = k
     IN  [f.scopes[i] EXCEPT !.parent = IF @ = 0 THEN 0 ELSE ranks[@]]]
ScopesInOrder(f) ==
  IF f.scopes = <<>> THEN <<ScopeOf_(0, 0, f.length)>>
  ELSE ScopesNumbered(f, [i \in DOMAIN f.scopes |-> RankIn(ScopePaths(f), i)])
LinesInOrder(f) ==
  SortedOn([i \in DOMAIN f.lines |-> [f.lines[i] EXCEPT !.rva = Missing]],
           [i \in DOMAIN f.lines |-> <<f.lines[i].offset, f.lines[i].file>>])
InOrder(f) == [f EXCEPT !.rva = Missing, !.scopes = ScopesInOrder(f), !.lines = LinesInOrder(f)]
ByModule(functions) ==
  SortedOn(functions, [i \in DOMAIN functions |-> <<functions[i].segment, functions[i].offset, functions[i].token,
                                                   functions[i].module, functions[i].name>>])
Expected(functions) == ByModule([i \in DOMAIN functions |-> InOrder(functions[i])])

(* Lines are those of an address: a shorter procedure there that a line     *)
(* lies beyond is written and cannot be read.                               *)
BeyondShorter(functions) ==
  \E i, j \in DOMAIN functions :
    /\ Together(functions[i], functions[j]) /\ functions[i].module = functions[j].module /\ functions[j].length # 0
    /\ \E k \in DOMAIN functions[i].lines : functions[i].lines[k].offset >= functions[j].length
SymbolsReadBack ==
  unit = "codeview" /\ state.again # Missing =>
    IF state.again = Failed THEN BeyondShorter(state.functions)
    ELSE /\ state.again.functions = Expected(state.functions)
         /\ \A i \in DOMAIN state.documents :
              state.encoded # <<>> => state.documents[i] \in Range(state.again.documents)
         /\ IsInjective(state.again.documents)

(* Symbols that were read can be written: only procedures of no section and *)
(* procedures that share an address and not their lines cannot.             *)
ReadSymbolsAreWritable ==
  unit = "codeview" /\ state.file # Missing /\ state.encoded # Missing =>
    \A m \in DOMAIN state.encoded :
      state.encoded[m] = Failed =>
        \/ \E i \in DOMAIN state.functions : state.functions[i].segment = 0
        \/ \E i, j \in DOMAIN state.functions :
             Together(state.functions[i], state.functions[j]) /\ ~SameLines(state.functions[i], state.functions[j])
CodeViewKept == SymbolsReadBack /\ ReadSymbolsAreWritable
=============================================================================
