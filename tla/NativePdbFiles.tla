---------------------------- MODULE NativePdbFiles ----------------------------
(***************************************************************************)
(* Native PDBs as a whole: the builder (native/writer.rs) and the reader    *)
(* (native/symbols.rs), over the symbols of CodeViewSymbols.                *)
(*                                                                         *)
(* A file is its streams; stream i is element i + 1.  Stream 1 names other  *)
(* streams, stream 3 (DBI) lists the modules and the streams of debug data, *)
(* streams 2 and 4 hold types.  Stream index -1 is "none".                  *)
(***************************************************************************)
EXTENDS CodeViewSymbols

CONSTANTS
  SkippedModule,       \* the name "TokenSourceLineInfo"
  NamesName,           \* the name "/names"
  UpperOf,             \* names in upper case, where that changes them
  HashOf,              \* hash_v1 of a name
  FirstType,           \* the least type index that is no primitive (0x1000)
  FirstMetadataType,   \* the least that is a metadata token
  PdbFiles,            \* files to open
  BuiltFunctions, BuiltPublics, BuiltDocuments, BuiltSections,   \* what is added
  MaxPdbEdits, MaxPdbSaves

None_ == -1
StreamAt(streams, i) == IF i \in 1..(Len(streams) - 1) THEN streams[i + 1] ELSE Missing
DataAt(streams, i) == IF StreamAt(streams, i) = Missing THEN Missing ELSE streams[i + 1].data
EmptyTypes == [kind |-> "types", from |-> FirstType, to |-> FirstType, ids |-> <<>>]

-----------------------------------------------------------------------------
(* Hash tables with linear probing: named streams and the strings of        *)
(* "/names".  Only the occupied buckets are written, in order.              *)

FreeFrom(buckets, slot) ==
  (slot + Min({k \in 0..(Len(buckets) - 1) : buckets[1 + ((slot + k) % Len(buckets))] = Missing})) % Len(buckets)
Placed(buckets, name, entry) == [buckets EXCEPT ![1 + FreeFrom(buckets, HashOf[name] % Len(buckets))] = entry]
Emptied(capacity) == [b \in 1..capacity |-> Missing]
NamedBuckets(names) ==
  FoldLeft(LAMBDA acc, name : Placed(acc, name, <<name, names[name]>>),
           Emptied(Max({8, 2 * Cardinality(DOMAIN names) + 1})), Upward(DOMAIN names))
Present(buckets) == SelectSeq(buckets, LAMBDA e : e # Missing)
InfoStream(identity, names) ==
  [kind |-> "info", identity |-> identity, capacity |-> Len(NamedBuckets(names)), entries |-> Present(NamedBuckets(names))]
NamesStream(table) ==
  [kind |-> "names",
   entries |-> Present(FoldLeft(LAMBDA acc, i : Placed(acc, table[i], <<i, table[i]>>), Emptied(2 * Len(table) + 1), [i \in DOMAIN table |-> i]))]

FromEntries(entries) == FoldLeft(LAMBDA acc, e : (e[1] :> e[2]) @@ acc, <<>>, entries)
ReadNamedStreams(info) == FromEntries(info.entries)
UpperName(name) == IF name \in DOMAIN UpperOf THEN UpperOf[name] ELSE name
NameIndex(info) == FoldLeft(LAMBDA acc, e : (UpperName(e[1]) :> e[2]) @@ acc, <<>>, info.entries)

(* Public and global symbols are hashed into buckets whose entries follow   *)
(* one another; the file says where each bucket that has any starts.        *)
Entry(name, at, segment, address) == [name |-> name, at |-> at, segment |-> segment, address |-> address]
Bucket(e) == HashOf[e.name] % 4096
HashSorted(entries) == SortedOn(entries, [i \in DOMAIN entries |-> <<Bucket(entries[i]), entries[i].name, entries[i].at>>])
BucketsOf(sorted) == Upward({Bucket(sorted[i]) : i \in DOMAIN sorted})
(* A mutation: buckets start where the entry before them is.                *)
StartsBefore(sorted, buckets) ==
  [b \in DOMAIN buckets |-> Max({0} \cup {i - 1 : i \in {j \in DOMAIN sorted : Bucket(sorted[j]) < buckets[b]}})]
StartsOf(sorted, buckets) ==
  [b \in DOMAIN buckets |-> Cardinality({i \in DOMAIN sorted : Bucket(sorted[i]) < buckets[b]})]
HashOfSorted(sorted, buckets) ==
  [entries |-> [i \in DOMAIN sorted |-> sorted[i].at], buckets |-> buckets, starts |-> StartsOf(sorted, buckets)]
HashStream(entries) == HashOfSorted(HashSorted(entries), BucketsOf(entries))
AddressMap(entries) ==
  LET sorted == SortedOn(entries, [i \in DOMAIN entries |-> <<entries[i].segment, entries[i].address, entries[i].name>>])
  IN  [i \in DOMAIN sorted |-> sorted[i].at]

-----------------------------------------------------------------------------
(* Opening a file.                                                          *)

DbiOf(streams) == StreamAt(streams, 3)
OpenedModule(streams, m) ==
  IF m.stream \in {0, None_} THEN [stream |-> "none"]
  ELSE IF StreamAt(streams, m.stream) = Missing THEN [stream |-> "gone"]
  ELSE IF m.name = SkippedModule THEN [stream |-> "tokens"]
  ELSE [stream |-> "kept", symbols |-> streams[m.stream + 1].symbols, c13 |-> streams[m.stream + 1].c13]
DebugOf(streams, optional) ==
  [omap |-> DataAt(streams, optional.omap), sections |-> IF DataAt(streams, optional.sections) = Missing THEN <<>> ELSE DataAt(streams, optional.sections),
   original |-> DataAt(streams, optional.original)]
RecordsAt(streams, i) ==
  IF StreamAt(streams, i) = Missing THEN Missing ELSE IF streams[i + 1].kind = "symbols" THEN streams[i + 1].records ELSE Failed
NamesFrom(streams, index) ==
  IF UpperName(NamesName) \notin DOMAIN index THEN <<>>
  ELSE IF StreamAt(streams, index[UpperName(NamesName)]) = Missing THEN Failed
  ELSE FromEntries(streams[index[UpperName(NamesName)] + 1].entries)
SymbolFile(streams, dbi, names) ==
  [modules |-> [i \in DOMAIN dbi.modules |-> OpenedModule(streams, dbi.modules[i])], dbg |-> DebugOf(streams, dbi.optional),
   names |-> names, tokens |-> DataAt(streams, dbi.optional.tokens), symrec |-> RecordsAt(streams, dbi.symrec),
   inline |-> <<RecordsAt(streams, dbi.psi), RecordsAt(streams, dbi.gsi)>>]
OpenWith(streams, dbi, names) ==
  IF names = Failed \/ (dbi.optional.tokens > 0 /\ StreamAt(streams, dbi.optional.tokens) = Missing) THEN Failed
  ELSE ReadCodeView(SymbolFile(streams, dbi, names))
OpenPdb(streams) ==
  IF StreamAt(streams, 1) = Missing \/ DbiOf(streams) = Missing THEN Failed
  ELSE OpenWith(streams, DbiOf(streams), NamesFrom(streams, NameIndex(streams[2])))

-----------------------------------------------------------------------------
(* A builder from a file: what the model holds of its symbols, and all its  *)
(* streams.  Types of native procedures are kept by module, address, name.  *)

RawPublics(streams, symrec) ==
  IF RecordsAt(streams, symrec) = Missing THEN <<>> ELSE SelectSeq(RecordsAt(streams, symrec), LAMBDA r : r.kind = "public" /\ ~r.short)
ResolvedType(ids, t) == IF ~t.id THEN t.type ELSE IF t.type \in DOMAIN ids THEN ids[t.type] ELSE 0
Procedures(m) == SelectSeq(m.symbols, LAMBDA r : r.op = "proc")
TypesOfModule(procs, types, ids, i) ==
  FoldLeft(LAMBDA acc, k : IF procs[k].managed THEN acc
                           ELSE (<<i, procs[k].segment, procs[k].offset, procs[k].name>> :> ResolvedType(ids, types[k])) @@ acc,
           <<>>, [k \in DOMAIN procs |-> k])
RawTypesIn(streams, m, ids, i) ==
  IF StreamAt(streams, m.stream) = Missing THEN <<>>
  ELSE TypesOfModule(Procedures(streams[m.stream + 1]), streams[m.stream + 1].types, ids, i)
RawProcedureTypes(streams, modules) ==
  LET ids == IF StreamAt(streams, 4) = Missing THEN <<>> ELSE streams[5].ids
  IN  FoldLeft(LAMBDA acc, i : RawTypesIn(streams, modules[i], ids, i) @@ acc, <<>>, [i \in DOMAIN modules |-> i])

WithTypes(streams) ==
  [i \in 1..Max({Len(streams), 5}) |->
     IF i \notin DOMAIN streams THEN IF i \in {3, 5} THEN EmptyTypes ELSE Missing
     ELSE IF i \in {3, 5} /\ streams[i] = Missing THEN EmptyTypes ELSE streams[i]]
TypeRange(types) == IF types.kind = "types" THEN types.from..(types.to - 1) ELSE {}
NoOptional == [omap |-> None_, sections |-> None_, tokens |-> None_, original |-> None_]
(* A mutation: the map of tokens is kept with the other streams.            *)
KeptWithTokens(optional) == optional
KeptOptional(optional) == [optional EXCEPT !.tokens = None_]
Builder(streams, optional, modules, read, publics, named, range, types) ==
  [streams |-> streams, optional |-> optional, modules |-> modules, functions |-> read.functions, documents |-> read.documents,
   publics |-> publics, named |-> named, sections |-> Missing, range |-> range, types |-> types]
NewBuilder ==
  Builder(<<Missing, Missing, EmptyTypes, Missing, EmptyTypes>>, NoOptional, <<>>, [functions |-> <<>>, documents |-> <<>>],
          <<>>, <<>>, {}, <<>>)
BuilderOf(streams, dbi, read) ==
  Builder(WithTypes(streams), KeptOptional(dbi.optional), [i \in DOMAIN dbi.modules |-> dbi.modules[i].name], read,
          RawPublics(streams, dbi.symrec), ReadNamedStreams(streams[2]), TypeRange(WithTypes(streams)[3]),
          RawProcedureTypes(streams, dbi.modules))
FromPdb(streams, read) == IF read = Failed THEN Failed ELSE BuilderOf(streams, DbiOf(streams), read)

-----------------------------------------------------------------------------
(* Writing a file: old streams keep their places, new ones are appended.    *)

TypeIndexes(f) ==
  UNION {{s.locals[i].type : i \in DOMAIN s.locals} \cup {s.constants[i].type : i \in DOMAIN s.constants} : s \in Range(f.scopes)}
TypesHeld(b) ==
  \A i \in DOMAIN b.functions : \A t \in TypeIndexes(b.functions[i]) :
    t < FirstType \/ (b.functions[i].token # 0 /\ t >= FirstMetadataType) \/ t \in b.range
LineFiles(functions) == FlattenSeq([i \in DOMAIN functions |-> [k \in DOMAIN functions[i].lines |-> functions[i].lines[k].file]])
KnownNames(documents) == {documents[i].name : i \in DOMAIN documents}
AllDocuments(b) ==
  FoldLeft(LAMBDA documents, file : IF file \in KnownNames(documents) THEN documents ELSE Append(documents, [name |-> file, sum |-> 0]),
           b.documents, LineFiles(b.functions))
ModulesNeeded(b, documents) ==
  Max({Len(b.modules), ModuleCount(b.functions), IF b.functions = <<>> /\ documents # <<>> THEN 1 ELSE 0})

TypeOf_(b, f, m) ==
  IF f.token # 0 \/ <<m, f.segment, f.offset, f.name>> \notin DOMAIN b.types THEN 0 ELSE b.types[<<m, f.segment, f.offset, f.name>>]
OrderedIn(b, m) == SortedOn(OfModule(b.functions, m), WriterKeys(OfModule(b.functions, m)))
ModuleTypes(b, ordered, m) == [i \in DOMAIN ordered |-> [id |-> FALSE, type |-> TypeOf_(b, ordered[i], m)]]
ModuleStream(encoded, types) == IF encoded = Failed THEN Failed ELSE [kind |-> "module", types |-> types] @@ encoded
ModuleStreams(b, documents) ==
  [m \in 1..ModulesNeeded(b, documents) |->
     ModuleStream(EncodeModule(OfModule(b.functions, m), documents), ModuleTypes(b, OrderedIn(b, m), m))]

PublicEntries(publics) == [i \in DOMAIN publics |-> Entry(publics[i].name, i, publics[i].segment, publics[i].offset)]
(* A reference says in which module a procedure is, and which record of it. *)
RefsTo(modules) ==
  FlattenSeq([m \in DOMAIN modules |->
    FlattenSeq([k \in DOMAIN modules[m].symbols |->
      IF modules[m].symbols[k].op = "proc"
      THEN <<[kind |-> "ref", name |-> modules[m].symbols[k].name, module |-> m, at |-> k]>> ELSE <<>>])])
SymbolRecords(publics, refs) ==
  [i \in DOMAIN publics |-> [kind |-> "public", short |-> FALSE, name |-> publics[i].name, segment |-> publics[i].segment, offset |-> publics[i].offset]] \o refs
RefEntries(refs, before) == [i \in DOMAIN refs |-> Entry(refs[i].name, before + i, 0, 0)]

Appended(b, modules, documents) ==
  modules \o (IF b.sections = Missing THEN <<>> ELSE <<[kind |-> "data", data |-> b.sections]>>)
    \o <<NamesStream(IF modules = <<>> THEN <<>> ELSE NamesIn(documents))>>
    \o <<[kind |-> "psi", hash |-> HashStream(PublicEntries(b.publics)), map |-> AddressMap(PublicEntries(b.publics))],
         [kind |-> "gsi", hash |-> HashStream(RefEntries(RefsTo(modules), Len(b.publics)))],
         [kind |-> "symbols", records |-> SymbolRecords(b.publics, RefsTo(modules))]>>
ModuleName(b, m) == IF m \in DOMAIN b.modules THEN b.modules[m] ELSE 1000 + m
DbiStream(b, at, n, count) ==
  [kind |-> "dbi", modules |-> [m \in 1..n |-> [stream |-> at + m - 1, name |-> ModuleName(b, m)]],
   psi |-> at + count - 3, gsi |-> at + count - 2, symrec |-> at + count - 1,
   optional |-> IF b.sections = Missing THEN b.optional ELSE [b.optional EXCEPT !.sections = at + n]]
(* A stream of no bytes reads back as no stream.                            *)
AsRead(streams) == [i \in DOMAIN streams |-> IF streams[i] = [kind |-> "symbols", records |-> <<>>] THEN Missing ELSE streams[i]]
WithStreams(b, streams, n, count) ==
  AsRead([streams EXCEPT ![2] = InfoStream(0, (NamesName :> Len(b.streams) + count - 4) @@ b.named),
                         ![4] = DbiStream(b, Len(b.streams), n, count)])
FinalizeModules(b, documents, modules) ==
  IF \E m \in DOMAIN modules : modules[m] = Failed THEN Failed
  ELSE WithStreams(b, b.streams \o Appended(b, modules, documents), Len(modules), Len(Appended(b, modules, documents)))
FinalizeWith(b, documents) == IF TypesHeld(b) THEN FinalizeModules(b, documents, ModuleStreams(b, documents)) ELSE Failed
Finalize(b) == FinalizeWith(b, AllDocuments(b))

-----------------------------------------------------------------------------
(* A file is opened or a builder is new; it is edited and finalized; what   *)
(* was written is opened again.                                             *)
Pdb(file, builder, was, edits, saves) == [file |-> file, builder |-> builder, was |-> was, edits |-> edits, saves |-> saves]
NativePdbInit ==
  /\ unit = "nativepdb"
  /\ \/ \E f \in PdbFiles : state = Pdb(f, Missing, Missing, 0, 0)
     \/ state = Pdb(Missing, NewBuilder, Missing, 0, 0)

OpenFile ==
  /\ state.builder = Missing /\ state.file \notin {Missing, Failed} /\ state.saves < MaxPdbSaves
  /\ state' = [state EXCEPT !.builder = FromPdb(state.file, OpenPdb(state.file)), !.file = Missing, !.was = Missing]

Editing == state.builder \notin {Missing, Failed} /\ state.edits < MaxPdbEdits
Edit_(b) == state' = [state EXCEPT !.builder = b, !.edits = @ + 1]
AddFunction == Editing /\ \E f \in BuiltFunctions : Edit_([state.builder EXCEPT !.functions = Append(@, f)])
AddPublic == Editing /\ \E p \in BuiltPublics : p.segment # 0 /\ Edit_([state.builder EXCEPT !.publics = Append(@, p)])
AddDocument ==
  /\ Editing
  /\ \E d \in BuiltDocuments :
       /\ d.name \notin KnownNames(state.builder.documents)
       /\ Edit_([state.builder EXCEPT !.documents = Append(@, d)])
SetSectionHeaders ==
  /\ Editing
  /\ \E s \in BuiltSections :
       Edit_([state.builder EXCEPT !.sections = s, !.optional = [@ EXCEPT !.omap = None_, !.original = None_]])
Clear ==
  /\ Editing
  /\ \/ state.builder.functions # <<>> /\ Edit_([state.builder EXCEPT !.functions = <<>>])
     \/ state.builder.publics # <<>> /\ Edit_([state.builder EXCEPT !.publics = <<>>])
     \/ state.builder.documents # <<>> /\ Edit_([state.builder EXCEPT !.documents = <<>>])

Finish ==
  /\ state.builder \notin {Missing, Failed}
  /\ state' = [state EXCEPT !.file = Finalize(state.builder), !.was = state.builder, !.builder = Missing, !.saves = @ + 1]

NativePdbNext ==
  /\ unit = "nativepdb" /\ UNCHANGED unit
  /\ OpenFile \/ AddFunction \/ AddPublic \/ AddDocument \/ SetSectionHeaders \/ Clear \/ Finish

-----------------------------------------------------------------------------
PdbWritten == unit = "nativepdb" /\ state.was # Missing /\ state.file # Failed
Reread == OpenPdb(state.file)
(* Functions of a module that the reader passes over cannot be told from    *)
(* functions that were never added.                                         *)
Shown(b) == SelectSeq(b.functions, LAMBDA f : f.module \notin DOMAIN b.modules \/ b.modules[f.module] # SkippedModule)
SomeShown(b) == \E m \in 1..ModulesNeeded(b, AllDocuments(b)) : ModuleName(b, m) # SkippedModule
DebugWanted(b) ==
  IF b.sections = Missing THEN DebugOf(b.streams, b.optional) ELSE [omap |-> Missing, sections |-> b.sections, original |-> Missing]
(* What the builder held reads back: functions with their own tokens and    *)
(* their addresses under the sections in force, documents, publics.         *)
FunctionsRead(b, read) ==
  [i \in DOMAIN read.functions |-> InOrder(read.functions[i])] = Expected(Shown(b))
AddressesRead(b, read) ==
  \A i \in DOMAIN read.functions :
    read.functions[i].rva =
      IF read.functions[i].token # 0 THEN Missing ELSE Rva(DebugWanted(b), read.functions[i].segment, read.functions[i].offset)
ReadsBackAs(b, read) ==
  IF read = Failed THEN BeyondShorter(b.functions)
  ELSE /\ FunctionsRead(b, read) /\ AddressesRead(b, read)
       /\ SomeShown(b) => KnownNames(AllDocuments(b)) = KnownNames(read.documents)
       /\ read.publics = [i \in DOMAIN b.publics |-> PublicOf(DebugWanted(b), b.publics[i])]
PdbReadsBack == PdbWritten => ReadsBackAs(state.was, Reread)

(* Streams of the original keep their content and their place, and types of *)
(* procedures that are still there are kept.                                *)
TypesKept(b, types) ==
  \A i \in DOMAIN b.functions :
    b.functions[i].token = 0 =>
      types[<<b.functions[i].module, b.functions[i].segment, b.functions[i].offset, b.functions[i].name>>]
        = TypeOf_(b, b.functions[i], b.functions[i].module)
StreamsRetained ==
  PdbWritten =>
    /\ \A i \in DOMAIN state.was.streams \ {2, 4} : state.file[i] = state.was.streams[i]
    /\ \A name \in DOMAIN state.was.named \ {NamesName} : ReadNamedStreams(state.file[2])[name] = state.was.named[name]
    /\ TypesKept(state.was, RawProcedureTypes(state.file, DbiOf(state.file).modules))

(* Other readers look symbols up: every one is in the bucket of its name,   *)
(* and every reference is to the record of its procedure.                   *)
BucketEnd(hash, b) == IF b = Len(hash.starts) THEN Len(hash.entries) ELSE hash.starts[b + 1]
FoundIn(hash, records, i) ==
  \E b \in DOMAIN hash.buckets :
    /\ hash.buckets[b] = HashOf[records[i].name] % 4096
    /\ \E k \in (hash.starts[b] + 1)..BucketEnd(hash, b) : hash.entries[k] = i
SymbolsFoundIn(file, dbi, records) ==
  records # Missing =>
    \A i \in DOMAIN records :
      IF records[i].kind = "public" THEN FoundIn(file[dbi.psi + 1].hash, records, i)
      ELSE /\ FoundIn(file[dbi.gsi + 1].hash, records, i)
           /\ file[dbi.modules[records[i].module].stream + 1].symbols[records[i].at].name = records[i].name
SymbolsFound == PdbWritten => SymbolsFoundIn(state.file, DbiOf(state.file), RecordsAt(state.file, DbiOf(state.file).symrec))
NativePdbKept == PdbReadsBack /\ StreamsRetained /\ SymbolsFound
=============================================================================
