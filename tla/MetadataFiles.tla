---------------------------- MODULE MetadataFiles ----------------------------
(***************************************************************************)
(* Metadata as bytes (cecil-metadata): the builder interns heap entries    *)
(* and collects rows, finalize lays them out with indices of two or four   *)
(* bytes, and the reader finds every cell by computing the same widths.    *)
(*                                                                         *)
(* A cell of the model is one letter of a heap or two bytes of a row, so   *)
(* that an index is one cell or two.  Limits are constants: IndexLimit     *)
(* stands for 65535.  Offsets count from the first stream; the size of     *)
(* what precedes it is HeaderSize.                                         *)
(***************************************************************************)
EXTENDS Workbench

CONSTANTS
  IndexLimit,       \* the largest index of two bytes
  GuidSize,         \* cells of a GUID
  TableOrder,       \* tables by number
  TypeSystemTables,       \* those below PORTABLE_PDB_FIRST
  Columns,          \* [table -> sequence of <<kind, table or group>>]
  CodedGroups,      \* [group -> [tables, first, bits]]
  HeaderSize,
  RowCost, EntryCost, BudgetFactor, BudgetCap,   \* 128, 64, 128 and 256 MiB
  Seeds,            \* builders to go on from, with what they were given
  Calls,            \* what may be inserted
  CallBound,        \* how often
  LostCells              \* how much of a file may be lost

Base == IndexLimit + 1
CountIn(counts, table) == IF table \in DOMAIN counts THEN counts[table] ELSE 0

-----------------------------------------------------------------------------
(* Interning.  Equal hashes are chained and payloads compared.              *)
EntryHash(key) == Len(key) % 2
RECURSIVE FindFrom(_, _, _, _)
FindFrom(index, entry, data, key) ==
  IF entry = 0 THEN Missing
  ELSE IF SubSeq(data, index.entries[entry].start + 1, index.entries[entry].start + index.entries[entry].len) = key
  THEN index.entries[entry].index
  ELSE FindFrom(index, index.entries[entry].next, data, key)
Find(index, data, key) == FindFrom(index, index.heads[EntryHash(key)], data, key)
Indexed_(index, key, at, start) ==
  [heads |-> [index.heads EXCEPT ![EntryHash(key)] = Len(index.entries) + 1],
   entries |-> Append(index.entries, [start |-> start, len |-> Len(key), index |-> at, next |-> index.heads[EntryHash(key)]])]

NoHeap(data) == [data |-> data, map |-> [heads |-> (0 :> 0 @@ 1 :> 0), entries |-> <<>>]]
HandedOut(heap, index) == [heap |-> heap, index |-> index]
InternedAt(heap, found, key, bytes, start) ==
  IF found # Missing THEN HandedOut(heap, found)
  ELSE HandedOut([data |-> heap.data \o bytes, map |-> Indexed_(heap.map, key, Len(heap.data), start)], Len(heap.data))
InsertString(heap, text) ==
  IF text = <<>> THEN HandedOut(heap, 0)
  ELSE InternedAt(heap, Find(heap.map, heap.data, text), text, text \o <<0>>, Len(heap.data))
InsertBlob(heap, blob) ==
  IF blob = <<>> THEN HandedOut(heap, 0)
  ELSE InternedAt(heap, Find(heap.map, heap.data, blob), blob, <<Len(blob)>> \o blob, Len(heap.data) + 1)

(* User strings and GUIDs are looked up whole; the flag marks characters    *)
(* that need escaping.                                                      *)
SpecialFlag(text) == IF \E i \in DOMAIN text : text[i] > 126 \/ text[i] \in (1..8) \cup (14..31) THEN 1 ELSE 0
InsertUserString(heap, text) ==
  IF \E e \in heap.map : e[1] = text THEN HandedOut(heap, (CHOOSE e \in heap.map : e[1] = text)[2])
  ELSE HandedOut([data |-> heap.data \o <<2 * Len(text) + 1>> \o text \o <<SpecialFlag(text)>>,
              map |-> heap.map \cup {<<text, Len(heap.data)>>}], Len(heap.data))
InsertGuid(heap, guid) ==
  IF \E e \in heap.map : e[1] = guid THEN HandedOut(heap, (CHOOSE e \in heap.map : e[1] = guid)[2])
  ELSE HandedOut([data |-> heap.data \o guid, map |-> heap.map \cup {<<guid, Cardinality(heap.map) + 1>>}],
             Cardinality(heap.map) + 1)

EmptyBuilder ==
  [strings |-> NoHeap(<<0>>), user |-> [data |-> <<0>>, map |-> {}], blobs |-> NoHeap(<<0>>),
   guids |-> [data |-> <<>>, map |-> {}], pdb |-> Missing, rows |-> [t \in Range(TableOrder) |-> <<>>]]
AddRow(builder, table, cells) ==
  IF Len(cells) # Len(Columns[table]) THEN Failed ELSE [builder EXCEPT !.rows[table] = Append(@, cells)]
RowCount(builder, table) == IF table \in DOMAIN builder.rows THEN Len(builder.rows[table]) ELSE 0
(* Tables without a schema are ignored, and the last count of a table wins. *)
SetPdbHeap(builder, id, entry, counts) ==
  [builder EXCEPT !.pdb =
     [id |-> id, entry |-> entry,
      counts |-> [t \in {counts[i][1] : i \in DOMAIN counts} \cap Range(TableOrder) |->
                    counts[Max({i \in DOMAIN counts : counts[i][1] = t})][2]]]]

-----------------------------------------------------------------------------
(* Widths, in cells.                                                        *)
Wide_(large) == IF large THEN 2 ELSE 1
LargestOf(counts, group) == Max({CountIn(counts, t) : t \in Range(CodedGroups[group].tables)})
CodedWide(counts, group) == LargestOf(counts, group) >= Base \div (2 ^ CodedGroups[group].bits)
SimpleWide(counts, table) == CountIn(counts, table) > IndexLimit
KindWidth(set, column) ==
  CASE column[1] = "u16" -> 1
    [] column[1] = "u32" -> 2
    [] column[1] \in {"string", "guid", "blob"} -> Wide_(column[1] \in set.flags)
    [] column[1] = "simple" -> Wide_(SimpleWide(set.counts, column[2]))
    [] column[1] = "coded" -> Wide_(CodedWide(set.counts, column[2]))

Total(numbers) == FoldLeft(LAMBDA sum, n : sum + n, 0, numbers)
WidthsOf(set, table) == [c \in DOMAIN Columns[table] |-> KindWidth(set, Columns[table][c])]
RowSize(set, table) == Total(WidthsOf(set, table))
ValidTables(set) == SelectSeq(TableOrder, LAMBDA t : t \in set.valid)
(* The tables follow one another in the order of their numbers.             *)
OffsetOf(set, table) ==
  FoldLeft(LAMBDA at, t : IF at[2] THEN at ELSE IF t = table THEN <<at[1], TRUE>>
                          ELSE <<at[1] + RowSize(set, t) * set.counts[t], FALSE>>,
           <<0, FALSE>>, ValidTables(set))[1]
TablesExtent(set) == Total([i \in DOMAIN ValidTables(set) |-> RowSize(set, ValidTables(set)[i]) * set.counts[ValidTables(set)[i]]])

EncodeCoded(group, table, rid) ==
  rid * 2 ^ CodedGroups[group].bits + CodedGroups[group].first
    + (CHOOSE i \in DOMAIN CodedGroups[group].tables : CodedGroups[group].tables[i] = table) - 1
TagIndex(group, cell) == (cell % (2 ^ CodedGroups[group].bits)) - CodedGroups[group].first + 1
DecodeCoded(group, cell) ==
  IF TagIndex(group, cell) \notin DOMAIN CodedGroups[group].tables THEN Missing
  ELSE <<CodedGroups[group].tables[TagIndex(group, cell)], cell \div (2 ^ CodedGroups[group].bits)>>

-----------------------------------------------------------------------------
(* Writing.  Row counts of another file widen indices and add no rows.      *)
Mask(tables) == Total([i \in DOMAIN TableOrder |-> IF TableOrder[i] \in tables THEN 2 ^ (i - 1) ELSE 0])
Unmask(mask) == {TableOrder[i] : i \in {j \in DOMAIN TableOrder : (mask \div (2 ^ (j - 1))) % 2 = 1}}
CountsIn(tables, counts) ==
  LET present == SelectSeq(TableOrder, LAMBDA t : t \in tables) IN [i \in DOMAIN present |-> counts[present[i]]]
FlagNumber(flags) ==
  (IF "string" \in flags THEN 1 ELSE 0) + (IF "guid" \in flags THEN 2 ELSE 0) + (IF "blob" \in flags THEN 4 ELSE 0)

HeapFlags(builder) ==
  {k \in {"string", "guid", "blob"} :
     Len((CASE k = "string" -> builder.strings [] k = "guid" -> builder.guids [] k = "blob" -> builder.blobs).data) > IndexLimit}
PhysicalCounts(builder) == [t \in Range(TableOrder) |-> Len(builder.rows[t])]
(* A mutation: rows of the other file are not counted.                      *)
WidthCountsPhysical(builder) == PhysicalCounts(builder)
WidthCounts(builder) ==
  IF builder.pdb = Missing THEN PhysicalCounts(builder)
  ELSE [t \in Range(TableOrder) |->
          IF t \in TypeSystemTables \cap DOMAIN builder.pdb.counts /\ builder.rows[t] = <<>> THEN builder.pdb.counts[t]
          ELSE Len(builder.rows[t])]
LayoutOf(builder) ==
  [valid |-> {t \in Range(TableOrder) : builder.rows[t] # <<>>}, counts |-> WidthCounts(builder), flags |-> HeapFlags(builder)]

WriteCell(value, width) == IF width = 1 THEN <<value % Base>> ELSE <<value % Base, (value \div Base) % Base>>
WriteRow(cells, widths) == FlattenSeq([c \in DOMAIN cells |-> WriteCell(cells[c], widths[c])])
WriteTable(builder, set, table) ==
  FlattenSeq([r \in DOMAIN builder.rows[table] |-> WriteRow(builder.rows[table][r], WidthsOf(set, table))])
TableStream(builder, set) ==
  <<FlagNumber(set.flags), Mask(set.valid)>> \o CountsIn(set.valid, PhysicalCounts(builder))
    \o FlattenSeq([i \in DOMAIN ValidTables(set) |-> WriteTable(builder, set, ValidTables(set)[i])])
PdbStream(pdb) == <<pdb.id, pdb.entry, Mask(DOMAIN pdb.counts)>> \o CountsIn(DOMAIN pdb.counts, pdb.counts)

Stream(name, data) == <<[name |-> name, data |-> data]>>
StreamsOf(builder) ==
  Stream("#~", TableStream(builder, LayoutOf(builder))) \o Stream("#Strings", builder.strings.data)
    \o Stream("#US", builder.user.data)
    \o (IF builder.guids.data # <<>> THEN Stream("#GUID", builder.guids.data) ELSE <<>>)
    \o (IF Len(builder.blobs.data) > 1 THEN Stream("#Blob", builder.blobs.data) ELSE <<>>)
    \o (IF builder.pdb # Missing THEN Stream("#Pdb", PdbStream(builder.pdb)) ELSE <<>>)

Padded4(data) == data \o [i \in 1..((4 - (Len(data) % 4)) % 4) |-> 0]
(* A root: its directory and the payloads, each padded to four cells.       *)
Placed_(root, stream) ==
  [directory |-> Append(root.directory, [name |-> stream.name, offset |-> Len(root.body), size |-> Len(stream.data)]),
   body |-> root.body \o Padded4(stream.data)]
WriteRoot(streams) == FoldLeft(Placed_, [directory |-> <<>>, body |-> <<>>], streams)
Finalize_(builder) == WriteRoot(StreamsOf(builder))

-----------------------------------------------------------------------------
(* Reading.  A tolerant reader takes what is there of a stream.             *)

SliceOf(root, entry, tolerant) ==
  IF entry.offset + entry.size <= Len(root.body) THEN SubSeq(root.body, entry.offset + 1, entry.offset + entry.size)
  ELSE IF tolerant THEN SubSeq(root.body, entry.offset + 1, Len(root.body)) ELSE Failed
Slices(root, tolerant) == [i \in DOMAIN root.directory |-> SliceOf(root, root.directory[i], tolerant)]
(* The last stream of a name counts.                                        *)
StreamNamed(root, slices, name) ==
  LET named == {i \in DOMAIN slices : root.directory[i].name = name}
  IN  IF named = {} THEN Missing ELSE slices[Max(named)]
HeapNamed(root, slices, name) == IF StreamNamed(root, slices, name) = Missing THEN <<>> ELSE StreamNamed(root, slices, name)

TablesInMask(mask) == SelectSeq(TableOrder, LAMBDA t : t \in Unmask(mask))
CountsFrom(data, from, tables) ==
  [t \in Range(tables) |-> data[from + (CHOOSE i \in DOMAIN tables : tables[i] = t)]]
PdbWith(data, tables) == IF Len(data) < 3 + Len(tables) THEN Failed ELSE [id |-> data[1], entry |-> data[2], counts |-> CountsFrom(data, 3, tables)]
ParsePdb(data) == IF Len(data) < 3 THEN Failed ELSE PdbWith(data, TablesInMask(data[3]))
PdbOf(data, tolerant) ==
  IF data = Missing THEN Missing
  ELSE IF ParsePdb(data) = Failed /\ tolerant THEN Missing ELSE ParsePdb(data)

(* Counts of another file first, those of this one over them; the rows have *)
(* to be there.                                                             *)
FlagsOf(number) == {k \in {"string", "guid", "blob"} : (number \div FlagNumber({k})) % 2 = 1}
(* A mutation: counts of the other file's symbols are taken over as well.   *)
ReadCountsOfAll(pdb, physical) ==
  [t \in Range(TableOrder) |->
     IF t \in DOMAIN physical THEN physical[t]
     ELSE IF pdb # Missing THEN (IF t \in DOMAIN pdb.counts THEN pdb.counts[t] ELSE 0) ELSE 0]
ReadCounts(pdb, physical) ==
  [t \in Range(TableOrder) |->
     IF t \in DOMAIN physical THEN physical[t]
     ELSE IF pdb # Missing THEN (IF t \in DOMAIN pdb.counts \cap TypeSystemTables THEN pdb.counts[t] ELSE 0) ELSE 0]
RowsFit(set, data) ==
  IF 2 + Cardinality(set.valid) + TablesExtent(set) > Len(data) THEN Failed ELSE set
TableHeapWith(data, tables, pdb) ==
  IF Len(data) < 2 + Len(tables) THEN Failed
  ELSE RowsFit([valid |-> Range(tables), flags |-> FlagsOf(data[1]), counts |-> ReadCounts(pdb, CountsFrom(data, 2, tables))], data)
ParseTableHeap(data, pdb) == IF Len(data) < 2 THEN Failed ELSE TableHeapWith(data, TablesInMask(data[2]), pdb)

ReaderOf(root, slices, set, pdb, tolerant) ==
  IF set = Failed THEN Failed
  ELSE [set |-> set, pdb |-> pdb, tolerant |-> tolerant, size |-> HeaderSize + Len(root.body),
        rows |-> LET heap == HeapNamed(root, slices, "#~") IN SubSeq(heap, 3 + Cardinality(set.valid), Len(heap)),
        strings |-> HeapNamed(root, slices, "#Strings"), user |-> HeapNamed(root, slices, "#US"),
        guids |-> HeapNamed(root, slices, "#GUID"), blobs |-> HeapNamed(root, slices, "#Blob")]
WithPdb(root, slices, pdb, tolerant) ==
  IF pdb = Failed \/ StreamNamed(root, slices, "#~") = Missing THEN Failed
  ELSE ReaderOf(root, slices, ParseTableHeap(StreamNamed(root, slices, "#~"), pdb), pdb, tolerant)
FromSlices(root, slices, tolerant) ==
  IF Failed \in Range(slices) THEN Failed
  ELSE WithPdb(root, slices, PdbOf(StreamNamed(root, slices, "#Pdb"), tolerant), tolerant)
ParseRoot(root, tolerant) == FromSlices(root, Slices(root, tolerant), tolerant)

IsPresent(reader, table) == table \in reader.set.valid /\ reader.set.counts[table] > 0
CellAt(data, at, width) == IF width = 1 THEN data[at] ELSE data[at] + Base * data[at + 1]
RowAt(reader, table, at, widths) ==
  [c \in DOMAIN widths |-> CellAt(reader.rows, at + Total(SubSeq(widths, 1, c - 1)), widths[c])]
ReadRow(reader, table, rid) ==
  IF table \notin reader.set.valid THEN Failed
  ELSE IF rid \notin 1..reader.set.counts[table] THEN Failed
  ELSE RowAt(reader, table, OffsetOf(reader.set, table) + (rid - 1) * RowSize(reader.set, table) + 1, WidthsOf(reader.set, table))

(* Heaps.  What lies outside one is empty, a string that does not end is    *)
(* refused or read to the end.                                              *)
EndOfString(data, index) ==
  IF \E i \in (index + 1)..Len(data) : data[i] = 0 THEN Min({i \in (index + 1)..Len(data) : data[i] = 0}) ELSE Len(data) + 1
StringLossy(data, index) == IF index = 0 \/ index >= Len(data) THEN <<>> ELSE SubSeq(data, index + 1, EndOfString(data, index) - 1)
StringAt(data, index) ==
  IF index = 0 \/ index >= Len(data) THEN <<>>
  ELSE IF EndOfString(data, index) > Len(data) THEN Failed ELSE StringLossy(data, index)
BlobAt(data, index) ==
  IF index = 0 \/ index >= Len(data) THEN <<>>
  ELSE IF data[index + 1] > Len(data) - index - 1 THEN Failed ELSE SubSeq(data, index + 2, index + 1 + data[index + 1])
BlobTolerant(data, index) == IF BlobAt(data, index) = Failed THEN <<>> ELSE BlobAt(data, index)
UserStringAt(data, index) ==
  IF index >= Len(data) THEN Failed
  ELSE IF data[index + 1] \div 2 > Len(data) - index - 1 THEN Failed
  ELSE SubSeq(data, index + 2, index + 1 + (data[index + 1] \div 2))
GuidAt(data, index) ==
  IF index = 0 \/ index > Len(data) \div GuidSize THEN [i \in 1..GuidSize |-> 0]
  ELSE SubSeq(data, (index - 1) * GuidSize + 1, index * GuidSize)

-----------------------------------------------------------------------------
(* What reading would copy is added up first.  A string is measured from    *)
(* its index to the end of its span, and the spans are found in one scan.   *)
Cells_(reader, kind) ==
  {<<t, rid, c>> \in UNION {{t} \X (1..reader.set.counts[t]) \X (DOMAIN Columns[t]) : t \in reader.set.valid} :
     Columns[t][c][1] = kind}
(* Every reference of a kind with the index it names.                       *)
ReferencesOf(reader, kind) == {<<c, ReadRow(reader, c[1], c[2])[c[3]]>> : c \in Cells_(reader, kind)}
HeapReferences(references, data) ==
  LET inside == {r \in references : r[2] \in 1..(Len(data) - 1)}
  IN  [index \in {r[2] : r \in inside} |-> Cardinality({r \in inside : r[2] = index})]
(* A mutation: the end of the first span is kept for all.                   *)
SpanEndFirst(data, index, end) == IF end = 0 THEN EndOfString(data, index) - 1 ELSE end
SpanEnd(data, index, end) == IF index >= end THEN EndOfString(data, index) - 1 ELSE end
RECURSIVE SpanCost(_, _, _, _)
SpanCosted(data, references, left, index, end) ==
  (end - index) * references[index] + SpanCost(data, references, left \ {index}, end)
SpanCost(data, references, left, end) ==
  IF left = {} THEN 0
  ELSE SpanCosted(data, references, left, Min(left), SpanEnd(data, Min(left), end))
BlobCost(reader, references) ==
  IF ~reader.tolerant /\ \E i \in DOMAIN references : BlobAt(reader.blobs, i) = Failed THEN Failed
  ELSE FoldSet(LAMBDA i, sum : sum + references[i] * Len(BlobTolerant(reader.blobs, i)), 0, DOMAIN references)
SpentOn(reader, strings, blobs, blobCost) ==
  IF blobCost = Failed THEN Failed
  ELSE RowCost * FoldSet(LAMBDA t, sum : sum + reader.set.counts[t], 0, reader.set.valid)
         + EntryCost * (Cardinality(DOMAIN strings) + Cardinality(DOMAIN blobs))
         + (IF reader.tolerant THEN 3 ELSE 1) * SpanCost(reader.strings, strings, DOMAIN strings, 0) + blobCost
Spending(reader, strings, blobs) == SpentOn(reader, strings, blobs, BlobCost(reader, blobs))
Spent(reader) ==
  Spending(reader, HeapReferences(ReferencesOf(reader, "string"), reader.strings),
           HeapReferences(ReferencesOf(reader, "blob"), reader.blobs))
Admitted(spent, size) == IF spent = Failed THEN FALSE ELSE spent <= Min({size * BudgetFactor, BudgetCap})
WithinBudget(reader) == Admitted(Spent(reader), reader.size)

-----------------------------------------------------------------------------
RECURSIVE Replay(_, _)
NoteGiven(state_, kind, content, answer) ==
  [builder |-> [state_.builder EXCEPT ![kind] = answer.heap],
   given |-> state_.given \cup {<<kind, content, answer.index>>}]
Insert(state_, call) ==
  CASE call[1] = "strings" -> NoteGiven(state_, "strings", call[2], InsertString(state_.builder.strings, call[2]))
    [] call[1] = "blobs" -> NoteGiven(state_, "blobs", call[2], InsertBlob(state_.builder.blobs, call[2]))
    [] call[1] = "guids" -> NoteGiven(state_, "guids", call[2], InsertGuid(state_.builder.guids, call[2]))
    [] call[1] = "user" -> NoteGiven(state_, "user", call[2], InsertUserString(state_.builder.user, call[2]))
    [] call[1] = "pdb" -> [state_ EXCEPT !.builder = SetPdbHeap(@, 7, 9, call[2])]
    [] call[1] = "row" -> [state_ EXCEPT !.builder = AddRow(@, call[2], call[3])]
Replay(state_, calls) == IF calls = <<>> THEN state_ ELSE Replay(Insert(state_, Head(calls)), Tail(calls))

(* The rows a caller adds name what it was given: the newest entries, the   *)
(* last row of a table or, where a run of rows begins, the one after it.    *)
RowsNamed(builder, table) ==
  IF builder.pdb # Missing /\ table \in TypeSystemTables /\ RowCount(builder, table) = 0
  THEN CountIn(builder.pdb.counts, table) ELSE RowCount(builder, table)
Newest(given, kind) == Max({0} \cup {g[3] : g \in {h \in given : h[1] = kind}})
Cell_(builder, given, column, past, group) ==
  CASE column[1] = "u16" -> IndexLimit
    [] column[1] = "u32" -> Base + 3
    [] column[1] = "string" -> Newest(given, "strings")
    [] column[1] = "blob" -> Newest(given, "blobs")
    [] column[1] = "guid" -> Newest(given, "guids")
    [] column[1] = "simple" -> RowsNamed(builder, column[2]) + past
    [] column[1] = "coded" -> IF RowsNamed(builder, group) = 0 THEN 0 ELSE EncodeCoded(column[2], group, RowsNamed(builder, group))

MetadataInit ==
  /\ unit = "metadata"
  /\ \E calls \in Seeds :
       LET start == Replay([builder |-> EmptyBuilder, given |-> {}], calls)
       IN  state = [builder |-> start.builder, given |-> start.given, calls |-> 0, phase |-> "building",
                    root |-> Missing, strict |-> Missing, tolerant |-> Missing]

Continued(after) ==
  state' = [state EXCEPT !.builder = after.builder, !.given = after.given, !.calls = @ + 1]
InsertEntry ==
  /\ state.phase = "building" /\ state.calls < CallBound
  /\ \E call \in Calls : Continued(Insert([builder |-> state.builder, given |-> state.given], call))
AddTableRow ==
  /\ state.phase = "building" /\ state.calls < CallBound
  /\ \E table \in DOMAIN Columns, past \in 0..1, group \in {"TypeDef", "TypeSpec"} :
       Continued([builder |-> AddRow(state.builder, table,
                 [c \in DOMAIN Columns[table] |-> Cell_(state.builder, state.given, Columns[table][c], past, group)]),
               given |-> state.given])
FinishMetadata ==
  /\ state.phase = "building"
  /\ state' = [state EXCEPT !.phase = "written", !.root = Finalize_(state.builder)]
(* The end of the file is lost.                                             *)
LoseEnd ==
  /\ state.phase = "written"
  /\ \E n \in LostCells :
       /\ n < Len(state.root.body)
       /\ state' = [state EXCEPT !.phase = "damaged", !.root.body = SubSeq(@, 1, Len(@) - n)]
ReadMetadata ==
  /\ state.phase \in {"written", "damaged"}
  /\ state' = [state EXCEPT !.phase = IF @ = "written" THEN "read" ELSE "recovered",
                 !.strict = ParseRoot(state.root, FALSE), !.tolerant = ParseRoot(state.root, TRUE)]

MetadataNext ==
  unit = "metadata" /\ UNCHANGED unit /\ (InsertEntry \/ AddTableRow \/ FinishMetadata \/ LoseEnd \/ ReadMetadata)

-----------------------------------------------------------------------------
EntryAt(reader, kind, index) ==
  CASE kind = "strings" -> StringAt(reader.strings, index) [] kind = "blobs" -> BlobAt(reader.blobs, index)
    [] kind = "user" -> UserStringAt(reader.user, index) [] kind = "guids" -> GuidAt(reader.guids, index)
(* A run that begins after the last of exactly IndexLimit rows has no index *)
(* of two bytes, which is what the column is given.                         *)
CellWritten(column, set, cell) ==
  IF column[1] = "simple" /\ ~SimpleWide(set.counts, column[2]) THEN cell % Base ELSE cell
RowsRead(builder, reader) ==
  \A t \in Range(TableOrder) :
    /\ IsPresent(reader, t) = (builder.rows[t] # <<>>)
    /\ builder.rows[t] # <<>> => reader.set.counts[t] = Len(builder.rows[t])
    /\ \A r \in DOMAIN builder.rows[t] :
         ReadRow(reader, t, r) =
           [c \in DOMAIN Columns[t] |-> CellWritten(Columns[t][c], LayoutOf(builder), builder.rows[t][r][c])]
(* What a reader would copy, reference by reference.                        *)
CopiedCells(reader) ==
  FoldSet(LAMBDA r, sum : sum + Len(StringLossy(reader.strings, r[2])), 0, ReferencesOf(reader, "string"))
    + FoldSet(LAMBDA r, sum : sum + Len(BlobTolerant(reader.blobs, r[2])), 0, ReferencesOf(reader, "blob"))

(* What was put into a builder reads back from the file under the index or  *)
(* row that was handed out: equal entries share an index and unequal ones   *)
(* never do, and every cell has its value at whatever width the heaps, the  *)
(* tables and the tables of the other file give it.  A tolerant reader      *)
(* reads the same; of a file that lost its end it reads the same rows, and  *)
(* what a strict one reads is what was put in.  The sum held against the    *)
(* budget covers every copy reading would make.                             *)
MetadataKept ==
  unit = "metadata" =>
    /\ \A g, h \in state.given : g[1] = h[1] => (g[2] = h[2]) = (g[3] = h[3])
    /\ state.phase = "read" =>
         /\ state.strict # Failed
         /\ \A g \in state.given : EntryAt(state.strict, g[1], g[3]) = g[2]
         /\ RowsRead(state.builder, state.strict)
         /\ state.strict = [state.tolerant EXCEPT !.tolerant = FALSE]
         /\ state.strict.pdb = (IF state.builder.pdb = Missing THEN Missing ELSE state.builder.pdb)
    /\ state.phase = "recovered" =>
         /\ state.strict # Failed => \A g \in state.given : EntryAt(state.strict, g[1], g[3]) = g[2]
         /\ state.tolerant # Failed =>
              /\ state.builder.pdb = Missing => RowsRead(state.builder, state.tolerant)
              /\ state.tolerant.strings = SubSeq(state.builder.strings.data, 1, Len(state.tolerant.strings))
    /\ state.phase \in {"read", "recovered"} =>
         \A reader \in {state.strict, state.tolerant} \ {Failed} :
           WithinBudget(reader) => CopiedCells(reader) <= Spent(reader)
=============================================================================
