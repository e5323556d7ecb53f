------------------------------ MODULE ImageFiles ------------------------------
(***************************************************************************)
(* Images (cecil-pe): the file a module is written to, the one it is read  *)
(* from, and the sections appended to a file whose bytes must stay.        *)
(*                                                                         *)
(* The facade (assembly.rs) lays the text section out before there is any  *)
(* metadata, for the addresses the metadata must hold; the PE writer lays  *)
(* it out again when everything has its length.                            *)
(*                                                                         *)
(* A file is [head, len, pieces]: the fields of its headers, its length    *)
(* and what was placed in it, [at, cells]; a later piece hides an earlier  *)
(* one, and the rest is zero.  A field of several bytes is its first cell. *)
(***************************************************************************)
EXTENDS Workbench

CONSTANTS
  ImageJobs,       \* what a module gives the writer
  OriginalImages,  \* files of other producers
  AddedPayloads,   \* what is appended in a section
  AddedSymbols,    \* debug entries attached to a file that exists
  ImagePatches,    \* [metadata, token]: overrides of a file passed through
  MaxImageEdits    \* edits of one file

TextRva == 8192
SectionAlignment == 8192
FileAlignment == 512
ImageBase == 4194304
FixedHeaders == 152       \* DOS header, signature and file header
SectionHeader == 40
CliSize == 72
DirectorySize == 28
TopBit == 1048576        \* marks an offset to a subdirectory
SymbolKinds == {2, 17, 19}
CorMain == 7001
RuntimeName == 7002

AlignUp(value, alignment) == ((value + alignment - 1) \div alignment) * alignment
HasReloc(arch) == arch = "I386"
CodeAlign(arch) == IF arch = "I386" THEN 4 ELSE 16
OptionalSize(arch) == IF arch = "I386" THEN 224 ELSE 240

-----------------------------------------------------------------------------
(* The layout of the text section: segments [start, length] one after the   *)
(* other.  Aligning a segment stretches the one before it.                  *)

IAT == 1
CLI == 2
CODE == 3
RESOURCES == 4
DATA == 5
STRONGNAME == 6
METADATA == 7
DEBUG == 8

SegmentEnd(segment) == segment.start + segment.length
AddSegment(map, length, align) ==
  IF map = <<>> THEN <<[start |-> TextRva, length |-> length]>>
  ELSE LET start == AlignUp(SegmentEnd(Last(map)), align)
       IN  Append([map EXCEPT ![Len(map)].length = start - Last(map).start], [start |-> start, length |-> length])
TextMap(requests) == FoldLeft(LAMBDA map, r : AddSegment(map, r[1], r[2]), <<>>, requests)
DirectoryOfSegment(segment) == <<IF segment.length = 0 THEN 0 ELSE segment.start, segment.length>>

FirstSegments(job) == <<<<IF HasReloc(job.arch) THEN 8 ELSE 0, 1>>, <<CliSize, 1>>>>
(* What the facade knows: the start of the code before it is emitted, that  *)
(* of the data when code and resources have their lengths.                  *)
CodeBase(job) == TextMap(FirstSegments(job) \o <<<<0, CodeAlign(job.arch)>>>>)[CODE].start
DataBase(job) ==
  TextMap(FirstSegments(job) \o <<<<Len(job.code), CodeAlign(job.arch)>>, <<Len(job.resources), 8>>, <<0, 8>>>>)[DATA].start

DataBefore(entries, i) == FoldLeft(LAMBDA n, e : n + Len(e.data), 0, SubSeq(entries, 1, i - 1))
DebugLength(entries) == DirectorySize * Len(entries) + DataBefore(entries, Len(entries) + 1)
(* A mutation: the writer aligns resources by 4, the facade by 8.           *)
TighterMap(job) ==
  TextMap(FirstSegments(job) \o
    <<<<Len(job.code), CodeAlign(job.arch)>>, <<Len(job.resources), 4>>, <<Len(job.data), 4>>,
      <<job.strongname, 4>>, <<Len(job.metadata), 8>>, <<DebugLength(job.entries), 4>>>>)
EmittedMap(job) ==
  TextMap(FirstSegments(job) \o
    <<<<Len(job.code), CodeAlign(job.arch)>>, <<Len(job.resources), 8>>, <<Len(job.data), 8>>,
      <<job.strongname, 4>>, <<Len(job.metadata), 8>>, <<DebugLength(job.entries), 4>>>>)

(* The import directory, its names and the stub of the startup.             *)
ImportsOf(map) ==
  LET import == SegmentEnd(map[DEBUG])
      hint   == AlignUp(import + 48, 16)
  IN  [import |-> import, hint |-> hint, length |-> hint - import + 27, stub |-> 2 + AlignUp(hint + 27, 4)]
TextLength(job, map) ==
  (IF HasReloc(job.arch) THEN ImportsOf(map).stub + 6 ELSE SegmentEnd(map[DEBUG])) - TextRva

-----------------------------------------------------------------------------
PeSection(name, va, size, at) ==
  [name |-> name, va |-> va, vsize |-> size, raw |-> AlignUp(size, FileAlignment), at |-> at]
NextSection(name, size, previous) ==
  PeSection(name, previous.va + AlignUp(previous.vsize, SectionAlignment), size, previous.at + previous.raw)
SectionTable(job) == FixedHeaders + OptionalSize(job.arch)
TableEnd(job) ==
  SectionTable(job)
    + SectionHeader * (1 + (IF job.rsrc = Missing THEN 0 ELSE 1) + (IF HasReloc(job.arch) THEN 1 ELSE 0))
EmittedSections(job, map) ==
  LET text == PeSection(".text", TextRva, TextLength(job, map), AlignUp(TableEnd(job), FileAlignment))
      rsrc == IF job.rsrc = Missing THEN <<text>>
              ELSE <<text, NextSection(".rsrc", Len(job.rsrc.cells), text)>>
  IN  IF HasReloc(job.arch) THEN Append(rsrc, NextSection(".reloc", 12, Last(rsrc))) ELSE rsrc
SectionNamed(sections, name) == sections[CHOOSE i \in DOMAIN sections : sections[i].name = name]

(* Resource trees.  Every way from the root to a leaf moves the address of  *)
(* the leaf, also when another way has.                                     *)
RECURSIVE PatchTable(_, _, _, _)
PatchEntry(cells, child, old, new) ==
  IF child >= TopBit THEN PatchTable(cells, child - TopBit, old, new)
  ELSE [cells EXCEPT ![child + 1] = @ - old + new]
EntriesAt(cells, at) == [i \in 1..(cells[at + 13] + cells[at + 15]) |-> cells[at + 13 + 8 * i]]
PatchTable(cells, at, old, new) ==
  FoldLeft(LAMBDA acc, child : PatchEntry(acc, child, old, new), cells, EntriesAt(cells, at))

(* The ways to leaves: a leaf is in it as often as something names it.      *)
RECURSIVE LeafWaysFrom(_, _)
LeafWaysFrom(cells, at) ==
  FlattenSeq([i \in DOMAIN EntriesAt(cells, at) |->
    LET child == EntriesAt(cells, at)[i] IN IF child >= TopBit THEN LeafWaysFrom(cells, child - TopBit) ELSE <<child>>])
LeafWays(cells) == LeafWaysFrom(cells, 0)

(* A tree is kept at reading only when it can be walked, each directory as  *)
(* often as a way leads to it, within a budget of visits.                   *)
RECURSIVE SaneTable(_, _, _), VisitsFrom(_, _)
SaneTable(cells, at, depth) ==
  /\ depth <= 32 /\ at + 16 <= Len(cells)
  /\ at + 16 + 8 * (cells[at + 13] + cells[at + 15]) <= Len(cells)
  /\ \A child \in Range(EntriesAt(cells, at)) :
       IF child >= TopBit THEN SaneTable(cells, child - TopBit, depth + 1) ELSE child + 16 <= Len(cells)
VisitsFrom(cells, at) ==
  FoldLeft(LAMBDA n, child : n + (IF child >= TopBit THEN VisitsFrom(cells, child - TopBit) ELSE 0), 1, EntriesAt(cells, at))
SaneTree(cells) == SaneTable(cells, 0, 0) /\ VisitsFrom(cells, 0) <= Len(cells) \div 16

-----------------------------------------------------------------------------
(* Writing.                                                                 *)

FieldCells(n, fields) == [i \in 1..n |-> IF i - 1 \in DOMAIN fields THEN fields[i - 1] ELSE 0]
Piece(at, cells) == [at |-> at, cells |-> cells]
EntryCells(kind, size, address, pointer) ==
  FieldCells(DirectorySize, 12 :> kind @@ 16 :> size @@ 20 :> address @@ 24 :> pointer)

(* A mutation: the token read is preferred to the one emitted.              *)
EntryTokenAsRead(job) == IF job.read # 0 THEN job.read ELSE job.token

EntryToken(job) == IF job.token # 0 THEN job.token ELSE job.read
CliCells(job, map) ==
  FieldCells(CliSize, 0 :> CliSize @@ 8 :> map[METADATA].start @@ 12 :> Len(job.metadata) @@ 20 :> EntryToken(job)
    @@ 24 :> DirectoryOfSegment(map[RESOURCES])[1] @@ 28 :> map[RESOURCES].length
    @@ 32 :> DirectoryOfSegment(map[STRONGNAME])[1] @@ 36 :> map[STRONGNAME].length)

(* Addresses count from the end of the metadata, file offsets from where    *)
(* the directory is; an entry without data keeps its pointer.               *)
DebugCells(entries, address, pointer) ==
  FlattenSeq([i \in DOMAIN entries |->
      LET e == entries[i] at == DirectorySize * Len(entries) + DataBefore(entries, i)
      IN  EntryCells(e.kind, e.size, IF e.data = <<>> THEN 0 ELSE address + at,
                     IF e.data = <<>> THEN e.pointer ELSE pointer + at)])
    \o FlattenSeq([i \in DOMAIN entries |-> entries[i].data])

StartupPieces(map, text, reloc) ==
  LET i == ImportsOf(map)
      At(rva) == rva - TextRva + text
      fixed == i.stub + 2
      page == (fixed \div 4096) * 4096
  IN  <<Piece(At(map[IAT].start), FieldCells(8, 0 :> i.hint)),
        Piece(At(i.import), FieldCells(44, 0 :> i.import + 40 @@ 12 :> i.hint + 14 @@ 16 :> map[IAT].start @@ 40 :> i.hint)),
        Piece(At(i.hint), FieldCells(27, 2 :> CorMain @@ 14 :> RuntimeName)),
        Piece(At(i.stub), FieldCells(6, 0 :> 9727 @@ 2 :> ImageBase + map[IAT].start)),
        Piece(reloc.at, FieldCells(12, 0 :> page @@ 4 :> 12 @@ 8 :> 12288 + fixed - page))>>

HeadOf(job, map, sections) ==
  [sections |-> sections,
   cli |-> DirectoryOfSegment(map[CLI]),
   debug |-> IF job.entries = <<>> THEN <<0, 0>> ELSE <<map[DEBUG].start, DirectorySize * Len(job.entries)>>,
   rsrc |-> IF job.rsrc = Missing THEN <<0, 0>> ELSE <<SectionNamed(sections, ".rsrc").va, SectionNamed(sections, ".rsrc").vsize>>,
   import |-> IF HasReloc(job.arch) THEN <<ImportsOf(map).import, ImportsOf(map).length>> ELSE <<0, 0>>,
   iat |-> DirectoryOfSegment(map[IAT]),
   reloc |-> IF HasReloc(job.arch) THEN <<Last(sections).va, Last(sections).vsize>> ELSE <<0, 0>>,
   entry |-> IF HasReloc(job.arch) THEN ImportsOf(map).stub ELSE 0,
   image |-> Last(sections).va + AlignUp(Last(sections).vsize, SectionAlignment),
   headers |-> sections[1].at, table |-> TableEnd(job),
   sectionAlignment |-> SectionAlignment, fileAlignment |-> FileAlignment]

Rebuilt(job) ==
  LET map      == EmittedMap(job)
      sections == EmittedSections(job, map)
      At(rva)  == rva - TextRva + sections[1].at
      text     == <<Piece(At(map[CLI].start), CliCells(job, map)), Piece(At(map[CODE].start), job.code),
                    Piece(At(map[RESOURCES].start), job.resources), Piece(At(map[DATA].start), job.data),
                    Piece(At(map[METADATA].start), job.metadata),
                    Piece(At(map[DEBUG].start), DebugCells(job.entries, SegmentEnd(map[METADATA]), At(map[DEBUG].start)))>>
      startup  == IF HasReloc(job.arch) THEN StartupPieces(map, sections[1].at, Last(sections)) ELSE <<>>
      rsrc     == IF job.rsrc = Missing THEN <<>>
                  ELSE <<Piece(SectionNamed(sections, ".rsrc").at,
                               PatchTable(job.rsrc.cells, 0, job.rsrc.rva, SectionNamed(sections, ".rsrc").va))>>
  IN  [head |-> HeadOf(job, map, sections), len |-> Last(sections).at + Last(sections).raw,
       pieces |-> SelectSeq(text \o startup \o rsrc, LAMBDA p : p.cells # <<>>)]

-----------------------------------------------------------------------------
(* Reading.                                                                 *)

CellOf(file, at) ==
  LET over == {k \in DOMAIN file.pieces : file.pieces[k].at <= at /\ at < file.pieces[k].at + Len(file.pieces[k].cells)}
  IN  IF over = {} THEN 0 ELSE file.pieces[Max(over)].cells[at - file.pieces[Max(over)].at + 1]
CellsAt(file, at, n) == IF at + n > file.len THEN Failed ELSE [i \in 1..n |-> CellOf(file, at + i - 1)]

MappedEnd(s) == s.va + Max({s.vsize, s.raw})
SectionsHolding(sections, rva) == {i \in DOMAIN sections : sections[i].va <= rva /\ rva < MappedEnd(sections[i])}
OffsetIn(s, rva) == rva - s.va + s.at
(* What is not backed by the file is refused.                               *)
Backed(file, rva, n) ==
  LET in == SectionsHolding(file.head.sections, rva)
  IN  IF in = {} THEN Failed
      ELSE LET s == file.head.sections[Min(in)]
           IN  IF rva - s.va + n > s.raw THEN Failed ELSE CellsAt(file, OffsetIn(s, rva), n)
(* To the end of what is mapped, zero where the file has nothing.           *)
Mapped(file, rva) ==
  LET in == SectionsHolding(file.head.sections, rva)
  IN  IF in = {} THEN Failed
      ELSE LET s == file.head.sections[Min(in)]
           IN  IF rva - s.va < s.raw /\ OffsetIn(s, rva) >= file.len THEN Failed
               ELSE [i \in 1..Min({MappedEnd(s) - rva, file.len}) |->
                  IF rva - s.va + i <= s.raw THEN CellOf(file, OffsetIn(s, rva) + i - 1) ELSE 0]

DataOf(file, size, pointer) ==
  IF pointer > 0 /\ size > 0 /\ pointer + size <= file.len THEN CellsAt(file, pointer, size) ELSE <<>>
EntryFrom(file, cells) ==
  [kind |-> cells[13], size |-> cells[17], address |-> cells[21], pointer |-> cells[25],
   data |-> DataOf(file, cells[17], cells[25])]
DebugEntries(file) ==
  LET cells == Backed(file, file.head.debug[1], file.head.debug[2])
  IN  IF file.head.debug = <<0, 0>> THEN <<>>
      ELSE IF cells = Failed THEN <<>>
      ELSE [i \in 1..(Len(cells) \div DirectorySize) |->
             EntryFrom(file, SubSeq(cells, DirectorySize * (i - 1) + 1, DirectorySize * i))]

Opened(file, cells) ==
  [metadata |-> <<cells[9], cells[13]>>, token |-> cells[21], resources |-> <<cells[25], cells[29]>>,
   strongname |-> <<cells[33], cells[37]>>, entries |-> DebugEntries(file)]
Parse(file) ==
  IF file.head.cli[2] < CliSize THEN Failed
  ELSE LET cells == Backed(file, file.head.cli[1], CliSize)
       IN  IF cells = Failed THEN Failed
           ELSE IF Backed(file, cells[9], cells[13]) = Failed THEN Failed ELSE Opened(file, cells)

(* The resources of a file that is read: what the directory spans.          *)
ResourcesOf(file) ==
  LET mapped == Mapped(file, file.head.rsrc[1])
  IN  IF file.head.rsrc = <<0, 0>> THEN Missing
      ELSE IF mapped = Failed THEN Missing
      ELSE LET cells == SubSeq(mapped, 1, Min({file.head.rsrc[2], Len(mapped)}))
           IN  IF SaneTree(cells) THEN [rva |-> file.head.rsrc[1], cells |-> cells] ELSE Missing

-----------------------------------------------------------------------------
(* A section after everything the file has, described in the room that is   *)
(* left after the headers of the others.                                    *)

RoomLimit(file) ==
  Min({file.head.headers, file.len} \cup {s.at : s \in {t \in Range(file.head.sections) : t.raw # 0}})
HasRoom(file) ==
  /\ file.head.table + SectionHeader <= RoomLimit(file)
  /\ Range(CellsAt(file, file.head.table, SectionHeader)) = {0}
(* A mutation: the new section starts where the last one does not yet end.  *)
AddressByRaw(file) ==
  AlignUp(Max({s.va + s.raw : s \in Range(file.head.sections)}), file.head.sectionAlignment)
AddedAddress(file) ==
  AlignUp(Max({file.head.image} \cup {MappedEnd(s) : s \in Range(file.head.sections)}), file.head.sectionAlignment)
AddedOffset(file) == AlignUp(file.len, file.head.fileAlignment)
WithSection(file, payload) ==
  LET raw == AlignUp(Len(payload), file.head.fileAlignment)
      new == [name |-> ".cecil", va |-> AddedAddress(file), vsize |-> Len(payload), raw |-> raw, at |-> AddedOffset(file)]
  IN  [file EXCEPT !.len = new.at + raw,
         !.pieces = Append(@, Piece(new.at, payload)),
         !.head.sections = Append(@, new), !.head.table = @ + SectionHeader,
         !.head.image = AlignUp(new.va + new.vsize, file.head.sectionAlignment)]
WithPayload(file, payload) == IF HasRoom(file) THEN WithSection(file, payload) ELSE Failed

(* Debug entries of a file that is signed stay; otherwise the symbols take  *)
(* the place of those it has, and all entries move to a new section.        *)
Attached(file, image, symbols) ==
  LET entries == SelectSeq(image.entries, LAMBDA e : e.kind \notin SymbolKinds) \o symbols
      sized   == [i \in DOMAIN entries |-> [entries[i] EXCEPT !.size = Len(entries[i].data)]]
      Offset(i) == DirectorySize * Len(entries) + DataBefore(entries, i)
      payload == FlattenSeq([i \in DOMAIN sized |->
                     EntryCells(sized[i].kind, sized[i].size, AddedAddress(file) + Offset(i), AddedOffset(file) + Offset(i))])
                   \o FlattenSeq([i \in DOMAIN sized |-> sized[i].data])
  IN  IF image.strongname[2] # 0 \/ ~HasRoom(file) THEN Failed
      ELSE [WithSection(file, payload) EXCEPT !.head.debug = <<AddedAddress(file), DirectorySize * Len(entries)>>]

(* A file passed through with other metadata of the same size and another   *)
(* entry point.                                                             *)
FileOffset(file, rva) == OffsetIn(file.head.sections[Min(SectionsHolding(file.head.sections, rva))], rva)
Overwritten(file, rva, cells) == [file EXCEPT !.pieces = Append(@, Piece(FileOffset(file, rva), cells))]
WithMetadata(file, image, metadata) ==
  IF metadata = Missing THEN file
  ELSE IF Len(metadata) # image.metadata[2] THEN Failed ELSE Overwritten(file, image.metadata[1], metadata)
WithToken(file, token) == IF file = Failed \/ token = 0 THEN file ELSE Overwritten(file, file.head.cli[1] + 20, <<token>>)
Patched(file, image, patch) == WithToken(WithMetadata(file, image, patch.metadata), patch.token)

-----------------------------------------------------------------------------
(* state: the module's parts, the file, the file before the last edit and   *)
(* what the edit was, the image as read, and the number of edits.           *)

NoEdit == [how |-> "none"]
FirstOf(job, file, phase) ==
  [job |-> job, file |-> file, before |-> Missing, was |-> Missing, edit |-> NoEdit, image |-> Failed, phase |-> phase, edits |-> 0]
ImageInit ==
  /\ unit = "image"
  /\ \/ \E job \in ImageJobs : state = FirstOf(job, Failed, "given")
     \/ \E file \in OriginalImages : state = FirstOf(Missing, file, "written")

EmitImage ==
  /\ state.phase = "given"
  /\ state' = [state EXCEPT !.phase = "written", !.file = Rebuilt(state.job)]

OpenImage ==
  /\ state.phase = "written" /\ state.file # Failed
  /\ state' = [state EXCEPT !.phase = "open", !.image = Parse(state.file)]

FileEdited(edit, file) ==
  /\ state.phase = "open" /\ state.image # Failed /\ state.edits < MaxImageEdits
  /\ state' = [state EXCEPT !.phase = "written", !.before = state.file, !.was = state.image, !.edit = edit,
                             !.file = file, !.edits = @ + 1]

(* The module is read and written again, unchanged; a file with appended    *)
(* sections is never built anew.                                            *)
ReadJob == [state.job EXCEPT !.rsrc = ResourcesOf(state.file), !.entries = state.image.entries,
                            !.read = state.image.token, !.token = state.image.token]
RewriteImage == state.job # Missing /\ state.edit.how \notin {"append", "attach", "patch"} /\ FileEdited([how |-> "rewrite"], Rebuilt(ReadJob))
AppendSection == \E p \in AddedPayloads : FileEdited([how |-> "append", payload |-> p], WithPayload(state.file, p))
AttachEntries ==
  \E s \in AddedSymbols : FileEdited([how |-> "attach", symbols |-> s], Attached(state.file, state.image, s))
PatchImage == \E p \in ImagePatches : FileEdited([how |-> "patch", patch |-> p], Patched(state.file, state.image, p))

ImageNext ==
  /\ unit = "image" /\ UNCHANGED unit
  /\ (EmitImage \/ OpenImage \/ RewriteImage \/ AppendSection \/ AttachEntries \/ PatchImage)

-----------------------------------------------------------------------------
IsOpen == unit = "image" /\ state.phase = "open"
IsWritten == IsOpen /\ state.edit.how \in {"none", "rewrite"} /\ state.job # Missing
IsAt(rva, cells) == Backed(state.file, rva, Len(cells)) = cells
Apart(intervals) == \A i, j \in DOMAIN intervals : i # j => intervals[i][2] <= intervals[j][1] \/ intervals[j][2] <= intervals[i][1]
DataAddressed(entry) == entry.data # <<>> => IsAt(entry.address, entry.data)
DataIn(entries) == [i \in DOMAIN entries |-> <<entries[i].kind, entries[i].data>>]
Stale(entry) == entry.data = <<>> /\ entry.size > 0 /\ entry.pointer > 0

(* The module has no entry point any more, but the header it was read from  *)
(* had one: the writer takes that one (writer.rs:701), although the caller  *)
(* means to hand over "not the stale read-time" token (assembly.rs:1519).   *)
TokenReturns(job) == job.token = 0 /\ job.read # 0

(* What the metadata was told of the addresses of code and data is where    *)
(* the writer puts them, and everything the headers of a written file point *)
(* to is there, found by address: metadata, resources, debug data, also by  *)
(* the address of each entry, and a strong name slot that is empty.  The    *)
(* entry point is the one the metadata was emitted with, whatever the file  *)
(* read had; of a module that has lost its own nothing is said.             *)
PartsFound ==
  IsWritten =>
    LET job == state.job image == state.image
    IN  /\ image # Failed /\ (~TokenReturns(job) => image.token = job.token)
        /\ IsAt(CodeBase(job), job.code) /\ IsAt(DataBase(job), job.data) /\ IsAt(image.metadata[1], job.metadata)
        /\ job.resources # <<>> => IsAt(image.resources[1], job.resources) /\ image.resources[2] \in Len(job.resources)..(Len(job.resources) + 7)
        /\ job.strongname > 0 => Range(Backed(state.file, image.strongname[1], job.strongname)) = {0}
        /\ \A i \in DOMAIN job.entries : ~Stale(job.entries[i]) => DataIn(image.entries)[i] = DataIn(job.entries)[i]
        /\ \A e \in Range(image.entries) : ~Stale(e) /\ e.address # 0 => DataAddressed(e)
        /\ Len(image.entries) = Len(job.entries)

(* Nothing that is placed in a file hides anything else, and sections share *)
(* no address and no byte of the file.                                      *)
PartsApart ==
  IsWritten =>
    LET s == state.file.head.sections p == state.file.pieces
    IN  /\ Apart([i \in DOMAIN p |-> <<p[i].at, p[i].at + Len(p[i].cells)>>])
        /\ \A k \in DOMAIN p : \E i \in DOMAIN s : s[i].at <= p[k].at /\ p[k].at + Len(p[k].cells) <= s[i].at + s[i].vsize
SectionsApart ==
  IsOpen =>
    LET s == state.file.head.sections
    IN  /\ Apart([i \in DOMAIN s |-> <<s[i].va, MappedEnd(s[i])>>])
        /\ Apart([i \in DOMAIN s |-> <<s[i].at, s[i].at + s[i].raw>>])
        /\ \A i \in DOMAIN s : MappedEnd(s[i]) <= state.file.head.image

(* The stub a loader of I386 starts jumps through the import table to the   *)
(* runtime, and its operand is what the relocation block names.             *)
StartsRuntime ==
  IsWritten /\ HasReloc(state.job.arch) =>
    LET Word(rva) == Backed(state.file, rva, 1)[1]
        head      == state.file.head
        iat       == Word(head.entry + 2) - ImageBase
    IN  /\ iat = head.iat[1] /\ iat = Word(head.import[1] + 16)
        /\ Word(Word(iat) + 2) = CorMain /\ Word(Word(head.import[1] + 12)) = RuntimeName
        /\ Word(Word(Word(head.import[1])) + 2) = CorMain
        /\ Word(head.reloc[1]) + Word(head.reloc[1] + 8) - 12288 = head.entry + 2

(* The leaves of the resources that a single way leads to keep their place  *)
(* in the resources through every writing.                                  *)
ResourcesMoved ==
  IsWritten /\ state.job.rsrc # Missing =>
    LET old == state.job.rsrc
        new == ResourcesOf(state.file)
    IN  /\ new # Missing
        /\ \A leaf \in Range(LeafWays(old.cells)) :
             (Cardinality({i \in DOMAIN LeafWays(old.cells) : LeafWays(old.cells)[i] = leaf}) = 1) =>
                new.cells[leaf + 1] - new.rva = old.cells[leaf + 1] - old.rva

(* A section, symbols or a patch added to a file leave every byte of it     *)
(* that they do not mean to change, and what is added is found by address.  *)
EditsKeep ==
  IsOpen /\ state.edit.how \in {"append", "attach", "patch"} =>
    LET old == state.before new == state.file edit == state.edit image == state.image was == state.was
        Patchable ==
          IF edit.how # "patch" THEN {}
          ELSE {FileOffset(old, old.head.cli[1]) + 20}
                 \cup {FileOffset(old, was.metadata[1]) + i : i \in 0..(was.metadata[2] - 1)}
        LongestPiece == Max({Len(p.cells) : p \in Range(old.pieces)})
    IN  /\ image # Failed /\ old.len <= new.len
        /\ \A i \in DOMAIN old.head.sections : new.head.sections[i] = old.head.sections[i]
        /\ \A p \in Range(old.pieces), i \in 0..LongestPiece :
             i < Len(p.cells) /\ p.at + i \notin Patchable => CellOf(new, p.at + i) = CellOf(old, p.at + i)
        /\ edit.how = "append" => image = was /\ IsAt(Last(new.head.sections).va, edit.payload)
        /\ edit.how = "attach" =>
             /\ DataIn(image.entries) = DataIn(SelectSeq(was.entries, LAMBDA e : e.kind \notin SymbolKinds) \o edit.symbols)
             /\ \A e \in Range(image.entries) : DataAddressed(e)
             /\ [image EXCEPT !.entries = <<>>] = [was EXCEPT !.entries = <<>>]
        /\ edit.how = "patch" =>
             /\ image = [was EXCEPT !.token = IF edit.patch.token = 0 THEN @ ELSE edit.patch.token]
             /\ Backed(new, image.metadata[1], image.metadata[2])
                  = IF edit.patch.metadata = Missing THEN Backed(old, was.metadata[1], was.metadata[2]) ELSE edit.patch.metadata

(* A module that is read and written again gives the same file, when no     *)
(* entry was stale and no leaf had two ways to it.                          *)
RewriteStable ==
  IsOpen /\ state.edit.how = "rewrite" =>
    \/ state.file = state.before
    \/ \E e \in Range(state.job.entries) : Stale(e)
    \/ state.job.rsrc # Missing /\ ~IsInjective(LeafWays(state.job.rsrc.cells))

ImageFilesKept ==
  PartsFound /\ PartsApart /\ SectionsApart /\ StartsRuntime /\ ResourcesMoved /\ EditsKeep /\ RewriteStable
=============================================================================
