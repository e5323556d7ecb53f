------------------------------- MODULE MsfFiles -------------------------------
(***************************************************************************)
(* The container of native PDBs: streams cut into pages (native/msf.rs,    *)
(* native/msf_writer.rs).                                                  *)
(*                                                                         *)
(* A cell is a word of the file.  A file is its superblock (pages, the     *)
(* size of the directory and its root pages) and its pages, numbered from  *)
(* zero.  A stream is a sequence of cells, Missing when it is absent.      *)
(***************************************************************************)
EXTENDS Workbench

CONSTANTS
  PageCells,       \* cells of a page (block_size / 4)
  Interval,        \* pages between two bitmap slots (block_size)
  BitmapCovers,    \* pages a bitmap page describes (block_size * 8)
  HeaderRoots,     \* root pages the superblock has room for
  StreamLists,     \* streams to write
  GivenFiles       \* files to read that another program wrote

Absent == 4095                 \* u32::MAX as the size of a stream
Pages_(cells) == (cells + PageCells - 1) \div PageCells
Chunk(cells, i) == SubSeq(cells, (i - 1) * PageCells + 1, Min({i * PageCells, Len(cells)}))

-----------------------------------------------------------------------------
(* Writing.  Pages are handed out in order, around the slots of the bitmaps.*)

(* A mutation: only the first two bitmap pages are left out.                *)
AroundFirstMaps(next) == IF next \in {1, 2} THEN 3 ELSE next
AroundMaps(next) == Min({p \in next..(next + 2) : p % Interval \notin {1, 2}})
Given_(acc, page) == [pages |-> Append(acc.pages, page), next |-> page + 1]
Allocate(next, count) ==
  FoldLeft(LAMBDA acc, i : Given_(acc, AroundMaps(acc.next)), [pages |-> <<>>, next |-> next], [i \in 1..count |-> i])

SizeOf(stream) == IF stream = Missing THEN 0 ELSE Len(stream)
PagesListed(acc, allocated) == [lists |-> Append(acc.lists, allocated.pages), next |-> allocated.next]
PageLists(streams) ==
  FoldLeft(LAMBDA acc, s : PagesListed(acc, Allocate(acc.next, Pages_(SizeOf(s)))), [lists |-> <<>>, next |-> 3], streams)

DirectoryOf(streams, lists) ==
  <<Len(streams)>> \o [i \in DOMAIN streams |-> IF streams[i] = Missing THEN Absent ELSE Len(streams[i])] \o FlattenSeq(lists)

(* What page p holds: a bitmap where p is a slot, whatever else was there.  *)
Padded(cells) == [i \in 1..PageCells |-> IF i =< Len(cells) THEN cells[i] ELSE 0]
BitmapOf(interval, next) ==
  [b \in 1..BitmapCovers |-> IF interval * BitmapCovers + b - 1 < next THEN 0 ELSE 1]
Contents(streams, lists, directory, dirPages, map, next, p) ==
  IF p % Interval \in {1, 2} THEN BitmapOf(p \div Interval, next)
  ELSE IF p = map THEN Padded(dirPages)
  ELSE IF p \in Range(dirPages) THEN Padded(Chunk(directory, CHOOSE i \in DOMAIN dirPages : dirPages[i] = p))
  ELSE IF \E s \in DOMAIN lists : p \in Range(lists[s])
  THEN LET s == CHOOSE s \in DOMAIN lists : p \in Range(lists[s])
       IN  Padded(Chunk(streams[s], CHOOSE i \in DOMAIN lists[s] : lists[s][i] = p))
  ELSE Padded(<<>>)

WithMap(streams, lists, directory, dir, map) ==
  IF Len(dir.pages) > PageCells THEN Failed
  ELSE [super |-> [pages |-> map.next, size |-> Len(directory), roots |-> map.pages],
        pages |-> [p \in 0..(map.next - 1) |->
                     Contents(streams, lists, directory, dir.pages, map.pages[1], map.next, p)]]
WithDirectory(streams, lists, directory, dir) == WithMap(streams, lists, directory, dir, Allocate(dir.next, 1))
WithLists(streams, acc) ==
  WithDirectory(streams, acc.lists, DirectoryOf(streams, acc.lists),
                Allocate(acc.next, Pages_(Len(DirectoryOf(streams, acc.lists)))))
WriteMsf(streams) == WithLists(streams, PageLists(streams))

-----------------------------------------------------------------------------
(* Reading: root pages list the pages of the directory, which lists those   *)
(* of the streams.                                                          *)

CellsIn(file) == Cardinality(DOMAIN file.pages) * PageCells
RootPages(file) == Pages_(Pages_(file.super.size))
SuperblockHolds(file) ==
  /\ file.super.size > 0 /\ file.super.size =< CellsIn(file)
  /\ file.super.pages \in 1..Cardinality(DOMAIN file.pages)
  /\ RootPages(file) =< Min({HeaderRoots, Len(file.super.roots)})

(* The first n cells of pages one after another, if all are in the file.    *)
Gathered(file, pages, n) ==
  IF \E i \in 1..Pages_(n) : pages[i] \notin 0..(file.super.pages - 1) THEN Failed
  ELSE SubSeq(FlattenSeq([i \in 1..Pages_(n) |-> SubSeq(file.pages[pages[i]], 1, PageCells)]), 1, n)
DirectoryFrom(file, pages) == IF pages = Failed THEN Failed ELSE Gathered(file, pages, file.super.size)
Directory(file) == DirectoryFrom(file, Gathered(file, file.super.roots, Pages_(file.super.size)))

Consecutive(pages) == \A i \in 1..(Len(pages) - 1) : pages[i + 1] = pages[i] + 1
Copied(pages, size) == IF Consecutive(pages) THEN 0 ELSE size
Slot(stream, next, copied) == [stream |-> stream, next |-> next, copied |-> copied]
NoSlot == Slot(Failed, 0, 0)
(* A stream of a size whose pages are listed from a position of the         *)
(* directory on.  Fragmented streams are copied, up to twice the file.      *)
FromPages(file, pages, size, next, copied) ==
  IF copied + Copied(pages, size) > 2 * CellsIn(file) THEN NoSlot
  ELSE Slot(Gathered(file, pages, size), next, copied + Copied(pages, size))
ReadStream(file, directory, size, at, copied) ==
  IF size \in {0, Absent} THEN Slot(Missing, at, copied)
  ELSE IF size > CellsIn(file) \/ Pages_(size) > Len(directory) - at + 1 THEN NoSlot
  ELSE FromPages(file, SubSeq(directory, at, at + Pages_(size) - 1), size, at + Pages_(size), copied)

StreamAdded(acc, slot) ==
  [acc EXCEPT !.streams = IF slot.stream = Failed THEN Failed ELSE Append(@, slot.stream), !.next = slot.next, !.copied = slot.copied]
ReadStreams(file, directory) ==
  IF directory = Failed THEN Failed
  ELSE IF directory[1] > Len(directory) - 1 THEN Failed
  ELSE FoldLeft(LAMBDA acc, i : IF acc.streams = Failed THEN acc
                                ELSE StreamAdded(acc, ReadStream(file, directory, directory[i + 1], acc.next, acc.copied)),
                [streams |-> <<>>, next |-> directory[1] + 2, copied |-> 0], [i \in 1..directory[1] |-> i]).streams
ReadMsf(file) == IF SuperblockHolds(file) THEN ReadStreams(file, Directory(file)) ELSE Failed

-----------------------------------------------------------------------------
(* Streams or a file are given; a file that is read is written again.       *)
MsfInit ==
  /\ unit = "msf"
  /\ \/ \E s \in StreamLists : state = [streams |-> s, file |-> Missing, written |-> FALSE]
     \/ \E f \in GivenFiles : state = [streams |-> Missing, file |-> f, written |-> FALSE]

ReadFile ==
  /\ state.streams = Missing
  /\ state' = [state EXCEPT !.streams = ReadMsf(state.file)]

WriteFile ==
  /\ state.streams \notin {Missing, Failed} /\ ~state.written
  /\ state' = [state EXCEPT !.file = WriteMsf(state.streams), !.written = TRUE]

MsfNext == unit = "msf" /\ UNCHANGED unit /\ (ReadFile \/ WriteFile)

-----------------------------------------------------------------------------
(* A stream that is written reads back, an empty one as an absent one; no   *)
(* page is handed out twice or in the place of a bitmap; and the bitmaps    *)
(* free no page of the file.  Only a directory of more than one map page    *)
(* cannot be written.                                                       *)
Empty_(stream) == IF stream = <<>> THEN Missing ELSE stream
PagesOf(file) == SubSeq(Directory(file), Directory(file)[1] + 2, file.super.size)
MsfKept ==
  unit = "msf" /\ state.written =>
    /\ state.file = Failed =>
         Pages_(1 + Len(state.streams) + FoldLeft(LAMBDA n, s : n + Pages_(SizeOf(s)), 0, state.streams)) > PageCells
    /\ state.file # Failed =>
         /\ ReadMsf(state.file) = [i \in DOMAIN state.streams |-> Empty_(state.streams[i])]
         /\ IsInjective(PagesOf(state.file))
         /\ \A p \in Range(PagesOf(state.file)) : p > 2 /\ p % Interval \notin {1, 2}
         /\ \A k \in 0..((state.file.super.pages - 1) \div BitmapCovers) :
              k * Interval + 1 < state.file.super.pages =>
                \A b \in 1..BitmapCovers :
                  (state.file.pages[k * Interval + 1][b] = 1) <=> (k * BitmapCovers + b - 1 >= state.file.super.pages)
=============================================================================
