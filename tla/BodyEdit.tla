------------------------------- MODULE BodyEdit -------------------------------
(***************************************************************************)
(* edit.rs: editing a method body whose branch targets and exception       *)
(* clauses are absolute byte offsets.  BodyEditor keeps them consistent    *)
(* edit by edit; the macro passes and BodyLayout relocate them together    *)
(* through a snapshot of the old offsets.                                  *)
(*                                                                         *)
(* An instruction is [op, off, to]: `to' holds its branch targets (none,   *)
(* one, or the table of a switch).  Opcodes stand for their encoding:      *)
(* "block" for a run of straight-line code nobody branches into,           *)
(* "ldc_i4" for a constant that has a one-byte macro, "ldc_i8" for one     *)
(* that fits in 32 bits.                                                   *)
(***************************************************************************)
EXTENDS Integers, Sequences, FiniteSets, SequencesExt

CONSTANTS
  Ops,        \* the opcodes callers use in this instance
  BlockSize,  \* the length of a "block"
  None,       \* Option::None
  MaxLen,     \* bound: instructions in a body
  MaxBranches,\* bound: branch and switch instructions in a body
  MaxClauses, \* bound: exception clauses
  MaxLayouts, \* bound: layouts a caller holds at a time, 0 or 1
  MaxLost     \* bound: dangling targets and dead clauses the caller goes on
              \* editing with

ASSUME OpsAssumption ==
  Ops \subseteq {"nop", "block", "br", "br_s", "switch", "ldc_i8", "ldc_i4", "ldc_i4_0", "conv_i8"}
ASSUME BoundsAssumption == 
  BlockSize \in Nat \ {0} /\ MaxLen \in Nat /\ MaxBranches \in Nat /\ MaxClauses \in Nat
  /\ MaxLayouts \in {0, 1} /\ MaxLost \in Nat
ASSUME NoneAssumption == None \notin Int

VARIABLES
  code,       \* ResolvedBody.instructions
  eh,         \* ResolvedBody.exception_handlers: [try, handler, filter]
  layout,     \* a BodyLayout the caller holds: old offsets and the code end, or None
  rewritten   \* instructions the caller has rewritten in place since the last relocation

vars == <<code, eh, layout, rewritten>>

Branches == {"br", "br_s"}

Size(op) ==
  CASE op = "block" -> BlockSize
    [] op = "ldc_i8" -> 9
    [] op \in {"br", "ldc_i4"} -> 5
    [] op = "br_s" -> 2
    [] op \in {"nop", "ldc_i4_0", "conv_i8"} -> 1

EncodedSize(i) == IF i.op = "switch" THEN 1 + 4 * (Len(i.to) + 1) ELSE Size(i.op)

(* Offsets of the instructions, then of the code end.                        *)
NewOffsets(c) ==
  LET offset[k \in 1..(Len(c) + 1)] ==
        IF k = 1 THEN 0 ELSE offset[k - 1] + EncodedSize(c[k - 1])
  IN  offset

RecomputeOffsets(c) ==
  LET offsets == NewOffsets(c)
  IN  [k \in DOMAIN c |-> [c[k] EXCEPT !.off = offsets[k]]]

End(c) == IF c = <<>> THEN 0 ELSE c[Len(c)].off + EncodedSize(c[Len(c)])

(* Are the offsets old instruction identities?  A fresh body has none.       *)
Numbered(c) == \A k \in 1..(Len(c) - 1) : c[k].off < c[k + 1].off

Init ==
  /\ code = <<>>
  /\ eh = <<>>
  /\ layout = None
  /\ rewritten = {}

-------------------------------------------------------------------------------
(* Moving targets and clauses by a byte delta.                              *)

(* Mutant: a target at the insertion point stays.                            *)
ShiftTargetsPast(c, from, delta, skip) ==
  [k \in DOMAIN c |->
     IF k = skip THEN c[k]
       ELSE [c[k] EXCEPT !.to = [n \in DOMAIN @ |->
                                   IF @[n] > from THEN @[n] + delta ELSE @[n]]]]

ShiftTargets(c, from, delta, skip) ==
  [k \in DOMAIN c |->
     IF k = skip THEN c[k]
       ELSE [c[k] EXCEPT !.to = [n \in DOMAIN @ |->
                                   IF @[n] >= from THEN @[n] + delta ELSE @[n]]]]

(* The same change to both regions of every clause and to filter offsets.    *)
EachClause(Region(_), Filter(_), clauses) ==
  [c \in DOMAIN clauses |->
     [try     |-> Region(clauses[c].try),
      handler |-> Region(clauses[c].handler),
      filter  |-> IF clauses[c].filter = None THEN None ELSE Filter(clauses[c].filter)]]

(* Mutant: a region grows when the insertion is at its end, too.             *)
ShiftEhInsertAtEnd(clauses, pos, delta) ==
  LET Start(off) == IF off >= pos THEN off + delta ELSE off
      Region(r)  == [off |-> Start(r.off),
                     len |-> IF r.off < pos /\ pos <= r.off + r.len THEN r.len + delta ELSE r.len]
  IN  EachClause(Region, Start, clauses)

ShiftEhInsert(clauses, pos, delta) ==
  LET Start(off) == IF off >= pos THEN off + delta ELSE off
      Region(r)  == [off |-> Start(r.off),
                     len |-> IF r.off < pos /\ pos < r.off + r.len THEN r.len + delta ELSE r.len]
  IN  EachClause(Region, Start, clauses)

ShiftEhReplace(clauses, offset, delta) ==
  LET Start(off) == IF off > offset THEN off + delta ELSE off
      Region(r)  == [off |-> Start(r.off),
                     len |-> IF Start(r.off) <= offset /\ offset < Start(r.off) + r.len
                               THEN r.len + delta ELSE r.len]
  IN  EachClause(Region, Start, clauses)

ShiftEhRemove(clauses, pos, removed) ==
  LET Move(off)   == IF off >= pos + removed THEN off - removed
                       ELSE IF off >= pos THEN pos ELSE off
      MoveEnd(e)  == IF e >= pos + removed THEN e - removed ELSE IF e > pos THEN pos ELSE e
      NonNeg(n)   == IF n < 0 THEN 0 ELSE n
      Region(r)   == [off |-> Move(r.off), len |-> NonNeg(MoveEnd(r.off + r.len) - Move(r.off))]
  IN  EachClause(Region, Move, clauses)

-------------------------------------------------------------------------------
(* BodyEditor.                                                              *)

(* A consistent body: its offsets are those of its encoding.                 *)
Consistent == rewritten = {} /\ Numbered(code)

(* Where a branch authored into body c may point: an instruction of c.       *)
Starts(c) == {NewOffsets(c)[k] : k \in DOMAIN c}

Instr(op, to) == [op |-> op, off |-> 0, to |-> to]

(* An instruction of the right length, whatever it targets.                  *)
Blank(op) ==
  Instr(op, CASE op \in Branches -> <<0>> [] op = "switch" -> <<0, 0>> [] OTHER -> <<>>)

(* The instructions with opcode op that target the given offsets.            *)
Authored(op, starts) ==
  {Instr(op, to) : to \in [DOMAIN Blank(op).to -> starts]}

(* Branches that denote no instruction, clauses with a region that covers no *)
(* instruction.                                                              *)
DanglingBranches ==
  {k \in DOMAIN code : \E n \in DOMAIN code[k].to :
     \A j \in DOMAIN code : code[j].off # code[k].to[n]}

DeadClauses ==
  {c \in DOMAIN eh : \E r \in {eh[c].try, eh[c].handler} : r.len = 0 \/ r.off >= End(code)}

WithinBounds(c) ==
  /\ Len(c) <= MaxLen
  /\ Cardinality({k \in DOMAIN c : c[k].to # <<>>}) <= MaxBranches
  /\ Cardinality(DanglingBranches) + Cardinality(DeadClauses) <= MaxLost

(* insert_at(index, instr), with index one-based here.                       *)
InsertAtIndex(index, instr) ==
  LET len  == Len(code)
      size == EncodedSize(instr)
      pos  == IF index <= len THEN code[index].off ELSE End(code)
      at   == IF index <= len THEN index ELSE len + 1
  IN  /\ Consistent
      /\ WithinBounds(Append(code, instr))
      /\ code' = RecomputeOffsets(ShiftTargets(InsertAt(code, at, instr), pos, size, at))
      /\ eh' = ShiftEhInsert(eh, pos, size)
      /\ UNCHANGED <<layout, rewritten>>

Replace(index, instr) ==
  LET pos   == code[index].off
      delta == EncodedSize(instr) - EncodedSize(code[index])
      put   == ReplaceAt(code, index, [instr EXCEPT !.off = pos])
      after == pos + EncodedSize(code[index])
  IN  /\ Consistent
      /\ WithinBounds(put)
      /\ code' = IF delta = 0 THEN put
                   ELSE RecomputeOffsets(ShiftTargets(put, after, delta, index))
      /\ eh' = IF delta = 0 THEN eh ELSE ShiftEhReplace(eh, pos, delta)
      /\ UNCHANGED <<layout, rewritten>>

(* Mutant: the instructions that move up keep their offsets.                 *)
RemoveRangeNoRelayout(first, end) ==
  LET last    == IF end - 1 > Len(code) THEN Len(code) ELSE end - 1
      pos     == code[first].off
      removed == NewOffsets(SubSeq(code, first, last))[last - first + 2]
      kept    == SubSeq(code, 1, first - 1) \o SubSeq(code, last + 1, Len(code))
  IN  /\ Consistent
      /\ WithinBounds(kept)
      /\ first < end /\ first <= Len(code)
      /\ code' = ShiftTargets(kept, pos + removed, -removed, 0)
      /\ eh' = ShiftEhRemove(eh, pos, removed)
      /\ UNCHANGED <<layout, rewritten>>

(* remove_range(first..end), end exclusive and clipped.                      *)
RemoveRange(first, end) ==
  LET last    == IF end - 1 > Len(code) THEN Len(code) ELSE end - 1
      pos     == code[first].off
      removed == NewOffsets(SubSeq(code, first, last))[last - first + 2]
      kept    == SubSeq(code, 1, first - 1) \o SubSeq(code, last + 1, Len(code))
  IN  /\ Consistent
      /\ WithinBounds(kept)
      /\ first < end /\ first <= Len(code)
      /\ code' = RecomputeOffsets(ShiftTargets(kept, pos + removed, -removed, 0))
      /\ eh' = ShiftEhRemove(eh, pos, removed)
      /\ UNCHANGED <<layout, rewritten>>

Clear ==
  /\ code # <<>>
  /\ code' = <<>>
  /\ rewritten' = {}
  /\ UNCHANGED <<eh, layout>>

-------------------------------------------------------------------------------
(* Callers writing the public fields: a fresh body with unassigned offsets,  *)
(* an exception clause on instruction boundaries, an opcode in place.        *)

AuthorBody(c) ==
  /\ code = <<>> /\ WithinBounds(c)
  /\ code' = c
  /\ UNCHANGED <<eh, layout, rewritten>>

RegionOf(first, last) ==
  [off |-> code[first].off, len |-> NewOffsets(code)[last + 1] - code[first].off]

AddClause(first, last, hfirst, hlast, filter) ==
  /\ Consistent
  /\ Len(eh) < MaxClauses
  /\ eh' = Append(eh, [try |-> RegionOf(first, last), handler |-> RegionOf(hfirst, hlast),
                       filter |-> filter])
  /\ UNCHANGED <<code, layout, rewritten>>

DropClauses ==
  /\ eh # <<>>
  /\ eh' = <<>>
  /\ UNCHANGED <<code, layout, rewritten>>

(* Opcodes that differ in encoding only, rewritten under a layout captured   *)
(* before the first of them.                                                 *)
LongForm(op) == CASE op = "br_s" -> "br" [] op = "ldc_i4_0" -> "ldc_i4" [] OTHER -> op

Rewrite(index, op) ==
  /\ layout # None /\ Numbered(code)
  /\ rewritten # {} \/ layout = NewOffsets(code)
  /\ op # code[index].op /\ LongForm(op) = LongForm(code[index].op)
  /\ code' = [code EXCEPT ![index].op = op]
  /\ rewritten' = rewritten \cup {index}
  /\ UNCHANGED <<eh, layout>>

-------------------------------------------------------------------------------
(* BodyLayout: a snapshot of old offsets, and relocation through it.        *)

Snapshot(c) == Append([k \in DOMAIN c |-> c[k].off], End(c))

IndexIn(offsets, t) ==
  IF t \in Range(offsets) THEN CHOOSE k \in DOMAIN offsets : offsets[k] = t ELSE 0

(* Mutant: the code end is not an anchor.                                    *)
RestoreWithoutEnd(old, new, c, clauses) ==
  LET Index(t)    == LET k == IndexIn(old, t) IN IF k = Len(old) THEN 0 ELSE k
      Relocate(t) == IF Index(t) = 0 THEN t ELSE new[Index(t)]
      Region(r)   == IF Index(r.off) = 0 \/ Index(r.off + r.len) = 0 THEN r
                       ELSE [off |-> Relocate(r.off),
                             len |-> Relocate(r.off + r.len) - Relocate(r.off)]
  IN  [code |-> [k \in DOMAIN c |-> [c[k] EXCEPT !.off = new[k],
                                       !.to = [n \in DOMAIN @ |-> Relocate(@[n])]]],
       eh   |-> EachClause(Region, Relocate, clauses)]

(* restore(): every anchor the snapshot knows moves; the others stay.        *)
Restore(old, new, c, clauses) ==
  LET Index(t)    == IndexIn(old, t)
      Relocate(t) == IF Index(t) = 0 THEN t ELSE new[Index(t)]
      Region(r)   == IF Index(r.off) = 0 \/ Index(r.off + r.len) = 0 THEN r
                       ELSE [off |-> Relocate(r.off),
                             len |-> Relocate(r.off + r.len) - Relocate(r.off)]
  IN  [code |-> [k \in DOMAIN c |-> [c[k] EXCEPT !.off = new[k],
                                       !.to = [n \in DOMAIN @ |-> Relocate(@[n])]]],
       eh   |-> EachClause(Region, Relocate, clauses)]

ValidTargets(offsets, c, clauses) ==
  LET IsStart(t) == IndexIn(offsets, t) \in 1..Len(c)
      ValidRegion(r) == IsStart(r.off) /\ r.len > 0 /\ IndexIn(offsets, r.off + r.len) # 0
  IN  /\ \A k \in DOMAIN c : \A n \in DOMAIN c[k].to : IsStart(c[k].to[n])
      /\ \A e \in DOMAIN clauses :
           /\ ValidRegion(clauses[e].try) /\ ValidRegion(clauses[e].handler)
           /\ clauses[e].filter # None =>
                IsStart(clauses[e].filter) /\ clauses[e].filter < clauses[e].handler.off

(* capture(): Err, without effect, unless the body is consistent.            *)
Capture ==
  /\ MaxLayouts > 0
  /\ Snapshot(code) = NewOffsets(code)
  /\ ValidTargets(NewOffsets(code), code, eh)
  /\ layout' = NewOffsets(code)
  /\ UNCHANGED <<code, eh, rewritten>>

(* remap(): Err, without effect, on structural edits and bad anchors.        *)
(* Mutant: only the instruction count is compared.                           *)
CanRemapByCount ==
  /\ Len(layout) = Len(code) + 1
  /\ ValidTargets(layout, code, eh)

CanRemap ==
  /\ Len(layout) = Len(code) + 1
  /\ \A k \in DOMAIN code : code[k].off = layout[k]
  /\ ValidTargets(layout, code, eh)

Become(body) == code' = body.code /\ eh' = body.eh

Remap ==
  /\ layout # None
  /\ CanRemap
  /\ Become(Restore(layout, NewOffsets(code), code, eh))
  /\ rewritten' = {}
  /\ UNCHANGED layout

Renumbered(c, clauses) ==
  IF Numbered(c) THEN Restore(Snapshot(c), NewOffsets(c), c, clauses)
                 ELSE [code |-> RecomputeOffsets(c), eh |-> clauses]

(* renumber() "cannot infer an old code size after the final opcode          *)
(* changed": callers relocate such a body through its layout.                *)
MayRenumber == code # <<>> /\ Len(code) \notin rewritten

Renumber ==
  /\ MayRenumber
  /\ Become(Renumbered(code, eh))
  /\ rewritten' = {}
  /\ UNCHANGED layout

-------------------------------------------------------------------------------
(* Macro passes.                                                            *)

Simplified(body) ==
  LET long == [k \in DOMAIN body.code |-> [body.code[k] EXCEPT !.op = LongForm(@)]]
  IN  Restore(Snapshot(body.code), NewOffsets(long), long, body.eh)

SimplifyMacros ==
  /\ MayRenumber
  /\ Become(Simplified(Renumbered(code, eh)))
  /\ rewritten' = {}
  /\ UNCHANGED layout

(* InstructionSizes: a Fenwick tree of encoded sizes, one-based.             *)
LowBit[i \in Nat \ {0}] == IF i % 2 = 1 THEN 1 ELSE 2 * LowBit[i \div 2]

InstructionSizes(c) ==
  LET built[i \in 0..Len(c)] ==
        IF i = 0 THEN [j \in DOMAIN c |-> EncodedSize(c[j])]
        ELSE LET sums == built[i - 1]
                 parent == i + LowBit[i]
             IN  IF parent > Len(c) THEN sums ELSE [sums EXCEPT ![parent] = @ + sums[i]]
  IN  built[Len(c)]

(* The offset of the instruction after the first `index'.                    *)
OffsetOf(sums, index) ==
  LET prefix[i \in 0..Len(sums)] == IF i = 0 THEN 0 ELSE sums[i] + prefix[i - LowBit[i]]
  IN  prefix[index]

(* Mutant: only the leaf shrinks, not the sums above it.                     *)
ShrinkLeaf(sums, i) == [sums EXCEPT ![i] = @ - 3]

Shrink(sums, i) ==
  LET above[j \in Nat \ {0}] == IF j > Len(sums) THEN {} ELSE {j} \cup above[j + LowBit[j]]
  IN  [j \in DOMAIN sums |-> IF j \in above[i] THEN sums[j] - 3 ELSE sums[j]]

FitsShort(displacement) == displacement \in -128..127

OptimizeInstructions(c) ==
  [k \in DOMAIN c |-> IF c[k].op = "ldc_i4" THEN [c[k] EXCEPT !.op = "ldc_i4_0"] ELSE c[k]]

(* Mutant: measured from the start of the branch, not from its end.          *)
DisplacementFromStart(sums, k, target) ==
  OffsetOf(sums, target - 1) - (IF target > k THEN 3 ELSE 0) - OffsetOf(sums, k - 1)

(* From the end of the k-th instruction, were it short, to the target.       *)
Displacement(sums, k, target) ==
  OffsetOf(sums, target - 1) - (IF target > k THEN 3 ELSE 0) - (OffsetOf(sums, k - 1) + 2)

(* Branches in order; targets are still those of the snapshot `old'.         *)
OptimizeBranches(c, old) ==
  LET pass[k \in 0..Len(c)] ==
        IF k = 0 THEN [code |-> c, sums |-> InstructionSizes(c)]
        ELSE LET before == pass[k - 1]
                 target == IF c[k].op = "br" THEN IndexIn(old, c[k].to[1]) ELSE 0
             IN  IF target # 0 /\ FitsShort(Displacement(before.sums, k, target))
                   THEN [code |-> [before.code EXCEPT ![k].op = "br_s"],
                         sums |-> Shrink(before.sums, k)]
                   ELSE before
  IN  pass[Len(c)].code

Optimized(body) ==
  LET old   == Snapshot(body.code)
      short == OptimizeBranches(OptimizeInstructions(body.code), old)
  IN  Restore(old, NewOffsets(short), short, body.eh)

OptimizeMacros ==
  /\ MayRenumber
  /\ Become(Optimized(Renumbered(code, eh)))
  /\ rewritten' = {}
  /\ UNCHANGED layout

(* optimize_longs: a narrow 64-bit load becomes a 32-bit load and a          *)
(* conversion, nine bytes become six.                                        *)
NarrowAt(body, at) ==
  LET off    == body.code[at].off
      load   == ReplaceAt(body.code, at, [body.code[at] EXCEPT !.op = "ldc_i4"])
      moved  == ShiftTargets(load, off + 9, -3, at)
      conv   == [op |-> "conv_i8", off |-> 0, to |-> <<>>]
  IN  [code |-> RecomputeOffsets(InsertAt(moved, at + 1, conv)),
       eh   |-> ShiftEhReplace(body.eh, off, -3)]

LongsOptimized(body) ==
  LET pass[k \in 0..Len(body.code)] ==
        IF k = 0 THEN [body |-> body, at |-> 1]
        ELSE LET before == pass[k - 1]
             IN  IF body.code[k].op = "ldc_i8"
                   THEN [body |-> NarrowAt(before.body, before.at), at |-> before.at + 2]
                   ELSE [before EXCEPT !.at = @ + 1]
  IN  pass[Len(body.code)].body

Optimize ==
  /\ Consistent /\ code # <<>>
  /\ Len(code) + Cardinality({k \in DOMAIN code : code[k].op = "ldc_i8"}) <= MaxLen
  /\ LET longs == LongsOptimized([code |-> code, eh |-> eh])
     IN  Become(Optimized(Renumbered(longs.code, longs.eh)))
  /\ UNCHANGED <<layout, rewritten>>

-------------------------------------------------------------------------------

(* Fresh bodies a caller may assign: two instructions, offsets unassigned.   *)
FreshBodies ==
  UNION {LET starts == Starts(<<Blank(op1), Blank(op2)>>)
         IN  {<<a, b>> : a \in Authored(op1, starts), b \in Authored(op2, starts)} :
           op1, op2 \in Ops}

Next ==
  \/ \E index \in 1..(Len(code) + 2), op \in Ops :
       LET at == IF index <= Len(code) THEN index ELSE Len(code) + 1
       IN  \E instr \in Authored(op, Starts(InsertAt(code, at, Blank(op)))) :
             InsertAtIndex(index, instr)
  \/ \E index \in DOMAIN code, op \in Ops :
       \E instr \in Authored(op, Starts(ReplaceAt(code, index, Blank(op)))) :
         Replace(index, instr)
  \/ \E first \in DOMAIN code, end \in 1..(Len(code) + 2) : RemoveRange(first, end)
  \/ Clear
  \/ \E c \in FreshBodies : AuthorBody(c)
  \/ \E first, last, hfirst, hlast \in DOMAIN code :
       /\ first <= last /\ last < hfirst /\ hfirst <= hlast
       /\ \E filter \in {None} \cup {code[k].off : k \in (last + 1)..(hfirst - 1)} :
            AddClause(first, last, hfirst, hlast, filter)
  \/ DropClauses
  \/ \E index \in DOMAIN code, op \in Ops : Rewrite(index, op)
  \/ Capture
  \/ Remap
  \/ Renumber
  \/ SimplifyMacros
  \/ OptimizeMacros
  \/ Optimize

Spec == Init /\ [][Next]_vars

-------------------------------------------------------------------------------
Instructions ==
  {i \in [op : Ops \cup {"ldc_i4", "ldc_i4_0", "br", "br_s", "conv_i8"}, off : Nat, to : Seq(Int)] :
     Len(i.to) = Len(Blank(i.op).to)}
Regions == [off : Int, len : Int]
Clauses == [try : Regions, handler : Regions, filter : Int \cup {None}]

(* Every instruction has the operand its opcode calls for, whatever passes   *)
(* have run; a body is either unnumbered, being rewritten under a layout, or *)
(* placed: each instruction at the offset its encoding gives it.             *)
TypeOK ==
  /\ code \in Seq(Instructions)
  /\ eh \in Seq(Clauses)
  /\ layout \in {None} \cup Seq(Nat)
  /\ rewritten \subseteq DOMAIN code
  /\ Consistent => Snapshot(code) = NewOffsets(code)

(* The pass that shortens branches with incremental size sums shortens what  *)
(* a full recomputation of the layout after every branch would shorten.      *)
ShortenByLayout(c, old) ==
  LET pass[k \in 0..Len(c)] ==
        IF k = 0 THEN c
        ELSE LET before == pass[k - 1]
                 target == IF c[k].op = "br" THEN IndexIn(old, c[k].to[1]) ELSE 0
                 off    == NewOffsets(before)
                 moved  == off[target] - (IF target > k THEN 3 ELSE 0)
             IN  IF target # 0 /\ FitsShort(moved - (off[k] + 2))
                   THEN [before EXCEPT ![k].op = "br_s"] ELSE before
  IN  pass[Len(c)]

ShorteningExact ==
  Numbered(code) =>
    LET short == OptimizeInstructions(code)
    IN  OptimizeBranches(short, Snapshot(code)) = ShortenByLayout(short, Snapshot(code))

(* Every short branch to an instruction reaches it with a signed byte: the   *)
(* writer's condition for encoding the body.                                 *)
ShortBranchesFit(c) ==
  \A k \in DOMAIN c :
    c[k].op = "br_s" /\ (\E j \in DOMAIN c : c[j].off = c[k].to[1]) =>
      FitsShort(c[k].to[1] - (c[k].off + 2))

(* The optimizing passes never make an encodable body without dangling       *)
(* targets unencodable: a branch shortened early still reaches after         *)
(* everything else has moved.                                                *)
OptimizedBodyEncodes ==
  LET body == Renumbered(code, eh)
  IN  ShortBranchesFit(body.code) /\ ValidTargets(NewOffsets(body.code), body.code, <<>>) =>
        ShortBranchesFit(Optimized(body).code)

===============================================================================
