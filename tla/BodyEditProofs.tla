---------------------------- MODULE BodyEditProofs ----------------------------
(***************************************************************************)
(* Proofs about BodyEdit, for any opcodes in use, any block length and any *)
(* bounds.                                                                 *)
(***************************************************************************)
EXTENDS BodyEdit, SequenceTheorems, WellFoundedInduction, TLAPS

-------------------------------------------------------------------------------
(* Recursion over the instructions of a body.                                *)

LEMMA LeastNat ==
  ASSUME NEW S \in SUBSET Nat, S # {}
  PROVE  \E n \in S : \A m \in S : n <= m
<1>1. PICK x \in S : \A y \in S : ~(<<y, x>> \in OpToRel(<, Nat))
  BY NatLessThanWellFounded, WFMin
<1>2. \A y \in S : ~(y < x)
  BY <1>1 DEF OpToRel
<1> QED
  BY <1>2

(* Running sums exist: the least length without any would be one more than   *)
(* a length with them.                                                       *)
LEMMA RunningSums ==
  ASSUME NEW sizes, NEW n \in Nat
  PROVE  \E f : f = [k \in 1..n |-> IF k = 1 THEN 0 ELSE f[k - 1] + sizes[k - 1]]
<1> DEFINE Sums(m, f) == f = [k \in 1..m |-> IF k = 1 THEN 0 ELSE f[k - 1] + sizes[k - 1]]
           Bad == {m \in Nat : ~\E f : Sums(m, f)}
<1> SUFFICES Bad = {}
  OBVIOUS
<1>1. SUFFICES ASSUME Bad # {} PROVE FALSE
  OBVIOUS
<1>2. PICK m \in Bad : \A j \in Bad : m <= j
  <2> HIDE DEF Bad
  <2>1. Bad \in SUBSET Nat
    BY DEF Bad
  <2> QED
    BY <1>1, <2>1, LeastNat
<1>3. m # 0
  <2>1. Sums(0, [k \in 1..0 |-> 0])
    OBVIOUS
  <2> QED
    BY <1>2, <2>1
<1>4. m \in Nat /\ m - 1 \in Nat /\ m - 1 \notin Bad
  <2> HIDE DEF Bad
  <2>1. m \in Nat
    BY DEF Bad
  <2> QED
    BY <1>2, <1>3, <2>1
<1>5. PICK f : Sums(m - 1, f)
  <2> HIDE DEF Sums
  <2> QED
    BY <1>4
<1> DEFINE g == [k \in 1..m |-> IF k = 1 THEN 0 ELSE f[k - 1] + sizes[k - 1]]
<1>6. \A k \in 1..(m - 1) : f[k] = g[k]
  BY <1>4, <1>5
<1>7. Sums(m, g)
  <2>1. \A k \in 1..m : k # 1 => k - 1 \in 1..(m - 1)
    BY <1>4
  <2> QED
    BY <1>6, <2>1
<1> QED
  BY <1>2, <1>7

(* The layout of a body, unfolded.                                           *)
LEMMA OffsetsUnfold ==
  ASSUME NEW c, Len(c) \in Nat
  PROVE  NewOffsets(c) = [k \in 1..(Len(c) + 1) |->
                            IF k = 1 THEN 0
                              ELSE NewOffsets(c)[k - 1] + EncodedSize(c[k - 1])]
<1> DEFINE sizes == [k \in 1..Len(c) |-> EncodedSize(c[k])]
           Sums(f) == f = [k \in 1..(Len(c) + 1) |->
                             IF k = 1 THEN 0 ELSE f[k - 1] + EncodedSize(c[k - 1])]
<1>1. \E f : f = [k \in 1..(Len(c) + 1) |-> IF k = 1 THEN 0 ELSE f[k - 1] + sizes[k - 1]]
  <2> HIDE DEF sizes
  <2>1. Len(c) + 1 \in Nat
    OBVIOUS
  <2> QED
    BY <2>1, RunningSums
<1>2. \A k \in 1..(Len(c) + 1) : k # 1 => sizes[k - 1] = EncodedSize(c[k - 1])
  OBVIOUS
<1>3. \E f : Sums(f)
  <2>1. PICK f : f = [k \in 1..(Len(c) + 1) |-> IF k = 1 THEN 0 ELSE f[k - 1] + sizes[k - 1]]
    BY <1>1
  <2>2. [k \in 1..(Len(c) + 1) |-> IF k = 1 THEN 0 ELSE f[k - 1] + sizes[k - 1]]
          = [k \in 1..(Len(c) + 1) |-> IF k = 1 THEN 0 ELSE f[k - 1] + EncodedSize(c[k - 1])]
    <3> HIDE DEF sizes
    <3> QED
      BY <1>2
  <2> QED
    BY <2>1, <2>2
<1>4. NewOffsets(c) = CHOOSE f : Sums(f)
  BY DEF NewOffsets
<1> QED
  BY <1>3, <1>4

(* ... and it is the only function that unfolds so.                          *)
SumsSizes(f, c) ==
  /\ DOMAIN f = 1..(Len(c) + 1) /\ f = [k \in DOMAIN f |-> f[k]]
  /\ \A k \in DOMAIN f : f[k] = IF k = 1 THEN 0 ELSE f[k - 1] + EncodedSize(c[k - 1])

LEMMA OffsetsUnique ==
  ASSUME NEW c, Len(c) \in Nat, NEW f, SumsSizes(f, c)
  PROVE  f = NewOffsets(c)
<1>0. /\ DOMAIN f = 1..(Len(c) + 1) /\ f = [k \in DOMAIN f |-> f[k]]
      /\ \A k \in DOMAIN f : f[k] = IF k = 1 THEN 0 ELSE f[k - 1] + EncodedSize(c[k - 1])
  BY DEF SumsSizes
<1> DEFINE Bad == {k \in 1..(Len(c) + 1) : f[k] # NewOffsets(c)[k]}
<1>1. Bad = {}
  <2>1. SUFFICES ASSUME Bad # {} PROVE FALSE
    OBVIOUS
  <2>2. PICK k \in Bad : \A j \in Bad : k <= j
    <3> HIDE DEF Bad
    <3>1. Bad \in SUBSET Nat
      BY DEF Bad
    <3> QED
      BY <2>1, <3>1, LeastNat
  <2>3. k # 1 => k - 1 \in 1..(Len(c) + 1) /\ f[k - 1] = NewOffsets(c)[k - 1]
    BY <2>2
  <2>4. k \in 1..(Len(c) + 1) /\ f[k] # NewOffsets(c)[k]
    BY <2>2
  <2>5. NewOffsets(c)[k] = IF k = 1 THEN 0 ELSE NewOffsets(c)[k - 1] + EncodedSize(c[k - 1])
    BY <2>4, OffsetsUnfold
  <2>6. f[k] = IF k = 1 THEN 0 ELSE f[k - 1] + EncodedSize(c[k - 1])
    BY <1>0, <2>4
  <2> HIDE DEF Bad
  <2> QED
    BY <2>3, <2>4, <2>5, <2>6
<1>2. NewOffsets(c) = [k \in 1..(Len(c) + 1) |-> NewOffsets(c)[k]]
  BY OffsetsUnfold
<1> QED
  BY <1>0, <1>1, <1>2

-------------------------------------------------------------------------------
(* Instructions and their sizes.                                             *)

Opcodes == Ops \cup {"ldc_i4", "ldc_i4_0", "br", "br_s", "conv_i8"}
Operands(op) == IF op \in Branches THEN 1 ELSE IF op = "switch" THEN 2 ELSE 0

LEMMA InstructionForm ==
  ASSUME NEW i
  PROVE  i \in Instructions <=>
           /\ i \in [op : Opcodes, off : Nat, to : Seq(Int)]
           /\ Len(i.to) = Operands(i.op)
<1>1. \A op : Len(Blank(op).to) = Operands(op)
  BY DEF Blank, Instr, Operands, Branches
<1> QED
  BY <1>1 DEF Instructions, Opcodes

LEMMA EncodedSizes ==
  ASSUME NEW i \in Instructions
  PROVE  EncodedSize(i) \in Nat \ {0}
<1>1. i.op \in Opcodes /\ i.to \in Seq(Int) /\ Len(i.to) = Operands(i.op)
  BY InstructionForm
<1>2. CASE i.op = "switch"
  BY <1>1, <1>2 DEF EncodedSize, Operands, Branches
<1>3. CASE i.op # "switch"
  BY <1>1, <1>3, OpsAssumption, BoundsAssumption DEF EncodedSize, Size, Opcodes
<1> QED
  BY <1>2, <1>3

(* The size depends on the opcode alone.                                     *)
LEMMA SizeByOpcode ==
  ASSUME NEW i \in Instructions, NEW j \in Instructions, i.op = j.op
  PROVE  EncodedSize(i) = EncodedSize(j)
<1>1. Len(i.to) = Len(j.to)
  BY InstructionForm
<1> QED
  BY <1>1 DEF EncodedSize

LEMMA Moved ==
  ASSUME NEW i \in Instructions, NEW off \in Nat
  PROVE  /\ [i EXCEPT !.off = off] \in Instructions
         /\ [i EXCEPT !.off = off].op = i.op
         /\ [i EXCEPT !.off = off].off = off
<1>1. i \in [op : Opcodes, off : Nat, to : Seq(Int)] /\ Len(i.to) = Operands(i.op)
  BY InstructionForm
<1>2. /\ [i EXCEPT !.off = off] \in [op : Opcodes, off : Nat, to : Seq(Int)]
      /\ [i EXCEPT !.off = off].op = i.op
      /\ [i EXCEPT !.off = off].to = i.to
      /\ [i EXCEPT !.off = off].off = off
  BY <1>1
<1> QED
  BY <1>1, <1>2, InstructionForm

LEMMA OffsetsType ==
  ASSUME NEW c \in Seq(Instructions)
  PROVE  /\ NewOffsets(c) \in Seq(Nat)
         /\ Len(NewOffsets(c)) = Len(c) + 1
         /\ NewOffsets(c)[1] = 0
         /\ \A k \in DOMAIN c : NewOffsets(c)[k + 1] = NewOffsets(c)[k] + EncodedSize(c[k])
<1> DEFINE f == NewOffsets(c)
           n == Len(c)
<1>1. n \in Nat /\ DOMAIN c = 1..n
  OBVIOUS
<1>2. f = [k \in 1..(n + 1) |-> IF k = 1 THEN 0 ELSE f[k - 1] + EncodedSize(c[k - 1])]
  BY <1>1, OffsetsUnfold
<1>3. \A k \in 1..n : EncodedSize(c[k]) \in Nat
  BY <1>1, EncodedSizes
<1> DEFINE Bad == {k \in 1..(n + 1) : f[k] \notin Nat}
<1> HIDE DEF f, n
<1>4. Bad = {}
  <2>1. SUFFICES ASSUME Bad # {} PROVE FALSE
    OBVIOUS
  <2>2. PICK k \in Bad : \A j \in Bad : k <= j
    <3>1. Bad \in SUBSET Nat
      BY <1>1
    <3> HIDE DEF Bad
    <3> QED
      BY <2>1, <3>1, LeastNat
  <2>3. k # 1 => k - 1 \in 1..n /\ f[k - 1] \in Nat
    BY <1>1, <2>2
  <2>4. k \in 1..(n + 1) /\ f[k] \notin Nat
    BY <2>2
  <2> HIDE DEF Bad
  <2> QED
    BY <1>1, <1>2, <1>3, <2>3, <2>4
<1>5. \A k \in 1..(n + 1) : f[k] \in Nat
  BY <1>4
<1>6. f \in Seq(Nat) /\ Len(f) = n + 1
  <2>1. f \in [1..(n + 1) -> Nat]
    BY <1>2, <1>5
  <2> QED
    BY <1>1, <2>1
<1>7. f[1] = 0 /\ \A k \in 1..n : f[k + 1] = f[k] + EncodedSize(c[k])
  BY <1>1, <1>2
<1> QED
  BY <1>1, <1>6, <1>7 DEF f, n

(* Bodies of the same opcodes have the same layout.                          *)
SameSizes(c, d) == Len(d) = Len(c) /\ \A k \in DOMAIN c : EncodedSize(d[k]) = EncodedSize(c[k])

LEMMA SameLayout ==
  ASSUME NEW c \in Seq(Instructions), NEW d \in Seq(Instructions), SameSizes(c, d)
  PROVE  NewOffsets(d) = NewOffsets(c)
<1> DEFINE f == NewOffsets(c)
           n == Len(c)
<1>1. n \in Nat /\ DOMAIN c = 1..n /\ Len(d) = n
  BY DEF SameSizes
<1>2. f = [k \in 1..(n + 1) |-> IF k = 1 THEN 0 ELSE f[k - 1] + EncodedSize(c[k - 1])]
  BY <1>1, OffsetsUnfold
<1>3. \A k \in 1..n : EncodedSize(d[k]) = EncodedSize(c[k])
  BY <1>1 DEF SameSizes
<1> HIDE DEF f, n
<1>4. DOMAIN f = 1..(n + 1) /\ f = [k \in DOMAIN f |-> f[k]]
  BY <1>2
<1>5. \A k \in DOMAIN f : f[k] = IF k = 1 THEN 0 ELSE f[k - 1] + EncodedSize(d[k - 1])
  BY <1>1, <1>2, <1>3
<1>6. Len(d) \in Nat /\ DOMAIN f = 1..(Len(d) + 1)
  BY <1>1, <1>4
<1>7. SumsSizes(f, d)
  BY <1>4, <1>5, <1>6 DEF SumsSizes
<1> HIDE DEF SameSizes
<1> QED
  BY <1>6, <1>7, OffsetsUnique DEF f

-------------------------------------------------------------------------------
(* A placed body: every instruction where its encoding puts it.              *)
Placed(c) == \A k \in DOMAIN c : c[k].off = NewOffsets(c)[k]

LEMMA PlacedIsSnapshot ==
  ASSUME NEW c \in Seq(Instructions)
  PROVE  Placed(c) <=> Snapshot(c) = NewOffsets(c)
<1> DEFINE f == NewOffsets(c)
           n == Len(c)
           offs == [k \in DOMAIN c |-> c[k].off]
<1>1. n \in Nat /\ DOMAIN c = 1..n
  OBVIOUS
<1>2. f \in Seq(Nat) /\ Len(f) = n + 1 /\ f[1] = 0
      /\ \A k \in 1..n : f[k + 1] = f[k] + EncodedSize(c[k])
  BY <1>1, OffsetsType
<1>3. \A k \in 1..n : c[k].off \in Nat /\ EncodedSize(c[k]) \in Nat
  BY <1>1, EncodedSizes, InstructionForm
<1>4. offs \in Seq(Nat) /\ Len(offs) = n /\ \A k \in 1..n : offs[k] = c[k].off
  BY <1>1, <1>3
<1>5. End(c) \in Nat
  <2>1. CASE c = <<>>
    BY <2>1 DEF End
  <2>2. CASE c # <<>>
    <3>1. n \in 1..n
      BY <2>2
    <3> QED
      BY <2>2, <1>3, <3>1 DEF End
  <2> QED
    BY <2>1, <2>2
<1>6. /\ Snapshot(c) \in Seq(Nat) /\ Len(Snapshot(c)) = n + 1
      /\ \A k \in 1..n : Snapshot(c)[k] = c[k].off
      /\ Snapshot(c)[n + 1] = End(c)
  <2> HIDE DEF offs, n
  <2>1. Snapshot(c) = Append(offs, End(c))
    BY DEF Snapshot, offs
  <2> QED
    BY <1>1, <1>4, <1>5, <2>1
<1>7. ASSUME Placed(c) PROVE End(c) = f[n + 1]
  <2>1. CASE c = <<>>
    BY <1>2, <2>1 DEF End
  <2>2. CASE c # <<>>
    <3>1. n \in 1..n /\ n \in DOMAIN c
      BY <2>2
    <3>2. End(c) = c[n].off + EncodedSize(c[n])
      BY <2>2 DEF End
    <3>3. c[n].off = f[n]
      BY <1>7, <3>1 DEF Placed
    <3> HIDE DEF f, n
    <3> QED
      BY <1>2, <3>1, <3>2, <3>3
  <2> QED
    BY <2>1, <2>2
<1>8. Placed(c) <=> \A k \in 1..n : c[k].off = f[k]
  BY <1>1 DEF Placed
<1>9. ASSUME Placed(c) PROVE Snapshot(c) = f
  <2>1. \A k \in 1..(n + 1) : Snapshot(c)[k] = f[k]
    <3> HIDE DEF f, n
    <3> QED
      BY <1>1, <1>6, <1>7, <1>8, <1>9
  <2> HIDE DEF f, n
  <2> QED
    BY <1>1, <1>2, <1>6, <2>1
<1>10. ASSUME Snapshot(c) = f PROVE Placed(c)
  BY <1>6, <1>8, <1>10
<1> QED
  BY <1>9, <1>10

(* Recomputing the offsets places a body and changes nothing else.           *)
LEMMA Relayout ==
  ASSUME NEW c \in Seq(Instructions)
  PROVE  /\ RecomputeOffsets(c) \in Seq(Instructions)
         /\ Len(RecomputeOffsets(c)) = Len(c)
         /\ Placed(RecomputeOffsets(c))
<1> DEFINE f == NewOffsets(c)
           n == Len(c)
           d == RecomputeOffsets(c)
<1>1. n \in Nat /\ DOMAIN c = 1..n
  OBVIOUS
<1>2. \A k \in 1..n : f[k] \in Nat
  BY <1>1, OffsetsType
<1>3. d = [k \in 1..n |-> [c[k] EXCEPT !.off = f[k]]]
  BY <1>1 DEF RecomputeOffsets
<1>4. \A k \in 1..n : d[k] \in Instructions /\ d[k].op = c[k].op /\ d[k].off = f[k]
  <2> HIDE DEF f, d, n
  <2> TAKE k \in 1..n
  <2>1. c[k] \in Instructions /\ f[k] \in Nat /\ d[k] = [c[k] EXCEPT !.off = f[k]]
    BY <1>1, <1>2, <1>3
  <2> QED
    BY <2>1, Moved
<1>5. d \in Seq(Instructions) /\ Len(d) = n
  <2> HIDE DEF f, d, n
  <2>1. d \in [1..n -> Instructions]
    BY <1>3, <1>4
  <2> QED
    BY <1>1, <2>1
<1>6. SameSizes(c, d)
  <2> HIDE DEF f, d
  <2>1. \A k \in 1..n : EncodedSize(d[k]) = EncodedSize(c[k])
    BY <1>1, <1>4, SizeByOpcode
  <2> QED
    BY <1>1, <1>5, <2>1 DEF SameSizes
<1>7. NewOffsets(d) = f
  BY <1>5, <1>6, SameLayout
<1> HIDE DEF f, d, n
<1>8. Placed(d)
  BY <1>1, <1>4, <1>5, <1>7 DEF Placed
<1> QED
  BY <1>5, <1>8 DEF d, n

-------------------------------------------------------------------------------
(* What the edits do to instructions and clauses.                            *)

LEMMA Retargeted ==
  ASSUME NEW i \in Instructions, NEW to \in [DOMAIN i.to -> Int]
  PROVE  /\ [i EXCEPT !.to = to] \in Instructions
         /\ [i EXCEPT !.to = to].op = i.op
         /\ [i EXCEPT !.to = to].off = i.off
<1>1. i \in [op : Opcodes, off : Nat, to : Seq(Int)] /\ Len(i.to) = Operands(i.op)
  BY InstructionForm
<1>2. to \in Seq(Int) /\ Len(to) = Len(i.to)
  BY <1>1
<1>3. /\ [i EXCEPT !.to = to] \in [op : Opcodes, off : Nat, to : Seq(Int)]
      /\ [i EXCEPT !.to = to].op = i.op
      /\ [i EXCEPT !.to = to].to = to
      /\ [i EXCEPT !.to = to].off = i.off
  BY <1>1, <1>2
<1> QED
  BY <1>1, <1>2, <1>3, InstructionForm

LEMMA ShiftTargetsType ==
  ASSUME NEW c \in Seq(Instructions), NEW from \in Int, NEW delta \in Int, NEW skip
  PROVE  /\ ShiftTargets(c, from, delta, skip) \in Seq(Instructions)
         /\ Len(ShiftTargets(c, from, delta, skip)) = Len(c)
<1> DEFINE n == Len(c)
           d == ShiftTargets(c, from, delta, skip)
           To(i) == [m \in DOMAIN i.to |-> IF i.to[m] >= from THEN i.to[m] + delta ELSE i.to[m]]
<1>1. n \in Nat /\ DOMAIN c = 1..n
  OBVIOUS
<1>2. d = [k \in 1..n |-> IF k = skip THEN c[k] ELSE [c[k] EXCEPT !.to = To(c[k])]]
  BY <1>1 DEF ShiftTargets
<1>3. \A k \in 1..n : d[k] \in Instructions
  <2> TAKE k \in 1..n
  <2>1. c[k] \in Instructions
    BY <1>1
  <2>2. To(c[k]) \in [DOMAIN c[k].to -> Int]
    <3>1. c[k].to \in Seq(Int)
      BY <2>1, InstructionForm
    <3> QED
      BY <3>1
  <2>3. d[k] = c[k] \/ d[k] = [c[k] EXCEPT !.to = To(c[k])]
    <3> HIDE DEF d, n, To
    <3> QED
      BY <1>2
  <2> HIDE DEF d, n, To
  <2> QED
    BY <2>1, <2>2, <2>3, Retargeted
<1>4. d \in [1..n -> Instructions]
  <2> HIDE DEF d, n, To
  <2> QED
    BY <1>2, <1>3
<1>5. d \in Seq(Instructions) /\ Len(d) = n
  <2> HIDE DEF d, n
  <2> QED
    BY <1>1, <1>4
<1> QED
  BY <1>5

LEMMA InsertType ==
  ASSUME NEW c \in Seq(Instructions), NEW at \in 1..(Len(c) + 1), NEW i \in Instructions
  PROVE  InsertAt(c, at, i) \in Seq(Instructions) /\ Len(InsertAt(c, at, i)) = Len(c) + 1
<1>1. /\ SubSeq(c, 1, at - 1) \in Seq(Instructions) /\ Len(SubSeq(c, 1, at - 1)) = at - 1
      /\ SubSeq(c, at, Len(c)) \in Seq(Instructions) /\ Len(SubSeq(c, at, Len(c))) = Len(c) - at + 1
  OBVIOUS
<1>2. <<i>> \in Seq(Instructions) /\ Len(<<i>>) = 1
  OBVIOUS
<1>3. /\ SubSeq(c, 1, at - 1) \o <<i>> \in Seq(Instructions)
      /\ Len(SubSeq(c, 1, at - 1) \o <<i>>) = at
  BY <1>1, <1>2
<1> DEFINE head == SubSeq(c, 1, at - 1) \o <<i>>
           tail == SubSeq(c, at, Len(c))
<1>4. Len(c) \in Nat /\ at \in Int
  OBVIOUS
<1>5. head \o tail \in Seq(Instructions) /\ Len(head \o tail) = Len(c) + 1
  <2>1. /\ head \in Seq(Instructions) /\ Len(head) = at
        /\ tail \in Seq(Instructions) /\ Len(tail) = Len(c) - at + 1
    BY <1>1, <1>3
  <2> HIDE DEF head, tail
  <2> QED
    BY <1>4, <2>1
<1>6. InsertAt(c, at, i) = head \o tail
  BY DEF InsertAt
<1> HIDE DEF head, tail
<1> QED
  BY <1>5, <1>6

LEMMA ReplaceType ==
  ASSUME NEW c \in Seq(Instructions), NEW at \in DOMAIN c, NEW i \in Instructions
  PROVE  /\ ReplaceAt(c, at, i) \in Seq(Instructions)
         /\ Len(ReplaceAt(c, at, i)) = Len(c)
         /\ \A k \in DOMAIN c : ReplaceAt(c, at, i)[k] = IF k = at THEN i ELSE c[k]
<1> HIDE DEF Instructions
<1> QED
  BY DEF ReplaceAt

LEMMA KeptType ==
  ASSUME NEW c \in Seq(Instructions), NEW first \in 1..Len(c), NEW last \in first..Len(c)
  PROVE  SubSeq(c, 1, first - 1) \o SubSeq(c, last + 1, Len(c)) \in Seq(Instructions)
<1>1. SubSeq(c, 1, first - 1) \in Seq(Instructions) /\ SubSeq(c, last + 1, Len(c)) \in Seq(Instructions)
  OBVIOUS
<1> QED
  BY <1>1

(* A clause moves region by region.                                          *)
LEMMA EachType ==
  ASSUME NEW clauses \in Seq(Clauses), NEW new, DOMAIN new = DOMAIN clauses,
         \E g : new = [c \in DOMAIN clauses |-> g[c]],
         \A c \in DOMAIN clauses : new[c] \in Clauses
  PROVE  new \in Seq(Clauses)
<1>1. new \in [1..Len(clauses) -> Clauses]
  <2> HIDE DEF Clauses
  <2> QED
    OBVIOUS
<1> QED
  BY <1>1

LEMMA ShiftEhInsertType ==
  ASSUME NEW clauses \in Seq(Clauses), NEW pos \in Int, NEW delta \in Int
  PROVE  ShiftEhInsert(clauses, pos, delta) \in Seq(Clauses)
<1> DEFINE Start(off) == IF off >= pos THEN off + delta ELSE off
           Region(r)  == [off |-> Start(r.off),
                          len |-> IF r.off < pos /\ pos < r.off + r.len
                                    THEN r.len + delta ELSE r.len]
           new == ShiftEhInsert(clauses, pos, delta)
<1>1. new = [c \in DOMAIN clauses |->
               [try     |-> Region(clauses[c].try),
                handler |-> Region(clauses[c].handler),
                filter  |-> IF clauses[c].filter = None THEN None ELSE Start(clauses[c].filter)]]
  BY DEF ShiftEhInsert, EachClause
<1>2. \A t \in Int : Start(t) \in Int
  OBVIOUS
<1> HIDE DEF Start
<1>4. \A r \in Regions : Region(r) \in Regions
  BY <1>2 DEF Regions
<1> HIDE DEF Region, new
<1>5. \A c \in DOMAIN clauses : new[c] \in Clauses
  <2> TAKE c \in DOMAIN clauses
  <2>1. clauses[c] \in Clauses
    OBVIOUS
  <2>2. /\ clauses[c].try \in Regions /\ clauses[c].handler \in Regions
        /\ clauses[c].filter \in Int \cup {None}
    BY <2>1 DEF Clauses
  <2> QED
    BY <1>1, <1>2, <1>4, <2>2 DEF Clauses
<1>6. DOMAIN new = DOMAIN clauses /\ new = [c \in DOMAIN clauses |-> new[c]]
  BY <1>1
<1>7. new \in Seq(Clauses)
  BY <1>5, <1>6, EachType
<1> QED
  BY <1>7 DEF new

LEMMA ShiftEhReplaceType ==
  ASSUME NEW clauses \in Seq(Clauses), NEW pos \in Int, NEW delta \in Int
  PROVE  ShiftEhReplace(clauses, pos, delta) \in Seq(Clauses)
<1> DEFINE Start(off) == IF off > pos THEN off + delta ELSE off
           Region(r)  == [off |-> Start(r.off),
                          len |-> IF Start(r.off) <= pos /\ pos < Start(r.off) + r.len
                                    THEN r.len + delta ELSE r.len]
           new == ShiftEhReplace(clauses, pos, delta)
<1>1. new = [c \in DOMAIN clauses |->
               [try     |-> Region(clauses[c].try),
                handler |-> Region(clauses[c].handler),
                filter  |-> IF clauses[c].filter = None THEN None ELSE Start(clauses[c].filter)]]
  BY DEF ShiftEhReplace, EachClause
<1>2. \A t \in Int : Start(t) \in Int
  OBVIOUS
<1> HIDE DEF Start
<1>4. \A r \in Regions : Region(r) \in Regions
  BY <1>2 DEF Regions
<1> HIDE DEF Region, new
<1>5. \A c \in DOMAIN clauses : new[c] \in Clauses
  <2> TAKE c \in DOMAIN clauses
  <2>1. clauses[c] \in Clauses
    OBVIOUS
  <2>2. /\ clauses[c].try \in Regions /\ clauses[c].handler \in Regions
        /\ clauses[c].filter \in Int \cup {None}
    BY <2>1 DEF Clauses
  <2> QED
    BY <1>1, <1>2, <1>4, <2>2 DEF Clauses
<1>6. DOMAIN new = DOMAIN clauses /\ new = [c \in DOMAIN clauses |-> new[c]]
  BY <1>1
<1>7. new \in Seq(Clauses)
  BY <1>5, <1>6, EachType
<1> QED
  BY <1>7 DEF new

LEMMA ShiftEhRemoveType ==
  ASSUME NEW clauses \in Seq(Clauses), NEW pos \in Int, NEW removed \in Int
  PROVE  ShiftEhRemove(clauses, pos, removed) \in Seq(Clauses)
<1> DEFINE Start(off)  == IF off >= pos + removed THEN off - removed
                            ELSE IF off >= pos THEN pos ELSE off
           MoveEnd(x)  == IF x >= pos + removed THEN x - removed
                            ELSE IF x > pos THEN pos ELSE x
           NonNeg(n)   == IF n < 0 THEN 0 ELSE n
           Region(r)   == [off |-> Start(r.off),
                           len |-> NonNeg(MoveEnd(r.off + r.len) - Start(r.off))]
           new == ShiftEhRemove(clauses, pos, removed)
<1>1. new = [c \in DOMAIN clauses |->
               [try     |-> Region(clauses[c].try),
                handler |-> Region(clauses[c].handler),
                filter  |-> IF clauses[c].filter = None THEN None ELSE Start(clauses[c].filter)]]
  BY DEF ShiftEhRemove, EachClause
<1>2. \A t \in Int : Start(t) \in Int
  OBVIOUS
<1>3. \A t \in Int : MoveEnd(t) \in Int /\ NonNeg(t) \in Int
  OBVIOUS
<1> HIDE DEF Start, MoveEnd, NonNeg
<1>4. \A r \in Regions : Region(r) \in Regions
  <2> TAKE r \in Regions
  <2>1. r.off \in Int /\ r.off + r.len \in Int
    BY DEF Regions
  <2>2. Start(r.off) \in Int /\ MoveEnd(r.off + r.len) \in Int
    <3> DEFINE end == r.off + r.len
    <3>1. end \in Int
      BY <2>1
    <3> HIDE DEF end
    <3>2. MoveEnd(end) \in Int
      BY <1>3, <3>1
    <3> QED
      BY <1>2, <2>1, <3>2 DEF end
  <2>3. NonNeg(MoveEnd(r.off + r.len) - Start(r.off)) \in Int
    <3> DEFINE len == MoveEnd(r.off + r.len) - Start(r.off)
    <3>1. len \in Int
      BY <2>2
    <3> HIDE DEF len
    <3>2. NonNeg(len) \in Int
      BY <1>3, <3>1
    <3> QED
      BY <3>2 DEF len
  <2> QED
    BY <2>2, <2>3 DEF Regions
<1> HIDE DEF Region, new
<1>5. \A c \in DOMAIN clauses : new[c] \in Clauses
  <2> TAKE c \in DOMAIN clauses
  <2>1. clauses[c] \in Clauses
    OBVIOUS
  <2>2. /\ clauses[c].try \in Regions /\ clauses[c].handler \in Regions
        /\ clauses[c].filter \in Int \cup {None}
    BY <2>1 DEF Clauses
  <2> QED
    BY <1>1, <1>2, <1>4, <2>2 DEF Clauses
<1>6. DOMAIN new = DOMAIN clauses /\ new = [c \in DOMAIN clauses |-> new[c]]
  BY <1>1
<1>7. new \in Seq(Clauses)
  BY <1>5, <1>6, EachType
<1> QED
  BY <1>7 DEF new

(* Relocation through a layout: anchors map into the new offsets, the rest   *)
(* stays, and every instruction is at its new offset.                        *)
LEMMA RestoreType ==
  ASSUME NEW c \in Seq(Instructions), NEW clauses \in Seq(Clauses),
         NEW old \in Seq(Int), NEW new \in Seq(Nat),
         Len(old) = Len(c) + 1, Len(new) = Len(c) + 1
  PROVE  /\ Restore(old, new, c, clauses).code \in Seq(Instructions)
         /\ Len(Restore(old, new, c, clauses).code) = Len(c)
         /\ \A k \in DOMAIN c : /\ Restore(old, new, c, clauses).code[k].op = c[k].op
                                /\ Restore(old, new, c, clauses).code[k].off = new[k]
         /\ Restore(old, new, c, clauses).eh \in Seq(Clauses)
<1> DEFINE n == Len(c)
           Relocate(t) == IF IndexIn(old, t) = 0 THEN t ELSE new[IndexIn(old, t)]
           Region(r)   == IF IndexIn(old, r.off) = 0 \/ IndexIn(old, r.off + r.len) = 0 THEN r
                            ELSE [off |-> Relocate(r.off),
                                  len |-> Relocate(r.off + r.len) - Relocate(r.off)]
           To(i) == [m \in DOMAIN i.to |-> Relocate(i.to[m])]
           d == Restore(old, new, c, clauses).code
           e == Restore(old, new, c, clauses).eh
<1>1. n \in Nat /\ DOMAIN c = 1..n /\ DOMAIN old = 1..(n + 1) /\ DOMAIN new = 1..(n + 1)
  OBVIOUS
<1>2. \A t \in Int : IndexIn(old, t) = 0 \/ IndexIn(old, t) \in 1..(n + 1)
  <2> TAKE t \in Int
  <2>1. CASE t \in Range(old)
    <3>1. \E k \in DOMAIN old : old[k] = t
      BY <2>1 DEF Range
    <3>2. IndexIn(old, t) \in DOMAIN old
      BY <2>1, <3>1 DEF IndexIn
    <3> QED
      BY <1>1, <3>2
  <2>2. CASE t \notin Range(old)
    BY <2>2 DEF IndexIn
  <2> QED
    BY <2>1, <2>2
<1>3. \A t \in Int : Relocate(t) \in Int
  <2> HIDE DEF n
  <2> TAKE t \in Int
  <2>1. IndexIn(old, t) # 0 => new[IndexIn(old, t)] \in Nat
    BY <1>1, <1>2
  <2> QED
    BY <2>1
<1>4. d = [k \in 1..n |-> [c[k] EXCEPT !.off = new[k], !.to = To(c[k])]]
  BY <1>1 DEF Restore
<1>5. e = [x \in DOMAIN clauses |->
             [try     |-> Region(clauses[x].try),
              handler |-> Region(clauses[x].handler),
              filter  |-> IF clauses[x].filter = None THEN None ELSE Relocate(clauses[x].filter)]]
  BY DEF Restore, EachClause
<1> HIDE DEF n, d, e, Relocate
<1>6. \A k \in 1..n : d[k] \in Instructions /\ d[k].op = c[k].op /\ d[k].off = new[k]
  <2> TAKE k \in 1..n
  <2>1. c[k] \in Instructions /\ c[k].to \in Seq(Int) /\ new[k] \in Nat
    <3>1. c[k] \in Instructions
      BY <1>1
    <3>2. k \in DOMAIN new
      BY <1>1
    <3>3. new[k] \in Nat
      BY <3>2
    <3> QED
      BY <3>1, <3>3, InstructionForm
  <2>2. To(c[k]) \in [DOMAIN c[k].to -> Int]
    <3>1. \A m \in DOMAIN c[k].to : c[k].to[m] \in Int
      BY <2>1
    <3> QED
      BY <1>3, <3>1
  <2> HIDE DEF To
  <2>3. d[k] = [[c[k] EXCEPT !.off = new[k]] EXCEPT !.to = To(c[k])]
    <3>1. c[k] \in [op : Opcodes, off : Nat, to : Seq(Int)]
      BY <2>1, InstructionForm
    <3>2. d[k] = [c[k] EXCEPT !.off = new[k], !.to = To(c[k])]
      BY <1>4
    <3> QED
      BY <3>1, <3>2
  <2> DEFINE i == [c[k] EXCEPT !.off = new[k]]
  <2>4. i \in Instructions /\ i.op = c[k].op /\ i.off = new[k]
    BY <2>1, Moved
  <2>5. DOMAIN i.to = DOMAIN c[k].to
    <3>1. c[k] \in [op : Opcodes, off : Nat, to : Seq(Int)]
      BY <2>1, InstructionForm
    <3> QED
      BY <3>1
  <2> HIDE DEF i
  <2>6. To(c[k]) \in [DOMAIN i.to -> Int]
    BY <2>2, <2>5
  <2>7. d[k] = [i EXCEPT !.to = To(c[k])]
    BY <2>3 DEF i
  <2> QED
    BY <2>4, <2>6, <2>7, Retargeted
<1>7. d \in Seq(Instructions) /\ Len(d) = n
  <2>1. d \in [1..n -> Instructions]
    BY <1>4, <1>6
  <2> QED
    BY <1>1, <2>1
<1>8. \A r \in Regions : Region(r) \in Regions
  <2> TAKE r \in Regions
  <2>1. r.off \in Int /\ r.off + r.len \in Int
    BY DEF Regions
  <2>2. Relocate(r.off) \in Int /\ Relocate(r.off + r.len) - Relocate(r.off) \in Int
    <3> DEFINE end == r.off + r.len
    <3>1. end \in Int
      BY <2>1
    <3> HIDE DEF end
    <3>2. Relocate(end) \in Int /\ Relocate(r.off) \in Int
      BY <1>3, <2>1, <3>1
    <3> QED
      BY <3>2 DEF end
  <2> QED
    BY <2>2 DEF Regions
<1> HIDE DEF Region
<1>9. \A x \in DOMAIN clauses : e[x] \in Clauses
  <2> TAKE x \in DOMAIN clauses
  <2>1. clauses[x] \in Clauses
    OBVIOUS
  <2>2. /\ clauses[x].try \in Regions /\ clauses[x].handler \in Regions
        /\ clauses[x].filter \in Int \cup {None}
    BY <2>1 DEF Clauses
  <2> QED
    BY <1>3, <1>5, <1>8, <2>2 DEF Clauses
<1>10. e \in Seq(Clauses)
  <2>1. DOMAIN e = DOMAIN clauses /\ e = [x \in DOMAIN clauses |-> e[x]]
    BY <1>5
  <2> QED
    BY <1>9, <2>1, EachType
<1> QED
  BY <1>1, <1>6, <1>7, <1>10 DEF d, e, n

-------------------------------------------------------------------------------
(* The relocating passes.                                                    *)

LEMMA SnapshotType ==
  ASSUME NEW c \in Seq(Instructions)
  PROVE  Snapshot(c) \in Seq(Nat) /\ Len(Snapshot(c)) = Len(c) + 1
<1> DEFINE n == Len(c)
           offs == [k \in DOMAIN c |-> c[k].off]
<1>1. n \in Nat /\ DOMAIN c = 1..n
  OBVIOUS
<1>2. \A k \in 1..n : c[k].off \in Nat /\ EncodedSize(c[k]) \in Nat
  BY <1>1, EncodedSizes, InstructionForm
<1>3. offs \in Seq(Nat) /\ Len(offs) = n
  BY <1>1, <1>2
<1>4. End(c) \in Nat
  <2>1. CASE c = <<>>
    BY <2>1 DEF End
  <2>2. CASE c # <<>>
    <3>1. n \in 1..n
      BY <2>2
    <3> QED
      BY <2>2, <1>2, <3>1 DEF End
  <2> QED
    BY <2>1, <2>2
<1>5. Snapshot(c) = Append(offs, End(c))
  BY DEF Snapshot
<1> HIDE DEF offs
<1> QED
  BY <1>1, <1>3, <1>4, <1>5

LEMMA RestorePlaces ==
  ASSUME NEW c \in Seq(Instructions), NEW clauses \in Seq(Clauses),
         NEW old \in Seq(Int), Len(old) = Len(c) + 1
  PROVE  /\ Restore(old, NewOffsets(c), c, clauses).code \in Seq(Instructions)
         /\ Len(Restore(old, NewOffsets(c), c, clauses).code) = Len(c)
         /\ Placed(Restore(old, NewOffsets(c), c, clauses).code)
         /\ Restore(old, NewOffsets(c), c, clauses).eh \in Seq(Clauses)
<1> DEFINE d == Restore(old, NewOffsets(c), c, clauses).code
           e == Restore(old, NewOffsets(c), c, clauses).eh
<1>1. NewOffsets(c) \in Seq(Nat) /\ Len(NewOffsets(c)) = Len(c) + 1
  BY OffsetsType
<1>2. /\ d \in Seq(Instructions) /\ Len(d) = Len(c) /\ e \in Seq(Clauses)
      /\ \A k \in DOMAIN c : d[k].op = c[k].op /\ d[k].off = NewOffsets(c)[k]
  BY <1>1, RestoreType, Zenon
<1> HIDE DEF d, e
<1>3. DOMAIN d = DOMAIN c
  BY <1>2
<1>4. SameSizes(c, d)
  <2>1. \A k \in DOMAIN c : EncodedSize(d[k]) = EncodedSize(c[k])
    <3> TAKE k \in DOMAIN c
    <3>1. c[k] \in Instructions /\ d[k] \in Instructions /\ d[k].op = c[k].op
      BY <1>2, <1>3
    <3> QED
      BY <3>1, SizeByOpcode
  <2> QED
    BY <1>2, <2>1 DEF SameSizes
<1>5. NewOffsets(d) = NewOffsets(c)
  BY <1>2, <1>4, SameLayout
<1>6. Placed(d)
  BY <1>2, <1>3, <1>5 DEF Placed
<1> QED
  BY <1>2, <1>6 DEF d, e

(* A body as the passes leave it.                                            *)
Settled(b) == b.code \in Seq(Instructions) /\ Placed(b.code) /\ b.eh \in Seq(Clauses)

LEMMA RenumberedType ==
  ASSUME NEW c \in Seq(Instructions), NEW clauses \in Seq(Clauses)
  PROVE  Settled(Renumbered(c, clauses)) /\ Len(Renumbered(c, clauses).code) = Len(c)
<1>1. CASE Numbered(c)
  <2>1. Snapshot(c) \in Seq(Int) /\ Len(Snapshot(c)) = Len(c) + 1
    BY SnapshotType
  <2>2. Renumbered(c, clauses) = Restore(Snapshot(c), NewOffsets(c), c, clauses)
    BY <1>1 DEF Renumbered
  <2> QED
    BY <2>1, <2>2, RestorePlaces DEF Settled
<1>2. CASE ~Numbered(c)
  <2>1. Renumbered(c, clauses) = [code |-> RecomputeOffsets(c), eh |-> clauses]
    BY <1>2 DEF Renumbered
  <2> QED
    BY <2>1, Relayout DEF Settled
<1> QED
  BY <1>1, <1>2

(* Another opcode with the same operand.                                     *)
LEMMA Recoded ==
  ASSUME NEW i \in Instructions, NEW op \in Opcodes, Operands(op) = Operands(i.op)
  PROVE  [i EXCEPT !.op = op] \in Instructions /\ [i EXCEPT !.op = op].op = op
<1>1. i \in [op : Opcodes, off : Nat, to : Seq(Int)] /\ Len(i.to) = Operands(i.op)
  BY InstructionForm
<1>2. /\ [i EXCEPT !.op = op] \in [op : Opcodes, off : Nat, to : Seq(Int)]
      /\ [i EXCEPT !.op = op].op = op
      /\ [i EXCEPT !.op = op].to = i.to
  BY <1>1
<1> QED
  BY <1>1, <1>2, InstructionForm

LEMMA LongForms ==
  ASSUME NEW op \in Opcodes
  PROVE  LongForm(op) \in Opcodes /\ Operands(LongForm(op)) = Operands(op)
BY DEF LongForm, Opcodes, Operands, Branches

LEMMA SimplifiedType ==
  ASSUME NEW b, Settled(b)
  PROVE  Settled(Simplified(b)) /\ Len(Simplified(b).code) = Len(b.code)
<1> DEFINE n == Len(b.code)
           long == [k \in DOMAIN b.code |-> [b.code[k] EXCEPT !.op = LongForm(b.code[k].op)]]
<1>1. b.code \in Seq(Instructions) /\ b.eh \in Seq(Clauses)
  BY DEF Settled
<1>2. n \in Nat /\ DOMAIN b.code = 1..n
  BY <1>1
<1>3. \A k \in 1..n : [b.code[k] EXCEPT !.op = LongForm(b.code[k].op)] \in Instructions
  <2> TAKE k \in 1..n
  <2>1. b.code[k] \in Instructions
    BY <1>1, <1>2
  <2>2. b.code[k].op \in Opcodes
    BY <2>1, InstructionForm
  <2>3. LongForm(b.code[k].op) \in Opcodes /\ Operands(LongForm(b.code[k].op)) = Operands(b.code[k].op)
    BY <2>2, LongForms
  <2> QED
    BY <2>1, <2>3, Recoded
<1>4. long \in Seq(Instructions) /\ Len(long) = n
  <2>1. long \in [1..n -> Instructions]
    BY <1>2, <1>3
  <2> HIDE DEF long, n
  <2> QED
    BY <1>2, <2>1
<1>5. Snapshot(b.code) \in Seq(Int) /\ Len(Snapshot(b.code)) = Len(long) + 1
  <2>1. Snapshot(b.code) \in Seq(Nat) /\ Len(Snapshot(b.code)) = n + 1
    BY <1>1, SnapshotType
  <2> HIDE DEF long, n
  <2> QED
    BY <1>4, <2>1
<1>6. Simplified(b) = Restore(Snapshot(b.code), NewOffsets(long), long, b.eh)
  BY DEF Simplified
<1> HIDE DEF long
<1> QED
  BY <1>1, <1>4, <1>5, <1>6, RestorePlaces DEF Settled

LEMMA OptimizedInstructions ==
  ASSUME NEW c \in Seq(Instructions)
  PROVE  OptimizeInstructions(c) \in Seq(Instructions) /\ Len(OptimizeInstructions(c)) = Len(c)
<1> DEFINE n == Len(c)
           d == OptimizeInstructions(c)
<1>1. n \in Nat /\ DOMAIN c = 1..n
  OBVIOUS
<1>2. d = [k \in 1..n |-> IF c[k].op = "ldc_i4" THEN [c[k] EXCEPT !.op = "ldc_i4_0"] ELSE c[k]]
  BY <1>1 DEF OptimizeInstructions
<1>3. \A k \in 1..n : d[k] \in Instructions
  <2> HIDE DEF d, n
  <2> TAKE k \in 1..n
  <2>1. c[k] \in Instructions
    BY <1>1
  <2>2. CASE c[k].op = "ldc_i4"
    <3>1. "ldc_i4_0" \in Opcodes /\ Operands("ldc_i4_0") = Operands(c[k].op)
      BY <2>2 DEF Opcodes, Operands, Branches
    <3>2. d[k] = [c[k] EXCEPT !.op = "ldc_i4_0"]
      BY <1>2, <2>2
    <3> QED
      BY <2>1, <3>1, <3>2, Recoded
  <2>3. CASE c[k].op # "ldc_i4"
    BY <1>2, <2>1, <2>3
  <2> QED
    BY <2>2, <2>3
<1>4. d \in Seq(Instructions) /\ Len(d) = n
  <2> HIDE DEF d, n
  <2>1. d \in [1..n -> Instructions]
    BY <1>2, <1>3
  <2> QED
    BY <1>1, <2>1
<1> QED
  BY <1>4

(* The pass over the branches visits every instruction.                      *)
ShortenStep(c, old, k, before) ==
  LET target == IF c[k].op = "br" THEN IndexIn(old, c[k].to[1]) ELSE 0
  IN  IF target # 0 /\ FitsShort(Displacement(before.sums, k, target))
        THEN [code |-> [before.code EXCEPT ![k].op = "br_s"], sums |-> Shrink(before.sums, k)]
        ELSE before

ShortenPass(c, old, n, f) ==
  f = [k \in 0..n |-> IF k = 0 THEN [code |-> c, sums |-> InstructionSizes(c)]
                        ELSE ShortenStep(c, old, k, f[k - 1])]

LEMMA ShortenPassExists ==
  ASSUME NEW c, NEW old, NEW n \in Nat
  PROVE  \E f : ShortenPass(c, old, n, f)
<1> DEFINE Bad == {m \in Nat : ~\E f : ShortenPass(c, old, m, f)}
<1> SUFFICES Bad = {}
  OBVIOUS
<1>1. SUFFICES ASSUME Bad # {} PROVE FALSE
  OBVIOUS
<1>2. PICK m \in Bad : \A j \in Bad : m <= j
  <2> HIDE DEF Bad
  <2>1. Bad \in SUBSET Nat
    BY DEF Bad
  <2> QED
    BY <1>1, <2>1, LeastNat
<1>3. m \in Nat /\ ~\E f : ShortenPass(c, old, m, f)
  BY <1>2
<1> DEFINE start == [code |-> c, sums |-> InstructionSizes(c)]
<1>4. m # 0
  <2>1. ShortenPass(c, old, 0, [k \in 0..0 |-> start])
    <3> HIDE DEF start
    <3>1. \A k \in 0..0 : k = 0
      OBVIOUS
    <3> QED
      BY <3>1 DEF ShortenPass, start
  <2> QED
    BY <1>3, <2>1
<1>5. m - 1 \in Nat /\ m - 1 \notin Bad
  <2> HIDE DEF Bad
  <2> QED
    BY <1>2, <1>3, <1>4
<1>6. PICK f : ShortenPass(c, old, m - 1, f)
  BY <1>5
<1> DEFINE g == [k \in 0..m |-> IF k = 0 THEN start ELSE ShortenStep(c, old, k, f[k - 1])]
<1> HIDE DEF Bad, start
<1>7. \A k \in 0..(m - 1) : f[k] = g[k]
  BY <1>3, <1>5, <1>6 DEF ShortenPass, start
<1>8. \A k \in 0..m : k # 0 => k - 1 \in 0..(m - 1)
  BY <1>3
<1>9. g = [k \in 0..m |-> IF k = 0 THEN start ELSE ShortenStep(c, old, k, g[k - 1])]
  <2>1. \A k \in 0..m : k # 0 => f[k - 1] = g[k - 1]
    BY <1>7, <1>8
  <2> QED
    BY <2>1
<1> HIDE DEF g
<1>10. ShortenPass(c, old, m, g)
  BY <1>9 DEF ShortenPass, start
<1> QED
  BY <1>3, <1>10

LEMMA ShortenStepType ==
  ASSUME NEW c \in Seq(Instructions), NEW old, NEW k \in DOMAIN c, NEW before,
         before.code \in Seq(Instructions), Len(before.code) = Len(c),
         \A j \in DOMAIN c : Operands(before.code[j].op) = Operands(c[j].op)
  PROVE  LET after == ShortenStep(c, old, k, before)
         IN  /\ after.code \in Seq(Instructions) /\ Len(after.code) = Len(c)
             /\ \A j \in DOMAIN c : Operands(after.code[j].op) = Operands(c[j].op)
<1> DEFINE d == before.code
           short == [d EXCEPT ![k].op = "br_s"]
<1>1. /\ d \in Seq(Instructions) /\ Len(d) = Len(c) /\ k \in DOMAIN d /\ DOMAIN d = DOMAIN c
      /\ Len(c) \in Nat /\ DOMAIN c = 1..Len(c)
  OBVIOUS
<1>2. \/ ShortenStep(c, old, k, before) = before
      \/ c[k].op = "br" /\ ShortenStep(c, old, k, before).code = short
  BY DEF ShortenStep
<1>3. ASSUME c[k].op = "br"
      PROVE  /\ short \in Seq(Instructions) /\ Len(short) = Len(c)
             /\ \A j \in DOMAIN c : Operands(short[j].op) = Operands(c[j].op)
  <2>1. d[k] \in Instructions
    BY <1>1
  <2>2. "br_s" \in Opcodes /\ Operands("br_s") = 1 /\ Operands(c[k].op) = 1
    BY <1>3 DEF Opcodes, Operands, Branches
  <2>3. Operands(d[k].op) = 1
    BY <2>2
  <2> DEFINE i == [d[k] EXCEPT !.op = "br_s"]
  <2>4. i \in Instructions /\ i.op = "br_s"
    BY <2>1, <2>2, <2>3, Recoded
  <2>5. short = [d EXCEPT ![k] = i]
    OBVIOUS
  <2> HIDE DEF i, short, d
  <2>6. short \in Seq(Instructions) /\ Len(short) = Len(c)
    BY <1>1, <2>4, <2>5
  <2>7. \A j \in DOMAIN c : short[j] = IF j = k THEN i ELSE d[j]
    BY <1>1, <2>5
  <2>8. \A j \in DOMAIN c : Operands(d[j].op) = Operands(c[j].op)
    BY DEF d
  <2>9. \A j \in DOMAIN c : Operands(short[j].op) = Operands(c[j].op)
    <3> TAKE j \in DOMAIN c
    <3>1. CASE j = k
      BY <2>2, <2>4, <2>7, <3>1
    <3>2. CASE j # k
      BY <2>7, <2>8, <3>2
    <3> QED
      BY <3>1, <3>2
  <2> QED
    BY <2>6, <2>9
<1> HIDE DEF short
<1> QED
  BY <1>1, <1>2, <1>3

LEMMA OptimizedBranches ==
  ASSUME NEW c \in Seq(Instructions), NEW old
  PROVE  OptimizeBranches(c, old) \in Seq(Instructions) /\ Len(OptimizeBranches(c, old)) = Len(c)
<1> DEFINE n == Len(c)
           pass == CHOOSE f : ShortenPass(c, old, n, f)
<1>1. n \in Nat /\ DOMAIN c = 1..n
  OBVIOUS
<1>2. OptimizeBranches(c, old) = pass[n].code
  BY DEF OptimizeBranches, ShortenPass, ShortenStep
<1>3. ShortenPass(c, old, n, pass)
  BY <1>1, ShortenPassExists
<1> HIDE DEF pass, n
<1> DEFINE Good(k) == /\ pass[k].code \in Seq(Instructions) /\ Len(pass[k].code) = n
                      /\ \A j \in DOMAIN c : Operands(pass[k].code[j].op) = Operands(c[j].op)
           Bad == {k \in 0..n : ~Good(k)}
<1>4. Good(0)
  <2>1. pass[0].code = c
    BY <1>1, <1>3 DEF ShortenPass
  <2> QED
    BY <2>1 DEF n
<1>5. ASSUME NEW k \in 1..n, Good(k - 1) PROVE Good(k)
  <2>1. pass[k] = ShortenStep(c, old, k, pass[k - 1])
    BY <1>1, <1>3 DEF ShortenPass
  <2>2. k \in DOMAIN c
    BY <1>1
  <2>3. LET after == ShortenStep(c, old, k, pass[k - 1])
        IN  /\ after.code \in Seq(Instructions) /\ Len(after.code) = Len(c)
            /\ \A j \in DOMAIN c : Operands(after.code[j].op) = Operands(c[j].op)
    BY <1>5, <2>2, ShortenStepType DEF n
  <2> QED
    BY <2>1, <2>3 DEF n
<1> HIDE DEF Good
<1>6. Bad = {}
  <2>1. SUFFICES ASSUME Bad # {} PROVE FALSE
    OBVIOUS
  <2>2. PICK k \in Bad : \A j \in Bad : k <= j
    <3>1. Bad \in SUBSET Nat
      BY <1>1
    <3> HIDE DEF Bad
    <3> QED
      BY <2>1, <3>1, LeastNat
  <2>3. k \in 0..n /\ ~Good(k)
    BY <2>2
  <2>4. k \in 1..n
    BY <1>1, <1>4, <2>3
  <2>5. k - 1 \in 0..n /\ k - 1 \notin Bad
    <3> HIDE DEF Bad
    <3> QED
      BY <1>1, <2>2, <2>4
  <2>6. Good(k - 1)
    BY <2>5
  <2> QED
    BY <1>5, <2>3, <2>4, <2>6
<1>7. Good(n)
  <2>1. n \in 0..n
    BY <1>1
  <2> QED
    BY <1>6, <2>1
<1> QED
  BY <1>2, <1>7 DEF Good, n

LEMMA OptimizedType ==
  ASSUME NEW b, Settled(b)
  PROVE  Settled(Optimized(b)) /\ Len(Optimized(b).code) = Len(b.code)
<1> DEFINE old == Snapshot(b.code)
           short == OptimizeBranches(OptimizeInstructions(b.code), old)
<1>1. b.code \in Seq(Instructions) /\ b.eh \in Seq(Clauses)
  BY DEF Settled
<1>2. short \in Seq(Instructions) /\ Len(short) = Len(b.code)
  BY <1>1, OptimizedInstructions, OptimizedBranches
<1>3. old \in Seq(Int) /\ Len(old) = Len(short) + 1
  BY <1>1, <1>2, SnapshotType
<1>4. Optimized(b) = Restore(old, NewOffsets(short), short, b.eh)
  BY DEF Optimized
<1> HIDE DEF old, short
<1> QED
  BY <1>1, <1>2, <1>3, <1>4, RestorePlaces DEF Settled

(* Narrowing one load adds an instruction after it and keeps the others.      *)
LEMMA InsertedAt ==
  ASSUME NEW c \in Seq(Instructions), NEW at \in 1..(Len(c) + 1), NEW i \in Instructions
  PROVE  \A j \in at..Len(c) : InsertAt(c, at, i)[j + 1] = c[j]
<1> DEFINE head == SubSeq(c, 1, at - 1)
           tail == SubSeq(c, at, Len(c))
<1>1. /\ head \in Seq(Instructions) /\ Len(head) = at - 1
      /\ tail \in Seq(Instructions) /\ Len(tail) = Len(c) - at + 1
      /\ \A j \in 1..Len(tail) : tail[j] = c[j + at - 1]
  OBVIOUS
<1>2. Len(c) \in Nat /\ at \in Int
  OBVIOUS
<1>3. InsertAt(c, at, i) = (head \o <<i>>) \o tail
  BY DEF InsertAt
<1> HIDE DEF head, tail
<1> DEFINE front == head \o <<i>>
<1>4. front \in Seq(Instructions) /\ Len(front) = at
  BY <1>1, <1>2
<1> HIDE DEF front
<1>5. \A j \in at..Len(c) : (front \o tail)[j + 1] = c[j]
  <2> TAKE j \in at..Len(c)
  <2>1. (front \o tail)[j + 1] = tail[j + 1 - at]
    BY <1>1, <1>2, <1>4
  <2>2. j + 1 - at \in 1..Len(tail)
    BY <1>1, <1>2
  <2>3. tail[j + 1 - at] = c[(j + 1 - at) + at - 1]
    BY <1>1, <2>2
  <2> QED
    BY <1>2, <2>1, <2>3
<1> QED
  BY <1>3, <1>5 DEF front

LEMMA RelayoutOpcodes ==
  ASSUME NEW c \in Seq(Instructions)
  PROVE  \A k \in DOMAIN c : RecomputeOffsets(c)[k].op = c[k].op
<1> TAKE k \in DOMAIN c
<1>1. NewOffsets(c)[k] \in Nat
  BY OffsetsType
<1>2. RecomputeOffsets(c)[k] = [c[k] EXCEPT !.off = NewOffsets(c)[k]]
  BY DEF RecomputeOffsets
<1>3. c[k] \in Instructions
  OBVIOUS
<1> QED
  BY <1>1, <1>2, <1>3, Moved

LEMMA ShiftTargetsOpcodes ==
  ASSUME NEW c \in Seq(Instructions), NEW from \in Int, NEW delta \in Int, NEW skip
  PROVE  \A k \in DOMAIN c : ShiftTargets(c, from, delta, skip)[k].op = c[k].op
<1> TAKE k \in DOMAIN c
<1> DEFINE To == [m \in DOMAIN c[k].to |-> IF c[k].to[m] >= from THEN c[k].to[m] + delta
                                             ELSE c[k].to[m]]
<1>1. c[k] \in [op : Opcodes, off : Nat, to : Seq(Int)]
  <2>1. c[k] \in Instructions
    OBVIOUS
  <2> QED
    BY <2>1, InstructionForm
<1>2. ShiftTargets(c, from, delta, skip)[k] \in {c[k], [c[k] EXCEPT !.to = To]}
  BY DEF ShiftTargets
<1> HIDE DEF To
<1> QED
  BY <1>1, <1>2

LEMMA NarrowType ==
  ASSUME NEW b, b.code \in Seq(Instructions), b.eh \in Seq(Clauses),
         NEW at \in DOMAIN b.code, b.code[at].op = "ldc_i8"
  PROVE  LET after == NarrowAt(b, at)
         IN  /\ after.code \in Seq(Instructions) /\ after.eh \in Seq(Clauses)
             /\ Len(after.code) = Len(b.code) + 1
             /\ \A j \in (at + 1)..Len(b.code) : after.code[j + 1].op = b.code[j].op
<1> DEFINE n     == Len(b.code)
           off   == b.code[at].off
           wide  == [b.code[at] EXCEPT !.op = "ldc_i4"]
           load  == ReplaceAt(b.code, at, wide)
           moved == ShiftTargets(load, off + 9, -3, at)
           conv  == [op |-> "conv_i8", off |-> 0, to |-> <<>>]
           more  == InsertAt(moved, at + 1, conv)
<1>1. n \in Nat /\ DOMAIN b.code = 1..n /\ at \in 1..n /\ b.code[at] \in Instructions
  OBVIOUS
<1>2. off \in Nat
  BY <1>1, InstructionForm
<1>3. wide \in Instructions
  <2>1. "ldc_i4" \in Opcodes /\ Operands("ldc_i4") = Operands(b.code[at].op)
    BY DEF Opcodes, Operands, Branches
  <2> QED
    BY <1>1, <2>1, Recoded
<1>4. conv \in Instructions
  <2>1. conv \in [op : Opcodes, off : Nat, to : Seq(Int)] /\ Len(conv.to) = Operands(conv.op)
    BY DEF Opcodes, Operands, Branches
  <2> QED
    BY <2>1, InstructionForm
<1>5. NarrowAt(b, at) = [code |-> RecomputeOffsets(more), eh |-> ShiftEhReplace(b.eh, off, -3)]
  BY DEF NarrowAt
<1> HIDE DEF wide, conv, off
<1>6. /\ load \in Seq(Instructions) /\ Len(load) = n
      /\ \A j \in (at + 1)..n : load[j].op = b.code[j].op
  <2> DEFINE c == b.code
  <2>0. c \in Seq(Instructions) /\ at \in DOMAIN c
    OBVIOUS
  <2> HIDE DEF c
  <2>3. /\ ReplaceAt(c, at, wide) \in Seq(Instructions)
        /\ Len(ReplaceAt(c, at, wide)) = Len(c)
        /\ \A k \in DOMAIN c : ReplaceAt(c, at, wide)[k] = IF k = at THEN wide ELSE c[k]
    BY <1>3, <2>0, ReplaceType
  <2>1. \A k \in 1..n : load[k] = IF k = at THEN wide ELSE b.code[k]
    BY <1>1, <2>3 DEF c
  <2>2. load \in Seq(Instructions) /\ Len(load) = n
    BY <2>3 DEF c
  <2> HIDE DEF load, n
  <2> QED
    BY <1>1, <2>1, <2>2
<1> HIDE DEF load
<1>7. /\ moved \in Seq(Instructions) /\ Len(moved) = n
      /\ \A j \in (at + 1)..n : moved[j].op = b.code[j].op
  <2>1. off + 9 \in Int /\ -3 \in Int
    BY <1>2
  <2>2. moved \in Seq(Instructions) /\ Len(moved) = n
    BY <1>6, <2>1, ShiftTargetsType
  <2>3. \A k \in DOMAIN load : moved[k].op = load[k].op
    BY <1>6, <2>1, ShiftTargetsOpcodes
  <2>4. DOMAIN load = 1..n
    BY <1>6
  <2> HIDE DEF moved, n
  <2> QED
    BY <1>1, <1>6, <2>2, <2>3, <2>4
<1> HIDE DEF moved
<1>8. /\ more \in Seq(Instructions) /\ Len(more) = n + 1
      /\ \A j \in (at + 1)..n : more[j + 1].op = b.code[j].op
  <2>1. at + 1 \in 1..(Len(moved) + 1)
    BY <1>1, <1>7
  <2>2. more \in Seq(Instructions) /\ Len(more) = n + 1
    BY <1>4, <1>7, <2>1, InsertType
  <2>3. \A j \in (at + 1)..Len(moved) : more[j + 1] = moved[j]
    BY <1>4, <1>7, <2>1, InsertedAt
  <2> HIDE DEF more, n
  <2> QED
    BY <1>7, <2>2, <2>3
<1> HIDE DEF more
<1>9. /\ RecomputeOffsets(more) \in Seq(Instructions) /\ Len(RecomputeOffsets(more)) = n + 1
      /\ \A j \in (at + 1)..n : RecomputeOffsets(more)[j + 1].op = b.code[j].op
  <2>1. \A k \in DOMAIN more : RecomputeOffsets(more)[k].op = more[k].op
    BY <1>8, RelayoutOpcodes
  <2>2. \A j \in (at + 1)..n : j + 1 \in DOMAIN more
    BY <1>1, <1>8
  <2>3. RecomputeOffsets(more) \in Seq(Instructions) /\ Len(RecomputeOffsets(more)) = n + 1
    BY <1>8, Relayout
  <2> QED
    BY <1>8, <2>1, <2>2, <2>3
<1>10. ShiftEhReplace(b.eh, off, -3) \in Seq(Clauses)
  BY <1>2, ShiftEhReplaceType
<1> QED
  BY <1>5, <1>9, <1>10

(* The pass over the loads.                                                  *)
NarrowStep(body, k, before) ==
  IF body.code[k].op = "ldc_i8"
    THEN [body |-> NarrowAt(before.body, before.at), at |-> before.at + 2]
    ELSE [before EXCEPT !.at = before.at + 1]

NarrowPass(body, n, f) ==
  f = [k \in 0..n |-> IF k = 0 THEN [body |-> body, at |-> 1] ELSE NarrowStep(body, k, f[k - 1])]

LEMMA NarrowPassExists ==
  ASSUME NEW body, NEW n \in Nat
  PROVE  \E f : NarrowPass(body, n, f)
<1> DEFINE Bad == {m \in Nat : ~\E f : NarrowPass(body, m, f)}
<1> SUFFICES Bad = {}
  OBVIOUS
<1>1. SUFFICES ASSUME Bad # {} PROVE FALSE
  OBVIOUS
<1>2. PICK m \in Bad : \A j \in Bad : m <= j
  <2> HIDE DEF Bad
  <2>1. Bad \in SUBSET Nat
    BY DEF Bad
  <2> QED
    BY <1>1, <2>1, LeastNat
<1>3. m \in Nat /\ ~\E f : NarrowPass(body, m, f)
  BY <1>2
<1> DEFINE start == [body |-> body, at |-> 1]
<1>4. m # 0
  <2>1. NarrowPass(body, 0, [k \in 0..0 |-> start])
    <3> HIDE DEF start
    <3>1. \A k \in 0..0 : k = 0
      OBVIOUS
    <3> QED
      BY <3>1 DEF NarrowPass, start
  <2> QED
    BY <1>3, <2>1
<1>5. m - 1 \in Nat /\ m - 1 \notin Bad
  <2> HIDE DEF Bad
  <2> QED
    BY <1>2, <1>3, <1>4
<1>6. PICK f : NarrowPass(body, m - 1, f)
  BY <1>5
<1> DEFINE g == [k \in 0..m |-> IF k = 0 THEN start ELSE NarrowStep(body, k, f[k - 1])]
<1> HIDE DEF Bad, start
<1>7. \A k \in 0..(m - 1) : f[k] = g[k]
  BY <1>3, <1>5, <1>6 DEF NarrowPass, start
<1>8. \A k \in 0..m : k # 0 => k - 1 \in 0..(m - 1)
  BY <1>3
<1>9. g = [k \in 0..m |-> IF k = 0 THEN start ELSE NarrowStep(body, k, g[k - 1])]
  <2>1. \A k \in 0..m : k # 0 => f[k - 1] = g[k - 1]
    BY <1>7, <1>8
  <2> QED
    BY <2>1
<1> HIDE DEF g
<1>10. NarrowPass(body, m, g)
  BY <1>9 DEF NarrowPass, start
<1> QED
  BY <1>3, <1>10

(* After k loads the pass is at the instruction that was the k-th + 1, and   *)
(* what follows it is as it was.                                             *)
Narrowed(body, k, now) ==
  /\ now.at \in Nat /\ now.at >= k + 1
  /\ now.body.code \in Seq(Instructions) /\ now.body.eh \in Seq(Clauses)
  /\ Len(now.body.code) = Len(body.code) + (now.at - k - 1)
  /\ \A j \in (k + 1)..Len(body.code) : now.body.code[j + (now.at - k - 1)].op = body.code[j].op

(* Where the next load is, and where what follows it is after the step.      *)
NarrowPlaces(n, k, at) ==
  /\ at \in 1..(n + (at - k)) /\ k \in k..n /\ k + (at - k) = at
  /\ at + 2 \in Nat /\ at + 2 >= k + 1
  /\ (n + (at - k)) + 1 = n + ((at + 2) - k - 1)
  /\ at + 1 \in Nat /\ at + 1 >= k + 1
  /\ n + (at - k) = n + ((at + 1) - k - 1)
  /\ \A j \in (k + 1)..n : /\ j \in k..n /\ j + (at - k) \in (at + 1)..(n + (at - k))
                          /\ j + (at - k) + 1 = j + ((at + 2) - k - 1)
                          /\ j + (at - k) = j + ((at + 1) - k - 1)

LEMMA NarrowCounts ==
  ASSUME NEW n \in Nat, NEW k \in 1..n, NEW at \in Nat, at >= k
  PROVE  NarrowPlaces(n, k, at)
BY DEF NarrowPlaces

LEMMA NarrowStepType ==
  ASSUME NEW body, body.code \in Seq(Instructions), NEW k \in DOMAIN body.code,
         NEW at, NEW b, Narrowed(body, k - 1, [body |-> b, at |-> at])
  PROVE  Narrowed(body, k, NarrowStep(body, k, [body |-> b, at |-> at]))
<1> DEFINE x == body.code
           n == Len(x)
           c == b.code
<1>1. n \in Nat /\ k \in 1..n
  OBVIOUS
<1>2. /\ at \in Nat /\ at >= (k - 1) + 1 /\ c \in Seq(Instructions) /\ b.eh \in Seq(Clauses)
      /\ Len(c) = n + (at - (k - 1) - 1)
      /\ \A j \in ((k - 1) + 1)..n : c[j + (at - (k - 1) - 1)].op = x[j].op
  BY DEF Narrowed
<1> HIDE DEF n, c, x
<1>3. at >= k /\ at - (k - 1) - 1 = at - k /\ (k - 1) + 1 = k
  BY <1>1, <1>2
<1>4. Len(c) = n + (at - k) /\ \A j \in k..n : c[j + (at - k)].op = x[j].op
  BY <1>2, <1>3
<1>5. DOMAIN c = 1..(n + (at - k))
  BY <1>2, <1>4
<1>6. NarrowPlaces(n, k, at)
  BY <1>1, <1>2, <1>3, NarrowCounts, Zenon
<1>7. at \in DOMAIN c /\ c[at].op = x[k].op
  BY <1>4, <1>5, <1>6, Zenon DEF NarrowPlaces
<1>8. CASE x[k].op = "ldc_i8"
  <2> DEFINE after == NarrowAt(b, at)
             d == after.code
  <2>1. /\ d \in Seq(Instructions) /\ after.eh \in Seq(Clauses)
        /\ Len(d) = Len(c) + 1
        /\ \A j \in (at + 1)..Len(c) : d[j + 1].op = c[j].op
    <3>1. /\ b.code \in Seq(Instructions) /\ b.eh \in Seq(Clauses)
          /\ at \in DOMAIN b.code /\ b.code[at].op = "ldc_i8"
      BY <1>2, <1>7, <1>8, Zenon DEF c
    <3>2. /\ after.code \in Seq(Instructions) /\ after.eh \in Seq(Clauses)
          /\ Len(after.code) = Len(b.code) + 1
          /\ \A j \in (at + 1)..Len(b.code) : after.code[j + 1].op = b.code[j].op
      BY <3>1, NarrowType, Zenon
    <3> QED
      BY <3>2, Zenon DEF c
  <2>2. NarrowStep(body, k, [body |-> b, at |-> at]) = [body |-> after, at |-> at + 2]
    BY <1>8 DEF NarrowStep, x
  <2> HIDE DEF after, d
  <2>3. Len(d) = n + ((at + 2) - k - 1)
    BY <1>4, <1>6, <2>1, Zenon DEF NarrowPlaces
  <2>4. ASSUME NEW j \in (k + 1)..n PROVE d[j + ((at + 2) - k - 1)].op = x[j].op
    <3>1. /\ j \in k..n /\ j + (at - k) \in (at + 1)..(n + (at - k))
          /\ j + (at - k) + 1 = j + ((at + 2) - k - 1)
      BY <1>6, Zenon DEF NarrowPlaces
    <3>2. d[j + (at - k) + 1].op = c[j + (at - k)].op
      BY <1>4, <2>1, <3>1, Zenon
    <3> QED
      BY <1>4, <3>1, <3>2, Zenon
  <2>5. Narrowed(body, k, [body |-> after, at |-> at + 2])
    <3>1. /\ at + 2 \in Nat /\ at + 2 >= k + 1
          /\ after.code \in Seq(Instructions) /\ after.eh \in Seq(Clauses)
          /\ Len(after.code) = Len(body.code) + ((at + 2) - k - 1)
          /\ \A j \in (k + 1)..Len(body.code) : after.code[j + ((at + 2) - k - 1)].op = body.code[j].op
      BY <1>6, <2>1, <2>3, <2>4, Zenon DEF NarrowPlaces, d, n, x
    <3> QED
      BY <3>1 DEF Narrowed
  <2> QED
    BY <2>2, <2>5, Zenon
<1>9. CASE x[k].op # "ldc_i8"
  <2>1. NarrowStep(body, k, [body |-> b, at |-> at]) = [body |-> b, at |-> at + 1]
    BY <1>9 DEF NarrowStep, x
  <2>2. Len(c) = n + ((at + 1) - k - 1)
    BY <1>4, <1>6, Zenon DEF NarrowPlaces
  <2>3. ASSUME NEW j \in (k + 1)..n PROVE c[j + ((at + 1) - k - 1)].op = x[j].op
    BY <1>4, <1>6, Zenon DEF NarrowPlaces
  <2>4. Narrowed(body, k, [body |-> b, at |-> at + 1])
    <3>1. /\ at + 1 \in Nat /\ at + 1 >= k + 1
          /\ b.code \in Seq(Instructions) /\ b.eh \in Seq(Clauses)
          /\ Len(b.code) = Len(body.code) + ((at + 1) - k - 1)
          /\ \A j \in (k + 1)..Len(body.code) : b.code[j + ((at + 1) - k - 1)].op = body.code[j].op
      BY <1>2, <1>6, <2>2, <2>3, Zenon DEF NarrowPlaces, c, n, x
    <3> QED
      BY <3>1 DEF Narrowed
  <2> QED
    BY <2>1, <2>4, Zenon
<1> QED
  BY <1>8, <1>9

LEMMA LongsOptimizedType ==
  ASSUME NEW body, body.code \in Seq(Instructions), body.eh \in Seq(Clauses)
  PROVE  LongsOptimized(body).code \in Seq(Instructions) /\ LongsOptimized(body).eh \in Seq(Clauses)
<1> DEFINE n == Len(body.code)
           pass == CHOOSE f : NarrowPass(body, n, f)
<1>1. n \in Nat /\ DOMAIN body.code = 1..n
  OBVIOUS
<1>2. LongsOptimized(body) = pass[n].body
  BY DEF LongsOptimized, NarrowPass, NarrowStep
<1>3. NarrowPass(body, n, pass)
  BY <1>1, NarrowPassExists
<1> HIDE DEF pass, n
<1> DEFINE Good(k) == \E b, at : pass[k] = [body |-> b, at |-> at] /\ Narrowed(body, k, [body |-> b, at |-> at])
           Bad == {k \in 0..n : ~Good(k)}
<1>4. Good(0)
  <2>1. pass[0] = [body |-> body, at |-> 1]
    BY <1>1, <1>3 DEF NarrowPass
  <2>2. \A j \in 1..n : j + 0 = j
    BY <1>1
  <2>3. n + 0 = n /\ 0 + 1 = 1 /\ 1 - 0 - 1 = 0
    BY <1>1
  <2>4. Narrowed(body, 0, [body |-> body, at |-> 1])
    BY <1>1, <2>2, <2>3 DEF Narrowed, n
  <2> QED
    BY <2>1, <2>4
<1>5. ASSUME NEW k \in 1..n, Good(k - 1) PROVE Good(k)
  <2>1. k \in DOMAIN body.code /\ k \in 0..n /\ k # 0
    BY <1>1
  <2>2. pass[k] = NarrowStep(body, k, pass[k - 1])
    BY <1>3, <2>1 DEF NarrowPass
  <2>3. PICK b, at : pass[k - 1] = [body |-> b, at |-> at]
                     /\ Narrowed(body, k - 1, [body |-> b, at |-> at])
    BY <1>5
  <2>4. Narrowed(body, k, pass[k])
    <3>1. Narrowed(body, k, NarrowStep(body, k, [body |-> b, at |-> at]))
      BY <2>1, <2>3, NarrowStepType
    <3> QED
      BY <2>2, <2>3, <3>1
  <2>5. \E b2, at2 : pass[k] = [body |-> b2, at |-> at2]
    <3>1. pass[k] = NarrowStep(body, k, [body |-> b, at |-> at])
      BY <2>2, <2>3
    <3>2. NarrowStep(body, k, [body |-> b, at |-> at])
            \in {[body |-> NarrowAt(b, at), at |-> at + 2], [body |-> b, at |-> at + 1]}
      BY DEF NarrowStep
    <3> QED
      BY <3>1, <3>2
  <2> HIDE DEF Bad
  <2> QED
    BY <2>4, <2>5
<1> HIDE DEF Good
<1>6. Bad = {}
  <2>1. SUFFICES ASSUME Bad # {} PROVE FALSE
    OBVIOUS
  <2>2. PICK k \in Bad : \A j \in Bad : k <= j
    <3>1. Bad \in SUBSET Nat
      BY <1>1
    <3> HIDE DEF Bad
    <3> QED
      BY <2>1, <3>1, LeastNat
  <2>3. k \in 0..n /\ ~Good(k)
    BY <2>2
  <2>4. k \in 1..n
    BY <1>1, <1>4, <2>3
  <2>5. k - 1 \in 0..n /\ k - 1 \notin Bad
    <3> HIDE DEF Bad
    <3> QED
      BY <1>1, <2>2, <2>4
  <2>6. Good(k - 1)
    BY <2>5
  <2> QED
    BY <1>5, <2>3, <2>4, <2>6
<1>7. Good(n)
  <2>1. n \in 0..n
    BY <1>1
  <2> QED
    BY <1>6, <2>1
<1> QED
  BY <1>2, <1>7 DEF Good, Narrowed

-------------------------------------------------------------------------------
(* What callers author.                                                      *)

LEMMA AuthoredType ==
  ASSUME NEW op \in Ops, NEW starts, starts \subseteq Int, NEW i \in Authored(op, starts)
  PROVE  i \in Instructions /\ i.off = 0
<1>1. PICK to \in [DOMAIN Blank(op).to -> starts] : i = Instr(op, to)
  BY DEF Authored
<1>2. DOMAIN Blank(op).to = 1..Operands(op) /\ Operands(op) \in Nat
  <2>1. /\ op \in Branches => Blank(op).to = <<0>> /\ Operands(op) = 1
        /\ op = "switch" => Blank(op).to = <<0, 0>> /\ Operands(op) = 2
        /\ op \notin Branches /\ op # "switch" => Blank(op).to = <<>> /\ Operands(op) = 0
    BY DEF Blank, Instr, Operands, Branches
  <2>2. CASE op \in Branches
    BY <2>1, <2>2
  <2>3. CASE op = "switch"
    <3>1. DOMAIN <<0, 0>> = 1..2
      OBVIOUS
    <3>2. Blank(op).to = <<0, 0>> /\ Operands(op) = 2
      BY <2>1, <2>3
    <3> QED
      BY <3>1, <3>2
  <2>4. CASE op \notin Branches /\ op # "switch"
    <3>1. DOMAIN <<>> = 1..0
      OBVIOUS
    <3> QED
      BY <2>1, <2>4, <3>1
  <2> QED
    BY <2>2, <2>3, <2>4
<1>3. to \in Seq(Int) /\ Len(to) = Operands(op)
  <2> DEFINE n == Operands(op)
  <2>1. n \in Nat /\ to \in [1..n -> starts]
    BY <1>1, <1>2
  <2> HIDE DEF n
  <2>2. to \in [1..n -> Int]
    BY <2>1
  <2> QED
    BY <2>1, <2>2 DEF n
<1>4. i = [op |-> op, off |-> 0, to |-> to] /\ op \in Opcodes
  BY <1>1 DEF Instr, Opcodes
<1>5. i \in [op : Opcodes, off : Nat, to : Seq(Int)] /\ Len(i.to) = Operands(i.op)
  BY <1>3, <1>4
<1> QED
  BY <1>4, <1>5, InstructionForm

LEMMA BlankType ==
  ASSUME NEW op \in Ops
  PROVE  Blank(op) \in Instructions
<1>1. Blank(op) \in [op : Opcodes, off : Nat, to : Seq(Int)]
  BY DEF Blank, Instr, Opcodes
<1>2. Blank(op).op = op
  BY DEF Blank, Instr
<1>3. Len(Blank(op).to) = Operands(op)
  BY DEF Blank, Instr, Operands, Branches
<1> QED
  BY <1>1, <1>2, <1>3, InstructionForm

LEMMA StartsType ==
  ASSUME NEW c \in Seq(Instructions)
  PROVE  Starts(c) \subseteq Int
<1>1. NewOffsets(c) \in Seq(Nat) /\ Len(NewOffsets(c)) = Len(c) + 1
  BY OffsetsType
<1>2. \A k \in DOMAIN c : k \in DOMAIN NewOffsets(c)
  BY <1>1
<1>3. \A k \in DOMAIN c : NewOffsets(c)[k] \in Nat
  BY <1>1, <1>2
<1> QED
  BY <1>3 DEF Starts

LEMMA FreshType ==
  ASSUME NEW c \in FreshBodies
  PROVE  c \in Seq(Instructions) /\ ~Numbered(c)
<1>1. PICK op1 \in Ops, op2 \in Ops :
        c \in {<<a, b>> : a \in Authored(op1, Starts(<<Blank(op1), Blank(op2)>>)),
                          b \in Authored(op2, Starts(<<Blank(op1), Blank(op2)>>))}
  BY DEF FreshBodies
<1> DEFINE starts == Starts(<<Blank(op1), Blank(op2)>>)
<1>2. starts \subseteq Int
  <2>1. Blank(op1) \in Instructions /\ Blank(op2) \in Instructions
    BY BlankType
  <2>2. <<Blank(op1), Blank(op2)>> \in Seq(Instructions)
    BY <2>1
  <2> QED
    BY <2>2, StartsType
<1> HIDE DEF starts
<1>3. PICK a \in Authored(op1, starts), b \in Authored(op2, starts) : c = <<a, b>>
  BY <1>1 DEF starts
<1>4. a \in Instructions /\ b \in Instructions /\ a.off = 0 /\ b.off = 0
  BY <1>2, AuthoredType
<1>5. c \in Seq(Instructions) /\ Len(c) = 2 /\ c[1] = a /\ c[2] = b
  BY <1>3, <1>4
<1>6. ~(c[1].off < c[1 + 1].off) /\ 1 \in 1..(Len(c) - 1)
  BY <1>4, <1>5
<1> QED
  BY <1>5, <1>6 DEF Numbered

-------------------------------------------------------------------------------
(* The type invariant is inductive.                                          *)

LEMMA EndType ==
  ASSUME NEW c \in Seq(Instructions)
  PROVE  End(c) \in Nat
<1>1. CASE c = <<>>
  BY <1>1 DEF End
<1>2. CASE c # <<>>
  <2>1. Len(c) \in DOMAIN c /\ c[Len(c)] \in Instructions
    BY <1>2
  <2>2. c[Len(c)].off \in Nat /\ EncodedSize(c[Len(c)]) \in Nat
    BY <2>1, InstructionForm, EncodedSizes
  <2> QED
    BY <1>2, <2>2 DEF End
<1> QED
  BY <1>1, <1>2

(* Settled bodies and bodies under rewriting, in the next state.             *)
LEMMA PlacedNext ==
  ASSUME NEW new \in Seq(Instructions), Placed(new), code' = new,
         eh' \in Seq(Clauses), layout' \in {None} \cup Seq(Nat), rewritten' \subseteq DOMAIN new
  PROVE  TypeOK'
<1>1. Snapshot(new) = NewOffsets(new)
  BY PlacedIsSnapshot
<1>2. Snapshot(code') = NewOffsets(code')
  BY <1>1
<1> QED
  BY <1>2 DEF TypeOK

LEMMA InsertTypes ==
  ASSUME TypeOK, NEW index \in 1..(Len(code) + 2), NEW instr \in Instructions,
         InsertAtIndex(index, instr)
  PROVE  TypeOK'
<1> DEFINE size == EncodedSize(instr)
           pos  == IF index <= Len(code) THEN code[index].off ELSE End(code)
           at   == IF index <= Len(code) THEN index ELSE Len(code) + 1
           put  == ShiftTargets(InsertAt(code, at, instr), pos, size, at)
<1>1. /\ rewritten = {}
      /\ code' = RecomputeOffsets(put)
      /\ eh' = ShiftEhInsert(eh, pos, size)
      /\ UNCHANGED <<layout, rewritten>>
  BY DEF InsertAtIndex, Consistent
<1>2. code \in Seq(Instructions) /\ eh \in Seq(Clauses) /\ layout \in {None} \cup Seq(Nat)
  BY DEF TypeOK
<1>3. at \in 1..(Len(code) + 1)
  BY <1>2
<1>4. size \in Nat /\ pos \in Int
  <2>1. index <= Len(code) => code[index] \in Instructions
    BY <1>2
  <2>2. index <= Len(code) => code[index].off \in Nat
    BY <2>1, InstructionForm
  <2>3. End(code) \in Nat
    BY <1>2, EndType
  <2> QED
    BY <2>2, <2>3, EncodedSizes
<1> HIDE DEF size, pos, at
<1>5. InsertAt(code, at, instr) \in Seq(Instructions)
  BY <1>2, <1>3, InsertType
<1>6. put \in Seq(Instructions)
  BY <1>4, <1>5, ShiftTargetsType
<1> HIDE DEF put
<1>7. RecomputeOffsets(put) \in Seq(Instructions) /\ Placed(RecomputeOffsets(put))
  BY <1>6, Relayout
<1>8. ShiftEhInsert(eh, pos, size) \in Seq(Clauses)
  BY <1>2, <1>4, ShiftEhInsertType
<1>9. eh' \in Seq(Clauses) /\ layout' \in {None} \cup Seq(Nat)
      /\ rewritten' \subseteq DOMAIN RecomputeOffsets(put)
  BY <1>1, <1>2, <1>8
<1> QED
  BY <1>1, <1>7, <1>9, PlacedNext

LEMMA ReplaceTypes ==
  ASSUME TypeOK, NEW index \in DOMAIN code, NEW instr \in Instructions, Replace(index, instr)
  PROVE  TypeOK'
<1> DEFINE pos   == code[index].off
           size  == EncodedSize(code[index])
           delta == EncodedSize(instr) - size
           here  == [instr EXCEPT !.off = pos]
           put   == ReplaceAt(code, index, here)
           moved == ShiftTargets(put, pos + size, delta, index)
<1>1. /\ Consistent
      /\ code' = IF delta = 0 THEN put ELSE RecomputeOffsets(moved)
      /\ eh' = IF delta = 0 THEN eh ELSE ShiftEhReplace(eh, pos, delta)
      /\ UNCHANGED <<layout, rewritten>>
  BY DEF Replace
<1>2. /\ code \in Seq(Instructions) /\ eh \in Seq(Clauses) /\ layout \in {None} \cup Seq(Nat)
      /\ Placed(code) /\ rewritten = {}
  BY <1>1, PlacedIsSnapshot DEF TypeOK, Consistent
<1>3. code[index] \in Instructions /\ pos \in Nat /\ size \in Nat /\ delta \in Int
  <2>1. code[index] \in Instructions
    BY <1>2
  <2>2. pos \in Nat /\ size \in Nat /\ EncodedSize(instr) \in Nat
    BY <2>1, InstructionForm, EncodedSizes
  <2> QED
    BY <2>1, <2>2
<1>4. here \in Instructions /\ here.op = instr.op /\ here.off = pos
  BY <1>3, Moved
<1>5. EncodedSize(here) = EncodedSize(instr)
  BY <1>4, SizeByOpcode
<1> HIDE DEF here, pos
<1>6. /\ put \in Seq(Instructions) /\ Len(put) = Len(code)
      /\ \A k \in DOMAIN code : put[k] = IF k = index THEN here ELSE code[k]
  BY <1>2, <1>4, ReplaceType
<1> HIDE DEF put
<1>7. CASE delta = 0
  <2>1. DOMAIN put = DOMAIN code
    BY <1>2, <1>6
  <2>2. EncodedSize(here) = EncodedSize(code[index])
    <3>1. EncodedSize(instr) \in Nat /\ size \in Nat /\ EncodedSize(instr) - size = 0
      BY <1>3, <1>7, EncodedSizes
    <3> QED
      BY <1>5, <3>1
  <2>3. SameSizes(code, put)
    <3>1. \A k \in DOMAIN code : EncodedSize(put[k]) = EncodedSize(code[k])
      BY <1>6, <2>2
    <3> QED
      BY <1>6, <3>1 DEF SameSizes
  <2>4. NewOffsets(put) = NewOffsets(code)
    BY <1>2, <1>6, <2>3, SameLayout
  <2>5. \A k \in DOMAIN code : put[k].off = code[k].off
    BY <1>4, <1>6 DEF pos
  <2>6. Placed(put)
    BY <1>2, <2>1, <2>4, <2>5 DEF Placed
  <2>7. code' = put /\ eh' \in Seq(Clauses) /\ layout' \in {None} \cup Seq(Nat)
        /\ rewritten' \subseteq DOMAIN put
    BY <1>1, <1>2, <1>7
  <2> QED
    BY <1>6, <2>6, <2>7, PlacedNext
<1>8. CASE delta # 0
  <2>1. pos + size \in Int
    BY <1>3
  <2>2. moved \in Seq(Instructions)
    BY <1>3, <1>6, <2>1, ShiftTargetsType
  <2>3. RecomputeOffsets(moved) \in Seq(Instructions) /\ Placed(RecomputeOffsets(moved))
    BY <2>2, Relayout
  <2>4. ShiftEhReplace(eh, pos, delta) \in Seq(Clauses)
    BY <1>2, <1>3, ShiftEhReplaceType
  <2> HIDE DEF moved, delta
  <2>5. /\ code' = RecomputeOffsets(moved)
        /\ eh' \in Seq(Clauses) /\ layout' \in {None} \cup Seq(Nat)
        /\ rewritten' \subseteq DOMAIN RecomputeOffsets(moved)
    BY <1>1, <1>2, <1>8, <2>4
  <2> QED
    BY <2>3, <2>5, PlacedNext
<1> QED
  BY <1>7, <1>8

LEMMA RemoveTypes ==
  ASSUME TypeOK, NEW first \in DOMAIN code, NEW end \in 1..(Len(code) + 2),
         RemoveRange(first, end)
  PROVE  TypeOK'
<1> DEFINE last    == IF end - 1 > Len(code) THEN Len(code) ELSE end - 1
           pos     == code[first].off
           run     == SubSeq(code, first, last)
           removed == NewOffsets(run)[last - first + 2]
           kept    == SubSeq(code, 1, first - 1) \o SubSeq(code, last + 1, Len(code))
           moved   == ShiftTargets(kept, pos + removed, -removed, 0)
<1>1. /\ rewritten = {}
      /\ first < end /\ first <= Len(code)
      /\ code' = RecomputeOffsets(moved)
      /\ eh' = ShiftEhRemove(eh, pos, removed)
      /\ UNCHANGED <<layout, rewritten>>
  BY DEF RemoveRange, Consistent
<1>2. /\ code \in Seq(Instructions) /\ eh \in Seq(Clauses) /\ layout \in {None} \cup Seq(Nat)
  BY DEF TypeOK
<1>3. first \in 1..Len(code) /\ last \in first..Len(code) /\ Len(code) \in Nat
  BY <1>1, <1>2
<1> HIDE DEF last
<1>4. pos \in Nat
  <2>1. code[first] \in Instructions
    BY <1>2
  <2> QED
    BY <2>1, InstructionForm
<1>5. run \in Seq(Instructions) /\ Len(run) = last - first + 1
  BY <1>2, <1>3
<1> HIDE DEF run, pos
<1>6. removed \in Nat
  <2>1. NewOffsets(run) \in Seq(Nat) /\ Len(NewOffsets(run)) = Len(run) + 1
    BY <1>5, OffsetsType
  <2>2. last - first + 2 \in 1..(Len(run) + 1)
    BY <1>3, <1>5
  <2> QED
    BY <2>1, <2>2
<1> HIDE DEF removed
<1>7. kept \in Seq(Instructions)
  BY <1>2, <1>3, KeptType
<1> HIDE DEF kept
<1>8. moved \in Seq(Instructions)
  <2>1. pos + removed \in Int /\ -removed \in Int
    BY <1>4, <1>6
  <2> QED
    BY <1>7, <2>1, ShiftTargetsType
<1> HIDE DEF moved
<1>9. RecomputeOffsets(moved) \in Seq(Instructions) /\ Placed(RecomputeOffsets(moved))
  BY <1>8, Relayout
<1>10. ShiftEhRemove(eh, pos, removed) \in Seq(Clauses)
  BY <1>2, <1>4, <1>6, ShiftEhRemoveType
<1>11. eh' \in Seq(Clauses) /\ layout' \in {None} \cup Seq(Nat)
       /\ rewritten' \subseteq DOMAIN RecomputeOffsets(moved)
  BY <1>1, <1>2, <1>10
<1> QED
  BY <1>1, <1>9, <1>11, PlacedNext

LEMMA CallerTypes ==
  ASSUME TypeOK
  PROVE  /\ Clear => TypeOK'
         /\ \A c \in FreshBodies : AuthorBody(c) => TypeOK'
         /\ \A first, last, hfirst, hlast \in DOMAIN code :
              \A filter \in {None} \cup Int :
                AddClause(first, last, hfirst, hlast, filter) => TypeOK'
         /\ DropClauses => TypeOK'
         /\ \A index \in DOMAIN code, op \in Ops : Rewrite(index, op) => TypeOK'
         /\ Capture => TypeOK'
<1>1. /\ code \in Seq(Instructions) /\ eh \in Seq(Clauses) /\ layout \in {None} \cup Seq(Nat)
      /\ rewritten \subseteq DOMAIN code
      /\ Consistent => Snapshot(code) = NewOffsets(code)
  BY DEF TypeOK
<1>2. NewOffsets(code) \in Seq(Nat) /\ Len(NewOffsets(code)) = Len(code) + 1
  BY <1>1, OffsetsType
<1>3. ASSUME Clear PROVE TypeOK'
  <2>1. <<>> \in Seq(Instructions) /\ Placed(<<>>)
    BY DEF Placed
  <2>2. code' = <<>> /\ eh' \in Seq(Clauses) /\ layout' \in {None} \cup Seq(Nat)
        /\ rewritten' \subseteq DOMAIN <<>>
    BY <1>1, <1>3 DEF Clear
  <2> QED
    BY <2>1, <2>2, PlacedNext
<1>4. ASSUME NEW c \in FreshBodies, AuthorBody(c) PROVE TypeOK'
  <2>1. c \in Seq(Instructions) /\ ~Numbered(c)
    BY FreshType
  <2>2. code = <<>> /\ code' = c /\ UNCHANGED <<eh, layout, rewritten>>
    BY <1>4 DEF AuthorBody
  <2>3. ~Numbered(code')
    BY <2>1, <2>2
  <2>4. rewritten' \subseteq DOMAIN code'
    <3>1. rewritten = {}
      BY <1>1, <2>2
    <3> QED
      BY <2>2, <3>1
  <2> QED
    BY <1>1, <2>1, <2>2, <2>3, <2>4 DEF TypeOK, Consistent
<1>5. ASSUME NEW first \in DOMAIN code, NEW last \in DOMAIN code, NEW hfirst \in DOMAIN code,
             NEW hlast \in DOMAIN code, NEW filter \in {None} \cup Int,
             AddClause(first, last, hfirst, hlast, filter)
      PROVE  TypeOK'
  <2>1. \A a, b \in DOMAIN code : RegionOf(a, b) \in Regions
    <3> TAKE a, b \in DOMAIN code
    <3>1. code[a] \in Instructions /\ b + 1 \in 1..(Len(code) + 1)
      BY <1>1
    <3>2. code[a].off \in Nat /\ NewOffsets(code)[b + 1] \in Nat
      BY <1>2, <3>1, InstructionForm
    <3> QED
      BY <3>2 DEF RegionOf, Regions
  <2> DEFINE clause == [try |-> RegionOf(first, last), handler |-> RegionOf(hfirst, hlast),
                        filter |-> filter]
  <2>2. clause \in Clauses
    BY <2>1 DEF Clauses
  <2>3. Append(eh, clause) \in Seq(Clauses)
    <3> HIDE DEF clause
    <3> QED
      BY <1>1, <2>2
  <2>4. eh' = Append(eh, clause) /\ UNCHANGED <<code, layout, rewritten>>
    BY <1>5 DEF AddClause
  <2> HIDE DEF clause
  <2> QED
    BY <1>1, <2>3, <2>4 DEF TypeOK, Consistent, Numbered
<1>6. ASSUME DropClauses PROVE TypeOK'
  <2>1. <<>> \in Seq(Clauses)
    OBVIOUS
  <2>2. eh' = <<>> /\ UNCHANGED <<code, layout, rewritten>>
    BY <1>6 DEF DropClauses
  <2> QED
    BY <1>1, <2>1, <2>2 DEF TypeOK, Consistent, Numbered
<1>7. ASSUME NEW index \in DOMAIN code, NEW op \in Ops, Rewrite(index, op) PROVE TypeOK'
  <2>1. /\ code' = [code EXCEPT ![index].op = op]
        /\ rewritten' = rewritten \cup {index}
        /\ LongForm(op) = LongForm(code[index].op)
        /\ UNCHANGED <<eh, layout>>
    BY <1>7 DEF Rewrite
  <2>2. code[index] \in Instructions /\ code[index].op \in Opcodes
    <3>1. code[index] \in Instructions
      BY <1>1
    <3> QED
      BY <3>1, InstructionForm
  <2>3. op \in Opcodes /\ Operands(op) = Operands(code[index].op)
    <3>1. op \in Opcodes
      BY DEF Opcodes
    <3> QED
      BY <2>1, <2>2, <3>1, LongForms
  <2> DEFINE i == [code[index] EXCEPT !.op = op]
  <2>4. i \in Instructions
    BY <2>2, <2>3, Recoded
  <2>5. code' = [code EXCEPT ![index] = i]
    BY <2>1
  <2> HIDE DEF i
  <2>6. code' \in Seq(Instructions) /\ DOMAIN code' = DOMAIN code
    BY <1>1, <2>4, <2>5
  <2>7. rewritten' # {} /\ rewritten' \subseteq DOMAIN code'
    BY <1>1, <2>1, <2>6
  <2> QED
    BY <1>1, <2>1, <2>6, <2>7 DEF TypeOK, Consistent
<1>8. ASSUME Capture PROVE TypeOK'
  <2>1. layout' = NewOffsets(code) /\ UNCHANGED <<code, eh, rewritten>>
    BY <1>8 DEF Capture
  <2>2. layout' \in {None} \cup Seq(Nat)
    BY <1>2, <2>1
  <2> QED
    BY <1>1, <2>1, <2>2 DEF TypeOK, Consistent, Numbered
<1> QED
  BY <1>3, <1>4, <1>5, <1>6, <1>7, <1>8

LEMMA SettledNext ==
  ASSUME TypeOK, NEW b, Settled(b), Become(b), layout' = layout, rewritten' = {}
  PROVE  TypeOK'
<1>1. b.code \in Seq(Instructions) /\ Placed(b.code) /\ b.eh \in Seq(Clauses)
  BY DEF Settled
<1>2. code' = b.code /\ eh' = b.eh
  BY DEF Become
<1>3. layout' \in {None} \cup Seq(Nat)
  BY DEF TypeOK
<1>4. eh' \in Seq(Clauses) /\ rewritten' \subseteq DOMAIN b.code
  BY <1>1, <1>2
<1> QED
  BY <1>1, <1>2, <1>3, <1>4, PlacedNext

LEMMA PassTypes ==
  ASSUME TypeOK
  PROVE  (Remap \/ Renumber \/ SimplifyMacros \/ OptimizeMacros \/ Optimize) => TypeOK'
<1>1. code \in Seq(Instructions) /\ eh \in Seq(Clauses) /\ layout \in {None} \cup Seq(Nat)
  BY DEF TypeOK
<1>2. ASSUME Remap PROVE TypeOK'
  <2> DEFINE b == Restore(layout, NewOffsets(code), code, eh)
  <2>1. layout # None /\ Len(layout) = Len(code) + 1 /\ Become(b) /\ rewritten' = {} /\ layout' = layout
    BY <1>2 DEF Remap, CanRemap
  <2>2. layout \in Seq(Int)
    BY <1>1, <2>1
  <2>3. Settled(b)
    BY <1>1, <2>1, <2>2, RestorePlaces DEF Settled
  <2> HIDE DEF b
  <2> QED
    BY <2>1, <2>3, SettledNext
<1>3. Settled(Renumbered(code, eh))
  BY <1>1, RenumberedType
<1>4. ASSUME Renumber PROVE TypeOK'
  <2>1. Become(Renumbered(code, eh)) /\ rewritten' = {} /\ layout' = layout
    BY <1>4 DEF Renumber
  <2> QED
    BY <1>3, <2>1, SettledNext
<1>5. ASSUME SimplifyMacros PROVE TypeOK'
  <2>1. Become(Simplified(Renumbered(code, eh))) /\ rewritten' = {} /\ layout' = layout
    BY <1>5 DEF SimplifyMacros
  <2>2. Settled(Simplified(Renumbered(code, eh)))
    BY <1>3, SimplifiedType
  <2> QED
    BY <2>1, <2>2, SettledNext
<1>6. ASSUME OptimizeMacros PROVE TypeOK'
  <2>1. Become(Optimized(Renumbered(code, eh))) /\ rewritten' = {} /\ layout' = layout
    BY <1>6 DEF OptimizeMacros
  <2>2. Settled(Optimized(Renumbered(code, eh)))
    BY <1>3, OptimizedType
  <2> QED
    BY <2>1, <2>2, SettledNext
<1>7. ASSUME Optimize PROVE TypeOK'
  <2> DEFINE longs == LongsOptimized([code |-> code, eh |-> eh])
             b     == Optimized(Renumbered(longs.code, longs.eh))
  <2>1. Become(b) /\ rewritten' = {} /\ layout' = layout
    BY <1>7 DEF Optimize, Consistent
  <2>2. longs.code \in Seq(Instructions) /\ longs.eh \in Seq(Clauses)
    <3> DEFINE body == [code |-> code, eh |-> eh]
    <3>1. body.code \in Seq(Instructions) /\ body.eh \in Seq(Clauses)
      BY <1>1
    <3> HIDE DEF body
    <3>2. LongsOptimized(body).code \in Seq(Instructions) /\ LongsOptimized(body).eh \in Seq(Clauses)
      BY <3>1, LongsOptimizedType
    <3> QED
      BY <3>2 DEF body
  <2> HIDE DEF longs
  <2>3. Settled(b)
    BY <2>2, RenumberedType, OptimizedType
  <2> HIDE DEF b
  <2> QED
    BY <2>1, <2>3, SettledNext
<1> QED
  BY <1>2, <1>4, <1>5, <1>6, <1>7

LEMMA NextTypes == TypeOK /\ [Next]_vars => TypeOK'
<1> SUFFICES ASSUME TypeOK, [Next]_vars PROVE TypeOK'
  OBVIOUS
<1>1. code \in Seq(Instructions)
  BY DEF TypeOK
<1>2. ASSUME NEW index \in 1..(Len(code) + 2), NEW op \in Ops,
             NEW instr \in Authored(op, Starts(InsertAt(code,
               IF index <= Len(code) THEN index ELSE Len(code) + 1, Blank(op)))),
             InsertAtIndex(index, instr)
      PROVE  TypeOK'
  <2> DEFINE at == IF index <= Len(code) THEN index ELSE Len(code) + 1
  <2>1. at \in 1..(Len(code) + 1) /\ Blank(op) \in Instructions
    BY <1>1, BlankType
  <2> HIDE DEF at
  <2>2. Starts(InsertAt(code, at, Blank(op))) \subseteq Int
    BY <1>1, <2>1, InsertType, StartsType
  <2>3. instr \in Instructions
    BY <2>2, AuthoredType DEF at
  <2> QED
    BY <1>2, <2>3, InsertTypes
<1>3. ASSUME NEW index \in DOMAIN code, NEW op \in Ops,
             NEW instr \in Authored(op, Starts(ReplaceAt(code, index, Blank(op)))),
             Replace(index, instr)
      PROVE  TypeOK'
  <2>1. Blank(op) \in Instructions
    BY BlankType
  <2>2. Starts(ReplaceAt(code, index, Blank(op))) \subseteq Int
    BY <1>1, <2>1, ReplaceType, StartsType
  <2>3. instr \in Instructions
    BY <2>2, AuthoredType
  <2> QED
    BY <1>3, <2>3, ReplaceTypes
<1>4. ASSUME NEW first \in DOMAIN code, NEW end \in 1..(Len(code) + 2), RemoveRange(first, end)
      PROVE  TypeOK'
  BY <1>4, RemoveTypes
<1>5. ASSUME NEW first \in DOMAIN code, NEW last \in DOMAIN code,
             NEW hfirst \in DOMAIN code, NEW hlast \in DOMAIN code,
             NEW filter \in {None} \cup {code[k].off : k \in (last + 1)..(hfirst - 1)},
             AddClause(first, last, hfirst, hlast, filter)
      PROVE  TypeOK'
  <2>1. \A k \in (last + 1)..(hfirst - 1) : code[k].off \in Int
    <3> TAKE k \in (last + 1)..(hfirst - 1)
    <3>1. code[k] \in Instructions
      BY <1>1
    <3> QED
      BY <3>1, InstructionForm
  <2>2. filter \in {None} \cup Int
    BY <2>1
  <2> QED
    BY <1>5, <2>2, CallerTypes
<1>6. ASSUME UNCHANGED vars PROVE TypeOK'
  BY <1>6 DEF vars, TypeOK, Consistent, Numbered
<1> QED
  BY <1>2, <1>3, <1>4, <1>5, <1>6, CallerTypes, PassTypes DEF Next

(* Whatever is done to a body, each instruction has the operand its opcode   *)
(* calls for, and between edits each is at the offset its encoding gives it: *)
(* every BodyEditor mutation, renumber and macro pass leaves a body whose    *)
(* offsets are those the writer will use.                                    *)
THEOREM BodyTypeCorrect == Spec => []TypeOK
<1>1. Init => TypeOK
  <2> SUFFICES ASSUME Init PROVE TypeOK
    OBVIOUS
  <2>1. code \in Seq(Instructions) /\ eh \in Seq(Clauses)
    BY DEF Init
  <2>2. Placed(code)
    BY DEF Init, Placed
  <2>3. Snapshot(code) = NewOffsets(code)
    BY <2>1, <2>2, PlacedIsSnapshot
  <2> QED
    BY <2>1, <2>3 DEF Init, TypeOK
<1> QED
  BY <1>1, NextTypes, PTL DEF Spec

-------------------------------------------------------------------------------
(* Induction, said of a set of numbers.                                      *)

LEMMA CountingUp ==
  ASSUME NEW n \in Nat, NEW S, 0 \in S, \A k \in 1..n : k - 1 \in S => k \in S
  PROVE  \A k \in 0..n : k \in S
<1> DEFINE Bad == {k \in 0..n : k \notin S}
<1>1. SUFFICES ASSUME Bad # {} PROVE FALSE
  OBVIOUS
<1>2. PICK k \in Bad : \A j \in Bad : k <= j
  <2> HIDE DEF Bad
  <2>1. Bad \in SUBSET Nat
    BY DEF Bad
  <2> QED
    BY <1>1, <2>1, LeastNat
<1>3. k \in 0..n /\ k \notin S
  BY <1>2
<1>4. k \in 1..n /\ k - 1 \in 0..n /\ k - 1 \notin Bad
  <2> HIDE DEF Bad
  <2> QED
    BY <1>2, <1>3
<1> QED
  BY <1>3, <1>4

LEMMA CourseOfValues ==
  ASSUME NEW S, \A k \in Nat : (\A j \in Nat : j < k => j \in S) => k \in S
  PROVE  \A k \in Nat : k \in S
<1> DEFINE Bad == {k \in Nat : k \notin S}
<1>1. SUFFICES ASSUME Bad # {} PROVE FALSE
  OBVIOUS
<1>2. PICK k \in Bad : \A j \in Bad : k <= j
  <2> HIDE DEF Bad
  <2>1. Bad \in SUBSET Nat
    BY DEF Bad
  <2> QED
    BY <1>1, <2>1, LeastNat
<1>3. k \in Nat /\ k \notin S
  BY <1>2
<1>4. \A j \in Nat : j < k => j \in S
  <2> HIDE DEF Bad
  <2>1. SUFFICES ASSUME NEW j \in Nat, j < k PROVE j \notin Bad
    BY DEF Bad
  <2> QED
    BY <1>2, <1>3, <2>1
<1> QED
  BY <1>3, <1>4

-------------------------------------------------------------------------------
(* The lowest bit of a number.                                               *)

Halving(f, n) == f = [i \in 1..n |-> IF i % 2 = 1 THEN 1 ELSE 2 * f[i \div 2]]

LEMMA Halves ==
  ASSUME NEW i \in Nat \ {0}, i % 2 # 1
  PROVE  i \div 2 \in Nat \ {0} /\ i \div 2 < i /\ i = 2 * (i \div 2)
OBVIOUS

LEMMA HalvingExists ==
  ASSUME NEW n \in Nat
  PROVE  \E f : Halving(f, n)
<1> DEFINE S == {m \in Nat : \E f : Halving(f, m)}
<1>1. 0 \in S
  <2>1. Halving([k \in 1..0 |-> 0], 0)
    BY DEF Halving
  <2> QED
    BY <2>1
<1>2. ASSUME NEW m \in 1..n, m - 1 \in S PROVE m \in S
  <2>1. PICK f : Halving(f, m - 1)
    BY <1>2
  <2> DEFINE g == [i \in 1..m |-> IF i % 2 = 1 THEN 1 ELSE 2 * f[i \div 2]]
  <2>2. \A i \in 1..(m - 1) : f[i] = g[i]
    BY <2>1 DEF Halving
  <2>3. \A i \in 1..m : i % 2 # 1 => i \div 2 \in 1..(m - 1)
    <3> TAKE i \in 1..m
    <3>1. HAVE i % 2 # 1
    <3>2. i \in Nat \ {0} /\ m \in Nat
      OBVIOUS
    <3> QED
      BY <3>1, <3>2, Halves
  <2>4. g = [i \in 1..m |-> IF i % 2 = 1 THEN 1 ELSE 2 * g[i \div 2]]
    <3>1. \A i \in 1..m : i % 2 # 1 => f[i \div 2] = g[i \div 2]
      BY <2>2, <2>3
    <3> HIDE DEF S
    <3> QED
      BY <3>1
  <2> HIDE DEF g
  <2>5. Halving(g, m) /\ m \in Nat
    BY <2>4 DEF Halving
  <2> QED
    BY <2>5
<1> HIDE DEF S
<1>3. n \in S
  BY <1>1, <1>2, CountingUp
<1> QED
  BY <1>3 DEF S

LEMMA HalvingUnique ==
  ASSUME NEW n \in Nat, NEW f, Halving(f, n), NEW m \in Nat, NEW g, Halving(g, m),
         NEW i \in 1..n, i <= m
  PROVE  f[i] = g[i]
<1> DEFINE S == {k \in Nat : k \in 1..n /\ k <= m => f[k] = g[k]}
<1>1. ASSUME NEW k \in Nat, \A j \in Nat : j < k => j \in S PROVE k \in S
  <2>1. SUFFICES ASSUME k \in 1..n, k <= m PROVE f[k] = g[k]
    OBVIOUS
  <2>2. /\ f[k] = IF k % 2 = 1 THEN 1 ELSE 2 * f[k \div 2]
        /\ g[k] = IF k % 2 = 1 THEN 1 ELSE 2 * g[k \div 2]
    <3> HIDE DEF S
    <3>1. k \in 1..n /\ k \in 1..m
      BY <2>1
    <3> QED
      BY <3>1 DEF Halving
  <2>3. ASSUME k % 2 # 1 PROVE f[k \div 2] = g[k \div 2]
    <3>1. k \div 2 \in Nat \ {0} /\ k \div 2 < k
      BY <2>1, <2>3, Halves
    <3>2. k \div 2 \in S
      BY <1>1, <3>1
    <3>3. k \div 2 \in 1..n /\ k \div 2 <= m
      BY <2>1, <3>1
    <3> QED
      BY <3>2, <3>3
  <2> QED
    BY <2>2, <2>3
<1> HIDE DEF S
<1>2. i \in Nat
  OBVIOUS
<1>3. i \in S
  BY <1>1, <1>2, CourseOfValues
<1> QED
  BY <1>3 DEF S

LEMMA LowBitUnfold ==
  ASSUME NEW i \in Nat \ {0}
  PROVE  LowBit[i] = IF i % 2 = 1 THEN 1 ELSE 2 * LowBit[i \div 2]
<1> DEFINE Unfolds(f) == f = [k \in Nat \ {0} |-> IF k % 2 = 1 THEN 1 ELSE 2 * f[k \div 2]]
           below(k) == CHOOSE f : Halving(f, k)
           h == [k \in Nat \ {0} |-> below(k)[k]]
<1>1. \A k \in Nat : Halving(below(k), k)
  BY HalvingExists
<1> HIDE DEF below
<1>2. ASSUME NEW k \in Nat \ {0} PROVE h[k] = IF k % 2 = 1 THEN 1 ELSE 2 * h[k \div 2]
  <2>1. below(k)[k] = IF k % 2 = 1 THEN 1 ELSE 2 * below(k)[k \div 2]
    <3>1. Halving(below(k), k) /\ k \in 1..k
      BY <1>1
    <3> QED
      BY <3>1 DEF Halving
  <2>2. ASSUME k % 2 # 1 PROVE below(k)[k \div 2] = h[k \div 2]
    <3>1. k \div 2 \in Nat \ {0} /\ k \div 2 < k
      BY <2>2, Halves
    <3>2. /\ Halving(below(k), k) /\ Halving(below(k \div 2), k \div 2)
          /\ k \div 2 \in 1..k /\ k \div 2 <= k \div 2 /\ k \in Nat /\ k \div 2 \in Nat
      BY <1>1, <3>1
    <3>3. below(k)[k \div 2] = below(k \div 2)[k \div 2]
      BY <3>2, HalvingUnique
    <3> QED
      BY <3>1, <3>3
  <2> QED
    BY <2>1, <2>2
<1>3. Unfolds(h)
  <2>1. \A k \in Nat \ {0} : h[k] = IF k % 2 = 1 THEN 1 ELSE 2 * h[k \div 2]
    BY <1>2
  <2>2. h = [k \in Nat \ {0} |-> h[k]]
    OBVIOUS
  <2> HIDE DEF h
  <2> QED
    BY <2>1, <2>2
<1>4. LowBit = CHOOSE f : Unfolds(f)
  BY DEF LowBit
<1>5. Unfolds(LowBit)
  BY <1>3, <1>4
<1> QED
  BY <1>5

LEMMA LowBitType ==
  ASSUME NEW i \in Nat \ {0}
  PROVE  /\ LowBit[i] \in 1..i
         /\ i % 2 = 1 => LowBit[i] = 1
         /\ i % 2 # 1 => LowBit[i] = 2 * LowBit[i \div 2]
<1> DEFINE S == {k \in Nat : k # 0 => LowBit[k] \in 1..k}
<1>1. ASSUME NEW k \in Nat, \A j \in Nat : j < k => j \in S PROVE k \in S
  <2>1. SUFFICES ASSUME k # 0 PROVE LowBit[k] \in 1..k
    OBVIOUS
  <2>2. LowBit[k] = IF k % 2 = 1 THEN 1 ELSE 2 * LowBit[k \div 2]
    BY <2>1, LowBitUnfold
  <2>3. CASE k % 2 = 1
    BY <2>1, <2>2, <2>3
  <2>4. CASE k % 2 # 1
    <3>1. k \div 2 \in Nat \ {0} /\ k \div 2 < k /\ k = 2 * (k \div 2)
      BY <2>1, <2>4, Halves
    <3>2. k \div 2 \in S
      BY <1>1, <3>1
    <3>3. LowBit[k \div 2] \in 1..(k \div 2)
      BY <3>1, <3>2
    <3> HIDE DEF S
    <3> QED
      BY <2>2, <2>4, <3>1, <3>3
  <2> QED
    BY <2>3, <2>4
<1> HIDE DEF S
<1>2. i \in S
  BY <1>1, CourseOfValues
<1>3. LowBit[i] \in 1..i
  BY <1>2 DEF S
<1> QED
  BY <1>3, LowBitUnfold

LEMMA OddOrEven ==
  ASSUME NEW i \in Nat \ {0}
  PROVE  \/ \E h \in Nat : i = 2 * h + 1 /\ LowBit[i] = 1
         \/ \E h \in Nat \ {0} : h < i /\ i = 2 * h /\ LowBit[i] = 2 * LowBit[h] /\ LowBit[h] \in 1..h
<1>1. CASE i % 2 = 1
  <2>1. i = 2 * (i \div 2) + 1 /\ i \div 2 \in Nat
    BY <1>1
  <2> QED
    BY <1>1, <2>1, LowBitType
<1>2. CASE i % 2 # 1
  <2>1. i \div 2 \in Nat \ {0} /\ i \div 2 < i /\ i = 2 * (i \div 2)
    BY <1>2, Halves
  <2>2. LowBit[i] = 2 * LowBit[i \div 2] /\ LowBit[i \div 2] \in 1..(i \div 2)
    BY <1>2, <2>1, LowBitType
  <2> QED
    BY <2>1, <2>2
<1> QED
  BY <1>1, <1>2

(* The sum kept at j covers the numbers above j - LowBit[j] up to j.  Two of *)
(* these ranges are disjoint or one is within the other.                     *)
LEMMA WithinRange ==
  ASSUME NEW i \in Nat \ {0}, NEW j \in Nat \ {0}, j - LowBit[j] < i, i < j
  PROVE  i + LowBit[i] <= j
<1> DEFINE S == {k \in Nat : k # 0 => \A m \in Nat \ {0} :
                                m - LowBit[m] < k /\ k < m => k + LowBit[k] <= m}
<1>1. ASSUME NEW k \in Nat, \A l \in Nat : l < k => l \in S PROVE k \in S
  <2>1. SUFFICES ASSUME k # 0, NEW m \in Nat \ {0}, m - LowBit[m] < k, k < m
                 PROVE  k + LowBit[k] <= m
    OBVIOUS
  <2>2. CASE \E h \in Nat : k = 2 * h + 1 /\ LowBit[k] = 1
    <3> HIDE DEF S
    <3> QED
      BY <2>1, <2>2
  <2>3. CASE \E h \in Nat \ {0} : h < k /\ k = 2 * h /\ LowBit[k] = 2 * LowBit[h] /\ LowBit[h] \in 1..h
    <3>1. PICK h \in Nat \ {0} : h < k /\ k = 2 * h /\ LowBit[k] = 2 * LowBit[h] /\ LowBit[h] \in 1..h
      BY <2>3
    <3>2. h \in S
      BY <1>1, <3>1
    <3>3. PICK g \in Nat \ {0} : m = 2 * g /\ LowBit[m] = 2 * LowBit[g] /\ LowBit[g] \in 1..g
      <4> HIDE DEF S
      <4>1. ~\E g \in Nat : m = 2 * g + 1 /\ LowBit[m] = 1
        BY <2>1, <3>1
      <4> QED
        BY <4>1, OddOrEven
    <3>4. g - LowBit[g] < h /\ h < g
      BY <2>1, <3>1, <3>3
    <3>5. h + LowBit[h] <= g
      BY <3>2, <3>4
    <3> HIDE DEF S
    <3> QED
      BY <3>1, <3>3, <3>5
  <2> QED
    BY <2>1, <2>2, <2>3, OddOrEven
<1> HIDE DEF S
<1>2. i \in S
  BY <1>1, CourseOfValues
<1> QED
  BY <1>2 DEF S

LEMMA BeyondRange ==
  ASSUME NEW i \in Nat \ {0}, NEW j \in Nat \ {0},
         i + LowBit[i] <= j, j - LowBit[j] < i + LowBit[i]
  PROVE  j - LowBit[j] < i
<1> DEFINE S == {k \in Nat : k # 0 => \A m \in Nat \ {0} :
                   k + LowBit[k] <= m /\ m - LowBit[m] < k + LowBit[k] => m - LowBit[m] < k}
<1>1. ASSUME NEW k \in Nat, \A l \in Nat : l < k => l \in S PROVE k \in S
  <2>1. SUFFICES ASSUME k # 0, NEW m \in Nat \ {0}, k + LowBit[k] <= m, m - LowBit[m] < k + LowBit[k]
                 PROVE  m - LowBit[m] < k
    OBVIOUS
  <2>2. CASE \E h \in Nat : k = 2 * h + 1 /\ LowBit[k] = 1
    <3> HIDE DEF S
    <3>1. PICK h \in Nat : k = 2 * h + 1 /\ LowBit[k] = 1
      BY <2>2
    <3>2. PICK g \in Nat \ {0} : m = 2 * g /\ LowBit[m] = 2 * LowBit[g] /\ LowBit[g] \in 1..g
      <4>1. ~\E g \in Nat : m = 2 * g + 1 /\ LowBit[m] = 1
        BY <2>1, <3>1
      <4> QED
        BY <4>1, OddOrEven
    <3> QED
      BY <2>1, <3>1, <3>2
  <2>3. CASE \E h \in Nat \ {0} : h < k /\ k = 2 * h /\ LowBit[k] = 2 * LowBit[h] /\ LowBit[h] \in 1..h
    <3>1. PICK h \in Nat \ {0} : h < k /\ k = 2 * h /\ LowBit[k] = 2 * LowBit[h] /\ LowBit[h] \in 1..h
      BY <2>3
    <3>2. h \in S
      BY <1>1, <3>1
    <3>3. PICK g \in Nat \ {0} : m = 2 * g /\ LowBit[m] = 2 * LowBit[g] /\ LowBit[g] \in 1..g
      <4> HIDE DEF S
      <4>1. ~\E g \in Nat : m = 2 * g + 1 /\ LowBit[m] = 1
        BY <2>1, <3>1
      <4> QED
        BY <4>1, OddOrEven
    <3>4. h + LowBit[h] <= g /\ g - LowBit[g] < h + LowBit[h]
      BY <2>1, <3>1, <3>3
    <3>5. g - LowBit[g] < h
      BY <3>2, <3>4
    <3> HIDE DEF S
    <3> QED
      BY <3>1, <3>3, <3>5
  <2> QED
    BY <2>1, <2>2, <2>3, OddOrEven
<1> HIDE DEF S
<1>2. i \in S
  BY <1>1, CourseOfValues
<1> QED
  BY <1>2 DEF S

(* What is added to the sum of a parent follows what was added before: where *)
(* the range of i starts, the parent's range does or an earlier child ends.  *)
Joins(before, parent) ==
  \/ before = parent - LowBit[parent]
  \/ before \in Nat \ {0} /\ before + LowBit[before] = parent

LEMMA NextChild ==
  ASSUME NEW i \in Nat \ {0}
  PROVE  Joins(i - LowBit[i], i + LowBit[i])
<1> DEFINE S == {k \in Nat : k # 0 => Joins(k - LowBit[k], k + LowBit[k])}
<1>1. ASSUME NEW k \in Nat, \A l \in Nat : l < k => l \in S PROVE k \in S
  <2>1. SUFFICES ASSUME k # 0 PROVE Joins(k - LowBit[k], k + LowBit[k])
    OBVIOUS
  <2>2. CASE \E h \in Nat : k = 2 * h + 1 /\ LowBit[k] = 1
    <3> HIDE DEF S
    <3>1. PICK h \in Nat : k = 2 * h + 1 /\ LowBit[k] = 1
      BY <2>2
    <3>2. LowBit[2 * h + 2] = 2 * LowBit[h + 1]
      <4>1. 2 * h + 2 \in Nat \ {0} /\ (2 * h + 2) % 2 # 1 /\ (2 * h + 2) \div 2 = h + 1
        OBVIOUS
      <4> QED
        BY <4>1, LowBitUnfold
    <3>3. h # 0 => LowBit[2 * h] = 2 * LowBit[h]
      <4>1. h # 0 => 2 * h \in Nat \ {0} /\ (2 * h) % 2 # 1 /\ (2 * h) \div 2 = h
        OBVIOUS
      <4> QED
        BY <4>1, LowBitUnfold
    <3>4. h % 2 # 1 => LowBit[h + 1] = 1
      <4>1. h % 2 # 1 => h + 1 \in Nat \ {0} /\ (h + 1) % 2 = 1
        OBVIOUS
      <4> QED
        BY <4>1, LowBitUnfold
    <3>5. h % 2 = 1 => h # 0 /\ LowBit[h] = 1
      <4>1. h % 2 = 1 => h \in Nat \ {0}
        OBVIOUS
      <4> QED
        BY <4>1, LowBitUnfold
    <3>6. k - LowBit[k] = 2 * h /\ k + LowBit[k] = 2 * h + 2
      BY <3>1
    <3>7. CASE h % 2 # 1
      <4>1. LowBit[2 * h + 2] = 2
        BY <3>2, <3>4, <3>7
      <4> QED
        BY <3>6, <4>1 DEF Joins
    <3>8. CASE h % 2 = 1
      <4>1. 2 * h \in Nat \ {0} /\ LowBit[2 * h] = 2
        BY <3>3, <3>5, <3>8
      <4> QED
        BY <3>6, <4>1 DEF Joins
    <3> QED
      BY <3>7, <3>8
  <2>3. CASE \E h \in Nat \ {0} : h < k /\ k = 2 * h /\ LowBit[k] = 2 * LowBit[h] /\ LowBit[h] \in 1..h
    <3>1. PICK h \in Nat \ {0} : h < k /\ k = 2 * h /\ LowBit[k] = 2 * LowBit[h] /\ LowBit[h] \in 1..h
      BY <2>3
    <3>2. h \in S
      BY <1>1, <3>1
    <3>3. Joins(h - LowBit[h], h + LowBit[h])
      BY <3>2
    <3> HIDE DEF S
    <3>4. ASSUME NEW m \in Nat \ {0} PROVE LowBit[2 * m] = 2 * LowBit[m]
      <4>1. 2 * m \in Nat \ {0} /\ (2 * m) % 2 # 1 /\ (2 * m) \div 2 = m
        OBVIOUS
      <4> QED
        BY <4>1, LowBitUnfold
    <3>5. h + LowBit[h] \in Nat \ {0} /\ h - LowBit[h] \in Nat
      BY <3>1
    <3>6. k + LowBit[k] = 2 * (h + LowBit[h]) /\ k - LowBit[k] = 2 * (h - LowBit[h])
      BY <3>1
    <3>7. LowBit[k + LowBit[k]] = 2 * LowBit[h + LowBit[h]] /\ LowBit[h + LowBit[h]] \in Nat
      BY <3>4, <3>5, <3>6, LowBitType
    <3>8. CASE h - LowBit[h] = (h + LowBit[h]) - LowBit[h + LowBit[h]]
      <4>1. 2 * (h - LowBit[h]) = 2 * (h + LowBit[h]) - 2 * LowBit[h + LowBit[h]]
        BY <3>1, <3>5, <3>7, <3>8
      <4> QED
        BY <3>6, <3>7, <4>1 DEF Joins
    <3>9. CASE /\ h - LowBit[h] \in Nat \ {0}
               /\ h - LowBit[h] + LowBit[h - LowBit[h]] = h + LowBit[h]
      <4>1. LowBit[k - LowBit[k]] = 2 * LowBit[h - LowBit[h]] /\ LowBit[h - LowBit[h]] \in Nat
        BY <3>4, <3>6, <3>9, LowBitType
      <4> QED
        BY <3>5, <3>6, <3>9, <4>1 DEF Joins
    <3> QED
      <4>1. \/ h - LowBit[h] = (h + LowBit[h]) - LowBit[h + LowBit[h]]
            \/ h - LowBit[h] \in Nat \ {0} /\ h - LowBit[h] + LowBit[h - LowBit[h]] = h + LowBit[h]
        BY <3>3 DEF Joins
      <4> QED
        BY <3>8, <3>9, <4>1
  <2> HIDE DEF S
  <2> QED
    BY <2>1, <2>2, <2>3, OddOrEven
<1> HIDE DEF S
<1>2. i \in S
  BY <1>1, CourseOfValues
<1> QED
  BY <1>2 DEF S

-------------------------------------------------------------------------------
(* The tree of sizes: how it is built, what a query adds up, what a shrink   *)
(* changes.                                                                  *)

BuildStep(c, i, sums) ==
  LET parent == i + LowBit[i]
  IN  IF parent > Len(c) THEN sums ELSE [sums EXCEPT ![parent] = @ + sums[i]]

BuildPass(c, n, f) ==
  f = [i \in 0..n |-> IF i = 0 THEN [j \in DOMAIN c |-> EncodedSize(c[j])]
                         ELSE BuildStep(c, i, f[i - 1])]

LEMMA BuildPassExists ==
  ASSUME NEW c, NEW n \in Nat
  PROVE  \E f : BuildPass(c, n, f)
<1> DEFINE start == [j \in DOMAIN c |-> EncodedSize(c[j])]
           S == {m \in Nat : \E f : BuildPass(c, m, f)}
<1>1. 0 \in S
  <2>1. BuildPass(c, 0, [i \in 0..0 |-> start])
    <3> HIDE DEF start
    <3>1. \A i \in 0..0 : i = 0
      OBVIOUS
    <3> QED
      BY <3>1 DEF BuildPass, start
  <2> QED
    BY <2>1
<1>2. ASSUME NEW m \in 1..n, m - 1 \in S PROVE m \in S
  <2>1. PICK f : BuildPass(c, m - 1, f)
    BY <1>2
  <2> DEFINE g == [i \in 0..m |-> IF i = 0 THEN start ELSE BuildStep(c, i, f[i - 1])]
  <2> HIDE DEF S, start
  <2>2. \A i \in 0..(m - 1) : f[i] = g[i]
    BY <2>1 DEF BuildPass, start
  <2>3. \A i \in 0..m : i # 0 => i - 1 \in 0..(m - 1)
    OBVIOUS
  <2>4. \A i \in 0..m : i # 0 => f[i - 1] = g[i - 1]
    BY <2>2, <2>3
  <2>5. g = [i \in 0..m |-> IF i = 0 THEN start ELSE BuildStep(c, i, g[i - 1])]
    BY <2>4
  <2> HIDE DEF g
  <2>6. BuildPass(c, m, g) /\ m \in Nat
    BY <2>5 DEF BuildPass, start
  <2> QED
    BY <2>6 DEF S
<1> HIDE DEF S
<1>3. n \in S
  BY <1>1, <1>2, CountingUp
<1> QED
  BY <1>3 DEF S

(* The sum at j covers the instructions after j - LowBit[j] up to j.         *)
RangeSums(sums, c) ==
  /\ sums \in [1..Len(c) -> Int]
  /\ \A j \in 1..Len(c) :
       sums[j] = NewOffsets(c)[j + 1] - NewOffsets(c)[j - LowBit[j] + 1]

(* Building: after i turns the sum at j covers j and what is up to `end', the *)
(* last child of j visited.                                                  *)
EndsAt(c, i, j, sum, end) ==
  /\ j - LowBit[j] <= end /\ end < j
  /\ sum = EncodedSize(c[j]) + (NewOffsets(c)[end + 1] - NewOffsets(c)[j - LowBit[j] + 1])
  /\ end = j - LowBit[j] \/ (end # 0 /\ end + LowBit[end] = j)
  /\ \A d \in 1..i : d + LowBit[d] = j => d <= end
  /\ end <= i \/ end = j - LowBit[j]

Building(sums, c, i) ==
  /\ sums \in [1..Len(c) -> Int]
  /\ \A j \in 1..Len(c) : \E end \in Nat : EndsAt(c, i, j, sums[j], end)

LEMMA RangeFacts ==
  ASSUME NEW c \in Seq(Instructions), NEW j \in 1..Len(c)
  PROVE  /\ LowBit[j] \in 1..j /\ j - LowBit[j] \in 0..(j - 1)
         /\ j \in DOMAIN c /\ EncodedSize(c[j]) \in Nat
         /\ NewOffsets(c)[j + 1] = NewOffsets(c)[j] + EncodedSize(c[j])
         /\ \A k \in 0..Len(c) : NewOffsets(c)[k + 1] \in Nat
<1>1. j \in Nat \ {0} /\ j \in DOMAIN c /\ Len(c) \in Nat
  OBVIOUS
<1>2. LowBit[j] \in 1..j
  BY <1>1, LowBitType
<1>3. c[j] \in Instructions
  BY <1>1
<1>4. EncodedSize(c[j]) \in Nat
  BY <1>3, EncodedSizes
<1>5. \A k \in 0..Len(c) : NewOffsets(c)[k + 1] \in Nat
  <2>1. \A k \in 0..Len(c) : k + 1 \in 1..(Len(c) + 1)
    BY <1>1
  <2>2. NewOffsets(c) \in [1..(Len(c) + 1) -> Nat]
    BY <1>1, OffsetsType
  <2> QED
    BY <2>1, <2>2
<1>6. NewOffsets(c)[j + 1] = NewOffsets(c)[j] + EncodedSize(c[j])
  BY <1>1, OffsetsType
<1>7. j - LowBit[j] \in 0..(j - 1)
  BY <1>1, <1>2
<1> QED
  BY <1>1, <1>2, <1>4, <1>5, <1>6, <1>7

LEMMA BuildingStarts ==
  ASSUME NEW c \in Seq(Instructions)
  PROVE  Building([j \in DOMAIN c |-> EncodedSize(c[j])], c, 0)
<1> DEFINE sums == [j \in DOMAIN c |-> EncodedSize(c[j])]
<1>1. sums \in [1..Len(c) -> Int]
  <2>1. \A j \in 1..Len(c) : EncodedSize(c[j]) \in Int /\ sums[j] = EncodedSize(c[j])
    BY RangeFacts
  <2>2. DOMAIN c = 1..Len(c)
    OBVIOUS
  <2> QED
    BY <2>1, <2>2
<1>2. ASSUME NEW j \in 1..Len(c) PROVE EndsAt(c, 0, j, sums[j], j - LowBit[j])
  <2>1. sums[j] = EncodedSize(c[j])
    OBVIOUS
  <2>2. /\ j - LowBit[j] \in 0..(j - 1) /\ EncodedSize(c[j]) \in Nat
        /\ NewOffsets(c)[j - LowBit[j] + 1] \in Nat
    <3>1. /\ LowBit[j] \in 1..j /\ j - LowBit[j] \in 0..(j - 1) /\ EncodedSize(c[j]) \in Nat
          /\ \A k \in 0..Len(c) : NewOffsets(c)[k + 1] \in Nat
      BY RangeFacts
    <3>2. j - LowBit[j] \in 0..Len(c)
      BY <3>1
    <3> QED
      BY <3>1, <3>2
  <2> HIDE DEF sums
  <2> QED
    BY <2>1, <2>2 DEF EndsAt
<1>3. \A j \in 1..Len(c) : j - LowBit[j] \in Nat
  BY RangeFacts
<1> HIDE DEF sums
<1> QED
  BY <1>1, <1>2, <1>3 DEF Building, sums

(* Once all numbers before j have been visited, the sum at j is complete.    *)
LEMMA BuiltAt ==
  ASSUME NEW c \in Seq(Instructions), NEW j \in 1..Len(c), NEW i \in Nat, j <= i + 1,
         NEW sum, NEW end \in Nat, EndsAt(c, i, j, sum, end)
  PROVE  sum = NewOffsets(c)[j + 1] - NewOffsets(c)[j - LowBit[j] + 1]
<1>1. /\ LowBit[j] \in 1..j /\ j - LowBit[j] \in 0..(j - 1) /\ EncodedSize(c[j]) \in Nat
      /\ NewOffsets(c)[j + 1] = NewOffsets(c)[j] + EncodedSize(c[j])
      /\ \A k \in 0..Len(c) : NewOffsets(c)[k + 1] \in Nat
  BY RangeFacts
<1>2. end = j - 1
  <2>1. CASE LowBit[j] = 1
    BY <1>1, <2>1 DEF EndsAt
  <2>2. CASE LowBit[j] # 1
    <3>1. j % 2 # 1 /\ j \in Nat \ {0}
      BY <2>2, LowBitType
    <3>2. j - 1 \in Nat \ {0} /\ (j - 1) % 2 = 1
      BY <3>1
    <3>3. j - 1 + LowBit[j - 1] = j /\ j - 1 \in 1..i
      BY <3>2, LowBitType
    <3>4. j - 1 <= end
      BY <3>3 DEF EndsAt
    <3> QED
      BY <1>1, <3>4 DEF EndsAt
  <2> QED
    BY <2>1, <2>2
<1>3. sum = EncodedSize(c[j]) + (NewOffsets(c)[j] - NewOffsets(c)[j - LowBit[j] + 1])
  BY <1>2 DEF EndsAt
<1>4. NewOffsets(c)[j] \in Nat /\ NewOffsets(c)[j - LowBit[j] + 1] \in Nat
  <2>1. j - 1 \in 0..Len(c) /\ j - LowBit[j] \in 0..Len(c) /\ j - 1 + 1 = j
    BY <1>1
  <2> QED
    BY <1>1, <2>1
<1> QED
  BY <1>1, <1>3, <1>4

(* The turn of i adds what is next at its parent.                            *)
LEMMA BuiltParent ==
  ASSUME NEW c \in Seq(Instructions), NEW i \in 1..Len(c), NEW j \in 1..Len(c), j = i + LowBit[i],
         NEW own, own = NewOffsets(c)[i + 1] - NewOffsets(c)[i - LowBit[i] + 1],
         NEW sum, NEW end \in Nat, EndsAt(c, i - 1, j, sum, end)
  PROVE  EndsAt(c, i, j, sum + own, i)
<1>0. Len(c) \in Nat /\ i \in Nat \ {0} /\ j \in Nat \ {0} /\ i <= Len(c) /\ j <= Len(c)
  OBVIOUS
<1>1. /\ LowBit[j] \in 1..j /\ j - LowBit[j] \in 0..(j - 1) /\ EncodedSize(c[j]) \in Nat
      /\ \A k \in 0..Len(c) : NewOffsets(c)[k + 1] \in Nat
  BY RangeFacts
<1>2. LowBit[i] \in 1..i /\ i - LowBit[i] \in 0..(i - 1) /\ i \in Nat \ {0} /\ j \in Nat \ {0}
  <2>1. LowBit[i] \in 1..i /\ i - LowBit[i] \in 0..(i - 1)
    BY RangeFacts
  <2> QED
    BY <1>0, <2>1
<1>3. Joins(i - LowBit[i], j)
  BY <1>2, NextChild
<1>4. j - LowBit[j] < i
  <2>1. i + LowBit[i] <= j /\ j - LowBit[j] < i + LowBit[i]
    BY <1>0, <1>1
  <2> QED
    BY <1>0, <2>1, BeyondRange
<1>5. i - LowBit[i] <= end
  <2>1. CASE i - LowBit[i] = j - LowBit[j]
    BY <2>1 DEF EndsAt
  <2>2. CASE i - LowBit[i] \in Nat \ {0} /\ (i - LowBit[i]) + LowBit[i - LowBit[i]] = j
    <3>1. i - LowBit[i] \in 1..(i - 1)
      BY <1>2, <2>2
    <3> QED
      BY <2>2, <3>1 DEF EndsAt
  <2> QED
    BY <1>3, <2>1, <2>2 DEF Joins
<1>6. end < i
  BY <1>1, <1>2, <1>4 DEF EndsAt
<1>7. end = i - LowBit[i]
  <2>1. SUFFICES ASSUME i - LowBit[i] < end PROVE FALSE
    BY <1>2, <1>5
  <2>2. end \in Nat \ {0}
    BY <1>2, <2>1
  <2>3. CASE end # 0 /\ end + LowBit[end] = j
    <3>1. end + LowBit[end] <= i
      BY <1>2, <1>6, <2>1, <2>2, WithinRange
    <3> QED
      BY <1>2, <2>3, <3>1
  <2>4. CASE end = j - LowBit[j]
    <3>1. i - LowBit[i] \in Nat \ {0} /\ (i - LowBit[i]) + LowBit[i - LowBit[i]] = j
      BY <1>3, <2>1, <2>4 DEF Joins
    <3>2. j - LowBit[j] < i - LowBit[i]
      <4>1. j <= j /\ j - LowBit[j] < j
        BY <1>0, <1>1
      <4> QED
        BY <1>0, <3>1, <4>1, BeyondRange
    <3> QED
      BY <1>0, <1>1, <1>2, <2>1, <2>4, <3>2
  <2> QED
    BY <2>3, <2>4 DEF EndsAt
<1>8. PICK low \in Nat, before \in Nat :
        low = j - LowBit[j] /\ low < j /\ low < i /\ before = i - LowBit[i] /\ before < i
  <2>1. j - LowBit[j] \in Nat /\ j - LowBit[j] < j
    BY <1>1
  <2>2. i - LowBit[i] \in Nat /\ i - LowBit[i] < i
    BY <1>2
  <2> QED
    BY <1>4, <2>1, <2>2
<1>9. sum + own = EncodedSize(c[j]) + (NewOffsets(c)[i + 1] - NewOffsets(c)[low + 1])
  <2>1. i \in 0..Len(c) /\ low \in 0..Len(c) /\ before \in 0..Len(c)
    BY <1>0, <1>8
  <2>2. /\ NewOffsets(c)[i + 1] \in Nat /\ NewOffsets(c)[low + 1] \in Nat
        /\ NewOffsets(c)[before + 1] \in Nat /\ EncodedSize(c[j]) \in Nat
    BY <1>1, <2>1
  <2>3. sum = EncodedSize(c[j]) + (NewOffsets(c)[before + 1] - NewOffsets(c)[low + 1])
    BY <1>7, <1>8 DEF EndsAt
  <2>4. own = NewOffsets(c)[i + 1] - NewOffsets(c)[before + 1]
    BY <1>8
  <2> DEFINE I == NewOffsets(c)[i + 1]
             L == NewOffsets(c)[low + 1]
             B == NewOffsets(c)[before + 1]
             E == EncodedSize(c[j])
  <2>5. I \in Nat /\ L \in Nat /\ B \in Nat /\ E \in Nat /\ sum = E + (B - L) /\ own = I - B
    BY <2>2, <2>3, <2>4
  <2> HIDE DEF I, L, B, E
  <2>6. (E + (B - L)) + (I - B) = E + (I - L)
    BY <2>5
  <2>7. sum + own = E + (I - L)
    BY <2>5, <2>6
  <2> QED
    BY <2>7 DEF I, L, E
<1>10. \A d \in 1..i : d + LowBit[d] = j => d <= i
  OBVIOUS
<1>11. low <= i /\ i < j /\ i <= i /\ i # 0 /\ i + LowBit[i] = j
  <2>1. i < i + LowBit[i]
    BY <1>0, <1>2
  <2> QED
    BY <1>0, <1>8, <2>1
<1> QED
  BY <1>8, <1>9, <1>10, <1>11 DEF EndsAt

LEMMA BuildingGoesOn ==
  ASSUME NEW c \in Seq(Instructions), NEW i \in 1..Len(c), NEW sums, Building(sums, c, i - 1)
  PROVE  Building(BuildStep(c, i, sums), c, i)
<1> DEFINE parent == i + LowBit[i]
           new == BuildStep(c, i, sums)
<1>1. i \in Nat \ {0} /\ LowBit[i] \in 1..i /\ Len(c) \in Nat /\ i - 1 \in Nat
  BY RangeFacts
<1>2. sums \in [1..Len(c) -> Int] /\ new \in [1..Len(c) -> Int]
  <2>1. sums \in [1..Len(c) -> Int] /\ sums[i] \in Int
    BY DEF Building
  <2>2. CASE parent > Len(c)
    BY <2>1, <2>2 DEF BuildStep
  <2>3. CASE ~(parent > Len(c))
    <3>1. parent \in 1..Len(c)
      BY <1>1, <2>3
    <3>2. sums[parent] + sums[i] \in Int
      BY <2>1, <3>1
    <3> HIDE DEF parent
    <3>3. new = [sums EXCEPT ![parent] = sums[parent] + sums[i]]
      BY <2>3 DEF BuildStep, parent
    <3> HIDE DEF new
    <3> QED
      BY <2>1, <3>1, <3>2, <3>3
  <2> QED
    BY <2>2, <2>3
<1>3. ASSUME NEW j \in 1..Len(c), j # parent PROVE \E end \in Nat : EndsAt(c, i, j, new[j], end)
  <2>1. new[j] = sums[j]
    BY <1>2, <1>3 DEF BuildStep
  <2>2. PICK end \in Nat : EndsAt(c, i - 1, j, sums[j], end)
    BY DEF Building
  <2>3. \A d \in 1..i : d = i \/ d \in 1..(i - 1)
    BY <1>1
  <2>4. \A d \in 1..i : d + LowBit[d] = j => d <= end
    <3> TAKE d \in 1..i
    <3>1. HAVE d + LowBit[d] = j
    <3>2. d # i
      BY <1>3, <3>1
    <3> QED
      BY <2>2, <2>3, <3>1, <3>2 DEF EndsAt
  <2>5. end <= i \/ end = j - LowBit[j]
    BY <1>1, <2>2 DEF EndsAt
  <2>6. EndsAt(c, i, j, new[j], end)
    BY <2>1, <2>2, <2>4, <2>5 DEF EndsAt
  <2> QED
    BY <2>6
<1>4. ASSUME parent \in 1..Len(c) PROVE \E end \in Nat : EndsAt(c, i, parent, new[parent], end)
  <2>1. PICK own \in Nat : EndsAt(c, i - 1, i, sums[i], own)
    BY DEF Building
  <2>2. sums[i] = NewOffsets(c)[i + 1] - NewOffsets(c)[i - LowBit[i] + 1]
    <3>1. i <= i - 1 + 1
      BY <1>1
    <3> QED
      BY <1>1, <2>1, <3>1, BuiltAt
  <2>3. PICK end \in Nat : EndsAt(c, i - 1, parent, sums[parent], end)
    BY <1>4 DEF Building
  <2>4. EndsAt(c, i, parent, sums[parent] + sums[i], i)
    <3> HIDE DEF parent
    <3>1. parent = i + LowBit[i]
      BY DEF parent
    <3> QED
      BY <1>4, <2>2, <2>3, <3>1, BuiltParent
  <2>5. new[parent] = sums[parent] + sums[i]
    BY <1>1, <1>2, <1>4 DEF BuildStep
  <2> QED
    BY <1>1, <2>4, <2>5
<1> HIDE DEF new, parent
<1>5. ASSUME NEW j \in 1..Len(c) PROVE \E end \in Nat : EndsAt(c, i, j, new[j], end)
  BY <1>3, <1>4
<1> QED
  BY <1>2, <1>5 DEF Building, new

(* The tree that is built holds the sums of its ranges.                      *)
LEMMA SizesBuilt ==
  ASSUME NEW c \in Seq(Instructions)
  PROVE  RangeSums(InstructionSizes(c), c)
<1> DEFINE n == Len(c)
           built == CHOOSE f : BuildPass(c, n, f)
<1>1. n \in Nat
  OBVIOUS
<1>2. InstructionSizes(c) = built[n]
  BY DEF InstructionSizes, BuildPass, BuildStep
<1>3. BuildPass(c, n, built)
  BY <1>1, BuildPassExists
<1> HIDE DEF built, n
<1> DEFINE S == {i \in 0..n : Building(built[i], c, i)}
<1>4. 0 \in S
  <2>1. built[0] = [j \in DOMAIN c |-> EncodedSize(c[j])]
    BY <1>1, <1>3 DEF BuildPass
  <2> QED
    BY <1>1, <2>1, BuildingStarts
<1>5. ASSUME NEW i \in 1..n, i - 1 \in S PROVE i \in S
  <2>1. built[i] = BuildStep(c, i, built[i - 1])
    <3>1. i \in 0..n /\ i # 0
      BY <1>1
    <3> HIDE DEF S
    <3> QED
      BY <1>3, <3>1 DEF BuildPass
  <2> QED
    BY <1>1, <1>5, <2>1, BuildingGoesOn DEF n
<1> HIDE DEF S
<1>6. n \in S
  <2>1. \A i \in 0..n : i \in S
    BY <1>1, <1>4, <1>5, CountingUp
  <2> QED
    BY <1>1, <2>1
<1>7. Building(built[n], c, n)
  BY <1>6 DEF S
<1>8. ASSUME NEW j \in 1..n
      PROVE  built[n][j] = NewOffsets(c)[j + 1] - NewOffsets(c)[j - LowBit[j] + 1]
  <2>1. PICK end \in Nat : EndsAt(c, n, j, built[n][j], end)
    BY <1>7 DEF Building, n
  <2>2. j <= n + 1
    BY <1>1
  <2> QED
    BY <1>1, <2>1, <2>2, BuiltAt DEF n
<1> QED
  BY <1>2, <1>7, <1>8 DEF RangeSums, Building, n

LEMMA TreeIsSequence ==
  ASSUME NEW c \in Seq(Instructions), NEW sums, RangeSums(sums, c)
  PROVE  Len(sums) = Len(c) /\ DOMAIN sums = 1..Len(c)
<1>1. Len(c) \in Nat /\ sums \in [1..Len(c) -> Int]
  BY DEF RangeSums
<1> QED
  BY <1>1

(* A query adds up the sums of adjacent ranges.                              *)
LEMMA QueryAnswers ==
  ASSUME NEW c \in Seq(Instructions), NEW sums, RangeSums(sums, c), NEW index \in 0..Len(c)
  PROVE  OffsetOf(sums, index) = NewOffsets(c)[index + 1]
<1> DEFINE n == Len(c)
           Adds(f) == f = [i \in 0..n |-> IF i = 0 THEN 0 ELSE sums[i] + f[i - LowBit[i]]]
           prefix == CHOOSE f : Adds(f)
           g == [i \in 0..n |-> NewOffsets(c)[i + 1]]
<1>1. n \in Nat /\ Len(sums) = n
  BY TreeIsSequence
<1>2. NewOffsets(c)[1] = 0 /\ \A i \in 0..n : NewOffsets(c)[i + 1] \in Nat
  <2>1. NewOffsets(c)[1] = 0 /\ NewOffsets(c) \in [1..(n + 1) -> Nat]
    BY <1>1, OffsetsType
  <2>2. \A i \in 0..n : i + 1 \in 1..(n + 1)
    BY <1>1
  <2> QED
    BY <2>1, <2>2
<1>3. \A i \in 1..n : i - LowBit[i] \in 0..n /\ i - LowBit[i] < i /\ i - LowBit[i] \in Nat
  <2> TAKE i \in 1..n
  <2>1. LowBit[i] \in 1..i
    BY RangeFacts
  <2> QED
    BY <1>1, <2>1
<1>4. \A i \in 1..n : g[i] = sums[i] + g[i - LowBit[i]]
  <2> TAKE i \in 1..n
  <2>1. sums[i] = NewOffsets(c)[i + 1] - NewOffsets(c)[i - LowBit[i] + 1]
    BY DEF RangeSums
  <2>2. i \in 0..n /\ i - LowBit[i] \in 0..n
    BY <1>1, <1>3
  <2>3. NewOffsets(c)[i + 1] \in Nat /\ NewOffsets(c)[i - LowBit[i] + 1] \in Nat
    BY <1>2, <2>2
  <2>4. NewOffsets(c)[i + 1] = (NewOffsets(c)[i + 1] - NewOffsets(c)[i - LowBit[i] + 1])
                                 + NewOffsets(c)[i - LowBit[i] + 1]
    BY <2>3
  <2> QED
    BY <2>1, <2>2, <2>4
<1>5. Adds(g)
  <2>1. g[0] = 0 /\ 0 \in 0..n
    BY <1>1, <1>2
  <2>2. \A i \in 0..n : g[i] = IF i = 0 THEN 0 ELSE sums[i] + g[i - LowBit[i]]
    <3> HIDE DEF g, n
    <3>1. \A i \in 0..n : i # 0 => i \in 1..n
      BY <1>1
    <3> QED
      BY <1>4, <2>1, <3>1
  <2>3. g = [i \in 0..n |-> g[i]]
    OBVIOUS
  <2> HIDE DEF g, n
  <2> QED
    BY <2>2, <2>3
<1>6. Adds(prefix)
  <2> HIDE DEF g, Adds
  <2> QED
    BY <1>5
<1>7. OffsetOf(sums, index) = prefix[index]
  BY <1>1 DEF OffsetOf
<1> HIDE DEF prefix, g
<1> DEFINE S == {i \in Nat : i <= n => prefix[i] = g[i]}
<1>8. ASSUME NEW i \in Nat, \A j \in Nat : j < i => j \in S PROVE i \in S
  <2>1. SUFFICES ASSUME i <= n PROVE prefix[i] = g[i]
    OBVIOUS
  <2>2. i \in 0..n
    BY <2>1
  <2>3. prefix[i] = IF i = 0 THEN 0 ELSE sums[i] + prefix[i - LowBit[i]]
    BY <1>6, <2>2
  <2>4. g[i] = IF i = 0 THEN 0 ELSE sums[i] + g[i - LowBit[i]]
    BY <1>5, <2>2
  <2>5. CASE i = 0
    BY <2>3, <2>4, <2>5
  <2>6. CASE i # 0
    <3>1. i - LowBit[i] \in Nat /\ i - LowBit[i] < i /\ i - LowBit[i] <= n
      BY <1>1, <1>3, <2>1, <2>6
    <3>2. i - LowBit[i] \in S
      BY <1>8, <3>1
    <3>3. prefix[i - LowBit[i]] = g[i - LowBit[i]]
      BY <3>1, <3>2
    <3> QED
      BY <2>3, <2>4, <2>6, <3>3
  <2> QED
    BY <2>5, <2>6
<1> HIDE DEF S
<1>9. index \in S /\ index \in 0..n
  BY <1>1, <1>8, CourseOfValues
<1>10. prefix[index] = g[index]
  BY <1>1, <1>9 DEF S
<1> QED
  BY <1>7, <1>9, <1>10 DEF g

(* The sums a shrink of i lowers are those that cover i.                     *)
LEMMA ShrinkCovers ==
  ASSUME NEW n \in Nat, NEW sums \in [1..n -> Int], NEW i \in 1..n
  PROVE  Shrink(sums, i) =
           [j \in 1..n |-> IF j - LowBit[j] < i /\ i <= j THEN sums[j] - 3 ELSE sums[j]]
<1> DEFINE Climbs(f) == f = [j \in Nat \ {0} |-> IF j > n THEN {} ELSE {j} \cup f[j + LowBit[j]]]
           above == CHOOSE f : Climbs(f)
           covers(j) == {a \in 1..n : a - LowBit[a] < j /\ j <= a}
           h == [j \in Nat \ {0} |-> covers(j)]
<1>1. Len(sums) = n /\ DOMAIN sums = 1..n
  OBVIOUS
<1>2. \A j \in Nat \ {0} : LowBit[j] \in 1..j /\ j + LowBit[j] \in Nat \ {0} /\ j < j + LowBit[j]
                          /\ j - LowBit[j] < j
  <2> TAKE j \in Nat \ {0}
  <2>1. LowBit[j] \in 1..j
    BY LowBitType
  <2> QED
    BY <2>1
<1>3. ASSUME NEW j \in Nat \ {0} PROVE covers(j) = IF j > n THEN {} ELSE {j} \cup covers(j + LowBit[j])
  <2>1. CASE j > n
    <3>1. \A a \in 1..n : ~(j <= a)
      BY <2>1
    <3> QED
      BY <2>1, <3>1
  <2>2. CASE ~(j > n)
    <3>1. j \in 1..n /\ j \in covers(j)
      BY <1>2, <2>2
    <3>2. ASSUME NEW a \in 1..n, a # j
          PROVE  a - LowBit[a] < j /\ j <= a <=> a - LowBit[a] < j + LowBit[j] /\ j + LowBit[j] <= a
      <4>1. a \in Nat \ {0} /\ LowBit[a] \in Nat /\ LowBit[j] \in Nat /\ j < j + LowBit[j]
        BY <1>2
      <4>2. ASSUME a - LowBit[a] < j, j <= a
            PROVE  a - LowBit[a] < j + LowBit[j] /\ j + LowBit[j] <= a
        <5>1. j < a
          BY <3>2, <4>1, <4>2
        <5>2. j + LowBit[j] <= a
          BY <4>1, <4>2, <5>1, WithinRange
        <5> QED
          BY <4>1, <4>2, <5>2
      <4>3. ASSUME a - LowBit[a] < j + LowBit[j], j + LowBit[j] <= a
            PROVE  a - LowBit[a] < j /\ j <= a
        <5>1. a - LowBit[a] < j
          BY <4>1, <4>3, BeyondRange
        <5> QED
          BY <4>1, <4>3, <5>1
      <4> QED
        BY <4>2, <4>3
    <3>3. \A a \in 1..n : a \in covers(j) <=> a = j \/ a \in covers(j + LowBit[j])
      <4> TAKE a \in 1..n
      <4>1. CASE a = j
        BY <3>1, <4>1
      <4>2. CASE a # j
        BY <3>2, <4>2
      <4> QED
        BY <4>1, <4>2
    <3>4. covers(j) \subseteq 1..n /\ covers(j + LowBit[j]) \subseteq 1..n
      OBVIOUS
    <3> HIDE DEF covers
    <3>5. covers(j) = {j} \cup covers(j + LowBit[j])
      BY <3>1, <3>3, <3>4
    <3> QED
      BY <2>2, <3>5
  <2> QED
    BY <2>1, <2>2
<1> HIDE DEF covers
<1>4. Climbs(h)
  <2>1. \A j \in Nat \ {0} : h[j] = IF j > n THEN {} ELSE {j} \cup h[j + LowBit[j]]
    BY <1>2, <1>3
  <2>2. h = [j \in Nat \ {0} |-> h[j]]
    OBVIOUS
  <2> HIDE DEF h
  <2> QED
    BY <2>1, <2>2
<1>5. Climbs(above)
  <2> HIDE DEF h, Climbs
  <2> QED
    BY <1>4
<1>6. Shrink(sums, i) = [j \in 1..n |-> IF j \in above[i] THEN sums[j] - 3 ELSE sums[j]]
  BY <1>1 DEF Shrink
<1> HIDE DEF above, h
<1> DEFINE S == {m \in Nat : \A j \in 1..n : n - j = m => above[j] = h[j]}
<1>7. ASSUME NEW m \in Nat, \A l \in Nat : l < m => l \in S PROVE m \in S
  <2>1. SUFFICES ASSUME NEW j \in 1..n, n - j = m PROVE above[j] = h[j]
    OBVIOUS
  <2>2. j \in Nat \ {0} /\ ~(j > n) /\ j + LowBit[j] \in Nat \ {0} /\ j < j + LowBit[j]
    BY <1>2
  <2>3. above[j] = {j} \cup above[j + LowBit[j]] /\ h[j] = {j} \cup h[j + LowBit[j]]
    <3> HIDE DEF S
    <3> QED
      BY <1>4, <1>5, <2>2
  <2>4. CASE j + LowBit[j] > n
    <3>1. above[j + LowBit[j]] = {} /\ h[j + LowBit[j]] = {}
      <4> HIDE DEF S
      <4> QED
        BY <1>4, <1>5, <2>2, <2>4
    <3> QED
      BY <2>3, <3>1
  <2>5. CASE ~(j + LowBit[j] > n)
    <3> DEFINE p == j + LowBit[j]
    <3>1. p \in 1..n /\ n - p \in Nat /\ n - p < m
      <4> HIDE DEF S
      <4> QED
        BY <2>1, <2>2, <2>5
    <3>2. n - p \in S
      BY <1>7, <3>1
    <3>3. above[p] = h[p]
      BY <3>1, <3>2
    <3> QED
      BY <2>3, <3>3
  <2> QED
    BY <2>4, <2>5
<1> HIDE DEF S
<1>8. n - i \in S
  <2>1. n - i \in Nat
    OBVIOUS
  <2> QED
    BY <1>7, <2>1, CourseOfValues
<1>9. above[i] = h[i]
  BY <1>8 DEF S
<1>10. above[i] = covers(i)
  BY <1>9 DEF h
<1>11. \A j \in 1..n : j \in above[i] <=> j - LowBit[j] < i /\ i <= j
  BY <1>10 DEF covers
<1> QED
  BY <1>6, <1>11

LEMMA OffsetsNat ==
  ASSUME NEW c \in Seq(Instructions), NEW j \in 1..(Len(c) + 1)
  PROVE  NewOffsets(c)[j] \in Nat
<1> DEFINE offsets == NewOffsets(c)
           m == Len(c) + 1
<1>1. offsets \in Seq(Nat) /\ Len(offsets) = m
  BY OffsetsType
<1>2. j \in 1..m
  OBVIOUS
<1> HIDE DEF offsets, m
<1>3. offsets[j] \in Nat
  BY <1>1, <1>2
<1> QED
  BY <1>3 DEF offsets

LEMMA LayoutShrinks ==
  ASSUME NEW c \in Seq(Instructions), NEW d \in Seq(Instructions), Len(d) = Len(c), NEW k \in DOMAIN c,
         EncodedSize(c[k]) = EncodedSize(d[k]) + 3,
         \A j \in DOMAIN c \ {k} : EncodedSize(d[j]) = EncodedSize(c[j]),
         NEW m \in 0..Len(c)
  PROVE  NewOffsets(d)[m + 1] = NewOffsets(c)[m + 1] - (IF k <= m THEN 3 ELSE 0)
<1> DEFINE n == Len(c)
           Lower(j) == NewOffsets(d)[j + 1] = NewOffsets(c)[j + 1] - (IF k <= j THEN 3 ELSE 0)
           S == {j \in 0..n : Lower(j)}
<1>1. n \in Nat /\ k \in 1..n /\ DOMAIN c = 1..n /\ DOMAIN d = 1..n
  OBVIOUS
<1>2. /\ NewOffsets(c)[1] = 0 /\ \A j \in 1..n : NewOffsets(c)[j + 1] = NewOffsets(c)[j] + EncodedSize(c[j])
      /\ NewOffsets(d)[1] = 0 /\ \A j \in 1..n : NewOffsets(d)[j + 1] = NewOffsets(d)[j] + EncodedSize(d[j])
  BY <1>1, OffsetsType
<1>3. \A j \in 1..(n + 1) : NewOffsets(c)[j] \in Nat
  BY OffsetsNat
<1>4. \A j \in 1..n : EncodedSize(c[j]) \in Nat /\ EncodedSize(d[j]) \in Nat
  <2> TAKE j \in 1..n
  <2>1. c[j] \in Instructions /\ d[j] \in Instructions
    BY <1>1
  <2> QED
    BY <2>1, EncodedSizes
<1>5. 0 \in S
  BY <1>1, <1>2
<1>6. ASSUME NEW j \in 1..n, j - 1 \in S PROVE j \in S
  <2>1. j \in 1..(n + 1) /\ j + 1 \in 1..(n + 1) /\ j - 1 + 1 = j /\ j \in 0..n /\ k \in Int /\ j \in Int
    BY <1>1
  <2>2. NewOffsets(d)[j] = NewOffsets(c)[j] - (IF k <= j - 1 THEN 3 ELSE 0)
    BY <1>6, <2>1
  <2>3. NewOffsets(d)[j + 1] = NewOffsets(d)[j] + EncodedSize(d[j])
    BY <1>2
  <2>4. NewOffsets(c)[j + 1] = NewOffsets(c)[j] + EncodedSize(c[j])
    BY <1>2
  <2>5. NewOffsets(c)[j] \in Nat /\ EncodedSize(c[j]) \in Nat /\ EncodedSize(d[j]) \in Nat
    BY <1>3, <1>4, <2>1
  <2>6. EncodedSize(c[j]) = EncodedSize(d[j]) + (IF j = k THEN 3 ELSE 0)
    <3>1. CASE j = k
      BY <3>1
    <3>2. CASE j # k
      BY <1>1, <2>5, <3>2
    <3> QED
      BY <3>1, <3>2
  <2> HIDE DEF S, n
  <2>7. Lower(j)
    <3>1. CASE j = k
      BY <2>1, <2>2, <2>3, <2>4, <2>5, <2>6, <3>1
    <3>2. CASE j < k
      BY <2>1, <2>2, <2>3, <2>4, <2>5, <2>6, <3>2
    <3>3. CASE j > k
      BY <2>1, <2>2, <2>3, <2>4, <2>5, <2>6, <3>3
    <3> QED
      BY <2>1, <3>1, <3>2, <3>3
  <2> QED
    BY <2>1, <2>7 DEF S
<1> HIDE DEF S, n
<1>7. m \in S
  <2>1. m \in 0..n
    BY DEF n
  <2> QED
    BY <1>1, <1>5, <1>6, <2>1, CountingUp
<1> QED
  BY <1>7 DEF S

(* A shrink keeps the tree that of the shortened body.                       *)
LEMMA ShrinkFollows ==
  ASSUME NEW c \in Seq(Instructions), NEW sums, RangeSums(sums, c),
         NEW d \in Seq(Instructions), Len(d) = Len(c), NEW k \in DOMAIN c,
         EncodedSize(c[k]) = EncodedSize(d[k]) + 3,
         \A j \in DOMAIN c \ {k} : EncodedSize(d[j]) = EncodedSize(c[j])
  PROVE  RangeSums(Shrink(sums, k), d)
<1> DEFINE n == Len(c)
           new == Shrink(sums, k)
<1>1. n \in Nat /\ k \in 1..n /\ Len(d) = n /\ sums \in [1..n -> Int]
  BY DEF RangeSums
<1>2. new = [j \in 1..n |-> IF j - LowBit[j] < k /\ k <= j THEN sums[j] - 3 ELSE sums[j]]
  BY <1>1, ShrinkCovers
<1> HIDE DEF new
<1>3. new \in [1..n -> Int]
  BY <1>1, <1>2
<1>4. ASSUME NEW j \in 1..n
      PROVE  new[j] = NewOffsets(d)[j + 1] - NewOffsets(d)[j - LowBit[j] + 1]
  <2>1. PICK low \in Nat : low = j - LowBit[j] /\ low < j
    <3>1. j - LowBit[j] \in 0..(j - 1)
      BY RangeFacts
    <3> QED
      BY <1>1, <3>1
  <2>2. j \in 0..n /\ low \in 0..n
    BY <1>1, <2>1
  <2>3. NewOffsets(c)[j + 1] \in Nat /\ NewOffsets(c)[low + 1] \in Nat
    BY <2>2, RangeFacts
  <2>4. /\ NewOffsets(d)[j + 1] = NewOffsets(c)[j + 1] - (IF k <= j THEN 3 ELSE 0)
        /\ NewOffsets(d)[low + 1] = NewOffsets(c)[low + 1] - (IF k <= low THEN 3 ELSE 0)
    BY <2>2, LayoutShrinks
  <2>5. sums[j] = NewOffsets(c)[j + 1] - NewOffsets(c)[low + 1]
    BY <2>1 DEF RangeSums
  <2>6. new[j] = IF low < k /\ k <= j THEN sums[j] - 3 ELSE sums[j]
    BY <1>2, <2>1
  <2> DEFINE C == NewOffsets(c)[j + 1]
             L == NewOffsets(c)[low + 1]
  <2>7. C \in Nat /\ L \in Nat /\ low < j /\ low \in Nat /\ j \in Nat /\ k \in Nat
    BY <1>1, <2>1, <2>3
  <2>8. NewOffsets(d)[j + 1] - NewOffsets(d)[low + 1]
          = (C - (IF k <= j THEN 3 ELSE 0)) - (L - (IF k <= low THEN 3 ELSE 0))
    BY <2>4
  <2>9. new[j] = IF low < k /\ k <= j THEN (C - L) - 3 ELSE C - L
    BY <2>5, <2>6
  <2> HIDE DEF C, L
  <2>10. (C - (IF k <= j THEN 3 ELSE 0)) - (L - (IF k <= low THEN 3 ELSE 0))
           = IF low < k /\ k <= j THEN (C - L) - 3 ELSE C - L
    BY <2>7
  <2> QED
    BY <2>1, <2>8, <2>9, <2>10
<1> QED
  BY <1>1, <1>3, <1>4 DEF RangeSums, new

-------------------------------------------------------------------------------
(* The pass over the branches against the one that lays out the body again.  *)

LayoutStep(c, old, k, before) ==
  LET target == IF c[k].op = "br" THEN IndexIn(old, c[k].to[1]) ELSE 0
      off    == NewOffsets(before)
      moved  == off[target] - (IF target > k THEN 3 ELSE 0)
  IN  IF target # 0 /\ FitsShort(moved - (off[k] + 2))
        THEN [before EXCEPT ![k].op = "br_s"] ELSE before

LayoutPass(c, old, n, f) ==
  f = [k \in 0..n |-> IF k = 0 THEN c ELSE LayoutStep(c, old, k, f[k - 1])]

(* After k turns: a body whose branches after k are as they were, and the    *)
(* tree of its sizes.                                                        *)
Shortening(c, k, now) ==
  /\ now.code \in Seq(Instructions) /\ Len(now.code) = Len(c)
  /\ \A j \in DOMAIN c : j > k => now.code[j] = c[j]
  /\ RangeSums(now.sums, now.code)

LEMMA IndexRange ==
  ASSUME NEW old, NEW m \in Nat, DOMAIN old = 1..m, NEW t
  PROVE  IndexIn(old, t) = 0 \/ (IndexIn(old, t) \in 1..m /\ old[IndexIn(old, t)] = t)
<1>1. CASE t \in Range(old)
  <2>1. \E k \in DOMAIN old : old[k] = t
    BY <1>1 DEF Range
  <2> QED
    BY <1>1, <2>1 DEF IndexIn
<1>2. CASE t \notin Range(old)
  BY <1>2 DEF IndexIn
<1> QED
  BY <1>1, <1>2

LEMMA Shorten ==
  ASSUME NEW c \in Seq(Instructions), NEW k \in DOMAIN c, c[k].op = "br"
  PROVE  LET d == [c EXCEPT ![k].op = "br_s"]
         IN  /\ d \in Seq(Instructions) /\ Len(d) = Len(c) /\ DOMAIN d = DOMAIN c
             /\ d[k].op = "br_s" /\ d[k].to = c[k].to /\ d[k].off = c[k].off
             /\ \A j \in DOMAIN c \ {k} : d[j] = c[j]
             /\ EncodedSize(d[k]) = 2 /\ EncodedSize(c[k]) = 5
<1> DEFINE i == [c[k] EXCEPT !.op = "br_s"]
           d == [c EXCEPT ![k].op = "br_s"]
<1>1. c[k] \in Instructions /\ Len(c) \in Nat /\ DOMAIN c = 1..Len(c)
  OBVIOUS
<1>2. c[k] \in [op : Opcodes, off : Nat, to : Seq(Int)]
  BY <1>1, InstructionForm
<1>3. i \in Instructions /\ i.op = "br_s" /\ i.to = c[k].to /\ i.off = c[k].off
  <2>1. "br_s" \in Opcodes /\ Operands("br_s") = Operands(c[k].op)
    BY DEF Opcodes, Operands, Branches
  <2>2. i \in Instructions /\ i.op = "br_s"
    BY <1>1, <2>1, Recoded
  <2> QED
    BY <1>2, <2>2
<1>4. EncodedSize(i) = 2 /\ EncodedSize(c[k]) = 5
  <2> HIDE DEF i
  <2> QED
    BY <1>3 DEF EncodedSize, Size
<1>5. d = [c EXCEPT ![k] = i]
  OBVIOUS
<1> HIDE DEF i, d
<1>6. d \in Seq(Instructions) /\ Len(d) = Len(c) /\ DOMAIN d = DOMAIN c
  BY <1>1, <1>3, <1>5
<1>7. d[k] = i /\ \A j \in DOMAIN c \ {k} : d[j] = c[j]
  BY <1>1, <1>5
<1>8. /\ d \in Seq(Instructions) /\ Len(d) = Len(c) /\ DOMAIN d = DOMAIN c
      /\ d[k].op = "br_s" /\ d[k].to = c[k].to /\ d[k].off = c[k].off
      /\ \A j \in DOMAIN c \ {k} : d[j] = c[j]
      /\ EncodedSize(d[k]) = 2 /\ EncodedSize(c[k]) = 5
  BY <1>3, <1>4, <1>6, <1>7
<1> QED
  BY <1>8 DEF d

(* One turn: the tree answers what the layout says.                          *)
LEMMA ShortenExact ==
  ASSUME NEW c \in Seq(Instructions), NEW old, DOMAIN old = 1..(Len(c) + 1),
         NEW k \in DOMAIN c, NEW now, Shortening(c, k - 1, now)
  PROVE  /\ ShortenStep(c, old, k, now).code = LayoutStep(c, old, k, now.code)
         /\ Shortening(c, k, ShortenStep(c, old, k, now))
<1> DEFINE n == Len(c)
           b == now.code
           target == IF c[k].op = "br" THEN IndexIn(old, c[k].to[1]) ELSE 0
           d == [b EXCEPT ![k].op = "br_s"]
<1>1. /\ n \in Nat /\ k \in 1..n /\ DOMAIN c = 1..n /\ b \in Seq(Instructions) /\ Len(b) = n /\ DOMAIN b = 1..n
      /\ RangeSums(now.sums, b) /\ b[k] = c[k] /\ \A j \in 1..n : j > k => b[j] = c[j]
  <2>1. /\ n \in Nat /\ k \in 1..n /\ DOMAIN c = 1..n /\ b \in Seq(Instructions) /\ Len(b) = n
        /\ \A j \in DOMAIN c : j > k - 1 => b[j] = c[j]
    BY DEF Shortening
  <2>2. \A j \in 1..n : j >= k => b[j] = c[j]
    BY <2>1
  <2>3. DOMAIN b = 1..n /\ RangeSums(now.sums, b)
    BY <2>1 DEF Shortening
  <2> HIDE DEF b, n
  <2> QED
    BY <2>1, <2>2, <2>3
<1>2. target # 0 => target \in 1..(n + 1) /\ c[k].op = "br"
  BY <1>1, IndexRange
<1>3. ASSUME target # 0
      PROVE  /\ OffsetOf(now.sums, target - 1) = NewOffsets(b)[target]
             /\ OffsetOf(now.sums, k - 1) = NewOffsets(b)[k]
  <2> HIDE DEF target, b
  <2>1. target - 1 \in 0..n /\ target - 1 + 1 = target /\ k - 1 \in 0..n /\ k - 1 + 1 = k
    BY <1>1, <1>2, <1>3
  <2>2. \A m \in 0..n : OffsetOf(now.sums, m) = NewOffsets(b)[m + 1]
    BY <1>1, QueryAnswers
  <2> QED
    BY <2>1, <2>2
<1>4. target # 0 => Displacement(now.sums, k, target)
                      = NewOffsets(b)[target] - (IF target > k THEN 3 ELSE 0) - (NewOffsets(b)[k] + 2)
  <2> HIDE DEF target
  <2> QED
    BY <1>3 DEF Displacement
<1> DEFINE fits == target # 0 /\ FitsShort(Displacement(now.sums, k, target))
<1>5. /\ ShortenStep(c, old, k, now) = IF fits THEN [code |-> d, sums |-> Shrink(now.sums, k)] ELSE now
      /\ LayoutStep(c, old, k, b) = IF fits THEN d ELSE b
  <2>1. ShortenStep(c, old, k, now) = IF fits THEN [code |-> d, sums |-> Shrink(now.sums, k)] ELSE now
    BY DEF ShortenStep
  <2>2. LayoutStep(c, old, k, b) = IF target # 0 /\ FitsShort(NewOffsets(b)[target] - (IF target > k THEN 3 ELSE 0)
                                                                 - (NewOffsets(b)[k] + 2))
                                     THEN d ELSE b
    BY DEF LayoutStep
  <2> HIDE DEF target, b, d
  <2> QED
    BY <1>4, <2>1, <2>2
<1>6. ASSUME fits PROVE Shortening(c, k, [code |-> d, sums |-> Shrink(now.sums, k)])
  <2>1. b[k].op = "br" /\ k \in DOMAIN b
    BY <1>1, <1>2, <1>6
  <2>2. /\ d \in Seq(Instructions) /\ Len(d) = Len(b)
        /\ \A j \in DOMAIN b \ {k} : d[j] = b[j]
        /\ EncodedSize(d[k]) = 2 /\ EncodedSize(b[k]) = 5
    <3> HIDE DEF b
    <3> QED
      BY <1>1, <2>1, Shorten
  <2> HIDE DEF b, d, n, target
  <2>3. /\ EncodedSize(b[k]) = EncodedSize(d[k]) + 3
        /\ \A j \in DOMAIN b \ {k} : EncodedSize(d[j]) = EncodedSize(b[j])
    BY <2>2
  <2>4. RangeSums(Shrink(now.sums, k), d)
    BY <1>1, <2>1, <2>2, <2>3, ShrinkFollows
  <2>5. \A j \in DOMAIN c : j > k => d[j] = c[j]
    BY <1>1, <2>2
  <2> QED
    BY <1>1, <2>2, <2>4, <2>5 DEF Shortening, n
<1>7. ASSUME ~fits PROVE Shortening(c, k, now)
  BY <1>1 DEF Shortening
<1> HIDE DEF fits, d, target, b
<1>8. ShortenStep(c, old, k, now).code = LayoutStep(c, old, k, now.code)
  BY <1>5 DEF b
<1> QED
  BY <1>5, <1>6, <1>7, <1>8

LEMMA ShortenRun ==
  ASSUME NEW c \in Seq(Instructions), NEW old, DOMAIN old = 1..(Len(c) + 1),
         NEW f, ShortenPass(c, old, Len(c), f), NEW k \in 0..Len(c)
  PROVE  Shortening(c, k, f[k])
<1> DEFINE n == Len(c)
           S == {j \in 0..n : Shortening(c, j, f[j])}
<1>1. n \in Nat /\ DOMAIN c = 1..n
  OBVIOUS
<1>2. f[0].code = c /\ f[0].sums = InstructionSizes(c)
  BY <1>1 DEF ShortenPass
<1>3. 0 \in S
  BY <1>1, <1>2, SizesBuilt DEF Shortening
<1>4. ASSUME NEW j \in 1..n, j - 1 \in S PROVE j \in S
  <2>1. f[j] = ShortenStep(c, old, j, f[j - 1])
    <3>1. j \in 0..n /\ j # 0
      BY <1>1
    <3> HIDE DEF S
    <3> QED
      BY <3>1 DEF ShortenPass
  <2>2. Shortening(c, j - 1, f[j - 1]) /\ j \in DOMAIN c /\ j \in 0..n
    BY <1>1, <1>4
  <2>3. Shortening(c, j, f[j])
    BY <2>1, <2>2, ShortenExact
  <2> QED
    BY <2>2, <2>3
<1> HIDE DEF S
<1>5. k \in S
  BY <1>1, <1>3, <1>4, CountingUp
<1> QED
  BY <1>5 DEF S

LEMMA PassesAgree ==
  ASSUME NEW c \in Seq(Instructions), NEW old, DOMAIN old = 1..(Len(c) + 1)
  PROVE  OptimizeBranches(c, old) = ShortenByLayout(c, old)
<1> DEFINE n == Len(c)
           f == CHOOSE x : ShortenPass(c, old, n, x)
           g == CHOOSE x : LayoutPass(c, old, n, x)
           codes == [k \in 0..n |-> f[k].code]
<1>1. n \in Nat /\ DOMAIN c = 1..n
  OBVIOUS
<1>2. OptimizeBranches(c, old) = f[n].code
  BY DEF OptimizeBranches, ShortenPass, ShortenStep
<1>3. ShortenByLayout(c, old) = g[n]
  BY DEF ShortenByLayout, LayoutPass, LayoutStep
<1>4. ShortenPass(c, old, n, f)
  BY <1>1, ShortenPassExists
<1> HIDE DEF f
<1>5. f[0].code = c /\ \A k \in 1..n : f[k] = ShortenStep(c, old, k, f[k - 1])
  <2>1. 0 \in 0..n /\ \A k \in 1..n : k \in 0..n /\ k # 0
    BY <1>1
  <2>2. f = [k \in 0..n |-> IF k = 0 THEN [code |-> c, sums |-> InstructionSizes(c)]
                              ELSE ShortenStep(c, old, k, f[k - 1])]
    BY <1>4 DEF ShortenPass
  <2> HIDE DEF n
  <2>3. f[0] = [code |-> c, sums |-> InstructionSizes(c)]
    BY <2>1, <2>2
  <2>4. \A k \in 1..n : f[k] = ShortenStep(c, old, k, f[k - 1])
    BY <2>1, <2>2
  <2> QED
    BY <2>3, <2>4
<1>6. \A k \in 1..n : f[k].code = LayoutStep(c, old, k, f[k - 1].code)
  <2> TAKE k \in 1..n
  <2>1. k - 1 \in 0..n /\ k \in DOMAIN c
    BY <1>1
  <2>2. Shortening(c, k - 1, f[k - 1])
    BY <1>4, <2>1, ShortenRun
  <2> QED
    BY <1>5, <2>1, <2>2, ShortenExact
<1>7. codes[0] = c /\ \A k \in 1..n : k - 1 \in 0..n /\ codes[k] = LayoutStep(c, old, k, codes[k - 1])
  <2>1. 0 \in 0..n /\ \A k \in 1..n : k \in 0..n /\ k - 1 \in 0..n
    BY <1>1
  <2> HIDE DEF n
  <2> QED
    BY <1>5, <1>6, <2>1
<1>8. LayoutPass(c, old, n, codes)
  <2>1. \A k \in 0..n : k = 0 \/ k \in 1..n
    BY <1>1
  <2>2. codes = [k \in 0..n |-> codes[k]]
    OBVIOUS
  <2> HIDE DEF codes, n
  <2>3. \A k \in 0..n : codes[k] = IF k = 0 THEN c ELSE LayoutStep(c, old, k, codes[k - 1])
    <3>1. \A k \in 1..n : k # 0
      BY <1>1
    <3> QED
      BY <1>7, <2>1, <3>1
  <2> QED
    BY <2>2, <2>3 DEF LayoutPass
<1>9. LayoutPass(c, old, n, g)
  <2> HIDE DEF codes
  <2> QED
    BY <1>8
<1> HIDE DEF g, codes
<1> DEFINE S == {k \in 0..n : g[k] = codes[k]}
<1>10. g[0] = c /\ \A k \in 1..n : g[k] = LayoutStep(c, old, k, g[k - 1])
  <2>1. 0 \in 0..n /\ \A k \in 1..n : k \in 0..n /\ k # 0
    BY <1>1
  <2> HIDE DEF n
  <2> QED
    BY <1>9, <2>1 DEF LayoutPass
<1>11. 0 \in S
  BY <1>1, <1>7, <1>10
<1>12. ASSUME NEW k \in 1..n, k - 1 \in S PROVE k \in S
  <2>1. k \in 0..n /\ g[k - 1] = codes[k - 1]
    BY <1>1, <1>12
  <2>2. g[k] = codes[k]
    BY <1>7, <1>10, <2>1
  <2> QED
    BY <2>1, <2>2
<1> HIDE DEF S
<1>13. n \in S
  <2>1. \A k \in 0..n : k \in S
    BY <1>1, <1>11, <1>12, CountingUp
  <2> QED
    BY <1>1, <2>1
<1>14. g[n] = codes[n] /\ n \in 0..n
  BY <1>1, <1>13 DEF S
<1> QED
  BY <1>2, <1>3, <1>14 DEF codes

(* The tree of sizes of edit.rs:776 keeps exact prefix sums through all      *)
(* shrinks: what is shortened is what a full recomputation of the layout     *)
(* after each branch would shorten, for bodies of any length.                *)
THEOREM ShorteningIsExact == Spec => []ShorteningExact
<1>1. TypeOK => ShorteningExact
  <2> SUFFICES ASSUME TypeOK
               PROVE  LET short == OptimizeInstructions(code)
                      IN  OptimizeBranches(short, Snapshot(code)) = ShortenByLayout(short, Snapshot(code))
    BY DEF ShorteningExact
  <2> DEFINE short == OptimizeInstructions(code)
  <2>1. code \in Seq(Instructions)
    BY DEF TypeOK
  <2>2. short \in Seq(Instructions) /\ Len(short) = Len(code)
    BY <2>1, OptimizedInstructions
  <2>3. Snapshot(code) \in Seq(Nat) /\ Len(Snapshot(code)) = Len(code) + 1 /\ Len(code) \in Nat
    BY <2>1, SnapshotType
  <2>4. DOMAIN Snapshot(code) = 1..(Len(short) + 1)
    BY <2>2, <2>3
  <2> HIDE DEF short
  <2>5. OptimizeBranches(short, Snapshot(code)) = ShortenByLayout(short, Snapshot(code))
    BY <2>2, <2>4, PassesAgree
  <2> QED
    BY <2>5 DEF short
<1>2. Spec => []TypeOK
  BY BodyTypeCorrect
<1> QED
  BY <1>1, <1>2, PTL

-------------------------------------------------------------------------------
(* Branches shortened early still reach: when instructions shrink, distances *)
(* do.                                                                       *)

LEMMA ApartStep ==
  ASSUME NEW c0 \in Nat, NEW c1 \in Nat, NEW d0 \in Nat, NEW d1 \in Nat, NEW x \in Nat, NEW y \in Nat,
         d0 <= d1, d1 - d0 <= c1 - c0, y <= x
  PROVE  d0 <= d1 + y /\ (d1 + y) - d0 <= (c1 + x) - c0
OBVIOUS

LEMMA DistancesShrink ==
  ASSUME NEW c \in Seq(Instructions), NEW d \in Seq(Instructions), Len(d) = Len(c),
         \A j \in DOMAIN c : EncodedSize(d[j]) <= EncodedSize(c[j]),
         NEW b \in 0..Len(c), NEW a \in 0..b
  PROVE  /\ NewOffsets(d)[a + 1] <= NewOffsets(d)[b + 1]
         /\ NewOffsets(d)[b + 1] - NewOffsets(d)[a + 1] <= NewOffsets(c)[b + 1] - NewOffsets(c)[a + 1]
<1> DEFINE n == Len(c)
           C(j) == NewOffsets(c)[j + 1]
           D(j) == NewOffsets(d)[j + 1]
           Shrinks(i, j) == D(i) <= D(j) /\ D(j) - D(i) <= C(j) - C(i)
           S == {j \in 0..n : \A i \in 0..j : Shrinks(i, j)}
<1>1. n \in Nat /\ DOMAIN c = 1..n /\ DOMAIN d = 1..n
  OBVIOUS
<1>2. \A j \in 0..n : C(j) \in Nat /\ D(j) \in Nat
  <2> TAKE j \in 0..n
  <2>1. j + 1 \in 1..(Len(c) + 1) /\ j + 1 \in 1..(Len(d) + 1)
    BY <1>1
  <2> QED
    BY <2>1, OffsetsNat
<1>3. \A j \in 1..n : /\ C(j) = C(j - 1) + EncodedSize(c[j]) /\ D(j) = D(j - 1) + EncodedSize(d[j])
                      /\ EncodedSize(c[j]) \in Nat /\ EncodedSize(d[j]) \in Nat
                      /\ EncodedSize(d[j]) <= EncodedSize(c[j])
  <2> TAKE j \in 1..n
  <2>1. j - 1 + 1 = j /\ j \in DOMAIN c /\ j \in DOMAIN d
    BY <1>1
  <2>2. c[j] \in Instructions /\ d[j] \in Instructions
    BY <2>1
  <2>3. EncodedSize(c[j]) \in Nat /\ EncodedSize(d[j]) \in Nat
    BY <2>2, EncodedSizes
  <2>4. NewOffsets(c)[j + 1] = NewOffsets(c)[j] + EncodedSize(c[j])
        /\ NewOffsets(d)[j + 1] = NewOffsets(d)[j] + EncodedSize(d[j])
    BY <2>1, OffsetsType
  <2> QED
    BY <2>1, <2>3, <2>4
<1> HIDE DEF C, D
<1>4. 0 \in S
  <2>1. \A i \in 0..0 : i = 0
    OBVIOUS
  <2>2. 0 \in 0..n /\ C(0) \in Nat /\ D(0) \in Nat
    BY <1>1, <1>2
  <2>3. Shrinks(0, 0)
    BY <2>2
  <2> QED
    BY <2>1, <2>2, <2>3
<1>5. ASSUME NEW j \in 1..n, j - 1 \in S PROVE j \in S
  <2> HIDE DEF n
  <2>1. j \in 0..n /\ j - 1 \in 0..n
    BY <1>1
  <2>2. ASSUME NEW i \in 0..j PROVE Shrinks(i, j)
    <3>1. C(j) \in Nat /\ D(j) \in Nat /\ C(j - 1) \in Nat /\ D(j - 1) \in Nat
      BY <1>2, <2>1
    <3>2. CASE i = j
      BY <3>1, <3>2
    <3>3. CASE i # j
      <4>1. i \in 0..(j - 1) /\ i \in 0..n
        BY <1>1, <3>3
      <4>2. D(i) <= D(j - 1) /\ D(j - 1) - D(i) <= C(j - 1) - C(i) /\ C(i) \in Nat /\ D(i) \in Nat
        BY <1>2, <1>5, <4>1
      <4>3. PICK x \in Nat, y \in Nat : C(j) = C(j - 1) + x /\ D(j) = D(j - 1) + y /\ y <= x
        BY <1>3
      <4> HIDE DEF S
      <4>4. D(i) <= D(j - 1) + y /\ (D(j - 1) + y) - D(i) <= (C(j - 1) + x) - C(i)
        BY <3>1, <4>2, <4>3, ApartStep
      <4>5. D(i) <= D(j) /\ D(j) - D(i) <= C(j) - C(i)
        BY <4>3, <4>4
      <4> QED
        BY <4>5
    <3> QED
      BY <3>2, <3>3
  <2> QED
    BY <2>1, <2>2
<1> HIDE DEF S
<1>6. b \in S
  <2>1. b \in 0..n
    BY DEF n
  <2> QED
    BY <1>1, <1>4, <1>5, <2>1, CountingUp
<1>7. Shrinks(a, b)
  BY <1>6 DEF S
<1> QED
  BY <1>7 DEF C, D

LEMMA FitsBetween ==
  ASSUME NEW x \in Int, NEW y \in Int, FitsShort(x), (0 <= y /\ y <= x) \/ (x <= y /\ y <= 0)
  PROVE  FitsShort(y)
BY DEF FitsShort

LEMMA StillReaches ==
  ASSUME NEW c \in Seq(Instructions), NEW d \in Seq(Instructions), Len(d) = Len(c),
         \A j \in DOMAIN c : EncodedSize(d[j]) <= EncodedSize(c[j]),
         NEW m \in DOMAIN c, EncodedSize(c[m]) = 2, EncodedSize(d[m]) = 2,
         NEW t \in 1..(Len(c) + 1),
         FitsShort(NewOffsets(c)[t] - (NewOffsets(c)[m] + 2))
  PROVE  FitsShort(NewOffsets(d)[t] - (NewOffsets(d)[m] + 2))
<1> DEFINE n == Len(c)
           C(j) == NewOffsets(c)[j]
           D(j) == NewOffsets(d)[j]
<1>1. n \in Nat /\ DOMAIN c = 1..n /\ DOMAIN d = 1..n /\ m \in 1..n
  OBVIOUS
<1>2. \A j \in 1..(n + 1) : C(j) \in Nat /\ D(j) \in Nat
  <2> TAKE j \in 1..(n + 1)
  <2>1. j \in 1..(Len(c) + 1) /\ j \in 1..(Len(d) + 1)
    OBVIOUS
  <2> QED
    BY <2>1, OffsetsNat
<1>3. C(m + 1) = C(m) + 2 /\ D(m + 1) = D(m) + 2
  <2>1. C(m + 1) = C(m) + EncodedSize(c[m])
    BY OffsetsType
  <2>2. D(m + 1) = D(m) + EncodedSize(d[m])
    BY <1>1, OffsetsType
  <2> QED
    BY <2>1, <2>2
<1>4. ASSUME NEW a \in 1..(n + 1), NEW b \in 1..(n + 1), a <= b
      PROVE  D(a) <= D(b) /\ D(b) - D(a) <= C(b) - C(a)
  <2>1. b - 1 \in 0..n /\ a - 1 \in 0..(b - 1) /\ a - 1 + 1 = a /\ b - 1 + 1 = b
    BY <1>1, <1>4
  <2>2. /\ NewOffsets(d)[(a - 1) + 1] <= NewOffsets(d)[(b - 1) + 1]
        /\ NewOffsets(d)[(b - 1) + 1] - NewOffsets(d)[(a - 1) + 1]
             <= NewOffsets(c)[(b - 1) + 1] - NewOffsets(c)[(a - 1) + 1]
    BY <2>1, DistancesShrink
  <2> QED
    BY <2>1, <2>2
<1>5. m \in 1..(n + 1) /\ m + 1 \in 1..(n + 1) /\ t \in 1..(n + 1)
  BY <1>1
<1>6. FitsShort(C(t) - (C(m) + 2))
  OBVIOUS
<1> HIDE DEF C, D, n
<1>7. C(t) \in Nat /\ D(t) \in Nat /\ C(m) \in Nat /\ D(m) \in Nat
  BY <1>2, <1>5
<1> DEFINE x == C(t) - (C(m) + 2)
           y == D(t) - (D(m) + 2)
<1>8. x \in Int /\ y \in Int
  BY <1>7
<1>9. (0 <= y /\ y <= x) \/ (x <= y /\ y <= 0)
  <2>1. CASE t > m
    <3>1. m + 1 <= t
      BY <1>5, <2>1 DEF n
    <3>2. D(m + 1) <= D(t) /\ D(t) - D(m + 1) <= C(t) - C(m + 1)
      BY <1>4, <1>5, <3>1
    <3> QED
      BY <1>3, <1>7, <3>2
  <2>2. CASE ~(t > m)
    <3>1. t <= m
      BY <1>5, <2>2 DEF n
    <3>2. D(t) <= D(m) /\ D(m) - D(t) <= C(m) - C(t)
      BY <1>4, <1>5, <3>1
    <3> QED
      BY <1>7, <3>2
  <2> QED
    BY <2>1, <2>2
<1>10. FitsShort(x)
  BY <1>6
<1> HIDE DEF x, y
<1>11. FitsShort(y)
  BY <1>8, <1>9, <1>10, FitsBetween
<1> QED
  BY <1>11 DEF D, y

(* Body b has the operands of c, and its short branches to a place the       *)
(* snapshot knows reach it.                                                  *)
Reaches(b, c, old) ==
  \A m \in DOMAIN c :
    /\ b[m].to = c[m].to
    /\ b[m].op = "br_s" /\ IndexIn(old, c[m].to[1]) # 0 =>
         FitsShort(NewOffsets(b)[IndexIn(old, c[m].to[1])] - (NewOffsets(b)[m] + 2))

LEMMA ReachesSmaller ==
  ASSUME NEW b \in Seq(Instructions), NEW d \in Seq(Instructions), NEW c \in Seq(Instructions),
         Len(b) = Len(c), Len(d) = Len(c),
         NEW old, DOMAIN old = 1..(Len(c) + 1), Reaches(b, c, old),
         NEW m \in DOMAIN c, b[m].op = "br_s", d[m].op = "br_s",
         \A j \in DOMAIN c : EncodedSize(d[j]) <= EncodedSize(b[j]),
         IndexIn(old, c[m].to[1]) # 0
  PROVE  FitsShort(NewOffsets(d)[IndexIn(old, c[m].to[1])] - (NewOffsets(d)[m] + 2))
<1> DEFINE t == IndexIn(old, c[m].to[1])
<1>1. Len(c) \in Nat /\ DOMAIN b = 1..Len(c) /\ DOMAIN c = 1..Len(c) /\ DOMAIN b = DOMAIN c
  OBVIOUS
<1>2. t \in 1..(Len(b) + 1)
  <2>1. Len(c) + 1 \in Nat
    BY <1>1
  <2> QED
    BY <2>1, IndexRange
<1>3. EncodedSize(b[m]) = 2 /\ EncodedSize(d[m]) = 2
  BY DEF EncodedSize, Size
<1>4. FitsShort(NewOffsets(b)[t] - (NewOffsets(b)[m] + 2))
  BY DEF Reaches
<1> HIDE DEF t
<1>5. FitsShort(NewOffsets(d)[t] - (NewOffsets(d)[m] + 2))
  BY <1>1, <1>2, <1>3, <1>4, StillReaches
<1> QED
  BY <1>5 DEF t

(* One turn of the pass.                                                     *)
LEMMA ReachesAfterTurn ==
  ASSUME NEW c \in Seq(Instructions), NEW b \in Seq(Instructions), Len(b) = Len(c),
         NEW old, DOMAIN old = 1..(Len(c) + 1), NEW k \in DOMAIN c, b[k] = c[k],
         Reaches(b, c, old)
  PROVE  Reaches(LayoutStep(c, old, k, b), c, old)
<1> DEFINE n == Len(c)
           target == IF c[k].op = "br" THEN IndexIn(old, c[k].to[1]) ELSE 0
           d == [b EXCEPT ![k].op = "br_s"]
           fits == target # 0 /\ FitsShort(NewOffsets(b)[target] - (IF target > k THEN 3 ELSE 0)
                                             - (NewOffsets(b)[k] + 2))
<1>1. n \in Nat /\ DOMAIN c = 1..n /\ DOMAIN b = DOMAIN c /\ k \in 1..n /\ n + 1 \in Nat
  OBVIOUS
<1>2. LayoutStep(c, old, k, b) = IF fits THEN d ELSE b
  BY DEF LayoutStep
<1>3. ASSUME fits PROVE Reaches(d, c, old)
  <2>1. c[k].op = "br" /\ target = IndexIn(old, c[k].to[1]) /\ target \in 1..(n + 1)
    BY <1>1, <1>3, IndexRange
  <2>2. /\ d \in Seq(Instructions) /\ Len(d) = n /\ d[k].to = b[k].to /\ d[k].op = "br_s"
        /\ \A j \in DOMAIN c \ {k} : d[j] = b[j]
        /\ EncodedSize(d[k]) = 2 /\ EncodedSize(b[k]) = 5
    <3>1. b[k].op = "br" /\ k \in DOMAIN b
      BY <1>1, <2>1
    <3> QED
      BY <1>1, <3>1, Shorten
  <2> HIDE DEF d
  <2>3. \A j \in DOMAIN c : EncodedSize(d[j]) <= EncodedSize(b[j])
    <3> TAKE j \in DOMAIN c
    <3>1. CASE j = k
      BY <2>2, <3>1
    <3>2. CASE j # k
      <4>1. b[j] \in Instructions /\ d[j] = b[j]
        BY <1>1, <2>2, <3>2
      <4>2. EncodedSize(b[j]) \in Nat
        BY <4>1, EncodedSizes
      <4> QED
        BY <4>1, <4>2
    <3> QED
      BY <3>1, <3>2
  <2>4. /\ NewOffsets(d)[target] = NewOffsets(b)[target] - (IF target > k THEN 3 ELSE 0)
        /\ NewOffsets(d)[k] = NewOffsets(b)[k]
    <3> HIDE DEF target, n
    <3>1. \A m \in 0..Len(b) : NewOffsets(d)[m + 1] = NewOffsets(b)[m + 1] - (IF k <= m THEN 3 ELSE 0)
      <4>1. EncodedSize(b[k]) = EncodedSize(d[k]) + 3 /\ k \in DOMAIN b
            /\ \A j \in DOMAIN b \ {k} : EncodedSize(d[j]) = EncodedSize(b[j])
        BY <1>1, <2>2
      <4> QED
        BY <2>2, <4>1, LayoutShrinks DEF n
    <3>2. /\ target - 1 \in 0..n /\ target - 1 + 1 = target /\ (k <= target - 1 <=> target > k)
          /\ k - 1 \in 0..n /\ k - 1 + 1 = k /\ ~(k <= k - 1)
      BY <1>1, <2>1
    <3>3. Len(b) = n
      BY DEF n
    <3>4. NewOffsets(d)[target] = NewOffsets(b)[target] - (IF target > k THEN 3 ELSE 0)
      BY <3>1, <3>2, <3>3
    <3>5. NewOffsets(d)[k] = NewOffsets(b)[k] - 0
      BY <3>1, <3>2, <3>3
    <3>6. NewOffsets(b)[k] \in Nat
      <4>1. k \in 1..(Len(b) + 1)
        BY <1>1, <3>3
      <4> QED
        BY <4>1, OffsetsNat
    <3> QED
      BY <3>4, <3>5, <3>6
  <2>5. ASSUME NEW m \in DOMAIN c
        PROVE  /\ d[m].to = c[m].to
               /\ d[m].op = "br_s" /\ IndexIn(old, c[m].to[1]) # 0 =>
                    FitsShort(NewOffsets(d)[IndexIn(old, c[m].to[1])] - (NewOffsets(d)[m] + 2))
    <3>1. CASE m = k
      BY <1>3, <2>1, <2>2, <2>4, <3>1
    <3>2. CASE m # k
      <4>1. d[m] = b[m] /\ b[m].to = c[m].to
        BY <2>2, <3>2 DEF Reaches
      <4>2. ASSUME d[m].op = "br_s", IndexIn(old, c[m].to[1]) # 0
            PROVE  FitsShort(NewOffsets(d)[IndexIn(old, c[m].to[1])] - (NewOffsets(d)[m] + 2))
        BY <2>2, <2>3, <4>1, <4>2, ReachesSmaller DEF n
      <4> QED
        BY <4>1, <4>2
    <3> QED
      BY <3>1, <3>2
  <2> QED
    BY <2>5 DEF Reaches
<1> QED
  BY <1>2, <1>3

LEMMA ReachesAfterPass ==
  ASSUME NEW c \in Seq(Instructions), NEW old, DOMAIN old = 1..(Len(c) + 1), Reaches(c, c, old)
  PROVE  Reaches(OptimizeBranches(c, old), c, old)
<1> DEFINE n == Len(c)
           f == CHOOSE x : ShortenPass(c, old, n, x)
           S == {k \in 0..n : Reaches(f[k].code, c, old)}
<1>1. n \in Nat /\ DOMAIN c = 1..n
  OBVIOUS
<1>2. OptimizeBranches(c, old) = f[n].code
  BY DEF OptimizeBranches, ShortenPass, ShortenStep
<1>3. ShortenPass(c, old, n, f)
  BY <1>1, ShortenPassExists
<1> HIDE DEF f
<1>4. f[0].code = c /\ \A k \in 1..n : f[k] = ShortenStep(c, old, k, f[k - 1])
  <2>1. 0 \in 0..n /\ \A k \in 1..n : k \in 0..n /\ k # 0
    BY <1>1
  <2>2. f = [k \in 0..n |-> IF k = 0 THEN [code |-> c, sums |-> InstructionSizes(c)]
                              ELSE ShortenStep(c, old, k, f[k - 1])]
    BY <1>3 DEF ShortenPass
  <2> HIDE DEF n
  <2>3. f[0] = [code |-> c, sums |-> InstructionSizes(c)]
    BY <2>1, <2>2
  <2>4. \A k \in 1..n : f[k] = ShortenStep(c, old, k, f[k - 1])
    BY <2>1, <2>2
  <2> QED
    BY <2>3, <2>4
<1>5. 0 \in S
  BY <1>1, <1>4
<1>6. ASSUME NEW k \in 1..n, k - 1 \in S PROVE k \in S
  <2>1. k \in 0..n /\ k - 1 \in 0..n /\ k \in DOMAIN c /\ k > k - 1
    BY <1>1
  <2>2. Shortening(c, k - 1, f[k - 1])
    BY <1>3, <2>1, ShortenRun
  <2>3. f[k].code = LayoutStep(c, old, k, f[k - 1].code)
    BY <1>4, <2>1, <2>2, ShortenExact
  <2>4. f[k - 1].code \in Seq(Instructions) /\ Len(f[k - 1].code) = Len(c) /\ f[k - 1].code[k] = c[k]
    BY <2>1, <2>2 DEF Shortening
  <2>5. Reaches(f[k - 1].code, c, old)
    BY <1>6
  <2>6. Reaches(f[k].code, c, old)
    BY <2>1, <2>3, <2>4, <2>5, ReachesAfterTurn
  <2> QED
    BY <2>1, <2>6
<1> HIDE DEF S
<1>7. n \in S
  <2>1. \A k \in 0..n : k \in S
    BY <1>1, <1>5, <1>6, CountingUp
  <2> QED
    BY <1>1, <2>1
<1> QED
  BY <1>2, <1>7 DEF S

(* The passes over a placed body: what reached before reaches afterwards.    *)
LEMMA OptimizedReaches ==
  ASSUME NEW b, Settled(b), ShortBranchesFit(b.code), ValidTargets(NewOffsets(b.code), b.code, <<>>)
  PROVE  ShortBranchesFit(Optimized(b).code)
<1> DEFINE c == b.code
           n == Len(b.code)
           old == Snapshot(c)
           const == OptimizeInstructions(c)
           short == OptimizeBranches(const, old)
           d == Optimized(b).code
<1>1. c \in Seq(Instructions) /\ n \in Nat /\ DOMAIN c = 1..n /\ Placed(c) /\ b.eh \in Seq(Clauses)
  BY DEF Settled
<1>2. old = NewOffsets(c) /\ old \in Seq(Nat) /\ Len(old) = n + 1
  BY <1>1, PlacedIsSnapshot, SnapshotType
<1> HIDE DEF old
<1>3. const \in Seq(Instructions) /\ Len(const) = n
  BY <1>1, OptimizedInstructions
<1>4. const = [k \in 1..n |-> IF c[k].op = "ldc_i4" THEN [c[k] EXCEPT !.op = "ldc_i4_0"] ELSE c[k]]
  BY <1>1 DEF OptimizeInstructions
<1> HIDE DEF const, n
<1>5. DOMAIN old = 1..(n + 1) /\ DOMAIN const = 1..n /\ n + 1 \in Nat
  BY <1>1, <1>2, <1>3
<1>6. \A k \in 1..n : /\ const[k].to = c[k].to
                      /\ const[k].op = "br_s" => c[k].op = "br_s"
                      /\ EncodedSize(const[k]) <= EncodedSize(c[k])
  <2> TAKE k \in 1..n
  <2>1. c[k] \in Instructions
    BY <1>1
  <2>2. EncodedSize(c[k]) \in Nat /\ c[k] \in [op : Opcodes, off : Nat, to : Seq(Int)]
    BY <2>1, EncodedSizes, InstructionForm
  <2>3. CASE c[k].op = "ldc_i4"
    <3>1. const[k] = [c[k] EXCEPT !.op = "ldc_i4_0"]
      BY <1>4, <2>3
    <3>2. const[k].op = "ldc_i4_0" /\ const[k].to = c[k].to
      BY <2>2, <3>1
    <3>3. EncodedSize(const[k]) = 1 /\ EncodedSize(c[k]) = 5
      BY <2>3, <3>2 DEF EncodedSize, Size
    <3> QED
      BY <3>2, <3>3
  <2>4. CASE c[k].op # "ldc_i4"
    <3>1. const[k] = c[k]
      BY <1>4, <2>4
    <3> QED
      BY <2>2, <3>1
  <2> QED
    BY <2>3, <2>4
<1>7. \A k \in 1..n : c[k].op = "br_s" => 1 \in DOMAIN c[k].to /\ IndexIn(old, c[k].to[1]) \in 1..n
  <2> TAKE k \in 1..n
  <2>1. c[k] \in Instructions /\ k \in DOMAIN c
    BY <1>1
  <2>2. c[k].to \in Seq(Int) /\ Len(c[k].to) = Operands(c[k].op)
    BY <2>1, InstructionForm
  <2>3. \A m \in DOMAIN c[k].to : IndexIn(old, c[k].to[m]) \in 1..n
    BY <1>2, <2>1 DEF ValidTargets, n
  <2>4. ASSUME c[k].op = "br_s" PROVE 1 \in DOMAIN c[k].to
    BY <2>2, <2>4 DEF Operands, Branches
  <2> QED
    BY <2>3, <2>4
<1>8. Reaches(c, c, old)
  <2>1. ASSUME NEW k \in DOMAIN c, c[k].op = "br_s"
        PROVE  FitsShort(NewOffsets(c)[IndexIn(old, c[k].to[1])] - (NewOffsets(c)[k] + 2))
    <3> DEFINE t == IndexIn(old, c[k].to[1])
    <3>1. t \in 1..n /\ k \in 1..n
      BY <1>1, <1>7, <2>1
    <3>2. old[t] = c[k].to[1]
      <4>1. t # 0
        BY <3>1
      <4> QED
        BY <1>5, <4>1, IndexRange
    <3>3. c[t].off = NewOffsets(c)[t] /\ c[k].off = NewOffsets(c)[k] /\ t \in DOMAIN c
      BY <1>1, <3>1 DEF Placed
    <3>4. FitsShort(c[k].to[1] - (c[k].off + 2))
      <4>1. c[t].off = c[k].to[1]
        BY <1>2, <3>2, <3>3
      <4> HIDE DEF t
      <4> QED
        BY <2>1, <3>3, <4>1 DEF ShortBranchesFit
    <3> QED
      BY <1>2, <3>2, <3>3, <3>4
  <2> QED
    BY <2>1 DEF Reaches
<1>9. Reaches(const, const, old)
  <2> SUFFICES ASSUME NEW m \in DOMAIN const, const[m].op = "br_s", IndexIn(old, const[m].to[1]) # 0
               PROVE  FitsShort(NewOffsets(const)[IndexIn(old, const[m].to[1])] - (NewOffsets(const)[m] + 2))
    BY DEF Reaches
  <2>1. m \in DOMAIN c /\ c[m].op = "br_s" /\ const[m].to = c[m].to
    BY <1>1, <1>5, <1>6
  <2>2. \A j \in DOMAIN c : EncodedSize(const[j]) <= EncodedSize(c[j])
    BY <1>1, <1>6
  <2>3. FitsShort(NewOffsets(const)[IndexIn(old, c[m].to[1])] - (NewOffsets(const)[m] + 2))
    BY <1>1, <1>3, <1>5, <1>8, <2>1, <2>2, ReachesSmaller DEF n
  <2> QED
    BY <2>1, <2>3
<1>10. short \in Seq(Instructions) /\ Len(short) = n
  BY <1>3, OptimizedBranches
<1>11. Reaches(short, const, old)
  BY <1>3, <1>5, <1>9, ReachesAfterPass
<1>12. d = [k \in 1..n |->
             [short[k] EXCEPT !.off = NewOffsets(short)[k],
                !.to = [m \in DOMAIN short[k].to |->
                          IF IndexIn(old, short[k].to[m]) = 0 THEN short[k].to[m]
                            ELSE NewOffsets(short)[IndexIn(old, short[k].to[m])]]]]
  <2>1. Optimized(b) = Restore(old, NewOffsets(short), short, b.eh)
    BY DEF Optimized, old, const
  <2>2. DOMAIN short = 1..n
    BY <1>1, <1>10
  <2> HIDE DEF short
  <2>3. Restore(old, NewOffsets(short), short, b.eh).code
          = [k \in DOMAIN short |->
               [short[k] EXCEPT !.off = NewOffsets(short)[k],
                  !.to = [m \in DOMAIN short[k].to |->
                            IF IndexIn(old, short[k].to[m]) = 0 THEN short[k].to[m]
                              ELSE NewOffsets(short)[IndexIn(old, short[k].to[m])]]]]
    BY DEF Restore
  <2> QED
    BY <2>1, <2>2, <2>3
<1> HIDE DEF short, d
<1>13. ASSUME NEW k \in 1..n, d[k].op = "br_s"
       PROVE  FitsShort(d[k].to[1] - (d[k].off + 2))
  <2> DEFINE t == IndexIn(old, short[k].to[1])
  <2>1. short[k] \in [op : Opcodes, off : Nat, to : Seq(Int)] /\ Len(short[k].to) = Operands(short[k].op)
    <3>1. short[k] \in Instructions
      BY <1>10
    <3> QED
      BY <3>1, InstructionForm
  <2>2. d[k].op = short[k].op /\ d[k].off = NewOffsets(short)[k]
    BY <1>12, <2>1
  <2>3. 1 \in DOMAIN short[k].to
    BY <1>13, <2>1, <2>2 DEF Operands, Branches
  <2>4. d[k].to[1] = IF t = 0 THEN short[k].to[1] ELSE NewOffsets(short)[t]
    BY <1>12, <2>1, <2>3
  <2>5. short[k].to = const[k].to /\ const[k].to = c[k].to /\ k \in DOMAIN const
    BY <1>5, <1>6, <1>11 DEF Reaches
  <2>6. t \in 1..n
    <3>1. \A m \in DOMAIN c[k].to : IndexIn(old, c[k].to[m]) \in 1..n
      BY <1>1, <1>2 DEF ValidTargets, n
    <3> QED
      BY <2>3, <2>5, <3>1
  <2>7. t # 0
    BY <2>6
  <2>8. FitsShort(NewOffsets(short)[t] - (NewOffsets(short)[k] + 2))
    BY <1>11, <1>13, <2>2, <2>5, <2>7 DEF Reaches
  <2> QED
    BY <2>2, <2>4, <2>7, <2>8
<1>14. DOMAIN d = 1..n
  BY <1>12
<1>15. ShortBranchesFit(d)
  BY <1>13, <1>14 DEF ShortBranchesFit
<1> QED
  BY <1>15 DEF d

(* optimize_macros never makes an encodable body without dangling targets    *)
(* unencodable: branches are shortened in order (edit.rs:814), each against  *)
(* a layout that later shrinks, and all of them still reach at the end.      *)
THEOREM ShortBranchesStayShort == Spec => []OptimizedBodyEncodes
<1>1. TypeOK => OptimizedBodyEncodes
  <2> SUFFICES ASSUME TypeOK, ShortBranchesFit(Renumbered(code, eh).code),
                      ValidTargets(NewOffsets(Renumbered(code, eh).code), Renumbered(code, eh).code, <<>>)
               PROVE  ShortBranchesFit(Optimized(Renumbered(code, eh)).code)
    BY DEF OptimizedBodyEncodes
  <2>1. code \in Seq(Instructions) /\ eh \in Seq(Clauses)
    BY DEF TypeOK
  <2>2. Settled(Renumbered(code, eh))
    BY <2>1, RenumberedType
  <2> QED
    BY <2>2, OptimizedReaches
<1>2. Spec => []TypeOK
  BY BodyTypeCorrect
<1> QED
  BY <1>1, <1>2, PTL
===============================================================================
