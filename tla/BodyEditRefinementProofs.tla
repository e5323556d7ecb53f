----------------------- MODULE BodyEditRefinementProofs -----------------------
(***************************************************************************)
(* BodyEdit implements ILProcessor, for bodies of any length.              *)
(***************************************************************************)
EXTENDS BodyEditRefinement, BodyEditProofs, FiniteSetTheorems

-------------------------------------------------------------------------------
(* Reading offsets as positions.                                             *)

Increasing(L) == L \in Seq(Nat) /\ \A i, j \in DOMAIN L : i < j => L[i] < L[j]

LEMMA Ascending ==
  ASSUME NEW L \in Seq(Nat), \A k \in 1..(Len(L) - 1) : L[k] < L[k + 1]
  PROVE  Increasing(L)
<1>1. SUFFICES ASSUME NEW i \in DOMAIN L,
                      {j \in DOMAIN L : i < j /\ ~(L[i] < L[j])} # {}
               PROVE  FALSE
  BY DEF Increasing
<1> DEFINE Bad == {j \in DOMAIN L : i < j /\ ~(L[i] < L[j])}
<1>2. PICK j \in Bad : \A k \in Bad : j <= k
  <2>1. Bad \in SUBSET Nat /\ Bad # {}
    BY <1>1
  <2> HIDE DEF Bad
  <2> QED
    BY <2>1, LeastNat
<1>3. j \in 1..Len(L) /\ i \in 1..Len(L) /\ i < j /\ ~(L[i] < L[j])
  BY <1>2
<1>4. j - 1 \in 1..(Len(L) - 1) /\ L[j - 1] < L[j] /\ L[j - 1] \in Nat /\ L[j] \in Nat /\ L[i] \in Nat
  <2>1. Len(L) \in Nat /\ j - 1 \in 1..(Len(L) - 1)
    BY <1>3
  <2>2. j - 1 + 1 = j
    BY <1>3
  <2> QED
    BY <1>3, <2>1, <2>2
<1>5. j - 1 # i
  BY <1>3, <1>4
<1>6. j - 1 \notin Bad
  BY <1>2, <1>3
<1> QED
  BY <1>3, <1>4, <1>5, <1>6

(* The offsets of a body grow: every instruction takes at least a byte.      *)
LEMMA LayoutIncreases ==
  ASSUME NEW c \in Seq(Instructions)
  PROVE  Increasing(NewOffsets(c)) /\ Len(NewOffsets(c)) = Len(c) + 1
<1>1. /\ NewOffsets(c) \in Seq(Nat)
      /\ Len(NewOffsets(c)) = Len(c) + 1
      /\ \A k \in DOMAIN c : NewOffsets(c)[k + 1] = NewOffsets(c)[k] + EncodedSize(c[k])
  BY OffsetsType
<1>2. ASSUME NEW k \in 1..(Len(NewOffsets(c)) - 1)
      PROVE  NewOffsets(c)[k] < NewOffsets(c)[k + 1]
  <2>1. k \in DOMAIN c /\ k \in DOMAIN NewOffsets(c)
    BY <1>1
  <2>2. c[k] \in Instructions
    BY <2>1
  <2>3. EncodedSize(c[k]) \in Nat \ {0}
    BY <2>2, EncodedSizes
  <2>4. NewOffsets(c)[k] \in Nat
    BY <1>1, <2>1
  <2> QED
    BY <1>1, <2>1, <2>3, <2>4
<1> QED
  BY <1>1, <1>2, Ascending

LEMMA IndexFacts ==
  ASSUME NEW L, Increasing(L)
  PROVE  /\ \A k \in DOMAIN L : IndexIn(L, L[k]) = k
         /\ \A t : IndexIn(L, t) # 0 => IndexIn(L, t) \in DOMAIN L /\ L[IndexIn(L, t)] = t
         /\ \A t : IndexIn(L, t) \in Nat
<1>0. L \in Seq(Nat) /\ DOMAIN L = 1..Len(L) /\ Len(L) \in Nat
  BY DEF Increasing
<1>1. ASSUME NEW t PROVE t \in Range(L) => IndexIn(L, t) \in DOMAIN L /\ L[IndexIn(L, t)] = t
  BY DEF IndexIn, Range
<1>2. ASSUME NEW t PROVE t \notin Range(L) => IndexIn(L, t) = 0
  BY DEF IndexIn
<1>3. ASSUME NEW k \in DOMAIN L PROVE L[k] \in Range(L)
  BY DEF Range
<1>4. ASSUME NEW i \in DOMAIN L, NEW j \in DOMAIN L, L[i] = L[j] PROVE i = j
  <2>1. L[i] \in Nat /\ L[j] \in Nat /\ i \in Nat /\ j \in Nat
    BY <1>0
  <2>2. (i < j => L[i] < L[j]) /\ (j < i => L[j] < L[i])
    BY DEF Increasing
  <2> QED
    BY <2>1, <2>2, <1>4
<1>5. ASSUME NEW k \in DOMAIN L PROVE IndexIn(L, L[k]) = k
  BY <1>1, <1>3, <1>4
<1>6. ASSUME NEW t PROVE IndexIn(L, t) # 0 => IndexIn(L, t) \in DOMAIN L /\ L[IndexIn(L, t)] = t
  BY <1>1, <1>2
<1>7. ASSUME NEW t PROVE IndexIn(L, t) \in Nat
  BY <1>0, <1>1, <1>2
<1> QED
  BY <1>5, <1>6, <1>7

(* An offset that is read as a position is where that instruction starts.    *)
LEMMA PositionFacts ==
  ASSUME NEW L, Increasing(L), NEW n \in Nat, Len(L) = n + 1
  PROVE  /\ \A k \in 1..n : Position(L, L[k]) = k
         /\ \A t : Position(L, t) # Lost => Position(L, t) \in 1..n /\ t = L[Position(L, t)]
         /\ \A t : Position(L, t) \in 0..n
<1>1. DOMAIN L = 1..(n + 1)
  BY DEF Increasing
<1>2. ASSUME NEW k \in 1..n PROVE Position(L, L[k]) = k
  <2>1. IndexIn(L, L[k]) = k
    BY <1>1, IndexFacts
  <2> QED
    BY <2>1 DEF Position
<1>3. ASSUME NEW t, Position(L, t) # Lost
      PROVE  Position(L, t) \in 1..n /\ t = L[Position(L, t)]
  <2>1. Position(L, t) = IndexIn(L, t) /\ IndexIn(L, t) # n + 1 /\ IndexIn(L, t) # 0
    BY <1>3 DEF Position, Lost
  <2>2. IndexIn(L, t) \in DOMAIN L /\ L[IndexIn(L, t)] = t
    BY <2>1, IndexFacts
  <2>3. IndexIn(L, t) \in 1..n
    <3> HIDE DEF IndexIn
    <3> QED
      BY <1>1, <2>1, <2>2
  <2> QED
    BY <2>1, <2>2, <2>3
<1>4. ASSUME NEW t PROVE Position(L, t) \in 0..n
  BY <1>3 DEF Lost
<1> QED
  BY <1>2, <1>3, <1>4

(* A region that is read as a run starts where its first instruction starts  *)
(* and ends where the instruction after its last one starts.                 *)
LEMMA RunFacts ==
  ASSUME NEW L, Increasing(L), NEW n \in Nat, Len(L) = n + 1, NEW r \in Regions
  PROVE  /\ \A i \in 1..n, e \in 1..(n + 1) :
              i < e /\ r.off = L[i] /\ r.off + r.len = L[e] =>
                ReadRun(L, r) = [first |-> i, last |-> e - 1]
         /\ ReadRun(L, r).first # Lost =>
              \E i \in 1..n, e \in 1..(n + 1) :
                /\ i < e /\ r.off = L[i] /\ r.off + r.len = L[e]
                /\ ReadRun(L, r) = [first |-> i, last |-> e - 1]
<1>0. r.off \in Int /\ r.len \in Int /\ DOMAIN L = 1..(n + 1) /\ \A k \in 1..(n + 1) : L[k] \in Nat
  BY DEF Regions, Increasing
<1>a. \A i, j \in 1..(n + 1) : i < j => L[i] < L[j]
  BY <1>0 DEF Increasing
<1>1. ASSUME NEW i \in 1..n, NEW e \in 1..(n + 1), i < e, r.off = L[i], r.off + r.len = L[e]
      PROVE  ReadRun(L, r) = [first |-> i, last |-> e - 1]
  <2>1. L[i] < L[e]
    BY <1>a, <1>1
  <2>2. r.len > 0
    <3>1. L[i] \in Nat /\ L[e] \in Nat
      BY <1>0
    <3> QED
      BY <1>0, <1>1, <2>1, <3>1
  <2>3. Position(L, r.off) = i
    BY <1>1, PositionFacts
  <2>4. IndexIn(L, r.off + r.len) = e
    BY <1>0, <1>1, IndexFacts
  <2>5. i # 0 /\ e # 0
    OBVIOUS
  <2> QED
    BY <2>2, <2>3, <2>4, <2>5 DEF ReadRun, Lost
<1>2. ASSUME ReadRun(L, r).first # Lost
      PROVE  \E i \in 1..n, e \in 1..(n + 1) :
               /\ i < e /\ r.off = L[i] /\ r.off + r.len = L[e]
               /\ ReadRun(L, r) = [first |-> i, last |-> e - 1]
  <2> DEFINE i == Position(L, r.off)
             e == IndexIn(L, r.off + r.len)
  <2>1. r.len > 0 /\ i # Lost /\ e # 0 /\ ReadRun(L, r) = [first |-> i, last |-> e - 1]
    BY <1>2 DEF ReadRun
  <2>a. Position(L, r.off) # Lost
    BY <2>1
  <2>2. i \in 1..n /\ r.off = L[i]
    <3>1. \A t : Position(L, t) # Lost => Position(L, t) \in 1..n /\ t = L[Position(L, t)]
      BY PositionFacts
    <3> QED
      BY <2>a, <3>1, Zenon
  <2>3. e \in 1..(n + 1) /\ r.off + r.len = L[e]
    BY <2>1, <1>0, IndexFacts
  <2> HIDE DEF i, e
  <2>4. i < e
    <3>1. L[i] < L[e] /\ L[i] \in Nat /\ L[e] \in Nat
      BY <1>0, <2>1, <2>2, <2>3
    <3>2. e < i => L[e] < L[i]
      BY <1>a, <2>2, <2>3
    <3> QED
      BY <2>2, <2>3, <3>1, <3>2
  <2> QED
    BY <2>1, <2>2, <2>3, <2>4
<1> QED
  BY <1>1, <1>2

LEMMA ReadRunIs ==
  ASSUME NEW L, Increasing(L), Len(L) # 0, NEW r \in Regions,
         NEW i \in DOMAIN L, NEW e \in DOMAIN L, i < e, r.off = L[i], r.off + r.len = L[e]
  PROVE  ReadRun(L, r) = [first |-> i, last |-> e - 1]
<1>1. L \in Seq(Nat) /\ DOMAIN L = 1..Len(L)
  BY DEF Increasing
<1> DEFINE n == Len(L) - 1
<1>2. n \in Nat /\ Len(L) = n + 1 /\ e \in 1..(n + 1) /\ i \in 1..n
  BY <1>1
<1> HIDE DEF n
<1> QED
  BY <1>2, RunFacts

-------------------------------------------------------------------------------
(* Editing the program that is read.                                         *)

(* A reading refers to its own instructions only.                            *)
RunWithin(r, n) == r.first # Lost => r.first \in 1..n /\ r.last \in r.first .. n

WellRead(a, n) ==
  /\ Len(a.prog) = n /\ DOMAIN a.prog = 1..n
  /\ \A j \in 1..n : /\ a.prog[j].to \in Seq(0..n)
                     /\ a.prog[j].op \in Opcodes
  /\ \A x \in DOMAIN a.clauses : /\ RunWithin(a.clauses[x].try, n)
                                 /\ RunWithin(a.clauses[x].handler, n)
                                 /\ a.clauses[x].filter \in 0..n

(* b is a with its instructions moved: instruction j to lo[j], or, where an  *)
(* edit splits it, to those from lo[j] to hi[j].  The instructions in R may  *)
(* be others.                                                                *)
RunFollowed(r, s, lo, hi) == r.first # Lost => s = [first |-> lo[r.first], last |-> hi[r.last]]

InstructionFollowed(i, j, lo) ==
  /\ j.op = i.op
  /\ Len(j.to) = Len(i.to) /\ DOMAIN j.to = DOMAIN i.to
  /\ \A m \in DOMAIN i.to : i.to[m] # Lost => j.to[m] = lo[i.to[m]]

ClauseFollowed(x, y, lo, hi) ==
  /\ RunFollowed(x.try, y.try, lo, hi)
  /\ RunFollowed(x.handler, y.handler, lo, hi)
  /\ x.filter # Lost => y.filter = lo[x.filter]

Follows(a, b, lo, hi, R) ==
  /\ \A j \in DOMAIN a.prog \ R : InstructionFollowed(a.prog[j], b.prog[lo[j]], lo)
  /\ Len(b.clauses) = Len(a.clauses) /\ DOMAIN b.clauses = DOMAIN a.clauses
  /\ \A x \in DOMAIN a.clauses : ClauseFollowed(a.clauses[x], b.clauses[x], lo, hi)

LEMMA MinOf ==
  ASSUME NEW S, S \subseteq Int, NEW x \in S, \A y \in S : x <= y
  PROVE  Abs!Min(S) = x
<1> DEFINE z == CHOOSE w \in S : \A y \in S : w <= y
<1>1. z \in S /\ \A y \in S : z <= y
  OBVIOUS
<1>2. Abs!Min(S) = z
  BY DEF Abs!Min
<1> HIDE DEF z
<1>3. z <= x /\ x <= z /\ x \in Int /\ z \in Int
  BY <1>1
<1> QED
  BY <1>2, <1>3

LEMMA MaxOf ==
  ASSUME NEW S, S \subseteq Int, NEW x \in S, \A y \in S : y <= x
  PROVE  Abs!Max(S) = x
<1> DEFINE z == CHOOSE w \in S : \A y \in S : y <= w
<1>1. z \in S /\ \A y \in S : y <= z
  OBVIOUS
<1>2. Abs!Max(S) = z
  BY DEF Abs!Max
<1> HIDE DEF z
<1>3. z <= x /\ x <= z /\ x \in Int /\ z \in Int
  BY <1>1
<1> QED
  BY <1>2, <1>3

LEMMA CountIsCardinality ==
  ASSUME NEW S
  PROVE  Abs!Cardinality(S) = Cardinality(S)
BY Zenon DEF Abs!Cardinality, Cardinality

LEMMA ReadInstructionFacts ==
  ASSUME NEW L, Increasing(L), NEW n \in Nat, Len(L) = n + 1, NEW i \in Instructions
  PROVE  /\ ReadInstruction(L, i).op = LongForm(i.op) /\ LongForm(i.op) \in Opcodes
         /\ ReadInstruction(L, i).to \in Seq(0..n)
         /\ Len(ReadInstruction(L, i).to) = Len(i.to)
         /\ DOMAIN ReadInstruction(L, i).to = DOMAIN i.to
         /\ \A m \in DOMAIN i.to : ReadInstruction(L, i).to[m] = Position(L, i.to[m])
<1>1. i \in [op : Opcodes, off : Nat, to : Seq(Int)]
  BY InstructionForm
<1>2. i.to \in Seq(Int) /\ Len(i.to) \in Nat /\ DOMAIN i.to = 1..Len(i.to)
  BY <1>1
<1> DEFINE to == [m \in DOMAIN i.to |-> Position(L, i.to[m])]
<1>3. ReadInstruction(L, i).op = LongForm(i.op) /\ ReadInstruction(L, i).to = to
  BY DEF ReadInstruction
<1>4. LongForm(i.op) \in Opcodes
  BY <1>1, LongForms
<1>5. \A m \in DOMAIN i.to : to[m] \in 0..n
  BY PositionFacts
<1>6. to \in Seq(0..n) /\ Len(to) = Len(i.to) /\ DOMAIN to = DOMAIN i.to
  <2>1. DOMAIN to = 1..Len(i.to) /\ to = [m \in 1..Len(i.to) |-> to[m]]
    BY <1>2
  <2>2. \A m \in 1..Len(i.to) : to[m] \in 0..n
    BY <1>2, <1>5
  <2> HIDE DEF to
  <2>3. to \in [1..Len(i.to) -> 0..n]
    BY <2>1, <2>2
  <2> QED
    BY <1>2, <2>1, <2>3, SMTT(20)
<1> QED
  BY <1>3, <1>4, <1>6

LEMMA ReadRunWithin ==
  ASSUME NEW L, Increasing(L), NEW n \in Nat, Len(L) = n + 1, NEW r \in Regions
  PROVE  RunWithin(ReadRun(L, r), n)
<1>1. SUFFICES ASSUME ReadRun(L, r).first # Lost
               PROVE  ReadRun(L, r).first \in 1..n /\ ReadRun(L, r).last \in ReadRun(L, r).first .. n
  BY DEF RunWithin
<1>2. PICK i \in 1..n, e \in 1..(n + 1) :
        i < e /\ ReadRun(L, r) = [first |-> i, last |-> e - 1]
  BY <1>1, RunFacts
<1>3. ReadRun(L, r).first = i /\ ReadRun(L, r).last = e - 1
  BY <1>2
<1>4. e - 1 \in i..n
  BY <1>2
<1> QED
  BY <1>3, <1>4

LEMMA ReadingForm ==
  ASSUME NEW L, Increasing(L), NEW c \in Seq(Instructions), Len(L) = Len(c) + 1,
         NEW E \in Seq(Clauses)
  PROVE  /\ WellRead(Reading(L, c, E), Len(c))
         /\ \A j \in DOMAIN c : Reading(L, c, E).prog[j] = ReadInstruction(L, c[j])
         /\ Len(Reading(L, c, E).clauses) = Len(E)
         /\ DOMAIN Reading(L, c, E).clauses = DOMAIN E
         /\ \A x \in DOMAIN E : Reading(L, c, E).clauses[x] = ReadClause(L, E[x])
<1> DEFINE prog == [k \in DOMAIN c |-> ReadInstruction(L, c[k])]
           clauses == [k \in DOMAIN E |-> ReadClause(L, E[k])]
           n == Len(c)
<1>1. Reading(L, c, E).prog = prog /\ Reading(L, c, E).clauses = clauses
  BY DEF Reading
<1>2. n \in Nat /\ DOMAIN c = 1..n /\ Len(E) \in Nat /\ DOMAIN E = 1..Len(E)
  OBVIOUS
<1>3. Len(prog) = n /\ DOMAIN prog = 1..n
  <2>1. prog \in Seq({ReadInstruction(L, c[k]) : k \in DOMAIN c})
    BY <1>2
  <2> QED
    BY <1>2, <2>1
<1>4. Len(clauses) = Len(E) /\ DOMAIN clauses = DOMAIN E
  <2>1. clauses \in Seq({ReadClause(L, E[k]) : k \in DOMAIN E})
    BY <1>2
  <2> QED
    BY <1>2, <2>1
<1>5. ASSUME NEW j \in 1..n PROVE prog[j].to \in Seq(0..n) /\ prog[j].op \in Opcodes
  <2>1. c[j] \in Instructions /\ prog[j] = ReadInstruction(L, c[j])
    BY <1>2
  <2> QED
    BY <2>1, <1>2, ReadInstructionFacts
<1>6. ASSUME NEW x \in DOMAIN E
      PROVE  /\ RunWithin(clauses[x].try, n)
             /\ RunWithin(clauses[x].handler, n)
             /\ clauses[x].filter \in 0..n
  <2>1. E[x].try \in Regions /\ E[x].handler \in Regions
    <3>1. E[x] \in Clauses
      BY <1>2
    <3> QED
      BY <3>1 DEF Clauses
  <2>2. clauses[x] = ReadClause(L, E[x])
    OBVIOUS
  <2>3. /\ clauses[x].try = ReadRun(L, E[x].try)
        /\ clauses[x].handler = ReadRun(L, E[x].handler)
        /\ clauses[x].filter = IF E[x].filter = None THEN Lost ELSE Position(L, E[x].filter)
    BY <2>2 DEF ReadClause
  <2>4. clauses[x].filter \in 0..n
    <3>1. Position(L, E[x].filter) \in 0..n
      BY <1>2, PositionFacts
    <3> QED
      BY <2>3, <3>1, <1>2 DEF Lost
  <2> QED
    BY <2>1, <2>3, <2>4, <1>2, ReadRunWithin
<1> HIDE DEF prog, clauses
<1>7. WellRead(Reading(L, c, E), n)
  BY <1>1, <1>3, <1>4, <1>5, <1>6 DEF WellRead
<1> USE DEF prog, clauses
<1> QED
  BY <1>1, <1>4, <1>7

(* The same said of the bodies: where an instruction starts in the old       *)
(* layout L, what refers to it refers to where it starts in the new one, M.  *)
RegionFollowed(r, s, L, M, lo, hi) ==
  \A i \in 1..(Len(L) - 1), e \in 1..Len(L) :
    i < e /\ r.off = L[i] /\ r.off + r.len = L[e] =>
      s.off = M[lo[i]] /\ s.off + s.len = M[hi[e - 1] + 1]

HandlerFollowed(x, y, L, M, lo, hi) ==
  /\ RegionFollowed(x.try, y.try, L, M, lo, hi)
  /\ RegionFollowed(x.handler, y.handler, L, M, lo, hi)
  /\ \A k \in 1..(Len(L) - 1) : x.filter = L[k] => y.filter = M[lo[k]]

CodeFollowed(i, j, L, M, lo) ==
  /\ LongForm(j.op) = LongForm(i.op)
  /\ Len(j.to) = Len(i.to)
  /\ \A m \in DOMAIN i.to, k \in 1..(Len(L) - 1) : i.to[m] = L[k] => j.to[m] = M[lo[k]]

LEMMA RunFollows ==
  ASSUME NEW L, Increasing(L), NEW n \in Nat, Len(L) = n + 1,
         NEW M, Increasing(M), NEW p \in Nat, Len(M) = p + 1,
         NEW lo, NEW hi,
         \A j \in 1..n : lo[j] \in 1..p /\ hi[j] \in 1..p,
         \A i, j \in 1..n : i <= j => lo[i] <= hi[j],
         NEW r \in Regions, NEW s \in Regions, RegionFollowed(r, s, L, M, lo, hi)
  PROVE  RunFollowed(ReadRun(L, r), ReadRun(M, s), lo, hi)
<1>1. SUFFICES ASSUME ReadRun(L, r).first # Lost
               PROVE  ReadRun(M, s) = [first |-> lo[ReadRun(L, r).first],
                                       last  |-> hi[ReadRun(L, r).last]]
  BY DEF RunFollowed
<1>2. PICK i \in 1..n, e \in 1..(n + 1) :
        /\ i < e /\ r.off = L[i] /\ r.off + r.len = L[e]
        /\ ReadRun(L, r) = [first |-> i, last |-> e - 1]
  BY <1>1, RunFacts
<1>3. s.off = M[lo[i]] /\ s.off + s.len = M[hi[e - 1] + 1]
  BY <1>2 DEF RegionFollowed
<1> DEFINE a == lo[i]
           b == hi[e - 1]
<1>4. a \in 1..p /\ b \in 1..p /\ a <= b
  <2>1. e - 1 \in 1..n /\ i <= e - 1
    BY <1>2
  <2> QED
    BY <2>1
<1>5. ReadRun(L, r).first = i /\ ReadRun(L, r).last = e - 1
  BY <1>2
<1> HIDE DEF a, b
<1>6. ReadRun(M, s) = [first |-> a, last |-> b]
  <2> DEFINE g == b + 1
  <2>1. a \in DOMAIN M /\ g \in DOMAIN M /\ a < g /\ g - 1 = b /\ Len(M) # 0
    BY <1>4 DEF Increasing
  <2>2. s.off = M[a] /\ s.off + s.len = M[g]
    BY <1>3 DEF a, b
  <2> HIDE DEF g
  <2>3. ReadRun(M, s) = [first |-> a, last |-> g - 1]
    BY <2>1, <2>2, ReadRunIs
  <2> QED
    BY <2>1, <2>3
<1> QED
  BY <1>5, <1>6 DEF a, b

LEMMA ClauseFollows ==
  ASSUME NEW L, Increasing(L), NEW n \in Nat, Len(L) = n + 1,
         NEW M, Increasing(M), NEW p \in Nat, Len(M) = p + 1,
         NEW lo, NEW hi,
         \A j \in 1..n : lo[j] \in 1..p /\ hi[j] \in 1..p,
         \A i, j \in 1..n : i <= j => lo[i] <= hi[j],
         NEW x \in Clauses, NEW y \in Clauses, HandlerFollowed(x, y, L, M, lo, hi)
  PROVE  ClauseFollowed(ReadClause(L, x), ReadClause(M, y), lo, hi)
<1>1. /\ x.try \in Regions /\ x.handler \in Regions
      /\ y.try \in Regions /\ y.handler \in Regions
  BY DEF Clauses
<1>2. /\ RunFollowed(ReadRun(L, x.try), ReadRun(M, y.try), lo, hi)
      /\ RunFollowed(ReadRun(L, x.handler), ReadRun(M, y.handler), lo, hi)
  <2>1. /\ RegionFollowed(x.try, y.try, L, M, lo, hi)
        /\ RegionFollowed(x.handler, y.handler, L, M, lo, hi)
    BY DEF HandlerFollowed
  <2> QED
    BY <1>1, <2>1, RunFollows
<1>3. ASSUME ReadClause(L, x).filter # Lost
      PROVE  ReadClause(M, y).filter = lo[ReadClause(L, x).filter]
  <2>1. x.filter # None /\ ReadClause(L, x).filter = Position(L, x.filter)
    BY <1>3 DEF ReadClause
  <2> DEFINE k == Position(L, x.filter)
  <2>a. k # Lost
    BY <1>3, <2>1
  <2>2. k \in 1..n /\ x.filter = L[k]
    <3>1. \A t : Position(L, t) # Lost => Position(L, t) \in 1..n /\ t = L[Position(L, t)]
      BY PositionFacts
    <3> QED
      BY <2>a, <3>1, Zenon
  <2> HIDE DEF k
  <2>3. y.filter = M[lo[k]]
    BY <2>2 DEF HandlerFollowed
  <2>4. y.filter # None
    <3>1. lo[k] \in DOMAIN M
      <4>1. lo[k] \in 1..p
        BY <2>2
      <4> QED
        BY <4>1 DEF Increasing
    <3>2. M[lo[k]] \in Nat
      BY <3>1 DEF Increasing
    <3> QED
      BY <2>3, <3>2, NoneAssumption
  <2>5. ReadClause(M, y).filter = Position(M, y.filter)
    BY <2>4 DEF ReadClause
  <2>6. Position(M, M[lo[k]]) = lo[k]
    <3>1. lo[k] \in 1..p
      BY <2>2
    <3> QED
      BY <3>1, PositionFacts
  <2> QED
    BY <2>1, <2>3, <2>5, <2>6 DEF k
<1>4. /\ ReadClause(L, x).try = ReadRun(L, x.try) /\ ReadClause(M, y).try = ReadRun(M, y.try)
      /\ ReadClause(L, x).handler = ReadRun(L, x.handler)
      /\ ReadClause(M, y).handler = ReadRun(M, y.handler)
  BY DEF ReadClause
<1> QED
  BY <1>2, <1>3, <1>4 DEF ClauseFollowed

LEMMA InstructionFollows ==
  ASSUME NEW L, Increasing(L), NEW n \in Nat, Len(L) = n + 1,
         NEW M, Increasing(M), NEW p \in Nat, Len(M) = p + 1,
         NEW lo, \A j \in 1..n : lo[j] \in 1..p,
         NEW i \in Instructions, NEW j \in Instructions, CodeFollowed(i, j, L, M, lo)
  PROVE  InstructionFollowed(ReadInstruction(L, i), ReadInstruction(M, j), lo)
<1> DEFINE ri == ReadInstruction(L, i)
           rj == ReadInstruction(M, j)
<1>1. /\ ri.op = LongForm(i.op) /\ Len(ri.to) = Len(i.to) /\ DOMAIN ri.to = DOMAIN i.to
      /\ \A m \in DOMAIN i.to : ri.to[m] = Position(L, i.to[m])
  BY ReadInstructionFacts
<1>2. /\ rj.op = LongForm(j.op) /\ Len(rj.to) = Len(j.to) /\ DOMAIN rj.to = DOMAIN j.to
      /\ \A m \in DOMAIN j.to : rj.to[m] = Position(M, j.to[m])
  BY ReadInstructionFacts
<1>3. DOMAIN i.to = DOMAIN j.to
  <2>1. i.to \in Seq(Int) /\ j.to \in Seq(Int)
    BY InstructionForm
  <2>2. Len(j.to) = Len(i.to)
    BY DEF CodeFollowed
  <2> QED
    BY <2>1, <2>2
<1>4. ASSUME NEW m \in DOMAIN i.to, Position(L, i.to[m]) # Lost
      PROVE  Position(M, j.to[m]) = lo[Position(L, i.to[m])]
  <2> DEFINE k == Position(L, i.to[m])
  <2>1. k \in 1..n /\ i.to[m] = L[k]
    <3>1. \A t : Position(L, t) # Lost => Position(L, t) \in 1..n /\ t = L[Position(L, t)]
      BY PositionFacts
    <3> QED
      BY <1>4, <3>1, Zenon
  <2> HIDE DEF k
  <2>2. j.to[m] = M[lo[k]]
    BY <2>1 DEF CodeFollowed
  <2>3. Position(M, M[lo[k]]) = lo[k]
    <3>1. lo[k] \in 1..p
      BY <2>1
    <3> QED
      BY <3>1, PositionFacts
  <2> QED
    BY <2>2, <2>3 DEF k
<1> HIDE DEF ri, rj
<1>5. ri.op = rj.op /\ Len(ri.to) = Len(rj.to) /\ DOMAIN ri.to = DOMAIN rj.to
  BY <1>1, <1>2, <1>3 DEF CodeFollowed
<1>6. \A m \in DOMAIN ri.to : ri.to[m] # Lost => rj.to[m] = lo[ri.to[m]]
  BY <1>1, <1>2, <1>3, <1>4
<1>7. InstructionFollowed(ri, rj, lo)
  BY <1>5, <1>6 DEF InstructionFollowed
<1> QED
  BY <1>7 DEF ri, rj

(* What an edit of a body must do to be an edit of its reading.              *)
LEMMA EditFollows ==
  ASSUME NEW L, Increasing(L), NEW c \in Seq(Instructions), Len(L) = Len(c) + 1,
         NEW M, Increasing(M), NEW d \in Seq(Instructions), Len(M) = Len(d) + 1,
         NEW E \in Seq(Clauses), NEW F \in Seq(Clauses), Len(F) = Len(E),
         NEW lo, NEW hi, NEW R,
         \A j \in 1..Len(c) : lo[j] \in 1..Len(d) /\ hi[j] \in 1..Len(d),
         \A i, j \in 1..Len(c) : i <= j => lo[i] <= hi[j],
         \A j \in 1..Len(c) : j \notin R => CodeFollowed(c[j], d[lo[j]], L, M, lo),
         \A x \in DOMAIN E : HandlerFollowed(E[x], F[x], L, M, lo, hi)
  PROVE  Follows(Reading(L, c, E), Reading(M, d, F), lo, hi, R)
<1> DEFINE a == Reading(L, c, E)
           b == Reading(M, d, F)
           n == Len(c)
           p == Len(d)
<1>1. n \in Nat /\ p \in Nat /\ DOMAIN c = 1..n /\ DOMAIN d = 1..p
  OBVIOUS
<1>2. /\ DOMAIN a.prog = 1..n
      /\ \A j \in DOMAIN c : a.prog[j] = ReadInstruction(L, c[j])
      /\ Len(a.clauses) = Len(E) /\ DOMAIN a.clauses = DOMAIN E
      /\ \A x \in DOMAIN E : a.clauses[x] = ReadClause(L, E[x])
  BY ReadingForm DEF WellRead
<1>3. /\ \A j \in DOMAIN d : b.prog[j] = ReadInstruction(M, d[j])
      /\ Len(b.clauses) = Len(F) /\ DOMAIN b.clauses = DOMAIN F
      /\ \A x \in DOMAIN F : b.clauses[x] = ReadClause(M, F[x])
  BY ReadingForm
<1> HIDE DEF a, b
<1>4. DOMAIN F = DOMAIN E
  OBVIOUS
<1>5. ASSUME NEW j \in DOMAIN a.prog \ R
      PROVE  InstructionFollowed(a.prog[j], b.prog[lo[j]], lo)
  <2>1. j \in 1..n /\ j \notin R /\ lo[j] \in 1..p
    BY <1>2
  <2>2. c[j] \in Instructions /\ d[lo[j]] \in Instructions
    BY <1>1, <2>1
  <2>3. CodeFollowed(c[j], d[lo[j]], L, M, lo)
    BY <2>1
  <2>4. InstructionFollowed(ReadInstruction(L, c[j]), ReadInstruction(M, d[lo[j]]), lo)
    BY <1>1, <2>2, <2>3, InstructionFollows
  <2> QED
    BY <1>1, <1>2, <1>3, <2>1, <2>4
<1>6. ASSUME NEW x \in DOMAIN a.clauses
      PROVE  ClauseFollowed(a.clauses[x], b.clauses[x], lo, hi)
  <2>1. x \in DOMAIN E /\ x \in DOMAIN F
    BY <1>2, <1>4
  <2>2. E[x] \in Clauses /\ F[x] \in Clauses
    BY <2>1
  <2>3. ClauseFollowed(ReadClause(L, E[x]), ReadClause(M, F[x]), lo, hi)
    BY <1>1, <2>1, <2>2, ClauseFollows
  <2> QED
    BY <1>2, <1>3, <2>1, <2>3
<1>7. Follows(a, b, lo, hi, R)
  BY <1>2, <1>3, <1>4, <1>5, <1>6 DEF Follows
<1> QED
  BY <1>7 DEF a, b

(* The runs of the abstract specification are unions of what instructions    *)
(* become; with instructions kept in order the ends are those of the first   *)
(* and of the last.                                                          *)
InOrder(lo, hi, n) ==
  /\ \A j \in 1..n : lo[j] \in Nat /\ hi[j] \in Nat /\ lo[j] <= hi[j]
  /\ \A i, j \in 1..n : i < j => hi[i] < lo[j]

LEMMA RunAsUnion ==
  ASSUME NEW n \in Nat, NEW lo, NEW hi, InOrder(lo, hi, n),
         NEW moved, \A j \in 1..n : moved[j] = {lo[j], hi[j]},
         NEW r, RunWithin(r, n), NEW s, RunFollowed(r, s, lo, hi)
  PROVE  Abs!RunFollows(r, s, moved)
<1>1. SUFFICES ASSUME r.first # Lost
               PROVE  s = [first |-> Abs!Min(UNION {moved[j] : j \in r.first .. r.last}),
                           last  |-> Abs!Max(UNION {moved[j] : j \in r.first .. r.last})]
  BY DEF Abs!RunFollows
<1> DEFINE f == r.first
           g == r.last
           left == UNION {moved[j] : j \in f .. g}
<1>2. f \in 1..n /\ g \in f..n /\ s = [first |-> lo[f], last |-> hi[g]]
  BY <1>1 DEF RunWithin, RunFollowed
<1>3. SUFFICES Abs!Min(left) = lo[f] /\ Abs!Max(left) = hi[g]
  BY <1>2
<1> HIDE DEF f, g
<1>4. ASSUME NEW y \in left PROVE y \in Int /\ lo[f] <= y /\ y <= hi[g]
  <2>1. PICK j \in f .. g : y \in moved[j]
    OBVIOUS
  <2>2. j \in 1..n /\ f <= j /\ j <= g /\ f \in 1..n /\ g \in 1..n
    BY <1>2
  <2>3. y = lo[j] \/ y = hi[j]
    BY <2>1, <2>2
  <2>4. /\ lo[j] \in Nat /\ hi[j] \in Nat /\ lo[j] <= hi[j]
        /\ lo[f] \in Nat /\ hi[f] \in Nat /\ lo[f] <= hi[f]
        /\ lo[g] \in Nat /\ hi[g] \in Nat /\ lo[g] <= hi[g]
    BY <2>2 DEF InOrder
  <2>5. f < j => hi[f] < lo[j]
    BY <2>2 DEF InOrder
  <2>6. j < g => hi[j] < lo[g]
    BY <2>2 DEF InOrder
  <2>7. f = j \/ f < j
    BY <2>2
  <2>8. j = g \/ j < g
    BY <2>2
  <2> QED
    BY <2>3, <2>4, <2>5, <2>6, <2>7, <2>8
<1>5. lo[f] \in left /\ hi[g] \in left
  <2>1. f \in f..g /\ g \in f..g /\ f \in 1..n /\ g \in 1..n
    BY <1>2
  <2>2. lo[f] \in moved[f] /\ hi[g] \in moved[g]
    BY <2>1
  <2> QED
    BY <2>1, <2>2
<1>6. left \subseteq Int
  BY <1>4
<1> HIDE DEF left
<1> QED
  BY <1>4, <1>5, <1>6, MinOf, MaxOf

LEMMA FollowsIsEdit ==
  ASSUME NEW a, NEW b, NEW n \in Nat, WellRead(a, n), NEW lo, NEW hi, InOrder(lo, hi, n),
         NEW R, Follows(a, b, lo, hi, R),
         NEW moved, \A j \in 1..n : moved[j] = {lo[j], hi[j]}
  PROVE  Abs!Edit(a, b, moved, R)
<1>1. ASSUME NEW j \in 1..n PROVE moved[j] # {} /\ Abs!Min(moved[j]) = lo[j]
  <2>1. lo[j] \in Nat /\ hi[j] \in Nat /\ lo[j] <= hi[j] /\ moved[j] = {lo[j], hi[j]}
    BY DEF InOrder
  <2>2. moved[j] \subseteq Int /\ lo[j] \in moved[j] /\ \A y \in moved[j] : lo[j] <= y
    BY <2>1
  <2> QED
    BY <2>2, MinOf
<1>2. Abs!InstructionsFollow(a.prog, b.prog, moved, R)
  <2>1. SUFFICES ASSUME NEW j \in DOMAIN a.prog \ R
                 PROVE  /\ b.prog[Abs!Min(moved[j])].op = a.prog[j].op
                        /\ Len(b.prog[Abs!Min(moved[j])].to) = Len(a.prog[j].to)
                        /\ \A m \in DOMAIN b.prog[Abs!Min(moved[j])].to :
                             Abs!Exists(a.prog[j].to[m], moved) =>
                               b.prog[Abs!Min(moved[j])].to[m] = Abs!Min(moved[a.prog[j].to[m]])
    BY DEF Abs!InstructionsFollow
  <2>2. j \in 1..n /\ j \notin R
    BY DEF WellRead
  <2>3. Abs!Min(moved[j]) = lo[j]
    BY <1>1, <2>2
  <2> DEFINE was == a.prog[j]
             is  == b.prog[lo[j]]
  <2>4. InstructionFollowed(was, is, lo)
    BY DEF Follows
  <2>5. was.to \in Seq(0..n)
    BY <2>2 DEF WellRead
  <2> HIDE DEF was, is
  <2>6. ASSUME NEW m \in DOMAIN is.to, Abs!Exists(was.to[m], moved)
        PROVE  is.to[m] = Abs!Min(moved[was.to[m]])
    <3>1. was.to[m] # Lost
      BY <2>6 DEF Abs!Exists
    <3>2. m \in DOMAIN was.to
      BY <2>4 DEF InstructionFollowed
    <3>3. was.to[m] \in 1..n
      BY <2>5, <3>1, <3>2 DEF Lost
    <3>4. is.to[m] = lo[was.to[m]]
      BY <2>4, <3>1, <3>2 DEF InstructionFollowed
    <3> QED
      BY <1>1, <3>3, <3>4
  <2>7. is.op = was.op /\ Len(is.to) = Len(was.to)
    BY <2>4 DEF InstructionFollowed
  <2> QED
    BY <2>3, <2>6, <2>7 DEF was, is
<1>3. Abs!ClausesFollow(a.clauses, b.clauses, moved)
  <2>1. ASSUME NEW x \in DOMAIN a.clauses
        PROVE  /\ Abs!RunFollows(a.clauses[x].try, b.clauses[x].try, moved)
               /\ Abs!RunFollows(a.clauses[x].handler, b.clauses[x].handler, moved)
               /\ Abs!Exists(a.clauses[x].filter, moved) =>
                    b.clauses[x].filter = Abs!Min(moved[a.clauses[x].filter])
    <3> DEFINE was == a.clauses[x]
               is  == b.clauses[x]
    <3>1. ClauseFollowed(was, is, lo, hi)
      BY DEF Follows
    <3>2. RunWithin(was.try, n) /\ RunWithin(was.handler, n) /\ was.filter \in 0..n
      BY DEF WellRead
    <3> HIDE DEF was, is
    <3>3. RunFollowed(was.try, is.try, lo, hi) /\ RunFollowed(was.handler, is.handler, lo, hi)
      BY <3>1 DEF ClauseFollowed
    <3>4. Abs!RunFollows(was.try, is.try, moved) /\ Abs!RunFollows(was.handler, is.handler, moved)
      BY <3>2, <3>3, RunAsUnion
    <3>5. ASSUME Abs!Exists(was.filter, moved) PROVE is.filter = Abs!Min(moved[was.filter])
      <4>1. was.filter # Lost
        BY <3>5 DEF Abs!Exists
      <4>2. was.filter \in 1..n
        BY <3>2, <4>1 DEF Lost
      <4>3. is.filter = lo[was.filter]
        BY <3>1, <4>1 DEF ClauseFollowed
      <4> QED
        BY <1>1, <4>2, <4>3
    <3> QED
      BY <3>4, <3>5 DEF was, is
  <2>2. Len(b.clauses) = Len(a.clauses)
    BY DEF Follows
  <2> QED
    BY <2>1, <2>2 DEF Abs!ClausesFollow
<1> QED
  BY <1>2, <1>3 DEF Abs!Edit

-------------------------------------------------------------------------------
(* Relocation: the body changes its encoding and reads the same.             *)

Id(n) == [j \in 1..n |-> j]

Keeps(a, b, n) ==
  /\ WellRead(a, n) /\ WellRead(b, n)
  /\ Follows(a, b, Id(n), Id(n), {})

LEMMA RunKept ==
  ASSUME NEW n, NEW a, RunWithin(a, n), NEW b, RunWithin(b, n), NEW c,
         RunFollowed(a, b, Id(n), Id(n)), RunFollowed(b, c, Id(n), Id(n))
  PROVE  RunFollowed(a, c, Id(n), Id(n))
<1>1. SUFFICES ASSUME a.first # Lost
               PROVE  c = [first |-> Id(n)[a.first], last |-> Id(n)[a.last]]
  BY DEF RunFollowed
<1>2. a.first \in 1..n /\ a.last \in 1..n
  BY <1>1 DEF RunWithin
<1>3. b = [first |-> a.first, last |-> a.last]
  BY <1>1, <1>2 DEF RunFollowed, Id
<1>4. b.first = a.first /\ b.last = a.last
  BY <1>3
<1>5. c = [first |-> Id(n)[b.first], last |-> Id(n)[b.last]]
  BY <1>1, <1>4 DEF RunFollowed
<1> QED
  BY <1>4, <1>5

LEMMA KeepsTransitive ==
  ASSUME NEW n \in Nat, NEW a, NEW b, NEW c, Keeps(a, b, n), Keeps(b, c, n)
  PROVE  Keeps(a, c, n)
<1>1. /\ WellRead(a, n) /\ WellRead(b, n) /\ WellRead(c, n)
      /\ Follows(a, b, Id(n), Id(n), {}) /\ Follows(b, c, Id(n), Id(n), {})
  BY DEF Keeps
<1>2. ASSUME NEW j \in DOMAIN a.prog \ {}
      PROVE  InstructionFollowed(a.prog[j], c.prog[Id(n)[j]], Id(n))
  <2>1. j \in 1..n /\ Id(n)[j] = j /\ j \in DOMAIN a.prog /\ j \in DOMAIN b.prog
    BY <1>1 DEF WellRead, Id
  <2>2. InstructionFollowed(a.prog[j], b.prog[j], Id(n)) /\ InstructionFollowed(b.prog[j], c.prog[j], Id(n))
    BY <1>1, <2>1 DEF Follows
  <2>3. a.prog[j].to \in Seq(0..n)
    BY <1>1, <2>1 DEF WellRead
  <2> DEFINE x == a.prog[j]
             y == b.prog[j]
             z == c.prog[j]
  <2>4. InstructionFollowed(x, y, Id(n)) /\ InstructionFollowed(y, z, Id(n)) /\ x.to \in Seq(0..n)
    BY <2>2, <2>3
  <2> HIDE DEF x, y, z
  <2>5. ASSUME NEW m \in DOMAIN x.to, x.to[m] # Lost PROVE z.to[m] = Id(n)[x.to[m]]
    <3>1. x.to[m] \in 1..n
      BY <2>4, <2>5 DEF Lost
    <3>2. m \in DOMAIN y.to /\ y.to[m] = Id(n)[x.to[m]]
      BY <2>4, <2>5 DEF InstructionFollowed
    <3>3. y.to[m] = x.to[m]
      BY <3>1, <3>2 DEF Id
    <3>4. z.to[m] = Id(n)[y.to[m]]
      BY <2>4, <2>5, <3>2, <3>3 DEF InstructionFollowed
    <3> QED
      BY <3>3, <3>4
  <2>6. InstructionFollowed(x, z, Id(n))
    BY <2>4, <2>5 DEF InstructionFollowed
  <2> QED
    BY <2>1, <2>6 DEF x, z
<1>3. DOMAIN c.clauses = DOMAIN a.clauses /\ Len(c.clauses) = Len(a.clauses) /\ DOMAIN b.clauses = DOMAIN a.clauses
  BY <1>1 DEF Follows
<1>4. ASSUME NEW x \in DOMAIN a.clauses
      PROVE  ClauseFollowed(a.clauses[x], c.clauses[x], Id(n), Id(n))
  <2> DEFINE p == a.clauses[x]
             q == b.clauses[x]
             r == c.clauses[x]
  <2>1. ClauseFollowed(p, q, Id(n), Id(n)) /\ ClauseFollowed(q, r, Id(n), Id(n))
    BY <1>1, <1>3 DEF Follows
  <2>2. /\ RunWithin(p.try, n) /\ RunWithin(p.handler, n) /\ p.filter \in 0..n
        /\ RunWithin(q.try, n) /\ RunWithin(q.handler, n)
    BY <1>1, <1>3 DEF WellRead
  <2> HIDE DEF p, q, r
  <2>3. /\ RunFollowed(p.try, r.try, Id(n), Id(n))
        /\ RunFollowed(p.handler, r.handler, Id(n), Id(n))
    BY <2>1, <2>2, RunKept DEF ClauseFollowed
  <2>4. ASSUME p.filter # Lost PROVE r.filter = Id(n)[p.filter]
    <3>1. p.filter \in 1..n
      BY <2>2, <2>4 DEF Lost
    <3>2. q.filter = p.filter
      BY <2>1, <2>4, <3>1 DEF ClauseFollowed, Id
    <3> QED
      BY <2>1, <2>4, <3>2 DEF ClauseFollowed
  <2>5. ClauseFollowed(p, r, Id(n), Id(n))
    BY <2>3, <2>4 DEF ClauseFollowed
  <2> QED
    BY <2>5 DEF p, r
<1>5. Follows(a, c, Id(n), Id(n), {})
  BY <1>2, <1>3, <1>4 DEF Follows
<1> QED
  BY <1>1, <1>5 DEF Keeps

(* A body that reads the same is another encoding of it.                     *)
LEMMA KeepsIsStep ==
  ASSUME NEW n \in Nat, NEW a, NEW b, Keeps(a, b, n)
  PROVE  Len(b.prog) = Len(a.prog) /\ Abs!Edit(a, b, Abs!Same(a.prog), {})
<1>1. WellRead(a, n) /\ WellRead(b, n) /\ Follows(a, b, Id(n), Id(n), {})
  BY DEF Keeps
<1>2. InOrder(Id(n), Id(n), n)
  BY DEF InOrder, Id
<1>3. \A j \in 1..n : Abs!Same(a.prog)[j] = {Id(n)[j], Id(n)[j]}
  BY <1>1 DEF Abs!Same, Id, WellRead
<1>4. Abs!Edit(a, b, Abs!Same(a.prog), {})
  BY <1>1, <1>2, <1>3, FollowsIsEdit
<1> QED
  BY <1>1, <1>4 DEF WellRead

(* What relocation makes of an offset, and of a region.                      *)
Relocated(old, new, t) == IF IndexIn(old, t) = 0 THEN t ELSE new[IndexIn(old, t)]
RegionRelocated(old, new, r) ==
  IF IndexIn(old, r.off) = 0 \/ IndexIn(old, r.off + r.len) = 0 THEN r
    ELSE [off |-> Relocated(old, new, r.off),
          len |-> Relocated(old, new, r.off + r.len) - Relocated(old, new, r.off)]

LEMMA RestoreEffect ==
  ASSUME NEW c \in Seq(Instructions), NEW E \in Seq(Clauses), NEW old, NEW new
  PROVE  /\ \A k \in DOMAIN c :
              Restore(old, new, c, E).code[k].to = [m \in DOMAIN c[k].to |-> Relocated(old, new, c[k].to[m])]
         /\ Len(Restore(old, new, c, E).eh) = Len(E)
         /\ \A x \in DOMAIN E :
              /\ Restore(old, new, c, E).eh[x].try = RegionRelocated(old, new, E[x].try)
              /\ Restore(old, new, c, E).eh[x].handler = RegionRelocated(old, new, E[x].handler)
              /\ Restore(old, new, c, E).eh[x].filter =
                   IF E[x].filter = None THEN None ELSE Relocated(old, new, E[x].filter)
<1> DEFINE To(i) == [m \in DOMAIN i.to |-> Relocated(old, new, i.to[m])]
           d == Restore(old, new, c, E).code
           F == Restore(old, new, c, E).eh
<1>1. d = [k \in DOMAIN c |-> [c[k] EXCEPT !.off = new[k], !.to = To(c[k])]]
  BY DEF Restore, Relocated
<1>2. F = [x \in DOMAIN E |->
             [try     |-> RegionRelocated(old, new, E[x].try),
              handler |-> RegionRelocated(old, new, E[x].handler),
              filter  |-> IF E[x].filter = None THEN None ELSE Relocated(old, new, E[x].filter)]]
  BY DEF Restore, EachClause, RegionRelocated, Relocated
<1> HIDE DEF d, F, To
<1>3. ASSUME NEW k \in DOMAIN c PROVE d[k].to = To(c[k])
  <2>1. c[k] \in [op : Opcodes, off : Nat, to : Seq(Int)]
    BY InstructionForm
  <2>2. d[k] = [c[k] EXCEPT !.off = new[k], !.to = To(c[k])]
    BY <1>1
  <2> QED
    BY <2>1, <2>2
<1>4. Len(F) = Len(E)
  <2> DEFINE g(x) == [try     |-> RegionRelocated(old, new, E[x].try),
                      handler |-> RegionRelocated(old, new, E[x].handler),
                      filter  |-> IF E[x].filter = None THEN None ELSE Relocated(old, new, E[x].filter)]
  <2>1. F = [x \in 1..Len(E) |-> g(x)] /\ Len(E) \in Nat
    BY <1>2
  <2> HIDE DEF g
  <2>2. F \in [1..Len(E) -> {g(x) : x \in 1..Len(E)}]
    BY <2>1
  <2> QED
    BY <2>1, <2>2
<1>5. \A x \in DOMAIN E : /\ F[x].try = RegionRelocated(old, new, E[x].try)
                          /\ F[x].handler = RegionRelocated(old, new, E[x].handler)
                          /\ F[x].filter = IF E[x].filter = None THEN None
                                             ELSE Relocated(old, new, E[x].filter)
  BY <1>2
<1> QED
  BY <1>3, <1>4, <1>5 DEF d, F, To

LEMMA RegionKept ==
  ASSUME NEW L, Increasing(L), NEW n \in Nat, Len(L) = n + 1,
         NEW M, Increasing(M), Len(M) = n + 1, NEW r \in Regions
  PROVE  RegionFollowed(r, RegionRelocated(L, M, r), L, M, Id(n), Id(n))
<1> DEFINE s == RegionRelocated(L, M, r)
<1>1. SUFFICES ASSUME NEW i \in 1..n, NEW e \in 1..(n + 1),
                      i < e, r.off = L[i], r.off + r.len = L[e]
               PROVE  s.off = M[Id(n)[i]] /\ s.off + s.len = M[Id(n)[e - 1] + 1]
  <2>1. Len(L) - 1 = n /\ Len(L) = n + 1
    OBVIOUS
  <2> QED
    BY <2>1 DEF RegionFollowed
<1>2. i \in DOMAIN L /\ e \in DOMAIN L /\ i # 0 /\ e # 0
  BY DEF Increasing
<1>3. IndexIn(L, r.off) = i /\ IndexIn(L, r.off + r.len) = e
  BY <1>1, <1>2, IndexFacts
<1>4. s = [off |-> M[i], len |-> M[e] - M[i]]
  BY <1>2, <1>3 DEF RegionRelocated, Relocated
<1>5. Id(n)[i] = i /\ Id(n)[e - 1] + 1 = e
  BY <1>1 DEF Id
<1>6. M[i] \in Nat /\ M[e] \in Nat
  <2>1. i \in 1..Len(M) /\ e \in 1..Len(M)
    BY <1>1
  <2> QED
    BY <2>1 DEF Increasing
<1>7. s.off = M[i] /\ s.len = M[e] - M[i]
  BY <1>4
<1> HIDE DEF s
<1>8. s.off + s.len = M[e]
  BY <1>6, <1>7
<1> QED
  BY <1>5, <1>7, <1>8

(* Restoring a body through the layout it was read with keeps its reading,   *)
(* in whatever encoding of the same opcodes.                                 *)
LEMMA RestoreKeeps ==
  ASSUME NEW c \in Seq(Instructions), NEW d \in Seq(Instructions), Len(d) = Len(c),
         \A k \in DOMAIN c : LongForm(d[k].op) = LongForm(c[k].op) /\ d[k].to = c[k].to,
         NEW E \in Seq(Clauses), NEW L, Increasing(L), Len(L) = Len(c) + 1
  PROVE  LET b == Restore(L, NewOffsets(d), d, E)
         IN  Keeps(Reading(L, c, E), Reading(NewOffsets(d), b.code, b.eh), Len(c))
<1> DEFINE n == Len(c)
           M == NewOffsets(d)
           f == Restore(L, M, d, E).code
           F == Restore(L, M, d, E).eh
<1>1. n \in Nat /\ DOMAIN c = 1..n /\ DOMAIN d = 1..n /\ L \in Seq(Nat) /\ L \in Seq(Int)
  BY DEF Increasing
<1>2. Increasing(M) /\ Len(M) = n + 1
  BY LayoutIncreases
<1>3. /\ f \in Seq(Instructions) /\ Len(f) = n /\ F \in Seq(Clauses)
      /\ \A k \in DOMAIN d : f[k].op = d[k].op
  <2>1. M \in Seq(Nat)
    BY <1>2 DEF Increasing
  <2> HIDE DEF M
  <2> QED
    BY <1>1, <1>2, <2>1, RestoreType
<1>4. /\ \A k \in DOMAIN d : f[k].to = [m \in DOMAIN d[k].to |-> Relocated(L, M, d[k].to[m])]
      /\ Len(F) = Len(E)
      /\ \A x \in DOMAIN E : /\ F[x].try = RegionRelocated(L, M, E[x].try)
                             /\ F[x].handler = RegionRelocated(L, M, E[x].handler)
                             /\ F[x].filter = IF E[x].filter = None THEN None
                                                ELSE Relocated(L, M, E[x].filter)
  BY RestoreEffect
<1> HIDE DEF n, M, f, F
<1>5. ASSUME NEW k \in 1..n PROVE Relocated(L, M, L[k]) = M[k]
  <2>1. k \in DOMAIN L /\ k # 0
    BY <1>1 DEF n
  <2>2. IndexIn(L, L[k]) = k
    BY <2>1, IndexFacts
  <2> QED
    BY <2>1, <2>2 DEF Relocated
<1>6. ASSUME NEW j \in 1..n PROVE CodeFollowed(c[j], f[Id(n)[j]], L, M, Id(n))
  <2>a. c[j] \in Instructions /\ f[j] \in Instructions
    <3>1. DOMAIN f = 1..n
      BY <1>1, <1>3
    <3> QED
      BY <1>1, <1>3, <3>1
  <2>b. Id(n)[j] = j
    BY DEF Id
  <2>1. Id(n)[j] = j /\ c[j].to \in Seq(Int) /\ f[j].to \in Seq(Int)
    BY <2>a, <2>b, InstructionForm
  <2>2. LongForm(f[j].op) = LongForm(c[j].op) /\ d[j].to = c[j].to
    BY <1>1, <1>3
  <2>3. f[j].to = [m \in DOMAIN c[j].to |-> Relocated(L, M, c[j].to[m])]
    BY <1>1, <1>4, <2>2
  <2>4. Len(f[j].to) = Len(c[j].to)
    BY <2>1, <2>3
  <2>5. ASSUME NEW m \in DOMAIN c[j].to, NEW k \in 1..(Len(L) - 1), c[j].to[m] = L[k]
        PROVE  f[j].to[m] = M[Id(n)[k]]
    <3>1. k \in 1..n /\ Id(n)[k] = k
      BY <1>1 DEF Id, n
    <3> QED
      BY <1>5, <2>3, <2>5, <3>1
  <2> QED
    BY <2>1, <2>2, <2>4, <2>5 DEF CodeFollowed
<1>7. ASSUME NEW x \in DOMAIN E PROVE HandlerFollowed(E[x], F[x], L, M, Id(n), Id(n))
  <2>1. E[x].try \in Regions /\ E[x].handler \in Regions
    <3>1. E[x] \in Clauses
      OBVIOUS
    <3> QED
      BY <3>1 DEF Clauses
  <2>2. Len(L) = n + 1
    BY DEF n
  <2>3. /\ RegionFollowed(E[x].try, F[x].try, L, M, Id(n), Id(n))
        /\ RegionFollowed(E[x].handler, F[x].handler, L, M, Id(n), Id(n))
    BY <1>1, <1>2, <1>4, <2>1, <2>2, RegionKept
  <2>4. ASSUME NEW k \in 1..(Len(L) - 1), E[x].filter = L[k] PROVE F[x].filter = M[Id(n)[k]]
    <3>1. k \in 1..n /\ Id(n)[k] = k /\ k \in DOMAIN L
      BY <1>1, <2>2 DEF Id
    <3>2. E[x].filter # None
      <4>1. L[k] \in Nat
        BY <1>1, <3>1
      <4> QED
        BY <2>4, <4>1, NoneAssumption
    <3> QED
      BY <1>4, <1>5, <2>4, <3>1, <3>2
  <2> QED
    BY <2>3, <2>4 DEF HandlerFollowed
<1>8. /\ \A j \in 1..n : Id(n)[j] \in 1..n
      /\ \A i, j \in 1..n : i <= j => Id(n)[i] <= Id(n)[j]
  BY DEF Id
<1>9. Follows(Reading(L, c, E), Reading(M, f, F), Id(n), Id(n), {})
  <2>1. Len(L) = Len(c) + 1 /\ Len(M) = Len(f) + 1 /\ Len(c) = n /\ Len(f) = n
    BY <1>2, <1>3 DEF n
  <2> QED
    BY <1>2, <1>3, <1>4, <1>6, <1>7, <1>8, <2>1, EditFollows
<1>10. WellRead(Reading(L, c, E), n) /\ WellRead(Reading(M, f, F), n)
  <2>1. Len(L) = Len(c) + 1 /\ Len(M) = Len(f) + 1 /\ Len(c) = n /\ Len(f) = n
    BY <1>2, <1>3 DEF n
  <2> QED
    BY <1>2, <1>3, <2>1, ReadingForm
<1> QED
  BY <1>9, <1>10 DEF Keeps, n, M, f, F

LEMMA InOrderId ==
  ASSUME NEW n \in Nat
  PROVE  /\ \A j \in 1..n : Id(n)[j] = j /\ Id(n)[j] \in 1..n
         /\ \A i, j \in 1..n : i <= j => Id(n)[i] <= Id(n)[j]
BY DEF Id

(* Two layouts that differ in the code end read alike what refers to the     *)
(* second one.                                                               *)
LEMMA EndsAgree ==
  ASSUME NEW L, Increasing(L), NEW n \in Nat, Len(L) = n + 1,
         NEW M, Increasing(M), Len(M) = n + 1, \A k \in 1..n : L[k] = M[k],
         NEW r \in Regions, IndexIn(M, r.off + r.len) # 0
  PROVE  RegionFollowed(r, r, L, M, Id(n), Id(n))
<1>1. SUFFICES ASSUME NEW i \in 1..n, NEW e \in 1..(n + 1),
                      i < e, r.off = L[i], r.off + r.len = L[e]
               PROVE  r.off = M[Id(n)[i]] /\ r.off + r.len = M[Id(n)[e - 1] + 1]
  <2>1. Len(L) - 1 = n /\ Len(L) = n + 1
    OBVIOUS
  <2> QED
    BY <2>1 DEF RegionFollowed
<1>2. Id(n)[i] = i /\ Id(n)[e - 1] + 1 = e
  BY <1>1 DEF Id
<1> DEFINE g == IndexIn(M, r.off + r.len)
<1>3. g \in DOMAIN M /\ M[g] = r.off + r.len
  BY IndexFacts
<1> HIDE DEF g
<1>4. g \in 1..(n + 1) /\ M[g] = L[e]
  BY <1>1, <1>3 DEF Increasing
<1>5. g = e
  <2>1. CASE e \in 1..n
    <3>1. e \in DOMAIN M /\ g \in DOMAIN M /\ M[g] = M[e]
      BY <1>3, <1>4, <2>1 DEF Increasing
    <3>2. IndexIn(M, M[g]) = g /\ IndexIn(M, M[e]) = e
      BY <3>1, IndexFacts
    <3> QED
      BY <3>1, <3>2
  <2>2. CASE e = n + 1 /\ g \in 1..n
    <3>1. e \in DOMAIN L /\ g \in DOMAIN L /\ L[g] = L[e]
      BY <1>4, <2>2 DEF Increasing
    <3>2. IndexIn(L, L[g]) = g /\ IndexIn(L, L[e]) = e
      BY <3>1, IndexFacts
    <3> QED
      BY <3>1, <3>2
  <2> QED
    BY <1>4, <2>1, <2>2
<1> QED
  BY <1>1, <1>2, <1>4, <1>5

LEMMA LayoutsAgree ==
  ASSUME NEW c \in Seq(Instructions), NEW E \in Seq(Clauses),
         NEW L, Increasing(L), Len(L) = Len(c) + 1,
         NEW M, Increasing(M), Len(M) = Len(c) + 1, \A k \in DOMAIN c : L[k] = M[k],
         ValidTargets(M, c, E)
  PROVE  Keeps(Reading(L, c, E), Reading(M, c, E), Len(c))
<1> DEFINE n == Len(c)
<1>1. n \in Nat /\ DOMAIN c = 1..n /\ Len(L) - 1 = n /\ Len(L) = n + 1 /\ Len(M) = n + 1
  OBVIOUS
<1> HIDE DEF n
<1>2. ASSUME NEW j \in 1..n PROVE CodeFollowed(c[j], c[Id(n)[j]], L, M, Id(n))
  <2>1. Id(n)[j] = j
    BY <1>1, InOrderId
  <2>2. \A m \in DOMAIN c[j].to, k \in 1..(Len(L) - 1) : c[j].to[m] = L[k] => c[j].to[m] = M[Id(n)[k]]
    BY <1>1, InOrderId
  <2> QED
    BY <2>1, <2>2 DEF CodeFollowed
<1>3. ASSUME NEW x \in DOMAIN E PROVE HandlerFollowed(E[x], E[x], L, M, Id(n), Id(n))
  <2>1. E[x].try \in Regions /\ E[x].handler \in Regions
    <3>1. E[x] \in Clauses
      OBVIOUS
    <3> QED
      BY <3>1 DEF Clauses
  <2>2. /\ IndexIn(M, E[x].try.off + E[x].try.len) # 0
        /\ IndexIn(M, E[x].handler.off + E[x].handler.len) # 0
    BY DEF ValidTargets
  <2>3. /\ RegionFollowed(E[x].try, E[x].try, L, M, Id(n), Id(n))
        /\ RegionFollowed(E[x].handler, E[x].handler, L, M, Id(n), Id(n))
    BY <1>1, <2>1, <2>2, EndsAgree
  <2>4. \A k \in 1..(Len(L) - 1) : E[x].filter = L[k] => E[x].filter = M[Id(n)[k]]
    BY <1>1, InOrderId
  <2> QED
    BY <2>3, <2>4 DEF HandlerFollowed
<1>4. Follows(Reading(L, c, E), Reading(M, c, E), Id(n), Id(n), {})
  <2>1. Len(E) = Len(E) /\ Len(c) = n
    BY DEF n
  <2>2. \A j \in 1..Len(c) : Id(n)[j] \in 1..Len(c) /\ Id(n)[j] \in 1..Len(c)
    BY <1>1, <2>1, InOrderId
  <2>3. \A i, j \in 1..Len(c) : i <= j => Id(n)[i] <= Id(n)[j]
    BY <1>1, <2>1, InOrderId
  <2>4. \A j \in 1..Len(c) : j \notin {} => CodeFollowed(c[j], c[Id(n)[j]], L, M, Id(n))
    BY <1>2, <2>1
  <2> QED
    BY <1>3, <2>2, <2>3, <2>4, EditFollows
<1>5. WellRead(Reading(L, c, E), n) /\ WellRead(Reading(M, c, E), n)
  BY ReadingForm DEF n
<1> QED
  BY <1>4, <1>5 DEF Keeps, n

(* Other encodings of the same instructions.                                 *)
Recodes(c, d) ==
  Len(d) = Len(c) /\ \A k \in DOMAIN c : LongForm(d[k].op) = LongForm(c[k].op) /\ d[k].to = c[k].to

LEMMA LongFormTwice ==
  ASSUME NEW op \in Opcodes
  PROVE  LongForm(LongForm(op)) = LongForm(op)
BY DEF LongForm

LEMMA SimplifyRecodes ==
  ASSUME NEW c \in Seq(Instructions)
  PROVE  LET d == [k \in DOMAIN c |-> [c[k] EXCEPT !.op = LongForm(c[k].op)]]
         IN  d \in Seq(Instructions) /\ Recodes(c, d)
<1> DEFINE n == Len(c)
           d == [k \in DOMAIN c |-> [c[k] EXCEPT !.op = LongForm(c[k].op)]]
<1>1. n \in Nat /\ DOMAIN c = 1..n
  OBVIOUS
<1>2. ASSUME NEW k \in 1..n
      PROVE  /\ [c[k] EXCEPT !.op = LongForm(c[k].op)] \in Instructions
             /\ LongForm([c[k] EXCEPT !.op = LongForm(c[k].op)].op) = LongForm(c[k].op)
             /\ [c[k] EXCEPT !.op = LongForm(c[k].op)].to = c[k].to
  <2>1. c[k] \in Instructions
    BY <1>1
  <2>2. c[k] \in [op : Opcodes, off : Nat, to : Seq(Int)]
    BY <2>1, InstructionForm
  <2>3. LongForm(c[k].op) \in Opcodes /\ Operands(LongForm(c[k].op)) = Operands(c[k].op)
        /\ LongForm(LongForm(c[k].op)) = LongForm(c[k].op)
    BY <2>2, LongForms, LongFormTwice
  <2>4. [c[k] EXCEPT !.op = LongForm(c[k].op)].to = c[k].to
    BY <2>2
  <2> QED
    BY <2>1, <2>3, <2>4, Recoded
<1>3. d \in Seq(Instructions) /\ Len(d) = n
  <2>1. d \in [1..n -> Instructions]
    BY <1>1, <1>2
  <2> HIDE DEF d, n
  <2> QED
    BY <1>1, <2>1
<1>4. \A k \in 1..n : LongForm(d[k].op) = LongForm(c[k].op) /\ d[k].to = c[k].to
  <2> TAKE k \in 1..n
  <2>1. d[k] = [c[k] EXCEPT !.op = LongForm(c[k].op)]
    BY <1>1
  <2> HIDE DEF d
  <2> QED
    BY <1>2, <2>1
<1> HIDE DEF d
<1>5. Recodes(c, d)
  BY <1>1, <1>3, <1>4 DEF Recodes
<1> QED
  BY <1>3, <1>5 DEF d

LEMMA InstructionsRecode ==
  ASSUME NEW c \in Seq(Instructions)
  PROVE  Recodes(c, OptimizeInstructions(c))
<1> DEFINE n == Len(c)
           d == OptimizeInstructions(c)
<1>1. n \in Nat /\ DOMAIN c = 1..n /\ Len(d) = n
  BY OptimizedInstructions
<1>2. ASSUME NEW k \in 1..n
      PROVE  LongForm(d[k].op) = LongForm(c[k].op) /\ d[k].to = c[k].to
  <2>1. c[k] \in Instructions
    BY <1>1
  <2>2. c[k] \in [op : Opcodes, off : Nat, to : Seq(Int)]
    BY <2>1, InstructionForm
  <2>3. d[k] = IF c[k].op = "ldc_i4" THEN [c[k] EXCEPT !.op = "ldc_i4_0"] ELSE c[k]
    BY <1>1 DEF OptimizeInstructions
  <2> HIDE DEF d
  <2>4. CASE c[k].op = "ldc_i4"
    <3>1. d[k].op = "ldc_i4_0" /\ d[k].to = c[k].to
      BY <2>2, <2>3, <2>4
    <3> QED
      BY <2>4, <3>1 DEF LongForm
  <2>5. CASE c[k].op # "ldc_i4"
    BY <2>3, <2>5
  <2> QED
    BY <2>4, <2>5
<1> HIDE DEF d, n
<1> QED
  BY <1>1, <1>2 DEF Recodes, d, n

LEMMA ShortenStepRecodes ==
  ASSUME NEW c \in Seq(Instructions), NEW old, NEW k \in DOMAIN c, NEW before,
         before.code \in Seq(Instructions), Recodes(c, before.code)
  PROVE  Recodes(c, ShortenStep(c, old, k, before).code)
<1> DEFINE d == before.code
           short == [d EXCEPT ![k].op = "br_s"]
<1>1. /\ d \in Seq(Instructions) /\ Len(d) = Len(c) /\ k \in DOMAIN d /\ DOMAIN d = DOMAIN c
      /\ Len(c) \in Nat /\ DOMAIN c = 1..Len(c)
  BY DEF Recodes
<1>2. \/ ShortenStep(c, old, k, before) = before
      \/ c[k].op = "br" /\ ShortenStep(c, old, k, before).code = short
  BY DEF ShortenStep
<1>3. ASSUME c[k].op = "br" PROVE Recodes(c, short)
  <2>1. d[k] \in Instructions
    BY <1>1
  <2>2. d[k] \in [op : Opcodes, off : Nat, to : Seq(Int)]
    BY <2>1, InstructionForm
  <2> DEFINE i == [d[k] EXCEPT !.op = "br_s"]
  <2>3. i.op = "br_s" /\ i.to = d[k].to
    BY <2>2
  <2>4. short = [d EXCEPT ![k] = i]
    OBVIOUS
  <2>5. \A j \in DOMAIN c : LongForm(d[j].op) = LongForm(c[j].op) /\ d[j].to = c[j].to
    BY DEF Recodes
  <2>6. LongForm("br_s") = LongForm("br")
    BY DEF LongForm
  <2> HIDE DEF i, short, d
  <2>7. Len(short) = Len(c)
    BY <1>1, <2>4
  <2>8. ASSUME NEW j \in DOMAIN c
        PROVE  LongForm(short[j].op) = LongForm(c[j].op) /\ short[j].to = c[j].to
    <3>1. short[j] = IF j = k THEN i ELSE d[j]
      BY <1>1, <2>4
    <3>2. CASE j = k
      BY <1>3, <2>3, <2>5, <2>6, <3>1, <3>2
    <3>3. CASE j # k
      BY <2>5, <3>1, <3>3
    <3> QED
      BY <3>2, <3>3
  <2> QED
    BY <2>7, <2>8 DEF Recodes
<1> HIDE DEF short
<1> QED
  BY <1>1, <1>2, <1>3

LEMMA BranchesRecode ==
  ASSUME NEW c \in Seq(Instructions), NEW old
  PROVE  Recodes(c, OptimizeBranches(c, old))
<1> DEFINE n == Len(c)
           pass == CHOOSE f : ShortenPass(c, old, n, f)
<1>1. n \in Nat /\ DOMAIN c = 1..n
  OBVIOUS
<1>2. OptimizeBranches(c, old) = pass[n].code
  BY DEF OptimizeBranches, ShortenPass, ShortenStep
<1>3. ShortenPass(c, old, n, pass)
  BY <1>1, ShortenPassExists
<1> HIDE DEF pass, n
<1> DEFINE Good(k) == /\ pass[k].code \in Seq(Instructions) /\ Len(pass[k].code) = n
                      /\ \A j \in DOMAIN c : Operands(pass[k].code[j].op) = Operands(c[j].op)
                      /\ Recodes(c, pass[k].code)
           Bad == {k \in 0..n : ~Good(k)}
<1>4. Good(0)
  <2>1. pass[0].code = c
    BY <1>1, <1>3 DEF ShortenPass
  <2> QED
    BY <2>1 DEF n, Recodes
<1>5. ASSUME NEW k \in 1..n, Good(k - 1) PROVE Good(k)
  <2>1. pass[k] = ShortenStep(c, old, k, pass[k - 1])
    BY <1>1, <1>3 DEF ShortenPass
  <2>2. k \in DOMAIN c
    BY <1>1
  <2>3. LET after == ShortenStep(c, old, k, pass[k - 1])
        IN  /\ after.code \in Seq(Instructions) /\ Len(after.code) = Len(c)
            /\ \A j \in DOMAIN c : Operands(after.code[j].op) = Operands(c[j].op)
    BY <1>5, <2>2, ShortenStepType, SMTT(20) DEF n
  <2>4. Recodes(c, ShortenStep(c, old, k, pass[k - 1]).code)
    BY <1>5, <2>2, ShortenStepRecodes
  <2> QED
    BY <2>1, <2>3, <2>4 DEF n
<1> HIDE DEF Good
<1>6. Bad = {}
  <2>1. SUFFICES ASSUME Bad # {} PROVE FALSE
    OBVIOUS
  <2>2. PICK k \in Bad : \A j \in Bad : k <= j
    <3>1. Bad \in SUBSET Nat
      BY <1>1
    <3> HIDE DEF Bad
    <3> QED
      BY <2>1, <3>1, LeastNat
  <2>3. k \in 0..n /\ ~Good(k)
    BY <2>2
  <2>4. k \in 1..n
    BY <1>1, <1>4, <2>3
  <2>5. k - 1 \in 0..n /\ k - 1 \notin Bad
    <3> HIDE DEF Bad
    <3> QED
      BY <1>1, <2>2, <2>4
  <2>6. Good(k - 1)
    BY <2>5
  <2> QED
    BY <1>5, <2>3, <2>4, <2>6
<1>7. Good(n)
  <2>1. n \in 0..n
    BY <1>1
  <2> QED
    BY <1>6, <2>1
<1> QED
  BY <1>2, <1>7 DEF Good

LEMMA RecodesTransitive ==
  ASSUME NEW c \in Seq(Instructions), NEW d \in Seq(Instructions), NEW e,
         Recodes(c, d), Recodes(d, e)
  PROVE  Recodes(c, e)
<1>1. DOMAIN c = DOMAIN d /\ Len(e) = Len(c)
  BY DEF Recodes
<1> QED
  BY <1>1 DEF Recodes

(* What a placed body says, without its offsets.                             *)
ReadBody(b) == Reading(NewOffsets(b.code), b.code, b.eh)

LEMMA RelocationKeeps ==
  ASSUME NEW c \in Seq(Instructions), NEW d \in Seq(Instructions), Recodes(c, d),
         NEW E \in Seq(Clauses), NEW L, Increasing(L), Len(L) = Len(c) + 1
  PROVE  Keeps(Reading(L, c, E), ReadBody(Restore(L, NewOffsets(d), d, E)), Len(c))
<1> DEFINE b == Restore(L, NewOffsets(d), d, E)
<1>1. Keeps(Reading(L, c, E), Reading(NewOffsets(d), b.code, b.eh), Len(c))
  BY RestoreKeeps DEF Recodes
<1>2. /\ b.code \in Seq(Instructions) /\ Len(b.code) = Len(d)
      /\ \A k \in DOMAIN d : b.code[k].op = d[k].op
  <2>1. NewOffsets(d) \in Seq(Nat) /\ Len(NewOffsets(d)) = Len(d) + 1
    BY OffsetsType
  <2>2. L \in Seq(Int) /\ Len(L) = Len(d) + 1
    BY DEF Increasing, Recodes
  <2> QED
    BY <2>1, <2>2, RestoreType
<1> HIDE DEF b
<1>3. SameSizes(d, b.code)
  <2>1. DOMAIN b.code = DOMAIN d
    BY <1>2
  <2>2. \A k \in DOMAIN d : b.code[k] \in Instructions /\ d[k] \in Instructions
    BY <1>2, <2>1
  <2>3. \A k \in DOMAIN d : EncodedSize(b.code[k]) = EncodedSize(d[k])
    BY <1>2, <2>2, SizeByOpcode
  <2> QED
    BY <1>2, <2>3 DEF SameSizes
<1>4. NewOffsets(b.code) = NewOffsets(d)
  BY <1>2, <1>3, SameLayout
<1> QED
  BY <1>1, <1>4 DEF ReadBody, b

(* A reading does not depend on the stored offsets of the instructions.      *)
LEMMA SameReading ==
  ASSUME NEW c \in Seq(Instructions), NEW d \in Seq(Instructions), Recodes(c, d), NEW L, NEW E
  PROVE  Reading(L, d, E) = Reading(L, c, E)
<1>1. DOMAIN d = DOMAIN c
  BY DEF Recodes
<1>2. ASSUME NEW k \in DOMAIN c PROVE ReadInstruction(L, d[k]) = ReadInstruction(L, c[k])
  <2>1. LongForm(d[k].op) = LongForm(c[k].op) /\ d[k].to = c[k].to
    BY DEF Recodes
  <2> QED
    BY <2>1 DEF ReadInstruction
<1> QED
  BY <1>1, <1>2 DEF Reading

LEMMA KeepsItself ==
  ASSUME NEW c \in Seq(Instructions), NEW E \in Seq(Clauses), NEW L, Increasing(L),
         Len(L) = Len(c) + 1
  PROVE  Keeps(Reading(L, c, E), Reading(L, c, E), Len(c))
<1> DEFINE a == Reading(L, c, E)
           n == Len(c)
<1>1. WellRead(a, n) /\ n \in Nat
  BY ReadingForm
<1> HIDE DEF a, n
<1>2. ASSUME NEW j \in 1..n PROVE InstructionFollowed(a.prog[j], a.prog[Id(n)[j]], Id(n))
  <2>1. Id(n)[j] = j /\ a.prog[j].to \in Seq(0..n)
    BY <1>1, InOrderId DEF WellRead
  <2>2. \A m \in DOMAIN a.prog[j].to : a.prog[j].to[m] # Lost => a.prog[j].to[m] = Id(n)[a.prog[j].to[m]]
    BY <1>1, <2>1, InOrderId, SMTT(20) DEF Lost
  <2> QED
    BY <2>1, <2>2 DEF InstructionFollowed
<1>3. ASSUME NEW r, RunWithin(r, n), r = [first |-> r.first, last |-> r.last]
      PROVE  RunFollowed(r, r, Id(n), Id(n))
  <2>1. r.first # Lost => Id(n)[r.first] = r.first /\ Id(n)[r.last] = r.last
    BY <1>1, <1>3, InOrderId DEF RunWithin
  <2> QED
    BY <1>3, <2>1 DEF RunFollowed
<1>4. ASSUME NEW x \in DOMAIN a.clauses
      PROVE  ClauseFollowed(a.clauses[x], a.clauses[x], Id(n), Id(n))
  <2> DEFINE y == a.clauses[x]
  <2>1. RunWithin(y.try, n) /\ RunWithin(y.handler, n) /\ y.filter \in 0..n
    BY <1>1 DEF WellRead
  <2>2. y.try = [first |-> y.try.first, last |-> y.try.last]
        /\ y.handler = [first |-> y.handler.first, last |-> y.handler.last]
    <3>1. x \in DOMAIN E /\ y = ReadClause(L, E[x])
      BY ReadingForm DEF a
    <3> HIDE DEF y
    <3>2. y.try = ReadRun(L, E[x].try) /\ y.handler = ReadRun(L, E[x].handler)
      BY <3>1 DEF ReadClause
    <3> QED
      BY <3>2 DEF ReadRun
  <2> HIDE DEF y
  <2>3. y.filter # Lost => y.filter = Id(n)[y.filter]
    BY <1>1, <2>1, InOrderId DEF Lost
  <2>4. ClauseFollowed(y, y, Id(n), Id(n))
    BY <1>3, <2>1, <2>2, <2>3 DEF ClauseFollowed
  <2> QED
    BY <2>4 DEF y
<1>5. Follows(a, a, Id(n), Id(n), {})
  BY <1>1, <1>2, <1>4 DEF Follows, WellRead
<1> QED
  BY <1>1, <1>5 DEF Keeps, a, n

LEMMA RecomputedRecodes ==
  ASSUME NEW c \in Seq(Instructions)
  PROVE  Recodes(c, RecomputeOffsets(c)) /\ NewOffsets(RecomputeOffsets(c)) = NewOffsets(c)
<1> DEFINE d == RecomputeOffsets(c)
<1>1. d \in Seq(Instructions) /\ Len(d) = Len(c)
  BY Relayout
<1>2. \A k \in DOMAIN c : d[k].op = c[k].op
  BY RelayoutOpcodes
<1>3. ASSUME NEW k \in DOMAIN c PROVE d[k].to = c[k].to
  <2>1. c[k] \in [op : Opcodes, off : Nat, to : Seq(Int)]
    BY InstructionForm
  <2>2. d[k] = [c[k] EXCEPT !.off = NewOffsets(c)[k]]
    BY DEF RecomputeOffsets
  <2> QED
    BY <2>1, <2>2
<1> HIDE DEF d
<1>4. SameSizes(c, d)
  <2>1. DOMAIN d = DOMAIN c
    BY <1>1
  <2>2. \A k \in DOMAIN c : d[k] \in Instructions /\ c[k] \in Instructions
    BY <1>1, <2>1
  <2>3. \A k \in DOMAIN c : EncodedSize(d[k]) = EncodedSize(c[k])
    BY <1>2, <2>2, SizeByOpcode
  <2> QED
    BY <1>1, <2>3 DEF SameSizes
<1>5. NewOffsets(d) = NewOffsets(c)
  BY <1>1, <1>4, SameLayout
<1>6. Recodes(c, d)
  BY <1>1, <1>2, <1>3 DEF Recodes
<1> QED
  BY <1>5, <1>6 DEF d

(* renumber(): a numbered body through its own offsets, a fresh one by       *)
(* assigning them.                                                           *)
LEMMA RenumberKeeps ==
  ASSUME NEW c \in Seq(Instructions), NEW E \in Seq(Clauses),
         NEW L, Increasing(L), Len(L) = Len(c) + 1,
         Numbered(c) => Snapshot(c) = L, ~Numbered(c) => NewOffsets(c) = L
  PROVE  Keeps(Reading(L, c, E), ReadBody(Renumbered(c, E)), Len(c))
<1>1. CASE Numbered(c)
  <2>1. Renumbered(c, E) = Restore(L, NewOffsets(c), c, E)
    BY <1>1 DEF Renumbered
  <2>2. Recodes(c, c)
    BY DEF Recodes
  <2> QED
    BY <2>1, <2>2, RelocationKeeps
<1>2. CASE ~Numbered(c)
  <2> DEFINE d == RecomputeOffsets(c)
  <2>1. Renumbered(c, E).code = d /\ Renumbered(c, E).eh = E
    BY <1>2 DEF Renumbered
  <2>2. Recodes(c, d) /\ NewOffsets(d) = L /\ d \in Seq(Instructions)
    BY <1>2, RecomputedRecodes, Relayout
  <2> HIDE DEF d
  <2>3. ReadBody(Renumbered(c, E)) = Reading(L, d, E)
    BY <2>1, <2>2 DEF ReadBody
  <2>4. Reading(L, d, E) = Reading(L, c, E)
    BY <2>2, SameReading
  <2> QED
    BY <2>3, <2>4, KeepsItself
<1> QED
  BY <1>1, <1>2

LEMMA PassesKeep ==
  ASSUME NEW b, Settled(b)
  PROVE  /\ Keeps(ReadBody(b), ReadBody(Simplified(b)), Len(b.code))
         /\ Keeps(ReadBody(b), ReadBody(Optimized(b)), Len(b.code))
<1> DEFINE c == b.code
           long == [k \in DOMAIN c |-> [c[k] EXCEPT !.op = LongForm(c[k].op)]]
           short == OptimizeBranches(OptimizeInstructions(c), Snapshot(c))
           L == NewOffsets(c)
<1>1. c \in Seq(Instructions) /\ b.eh \in Seq(Clauses) /\ Snapshot(c) = L
  BY PlacedIsSnapshot DEF Settled
<1>2. Increasing(L) /\ Len(L) = Len(c) + 1
  BY <1>1, LayoutIncreases
<1>3. Simplified(b) = Restore(L, NewOffsets(long), long, b.eh)
  BY <1>1 DEF Simplified
<1>4. Optimized(b) = Restore(L, NewOffsets(short), short, b.eh)
  BY <1>1 DEF Optimized
<1>5. long \in Seq(Instructions) /\ Recodes(c, long)
  BY <1>1, SimplifyRecodes
<1>6. short \in Seq(Instructions) /\ Recodes(c, short)
  <2> DEFINE macro == OptimizeInstructions(c)
  <2>1. macro \in Seq(Instructions) /\ Recodes(c, macro)
    BY <1>1, OptimizedInstructions, InstructionsRecode
  <2>2. short = OptimizeBranches(macro, Snapshot(c))
    OBVIOUS
  <2> HIDE DEF macro, short
  <2>3. short \in Seq(Instructions) /\ Recodes(macro, short)
    BY <2>1, <2>2, OptimizedBranches, BranchesRecode
  <2> QED
    BY <1>1, <2>1, <2>3, RecodesTransitive
<1>7. ReadBody(b) = Reading(L, c, b.eh)
  BY DEF ReadBody
<1> HIDE DEF c, long, short, L
<1>8. /\ Keeps(Reading(L, c, b.eh), ReadBody(Restore(L, NewOffsets(long), long, b.eh)), Len(c))
      /\ Keeps(Reading(L, c, b.eh), ReadBody(Restore(L, NewOffsets(short), short, b.eh)), Len(c))
  BY <1>1, <1>2, <1>5, <1>6, RelocationKeeps
<1> QED
  BY <1>3, <1>4, <1>7, <1>8 DEF c

-------------------------------------------------------------------------------
(* The layout that targets and clauses refer to.                             *)

(* While opcodes are being rewritten the caller's layout still tells where   *)
(* each instruction was, and where the ones it did not rewrite ended.        *)
LayoutInv ==
  /\ layout # None => Increasing(layout)
  /\ rewritten # {} =>
       /\ Increasing(layout) /\ Len(layout) = Len(code) + 1
       /\ \A k \in DOMAIN code : code[k].off = layout[k]
       /\ \A k \in DOMAIN code \ rewritten : layout[k + 1] = layout[k] + EncodedSize(code[k])

LEMMA LayoutNumbers ==
  ASSUME NEW c \in Seq(Instructions), NEW L, Increasing(L), Len(L) = Len(c) + 1,
         \A k \in DOMAIN c : c[k].off = L[k]
  PROVE  Numbered(c)
<1>1. SUFFICES ASSUME NEW k \in 1..(Len(c) - 1) PROVE c[k].off < c[k + 1].off
  BY DEF Numbered
<1>2. k \in DOMAIN c /\ k + 1 \in DOMAIN c /\ k \in DOMAIN L /\ k + 1 \in DOMAIN L /\ k < k + 1
  BY DEF Increasing
<1> QED
  BY <1>2 DEF Increasing

LEMMA FromLayout ==
  ASSUME NEW c \in Seq(Instructions), NEW L, Increasing(L), Len(L) = Len(c) + 1,
         \A k \in DOMAIN c : c[k].off = L[k]
  PROVE  /\ Append([k \in DOMAIN c |-> c[k].off], L[Len(L)]) = L
         /\ c # <<>> /\ L[Len(c) + 1] = L[Len(c)] + EncodedSize(c[Len(c)]) => Snapshot(c) = L
<1> DEFINE n == Len(c)
           offs == [k \in DOMAIN c |-> c[k].off]
<1>1. n \in Nat /\ DOMAIN c = 1..n /\ L \in Seq(Nat) /\ Len(L) = n + 1
  BY DEF Increasing
<1>2. offs = [k \in 1..n |-> L[k]] /\ \A k \in 1..n : L[k] \in Nat
  BY <1>1
<1>3. L[n + 1] \in Nat
  BY <1>1
<1> HIDE DEF offs, n
<1>4. offs \in Seq(Nat) /\ Len(offs) = n /\ \A k \in 1..n : offs[k] = L[k]
  BY <1>1, <1>2
<1> DEFINE A == Append(offs, L[n + 1])
<1>5. A \in Seq(Nat) /\ Len(A) = n + 1 /\ A[n + 1] = L[n + 1] /\ \A k \in 1..n : A[k] = L[k]
  BY <1>1, <1>3, <1>4
<1>6. A = L
  <2> HIDE DEF A
  <2> QED
    BY <1>1, <1>5
<1>7. ASSUME c # <<>>, L[n + 1] = L[n] + EncodedSize(c[n]) PROVE Snapshot(c) = A
  <2>1. End(c) = c[n].off + EncodedSize(c[n])
    BY <1>7 DEF End, n
  <2>2. n \in 1..n
    BY <1>7, <1>1 DEF n
  <2>3. End(c) = L[n + 1]
    BY <1>1, <1>7, <2>1, <2>2
  <2> QED
    BY <2>3 DEF Snapshot, offs
<1> QED
  BY <1>1, <1>6, <1>7 DEF offs, n

CurrentIs ==
  /\ CurrentLayout = IF rewritten = {} THEN NewOffsets(code) ELSE layout
  /\ Increasing(CurrentLayout) /\ Len(CurrentLayout) = Len(code) + 1
  /\ rewritten # {} => Numbered(code)
  /\ Numbered(code) /\ Len(code) \notin rewritten /\ code # <<>> => Snapshot(code) = CurrentLayout
  /\ ~Numbered(code) => NewOffsets(code) = CurrentLayout
  /\ Consistent => Placed(code)

LEMMA Current == TypeOK /\ LayoutInv => CurrentIs
<1> SUFFICES ASSUME TypeOK, LayoutInv PROVE CurrentIs
  OBVIOUS
<1>1. code \in Seq(Instructions) /\ (Consistent => Snapshot(code) = NewOffsets(code))
  BY DEF TypeOK
<1>2. Increasing(NewOffsets(code)) /\ Len(NewOffsets(code)) = Len(code) + 1
  BY <1>1, LayoutIncreases
<1>3. CASE rewritten = {}
  <2>1. CurrentLayout = NewOffsets(code) /\ (Numbered(code) => Snapshot(code) = NewOffsets(code))
    BY <1>1, <1>3 DEF CurrentLayout, Consistent
  <2> QED
    BY <1>1, <1>2, <1>3, <2>1, PlacedIsSnapshot DEF CurrentIs
<1>4. CASE rewritten # {}
  <2>1. /\ Increasing(layout) /\ Len(layout) = Len(code) + 1
        /\ \A k \in DOMAIN code : code[k].off = layout[k]
        /\ \A k \in DOMAIN code \ rewritten : layout[k + 1] = layout[k] + EncodedSize(code[k])
    BY <1>4 DEF LayoutInv
  <2>2. Numbered(code)
    BY <1>1, <2>1, LayoutNumbers
  <2>3. CurrentLayout = layout
    BY <1>1, <1>4, <2>1, <2>2, FromLayout DEF CurrentLayout
  <2>4. ASSUME Len(code) \notin rewritten, code # <<>> PROVE Snapshot(code) = layout
    <3>1. Len(code) \in DOMAIN code
      BY <1>1, <2>4
    <3>2. layout[Len(code) + 1] = layout[Len(code)] + EncodedSize(code[Len(code)])
      BY <2>1, <2>4, <3>1
    <3> QED
      BY <1>1, <2>1, <2>4, <3>2, FromLayout
  <2>5. ~Consistent
    BY <1>4 DEF Consistent
  <2> QED
    BY <1>4, <2>1, <2>2, <2>3, <2>4, <2>5 DEF CurrentIs
<1> QED
  BY <1>3, <1>4

LEMMA LayoutNext == TypeOK /\ LayoutInv /\ [Next]_vars => LayoutInv'
<1> SUFFICES ASSUME TypeOK, LayoutInv, [Next]_vars PROVE LayoutInv'
  OBVIOUS
<1>1. CurrentIs /\ code \in Seq(Instructions) /\ rewritten \subseteq DOMAIN code
  BY Current DEF TypeOK
<1>2. ASSUME layout' = layout, rewritten' = {} PROVE LayoutInv'
  BY <1>2 DEF LayoutInv
<1>3. ASSUME NEW index \in DOMAIN code, NEW op \in Ops, Rewrite(index, op) PROVE LayoutInv'
  <2>1. /\ layout # None /\ Numbered(code) /\ (rewritten # {} \/ layout = NewOffsets(code))
        /\ code' = [code EXCEPT ![index].op = op] /\ rewritten' = rewritten \cup {index}
        /\ layout' = layout
    BY <1>3 DEF Rewrite
  <2>2. /\ Len(layout) = Len(code) + 1
        /\ \A k \in DOMAIN code : code[k].off = layout[k]
        /\ \A k \in DOMAIN code \ rewritten : layout[k + 1] = layout[k] + EncodedSize(code[k])
    <3>1. CASE rewritten # {}
      BY <2>1, <3>1 DEF LayoutInv
    <3>2. CASE rewritten = {}
      <4>1. layout = NewOffsets(code) /\ Placed(code)
        BY <1>1, <2>1, <3>2 DEF CurrentIs, Consistent
      <4>2. \A k \in DOMAIN code : layout[k + 1] = layout[k] + EncodedSize(code[k])
        BY <1>1, <4>1, OffsetsType
      <4>3. Len(layout) = Len(code) + 1
        BY <1>1, <4>1, OffsetsType
      <4> QED
        BY <4>1, <4>2, <4>3 DEF Placed
    <3> QED
      BY <3>1, <3>2
  <2>3. Len(code') = Len(code) /\ DOMAIN code' = DOMAIN code
    BY <1>1, <2>1
  <2>4. ASSUME NEW k \in DOMAIN code
        PROVE  code'[k].off = code[k].off /\ (k # index => code'[k] = code[k])
    <3>1. code[k] \in [op : Opcodes, off : Nat, to : Seq(Int)]
      BY <1>1, InstructionForm
    <3>2. code'[k] = IF k = index THEN [code[k] EXCEPT !.op = op] ELSE code[k]
      BY <1>1, <2>1
    <3> QED
      BY <3>1, <3>2
  <2>5. /\ \A k \in DOMAIN code' : code'[k].off = layout'[k]
        /\ \A k \in DOMAIN code' \ rewritten' :
             layout'[k + 1] = layout'[k] + EncodedSize(code'[k])
    BY <2>1, <2>2, <2>3, <2>4
  <2> QED
    BY <2>1, <2>2, <2>3, <2>5 DEF LayoutInv
<1>4. ASSUME Capture PROVE LayoutInv'
  <2>1. layout' = NewOffsets(code) /\ code' = code /\ rewritten' = rewritten
        /\ Snapshot(code) = NewOffsets(code)
    BY <1>4 DEF Capture
  <2>2. Placed(code)
    BY <1>1, <2>1, PlacedIsSnapshot
  <2>3. Increasing(layout') /\ Len(layout') = Len(code) + 1
    BY <1>1, <2>1, LayoutIncreases
  <2>5. \A k \in DOMAIN code : layout'[k + 1] = layout'[k] + EncodedSize(code[k])
    BY <1>1, <2>1, OffsetsType
  <2> QED
    BY <2>1, <2>2, <2>3, <2>5 DEF LayoutInv, Placed
<1>5. ASSUME Consistent, UNCHANGED <<layout, rewritten>> PROVE LayoutInv'
  BY <1>2, <1>5 DEF Consistent
<1>6. ASSUME UNCHANGED <<code, layout, rewritten>> PROVE LayoutInv'
  BY <1>6 DEF LayoutInv
<1>7. ASSUME Next PROVE LayoutInv'
  <2>1. ASSUME NEW index, NEW instr, InsertAtIndex(index, instr) PROVE LayoutInv'
    BY <1>5, <2>1 DEF InsertAtIndex
  <2>2. ASSUME NEW index, NEW instr, Replace(index, instr) PROVE LayoutInv'
    BY <1>5, <2>2 DEF Replace
  <2>3. ASSUME NEW first, NEW end, RemoveRange(first, end) PROVE LayoutInv'
    BY <1>5, <2>3 DEF RemoveRange
  <2>4. ASSUME Clear \/ Remap \/ Renumber \/ SimplifyMacros \/ OptimizeMacros PROVE LayoutInv'
    BY <1>2, <2>4 DEF Clear, Remap, Renumber, SimplifyMacros, OptimizeMacros
  <2>5. ASSUME NEW c, AuthorBody(c) PROVE LayoutInv'
    <3>1. rewritten = {}
      BY <1>1, <2>5 DEF AuthorBody
    <3> QED
      BY <1>2, <2>5, <3>1 DEF AuthorBody
  <2>6. ASSUME NEW first, NEW last, NEW hfirst, NEW hlast, NEW filter,
               AddClause(first, last, hfirst, hlast, filter)
        PROVE  LayoutInv'
    BY <1>5, <2>6 DEF AddClause
  <2>7. ASSUME DropClauses PROVE LayoutInv'
    BY <1>6, <2>7 DEF DropClauses
  <2>8. ASSUME Optimize PROVE LayoutInv'
    BY <1>5, <2>8 DEF Optimize
  <2> QED
    BY <1>3, <1>4, <1>7, <2>1, <2>2, <2>3, <2>4, <2>5, <2>6, <2>7, <2>8 DEF Next
<1>8. ASSUME UNCHANGED vars PROVE LayoutInv'
  BY <1>6, <1>8 DEF vars
<1> QED
  BY <1>7, <1>8

-------------------------------------------------------------------------------
(* The steps of the abstract editor, said of two readings.                   *)
AbsStep(old, new) ==
  LET p   == old.prog
      len == Len(new.prog)
  IN  \/ len = Len(p) + 1 /\ \E i \in 1..len : Abs!Edit(old, new, Abs!Inserting(p, i), {})
      \/ len = Len(p) /\ \E R \in {{}} \cup {{i} : i \in DOMAIN p} : Abs!Edit(old, new, Abs!Same(p), R)
      \/ /\ len < Len(p)
         /\ \E i \in 1..(len + 1) :
              Abs!Edit(old, new, Abs!Removing(p, i..(i + Len(p) - len - 1)), {})
      \/ Abs!Narrowed(old, new)
      \/ p = <<>> /\ Len(new.clauses) = Len(old.clauses)
      \/ new.prog = p /\ \E c \in {new.clauses[n] : n \in DOMAIN new.clauses} :
                           new.clauses = Append(old.clauses, c)
      \/ new.prog = p /\ new.clauses = <<>>

LEMMA AbsNextIs ==
  ASSUME AbsStep(Reading(CurrentLayout, code, eh), Reading(CurrentLayout', code', eh'))
  PROVE  Abs!ONext
<1> DEFINE old == Reading(CurrentLayout, code, eh)
           new == Reading(CurrentLayout', code', eh')
<1>1. AbsStep(old, new)
  OBVIOUS
<1>2. old \in {old} /\ new \in {new}
  OBVIOUS
<1> HIDE DEF old, new
<1>3. \E o \in {old}, w \in {new} : AbsStep(o, w)
  BY <1>1, <1>2
<1> QED
  BY <1>3 DEF Abs!ONext, AbsStep, old, new

LEMMA KeepsStep ==
  ASSUME NEW n \in Nat, NEW a, NEW b, Keeps(a, b, n)
  PROVE  AbsStep(a, b)
<1>1. Len(b.prog) = Len(a.prog) /\ Abs!Edit(a, b, Abs!Same(a.prog), {})
  BY KeepsIsStep
<1> QED
  BY <1>1 DEF AbsStep

(* Relocation: remap, renumber and the macro passes leave the reading of the *)
(* body as it is.                                                            *)
LEMMA RelocationSteps ==
  ASSUME TypeOK, LayoutInv, CurrentIs, CurrentIs',
         Remap \/ Renumber \/ SimplifyMacros \/ OptimizeMacros
  PROVE  Keeps(Reading(CurrentLayout, code, eh), Reading(CurrentLayout', code', eh'), Len(code))
<1>1. code \in Seq(Instructions) /\ eh \in Seq(Clauses)
  BY DEF TypeOK
<1> DEFINE L == CurrentLayout
<1>2. Increasing(L) /\ Len(L) = Len(code) + 1
  BY DEF CurrentIs
<1>3. rewritten' = {}
  BY DEF Remap, Renumber, SimplifyMacros, OptimizeMacros
<1>4. ASSUME NEW b, Become(b)
      PROVE  Reading(CurrentLayout', code', eh') = ReadBody(b)
  <2>1. code' = b.code /\ eh' = b.eh
    BY <1>4 DEF Become
  <2>2. CurrentLayout' = NewOffsets(code')
    BY <1>3 DEF CurrentIs
  <2> QED
    BY <2>1, <2>2 DEF ReadBody
<1>5. CASE Remap
  <2>1. /\ layout # None /\ Len(layout) = Len(code) + 1
        /\ \A k \in DOMAIN code : code[k].off = layout[k]
        /\ ValidTargets(layout, code, eh)
        /\ Become(Restore(layout, NewOffsets(code), code, eh))
    BY <1>5 DEF Remap, CanRemap
  <2>2. Increasing(layout)
    BY <2>1 DEF LayoutInv
  <2>3. \A k \in DOMAIN code : CurrentLayout[k] = layout[k]
    <3>1. CASE rewritten # {}
      BY <3>1 DEF CurrentIs
    <3>2. CASE rewritten = {}
      <4>1. Numbered(code)
        BY <1>1, <2>1, <2>2, LayoutNumbers
      <4>2. Placed(code) /\ CurrentLayout = NewOffsets(code)
        BY <3>2, <4>1 DEF CurrentIs, Consistent
      <4> QED
        BY <2>1, <4>2 DEF Placed
    <3> QED
      BY <3>1, <3>2
  <2>4. Keeps(Reading(L, code, eh), Reading(layout, code, eh), Len(code))
    BY <1>1, <1>2, <2>1, <2>2, <2>3, LayoutsAgree
  <2>5. Keeps(Reading(layout, code, eh), ReadBody(Restore(layout, NewOffsets(code), code, eh)), Len(code))
    <3>1. Recodes(code, code)
      BY DEF Recodes
    <3> QED
      BY <1>1, <2>1, <2>2, <3>1, RelocationKeeps
  <2>6. Reading(CurrentLayout', code', eh') = ReadBody(Restore(layout, NewOffsets(code), code, eh))
    BY <1>4, <2>1
  <2> QED
    BY <1>1, <2>4, <2>5, <2>6, KeepsTransitive
<1>6. ASSUME MayRenumber
      PROVE  /\ Keeps(Reading(L, code, eh), ReadBody(Renumbered(code, eh)), Len(code))
             /\ Settled(Renumbered(code, eh)) /\ Len(Renumbered(code, eh).code) = Len(code)
  <2>1. /\ Numbered(code) => Snapshot(code) = L
        /\ ~Numbered(code) => NewOffsets(code) = L
    BY <1>6 DEF CurrentIs, MayRenumber
  <2> HIDE DEF L
  <2> QED
    BY <1>1, <1>2, <2>1, RenumberKeeps, RenumberedType
<1>7. CASE Renumber
  BY <1>4, <1>6, <1>7 DEF Renumber
<1>8. CASE SimplifyMacros \/ OptimizeMacros
  <2> DEFINE b == Renumbered(code, eh)
  <2>1. Keeps(Reading(L, code, eh), ReadBody(b), Len(code)) /\ Settled(b) /\ Len(b.code) = Len(code)
    BY <1>6, <1>8 DEF SimplifyMacros, OptimizeMacros
  <2>2. PICK r \in {Simplified(b), Optimized(b)} : Become(r)
    BY <1>8 DEF SimplifyMacros, OptimizeMacros
  <2> HIDE DEF b, L
  <2>3. Keeps(ReadBody(b), ReadBody(r), Len(code))
    BY <2>1, PassesKeep
  <2>4. Reading(CurrentLayout', code', eh') = ReadBody(r)
    BY <1>4, <2>2
  <2>5. Keeps(Reading(L, code, eh), ReadBody(r), Len(code))
    BY <1>1, <2>1, <2>3, KeepsTransitive
  <2> QED
    BY <2>4, <2>5 DEF L
<1> QED
  BY <1>5, <1>7, <1>8

(* The steps that are not edits: a body or a clause authored, clauses        *)
(* dropped, opcodes rewritten, a layout captured; and clearing.              *)
LEMMA EmptyReading ==
  ASSUME NEW L, NEW E
  PROVE  Reading(L, <<>>, E).prog = <<>>
BY DEF Reading

LEMMA ClearStep ==
  ASSUME TypeOK, CurrentIs, Clear
  PROVE  AbsStep(Reading(CurrentLayout, code, eh), Reading(CurrentLayout', code', eh'))
<1>1. /\ code \in Seq(Instructions) /\ code # <<>> /\ eh \in Seq(Clauses)
      /\ code' = <<>> /\ eh' = eh
  BY DEF TypeOK, Clear
<1> DEFINE n == Len(code)
           a == Reading(CurrentLayout, code, eh)
           b == Reading(CurrentLayout', code', eh')
           moved == Abs!Removing(a.prog, 1..n)
<1>2. n \in Nat \ {0}
  BY <1>1
<1>3. WellRead(a, n) /\ Len(a.clauses) = Len(eh)
  BY <1>1, ReadingForm DEF CurrentIs
<1>4. b.prog = <<>> /\ Len(b.clauses) = Len(eh)
  <2>1. b.prog = <<>>
    BY <1>1, EmptyReading
  <2>2. b.clauses = [k \in 1..Len(eh) |-> ReadClause(CurrentLayout', eh[k])]
    BY <1>1 DEF Reading
  <2>3. b.clauses \in [1..Len(eh) -> {ReadClause(CurrentLayout', eh[k]) : k \in 1..Len(eh)}]
    <3> HIDE DEF b
    <3> QED
      BY <2>2
  <2>4. Len(b.clauses) = Len(eh)
    <3> HIDE DEF b
    <3> QED
      BY <1>1, <2>3
  <2> QED
    BY <2>1, <2>4
<1> HIDE DEF n, a, b
<1>5. ASSUME NEW j \in 1..n PROVE moved[j] = {}
  <2>1. j \in DOMAIN a.prog
    BY <1>3 DEF WellRead
  <2> QED
    BY <2>1 DEF Abs!Removing
<1> HIDE DEF moved
<1>6. Abs!InstructionsFollow(a.prog, b.prog, moved, {})
  <2>1. \A j \in DOMAIN a.prog : moved[j] = {}
    BY <1>3, <1>5 DEF WellRead
  <2> QED
    BY <2>1 DEF Abs!InstructionsFollow
<1>7. ASSUME NEW r, RunWithin(r, n), NEW s PROVE Abs!RunFollows(r, s, moved)
  <2>1. SUFFICES ASSUME r.first # Lost PROVE UNION {moved[j] : j \in r.first .. r.last} = {}
    BY DEF Abs!RunFollows
  <2>2. \A j \in r.first .. r.last : moved[j] = {}
    BY <1>2, <1>5, <1>7, <2>1 DEF RunWithin
  <2> QED
    BY <2>2
<1>8. ASSUME NEW t \in 0..n PROVE ~Abs!Exists(t, moved)
  BY <1>5 DEF Abs!Exists, Lost
<1>9. Abs!ClausesFollow(a.clauses, b.clauses, moved)
  <2>1. \A x \in DOMAIN a.clauses :
          /\ Abs!RunFollows(a.clauses[x].try, b.clauses[x].try, moved)
          /\ Abs!RunFollows(a.clauses[x].handler, b.clauses[x].handler, moved)
          /\ ~Abs!Exists(a.clauses[x].filter, moved)
    BY <1>3, <1>7, <1>8 DEF WellRead
  <2> QED
    BY <1>3, <1>4, <2>1 DEF Abs!ClausesFollow
<1>10. Abs!Edit(a, b, Abs!Removing(a.prog, 1..n), {})
  BY <1>6, <1>9 DEF Abs!Edit, moved
<1>11. /\ Len(b.prog) = 0 /\ Len(a.prog) = n
       /\ 1 \in 1..(Len(b.prog) + 1) /\ 1 + Len(a.prog) - Len(b.prog) - 1 = n
       /\ Len(b.prog) < Len(a.prog)
  BY <1>2, <1>3, <1>4 DEF WellRead
<1>12. \E i \in 1..(Len(b.prog) + 1) :
         Abs!Edit(a, b, Abs!Removing(a.prog, i..(i + Len(a.prog) - Len(b.prog) - 1)), {})
  BY <1>10, <1>11
<1> QED
  BY <1>11, <1>12 DEF AbsStep, a, b

LEMMA AuthorStep ==
  ASSUME TypeOK, TypeOK', CurrentIs, NEW c, AuthorBody(c)
  PROVE  AbsStep(Reading(CurrentLayout, code, eh), Reading(CurrentLayout', code', eh'))
<1> DEFINE a == Reading(CurrentLayout, code, eh)
           b == Reading(CurrentLayout', code', eh')
<1>1. code = <<>> /\ eh' = eh /\ eh \in Seq(Clauses)
  BY DEF AuthorBody, TypeOK
<1>2. a.prog = <<>>
  BY <1>1, EmptyReading
<1>3. Len(a.clauses) = Len(eh) /\ Len(b.clauses) = Len(eh)
  <2>1. ASSUME NEW L, NEW d
        PROVE  Len(Reading(L, d, eh).clauses) = Len(eh)
    <3>1. Reading(L, d, eh).clauses = [k \in 1..Len(eh) |-> ReadClause(L, eh[k])]
      BY <1>1 DEF Reading
    <3>2. Reading(L, d, eh).clauses \in [1..Len(eh) -> {ReadClause(L, eh[k]) : k \in 1..Len(eh)}]
      BY <3>1
    <3> QED
      BY <1>1, <3>2
  <2> QED
    BY <1>1, <2>1
<1> HIDE DEF a, b
<1>4. AbsStep(a, b)
  BY <1>2, <1>3 DEF AbsStep
<1> QED
  BY <1>4 DEF a, b

LEMMA ClauseSteps ==
  ASSUME TypeOK, TypeOK', CurrentIs,
         DropClauses \/ \E first, last, hfirst, hlast, filter :
                          AddClause(first, last, hfirst, hlast, filter)
  PROVE  AbsStep(Reading(CurrentLayout, code, eh), Reading(CurrentLayout', code', eh'))
<1> DEFINE L == CurrentLayout
           a == Reading(L, code, eh)
           b == Reading(CurrentLayout', code', eh')
<1>1. code' = code /\ layout' = layout /\ rewritten' = rewritten
  BY DEF DropClauses, AddClause
<1>2. CurrentLayout' = L
  BY <1>1 DEF CurrentLayout
<1>3. b = Reading(L, code, eh')
  BY <1>1, <1>2
<1> HIDE DEF L
<1>4. b.prog = a.prog
  BY <1>3 DEF Reading
<1>5. CASE DropClauses
  <2>1. eh' = <<>>
    BY <1>5 DEF DropClauses
  <2>2. b.clauses = <<>>
    BY <1>3, <2>1 DEF Reading
  <2> HIDE DEF a, b
  <2>3. AbsStep(a, b)
    BY <1>4, <2>2 DEF AbsStep
  <2> QED
    BY <2>3 DEF a, b, L
<1>6. CASE \E first, last, hfirst, hlast, filter : AddClause(first, last, hfirst, hlast, filter)
  <2>1. PICK clause : eh' = Append(eh, clause)
    BY <1>6 DEF AddClause
  <2>2. eh \in Seq(Clauses) /\ eh' \in Seq(Clauses)
    BY DEF TypeOK
  <2> DEFINE y == ReadClause(L, clause)
             n == Len(eh)
  <2>3. n \in Nat /\ DOMAIN eh = 1..n /\ DOMAIN eh' = 1..(n + 1)
        /\ eh'[n + 1] = clause /\ \A k \in 1..n : eh'[k] = eh[k]
    BY <2>1, <2>2
  <2>4. a.clauses = [k \in 1..n |-> ReadClause(L, eh[k])]
    BY <2>3 DEF Reading
  <2>5. b.clauses = [k \in 1..(n + 1) |-> ReadClause(L, eh'[k])]
    BY <1>3, <2>3 DEF Reading
  <2> HIDE DEF a, b, n
  <2> DEFINE S == {ReadClause(L, eh'[k]) : k \in 1..(n + 1)}
  <2>6. a.clauses \in Seq(S) /\ Len(a.clauses) = n /\ \A k \in 1..n : a.clauses[k] \in S
    <3>1. \A k \in 1..n : ReadClause(L, eh[k]) \in S
      <4> TAKE k \in 1..n
      <4>1. k \in 1..(n + 1) /\ eh'[k] = eh[k]
        BY <2>3
      <4> QED
        BY <4>1
    <3> HIDE DEF S
    <3>2. a.clauses \in [1..n -> S]
      BY <2>4, <3>1
    <3> QED
      BY <2>3, <3>2
  <2>7. b.clauses \in Seq(S) /\ Len(b.clauses) = n + 1
    <3>1. b.clauses \in [1..(n + 1) -> S]
      BY <2>5
    <3> HIDE DEF S
    <3> QED
      BY <2>3, <3>1
  <2>8. b.clauses[n + 1] = y /\ y \in S /\ \A k \in 1..n : b.clauses[k] = a.clauses[k]
    <3>1. n + 1 \in 1..(n + 1) /\ \A k \in 1..n : k \in 1..(n + 1)
      BY <2>3
    <3> QED
      BY <2>3, <2>4, <2>5, <3>1
  <2> HIDE DEF S, y
  <2>9. b.clauses = Append(a.clauses, y)
    BY <2>3, <2>6, <2>7, <2>8
  <2>10. y \in {b.clauses[k] : k \in DOMAIN b.clauses}
    <3>1. n + 1 \in DOMAIN b.clauses
      BY <2>3, <2>7
    <3> QED
      BY <2>8, <3>1
  <2>11. AbsStep(a, b)
    BY <1>4, <2>9, <2>10 DEF AbsStep
  <2> QED
    BY <2>11 DEF a, b, L
<1> QED
  BY <1>5, <1>6

LEMMA RewriteStep ==
  ASSUME TypeOK, TypeOK', CurrentIs, CurrentIs', NEW index \in DOMAIN code, NEW op \in Ops,
         Rewrite(index, op)
  PROVE  Reading(CurrentLayout', code', eh') = Reading(CurrentLayout, code, eh)
<1>1. /\ rewritten # {} \/ layout = NewOffsets(code)
      /\ LongForm(op) = LongForm(code[index].op)
      /\ code' = [code EXCEPT ![index].op = op]
      /\ rewritten' = rewritten \cup {index}
      /\ layout' = layout /\ eh' = eh
  BY DEF Rewrite
<1>2. code \in Seq(Instructions) /\ code' \in Seq(Instructions)
  BY DEF TypeOK
<1>3. CurrentLayout' = CurrentLayout
  BY <1>1 DEF CurrentIs
<1>4. Recodes(code, code')
  <2>1. Len(code') = Len(code)
    BY <1>1, <1>2
  <2>2. ASSUME NEW k \in DOMAIN code
        PROVE  LongForm(code'[k].op) = LongForm(code[k].op) /\ code'[k].to = code[k].to
    <3>1. code[k] \in [op : Opcodes, off : Nat, to : Seq(Int)]
      BY <1>2, InstructionForm
    <3>2. code'[k] = IF k = index THEN [code[k] EXCEPT !.op = op] ELSE code[k]
      BY <1>1, <1>2
    <3>3. code'[k].to = code[k].to /\ code'[k].op = IF k = index THEN op ELSE code[k].op
      BY <3>1, <3>2
    <3> QED
      BY <1>1, <3>3
  <2> QED
    BY <2>1, <2>2 DEF Recodes
<1>5. ASSUME NEW L, NEW E PROVE Reading(L, code', E) = Reading(L, code, E)
  BY <1>2, <1>4, SameReading
<1>6. Reading(CurrentLayout', code', eh') = Reading(CurrentLayout, code', eh)
  BY <1>1, <1>3
<1> QED
  BY <1>5, <1>6

LEMMA CaptureStep ==
  ASSUME TypeOK, LayoutInv, CurrentIs, CurrentIs', Capture
  PROVE  Keeps(Reading(CurrentLayout, code, eh), Reading(CurrentLayout', code', eh'), Len(code))
<1> DEFINE L == CurrentLayout
           M == NewOffsets(code)
<1>1. code \in Seq(Instructions) /\ eh \in Seq(Clauses)
  BY DEF TypeOK
<1>2. /\ Snapshot(code) = M /\ ValidTargets(M, code, eh) /\ layout' = M
      /\ code' = code /\ eh' = eh /\ rewritten' = rewritten
  BY DEF Capture
<1>3. CurrentLayout' = M
  BY <1>2 DEF CurrentIs
<1>4. Increasing(L) /\ Len(L) = Len(code) + 1 /\ Increasing(M) /\ Len(M) = Len(code) + 1
  BY <1>1, LayoutIncreases DEF CurrentIs
<1>5. Placed(code)
  BY <1>1, <1>2, PlacedIsSnapshot
<1>6. \A k \in DOMAIN code : L[k] = M[k]
  <2>1. CASE rewritten = {}
    BY <2>1 DEF CurrentIs
  <2>2. CASE rewritten # {}
    BY <1>5, <2>2 DEF CurrentIs, LayoutInv, Placed
  <2> QED
    BY <2>1, <2>2
<1> HIDE DEF L, M
<1>7. Keeps(Reading(L, code, eh), Reading(M, code, eh), Len(code))
  BY <1>1, <1>2, <1>4, <1>6, LayoutsAgree
<1> QED
  BY <1>2, <1>3, <1>7 DEF L

-------------------------------------------------------------------------------
(* The editor: what an edit does to the layout, and to what refers to it.    *)

LEMMA OrderFacts ==
  ASSUME NEW L, Increasing(L), NEW i \in DOMAIN L, NEW j \in DOMAIN L
  PROVE  /\ L[i] \in Nat /\ L[j] \in Nat
         /\ i < j <=> L[i] < L[j]
         /\ i >= j <=> L[i] >= L[j]
<1>1. L[i] \in Nat /\ L[j] \in Nat /\ i \in Nat /\ j \in Nat
  BY DEF Increasing
<1>2. (i < j => L[i] < L[j]) /\ (j < i => L[j] < L[i])
  BY DEF Increasing
<1>3. i = j => L[i] = L[j]
  OBVIOUS
<1> QED
  BY <1>1, <1>2, <1>3

LaysOut(f, d) ==
  /\ f \in [1..(Len(d) + 1) -> Int] /\ f[1] = 0
  /\ \A k \in DOMAIN d : f[k + 1] = f[k] + EncodedSize(d[k])

LEMMA LayoutOf ==
  ASSUME NEW d \in Seq(Instructions), NEW f, LaysOut(f, d)
  PROVE  f = NewOffsets(d)
<1>1. Len(d) \in Nat /\ DOMAIN d = 1..Len(d) /\ DOMAIN f = 1..(Len(d) + 1)
  BY DEF LaysOut
<1>2. f = [k \in DOMAIN f |-> f[k]]
  BY DEF LaysOut
<1>3. ASSUME NEW k \in DOMAIN f
      PROVE  f[k] = IF k = 1 THEN 0 ELSE f[k - 1] + EncodedSize(d[k - 1])
  <2>1. CASE k = 1
    BY <2>1 DEF LaysOut
  <2>2. CASE k # 1
    <3>1. k - 1 \in DOMAIN d /\ k - 1 + 1 = k
      BY <1>1, <2>2
    <3>2. f[k - 1 + 1] = f[k - 1] + EncodedSize(d[k - 1])
      BY <3>1 DEF LaysOut
    <3> QED
      BY <2>2, <3>1, <3>2
  <2> QED
    BY <2>1, <2>2
<1>4. SumsSizes(f, d)
  BY <1>1, <1>2, <1>3 DEF SumsSizes
<1> QED
  BY <1>1, <1>4, OffsetsUnique

(* Shifting targets and recomputing the offsets keeps opcodes and layout.    *)
ShiftedTo(t, from, delta) == IF t >= from THEN t + delta ELSE t

LEMMA ShiftedBody ==
  ASSUME NEW c \in Seq(Instructions), NEW from \in Int, NEW delta \in Int, NEW skip
  PROVE  LET d == RecomputeOffsets(ShiftTargets(c, from, delta, skip))
         IN  /\ d \in Seq(Instructions) /\ Len(d) = Len(c)
             /\ NewOffsets(d) = NewOffsets(c)
             /\ \A k \in DOMAIN c :
                  /\ d[k].op = c[k].op
                  /\ k = skip => d[k].to = c[k].to
                  /\ k # skip => d[k].to = [m \in DOMAIN c[k].to |-> ShiftedTo(c[k].to[m], from, delta)]
<1> DEFINE b == ShiftTargets(c, from, delta, skip)
           d == RecomputeOffsets(b)
<1>1. b \in Seq(Instructions) /\ Len(b) = Len(c) /\ DOMAIN b = DOMAIN c
  BY ShiftTargetsType
<1>2. \A k \in DOMAIN c : b[k].op = c[k].op
  BY ShiftTargetsOpcodes
<1>3. ASSUME NEW k \in DOMAIN c
      PROVE  /\ k = skip => b[k].to = c[k].to
             /\ k # skip => b[k].to = [m \in DOMAIN c[k].to |-> ShiftedTo(c[k].to[m], from, delta)]
  <2> DEFINE to == [m \in DOMAIN c[k].to |-> ShiftedTo(c[k].to[m], from, delta)]
  <2>1. c[k] \in [op : Opcodes, off : Nat, to : Seq(Int)]
    BY InstructionForm
  <2>2. b[k] = IF k = skip THEN c[k] ELSE [c[k] EXCEPT !.to = to]
    BY DEF ShiftTargets, ShiftedTo
  <2> HIDE DEF b, to
  <2>3. k # skip => b[k].to = to
    BY <2>1, <2>2
  <2> QED
    BY <2>2, <2>3 DEF to
<1> HIDE DEF b
<1>4. Recodes(b, d) /\ NewOffsets(d) = NewOffsets(b) /\ d \in Seq(Instructions) /\ Len(d) = Len(b)
  BY <1>1, RecomputedRecodes, Relayout
<1>5. \A k \in DOMAIN b : d[k].op = b[k].op
  BY <1>1, RelayoutOpcodes
<1>6. \A k \in DOMAIN b : d[k].to = b[k].to
  BY <1>4 DEF Recodes
<1>7. NewOffsets(b) = NewOffsets(c)
  <2>1. \A k \in DOMAIN c : b[k] \in Instructions /\ c[k] \in Instructions
    BY <1>1
  <2>2. \A k \in DOMAIN c : EncodedSize(b[k]) = EncodedSize(c[k])
    BY <1>2, <2>1, SizeByOpcode
  <2>3. SameSizes(c, b)
    BY <1>1, <2>2 DEF SameSizes
  <2> QED
    BY <1>1, <2>3, SameLayout
<1> HIDE DEF d
<1>8. /\ d \in Seq(Instructions) /\ Len(d) = Len(c)
      /\ NewOffsets(d) = NewOffsets(c)
      /\ \A k \in DOMAIN c :
           /\ d[k].op = c[k].op
           /\ k = skip => d[k].to = c[k].to
           /\ k # skip => d[k].to = [m \in DOMAIN c[k].to |-> ShiftedTo(c[k].to[m], from, delta)]
  BY <1>1, <1>2, <1>3, <1>4, <1>5, <1>6, <1>7
<1> QED
  BY <1>8 DEF d, b

(* Insertion.                                                                *)
Ahead(at, n) == [j \in 1..n |-> IF j >= at THEN j + 1 ELSE j]
Opened(L, at, size) == [k \in 1..(Len(L) + 1) |-> IF k <= at THEN L[k] ELSE L[k - 1] + size]

LEMMA InsertParts ==
  ASSUME NEW c \in Seq(Instructions), NEW at \in 1..(Len(c) + 1), NEW i \in Instructions
  PROVE  /\ DOMAIN InsertAt(c, at, i) = 1..(Len(c) + 1)
         /\ \A j \in 1..(Len(c) + 1) :
              InsertAt(c, at, i)[j] = IF j < at THEN c[j] ELSE IF j = at THEN i ELSE c[j - 1]
<1> DEFINE head == SubSeq(c, 1, at - 1)
           tail == SubSeq(c, at, Len(c))
           d == InsertAt(c, at, i)
<1>1. /\ head \in Seq(Instructions) /\ Len(head) = at - 1
      /\ \A j \in 1..(at - 1) : head[j] = c[j]
      /\ tail \in Seq(Instructions)
  OBVIOUS
<1>2. Len(c) \in Nat /\ at \in Nat
  OBVIOUS
<1>3. d = (head \o <<i>>) \o tail
  BY DEF InsertAt
<1>4. d \in Seq(Instructions) /\ Len(d) = Len(c) + 1
  BY InsertType
<1> HIDE DEF head, tail
<1> DEFINE front == head \o <<i>>
<1>5. front \in Seq(Instructions) /\ Len(front) = at
      /\ front[at] = i /\ \A j \in 1..(at - 1) : front[j] = c[j]
  <2>1. front \in Seq(Instructions) /\ Len(front) = at
    BY <1>1, <1>2
  <2>2. \A j \in 1..at : front[j] = IF j <= at - 1 THEN head[j] ELSE <<i>>[j - (at - 1)]
    BY <1>1, <1>2
  <2>3. at \in 1..at /\ at - (at - 1) = 1 /\ ~(at <= at - 1)
    BY <1>2
  <2> HIDE DEF front
  <2>4. front[at] = i
    BY <2>2, <2>3
  <2>5. \A j \in 1..(at - 1) : front[j] = c[j]
    BY <1>1, <1>2, <2>2
  <2> QED
    BY <2>1, <2>4, <2>5
<1>a. d = front \o tail
  BY <1>3
<1> HIDE DEF front
<1>6. \A j \in 1..at : (front \o tail)[j] = front[j]
  BY <1>1, <1>2, <1>5
<1>7. ASSUME NEW j \in 1..(Len(c) + 1)
      PROVE  d[j] = IF j < at THEN c[j] ELSE IF j = at THEN i ELSE c[j - 1]
  <2>1. CASE j <= at
    <3>1. d[j] = front[j]
      <4>1. j \in 1..at
        BY <1>2, <2>1
      <4> HIDE DEF d
      <4> QED
        BY <1>a, <1>6, <4>1
    <3> HIDE DEF d
    <3> QED
      BY <1>2, <1>5, <2>1, <3>1
  <2>2. CASE j > at
    <3>1. j - 1 \in at..Len(c) /\ j - 1 + 1 = j
      BY <1>2, <2>2
    <3>2. d[j - 1 + 1] = c[j - 1]
      BY <3>1, InsertedAt
    <3> HIDE DEF d
    <3> QED
      BY <1>2, <2>2, <3>1, <3>2
  <2> QED
    BY <1>2, <2>1, <2>2
<1> HIDE DEF d
<1>8. DOMAIN d = 1..(Len(c) + 1)
  BY <1>2, <1>4
<1> QED
  BY <1>7, <1>8 DEF d

LEMMA InsertLayout ==
  ASSUME NEW c \in Seq(Instructions), NEW at \in 1..(Len(c) + 1), NEW i \in Instructions
  PROVE  NewOffsets(InsertAt(c, at, i)) = Opened(NewOffsets(c), at, EncodedSize(i))
<1> DEFINE d == InsertAt(c, at, i)
           n == Len(c)
           L == NewOffsets(c)
           s == EncodedSize(i)
           M == Opened(L, at, s)
<1>1. n \in Nat /\ DOMAIN c = 1..n /\ at \in 1..(n + 1) /\ s \in Nat
  BY EncodedSizes
<1>2. /\ Len(L) = n + 1 /\ L[1] = 0 /\ \A k \in 1..(n + 1) : L[k] \in Nat
      /\ \A k \in 1..n : L[k + 1] = L[k] + EncodedSize(c[k])
  <2>1. L \in Seq(Nat) /\ Len(L) = n + 1 /\ L[1] = 0
        /\ \A k \in DOMAIN c : L[k + 1] = L[k] + EncodedSize(c[k])
    BY OffsetsType
  <2> HIDE DEF L, n
  <2>2. \A k \in 1..(n + 1) : L[k] \in Nat
    BY <1>1, <2>1
  <2> QED
    BY <1>1, <2>1, <2>2
<1>3. d \in Seq(Instructions) /\ Len(d) = n + 1
      /\ \A j \in 1..(n + 1) : d[j] = IF j < at THEN c[j] ELSE IF j = at THEN i ELSE c[j - 1]
  BY InsertType, InsertParts
<1> HIDE DEF d, L
<1>4. M = [k \in 1..(n + 2) |-> IF k <= at THEN L[k] ELSE L[k - 1] + s]
  BY <1>1, <1>2 DEF Opened
<1> HIDE DEF n, s, M
<1>5. M \in [1..(n + 2) -> Int]
  <2>1. ASSUME NEW k \in 1..(n + 2) PROVE (IF k <= at THEN L[k] ELSE L[k - 1] + s) \in Int
    BY <1>1, <1>2
  <2> QED
    BY <1>4, <2>1
<1>6. M[1] = 0
  BY <1>1, <1>2, <1>4
<1>7. ASSUME NEW k \in 1..(n + 1) PROVE M[k + 1] = M[k] + EncodedSize(d[k])
  <2>1. /\ M[k] = IF k <= at THEN L[k] ELSE L[k - 1] + s
        /\ M[k + 1] = IF k + 1 <= at THEN L[k + 1] ELSE L[k] + s
    BY <1>1, <1>4
  <2>2. CASE k < at
    <3>1. d[k] = c[k] /\ k \in 1..n /\ L[k + 1] = L[k] + EncodedSize(c[k])
      BY <1>1, <1>2, <1>3, <2>2
    <3> QED
      BY <1>1, <2>1, <2>2, <3>1
  <2>3. CASE k = at
    <3>1. EncodedSize(d[k]) = s
      BY <1>3, <2>3 DEF s
    <3> QED
      BY <1>1, <2>1, <2>3, <3>1
  <2>4. CASE k > at
    <3>1. k - 1 \in 1..n /\ k - 1 + 1 = k /\ d[k] = c[k - 1]
      BY <1>1, <1>3, <2>4
    <3>2. L[k] = L[k - 1] + EncodedSize(c[k - 1])
      BY <1>2, <3>1
    <3>3. L[k - 1] \in Nat /\ EncodedSize(c[k - 1]) \in Nat
      <4>1. c[k - 1] \in Instructions
        BY <1>1, <3>1
      <4> QED
        BY <1>2, <3>1, <4>1, EncodedSizes
    <3> QED
      BY <1>1, <2>1, <2>4, <3>1, <3>2, <3>3
  <2> QED
    BY <1>1, <2>2, <2>3, <2>4
<1>8. LaysOut(M, d)
  <2>1. DOMAIN d = 1..(n + 1) /\ Len(d) + 1 = n + 2
    BY <1>1, <1>3
  <2> QED
    BY <1>5, <1>6, <1>7, <2>1 DEF LaysOut
<1>9. M = NewOffsets(d)
  BY <1>3, <1>8, LayoutOf
<1> QED
  BY <1>9 DEF M, d, L, s

InsertedRegion(r, pos, size) ==
  [off |-> ShiftedTo(r.off, pos, size),
   len |-> IF r.off < pos /\ pos < r.off + r.len THEN r.len + size ELSE r.len]

LEMMA InsertRegionFollows ==
  ASSUME NEW L, Increasing(L), NEW n \in Nat, Len(L) = n + 1, NEW at \in 1..(n + 1),
         NEW size \in Nat, NEW r \in Regions
  PROVE  RegionFollowed(r, InsertedRegion(r, L[at], size), L, Opened(L, at, size),
                        Ahead(at, n), Ahead(at, n))
<1> DEFINE m == Ahead(at, n)
           M == Opened(L, at, size)
           pos == L[at]
           s == InsertedRegion(r, pos, size)
<1>1. SUFFICES ASSUME NEW i \in 1..n, NEW e \in 1..(n + 1),
                      i < e, r.off = L[i], r.off + r.len = L[e]
               PROVE  s.off = M[m[i]] /\ s.off + s.len = M[m[e - 1] + 1]
  <2>1. Len(L) - 1 = n /\ Len(L) = n + 1
    OBVIOUS
  <2> QED
    BY <2>1 DEF RegionFollowed
<1>2. r.off \in Int /\ r.len \in Int
  BY DEF Regions
<1>3. i \in DOMAIN L /\ e \in DOMAIN L /\ at \in DOMAIN L
  BY DEF Increasing
<1>4. /\ pos \in Nat /\ L[i] \in Nat /\ L[e] \in Nat
      /\ i >= at <=> L[i] >= pos
      /\ at < e <=> pos < L[e]
  BY <1>3, OrderFacts
<1>5. m[i] = IF i >= at THEN i + 1 ELSE i
  BY DEF Ahead
<1>6. m[e - 1] + 1 = IF e - 1 >= at THEN e + 1 ELSE e
  <2>1. e - 1 \in 1..n
    BY <1>1
  <2>2. m[e - 1] = IF e - 1 >= at THEN e - 1 + 1 ELSE e - 1
    BY <2>1 DEF Ahead
  <2> QED
    BY <2>1, <2>2
<1>7. M = [k \in 1..(n + 2) |-> IF k <= at THEN L[k] ELSE L[k - 1] + size]
  BY DEF Opened
<1>8. /\ i < at => M[i] = L[i]
      /\ i >= at => M[i + 1] = L[i] + size
      /\ e <= at => M[e] = L[e]
      /\ e > at => M[e + 1] = L[e] + size
  <2> HIDE DEF M, pos
  <2> QED
    BY <1>7
<1>9. /\ s.off = IF r.off >= pos THEN r.off + size ELSE r.off
      /\ s.len = IF r.off < pos /\ pos < r.off + r.len THEN r.len + size ELSE r.len
  BY DEF InsertedRegion, ShiftedTo
<1> HIDE DEF m, M, s, pos
<1>10. s.off = M[m[i]]
  <2>1. CASE i >= at
    BY <1>1, <1>4, <1>5, <1>8, <1>9, <2>1
  <2>2. CASE i < at
    BY <1>1, <1>4, <1>5, <1>8, <1>9, <2>2
  <2> QED
    BY <2>1, <2>2
<1>11. s.off + s.len = IF e > at THEN L[e] + size ELSE L[e]
  BY <1>1, <1>2, <1>4, <1>9
<1>12. M[m[e - 1] + 1] = IF e > at THEN L[e] + size ELSE L[e]
  BY <1>6, <1>8
<1> QED
  BY <1>10, <1>11, <1>12

LEMMA EachParts ==
  ASSUME NEW E \in Seq(Clauses), NEW a, NEW b, NEW g, NEW F,
         F = [x \in DOMAIN E |-> [try |-> a[x], handler |-> b[x], filter |-> g[x]]]
  PROVE  /\ Len(F) = Len(E) /\ DOMAIN F = DOMAIN E
         /\ \A x \in DOMAIN E : F[x].try = a[x] /\ F[x].handler = b[x] /\ F[x].filter = g[x]
<1>1. Len(E) \in Nat /\ DOMAIN E = 1..Len(E)
  OBVIOUS
<1> DEFINE S == {[try |-> a[x], handler |-> b[x], filter |-> g[x]] : x \in 1..Len(E)}
<1>2. F \in [1..Len(E) -> S]
  BY <1>1
<1>3. Len(F) = Len(E) /\ DOMAIN F = DOMAIN E
  <2> HIDE DEF S
  <2> QED
    BY <1>1, <1>2
<1> QED
  BY <1>3

LEMMA InsertClauses ==
  ASSUME NEW E \in Seq(Clauses), NEW pos, NEW size
  PROVE  /\ Len(ShiftEhInsert(E, pos, size)) = Len(E)
         /\ \A x \in DOMAIN E :
              /\ ShiftEhInsert(E, pos, size)[x].try = InsertedRegion(E[x].try, pos, size)
              /\ ShiftEhInsert(E, pos, size)[x].handler = InsertedRegion(E[x].handler, pos, size)
              /\ ShiftEhInsert(E, pos, size)[x].filter =
                   IF E[x].filter = None THEN None ELSE ShiftedTo(E[x].filter, pos, size)
<1> DEFINE a == [x \in DOMAIN E |-> InsertedRegion(E[x].try, pos, size)]
           b == [x \in DOMAIN E |-> InsertedRegion(E[x].handler, pos, size)]
           g == [x \in DOMAIN E |-> IF E[x].filter = None THEN None
                                      ELSE ShiftedTo(E[x].filter, pos, size)]
           F == ShiftEhInsert(E, pos, size)
<1>1. F = [x \in DOMAIN E |->
             [try     |-> InsertedRegion(E[x].try, pos, size),
              handler |-> InsertedRegion(E[x].handler, pos, size),
              filter  |-> IF E[x].filter = None THEN None ELSE ShiftedTo(E[x].filter, pos, size)]]
  BY DEF ShiftEhInsert, EachClause, InsertedRegion, ShiftedTo
<1> HIDE DEF F
<1>2. F = [x \in DOMAIN E |-> [try |-> a[x], handler |-> b[x], filter |-> g[x]]]
  BY <1>1
<1>3. \A x \in DOMAIN E : /\ a[x] = InsertedRegion(E[x].try, pos, size)
                          /\ b[x] = InsertedRegion(E[x].handler, pos, size)
                          /\ g[x] = IF E[x].filter = None THEN None
                                      ELSE ShiftedTo(E[x].filter, pos, size)
  OBVIOUS
<1> HIDE DEF a, b, g
<1>4. Len(F) = Len(E) /\ \A x \in DOMAIN E : F[x].try = a[x] /\ F[x].handler = b[x] /\ F[x].filter = g[x]
  BY <1>2, EachParts
<1> QED
  BY <1>3, <1>4 DEF F

LEMMA AheadFacts ==
  ASSUME NEW n \in Nat, NEW at \in 1..(n + 1)
  PROVE  /\ \A j \in 1..n : /\ Ahead(at, n)[j] = IF j >= at THEN j + 1 ELSE j
                            /\ Ahead(at, n)[j] \in 1..(n + 1) /\ Ahead(at, n)[j] # at
         /\ \A i, j \in 1..n : i <= j => Ahead(at, n)[i] <= Ahead(at, n)[j]
         /\ InOrder(Ahead(at, n), Ahead(at, n), n)
<1>1. \A j \in 1..n : Ahead(at, n)[j] = IF j >= at THEN j + 1 ELSE j
  BY DEF Ahead
<1> DEFINE m == Ahead(at, n)
<1> HIDE DEF m
<1>2. \A j \in 1..n : m[j] = IF j >= at THEN j + 1 ELSE j
  BY <1>1 DEF m
<1>3. \A j \in 1..n : m[j] \in 1..(n + 1) /\ m[j] # at
  BY <1>2
<1>4. \A i, j \in 1..n : i <= j => m[i] <= m[j]
  BY <1>2
<1>5. InOrder(m, m, n)
  BY <1>2 DEF InOrder
<1> QED
  BY <1>2, <1>3, <1>4, <1>5 DEF m

Insertion(c, E, at, instr) ==
  LET pos  == NewOffsets(c)[at]
      size == EncodedSize(instr)
  IN  [code |-> RecomputeOffsets(ShiftTargets(InsertAt(c, at, instr), pos, size, at)),
       eh   |-> ShiftEhInsert(E, pos, size)]

LEMMA InsertFollows ==
  ASSUME NEW c \in Seq(Instructions), NEW E \in Seq(Clauses), NEW at \in 1..(Len(c) + 1),
         NEW instr \in Instructions
  PROVE  LET b == Insertion(c, E, at, instr)
             m == Ahead(at, Len(c))
         IN  /\ Len(b.code) = Len(c) + 1 /\ b.code \in Seq(Instructions) /\ b.eh \in Seq(Clauses)
             /\ Follows(Reading(NewOffsets(c), c, E), ReadBody(b), m, m, {})
<1> DEFINE n == Len(c)
           m == Ahead(at, n)
           L == NewOffsets(c)
           pos == L[at]
           size == EncodedSize(instr)
           put == InsertAt(c, at, instr)
           d == RecomputeOffsets(ShiftTargets(put, pos, size, at))
           F == ShiftEhInsert(E, pos, size)
           M == Opened(L, at, size)
<1>1. n \in Nat /\ DOMAIN c = 1..n /\ at \in 1..(n + 1) /\ size \in Nat /\ Len(c) = n
  BY EncodedSizes
<1>2. Increasing(L) /\ Len(L) = n + 1
  BY LayoutIncreases
<1>3. DOMAIN L = 1..(n + 1) /\ pos \in Nat
  <2> HIDE DEF L
  <2> QED
    BY <1>1, <1>2 DEF Increasing
<1>4. /\ put \in Seq(Instructions) /\ Len(put) = n + 1 /\ DOMAIN put = 1..(n + 1)
      /\ \A j \in 1..(n + 1) : put[j] = IF j < at THEN c[j] ELSE IF j = at THEN instr ELSE c[j - 1]
      /\ NewOffsets(put) = M
  BY InsertType, InsertParts, InsertLayout
<1> HIDE DEF put, L, n
<1>5. /\ d \in Seq(Instructions) /\ Len(d) = n + 1 /\ NewOffsets(d) = M
      /\ \A k \in 1..(n + 1) :
           /\ d[k].op = put[k].op
           /\ k # at => d[k].to = [x \in DOMAIN put[k].to |-> ShiftedTo(put[k].to[x], pos, size)]
  <2>1. pos \in Int /\ size \in Int
    BY <1>1, <1>3
  <2> HIDE DEF pos, size, M
  <2> QED
    BY <1>4, <2>1, ShiftedBody
<1>6. /\ F \in Seq(Clauses) /\ Len(F) = Len(E)
      /\ \A x \in DOMAIN E :
           /\ F[x].try = InsertedRegion(E[x].try, pos, size)
           /\ F[x].handler = InsertedRegion(E[x].handler, pos, size)
           /\ F[x].filter = IF E[x].filter = None THEN None ELSE ShiftedTo(E[x].filter, pos, size)
  BY <1>1, <1>3, ShiftEhInsertType, InsertClauses
<1> HIDE DEF d, F, m
<1>7. Increasing(M) /\ Len(M) = n + 2
  <2>1. Increasing(NewOffsets(d)) /\ Len(NewOffsets(d)) = Len(d) + 1
    BY <1>5, LayoutIncreases
  <2> QED
    BY <1>1, <1>5, <2>1
<1>8. /\ \A j \in 1..n : /\ m[j] = IF j >= at THEN j + 1 ELSE j
                         /\ m[j] \in 1..(n + 1) /\ m[j] # at
      /\ \A i, j \in 1..n : i <= j => m[i] <= m[j]
  BY <1>1, AheadFacts DEF m
<1>9. ASSUME NEW k \in 1..n PROVE ShiftedTo(L[k], pos, size) = M[m[k]]
  <2>1. k \in DOMAIN L /\ at \in DOMAIN L
    BY <1>1, <1>3
  <2>2. (k >= at <=> L[k] >= pos) /\ L[k] \in Nat
    BY <1>2, <2>1, OrderFacts
  <2>3. M = [i \in 1..(n + 2) |-> IF i <= at THEN L[i] ELSE L[i - 1] + size]
    BY <1>1, <1>2 DEF Opened
  <2> HIDE DEF M, pos
  <2>4. (k >= at => M[k + 1] = L[k] + size) /\ (k < at => M[k] = L[k])
    BY <1>1, <2>3
  <2> QED
    BY <1>1, <1>8, <2>2, <2>4 DEF ShiftedTo
<1> HIDE DEF M, pos, size
<1>10. Len(L) - 1 = n
  BY <1>1, <1>2
<1>11. ASSUME NEW j \in 1..n PROVE CodeFollowed(c[j], d[m[j]], L, M, m)
  <2>1. m[j] \in 1..(n + 1) /\ m[j] # at /\ put[m[j]] = c[j]
    BY <1>1, <1>4, <1>8
  <2>2. d[m[j]].op = c[j].op /\ d[m[j]].to = [x \in DOMAIN c[j].to |-> ShiftedTo(c[j].to[x], pos, size)]
    BY <1>5, <2>1
  <2>3. c[j].to \in Seq(Int)
    <3>1. c[j] \in Instructions
      BY <1>1
    <3> QED
      BY <3>1, InstructionForm
  <2>4. Len(d[m[j]].to) = Len(c[j].to)
    <3>1. d[m[j]] \in Instructions
      BY <1>1, <1>5, <2>1
    <3>2. d[m[j]].to \in Seq(Int)
      BY <3>1, InstructionForm
    <3> QED
      BY <2>2, <2>3, <3>2
  <2>5. ASSUME NEW x \in DOMAIN c[j].to, NEW k \in 1..(Len(L) - 1), c[j].to[x] = L[k]
        PROVE  d[m[j]].to[x] = M[m[k]]
    BY <1>9, <1>10, <2>2, <2>5
  <2> QED
    BY <2>2, <2>4, <2>5 DEF CodeFollowed
<1>12. ASSUME NEW x \in DOMAIN E PROVE HandlerFollowed(E[x], F[x], L, M, m, m)
  <2>1. E[x].try \in Regions /\ E[x].handler \in Regions
    <3>1. E[x] \in Clauses
      OBVIOUS
    <3> QED
      BY <3>1 DEF Clauses
  <2>2. RegionFollowed(E[x].try, F[x].try, L, M, m, m) /\ RegionFollowed(E[x].handler, F[x].handler, L, M, m, m)
    BY <1>1, <1>2, <1>6, <2>1, InsertRegionFollows DEF M, m, pos
  <2>3. ASSUME NEW k \in 1..(Len(L) - 1), E[x].filter = L[k] PROVE F[x].filter = M[m[k]]
    <3>1. k \in 1..n /\ L[k] \in Nat
      BY <1>2, <1>3, <1>10, OrderFacts
    <3>2. E[x].filter # None
      BY <2>3, <3>1, NoneAssumption
    <3> QED
      BY <1>6, <1>9, <2>3, <3>1, <3>2
  <2> QED
    BY <2>2, <2>3 DEF HandlerFollowed
<1>13. Follows(Reading(L, c, E), Reading(M, d, F), m, m, {})
  <2>1. /\ Len(L) = Len(c) + 1 /\ Len(M) = Len(d) + 1
        /\ \A j \in 1..Len(c) : m[j] \in 1..Len(d)
        /\ \A i, j \in 1..Len(c) : i <= j => m[i] <= m[j]
        /\ \A j \in 1..Len(c) : CodeFollowed(c[j], d[m[j]], L, M, m)
    BY <1>1, <1>2, <1>5, <1>7, <1>8, <1>11
  <2> QED
    BY <1>2, <1>5, <1>6, <1>7, <1>12, <2>1, EditFollows
<1>14. Insertion(c, E, at, instr) = [code |-> d, eh |-> F]
  BY DEF Insertion, L, pos, size, put, d, F
<1> QED
  BY <1>1, <1>5, <1>6, <1>13, <1>14 DEF ReadBody, m, L, n

LEMMA InsertIsEdit ==
  ASSUME NEW a, NEW b, NEW n \in Nat, WellRead(a, n), Len(b.prog) = n + 1, NEW at \in 1..(n + 1),
         Follows(a, b, Ahead(at, n), Ahead(at, n), {})
  PROVE  AbsStep(a, b)
<1> DEFINE m == Ahead(at, n)
<1>1. InOrder(m, m, n) /\ \A j \in 1..n : m[j] = IF j >= at THEN j + 1 ELSE j
  BY AheadFacts
<1>2. DOMAIN a.prog = 1..n /\ Len(a.prog) = n
  BY DEF WellRead
<1>3. \A j \in 1..n : Abs!Inserting(a.prog, at)[j] = {m[j], m[j]}
  BY <1>1, <1>2 DEF Abs!Inserting
<1> HIDE DEF m
<1>4. Abs!Edit(a, b, Abs!Inserting(a.prog, at), {})
  BY <1>1, <1>3, FollowsIsEdit DEF m
<1>5. Len(b.prog) = Len(a.prog) + 1 /\ at \in 1..Len(b.prog)
  BY <1>2
<1> QED
  BY <1>4, <1>5 DEF AbsStep

(* While no opcode is being rewritten a step goes from a placed body to one. *)
LEMMA PlacedReadings ==
  ASSUME CurrentIs, CurrentIs', Consistent, rewritten' = {}, NEW b, code' = b.code, eh' = b.eh
  PROVE  /\ Reading(CurrentLayout, code, eh) = Reading(NewOffsets(code), code, eh)
         /\ Reading(CurrentLayout', code', eh') = ReadBody(b)
<1>1. CurrentLayout = NewOffsets(code) /\ CurrentLayout' = NewOffsets(code')
  BY DEF CurrentIs, Consistent
<1> QED
  BY <1>1 DEF ReadBody

LEMMA InsertSteps ==
  ASSUME TypeOK, CurrentIs, CurrentIs', NEW index \in 1..(Len(code) + 2), NEW instr \in Instructions,
         InsertAtIndex(index, instr)
  PROVE  AbsStep(Reading(CurrentLayout, code, eh), Reading(CurrentLayout', code', eh'))
<1>1. code \in Seq(Instructions) /\ eh \in Seq(Clauses) /\ Consistent /\ rewritten' = {}
  BY DEF TypeOK, InsertAtIndex, Consistent
<1>2. Placed(code)
  BY <1>1 DEF CurrentIs
<1> DEFINE n == Len(code)
           at == IF index <= n THEN index ELSE n + 1
           pos == IF index <= n THEN code[index].off ELSE End(code)
           b == Insertion(code, eh, at, instr)
<1>3. n \in Nat /\ at \in 1..(n + 1)
  BY <1>1
<1>4. pos = NewOffsets(code)[at]
  <2>1. CASE index <= n
    <3>1. index \in DOMAIN code
      BY <1>1, <2>1
    <3> QED
      BY <1>2, <2>1, <3>1 DEF Placed
  <2>2. CASE ~(index <= n)
    <3>1. Snapshot(code) = NewOffsets(code)
      BY <1>1, <1>2, PlacedIsSnapshot
    <3>2. Snapshot(code)[n + 1] = End(code)
      <4> DEFINE offs == [k \in DOMAIN code |-> code[k].off]
      <4>1. \A k \in DOMAIN code : code[k].off \in Nat
        <5> TAKE k \in DOMAIN code
        <5>1. code[k] \in Instructions
          BY <1>1
        <5> QED
          BY <5>1, InstructionForm
      <4>2. offs \in Seq(Nat) /\ Len(offs) = n
        BY <1>1, <4>1
      <4>3. End(code) \in Nat
        BY <1>1, EndType
      <4> HIDE DEF offs, n
      <4>4. Append(offs, End(code))[n + 1] = End(code)
        BY <4>2, <4>3
      <4> QED
        BY <4>4 DEF Snapshot, offs
    <3> QED
      BY <2>2, <3>1, <3>2
  <2> QED
    BY <2>1, <2>2
<1>5. code' = b.code /\ eh' = b.eh
  <2>1. code' = RecomputeOffsets(ShiftTargets(InsertAt(code, at, instr), pos, EncodedSize(instr), at))
        /\ eh' = ShiftEhInsert(eh, pos, EncodedSize(instr))
    BY DEF InsertAtIndex
  <2> HIDE DEF at, pos
  <2> QED
    BY <1>4, <2>1 DEF Insertion
<1> HIDE DEF at, pos, n, b
<1>6. /\ Len(b.code) = n + 1 /\ b.code \in Seq(Instructions) /\ b.eh \in Seq(Clauses)
      /\ Follows(Reading(NewOffsets(code), code, eh), ReadBody(b), Ahead(at, n), Ahead(at, n), {})
  BY <1>1, <1>3, InsertFollows DEF n, b
<1>7. WellRead(Reading(NewOffsets(code), code, eh), n)
  <2>1. Increasing(NewOffsets(code)) /\ Len(NewOffsets(code)) = Len(code) + 1
    BY <1>1, LayoutIncreases
  <2> QED
    BY <1>1, <2>1, ReadingForm DEF n
<1>8. Len(ReadBody(b).prog) = n + 1
  <2>1. Increasing(NewOffsets(b.code)) /\ Len(NewOffsets(b.code)) = Len(b.code) + 1
    BY <1>6, LayoutIncreases
  <2>2. WellRead(ReadBody(b), Len(b.code))
    BY <1>6, <2>1, ReadingForm DEF ReadBody
  <2> QED
    BY <1>6, <2>2 DEF WellRead
<1>9. AbsStep(Reading(NewOffsets(code), code, eh), ReadBody(b))
  BY <1>3, <1>6, <1>7, <1>8, InsertIsEdit
<1> QED
  BY <1>1, <1>5, <1>9, PlacedReadings

(* Replacement: what starts after the instruction moves by the difference.   *)
ReplacedRegion(r, pos, delta) ==
  LET start == IF r.off > pos THEN r.off + delta ELSE r.off
  IN  [off |-> start,
       len |-> IF start <= pos /\ pos < start + r.len THEN r.len + delta ELSE r.len]

LEMMA ReplaceClauses ==
  ASSUME NEW E \in Seq(Clauses), NEW pos, NEW delta
  PROVE  /\ Len(ShiftEhReplace(E, pos, delta)) = Len(E)
         /\ \A x \in DOMAIN E :
              /\ ShiftEhReplace(E, pos, delta)[x].try = ReplacedRegion(E[x].try, pos, delta)
              /\ ShiftEhReplace(E, pos, delta)[x].handler = ReplacedRegion(E[x].handler, pos, delta)
              /\ ShiftEhReplace(E, pos, delta)[x].filter =
                   IF E[x].filter = None THEN None
                     ELSE IF E[x].filter > pos THEN E[x].filter + delta ELSE E[x].filter
<1> DEFINE a == [x \in DOMAIN E |-> ReplacedRegion(E[x].try, pos, delta)]
           b == [x \in DOMAIN E |-> ReplacedRegion(E[x].handler, pos, delta)]
           g == [x \in DOMAIN E |-> IF E[x].filter = None THEN None
                                      ELSE IF E[x].filter > pos THEN E[x].filter + delta
                                      ELSE E[x].filter]
           F == ShiftEhReplace(E, pos, delta)
<1>1. F = [x \in DOMAIN E |->
             [try     |-> ReplacedRegion(E[x].try, pos, delta),
              handler |-> ReplacedRegion(E[x].handler, pos, delta),
              filter  |-> IF E[x].filter = None THEN None
                            ELSE IF E[x].filter > pos THEN E[x].filter + delta ELSE E[x].filter]]
  BY DEF ShiftEhReplace, EachClause, ReplacedRegion
<1> HIDE DEF F
<1>2. F = [x \in DOMAIN E |-> [try |-> a[x], handler |-> b[x], filter |-> g[x]]]
  BY <1>1
<1>3. \A x \in DOMAIN E : /\ a[x] = ReplacedRegion(E[x].try, pos, delta)
                          /\ b[x] = ReplacedRegion(E[x].handler, pos, delta)
                          /\ g[x] = IF E[x].filter = None THEN None
                                      ELSE IF E[x].filter > pos THEN E[x].filter + delta
                                      ELSE E[x].filter
  OBVIOUS
<1> HIDE DEF a, b, g
<1>4. Len(F) = Len(E) /\ \A x \in DOMAIN E : F[x].try = a[x] /\ F[x].handler = b[x] /\ F[x].filter = g[x]
  BY <1>2, EachParts
<1> QED
  BY <1>3, <1>4 DEF F

(* Where what refers to an instruction after the at-th one is moved by delta.*)
PastMoved(L, at, delta, k) == IF k > at THEN L[k] + delta ELSE L[k]

(* Replacing leaves the instruction some length.                             *)
Resizes(L, n, at, delta) ==
  /\ Increasing(L) /\ n \in Nat /\ Len(L) = n + 1 /\ at \in 1..n
  /\ delta \in Int /\ L[at + 1] + delta > L[at]

RunsFrom(r, L, i, e) == i < e /\ r.off = L[i] /\ r.off + r.len = L[e]

LEMMA ReplacedEnds ==
  ASSUME NEW L, NEW n, NEW at, NEW delta, Resizes(L, n, at, delta),
         NEW r \in Regions, NEW i \in 1..n, NEW e \in 1..(n + 1), RunsFrom(r, L, i, e)
  PROVE  LET s == ReplacedRegion(r, L[at], delta)
         IN  /\ s.off = PastMoved(L, at, delta, i)
             /\ s.off + s.len = PastMoved(L, at, delta, e)
<1> DEFINE pos == L[at]
           s == ReplacedRegion(r, pos, delta)
<1>1. /\ r.off \in Int /\ r.len \in Int
      /\ i < e /\ r.off = L[i] /\ r.off + r.len = L[e]
      /\ Increasing(L) /\ n \in Nat /\ Len(L) = n + 1 /\ at \in 1..n /\ delta \in Int
  BY DEF Regions, RunsFrom, Resizes
<1>2. i \in DOMAIN L /\ e \in DOMAIN L /\ at \in DOMAIN L /\ at + 1 \in DOMAIN L
  BY <1>1 DEF Increasing
<1>3. /\ pos \in Nat /\ L[i] \in Nat /\ L[e] \in Nat /\ L[at + 1] \in Nat
      /\ at < i <=> pos < L[i]
      /\ at < e <=> pos < L[e]
      /\ i >= at + 1 <=> L[i] >= L[at + 1]
  BY <1>1, <1>2, OrderFacts
<1> DEFINE start == IF r.off > pos THEN r.off + delta ELSE r.off
<1>4. /\ s.off = start
      /\ s.len = IF start <= pos /\ pos < start + r.len THEN r.len + delta ELSE r.len
  BY DEF ReplacedRegion
<1>5. L[at + 1] + delta > pos
  BY DEF Resizes
<1> HIDE DEF pos, s
<1>6. CASE i > at
  <2>1. L[i] + delta > pos /\ start = L[i] + delta
    BY <1>1, <1>3, <1>5, <1>6
  <2>2. s.off = L[i] + delta /\ s.len = r.len
    <3>1. ~(start <= pos)
      BY <1>1, <1>3, <2>1
    <3> HIDE DEF start
    <3> QED
      BY <1>4, <2>1, <3>1
  <2>3. s.off + s.len = L[e] + delta /\ e > at
    BY <1>1, <1>3, <1>6, <2>2
  <2> QED
    BY <1>1, <1>6, <2>2, <2>3 DEF PastMoved, s, pos
<1>7. CASE ~(i > at)
  <2>1. start = L[i] /\ start <= pos
    BY <1>1, <1>3, <1>7
  <2>2. s.off = L[i] /\ s.len = IF pos < L[e] THEN r.len + delta ELSE r.len
    BY <1>1, <1>3, <1>4, <2>1
  <2>3. s.off + s.len = IF e > at THEN L[e] + delta ELSE L[e]
    BY <1>1, <1>3, <2>2
  <2> QED
    BY <1>1, <1>7, <2>2, <2>3 DEF PastMoved, s, pos
<1> QED
  BY <1>6, <1>7

LEMMA ReplacedOffsets ==
  ASSUME NEW L, Increasing(L), NEW n \in Nat, Len(L) = n + 1, NEW at \in 1..n,
         NEW delta \in Int, NEW k \in 1..n
  PROVE  /\ ShiftedTo(L[k], L[at + 1], delta) = PastMoved(L, at, delta, k)
         /\ (IF L[k] > L[at] THEN L[k] + delta ELSE L[k]) = PastMoved(L, at, delta, k)
<1>1. k \in DOMAIN L /\ at \in DOMAIN L /\ at + 1 \in DOMAIN L
  BY DEF Increasing
<1>2. /\ L[k] \in Nat /\ L[at] \in Nat /\ L[at + 1] \in Nat
      /\ at < k <=> L[at] < L[k]
      /\ k >= at + 1 <=> L[k] >= L[at + 1]
  BY <1>1, OrderFacts
<1> QED
  BY <1>2 DEF ShiftedTo, PastMoved

LEMMA ReplaceLayout ==
  ASSUME NEW c \in Seq(Instructions), NEW at \in DOMAIN c, NEW i \in Instructions
  PROVE  LET L == NewOffsets(c)
             delta == EncodedSize(i) - EncodedSize(c[at])
         IN  NewOffsets(ReplaceAt(c, at, i)) = [k \in 1..(Len(c) + 1) |-> PastMoved(L, at, delta, k)]
<1> DEFINE d == ReplaceAt(c, at, i)
           n == Len(c)
           L == NewOffsets(c)
           s == EncodedSize(i)
           t == EncodedSize(c[at])
           M == [k \in 1..(n + 1) |-> PastMoved(L, at, s - t, k)]
<1>1. n \in Nat /\ DOMAIN c = 1..n /\ at \in 1..n /\ s \in Nat /\ t \in Nat
  <2>1. c[at] \in Instructions
    OBVIOUS
  <2> QED
    BY <2>1, EncodedSizes
<1>2. /\ L[1] = 0 /\ \A k \in 1..(n + 1) : L[k] \in Nat
      /\ \A k \in 1..n : L[k + 1] = L[k] + EncodedSize(c[k])
  <2>1. L \in Seq(Nat) /\ Len(L) = n + 1 /\ L[1] = 0
        /\ \A k \in DOMAIN c : L[k + 1] = L[k] + EncodedSize(c[k])
    BY OffsetsType
  <2> HIDE DEF L, n
  <2>2. \A k \in 1..(n + 1) : L[k] \in Nat
    BY <1>1, <2>1
  <2> QED
    BY <1>1, <2>1, <2>2
<1>3. d \in Seq(Instructions) /\ Len(d) = n
      /\ \A j \in 1..n : d[j] = IF j = at THEN i ELSE c[j]
  <2>1. d \in Seq(Instructions) /\ Len(d) = Len(c)
        /\ \A j \in DOMAIN c : d[j] = IF j = at THEN i ELSE c[j]
    BY ReplaceType
  <2> HIDE DEF d, n
  <2> QED
    BY <1>1, <2>1 DEF n
<1> HIDE DEF d, L, s, t
<1>4. \A k \in 1..(n + 1) : M[k] = IF k > at THEN L[k] + (s - t) ELSE L[k]
  BY DEF PastMoved
<1>5. M \in [1..(n + 1) -> Int]
  <2>1. ASSUME NEW k \in 1..(n + 1) PROVE PastMoved(L, at, s - t, k) \in Int
    BY <1>1, <1>2 DEF PastMoved
  <2> QED
    BY <2>1
<1> HIDE DEF n, M
<1>6. M[1] = 0
  BY <1>1, <1>2, <1>4
<1>7. ASSUME NEW k \in 1..n PROVE M[k + 1] = M[k] + EncodedSize(d[k])
  <2>1. /\ M[k] = IF k > at THEN L[k] + (s - t) ELSE L[k]
        /\ M[k + 1] = IF k + 1 > at THEN L[k + 1] + (s - t) ELSE L[k + 1]
        /\ L[k + 1] = L[k] + EncodedSize(c[k]) /\ L[k] \in Nat
    BY <1>1, <1>2, <1>4
  <2>2. c[k] \in Instructions /\ EncodedSize(c[k]) \in Nat
    <3>1. c[k] \in Instructions
      BY <1>1
    <3> QED
      BY <3>1, EncodedSizes
  <2>3. CASE k = at
    <3>1. EncodedSize(d[k]) = s /\ EncodedSize(c[k]) = t
      BY <1>3, <2>3 DEF s, t
    <3> QED
      BY <1>1, <2>1, <2>3, <3>1
  <2>4. CASE k # at
    <3>1. EncodedSize(d[k]) = EncodedSize(c[k])
      BY <1>3, <2>4
    <3> QED
      BY <1>1, <2>1, <2>2, <2>4, <3>1
  <2> QED
    BY <2>3, <2>4
<1>8. LaysOut(M, d)
  <2>1. DOMAIN d = 1..n /\ Len(d) + 1 = n + 1
    BY <1>1, <1>3
  <2> QED
    BY <1>5, <1>6, <1>7, <2>1 DEF LaysOut
<1>9. M = NewOffsets(d)
  BY <1>3, <1>8, LayoutOf
<1> QED
  BY <1>9 DEF M, n, d, L, s, t

(* One instruction for another of the same length: nothing moves.            *)
LEMMA SwapFollows ==
  ASSUME NEW c \in Seq(Instructions), NEW E \in Seq(Clauses), NEW at \in DOMAIN c,
         NEW i \in Instructions, EncodedSize(i) = EncodedSize(c[at])
  PROVE  Follows(Reading(NewOffsets(c), c, E),
                 Reading(NewOffsets(ReplaceAt(c, at, i)), ReplaceAt(c, at, i), E),
                 Id(Len(c)), Id(Len(c)), {at})
<1> DEFINE n == Len(c)
           d == ReplaceAt(c, at, i)
           L == NewOffsets(c)
           m == Id(n)
<1>1. n \in Nat /\ DOMAIN c = 1..n
  OBVIOUS
<1>2. d \in Seq(Instructions) /\ Len(d) = n /\ \A j \in 1..n : d[j] = IF j = at THEN i ELSE c[j]
  <2>1. d \in Seq(Instructions) /\ Len(d) = Len(c)
        /\ \A j \in DOMAIN c : d[j] = IF j = at THEN i ELSE c[j]
    BY ReplaceType
  <2> HIDE DEF d, n
  <2> QED
    BY <1>1, <2>1 DEF n
<1>3. SameSizes(c, d)
  <2> HIDE DEF d
  <2> QED
    BY <1>1, <1>2 DEF SameSizes
<1>4. NewOffsets(d) = L
  BY <1>2, <1>3, SameLayout
<1>5. Increasing(L) /\ Len(L) = n + 1
  BY LayoutIncreases
<1> HIDE DEF d, L, m
<1>6. /\ \A j \in 1..n : m[j] = j
      /\ \A j, k \in 1..n : j <= k => m[j] <= m[k]
  BY InOrderId DEF m
<1>7. ASSUME NEW j \in 1..n, j \notin {at} PROVE CodeFollowed(c[j], d[m[j]], L, L, m)
  <2>1. d[m[j]] = c[j] /\ Len(L) - 1 = n
    BY <1>1, <1>2, <1>5, <1>6, <1>7
  <2> QED
    BY <1>6, <2>1 DEF CodeFollowed
<1>8. ASSUME NEW x \in DOMAIN E PROVE HandlerFollowed(E[x], E[x], L, L, m, m)
  <2>1. Len(L) - 1 = n /\ Len(L) = n + 1
    BY <1>1, <1>5
  <2>2. ASSUME NEW r PROVE RegionFollowed(r, r, L, L, m, m)
    <3>1. SUFFICES ASSUME NEW j \in 1..n, NEW e \in 1..(n + 1),
                          j < e, r.off = L[j], r.off + r.len = L[e]
                   PROVE  r.off = L[m[j]] /\ r.off + r.len = L[m[e - 1] + 1]
      BY <2>1 DEF RegionFollowed
    <3>2. e - 1 \in 1..n
      BY <1>1, <3>1
    <3>3. m[j] = j /\ m[e - 1] + 1 = e
      BY <1>6, <3>2
    <3> QED
      BY <3>1, <3>3
  <2>3. \A k \in 1..(Len(L) - 1) : E[x].filter = L[k] => E[x].filter = L[m[k]]
    BY <1>6, <2>1
  <2> QED
    BY <2>2, <2>3 DEF HandlerFollowed
<1>9. Follows(Reading(L, c, E), Reading(L, d, E), m, m, {at})
  <2>1. /\ Len(L) = Len(c) + 1 /\ Len(L) = Len(d) + 1
        /\ \A j \in 1..Len(c) : m[j] \in 1..Len(d)
        /\ \A j, k \in 1..Len(c) : j <= k => m[j] <= m[k]
        /\ \A j \in 1..Len(c) : j \notin {at} => CodeFollowed(c[j], d[m[j]], L, L, m)
    BY <1>1, <1>2, <1>5, <1>6, <1>7
  <2> QED
    BY <1>2, <1>5, <1>8, <2>1, EditFollows
<1> QED
  BY <1>4, <1>9 DEF d, L, m, n

(* One instruction for another of another length.                            *)
Replacement(c, E, at, instr) ==
  LET pos   == NewOffsets(c)[at]
      delta == EncodedSize(instr) - EncodedSize(c[at])
  IN  [code |-> RecomputeOffsets(ShiftTargets(ReplaceAt(c, at, instr), NewOffsets(c)[at + 1], delta, at)),
       eh   |-> ShiftEhReplace(E, pos, delta)]

LEMMA ReplaceFollows ==
  ASSUME NEW c \in Seq(Instructions), NEW E \in Seq(Clauses), NEW at \in DOMAIN c,
         NEW instr \in Instructions
  PROVE  LET b == Replacement(c, E, at, instr)
         IN  /\ Len(b.code) = Len(c) /\ b.code \in Seq(Instructions) /\ b.eh \in Seq(Clauses)
             /\ Follows(Reading(NewOffsets(c), c, E), ReadBody(b), Id(Len(c)), Id(Len(c)), {at})
<1> DEFINE n == Len(c)
           m == Id(n)
           L == NewOffsets(c)
           pos == L[at]
           past == L[at + 1]
           delta == EncodedSize(instr) - EncodedSize(c[at])
           put == ReplaceAt(c, at, instr)
           d == RecomputeOffsets(ShiftTargets(put, past, delta, at))
           F == ShiftEhReplace(E, pos, delta)
           M == [k \in 1..(n + 1) |-> PastMoved(L, at, delta, k)]
<1>1. /\ n \in Nat /\ DOMAIN c = 1..n /\ at \in 1..n /\ Len(c) = n
      /\ EncodedSize(instr) \in Nat \ {0} /\ EncodedSize(c[at]) \in Nat
  <2>1. c[at] \in Instructions
    OBVIOUS
  <2> QED
    BY <2>1, EncodedSizes
<1>2. Increasing(L) /\ Len(L) = n + 1
  BY LayoutIncreases
<1>3. past = pos + EncodedSize(c[at])
  BY OffsetsType
<1>4. NewOffsets(put) = M
  BY ReplaceLayout
<1>5. /\ put \in Seq(Instructions) /\ Len(put) = n /\ DOMAIN put = 1..n
      /\ \A j \in 1..n : put[j] = IF j = at THEN instr ELSE c[j]
  <2>1. put \in Seq(Instructions) /\ Len(put) = Len(c)
        /\ \A j \in DOMAIN c : put[j] = IF j = at THEN instr ELSE c[j]
    BY ReplaceType
  <2> HIDE DEF put, n
  <2> QED
    BY <1>1, <2>1 DEF n
<1> HIDE DEF put, L, n
<1>6. pos \in Nat /\ past \in Nat /\ delta \in Int /\ past + delta > pos /\ DOMAIN L = 1..(n + 1)
  <2>1. at \in DOMAIN L /\ at + 1 \in DOMAIN L /\ DOMAIN L = 1..(n + 1)
    BY <1>1, <1>2 DEF Increasing
  <2>2. L[at] \in Nat /\ L[at + 1] \in Nat
    BY <1>2, <2>1, OrderFacts
  <2> QED
    BY <1>1, <1>3, <2>1, <2>2
<1> HIDE DEF M
<1>7. /\ d \in Seq(Instructions) /\ Len(d) = n /\ NewOffsets(d) = M
      /\ \A k \in 1..n :
           /\ d[k].op = put[k].op
           /\ k # at => d[k].to = [x \in DOMAIN put[k].to |-> ShiftedTo(put[k].to[x], past, delta)]
  <2>1. past \in Int /\ delta \in Int
    BY <1>6
  <2> HIDE DEF past, delta
  <2> QED
    BY <1>4, <1>5, <2>1, ShiftedBody
<1>8. /\ F \in Seq(Clauses) /\ Len(F) = Len(E)
      /\ \A x \in DOMAIN E :
           /\ F[x].try = ReplacedRegion(E[x].try, pos, delta)
           /\ F[x].handler = ReplacedRegion(E[x].handler, pos, delta)
           /\ F[x].filter = IF E[x].filter = None THEN None
                              ELSE IF E[x].filter > pos THEN E[x].filter + delta ELSE E[x].filter
  <2>1. pos \in Int /\ delta \in Int
    BY <1>6
  <2> HIDE DEF pos, delta
  <2> QED
    BY <2>1, ShiftEhReplaceType, ReplaceClauses
<1> HIDE DEF d, F, m
<1>9. Increasing(M) /\ Len(M) = n + 1
  BY <1>1, <1>7, LayoutIncreases
<1>10. /\ \A j \in 1..n : m[j] = j
       /\ \A j, k \in 1..n : j <= k => m[j] <= m[k]
  BY <1>1, InOrderId DEF m
<1>11. \A k \in 1..(n + 1) : M[k] = PastMoved(L, at, delta, k)
  BY DEF M
<1>12. ASSUME NEW k \in 1..n
       PROVE  /\ ShiftedTo(L[k], past, delta) = M[m[k]]
              /\ (IF L[k] > pos THEN L[k] + delta ELSE L[k]) = M[m[k]]
  <2>1. m[k] = k /\ M[k] = PastMoved(L, at, delta, k)
    BY <1>1, <1>10, <1>11
  <2>2. /\ ShiftedTo(L[k], past, delta) = PastMoved(L, at, delta, k)
        /\ (IF L[k] > pos THEN L[k] + delta ELSE L[k]) = PastMoved(L, at, delta, k)
    <3>1. delta \in Int /\ at \in 1..n /\ n \in Nat /\ Len(L) = n + 1
      BY <1>1, <1>2, <1>6
    <3> HIDE DEF delta
    <3> QED
      BY <1>2, <3>1, ReplacedOffsets
  <2> QED
    BY <2>1, <2>2
<1>13. Len(L) - 1 = n /\ Len(L) = n + 1
  BY <1>1, <1>2
<1>14. ASSUME NEW r \in Regions PROVE RegionFollowed(r, ReplacedRegion(r, pos, delta), L, M, m, m)
  <2>1. SUFFICES ASSUME NEW i \in 1..n, NEW e \in 1..(n + 1),
                        i < e, r.off = L[i], r.off + r.len = L[e]
                 PROVE  LET s == ReplacedRegion(r, pos, delta)
                        IN  s.off = M[m[i]] /\ s.off + s.len = M[m[e - 1] + 1]
    BY <1>13 DEF RegionFollowed
  <2>2. LET s == ReplacedRegion(r, pos, delta)
        IN  s.off = PastMoved(L, at, delta, i) /\ s.off + s.len = PastMoved(L, at, delta, e)
    <3>1. Resizes(L, n, at, delta) /\ RunsFrom(r, L, i, e)
      BY <1>1, <1>2, <1>6, <2>1 DEF Resizes, RunsFrom
    <3> HIDE DEF delta
    <3> QED
      BY <3>1, ReplacedEnds
  <2>3. e - 1 \in 1..n /\ e - 1 + 1 = e /\ i \in 1..(n + 1)
    BY <1>1, <2>1
  <2>4. m[i] = i /\ m[e - 1] + 1 = e
    BY <1>10, <2>3
  <2> QED
    BY <1>11, <2>2, <2>3, <2>4
<1> HIDE DEF pos, past, delta
<1>15. ASSUME NEW j \in 1..n, j \notin {at} PROVE CodeFollowed(c[j], d[m[j]], L, M, m)
  <2>1. m[j] = j /\ put[j] = c[j]
    BY <1>5, <1>10, <1>15
  <2>2. d[j].op = c[j].op /\ d[j].to = [x \in DOMAIN c[j].to |-> ShiftedTo(c[j].to[x], past, delta)]
    BY <1>7, <1>15, <2>1
  <2>3. c[j].to \in Seq(Int) /\ d[j].to \in Seq(Int)
    <3>1. c[j] \in Instructions /\ d[j] \in Instructions
      BY <1>1, <1>7
    <3> QED
      BY <3>1, InstructionForm, SMTT(20)
  <2>4. Len(d[j].to) = Len(c[j].to)
    BY <2>2, <2>3
  <2>5. ASSUME NEW x \in DOMAIN c[j].to, NEW k \in 1..(Len(L) - 1), c[j].to[x] = L[k]
        PROVE  d[j].to[x] = M[m[k]]
    BY <1>12, <1>13, <2>2, <2>5
  <2> QED
    BY <2>1, <2>2, <2>4, <2>5 DEF CodeFollowed
<1>16. ASSUME NEW x \in DOMAIN E PROVE HandlerFollowed(E[x], F[x], L, M, m, m)
  <2>1. E[x].try \in Regions /\ E[x].handler \in Regions
    <3>1. E[x] \in Clauses
      OBVIOUS
    <3> QED
      BY <3>1 DEF Clauses
  <2>2. RegionFollowed(E[x].try, F[x].try, L, M, m, m) /\ RegionFollowed(E[x].handler, F[x].handler, L, M, m, m)
    BY <1>8, <1>14, <2>1
  <2>3. ASSUME NEW k \in 1..(Len(L) - 1), E[x].filter = L[k] PROVE F[x].filter = M[m[k]]
    <3>1. k \in 1..n /\ L[k] \in Nat
      BY <1>2, <1>6, <1>13, OrderFacts
    <3>2. E[x].filter # None
      BY <2>3, <3>1, NoneAssumption
    <3> QED
      BY <1>8, <1>12, <2>3, <3>1, <3>2
  <2> QED
    BY <2>2, <2>3 DEF HandlerFollowed
<1>17. Follows(Reading(L, c, E), Reading(M, d, F), m, m, {at})
  <2>1. /\ Len(L) = Len(c) + 1 /\ Len(M) = Len(d) + 1
        /\ \A j \in 1..Len(c) : m[j] \in 1..Len(d)
        /\ \A i, j \in 1..Len(c) : i <= j => m[i] <= m[j]
        /\ \A j \in 1..Len(c) : j \notin {at} => CodeFollowed(c[j], d[m[j]], L, M, m)
    BY <1>1, <1>2, <1>7, <1>9, <1>10, <1>15
  <2> QED
    BY <1>2, <1>7, <1>8, <1>9, <1>16, <2>1, EditFollows
<1>18. Replacement(c, E, at, instr) = [code |-> d, eh |-> F]
  BY DEF Replacement, L, pos, past, delta, put, d, F
<1> QED
  BY <1>1, <1>7, <1>8, <1>17, <1>18 DEF ReadBody, m, L, n

LEMMA ReplaceIsEdit ==
  ASSUME NEW a, NEW b, NEW n \in Nat, WellRead(a, n), Len(b.prog) = n, NEW at \in 1..n,
         Follows(a, b, Id(n), Id(n), {at})
  PROVE  AbsStep(a, b)
<1>1. InOrder(Id(n), Id(n), n)
  BY DEF InOrder, Id
<1>2. DOMAIN a.prog = 1..n /\ Len(a.prog) = n
  BY DEF WellRead
<1>3. \A j \in 1..n : Abs!Same(a.prog)[j] = {Id(n)[j], Id(n)[j]}
  BY <1>2 DEF Abs!Same, Id
<1>4. Abs!Edit(a, b, Abs!Same(a.prog), {at})
  BY <1>1, <1>3, FollowsIsEdit
<1>5. Len(b.prog) = Len(a.prog) /\ {at} \in {{}} \cup {{i} : i \in DOMAIN a.prog}
  BY <1>2
<1> QED
  BY <1>4, <1>5 DEF AbsStep

LEMMA ReplaceSteps ==
  ASSUME TypeOK, CurrentIs, CurrentIs', NEW index \in DOMAIN code, NEW instr \in Instructions,
         Replace(index, instr)
  PROVE  AbsStep(Reading(CurrentLayout, code, eh), Reading(CurrentLayout', code', eh'))
<1>1. code \in Seq(Instructions) /\ eh \in Seq(Clauses) /\ Consistent /\ rewritten' = {}
  BY DEF TypeOK, Replace, Consistent
<1>2. Placed(code)
  BY <1>1 DEF CurrentIs
<1> DEFINE n == Len(code)
           pos == code[index].off
           i == [instr EXCEPT !.off = pos]
           delta == EncodedSize(instr) - EncodedSize(code[index])
           put == ReplaceAt(code, index, i)
           b == IF delta = 0 THEN [code |-> put, eh |-> eh] ELSE Replacement(code, eh, index, i)
<1>3. n \in Nat /\ index \in 1..n /\ code[index] \in Instructions
  BY <1>1
<1>4. pos = NewOffsets(code)[index] /\ pos + EncodedSize(code[index]) = NewOffsets(code)[index + 1]
  BY <1>1, <1>2, OffsetsType DEF Placed
<1>5. i \in Instructions /\ EncodedSize(i) = EncodedSize(instr)
  <2>1. pos \in Nat
    BY <1>3, InstructionForm
  <2>2. i \in Instructions /\ i.op = instr.op
    BY <2>1, Moved
  <2> QED
    BY <2>2, SizeByOpcode
<1>6. EncodedSize(code[index]) \in Nat /\ EncodedSize(instr) \in Nat
  BY <1>3, EncodedSizes
<1>7. code' = b.code /\ eh' = b.eh
  <2>1. /\ code' = IF delta = 0 THEN put
                     ELSE RecomputeOffsets(ShiftTargets(put, pos + EncodedSize(code[index]), delta, index))
        /\ eh' = IF delta = 0 THEN eh ELSE ShiftEhReplace(eh, pos, delta)
    BY DEF Replace
  <2>2. delta # 0 => b = [code |-> RecomputeOffsets(ShiftTargets(put, NewOffsets(code)[index + 1], delta, index)),
                          eh   |-> ShiftEhReplace(eh, pos, delta)]
    BY <1>4, <1>5 DEF Replacement
  <2>3. delta = 0 => b = [code |-> put, eh |-> eh]
    OBVIOUS
  <2> HIDE DEF delta, b, put, pos
  <2> QED
    BY <1>4, <2>1, <2>2, <2>3
<1>8. /\ Len(b.code) = n /\ b.code \in Seq(Instructions) /\ b.eh \in Seq(Clauses)
      /\ Follows(Reading(NewOffsets(code), code, eh), ReadBody(b), Id(n), Id(n), {index})
  <2>1. CASE delta = 0
    <3>1. b.code = put /\ b.eh = eh
      BY <2>1
    <3>2. EncodedSize(i) = EncodedSize(code[index])
      BY <1>5, <1>6, <2>1
    <3> HIDE DEF i, b
    <3>3. Follows(Reading(NewOffsets(code), code, eh), Reading(NewOffsets(put), put, eh), Id(n), Id(n), {index})
      BY <1>1, <1>5, <3>2, SwapFollows
    <3>4. put \in Seq(Instructions) /\ Len(put) = n
      BY <1>1, <1>5, ReplaceType
    <3> HIDE DEF put
    <3> QED
      BY <1>1, <3>1, <3>3, <3>4 DEF ReadBody
  <2>2. CASE delta # 0
    <3>1. b = Replacement(code, eh, index, i)
      BY <2>2
    <3> HIDE DEF b, i
    <3> QED
      BY <1>1, <1>5, <3>1, ReplaceFollows
  <2> QED
    BY <2>1, <2>2
<1> HIDE DEF b
<1>9. WellRead(Reading(NewOffsets(code), code, eh), n)
  <2>1. Increasing(NewOffsets(code)) /\ Len(NewOffsets(code)) = Len(code) + 1
    BY <1>1, LayoutIncreases
  <2> QED
    BY <1>1, <2>1, ReadingForm
<1>10. Len(ReadBody(b).prog) = n
  <2>1. Increasing(NewOffsets(b.code)) /\ Len(NewOffsets(b.code)) = Len(b.code) + 1
    BY <1>8, LayoutIncreases
  <2>2. WellRead(ReadBody(b), Len(b.code))
    BY <1>8, <2>1, ReadingForm DEF ReadBody
  <2> QED
    BY <1>8, <2>2 DEF WellRead
<1>11. AbsStep(Reading(NewOffsets(code), code, eh), ReadBody(b))
  <2> HIDE DEF n
  <2> QED
    BY <1>3, <1>8, <1>9, <1>10, ReplaceIsEdit
<1> QED
  BY <1>1, <1>7, <1>11, PlacedReadings

(* Removal.                                                                  *)
LEMMA RunLayout ==
  ASSUME NEW c \in Seq(Instructions), NEW first \in DOMAIN c, NEW last \in first..Len(c)
  PROVE  NewOffsets(SubSeq(c, first, last))[last - first + 2]
           = NewOffsets(c)[last + 1] - NewOffsets(c)[first]
<1> DEFINE L == NewOffsets(c)
           n == Len(c)
           d == SubSeq(c, first, last)
           w == last - first + 1
           f == [k \in 1..(w + 1) |-> L[first + k - 1] - L[first]]
<1>1. n \in Nat /\ DOMAIN c = 1..n /\ first \in 1..n /\ last \in 1..n /\ first <= last /\ w \in Nat
  OBVIOUS
<1>2. /\ \A k \in 1..(n + 1) : L[k] \in Nat
      /\ \A k \in 1..n : L[k + 1] = L[k] + EncodedSize(c[k])
  <2>1. L \in Seq(Nat) /\ Len(L) = n + 1 /\ \A k \in DOMAIN c : L[k + 1] = L[k] + EncodedSize(c[k])
    BY OffsetsType
  <2> HIDE DEF L, n
  <2>2. \A k \in 1..(n + 1) : L[k] \in Nat
    <3>1. DOMAIN L = 1..(n + 1)
      BY <2>1
    <3> QED
      BY <2>1, <3>1
  <2>3. \A k \in 1..n : L[k + 1] = L[k] + EncodedSize(c[k])
    BY <1>1, <2>1
  <2> QED
    BY <2>2, <2>3
<1>3. d \in Seq(Instructions) /\ Len(d) = w /\ \A k \in 1..w : d[k] = c[first + k - 1]
  BY <1>1
<1> HIDE DEF L, n, d
<1>4. \A k \in 1..(w + 1) : f[k] = L[first + k - 1] - L[first]
  OBVIOUS
<1>5. f \in [1..(w + 1) -> Int]
  <2>1. ASSUME NEW k \in 1..(w + 1) PROVE L[first + k - 1] - L[first] \in Int
    <3>1. first + k - 1 \in 1..(n + 1) /\ first \in 1..(n + 1)
      BY <1>1
    <3>2. L[first + k - 1] \in Nat /\ L[first] \in Nat
      BY <1>2, <3>1
    <3> QED
      BY <3>2
  <2> QED
    BY <2>1
<1> HIDE DEF f
<1>6. f[1] = 0
  <2>1. first \in 1..(n + 1) /\ first + 1 - 1 = first /\ 1 \in 1..(w + 1)
    BY <1>1
  <2>2. L[first] \in Nat
    BY <1>2, <2>1
  <2> QED
    BY <1>4, <2>1, <2>2
<1>7. ASSUME NEW k \in 1..w PROVE f[k + 1] = f[k] + EncodedSize(d[k])
  <2>1. /\ first + k - 1 \in 1..n /\ first \in 1..(n + 1) /\ first + (k + 1) - 1 = first + k - 1 + 1
        /\ k \in 1..(w + 1) /\ k + 1 \in 1..(w + 1) /\ first + k - 1 \in 1..(n + 1)
    BY <1>1
  <2>2. f[k + 1] = L[first + k - 1 + 1] - L[first] /\ f[k] = L[first + k - 1] - L[first]
    BY <1>4, <2>1
  <2>3. L[first + k - 1 + 1] = L[first + k - 1] + EncodedSize(d[k])
    BY <1>2, <1>3, <2>1
  <2>4. L[first + k - 1] \in Nat /\ L[first] \in Nat /\ EncodedSize(d[k]) \in Nat
    <3>1. d[k] \in Instructions
      BY <1>3
    <3> QED
      BY <1>2, <2>1, <3>1, EncodedSizes
  <2> QED
    BY <2>2, <2>3, <2>4
<1> HIDE DEF w
<1>8. LaysOut(f, d)
  <2>1. DOMAIN d = 1..w /\ Len(d) = w
    BY <1>3
  <2> QED
    BY <1>5, <1>6, <1>7, <2>1 DEF LaysOut
<1>9. f = NewOffsets(d)
  BY <1>3, <1>8, LayoutOf
<1>10. w + 1 = last - first + 2 /\ first + (w + 1) - 1 = last + 1 /\ w + 1 \in 1..(w + 1)
  BY <1>1 DEF w
<1> QED
  BY <1>4, <1>9, <1>10 DEF L, d

Kept(c, first, last) == SubSeq(c, 1, first - 1) \o SubSeq(c, last + 1, Len(c))

LEMMA KeptParts ==
  ASSUME NEW c \in Seq(Instructions), NEW first \in DOMAIN c, NEW last \in first..Len(c)
  PROVE  LET p == Len(c) - (last - first + 1)
         IN  /\ p \in Nat /\ Kept(c, first, last) \in Seq(Instructions)
             /\ Len(Kept(c, first, last)) = p
             /\ \A j \in 1..p : Kept(c, first, last)[j] =
                                  IF j < first THEN c[j] ELSE c[j + (last - first + 1)]
<1> DEFINE n == Len(c)
           w == last - first + 1
           p == n - w
           head == SubSeq(c, 1, first - 1)
           tail == SubSeq(c, last + 1, Len(c))
<1>1. n \in Nat /\ first \in 1..n /\ last \in 1..n /\ first <= last /\ w \in Nat /\ p \in Nat
      /\ first - 1 + (n - last) = p /\ n - last \in Nat /\ first - 1 \in Nat
  OBVIOUS
<1>11. ASSUME NEW j \in 1..p, ~(j < first)
       PROVE  j - (first - 1) \in 1..(n - last) /\ last + (j - (first - 1)) = j + w /\ ~(j <= first - 1)
  <2>1. \A N \in Nat : \A a \in 1..N : \A b \in a..N : \A i \in 1..(N - (b - a + 1)) :
          ~(i < a) => i - (a - 1) \in 1..(N - b) /\ b + (i - (a - 1)) = i + (b - a + 1) /\ ~(i <= a - 1)
    OBVIOUS
  <2>2. n \in Nat /\ first \in 1..n /\ last \in first..n
    BY <1>1
  <2> HIDE DEF n
  <2> QED
    BY <1>11, <2>1, <2>2
<1>12. ASSUME NEW j \in 1..p, j < first PROVE j \in 1..(first - 1) /\ j <= first - 1
  <2>1. j \in Int
    OBVIOUS
  <2> HIDE DEF p
  <2> QED
    BY <1>1, <1>12
<1>2. /\ head \in Seq(Instructions) /\ Len(head) = first - 1
      /\ \A j \in 1..(first - 1) : head[j] = c[j]
  OBVIOUS
<1>3. tail \in Seq(Instructions) /\ Len(tail) = n - last
  <2>1. CASE last = n
    <3>1. tail = <<>>
      BY <1>1, <2>1
    <3> HIDE DEF tail
    <3> QED
      BY <1>1, <2>1, <3>1
  <2>2. CASE last # n
    BY <1>1, <2>2, SMTT(20)
  <2> QED
    BY <2>1, <2>2
<1>4. \A j \in 1..(n - last) : tail[j] = c[last + j]
  <2>1. \A j \in 1..(n - last) : tail[j] = c[last + 1 + j - 1] /\ last + 1 + j - 1 = last + j
    BY <1>1
  <2> HIDE DEF tail
  <2> QED
    BY <2>1
<1>5. Kept(c, first, last) = head \o tail
  BY DEF Kept
<1> HIDE DEF head, tail, n, p, w
<1>6. (head \o tail) \in Seq(Instructions) /\ Len(head \o tail) = p
  BY <1>1, <1>2, <1>3, SMTT(20)
<1>7. ASSUME NEW j \in 1..p
      PROVE  (head \o tail)[j] = IF j < first THEN c[j] ELSE c[j + w]
  <2>1. (head \o tail)[j] = IF j <= Len(head) THEN head[j] ELSE tail[j - Len(head)]
    <3>1. \A a, b \in Seq(Instructions) : \A i \in 1..(Len(a) + Len(b)) :
            (a \o b)[i] = IF i <= Len(a) THEN a[i] ELSE b[i - Len(a)]
      OBVIOUS
    <3>2. j \in 1..(Len(head) + Len(tail))
      BY <1>1, <1>2, <1>3
    <3> QED
      BY <1>2, <1>3, <3>1, <3>2
  <2>2. CASE j < first
    BY <1>2, <1>12, <2>1, <2>2
  <2>3. CASE ~(j < first)
    BY <1>2, <1>4, <1>11, <2>1, <2>3
  <2> QED
    BY <2>2, <2>3
<1> QED
  BY <1>1, <1>5, <1>6, <1>7 DEF p, n, w

(* Where the k-th instruction, or the code end, is once first to last are    *)
(* gone: what starts in the run removed starts where it started.             *)
Close(first, last, k) ==
  IF k < first THEN k ELSE IF k <= last THEN first ELSE k - (last - first + 1)

Down(first, last, n) == [j \in 1..n |-> Close(first, last, j)]
Up(first, last, n)   == [j \in 1..n |-> Close(first, last, j + 1) - 1]

LEMMA CloseFacts ==
  ASSUME NEW n \in Nat, NEW first \in 1..n, NEW last \in first..n
  PROVE  /\ \A k \in 1..(n + 1) : Close(first, last, k) \in 1..(n - (last - first + 1) + 1)
         /\ \A i, j \in 1..(n + 1) : i <= j => Close(first, last, i) <= Close(first, last, j)
         /\ \A k \in 1..n : k \notin first..last =>
              /\ Close(first, last, k) \in 1..(n - (last - first + 1))
              /\ Close(first, last, k + 1) = Close(first, last, k) + 1
<1>1. ASSUME NEW k \in 1..(n + 1) PROVE Close(first, last, k) \in 1..(n - (last - first + 1) + 1)
  BY DEF Close
<1>2. ASSUME NEW i \in 1..(n + 1), NEW j \in 1..(n + 1), i <= j
      PROVE  Close(first, last, i) <= Close(first, last, j)
  BY <1>2 DEF Close
<1>3. ASSUME NEW k \in 1..n, k \notin first..last
      PROVE  /\ Close(first, last, k) \in 1..(n - (last - first + 1))
             /\ Close(first, last, k + 1) = Close(first, last, k) + 1
  BY <1>3 DEF Close
<1> QED
  BY <1>1, <1>2, <1>3

(* b is a without the instructions in R: references to those may go anywhere.*)
RunLeft(r, s, lo, hi) ==
  r.first # Lost /\ lo[r.first] <= hi[r.last] => s = [first |-> lo[r.first], last |-> hi[r.last]]

InstructionLeft(i, j, lo, R) ==
  /\ j.op = i.op
  /\ Len(j.to) = Len(i.to) /\ DOMAIN j.to = DOMAIN i.to
  /\ \A m \in DOMAIN i.to : i.to[m] # Lost /\ i.to[m] \notin R => j.to[m] = lo[i.to[m]]

ClauseLeft(x, y, lo, hi, R) ==
  /\ RunLeft(x.try, y.try, lo, hi)
  /\ RunLeft(x.handler, y.handler, lo, hi)
  /\ x.filter # Lost /\ x.filter \notin R => y.filter = lo[x.filter]

LeavesOut(a, b, lo, hi, R) ==
  /\ \A j \in DOMAIN a.prog \ R : InstructionLeft(a.prog[j], b.prog[lo[j]], lo, R)
  /\ Len(b.clauses) = Len(a.clauses) /\ DOMAIN b.clauses = DOMAIN a.clauses
  /\ \A x \in DOMAIN a.clauses : ClauseLeft(a.clauses[x], b.clauses[x], lo, hi, R)

LEMMA RemovedRun ==
  ASSUME NEW n \in Nat, NEW first \in 1..n, NEW last \in first..n,
         NEW moved, \A j \in 1..n : moved[j] = IF j \in first..last THEN {} ELSE {Close(first, last, j)},
         NEW r, RunWithin(r, n), NEW s, RunLeft(r, s, Down(first, last, n), Up(first, last, n))
  PROVE  Abs!RunFollows(r, s, moved)
<1> DEFINE f == r.first
           g == r.last
           left == UNION {moved[j] : j \in f .. g}
           a == Close(first, last, f)
           b == Close(first, last, g + 1) - 1
<1>1. SUFFICES ASSUME f # Lost, left # {}
               PROVE  s = [first |-> Abs!Min(left), last |-> Abs!Max(left)]
  BY DEF Abs!RunFollows
<1>2. f \in 1..n /\ g \in f..n
  BY <1>1 DEF RunWithin
<1>3. a <= b => s = [first |-> a, last |-> b]
  <2>1. g \in 1..n
    BY <1>2
  <2>2. Down(first, last, n)[f] = a /\ Up(first, last, n)[g] = b
    BY <1>2, <2>1 DEF Down, Up
  <2> QED
    BY <1>1, <2>2 DEF RunLeft
<1> HIDE DEF f, g
<1>4. ASSUME NEW y \in left PROVE y \in Int /\ a <= y /\ y <= b
  <2>1. PICK j \in f .. g : y \in moved[j]
    OBVIOUS
  <2>2. j \in 1..n /\ f <= j /\ j <= g
    BY <1>2
  <2>3. j \notin first..last /\ y = Close(first, last, j)
    BY <2>1, <2>2
  <2>4. Close(first, last, j + 1) = Close(first, last, j) + 1 /\ y \in Int
    BY <2>2, <2>3, CloseFacts
  <2>5. /\ f \in 1..(n + 1) /\ j \in 1..(n + 1) /\ j + 1 \in 1..(n + 1) /\ g + 1 \in 1..(n + 1)
        /\ f <= j /\ j + 1 <= g + 1
    BY <1>2, <2>2
  <2>6. a <= Close(first, last, j) /\ Close(first, last, j + 1) <= Close(first, last, g + 1)
    BY <2>5, CloseFacts
  <2>7. a \in Int /\ Close(first, last, g + 1) \in Int
    BY <2>5, CloseFacts
  <2> QED
    BY <2>3, <2>4, <2>6, <2>7
<1>5. a \in left /\ b \in left
  <2>1. PICK j \in f .. g : moved[j] # {}
    BY <1>1
  <2>2. j \in 1..n /\ f <= j /\ j <= g /\ j \notin first..last
    <3>1. j \in 1..n /\ f <= j /\ j <= g
      BY <1>2
    <3> QED
      BY <2>1, <3>1
  <2>3. ASSUME NEW k \in f .. g, k \notin first..last PROVE Close(first, last, k) \in left
    <3>1. k \in 1..n
      BY <1>2
    <3>2. moved[k] = {Close(first, last, k)}
      BY <2>3, <3>1
    <3> QED
      BY <3>2
  <2>4. a \in left
    <3>1. CASE f \notin first..last
      <4>1. f \in f .. g
        BY <1>2
      <4> HIDE DEF left
      <4> QED
        BY <2>3, <3>1, <4>1
    <3>2. CASE f \in first..last
      <4>1. last + 1 \in f .. g /\ last + 1 \notin first..last
        BY <1>2, <2>2, <3>2
      <4>2. Close(first, last, last + 1) = a
        BY <1>2, <3>2 DEF Close
      <4>3. Close(first, last, last + 1) \in left
        <5> HIDE DEF left
        <5> QED
          BY <2>3, <4>1
      <4> QED
        BY <4>2, <4>3
    <3> QED
      BY <3>1, <3>2
  <2>5. b \in left
    <3>1. CASE g \notin first..last
      <4>1. g \in f .. g /\ g \in 1..n
        BY <1>2
      <4>2. b = Close(first, last, g)
        <5>1. Close(first, last, g + 1) = Close(first, last, g) + 1
          BY <3>1, <4>1, CloseFacts
        <5>2. Close(first, last, g) \in Int
          BY <3>1, <4>1, CloseFacts
        <5> QED
          BY <5>1, <5>2
      <4> HIDE DEF left, b
      <4> QED
        BY <2>3, <3>1, <4>1, <4>2
    <3>2. CASE g \in first..last
      <4>1. first - 1 \in f .. g /\ first - 1 \notin first..last
        BY <1>2, <2>2, <3>2
      <4>2. Close(first, last, first - 1) = b
        BY <1>2, <2>2, <3>2 DEF Close
      <4>3. Close(first, last, first - 1) \in left
        <5> HIDE DEF left
        <5> QED
          BY <2>3, <4>1
      <4> QED
        BY <4>2, <4>3
    <3> QED
      BY <3>1, <3>2
  <2> QED
    BY <2>4, <2>5
<1>6. left \subseteq Int /\ a <= b
  BY <1>4, <1>5
<1> HIDE DEF left, a, b
<1>7. Abs!Min(left) = a /\ Abs!Max(left) = b
  BY <1>4, <1>5, <1>6, MinOf, MaxOf
<1> QED
  BY <1>3, <1>6, <1>7

LEMMA RunLength ==
  ASSUME NEW n \in Nat, NEW first \in 1..n, NEW last \in first..n, NEW j \in 1..n, j \notin first..last
  PROVE  j - Cardinality({k \in first..last : k < j}) = Close(first, last, j)
<1>1. CASE j < first
  <2>1. {k \in first..last : k < j} = {}
    BY <1>1
  <2> QED
    BY <1>1, <2>1, FS_EmptySet DEF Close
<1>2. CASE ~(j < first)
  <2>1. {k \in first..last : k < j} = first..last /\ j > last
    BY <1>2
  <2>2. Cardinality(first..last) = last - first + 1
    BY FS_Interval
  <2>3. Cardinality({k \in first..last : k < j}) = last - first + 1
    BY <2>1, <2>2
  <2>4. Close(first, last, j) = j - (last - first + 1)
    BY <1>2, <2>1 DEF Close
  <2> QED
    BY <2>3, <2>4
<1> QED
  BY <1>1, <1>2

LEMMA RemovalIsEdit ==
  ASSUME NEW a, NEW b, NEW n \in Nat, WellRead(a, n), NEW first \in 1..n, NEW last \in first..n,
         Len(b.prog) = n - (last - first + 1),
         LeavesOut(a, b, Down(first, last, n), Up(first, last, n), first..last)
  PROVE  AbsStep(a, b)
<1> DEFINE moved == Abs!Removing(a.prog, first..last)
           lo == Down(first, last, n)
           hi == Up(first, last, n)
<1>1. DOMAIN a.prog = 1..n /\ Len(a.prog) = n
  BY DEF WellRead
<1>2. \A j \in 1..n : moved[j] = IF j \in first..last THEN {} ELSE {Close(first, last, j)}
  <2>1. ASSUME NEW j \in 1..n, j \notin first..last
        PROVE  j - Abs!Cardinality({k \in first..last : k < j}) = Close(first, last, j)
    BY <2>1, RunLength, CountIsCardinality
  <2> QED
    BY <1>1, <2>1 DEF Abs!Removing
<1>3. \A j \in 1..n : lo[j] = Close(first, last, j)
  BY DEF Down
<1>4. \A j \in 1..n : j \in first..last \/ (moved[j] # {} /\ Abs!Min(moved[j]) = lo[j])
  <2>1. SUFFICES ASSUME NEW j \in 1..n, j \notin first..last
                 PROVE  moved[j] # {} /\ Abs!Min(moved[j]) = lo[j]
    OBVIOUS
  <2> DEFINE x == Close(first, last, j)
  <2>2. moved[j] = {x} /\ lo[j] = x
    BY <1>2, <1>3, <2>1
  <2>3. x \in Int
    BY <2>1, CloseFacts
  <2> HIDE DEF x, moved, lo
  <2>4. {x} \subseteq Int /\ x \in {x} /\ \A y \in {x} : x <= y
    BY <2>3
  <2>5. Abs!Min({x}) = x
    BY <2>4, MinOf
  <2> QED
    BY <2>2, <2>5
<1>5. \A j \in 1..n : j \in first..last => moved[j] = {}
  BY <1>2
<1> HIDE DEF moved, lo, hi
<1>6. Abs!InstructionsFollow(a.prog, b.prog, moved, {})
  <2>1. SUFFICES ASSUME NEW j \in 1..n, moved[j] # {}
                 PROVE  /\ b.prog[Abs!Min(moved[j])].op = a.prog[j].op
                        /\ Len(b.prog[Abs!Min(moved[j])].to) = Len(a.prog[j].to)
                        /\ \A m \in DOMAIN b.prog[Abs!Min(moved[j])].to :
                             Abs!Exists(a.prog[j].to[m], moved) =>
                               b.prog[Abs!Min(moved[j])].to[m] = Abs!Min(moved[a.prog[j].to[m]])
    BY <1>1 DEF Abs!InstructionsFollow
  <2>2. j \notin first..last /\ Abs!Min(moved[j]) = lo[j]
    BY <1>4, <1>5, <2>1
  <2> DEFINE was == a.prog[j]
             is  == b.prog[lo[j]]
  <2>3. InstructionLeft(was, is, lo, first..last)
    BY <1>1, <2>2 DEF LeavesOut, lo
  <2>4. was.to \in Seq(0..n)
    BY DEF WellRead
  <2> HIDE DEF was, is
  <2>5. ASSUME NEW m \in DOMAIN is.to, Abs!Exists(was.to[m], moved)
        PROVE  is.to[m] = Abs!Min(moved[was.to[m]])
    <3>1. was.to[m] # Lost /\ moved[was.to[m]] # {}
      BY <2>5 DEF Abs!Exists
    <3>2. m \in DOMAIN was.to
      BY <2>3 DEF InstructionLeft
    <3>3. was.to[m] \in 1..n
      BY <2>4, <3>1, <3>2 DEF Lost
    <3>4. was.to[m] \notin first..last /\ Abs!Min(moved[was.to[m]]) = lo[was.to[m]]
      BY <1>4, <1>5, <3>1, <3>3
    <3> QED
      BY <2>3, <3>1, <3>2, <3>4 DEF InstructionLeft
  <2>6. is.op = was.op /\ Len(is.to) = Len(was.to)
    BY <2>3 DEF InstructionLeft
  <2> QED
    BY <2>2, <2>5, <2>6 DEF was, is
<1>7. Abs!ClausesFollow(a.clauses, b.clauses, moved)
  <2>1. ASSUME NEW x \in DOMAIN a.clauses
        PROVE  /\ Abs!RunFollows(a.clauses[x].try, b.clauses[x].try, moved)
               /\ Abs!RunFollows(a.clauses[x].handler, b.clauses[x].handler, moved)
               /\ Abs!Exists(a.clauses[x].filter, moved) =>
                    b.clauses[x].filter = Abs!Min(moved[a.clauses[x].filter])
    <3> DEFINE was == a.clauses[x]
               is  == b.clauses[x]
    <3>1. ClauseLeft(was, is, lo, hi, first..last)
      BY DEF LeavesOut, lo, hi
    <3>2. RunWithin(was.try, n) /\ RunWithin(was.handler, n) /\ was.filter \in 0..n
      BY DEF WellRead
    <3> HIDE DEF was, is
    <3>3. RunLeft(was.try, is.try, lo, hi) /\ RunLeft(was.handler, is.handler, lo, hi)
      BY <3>1 DEF ClauseLeft
    <3>4. Abs!RunFollows(was.try, is.try, moved) /\ Abs!RunFollows(was.handler, is.handler, moved)
      BY <1>2, <3>2, <3>3, RemovedRun DEF lo, hi
    <3>5. ASSUME Abs!Exists(was.filter, moved) PROVE is.filter = Abs!Min(moved[was.filter])
      <4>1. was.filter # Lost /\ moved[was.filter] # {}
        BY <3>5 DEF Abs!Exists
      <4>2. was.filter \in 1..n
        BY <3>2, <4>1 DEF Lost
      <4>3. was.filter \notin first..last /\ Abs!Min(moved[was.filter]) = lo[was.filter]
        BY <1>4, <1>5, <4>1, <4>2
      <4>4. is.filter = lo[was.filter]
        BY <3>1, <4>1, <4>3 DEF ClauseLeft
      <4> QED
        BY <4>3, <4>4
    <3> QED
      BY <3>4, <3>5 DEF was, is
  <2>2. Len(b.clauses) = Len(a.clauses)
    BY DEF LeavesOut
  <2> QED
    BY <2>1, <2>2 DEF Abs!ClausesFollow
<1>8. Abs!Edit(a, b, moved, {})
  BY <1>6, <1>7 DEF Abs!Edit
<1>9. LET len == Len(b.prog)
      IN  len < Len(a.prog) /\ first \in 1..(len + 1) /\ first + Len(a.prog) - len - 1 = last
  BY <1>1
<1> QED
  BY <1>8, <1>9 DEF AbsStep, moved

(* The layout of what is kept.                                               *)
Closed(L, first, last) ==
  [k \in 1..(Len(L) - (last - first + 1)) |->
     IF k < first THEN L[k] ELSE L[k + (last - first + 1)] - (L[last + 1] - L[first])]

LEMMA KeptLayout ==
  ASSUME NEW c \in Seq(Instructions), NEW first \in DOMAIN c, NEW last \in first..Len(c)
  PROVE  NewOffsets(Kept(c, first, last)) = Closed(NewOffsets(c), first, last)
<1> DEFINE L == NewOffsets(c)
           n == Len(c)
           w == last - first + 1
           p == n - w
           d == Kept(c, first, last)
           M == Closed(L, first, last)
           gone == L[last + 1] - L[first]
<1>1. n \in Nat /\ DOMAIN c = 1..n /\ first \in 1..n /\ last \in 1..n /\ first <= last
  OBVIOUS
<1>2. /\ Len(L) = n + 1 /\ L[1] = 0
      /\ \A k \in 1..(n + 1) : L[k] \in Nat
      /\ \A k \in 1..n : L[k + 1] = L[k] + EncodedSize(c[k])
  <2>1. L \in Seq(Nat) /\ Len(L) = n + 1 /\ L[1] = 0 /\ \A k \in DOMAIN c : L[k + 1] = L[k] + EncodedSize(c[k])
    BY OffsetsType
  <2> HIDE DEF L, n
  <2>2. \A k \in 1..(n + 1) : L[k] \in Nat
    <3>1. DOMAIN L = 1..(n + 1)
      BY <1>1, <2>1
    <3> QED
      BY <2>1, <3>1
  <2>3. \A k \in 1..n : L[k + 1] = L[k] + EncodedSize(c[k])
    BY <1>1, <2>1
  <2> QED
    BY <2>1, <2>2, <2>3
<1>3. /\ p \in Nat /\ d \in Seq(Instructions) /\ Len(d) = p
      /\ \A j \in 1..p : d[j] = IF j < first THEN c[j] ELSE c[j + w]
  BY KeptParts
<1>4. M = [k \in 1..(p + 1) |-> IF k < first THEN L[k] ELSE L[k + w] - gone]
  <2>1. Len(L) - w = p + 1
    BY <1>1, <1>2
  <2> HIDE DEF L, p, w
  <2> QED
    BY <2>1 DEF Closed, w
<1> HIDE DEF L, n, d, M
<1>5. w \in Nat /\ p + w = n /\ first <= p + 1 /\ first + w = last + 1 /\ last + 1 \in 1..(n + 1)
  BY <1>1
<1> HIDE DEF p, w
<1>6. \A k \in 1..(p + 1) : M[k] = IF k < first THEN L[k] ELSE L[k + w] - gone
  BY <1>4
<1>7. gone \in Int /\ L[first] \in Nat /\ L[first + w] - gone = L[first]
  <2>1. L[first] \in Nat /\ L[last + 1] \in Nat
    BY <1>1, <1>2, <1>5
  <2> QED
    BY <1>5, <2>1
<1> HIDE DEF gone
<1>8. \A k \in 1..(p + 1) : L[k] \in Nat /\ L[k + w] \in Nat
  <2>1. \A k \in 1..(p + 1) : k \in 1..(n + 1) /\ k + w \in 1..(n + 1)
    BY <1>3, <1>5
  <2> QED
    BY <1>2, <2>1
<1>9. M \in [1..(p + 1) -> Int]
  <2>1. DOMAIN M = 1..(p + 1) /\ M = [k \in 1..(p + 1) |-> M[k]]
    BY <1>4
  <2>2. \A k \in 1..(p + 1) : M[k] \in Int
    BY <1>6, <1>7, <1>8
  <2> QED
    BY <2>1, <2>2
<1>10. M[1] = 0
  <2>1. 1 \in 1..(p + 1)
    BY <1>3
  <2>2. CASE first = 1
    <3>1. M[1] = L[first + w] - gone
      BY <1>6, <2>1, <2>2
    <3> QED
      BY <1>2, <1>7, <2>2, <3>1
  <2>3. CASE first # 1
    <3>1. 1 < first
      BY <1>1, <2>3
    <3> QED
      BY <1>2, <1>6, <2>1, <3>1
  <2> QED
    BY <2>2, <2>3
<1>11. ASSUME NEW k \in 1..p PROVE M[k + 1] = M[k] + EncodedSize(d[k])
  <2>1. k \in 1..(p + 1) /\ k + 1 \in 1..(p + 1) /\ k \in 1..n /\ k + w \in 1..n /\ k + w + 1 = k + 1 + w
    BY <1>3, <1>5
  <2>2. /\ M[k] = IF k < first THEN L[k] ELSE L[k + w] - gone
        /\ M[k + 1] = IF k + 1 < first THEN L[k + 1] ELSE L[k + 1 + w] - gone
    BY <1>6, <2>1
  <2>3. /\ L[k + 1] = L[k] + EncodedSize(c[k])
        /\ L[k + 1 + w] = L[k + w] + EncodedSize(c[k + w])
    <3>1. L[k + w + 1] = L[k + w] + EncodedSize(c[k + w])
      BY <1>2, <2>1
    <3>2. L[k + 1] = L[k] + EncodedSize(c[k])
      BY <1>2, <2>1
    <3> QED
      BY <2>1, <3>1, <3>2
  <2>4. L[k] \in Nat /\ L[k + w] \in Nat
    BY <1>8, <2>1
  <2>5. EncodedSize(c[k]) \in Nat /\ EncodedSize(c[k + w]) \in Nat
    <3>1. c[k] \in Instructions /\ c[k + w] \in Instructions
      BY <1>1, <2>1
    <3> QED
      BY <3>1, EncodedSizes
  <2>6. CASE k < first
    <3>1. EncodedSize(d[k]) = EncodedSize(c[k])
      BY <1>3, <2>6
    <3>2. M[k + 1] = L[k + 1]
      <4>1. CASE k + 1 < first
        BY <2>2, <4>1
      <4>2. CASE ~(k + 1 < first)
        <5>1. k + 1 = first
          BY <1>1, <2>1, <2>6, <4>2
        <5> QED
          BY <1>7, <2>2, <4>2, <5>1
      <4> QED
        BY <4>1, <4>2
    <3> QED
      BY <2>2, <2>3, <2>6, <3>1, <3>2
  <2>7. CASE ~(k < first)
    <3>1. EncodedSize(d[k]) = EncodedSize(c[k + w])
      BY <1>3, <2>7
    <3>2. ~(k + 1 < first)
      BY <1>1, <2>1, <2>7
    <3>3. M[k] = L[k + w] - gone /\ M[k + 1] = L[k + 1 + w] - gone
      BY <2>2, <2>7, <3>2
    <3> QED
      BY <1>7, <2>3, <2>4, <2>5, <3>1, <3>3
  <2> QED
    BY <2>6, <2>7
<1>12. LaysOut(M, d)
  <2>1. DOMAIN d = 1..p /\ Len(d) + 1 = p + 1
    BY <1>3
  <2> QED
    BY <1>9, <1>10, <1>11, <2>1 DEF LaysOut
<1>13. M = NewOffsets(d)
  BY <1>3, <1>12, LayoutOf
<1> QED
  BY <1>13 DEF M, d, L

(* Where what starts with the k-th instruction, or ends before it, moves to. *)
MovedBack(t, pos, removed) ==
  IF t >= pos + removed THEN t - removed ELSE IF t >= pos THEN pos ELSE t

LEMMA CloseOffsets ==
  ASSUME NEW L, Increasing(L), NEW n \in Nat, Len(L) = n + 1,
         NEW first \in 1..n, NEW last \in first..n, NEW k \in 1..(n + 1)
  PROVE  MovedBack(L[k], L[first], L[last + 1] - L[first])
           = Closed(L, first, last)[Close(first, last, k)]
<1> DEFINE w == last - first + 1
           pos == L[first]
           after == L[last + 1]
           q == Close(first, last, k)
<1>1. k \in DOMAIN L /\ first \in DOMAIN L /\ last + 1 \in DOMAIN L
  BY DEF Increasing
<1>2. /\ L[k] \in Nat /\ pos \in Nat /\ after \in Nat
      /\ k >= first <=> L[k] >= pos
      /\ k >= last + 1 <=> L[k] >= after
  BY <1>1, OrderFacts
<1>3. q \in 1..(Len(L) - w)
  <2>1. q \in 1..(n - w + 1) /\ Len(L) - w = n - w + 1
    BY CloseFacts
  <2> QED
    BY <2>1
<1>4. Closed(L, first, last)[q] = IF q < first THEN L[q] ELSE L[q + w] - (after - pos)
  BY <1>3 DEF Closed
<1>5. pos + (after - pos) = after
  BY <1>2
<1>6. MovedBack(L[k], pos, after - pos)
        = IF L[k] >= after THEN L[k] - (after - pos) ELSE IF L[k] >= pos THEN pos ELSE L[k]
  BY <1>5 DEF MovedBack
<1> HIDE DEF pos, after
<1>7. CASE k < first
  <2>1. q = k /\ ~(k >= first) /\ ~(k >= last + 1)
    BY <1>7 DEF Close
  <2> QED
    BY <1>2, <1>4, <1>6, <1>7, <2>1 DEF pos, after
<1>8. CASE k >= first /\ k <= last
  <2>1. q = first /\ ~(k >= last + 1) /\ ~(first < first) /\ first + w = last + 1
    BY <1>8 DEF Close
  <2>2. L[q + w] - (after - pos) = pos
    BY <1>2, <2>1 DEF after
  <2> QED
    BY <1>2, <1>4, <1>6, <1>8, <2>1, <2>2 DEF pos, after
<1>9. CASE k > last
  <2>1. q = k - w /\ k >= first /\ k >= last + 1 /\ ~(k - w < first) /\ k - w + w = k
    BY <1>9 DEF Close
  <2> HIDE DEF q, w
  <2> QED
    BY <1>2, <1>4, <1>6, <2>1 DEF pos, after, q, w
<1> QED
  BY <1>7, <1>8, <1>9

(* Clauses when a run of instructions goes.                                  *)
RemovedRegion(r, pos, removed) ==
  LET start == MovedBack(r.off, pos, removed)
      len   == MovedBack(r.off + r.len, pos, removed) - start
  IN  [off |-> start, len |-> IF len < 0 THEN 0 ELSE len]

LEMMA RemoveClauses ==
  ASSUME NEW E \in Seq(Clauses), NEW pos \in Int, NEW removed \in Int
  PROVE  /\ Len(ShiftEhRemove(E, pos, removed)) = Len(E)
         /\ \A x \in DOMAIN E :
              /\ ShiftEhRemove(E, pos, removed)[x].try = RemovedRegion(E[x].try, pos, removed)
              /\ ShiftEhRemove(E, pos, removed)[x].handler = RemovedRegion(E[x].handler, pos, removed)
              /\ ShiftEhRemove(E, pos, removed)[x].filter =
                   IF E[x].filter = None THEN None ELSE MovedBack(E[x].filter, pos, removed)
<1> DEFINE a == [x \in DOMAIN E |-> RemovedRegion(E[x].try, pos, removed)]
           b == [x \in DOMAIN E |-> RemovedRegion(E[x].handler, pos, removed)]
           g == [x \in DOMAIN E |-> IF E[x].filter = None THEN None
                                      ELSE MovedBack(E[x].filter, pos, removed)]
           F == ShiftEhRemove(E, pos, removed)
           MoveEnd(e) == IF e >= pos + removed THEN e - removed ELSE IF e > pos THEN pos ELSE e
           Region(r) ==
             LET len == MoveEnd(r.off + r.len) - MovedBack(r.off, pos, removed)
             IN  [off |-> MovedBack(r.off, pos, removed), len |-> IF len < 0 THEN 0 ELSE len]
<1>1. F = [x \in DOMAIN E |->
             [try |-> Region(E[x].try), handler |-> Region(E[x].handler),
              filter |-> IF E[x].filter = None THEN None ELSE MovedBack(E[x].filter, pos, removed)]]
  BY DEF ShiftEhRemove, EachClause, MovedBack
<1>2. ASSUME NEW r \in Regions PROVE Region(r) = RemovedRegion(r, pos, removed)
  <2>1. r.off + r.len \in Int
    BY DEF Regions
  <2>2. MoveEnd(r.off + r.len) = MovedBack(r.off + r.len, pos, removed)
    BY <2>1 DEF MovedBack
  <2> HIDE DEF MoveEnd
  <2> QED
    BY <2>2 DEF RemovedRegion
<1>3. ASSUME NEW x \in DOMAIN E PROVE E[x].try \in Regions /\ E[x].handler \in Regions
  <2>1. E[x] \in Clauses
    OBVIOUS
  <2> QED
    BY <2>1 DEF Clauses
<1>4. \A x \in DOMAIN E : Region(E[x].try) = a[x] /\ Region(E[x].handler) = b[x]
  BY <1>2, <1>3
<1>5. \A x \in DOMAIN E : /\ a[x] = RemovedRegion(E[x].try, pos, removed)
                          /\ b[x] = RemovedRegion(E[x].handler, pos, removed)
                          /\ g[x] = IF E[x].filter = None THEN None
                                      ELSE MovedBack(E[x].filter, pos, removed)
  OBVIOUS
<1> HIDE DEF F, Region
<1>6. F = [x \in DOMAIN E |-> [try |-> a[x], handler |-> b[x], filter |-> g[x]]]
  <2>1. \A x \in DOMAIN E :
          [try |-> Region(E[x].try), handler |-> Region(E[x].handler),
           filter |-> IF E[x].filter = None THEN None ELSE MovedBack(E[x].filter, pos, removed)]
            = [try |-> a[x], handler |-> b[x], filter |-> g[x]]
    <3> HIDE DEF a, b, g
    <3> QED
      BY <1>4, <1>5
  <2> HIDE DEF a, b, g
  <2> QED
    BY <1>1, <2>1
<1> HIDE DEF a, b, g
<1>7. Len(F) = Len(E) /\ \A x \in DOMAIN E : F[x].try = a[x] /\ F[x].handler = b[x] /\ F[x].filter = g[x]
  BY <1>6, EachParts
<1> QED
  BY <1>5, <1>7 DEF F

LEMMA RemoveRegionFollows ==
  ASSUME NEW L, Increasing(L), NEW n \in Nat, Len(L) = n + 1,
         NEW first \in 1..n, NEW last \in first..n,
         NEW M, Increasing(M), M = Closed(L, first, last), NEW r \in Regions
  PROVE  RegionFollowed(r, RemovedRegion(r, L[first], L[last + 1] - L[first]), L, M,
                        Down(first, last, n), Up(first, last, n))
<1> DEFINE s == RemovedRegion(r, L[first], L[last + 1] - L[first])
<1>1. SUFFICES ASSUME NEW i \in 1..n, NEW e \in 1..(n + 1),
                      i < e, r.off = L[i], r.off + r.len = L[e]
               PROVE  /\ s.off = M[Down(first, last, n)[i]]
                      /\ s.off + s.len = M[Up(first, last, n)[e - 1] + 1]
  <2>1. Len(L) - 1 = n
    OBVIOUS
  <2> HIDE DEF s
  <2> QED
    BY <2>1 DEF RegionFollowed, s
<1> DEFINE a == Close(first, last, i)
           b == Close(first, last, e)
<1>2. Down(first, last, n)[i] = a
  BY DEF Down
<1>3. Up(first, last, n)[e - 1] + 1 = b
  <2>1. e - 1 \in 1..n /\ e - 1 + 1 = e
    BY <1>1
  <2>2. Up(first, last, n)[e - 1] = b - 1
    BY <2>1 DEF Up
  <2>3. b \in Int
    BY CloseFacts
  <2> HIDE DEF b
  <2> QED
    BY <2>2, <2>3
<1>4. /\ MovedBack(r.off, L[first], L[last + 1] - L[first]) = M[a]
      /\ MovedBack(r.off + r.len, L[first], L[last + 1] - L[first]) = M[b]
  <2>1. i \in 1..(n + 1)
    OBVIOUS
  <2>2. /\ MovedBack(L[i], L[first], L[last + 1] - L[first]) = Closed(L, first, last)[a]
        /\ MovedBack(L[e], L[first], L[last + 1] - L[first]) = Closed(L, first, last)[b]
    BY <2>1, CloseOffsets
  <2> QED
    BY <1>1, <2>2
<1>5. s.off = M[a] /\ s.len = IF M[b] - M[a] < 0 THEN 0 ELSE M[b] - M[a]
  BY <1>4 DEF RemovedRegion
<1>6. a \in DOMAIN M /\ b \in DOMAIN M /\ a <= b
  <2>1. a \in 1..(n - (last - first + 1) + 1) /\ b \in 1..(n - (last - first + 1) + 1) /\ a <= b
    <3>1. i \in 1..(n + 1) /\ i <= e
      BY <1>1
    <3> QED
      BY <3>1, CloseFacts
  <2>2. DOMAIN M = 1..(n + 1 - (last - first + 1)) /\ n - (last - first + 1) + 1 = n + 1 - (last - first + 1)
    BY DEF Closed
  <2> QED
    BY <2>1, <2>2
<1> HIDE DEF a, b, s
<1>7. M[a] \in Nat /\ M[b] \in Nat /\ (b >= a <=> M[b] >= M[a])
  BY <1>6, OrderFacts
<1>9. M[b] >= M[a]
  <2>1. a \in Int /\ b \in Int
    BY <1>6 DEF Increasing
  <2> QED
    BY <1>6, <1>7, <2>1
<1>8. s.off + s.len = M[b]
  BY <1>5, <1>7, <1>9
<1> QED
  BY <1>2, <1>3, <1>5, <1>8

(* What the editing of a body must do to be a removal in its reading.        *)
CodeLeft(i, j, L, M, lo, R) ==
  /\ j.op = i.op
  /\ Len(j.to) = Len(i.to)
  /\ \A m \in DOMAIN i.to, k \in 1..(Len(L) - 1) :
       k \notin R /\ i.to[m] = L[k] => j.to[m] = M[lo[k]]

LEMMA RunIsLeft ==
  ASSUME NEW L, Increasing(L), NEW n \in Nat, Len(L) = n + 1,
         NEW M, Increasing(M), NEW p \in Nat, Len(M) = p + 1,
         NEW lo, NEW hi, \A j \in 1..n : lo[j] \in 1..(p + 1) /\ hi[j] \in 0..p,
         NEW r \in Regions, NEW s \in Regions, RegionFollowed(r, s, L, M, lo, hi)
  PROVE  RunLeft(ReadRun(L, r), ReadRun(M, s), lo, hi)
<1>1. SUFFICES ASSUME ReadRun(L, r).first # Lost, lo[ReadRun(L, r).first] <= hi[ReadRun(L, r).last]
               PROVE  ReadRun(M, s) = [first |-> lo[ReadRun(L, r).first],
                                       last  |-> hi[ReadRun(L, r).last]]
  BY DEF RunLeft
<1>2. PICK i \in 1..n, e \in 1..(n + 1) :
        /\ i < e /\ r.off = L[i] /\ r.off + r.len = L[e]
        /\ ReadRun(L, r) = [first |-> i, last |-> e - 1]
  BY <1>1, RunFacts
<1>3. s.off = M[lo[i]] /\ s.off + s.len = M[hi[e - 1] + 1]
  BY <1>2 DEF RegionFollowed
<1>4. ReadRun(L, r).first = i /\ ReadRun(L, r).last = e - 1
  BY <1>2
<1> DEFINE a == lo[i]
           b == hi[e - 1]
<1>5. a \in 1..(p + 1) /\ b \in 0..p /\ a <= b
  <2>1. e - 1 \in 1..n
    BY <1>2
  <2> QED
    BY <1>1, <1>4, <2>1
<1> HIDE DEF a, b
<1>6. ReadRun(M, s) = [first |-> a, last |-> b]
  <2> DEFINE g == b + 1
  <2>1. a \in DOMAIN M /\ g \in DOMAIN M /\ a < g /\ g - 1 = b /\ Len(M) # 0
    BY <1>5 DEF Increasing
  <2>2. s.off = M[a] /\ s.off + s.len = M[g]
    BY <1>3 DEF a, b
  <2> HIDE DEF g
  <2>3. ReadRun(M, s) = [first |-> a, last |-> g - 1]
    BY <2>1, <2>2, ReadRunIs
  <2> QED
    BY <2>1, <2>3
<1> QED
  BY <1>4, <1>6 DEF a, b

LEMMA ClauseIsLeft ==
  ASSUME NEW L, Increasing(L), NEW n \in Nat, Len(L) = n + 1,
         NEW M, Increasing(M), NEW p \in Nat, Len(M) = p + 1,
         NEW lo, NEW hi, \A j \in 1..n : lo[j] \in 1..(p + 1) /\ hi[j] \in 0..p,
         NEW R, \A j \in 1..n : j \notin R => lo[j] \in 1..p,
         NEW x \in Clauses, NEW y \in Clauses, HandlerFollowed(x, y, L, M, lo, hi)
  PROVE  ClauseLeft(ReadClause(L, x), ReadClause(M, y), lo, hi, R)
<1>1. /\ x.try \in Regions /\ x.handler \in Regions
      /\ y.try \in Regions /\ y.handler \in Regions
  BY DEF Clauses
<1>2. /\ RunLeft(ReadRun(L, x.try), ReadRun(M, y.try), lo, hi)
      /\ RunLeft(ReadRun(L, x.handler), ReadRun(M, y.handler), lo, hi)
  <2>1. /\ RegionFollowed(x.try, y.try, L, M, lo, hi)
        /\ RegionFollowed(x.handler, y.handler, L, M, lo, hi)
    BY DEF HandlerFollowed
  <2> QED
    BY <1>1, <2>1, RunIsLeft
<1>3. ASSUME ReadClause(L, x).filter # Lost, ReadClause(L, x).filter \notin R
      PROVE  ReadClause(M, y).filter = lo[ReadClause(L, x).filter]
  <2>1. x.filter # None /\ ReadClause(L, x).filter = Position(L, x.filter)
    BY <1>3 DEF ReadClause
  <2> DEFINE k == Position(L, x.filter)
  <2>a. k # Lost /\ k \notin R
    BY <1>3, <2>1
  <2>2. k \in 1..n /\ x.filter = L[k]
    <3>1. \A t : Position(L, t) # Lost => Position(L, t) \in 1..n /\ t = L[Position(L, t)]
      BY PositionFacts
    <3> QED
      BY <2>a, <3>1, Zenon
  <2> HIDE DEF k
  <2>3. y.filter = M[lo[k]]
    BY <2>2 DEF HandlerFollowed
  <2>4. y.filter # None
    <3>1. lo[k] \in DOMAIN M
      <4>1. lo[k] \in 1..p
        BY <2>a, <2>2
      <4> QED
        BY <4>1 DEF Increasing
    <3>2. M[lo[k]] \in Nat
      <4>1. \A q \in DOMAIN M : M[q] \in Nat
        BY DEF Increasing
      <4> QED
        BY <3>1, <4>1
    <3> QED
      BY <2>3, <3>2, NoneAssumption
  <2>5. ReadClause(M, y).filter = Position(M, y.filter)
    BY <2>4 DEF ReadClause
  <2>6. Position(M, M[lo[k]]) = lo[k]
    <3>1. lo[k] \in 1..p
      BY <2>a, <2>2
    <3> QED
      BY <3>1, PositionFacts
  <2> QED
    BY <2>1, <2>3, <2>5, <2>6 DEF k
<1>4. /\ ReadClause(L, x).try = ReadRun(L, x.try) /\ ReadClause(M, y).try = ReadRun(M, y.try)
      /\ ReadClause(L, x).handler = ReadRun(L, x.handler)
      /\ ReadClause(M, y).handler = ReadRun(M, y.handler)
  BY DEF ReadClause
<1> QED
  BY <1>2, <1>3, <1>4 DEF ClauseLeft

LEMMA InstructionIsLeft ==
  ASSUME NEW L, Increasing(L), NEW n \in Nat, Len(L) = n + 1,
         NEW M, Increasing(M), NEW p \in Nat, Len(M) = p + 1,
         NEW lo, NEW R, \A j \in 1..n : j \notin R => lo[j] \in 1..p,
         NEW i \in Instructions, NEW j \in Instructions, CodeLeft(i, j, L, M, lo, R)
  PROVE  InstructionLeft(ReadInstruction(L, i), ReadInstruction(M, j), lo, R)
<1> DEFINE ri == ReadInstruction(L, i)
           rj == ReadInstruction(M, j)
<1>1. /\ ri.op = LongForm(i.op) /\ Len(ri.to) = Len(i.to) /\ DOMAIN ri.to = DOMAIN i.to
      /\ \A m \in DOMAIN i.to : ri.to[m] = Position(L, i.to[m])
  BY ReadInstructionFacts
<1>2. /\ rj.op = LongForm(j.op) /\ Len(rj.to) = Len(j.to) /\ DOMAIN rj.to = DOMAIN j.to
      /\ \A m \in DOMAIN j.to : rj.to[m] = Position(M, j.to[m])
  BY ReadInstructionFacts
<1>3. DOMAIN i.to = DOMAIN j.to
  <2>1. i.to \in Seq(Int) /\ j.to \in Seq(Int)
    BY InstructionForm
  <2>2. Len(j.to) = Len(i.to)
    BY DEF CodeLeft
  <2> QED
    BY <2>1, <2>2
<1>4. ASSUME NEW m \in DOMAIN i.to, Position(L, i.to[m]) # Lost, Position(L, i.to[m]) \notin R
      PROVE  Position(M, j.to[m]) = lo[Position(L, i.to[m])]
  <2> DEFINE k == Position(L, i.to[m])
  <2>1. k \in 1..n /\ i.to[m] = L[k] /\ k \notin R
    <3>1. \A t : Position(L, t) # Lost => Position(L, t) \in 1..n /\ t = L[Position(L, t)]
      BY PositionFacts
    <3> QED
      BY <1>4, <3>1, Zenon
  <2> HIDE DEF k
  <2>2. j.to[m] = M[lo[k]]
    BY <2>1, SMTT(20) DEF CodeLeft
  <2>3. Position(M, M[lo[k]]) = lo[k]
    <3>1. lo[k] \in 1..p
      BY <2>1
    <3> QED
      BY <3>1, PositionFacts
  <2> QED
    BY <2>2, <2>3 DEF k
<1> HIDE DEF ri, rj
<1>5. ri.op = rj.op /\ Len(ri.to) = Len(rj.to) /\ DOMAIN ri.to = DOMAIN rj.to
  BY <1>1, <1>2, <1>3 DEF CodeLeft
<1>6. \A m \in DOMAIN ri.to : ri.to[m] # Lost /\ ri.to[m] \notin R => rj.to[m] = lo[ri.to[m]]
  BY <1>1, <1>2, <1>3, <1>4
<1>7. InstructionLeft(ri, rj, lo, R)
  BY <1>5, <1>6 DEF InstructionLeft
<1> QED
  BY <1>7 DEF ri, rj

LEMMA RemovalLeaves ==
  ASSUME NEW L, Increasing(L), NEW c \in Seq(Instructions), Len(L) = Len(c) + 1,
         NEW M, Increasing(M), NEW d \in Seq(Instructions), Len(M) = Len(d) + 1,
         NEW E \in Seq(Clauses), NEW F \in Seq(Clauses), Len(F) = Len(E),
         NEW lo, NEW hi, NEW R,
         \A j \in 1..Len(c) : lo[j] \in 1..(Len(d) + 1) /\ hi[j] \in 0..Len(d),
         \A j \in 1..Len(c) : j \notin R => lo[j] \in 1..Len(d),
         \A j \in 1..Len(c) : j \notin R => CodeLeft(c[j], d[lo[j]], L, M, lo, R),
         \A x \in DOMAIN E : HandlerFollowed(E[x], F[x], L, M, lo, hi)
  PROVE  LeavesOut(Reading(L, c, E), Reading(M, d, F), lo, hi, R)
<1> DEFINE a == Reading(L, c, E)
           b == Reading(M, d, F)
           n == Len(c)
           p == Len(d)
<1>1. n \in Nat /\ p \in Nat /\ DOMAIN c = 1..n /\ DOMAIN d = 1..p
  OBVIOUS
<1>2. /\ DOMAIN a.prog = 1..n
      /\ \A j \in DOMAIN c : a.prog[j] = ReadInstruction(L, c[j])
      /\ Len(a.clauses) = Len(E) /\ DOMAIN a.clauses = DOMAIN E
      /\ \A x \in DOMAIN E : a.clauses[x] = ReadClause(L, E[x])
  BY ReadingForm DEF WellRead
<1>3. /\ \A j \in DOMAIN d : b.prog[j] = ReadInstruction(M, d[j])
      /\ Len(b.clauses) = Len(F) /\ DOMAIN b.clauses = DOMAIN F
      /\ \A x \in DOMAIN F : b.clauses[x] = ReadClause(M, F[x])
  BY ReadingForm
<1> HIDE DEF a, b
<1>4. DOMAIN F = DOMAIN E
  OBVIOUS
<1>5. ASSUME NEW j \in DOMAIN a.prog \ R
      PROVE  InstructionLeft(a.prog[j], b.prog[lo[j]], lo, R)
  <2>1. j \in 1..n /\ j \notin R /\ lo[j] \in 1..p
    BY <1>2
  <2>2. c[j] \in Instructions /\ d[lo[j]] \in Instructions
    BY <1>1, <2>1
  <2>3. CodeLeft(c[j], d[lo[j]], L, M, lo, R)
    BY <2>1
  <2>4. InstructionLeft(ReadInstruction(L, c[j]), ReadInstruction(M, d[lo[j]]), lo, R)
    BY <1>1, <2>2, <2>3, InstructionIsLeft
  <2> QED
    BY <1>1, <1>2, <1>3, <2>1, <2>4
<1>6. ASSUME NEW x \in DOMAIN a.clauses
      PROVE  ClauseLeft(a.clauses[x], b.clauses[x], lo, hi, R)
  <2>1. x \in DOMAIN E /\ x \in DOMAIN F
    BY <1>2, <1>4
  <2>2. E[x] \in Clauses /\ F[x] \in Clauses
    BY <2>1
  <2>3. ClauseLeft(ReadClause(L, E[x]), ReadClause(M, F[x]), lo, hi, R)
    BY <1>1, <2>1, <2>2, ClauseIsLeft
  <2> QED
    BY <1>2, <1>3, <2>1, <2>3
<1>7. LeavesOut(a, b, lo, hi, R)
  BY <1>2, <1>3, <1>4, <1>5, <1>6 DEF LeavesOut
<1> QED
  BY <1>7 DEF a, b

Removal(c, E, first, last) ==
  LET L    == NewOffsets(c)
      gone == L[last + 1] - L[first]
  IN  [code |-> RecomputeOffsets(ShiftTargets(Kept(c, first, last), L[last + 1], -gone, 0)),
       eh   |-> ShiftEhRemove(E, L[first], gone)]

LEMMA RemovalFollows ==
  ASSUME NEW c \in Seq(Instructions), NEW E \in Seq(Clauses), NEW first \in DOMAIN c,
         NEW last \in first..Len(c)
  PROVE  LET b == Removal(c, E, first, last)
             n == Len(c)
         IN  /\ Len(b.code) = n - (last - first + 1)
             /\ b.code \in Seq(Instructions) /\ b.eh \in Seq(Clauses)
             /\ LeavesOut(Reading(NewOffsets(c), c, E), ReadBody(b),
                          Down(first, last, n), Up(first, last, n), first..last)
<1> DEFINE n == Len(c)
           w == last - first + 1
           p == n - w
           R == first..last
           L == NewOffsets(c)
           pos == L[first]
           after == L[last + 1]
           gone == after - pos
           kept == Kept(c, first, last)
           d == RecomputeOffsets(ShiftTargets(kept, after, -gone, 0))
           F == ShiftEhRemove(E, pos, gone)
           M == Closed(L, first, last)
           lo == Down(first, last, n)
           hi == Up(first, last, n)
<1>1. n \in Nat /\ DOMAIN c = 1..n /\ first \in 1..n /\ last \in first..n /\ Len(c) = n /\ w \in Nat
  OBVIOUS
<1>2. Increasing(L) /\ Len(L) = n + 1
  BY LayoutIncreases
<1>3. /\ p \in Nat /\ kept \in Seq(Instructions) /\ Len(kept) = p
      /\ \A j \in 1..p : kept[j] = IF j < first THEN c[j] ELSE c[j + w]
  BY KeptParts
<1>4. NewOffsets(kept) = M
  BY KeptLayout
<1> HIDE DEF kept, L, M
<1>5. pos \in Nat /\ after \in Nat /\ gone \in Nat /\ pos + gone = after
  <2>1. first \in DOMAIN L /\ last + 1 \in DOMAIN L /\ last + 1 >= first
    BY <1>1, <1>2 DEF Increasing
  <2>2. pos \in Nat /\ after \in Nat /\ after >= pos
    BY <1>2, <2>1, OrderFacts
  <2> QED
    BY <2>2
<1>6. /\ d \in Seq(Instructions) /\ Len(d) = p /\ NewOffsets(d) = M
      /\ \A k \in 1..p :
           /\ d[k].op = kept[k].op
           /\ d[k].to = [x \in DOMAIN kept[k].to |-> ShiftedTo(kept[k].to[x], after, -gone)]
  <2> DEFINE delta == -gone
  <2>1. after \in Int /\ delta \in Int
    BY <1>5
  <2>2. DOMAIN kept = 1..p /\ \A k \in 1..p : k # 0
    BY <1>3
  <2>4. d = RecomputeOffsets(ShiftTargets(kept, after, delta, 0))
    OBVIOUS
  <2> HIDE DEF after, gone, p, delta, d
  <2>3. /\ d \in Seq(Instructions) /\ Len(d) = Len(kept) /\ NewOffsets(d) = NewOffsets(kept)
        /\ \A k \in DOMAIN kept :
             /\ d[k].op = kept[k].op
             /\ k # 0 => d[k].to = [x \in DOMAIN kept[k].to |-> ShiftedTo(kept[k].to[x], after, delta)]
    BY <1>3, <2>1, <2>4, ShiftedBody
  <2> QED
    BY <1>3, <1>4, <2>2, <2>3 DEF delta
<1>7. /\ F \in Seq(Clauses) /\ Len(F) = Len(E)
      /\ \A x \in DOMAIN E :
           /\ F[x].try = RemovedRegion(E[x].try, pos, gone)
           /\ F[x].handler = RemovedRegion(E[x].handler, pos, gone)
           /\ F[x].filter = IF E[x].filter = None THEN None ELSE MovedBack(E[x].filter, pos, gone)
  <2>1. pos \in Int /\ gone \in Int
    BY <1>5
  <2> HIDE DEF pos, gone
  <2> QED
    BY <2>1, ShiftEhRemoveType, RemoveClauses
<1> HIDE DEF d, F, n
<1>8. Increasing(M) /\ Len(M) = p + 1
  <2> HIDE DEF p
  <2> QED
    BY <1>6, LayoutIncreases
<1>9. /\ \A j \in 1..n : lo[j] = Close(first, last, j) /\ lo[j] \in 1..(p + 1)
      /\ \A j \in 1..n : hi[j] \in 0..p
      /\ \A j \in 1..n : j \notin R => lo[j] \in 1..p
  <2>1. ASSUME NEW j \in 1..n
        PROVE  /\ lo[j] = Close(first, last, j) /\ lo[j] \in 1..(p + 1)
               /\ hi[j] \in 0..p
               /\ j \notin R => lo[j] \in 1..p
    <3>1. lo[j] = Close(first, last, j) /\ hi[j] = Close(first, last, j + 1) - 1
      BY DEF Down, Up
    <3>2. j \in 1..(n + 1) /\ j + 1 \in 1..(n + 1)
      BY <1>1
    <3>3. Close(first, last, j) \in 1..(p + 1) /\ Close(first, last, j + 1) \in 1..(p + 1)
      BY <1>1, <3>2, CloseFacts
    <3>4. j \notin R => Close(first, last, j) \in 1..p
      BY <1>1, CloseFacts
    <3> HIDE DEF p
    <3> QED
      BY <1>3, <3>1, <3>3, <3>4
  <2> QED
    BY <2>1
<1>10. Len(L) - 1 = n /\ Len(L) = n + 1
  BY <1>1, <1>2
<1>11. ASSUME NEW k \in 1..n PROVE MovedBack(L[k], pos, gone) = M[lo[k]]
  <2>1. k \in 1..(n + 1)
    BY <1>1
  <2>2. MovedBack(L[k], pos, gone) = M[Close(first, last, k)]
    BY <1>1, <1>2, <2>1, CloseOffsets DEF M
  <2> QED
    BY <1>9, <2>2
<1>12. ASSUME NEW k \in 1..n, k \notin R PROVE ShiftedTo(L[k], after, -gone) = M[lo[k]]
  <2>1. k \in DOMAIN L /\ first \in DOMAIN L /\ last + 1 \in DOMAIN L
    BY <1>1, <1>2 DEF Increasing
  <2>2. L[k] \in Nat /\ (k >= first <=> L[k] >= pos) /\ (k >= last + 1 <=> L[k] >= after)
    BY <1>2, <2>1, OrderFacts
  <2>3. k >= first <=> k >= last + 1
    BY <1>1, <1>12
  <2> HIDE DEF pos, after, gone
  <2>4. ShiftedTo(L[k], after, -gone) = MovedBack(L[k], pos, gone)
    BY <1>5, <2>2, <2>3 DEF ShiftedTo, MovedBack
  <2> QED
    BY <1>11, <2>4
<1>13. ASSUME NEW r \in Regions PROVE RegionFollowed(r, RemovedRegion(r, pos, gone), L, M, lo, hi)
  BY <1>1, <1>2, <1>8, RemoveRegionFollows DEF M
<1> HIDE DEF lo, hi, pos, after, gone
<1>14. ASSUME NEW j \in 1..n, j \notin R PROVE kept[lo[j]] = c[j] /\ lo[j] \in 1..p
  <2>1. lo[j] \in 1..p /\ lo[j] = Close(first, last, j)
    BY <1>9, <1>14
  <2>2. CASE j < first
    <3>1. Close(first, last, j) = j
      BY <2>2 DEF Close
    <3> QED
      BY <1>3, <2>1, <2>2, <3>1
  <2>3. CASE ~(j < first)
    <3>1. Close(first, last, j) = j - w /\ j - w + w = j /\ ~(j - w < first)
      BY <1>1, <1>14, <2>3 DEF Close
    <3> HIDE DEF w, p
    <3> QED
      BY <1>3, <2>1, <3>1
  <2> QED
    BY <2>2, <2>3
<1> HIDE DEF p, w, R
<1>15. ASSUME NEW j \in 1..n, j \notin R PROVE CodeLeft(c[j], d[lo[j]], L, M, lo, R)
  <2> DEFINE q == lo[j]
  <2>1. kept[q] = c[j] /\ q \in 1..p
    BY <1>14, <1>15
  <2> HIDE DEF q
  <2>2. d[q].op = c[j].op /\ d[q].to = [x \in DOMAIN c[j].to |-> ShiftedTo(c[j].to[x], after, -gone)]
    BY <1>6, <2>1
  <2>3. c[j].to \in Seq(Int) /\ d[q].to \in Seq(Int)
    <3>1. c[j] \in Instructions /\ d[q] \in Instructions
      BY <1>1, <1>3, <1>6, <2>1
    <3> QED
      BY <3>1, InstructionForm, SMTT(20)
  <2>4. Len(d[q].to) = Len(c[j].to)
    BY <2>2, <2>3
  <2>5. ASSUME NEW x \in DOMAIN c[j].to, NEW k \in 1..(Len(L) - 1), k \notin R, c[j].to[x] = L[k]
        PROVE  d[q].to[x] = M[lo[k]]
    BY <1>10, <1>12, <2>2, <2>5
  <2> QED
    BY <2>2, <2>4, <2>5 DEF CodeLeft, q
<1>16. ASSUME NEW x \in DOMAIN E PROVE HandlerFollowed(E[x], F[x], L, M, lo, hi)
  <2>1. E[x].try \in Regions /\ E[x].handler \in Regions
    <3>1. E[x] \in Clauses
      OBVIOUS
    <3> QED
      BY <3>1 DEF Clauses
  <2>2. RegionFollowed(E[x].try, F[x].try, L, M, lo, hi) /\ RegionFollowed(E[x].handler, F[x].handler, L, M, lo, hi)
    BY <1>7, <1>13, <2>1
  <2>3. ASSUME NEW k \in 1..(Len(L) - 1), E[x].filter = L[k] PROVE F[x].filter = M[lo[k]]
    <3>1. k \in 1..n /\ L[k] \in Nat
      <4>1. k \in 1..n /\ k \in DOMAIN L
        BY <1>1, <1>2, <1>10 DEF Increasing
      <4> QED
        BY <1>2, <4>1, OrderFacts
    <3>2. E[x].filter # None
      BY <2>3, <3>1, NoneAssumption
    <3> QED
      BY <1>7, <1>11, <2>3, <3>1, <3>2
  <2> QED
    BY <2>2, <2>3 DEF HandlerFollowed
<1>17. LeavesOut(Reading(L, c, E), Reading(M, d, F), lo, hi, R)
  <2>1. /\ Len(L) = Len(c) + 1 /\ Len(M) = Len(d) + 1
        /\ \A j \in 1..Len(c) : lo[j] \in 1..(Len(d) + 1) /\ hi[j] \in 0..Len(d)
        /\ \A j \in 1..Len(c) : j \notin R => lo[j] \in 1..Len(d)
        /\ \A j \in 1..Len(c) : j \notin R => CodeLeft(c[j], d[lo[j]], L, M, lo, R)
    BY <1>1, <1>2, <1>6, <1>8, <1>9, <1>15
  <2> QED
    BY <1>2, <1>6, <1>7, <1>8, <1>16, <2>1, RemovalLeaves
<1>18. Removal(c, E, first, last) = [code |-> d, eh |-> F]
  BY DEF Removal, L, pos, after, gone, kept, d, F
<1> QED
  BY <1>1, <1>6, <1>7, <1>17, <1>18 DEF ReadBody, lo, hi, R, L, n, p, w

LEMMA RemoveSteps ==
  ASSUME TypeOK, CurrentIs, CurrentIs', NEW first \in DOMAIN code, NEW end \in Int,
         RemoveRange(first, end)
  PROVE  AbsStep(Reading(CurrentLayout, code, eh), Reading(CurrentLayout', code', eh'))
<1>1. code \in Seq(Instructions) /\ eh \in Seq(Clauses) /\ Consistent /\ rewritten' = {}
  BY DEF TypeOK, RemoveRange, Consistent
<1>2. Placed(code)
  BY <1>1 DEF CurrentIs
<1> DEFINE n == Len(code)
           L == NewOffsets(code)
           last == IF end - 1 > n THEN n ELSE end - 1
           removed == NewOffsets(SubSeq(code, first, last))[last - first + 2]
           b == Removal(code, eh, first, last)
<1>3. n \in Nat /\ first \in 1..n /\ last \in first..n
  <2>1. first < end
    BY DEF RemoveRange
  <2> QED
    BY <1>1, <2>1
<1>4. code[first].off = L[first] /\ removed = L[last + 1] - L[first]
  <2>1. code[first].off = L[first]
    BY <1>2 DEF Placed
  <2> HIDE DEF last
  <2>2. removed = L[last + 1] - L[first]
    BY <1>1, <1>3, RunLayout
  <2> QED
    BY <2>1, <2>2
<1>5. L[first] + removed = L[last + 1]
  <2>1. Increasing(L) /\ Len(L) = n + 1
    BY <1>1, LayoutIncreases
  <2> HIDE DEF L, removed, last, n
  <2>2. first \in DOMAIN L /\ last + 1 \in DOMAIN L
    BY <1>3, <2>1 DEF Increasing
  <2>3. L[first] \in Nat /\ L[last + 1] \in Nat
    BY <2>1, <2>2, OrderFacts
  <2> QED
    BY <1>4, <2>3
<1>6. code' = b.code /\ eh' = b.eh
  <2>1. /\ code' = RecomputeOffsets(ShiftTargets(Kept(code, first, last), code[first].off + removed, -removed, 0))
        /\ eh' = ShiftEhRemove(eh, code[first].off, removed)
    BY DEF RemoveRange, Kept
  <2> HIDE DEF removed, last, L
  <2>2. b = [code |-> RecomputeOffsets(ShiftTargets(Kept(code, first, last), L[last + 1], -(L[last + 1] - L[first]), 0)),
             eh   |-> ShiftEhRemove(eh, L[first], L[last + 1] - L[first])]
    BY DEF Removal, L
  <2> HIDE DEF b
  <2> QED
    BY <1>4, <1>5, <2>1, <2>2
<1> HIDE DEF last, b
<1>7. /\ Len(b.code) = n - (last - first + 1) /\ b.code \in Seq(Instructions) /\ b.eh \in Seq(Clauses)
      /\ LeavesOut(Reading(L, code, eh), ReadBody(b), Down(first, last, n), Up(first, last, n), first..last)
  BY <1>1, <1>3, RemovalFollows DEF b
<1>8. WellRead(Reading(L, code, eh), n)
  <2>1. Increasing(L) /\ Len(L) = Len(code) + 1
    BY <1>1, LayoutIncreases
  <2> QED
    BY <1>1, <2>1, ReadingForm
<1>9. Len(ReadBody(b).prog) = n - (last - first + 1)
  <2>1. Increasing(NewOffsets(b.code)) /\ Len(NewOffsets(b.code)) = Len(b.code) + 1
    BY <1>7, LayoutIncreases
  <2>2. WellRead(ReadBody(b), Len(b.code))
    BY <1>7, <2>1, ReadingForm DEF ReadBody
  <2> QED
    BY <1>7, <2>2 DEF WellRead
<1>10. AbsStep(Reading(L, code, eh), ReadBody(b))
  <2> HIDE DEF L, n
  <2> QED
    BY <1>3, <1>7, <1>8, <1>9, RemovalIsEdit
<1> QED
  BY <1>1, <1>6, <1>10, PlacedReadings

(* Narrowing: nine bytes become five and one.                                *)
LEMMA TargetsShifted ==
  ASSUME NEW c \in Seq(Instructions), NEW from \in Int, NEW delta \in Int, NEW skip
  PROVE  LET d == ShiftTargets(c, from, delta, skip)
         IN  /\ d \in Seq(Instructions) /\ Len(d) = Len(c)
             /\ NewOffsets(d) = NewOffsets(c)
             /\ \A k \in DOMAIN c :
                  /\ d[k].op = c[k].op
                  /\ k # skip => d[k].to = [m \in DOMAIN c[k].to |-> ShiftedTo(c[k].to[m], from, delta)]
<1> DEFINE d == ShiftTargets(c, from, delta, skip)
<1>1. d \in Seq(Instructions) /\ Len(d) = Len(c) /\ DOMAIN d = DOMAIN c
  BY ShiftTargetsType
<1>2. \A k \in DOMAIN c : d[k].op = c[k].op
  BY ShiftTargetsOpcodes
<1>3. ASSUME NEW k \in DOMAIN c
      PROVE  k # skip => d[k].to = [m \in DOMAIN c[k].to |-> ShiftedTo(c[k].to[m], from, delta)]
  <2> DEFINE to == [m \in DOMAIN c[k].to |-> ShiftedTo(c[k].to[m], from, delta)]
  <2>1. c[k] \in [op : Opcodes, off : Nat, to : Seq(Int)]
    BY InstructionForm
  <2>2. k # skip => d[k] = [c[k] EXCEPT !.to = to]
    BY DEF ShiftTargets, ShiftedTo
  <2> HIDE DEF d, to
  <2>3. k # skip => d[k].to = to
    BY <2>1, <2>2
  <2> QED
    BY <2>3 DEF to
<1> HIDE DEF d
<1>4. NewOffsets(d) = NewOffsets(c)
  <2>1. \A k \in DOMAIN c : d[k] \in Instructions /\ c[k] \in Instructions
    BY <1>1
  <2>2. \A k \in DOMAIN c : EncodedSize(d[k]) = EncodedSize(c[k])
    BY <1>2, <2>1, SizeByOpcode
  <2>3. SameSizes(c, d)
    BY <1>1, <2>2 DEF SameSizes
  <2> QED
    BY <1>1, <2>3, SameLayout
<1>5. /\ d \in Seq(Instructions) /\ Len(d) = Len(c)
      /\ NewOffsets(d) = NewOffsets(c)
      /\ \A k \in DOMAIN c :
           /\ d[k].op = c[k].op
           /\ k # skip => d[k].to = [m \in DOMAIN c[k].to |-> ShiftedTo(c[k].to[m], from, delta)]
  BY <1>1, <1>2, <1>3, <1>4
<1> QED
  BY <1>5 DEF d

(* The instructions and the layout a narrowed load leaves.                   *)
NarrowedOffset(L, at, k) ==
  IF k <= at THEN L[k] ELSE IF k = at + 1 THEN L[at + 1] - 4 ELSE L[k - 1] - 3

NarrowedCode(c, L, e, M, at) ==
  LET n == Len(c)
  IN  /\ e \in Seq(Instructions) /\ Len(e) = n + 1 /\ Placed(e)
      /\ \A k \in 1..(n + 2) : M[k] = NarrowedOffset(L, at, k)
      /\ e[at].op = "ldc_i4" /\ e[at + 1].op = "conv_i8"
      /\ \A j \in 1..n : j # at =>
           LET i == e[IF j >= at + 1 THEN j + 1 ELSE j]
           IN  /\ i.op = c[j].op
               /\ i.to = [m \in DOMAIN c[j].to |-> ShiftedTo(c[j].to[m], L[at + 1], -3)]

LEMMA NarrowParts ==
  ASSUME NEW b, b.code \in Seq(Instructions), b.eh \in Seq(Clauses), Placed(b.code),
         NEW at \in DOMAIN b.code, b.code[at].op = "ldc_i8"
  PROVE  LET L == NewOffsets(b.code)
             e == NarrowAt(b, at).code
         IN  /\ NarrowedCode(b.code, L, e, NewOffsets(e), at)
             /\ NarrowAt(b, at).eh = ShiftEhReplace(b.eh, L[at], -3)
             /\ L[at + 1] = L[at] + 9
<1> DEFINE c     == b.code
           n     == Len(c)
           L     == NewOffsets(c)
           off   == c[at].off
           wide  == [c[at] EXCEPT !.op = "ldc_i4"]
           load  == ReplaceAt(c, at, wide)
           moved == ShiftTargets(load, off + 9, -3, at)
           conv  == [op |-> "conv_i8", off |-> 0, to |-> <<>>]
           more  == InsertAt(moved, at + 1, conv)
           e     == RecomputeOffsets(more)
<1>1. n \in Nat /\ DOMAIN c = 1..n /\ at \in 1..n /\ c[at] \in Instructions /\ c \in Seq(Instructions)
  OBVIOUS
<1>2. off = L[at] /\ off \in Nat
  BY <1>1, InstructionForm DEF Placed
<1>3. wide \in Instructions /\ wide.op = "ldc_i4"
  <2>1. "ldc_i4" \in Opcodes /\ Operands("ldc_i4") = Operands(c[at].op)
    BY DEF Opcodes, Operands, Branches
  <2>2. wide \in Instructions
    BY <1>1, <2>1, Recoded
  <2>3. c[at] \in [op : Opcodes, off : Nat, to : Seq(Int)]
    BY <1>1, InstructionForm
  <2> QED
    BY <2>2, <2>3
<1>4. conv \in Instructions /\ conv.op = "conv_i8"
  <2>1. conv \in [op : Opcodes, off : Nat, to : Seq(Int)] /\ Len(conv.to) = Operands(conv.op)
    BY DEF Opcodes, Operands, Branches
  <2> QED
    BY <2>1, InstructionForm
<1>5. EncodedSize(c[at]) = 9 /\ EncodedSize(wide) = 5 /\ EncodedSize(conv) = 1
  <2>1. c[at].op = "ldc_i8" /\ wide.op = "ldc_i4" /\ conv.op = "conv_i8"
    BY <1>3, <1>4
  <2> HIDE DEF wide, conv, c
  <2> QED
    BY <2>1 DEF EncodedSize, Size
<1>6. L[at + 1] = off + 9
  BY <1>1, <1>2, <1>5, OffsetsType
<1>7. NarrowAt(b, at).code = e /\ NarrowAt(b, at).eh = ShiftEhReplace(b.eh, off, -3)
  BY DEF NarrowAt
<1> HIDE DEF wide, conv, off
<1>8. /\ load \in Seq(Instructions) /\ Len(load) = n
      /\ \A j \in 1..n : load[j] = IF j = at THEN wide ELSE c[j]
      /\ NewOffsets(load) = [k \in 1..(n + 1) |-> PastMoved(L, at, -4, k)]
  <2>1. /\ load \in Seq(Instructions) /\ Len(load) = Len(c)
        /\ \A j \in DOMAIN c : load[j] = IF j = at THEN wide ELSE c[j]
    <3>1. c \in Seq(Instructions) /\ at \in DOMAIN c /\ wide \in Instructions
      BY <1>3
    <3> HIDE DEF c, n
    <3> QED
      BY <3>1, ReplaceType
  <2>2. NewOffsets(load) = [k \in 1..(Len(c) + 1) |-> PastMoved(L, at, EncodedSize(wide) - EncodedSize(c[at]), k)]
    BY <1>1, <1>3, ReplaceLayout
  <2>3. EncodedSize(wide) - EncodedSize(c[at]) = -4
    BY <1>5
  <2> HIDE DEF load, L
  <2>4. \A j \in 1..n : load[j] = IF j = at THEN wide ELSE c[j]
    BY <1>1, <2>1
  <2> QED
    BY <2>1, <2>2, <2>3, <2>4
<1> HIDE DEF load
<1>9. /\ moved \in Seq(Instructions) /\ Len(moved) = n
      /\ NewOffsets(moved) = NewOffsets(load)
      /\ \A j \in 1..n : /\ moved[j].op = load[j].op
                         /\ j # at => moved[j].to = [m \in DOMAIN load[j].to |-> ShiftedTo(load[j].to[m], L[at + 1], -3)]
  <2> DEFINE from == L[at + 1]
             delta == -3
  <2>2. from \in Int /\ delta \in Int
    BY <1>2, <1>6
  <2>3. moved = ShiftTargets(load, from, delta, at)
    BY <1>6
  <2>4. DOMAIN load = 1..n
    BY <1>8
  <2> HIDE DEF moved, from, delta
  <2>5. /\ moved \in Seq(Instructions) /\ Len(moved) = Len(load)
        /\ NewOffsets(moved) = NewOffsets(load)
        /\ \A j \in DOMAIN load :
             /\ moved[j].op = load[j].op
             /\ j # at => moved[j].to = [m \in DOMAIN load[j].to |-> ShiftedTo(load[j].to[m], from, delta)]
    BY <1>8, <2>2, <2>3, TargetsShifted
  <2> HIDE DEF L, n
  <2> QED
    BY <1>8, <2>4, <2>5 DEF from, delta
<1> HIDE DEF moved
<1>10. /\ more \in Seq(Instructions) /\ Len(more) = n + 1
       /\ \A j \in 1..(n + 1) :
            more[j] = IF j < at + 1 THEN moved[j] ELSE IF j = at + 1 THEN conv ELSE moved[j - 1]
       /\ NewOffsets(more) = Opened(NewOffsets(moved), at + 1, 1)
  <2>1. at + 1 \in 1..(Len(moved) + 1)
    BY <1>1, <1>9
  <2>2. more \in Seq(Instructions) /\ Len(more) = n + 1
    <3> DEFINE next == at + 1
    <3>1. next \in 1..(Len(moved) + 1) /\ more = InsertAt(moved, next, conv)
      BY <2>1
    <3> HIDE DEF next, more, n
    <3>2. more \in Seq(Instructions) /\ Len(more) = Len(moved) + 1
      BY <1>4, <1>9, <3>1, InsertType
    <3> QED
      BY <1>9, <3>2
  <2>3. \A j \in 1..(Len(moved) + 1) :
          more[j] = IF j < at + 1 THEN moved[j] ELSE IF j = at + 1 THEN conv ELSE moved[j - 1]
    <3> DEFINE next == at + 1
    <3>1. next \in 1..(Len(moved) + 1) /\ more = InsertAt(moved, next, conv)
      BY <2>1
    <3> HIDE DEF next, more
    <3>2. \A j \in 1..(Len(moved) + 1) :
            more[j] = IF j < next THEN moved[j] ELSE IF j = next THEN conv ELSE moved[j - 1]
      BY <1>4, <1>9, <3>1, InsertParts
    <3> QED
      BY <3>2 DEF next
  <2>4. NewOffsets(more) = Opened(NewOffsets(moved), at + 1, EncodedSize(conv))
    BY <1>4, <1>9, <2>1, InsertLayout
  <2> HIDE DEF more
  <2> QED
    BY <1>5, <1>9, <2>2, <2>3, <2>4
<1> HIDE DEF more
<1>11. /\ e \in Seq(Instructions) /\ Len(e) = n + 1 /\ Placed(e) /\ NewOffsets(e) = NewOffsets(more)
       /\ \A j \in 1..(n + 1) : e[j].op = more[j].op /\ e[j].to = more[j].to
  <2>1. e \in Seq(Instructions) /\ Len(e) = Len(more) /\ Recodes(more, e) /\ NewOffsets(e) = NewOffsets(more)
    BY <1>10, Relayout, RecomputedRecodes
  <2>2. \A j \in DOMAIN more : e[j].op = more[j].op
    BY <1>10, RelayoutOpcodes
  <2>3. Placed(e)
    BY <1>10, Relayout
  <2>4. DOMAIN more = 1..(n + 1)
    BY <1>10
  <2> HIDE DEF e, n
  <2> QED
    BY <1>10, <2>1, <2>2, <2>3, <2>4 DEF Recodes
<1> HIDE DEF e
<1>12. ASSUME NEW k \in 1..(n + 2) PROVE NewOffsets(e)[k] = NarrowedOffset(L, at, k)
  <2> DEFINE P == [q \in 1..(n + 1) |-> PastMoved(L, at, -4, q)]
  <2>1. NewOffsets(moved) = P /\ Len(P) = n + 1
    <3>1. NewOffsets(moved) = P
      BY <1>8, <1>9
    <3>2. Len(NewOffsets(moved)) = Len(moved) + 1
      BY <1>9, OffsetsType
    <3> QED
      BY <1>9, <3>1, <3>2
  <2>2. NewOffsets(e)[k] = IF k <= at + 1 THEN P[k] ELSE P[k - 1] + 1
    <3>1. NewOffsets(e) = Opened(P, at + 1, 1)
      BY <1>10, <1>11, <2>1
    <3>2. k \in 1..(Len(P) + 1)
      BY <1>1, <2>1
    <3> HIDE DEF P
    <3> QED
      BY <3>1, <3>2 DEF Opened
  <2>3. \A q \in 1..(n + 1) : P[q] = IF q > at THEN L[q] - 4 ELSE L[q]
    <3>1. ASSUME NEW q \in 1..(n + 1) PROVE P[q] = IF q > at THEN L[q] - 4 ELSE L[q]
      <4>1. L[q] \in Nat
        <5>1. L \in Seq(Nat) /\ Len(L) = n + 1
          BY <1>1, OffsetsType
        <5> HIDE DEF L, n
        <5> QED
          BY <1>1, <5>1
      <4> HIDE DEF L, n
      <4> QED
        BY <4>1 DEF PastMoved
    <3> QED
      BY <3>1
  <2>4. \A q \in 1..(n + 1) : L[q] \in Nat
    <3>1. L \in Seq(Nat) /\ Len(L) = n + 1
      BY <1>1, OffsetsType
    <3> HIDE DEF L, n
    <3> QED
      BY <1>1, <3>1
  <2> HIDE DEF P, L, n
  <2>5. CASE k <= at
    BY <1>1, <2>2, <2>3, <2>5 DEF NarrowedOffset
  <2>6. CASE k = at + 1
    BY <1>1, <2>2, <2>3, <2>6 DEF NarrowedOffset
  <2>7. CASE k > at + 1
    <3>1. k - 1 \in 1..(n + 1) /\ k - 1 > at
      BY <1>1, <2>7
    <3>2. P[k - 1] = L[k - 1] - 4 /\ L[k - 1] \in Nat
      BY <2>3, <2>4, <3>1
    <3> QED
      BY <1>1, <2>2, <2>7, <3>2 DEF NarrowedOffset
  <2> QED
    BY <1>1, <2>5, <2>6, <2>7
<1> HIDE DEF L, n
<1>13. e[at].op = "ldc_i4" /\ e[at + 1].op = "conv_i8"
  <2>1. at \in 1..n /\ at \in 1..(n + 1) /\ at + 1 \in 1..(n + 1) /\ at < at + 1 /\ ~(at + 1 < at + 1)
    BY <1>1
  <2>2. e[at].op = moved[at].op /\ e[at + 1].op = conv.op
    BY <1>10, <1>11, <2>1
  <2>3. moved[at].op = wide.op
    BY <1>8, <1>9, <2>1
  <2> QED
    BY <1>3, <1>4, <2>2, <2>3
<1>14. ASSUME NEW j \in 1..n, j # at
       PROVE  LET i == e[IF j >= at + 1 THEN j + 1 ELSE j]
              IN  /\ i.op = c[j].op
                  /\ i.to = [m \in DOMAIN c[j].to |-> ShiftedTo(c[j].to[m], L[at + 1], -3)]
  <2> DEFINE q == IF j >= at + 1 THEN j + 1 ELSE j
  <2>1. more[q] = moved[j] /\ q \in 1..(n + 1)
    <3>1. CASE j >= at + 1
      <4>1. q = j + 1 /\ ~(j + 1 < at + 1) /\ j + 1 # at + 1 /\ j + 1 - 1 = j /\ j + 1 \in 1..(n + 1)
        BY <1>1, <3>1
      <4> HIDE DEF q
      <4> QED
        BY <1>10, <4>1
    <3>2. CASE ~(j >= at + 1)
      <4>1. q = j /\ j < at + 1 /\ j \in 1..(n + 1)
        BY <1>1, <3>2
      <4> HIDE DEF q
      <4> QED
        BY <1>10, <4>1
    <3> QED
      BY <3>1, <3>2
  <2> HIDE DEF q
  <2>2. load[j] = c[j]
    BY <1>8, <1>14
  <2>3. e[q].op = c[j].op /\ e[q].to = [m \in DOMAIN c[j].to |-> ShiftedTo(c[j].to[m], L[at + 1], -3)]
    BY <1>9, <1>11, <1>14, <2>1, <2>2, SMTT(20)
  <2> QED
    BY <2>3 DEF q
<1> HIDE DEF c, e
<1>15. L[at + 1] = L[at] + 9 /\ NarrowAt(b, at).eh = ShiftEhReplace(b.eh, L[at], -3)
  BY <1>2, <1>6, <1>7
<1>16. NarrowedCode(c, L, e, NewOffsets(e), at)
  BY <1>7, <1>11, <1>12, <1>13, <1>14 DEF NarrowedCode, n
<1> QED
  BY <1>7, <1>15, <1>16 DEF c, L

LEMMA NarrowFollows ==
  ASSUME NEW b, b.code \in Seq(Instructions), b.eh \in Seq(Clauses), Placed(b.code),
         NEW at \in DOMAIN b.code, b.code[at].op = "ldc_i8"
  PROVE  Follows(ReadBody(b), ReadBody(NarrowAt(b, at)),
                 Ahead(at + 1, Len(b.code)), Ahead(at, Len(b.code)), {at})
<1> DEFINE c  == b.code
           E  == b.eh
           n  == Len(c)
           L  == NewOffsets(c)
           d  == NarrowAt(b, at).code
           F  == NarrowAt(b, at).eh
           M  == NewOffsets(d)
           lo == Ahead(at + 1, n)
           hi == Ahead(at, n)
<1>1. n \in Nat /\ DOMAIN c = 1..n /\ at \in 1..n /\ Len(c) = n /\ c \in Seq(Instructions) /\ E \in Seq(Clauses)
  OBVIOUS
<1>2. Increasing(L) /\ Len(L) = n + 1
  BY LayoutIncreases
<1>3. /\ d \in Seq(Instructions) /\ Len(d) = n + 1
      /\ \A k \in 1..(n + 2) : M[k] = NarrowedOffset(L, at, k)
      /\ \A j \in 1..n : j # at =>
           LET i == d[IF j >= at + 1 THEN j + 1 ELSE j]
           IN  /\ i.op = c[j].op
               /\ i.to = [m \in DOMAIN c[j].to |-> ShiftedTo(c[j].to[m], L[at + 1], -3)]
      /\ F = ShiftEhReplace(E, L[at], -3)
      /\ L[at + 1] = L[at] + 9
  <2>1. NarrowedCode(c, L, d, M, at) /\ F = ShiftEhReplace(E, L[at], -3) /\ L[at + 1] = L[at] + 9
    BY NarrowParts
  <2> HIDE DEF c, E, L, d, F, M
  <2> QED
    BY <2>1 DEF NarrowedCode
<1> HIDE DEF c, E, L, d, F, n
<1>4. Increasing(M) /\ Len(M) = n + 2
  <2>1. Increasing(M) /\ Len(M) = Len(d) + 1
    BY <1>3, LayoutIncreases
  <2> QED
    BY <1>1, <1>3, <2>1
<1> HIDE DEF M
<1>5. L[at] \in Nat /\ L[at + 1] \in Nat /\ L[at + 1] + (-3) > L[at] /\ DOMAIN L = 1..(n + 1)
  <2>1. at \in DOMAIN L /\ at + 1 \in DOMAIN L /\ DOMAIN L = 1..(n + 1)
    BY <1>1, <1>2, SMTT(20) DEF Increasing
  <2>2. L[at] \in Nat /\ L[at + 1] \in Nat
    BY <1>2, <2>1, OrderFacts
  <2> QED
    BY <1>3, <2>1, <2>2
<1> DEFINE delta == -3
<1>6. delta \in Int /\ L[at + 1] + delta > L[at]
  BY <1>5
<1>7. /\ F \in Seq(Clauses) /\ Len(F) = Len(E)
      /\ \A x \in DOMAIN E :
           /\ F[x].try = ReplacedRegion(E[x].try, L[at], delta)
           /\ F[x].handler = ReplacedRegion(E[x].handler, L[at], delta)
           /\ F[x].filter = IF E[x].filter = None THEN None
                              ELSE IF E[x].filter > L[at] THEN E[x].filter + delta ELSE E[x].filter
  <2> DEFINE pos == L[at]
  <2>1. pos \in Int /\ F = ShiftEhReplace(E, pos, delta)
    BY <1>3, <1>5
  <2> HIDE DEF pos, delta
  <2>2. /\ F \in Seq(Clauses) /\ Len(F) = Len(E)
        /\ \A x \in DOMAIN E :
             /\ F[x].try = ReplacedRegion(E[x].try, pos, delta)
             /\ F[x].handler = ReplacedRegion(E[x].handler, pos, delta)
             /\ F[x].filter = IF E[x].filter = None THEN None
                                ELSE IF E[x].filter > pos THEN E[x].filter + delta ELSE E[x].filter
    BY <1>1, <1>6, <2>1, ShiftEhReplaceType, ReplaceClauses
  <2> QED
    BY <2>2 DEF pos
<1>8. /\ \A j \in 1..n : lo[j] = (IF j >= at + 1 THEN j + 1 ELSE j) /\ lo[j] \in 1..(n + 1)
      /\ \A j \in 1..n : hi[j] = (IF j >= at THEN j + 1 ELSE j) /\ hi[j] \in 1..(n + 1)
  <2>1. at \in 1..(n + 1) /\ at + 1 \in 1..(n + 1)
    BY <1>1
  <2>2. \A j \in 1..n : hi[j] = (IF j >= at THEN j + 1 ELSE j) /\ hi[j] \in 1..(n + 1)
    BY <1>1 DEF Ahead
  <2> DEFINE next == at + 1
  <2>3. \A j \in 1..n : lo[j] = (IF j >= next THEN j + 1 ELSE j) /\ lo[j] \in 1..(n + 1)
    <3>1. next \in 1..(n + 1) /\ lo = Ahead(next, n)
      BY <2>1
    <3> HIDE DEF next
    <3> QED
      BY <1>1, <3>1 DEF Ahead
  <2> QED
    BY <2>2, <2>3
<1> HIDE DEF lo, hi
<1>9. \A i, j \in 1..n : i <= j => lo[i] <= hi[j]
  BY <1>1, <1>8
<1>10. \A k \in 1..(n + 1) : L[k] \in Nat
  <2>1. \A k \in DOMAIN L : L[k] \in Nat
    BY <1>2 DEF Increasing
  <2> QED
    BY <1>5, <2>1
<1>11. ASSUME NEW k \in 1..(n + 1)
       PROVE  /\ k \in 1..n => M[lo[k]] = PastMoved(L, at, delta, k)
              /\ k - 1 \in 1..n => M[hi[k - 1] + 1] = PastMoved(L, at, delta, k)
  <2>1. L[k] \in Nat
    BY <1>10
  <2>2. ASSUME k \in 1..n PROVE M[lo[k]] = PastMoved(L, at, delta, k)
    <3>1. CASE k > at
      <4>1. lo[k] = k + 1 /\ k + 1 \in 1..(n + 2)
        BY <1>1, <1>8, <2>2, <3>1
      <4>2. M[k + 1] = L[k + 1 - 1] - 3 /\ k + 1 - 1 = k
        BY <1>1, <1>3, <3>1, <4>1 DEF NarrowedOffset
      <4> QED
        BY <2>1, <3>1, <4>1, <4>2 DEF PastMoved
    <3>2. CASE ~(k > at)
      <4>1. lo[k] = k /\ k \in 1..(n + 2) /\ k <= at
        BY <1>1, <1>8, <2>2, <3>2
      <4>2. M[k] = L[k]
        BY <1>1, <1>3, <4>1 DEF NarrowedOffset
      <4> QED
        BY <3>2, <4>1, <4>2 DEF PastMoved
    <3> QED
      BY <3>1, <3>2
  <2>3. ASSUME k - 1 \in 1..n PROVE M[hi[k - 1] + 1] = PastMoved(L, at, delta, k)
    <3>1. CASE k > at
      <4>1. hi[k - 1] + 1 = k + 1 /\ k + 1 \in 1..(n + 2)
        <5>1. hi[k - 1] = k
          BY <1>1, <1>8, <2>3, <3>1
        <5> QED
          BY <1>1, <5>1
      <4>2. M[k + 1] = L[k + 1 - 1] - 3 /\ k + 1 - 1 = k
        BY <1>1, <1>3, <3>1, <4>1 DEF NarrowedOffset
      <4> QED
        BY <2>1, <3>1, <4>1, <4>2 DEF PastMoved
    <3>2. CASE ~(k > at)
      <4>1. hi[k - 1] + 1 = k /\ k \in 1..(n + 2) /\ k <= at
        <5>1. hi[k - 1] = k - 1
          BY <1>1, <1>8, <2>3, <3>2, SMTT(20)
        <5> QED
          BY <1>1, <3>2, <5>1
      <4>2. M[k] = L[k]
        BY <1>1, <1>3, <4>1 DEF NarrowedOffset
      <4> QED
        BY <3>2, <4>1, <4>2 DEF PastMoved
    <3> QED
      BY <3>1, <3>2
  <2> QED
    BY <2>2, <2>3
<1> HIDE DEF delta
<1>12. ASSUME NEW k \in 1..n
       PROVE  /\ ShiftedTo(L[k], L[at + 1], delta) = M[lo[k]]
              /\ (IF L[k] > L[at] THEN L[k] + delta ELSE L[k]) = M[lo[k]]
  <2>1. k \in 1..(n + 1)
    BY <1>1
  <2>2. M[lo[k]] = PastMoved(L, at, delta, k)
    BY <1>11, <2>1
  <2>3. /\ ShiftedTo(L[k], L[at + 1], delta) = PastMoved(L, at, delta, k)
        /\ (IF L[k] > L[at] THEN L[k] + delta ELSE L[k]) = PastMoved(L, at, delta, k)
    BY <1>1, <1>2, <1>6, ReplacedOffsets
  <2> QED
    BY <2>2, <2>3
<1>13. Len(L) - 1 = n /\ Len(L) = n + 1
  BY <1>1, <1>2
<1>14. ASSUME NEW r \in Regions PROVE RegionFollowed(r, ReplacedRegion(r, L[at], delta), L, M, lo, hi)
  <2>1. SUFFICES ASSUME NEW i \in 1..n, NEW e \in 1..(n + 1),
                        i < e, r.off = L[i], r.off + r.len = L[e]
                 PROVE  LET s == ReplacedRegion(r, L[at], delta)
                        IN  s.off = M[lo[i]] /\ s.off + s.len = M[hi[e - 1] + 1]
    BY <1>13 DEF RegionFollowed
  <2>2. LET s == ReplacedRegion(r, L[at], delta)
        IN  s.off = PastMoved(L, at, delta, i) /\ s.off + s.len = PastMoved(L, at, delta, e)
    <3>1. Resizes(L, n, at, delta) /\ RunsFrom(r, L, i, e)
      BY <1>1, <1>2, <1>6, <2>1 DEF Resizes, RunsFrom
    <3> QED
      BY <3>1, ReplacedEnds
  <2>3. e - 1 \in 1..n /\ i \in 1..(n + 1)
    BY <1>1, <2>1
  <2>4. M[lo[i]] = PastMoved(L, at, delta, i) /\ M[hi[e - 1] + 1] = PastMoved(L, at, delta, e)
    BY <1>11, <2>3
  <2> QED
    BY <2>2, <2>4
<1>15. ASSUME NEW j \in 1..n, j \notin {at} PROVE CodeFollowed(c[j], d[lo[j]], L, M, lo)
  <2> DEFINE q == lo[j]
  <2>1. q = (IF j >= at + 1 THEN j + 1 ELSE j) /\ q \in 1..(n + 1) /\ j # at
    BY <1>8, <1>15
  <2> HIDE DEF q
  <2>2. d[q].op = c[j].op /\ d[q].to = [x \in DOMAIN c[j].to |-> ShiftedTo(c[j].to[x], L[at + 1], delta)]
    BY <1>3, <2>1 DEF delta
  <2>3. c[j].to \in Seq(Int) /\ d[q].to \in Seq(Int)
    <3>1. c[j] \in Instructions /\ d[q] \in Instructions
      BY <1>1, <1>3, <2>1
    <3> QED
      BY <3>1, InstructionForm
  <2>4. Len(d[q].to) = Len(c[j].to)
    BY <2>2, <2>3
  <2>5. ASSUME NEW x \in DOMAIN c[j].to, NEW k \in 1..(Len(L) - 1), c[j].to[x] = L[k]
        PROVE  d[q].to[x] = M[lo[k]]
    BY <1>12, <1>13, <2>2, <2>5
  <2> QED
    BY <2>2, <2>4, <2>5 DEF CodeFollowed, q
<1>16. ASSUME NEW x \in DOMAIN E PROVE HandlerFollowed(E[x], F[x], L, M, lo, hi)
  <2>1. E[x].try \in Regions /\ E[x].handler \in Regions
    <3>1. E[x] \in Clauses
      BY <1>1
    <3> QED
      BY <3>1 DEF Clauses
  <2>2. RegionFollowed(E[x].try, F[x].try, L, M, lo, hi) /\ RegionFollowed(E[x].handler, F[x].handler, L, M, lo, hi)
    BY <1>7, <1>14, <2>1
  <2>3. ASSUME NEW k \in 1..(Len(L) - 1), E[x].filter = L[k] PROVE F[x].filter = M[lo[k]]
    <3>1. k \in 1..n /\ L[k] \in Nat
      BY <1>1, <1>10, <1>13
    <3>2. E[x].filter # None
      BY <2>3, <3>1, NoneAssumption
    <3> QED
      BY <1>7, <1>12, <2>3, <3>1, <3>2
  <2> QED
    BY <2>2, <2>3 DEF HandlerFollowed
<1>17. Follows(Reading(L, c, E), Reading(M, d, F), lo, hi, {at})
  <2>1. /\ Len(L) = Len(c) + 1 /\ Len(M) = Len(d) + 1
        /\ \A j \in 1..Len(c) : lo[j] \in 1..Len(d) /\ hi[j] \in 1..Len(d)
        /\ \A i, j \in 1..Len(c) : i <= j => lo[i] <= hi[j]
        /\ \A j \in 1..Len(c) : j \notin {at} => CodeFollowed(c[j], d[lo[j]], L, M, lo)
    BY <1>1, <1>2, <1>3, <1>4, <1>8, <1>9, <1>15
  <2> QED
    BY <1>1, <1>2, <1>3, <1>4, <1>7, <1>16, <2>1, EditFollows
<1> QED
  BY <1>17 DEF ReadBody, c, E, n, L, d, F, M, lo, hi

(* One edit after another.                                                   *)
LEMMA RunFollowedOn ==
  ASSUME NEW n, NEW p, NEW a, RunWithin(a, n), NEW b, RunWithin(b, p), NEW c,
         NEW f, NEW g, NEW u, NEW v, NEW lo, NEW hi,
         \A j \in 1..n : f[j] \in 1..p /\ lo[j] = u[f[j]] /\ hi[j] = v[g[j]],
         RunFollowed(a, b, f, g), RunFollowed(b, c, u, v)
  PROVE  RunFollowed(a, c, lo, hi)
<1>1. SUFFICES ASSUME a.first # Lost
               PROVE  c = [first |-> lo[a.first], last |-> hi[a.last]]
  BY DEF RunFollowed
<1>2. a.first \in 1..n /\ a.last \in 1..n
  BY <1>1 DEF RunWithin
<1>3. b = [first |-> f[a.first], last |-> g[a.last]]
  BY <1>1 DEF RunFollowed
<1>4. b.first = f[a.first] /\ b.last = g[a.last]
  BY <1>3
<1>5. b.first # Lost
  <2>1. f[a.first] \in 1..p
    BY <1>2
  <2> QED
    BY <1>4, <2>1 DEF Lost
<1>6. c = [first |-> u[b.first], last |-> v[b.last]]
  BY <1>5 DEF RunFollowed
<1> QED
  BY <1>2, <1>4, <1>6

OneAfterAnother(n, p, f, g, R, u, v, S, lo, hi, T) ==
  \A j \in 1..n : /\ f[j] \in 1..p /\ lo[j] = u[f[j]] /\ hi[j] = v[g[j]]
                  /\ j \in R \/ f[j] \in S => j \in T

LEMMA FollowsOn ==
  ASSUME NEW n \in Nat, NEW p \in Nat, NEW a, WellRead(a, n), NEW b, WellRead(b, p), NEW c,
         NEW f, NEW g, NEW R, NEW u, NEW v, NEW S, NEW lo, NEW hi, NEW T,
         OneAfterAnother(n, p, f, g, R, u, v, S, lo, hi, T),
         Follows(a, b, f, g, R), Follows(b, c, u, v, S)
  PROVE  Follows(a, c, lo, hi, T)
<1>0. /\ \A j \in 1..n : f[j] \in 1..p /\ lo[j] = u[f[j]] /\ hi[j] = v[g[j]]
      /\ \A j \in 1..n : j \in R \/ f[j] \in S => j \in T
  BY DEF OneAfterAnother
<1>1. DOMAIN a.prog = 1..n /\ DOMAIN b.prog = 1..p
  BY DEF WellRead
<1>2. ASSUME NEW j \in DOMAIN a.prog \ T
      PROVE  InstructionFollowed(a.prog[j], c.prog[lo[j]], lo)
  <2>1. j \in 1..n /\ j \notin R /\ f[j] \in 1..p /\ f[j] \notin S /\ lo[j] = u[f[j]]
    BY <1>0, <1>1, <1>2
  <2> DEFINE x == a.prog[j]
             y == b.prog[f[j]]
             z == c.prog[u[f[j]]]
  <2>2. InstructionFollowed(x, y, f) /\ InstructionFollowed(y, z, u)
    BY <1>1, <2>1 DEF Follows
  <2>3. x.to \in Seq(0..n)
    BY <2>1 DEF WellRead
  <2> HIDE DEF x, y, z
  <2>4. ASSUME NEW m \in DOMAIN x.to, x.to[m] # Lost PROVE z.to[m] = lo[x.to[m]]
    <3>1. x.to[m] \in 1..n
      BY <2>3, <2>4 DEF Lost
    <3>2. m \in DOMAIN y.to /\ y.to[m] = f[x.to[m]]
      BY <2>2, <2>4 DEF InstructionFollowed
    <3>3. y.to[m] # Lost
      <4>1. f[x.to[m]] \in 1..p
        BY <1>0, <3>1
      <4> QED
        BY <3>2, <4>1 DEF Lost
    <3>4. z.to[m] = u[y.to[m]]
      BY <2>2, <3>2, <3>3 DEF InstructionFollowed
    <3> QED
      BY <1>0, <3>1, <3>2, <3>4
  <2>5. InstructionFollowed(x, z, lo)
    BY <2>2, <2>4 DEF InstructionFollowed
  <2> QED
    BY <2>1, <2>5 DEF x, z
<1>3. DOMAIN c.clauses = DOMAIN a.clauses /\ Len(c.clauses) = Len(a.clauses) /\ DOMAIN b.clauses = DOMAIN a.clauses
  BY DEF Follows
<1>4. ASSUME NEW k \in DOMAIN a.clauses
      PROVE  ClauseFollowed(a.clauses[k], c.clauses[k], lo, hi)
  <2> DEFINE x == a.clauses[k]
             y == b.clauses[k]
             z == c.clauses[k]
  <2>1. ClauseFollowed(x, y, f, g) /\ ClauseFollowed(y, z, u, v)
    BY <1>3 DEF Follows
  <2>2. /\ RunWithin(x.try, n) /\ RunWithin(x.handler, n) /\ x.filter \in 0..n
        /\ RunWithin(y.try, p) /\ RunWithin(y.handler, p)
    BY <1>3 DEF WellRead
  <2> HIDE DEF x, y, z
  <2>3. RunFollowed(x.try, z.try, lo, hi) /\ RunFollowed(x.handler, z.handler, lo, hi)
    <3>1. /\ RunFollowed(x.try, y.try, f, g) /\ RunFollowed(y.try, z.try, u, v)
          /\ RunFollowed(x.handler, y.handler, f, g) /\ RunFollowed(y.handler, z.handler, u, v)
      BY <2>1 DEF ClauseFollowed
    <3> QED
      BY <1>0, <2>2, <3>1, RunFollowedOn
  <2>4. ASSUME x.filter # Lost PROVE z.filter = lo[x.filter]
    <3>1. x.filter \in 1..n
      BY <2>2, <2>4 DEF Lost
    <3>2. y.filter = f[x.filter]
      BY <2>1, <2>4 DEF ClauseFollowed
    <3>3. y.filter # Lost
      <4>1. f[x.filter] \in 1..p
        BY <1>0, <3>1
      <4> QED
        BY <3>2, <4>1 DEF Lost
    <3>4. z.filter = u[y.filter]
      BY <2>1, <3>3 DEF ClauseFollowed
    <3> QED
      BY <1>0, <3>1, <3>2, <3>4
  <2>5. ClauseFollowed(x, z, lo, hi)
    BY <2>3, <2>4 DEF ClauseFollowed
  <2> QED
    BY <2>5 DEF x, z
<1> QED
  BY <1>2, <1>3, <1>4 DEF Follows

(* Splitting: each instruction of S becomes two, and those after it move up. *)
Below(S, j) == Cardinality({i \in S : i < j})

SplitLo(S, n) == [j \in 1..n |-> j + Below(S, j)]
SplitHi(S, n) == [j \in 1..n |-> j + Below(S, j + 1)]

Among(S, n) == S \subseteq 1..n

LEMMA IndexSets ==
  ASSUME NEW n \in Nat, NEW S, Among(S, n)
  PROVE  IsFiniteSet(S) /\ \A i \in S : i \in Int /\ i <= n
<1>1. IsFiniteSet(1..n)
  BY FS_Interval
<1>2. S \subseteq 1..n
  BY DEF Among
<1>3. IsFiniteSet(S)
  BY <1>1, <1>2, FS_Subset, Zenon
<1> QED
  BY <1>2, <1>3

LEMMA BelowFacts ==
  ASSUME NEW n \in Nat, NEW S, Among(S, n), NEW j \in Int
  PROVE  /\ IsFiniteSet(S) /\ Cardinality(S) \in Nat
         /\ Below(S, j) \in Nat
         /\ Below(S, j + 1) = Below(S, j) + (IF j \in S THEN 1 ELSE 0)
         /\ j > n => Below(S, j) = Cardinality(S)
<1>1. IsFiniteSet(S) /\ \A i \in S : i \in Int /\ i <= n
  BY IndexSets
<1>2. IsFiniteSet({i \in S : i < j}) /\ {i \in S : i < j} \subseteq S
  BY <1>1, FS_Subset
<1>3. Cardinality(S) \in Nat /\ Below(S, j) \in Nat
  BY <1>1, <1>2, FS_CardinalityType DEF Below
<1>4. Below(S, j + 1) = Below(S, j) + (IF j \in S THEN 1 ELSE 0)
  <2> DEFINE low == {i \in S : i < j}
             next == {i \in S : i < j + 1}
  <2>1. CASE j \in S
    <3>1. next = low \cup {j} /\ j \notin low
      <4>1. ASSUME NEW i \in S PROVE i < j + 1 <=> i < j \/ i = j
        BY <1>1
      <4>2. ~(j < j)
        OBVIOUS
      <4>3. \A i : i \in next <=> i \in low \cup {j}
        BY <2>1, <4>1
      <4> HIDE DEF next
      <4> QED
        BY <4>2, <4>3
    <3> HIDE DEF low, next
    <3>2. Cardinality(next) = Cardinality(low) + 1
      BY <1>2, <3>1, FS_AddElement DEF low
    <3> QED
      BY <2>1, <3>2 DEF Below, low, next
  <2>2. CASE j \notin S
    <3>1. next = low
      <4>1. ASSUME NEW i \in S PROVE i < j + 1 <=> i < j
        BY <1>1, <2>2
      <4> QED
        BY <4>1
    <3> HIDE DEF low, next
    <3>2. Below(S, j) = Cardinality(low) /\ Below(S, j + 1) = Cardinality(next)
      BY DEF Below, low, next
    <3> QED
      BY <1>3, <2>2, <3>1, <3>2
  <2> QED
    BY <2>1, <2>2
<1>5. ASSUME j > n PROVE Below(S, j) = Cardinality(S)
  <2>1. {i \in S : i < j} = S
    <3>1. ASSUME NEW i \in S PROVE i < j
      BY <1>1, <1>5
    <3> QED
      BY <3>1
  <2> QED
    BY <2>1 DEF Below
<1> QED
  BY <1>1, <1>3, <1>4, <1>5

LEMMA BelowGrows ==
  ASSUME NEW n \in Nat, NEW S, Among(S, n), NEW i \in Int, NEW j \in Int, i <= j
  PROVE  Below(S, i) <= Below(S, j)
<1>1. IsFiniteSet(S) /\ \A x \in S : x \in Int /\ x <= n
  BY IndexSets
<1> DEFINE low == {x \in S : x < i}
           next == {x \in S : x < j}
<1>2. low \subseteq next /\ next \subseteq S
  <2>1. ASSUME NEW x \in S, x < i PROVE x < j
    BY <1>1, <2>1
  <2> QED
    BY <2>1
<1> HIDE DEF low, next
<1>3. IsFiniteSet(next)
  BY <1>1, <1>2, FS_Subset
<1>4. Cardinality(low) <= Cardinality(next)
  BY <1>2, <1>3, FS_Subset
<1> QED
  BY <1>4 DEF Below, low, next

LEMMA BelowOneMore ==
  ASSUME NEW n \in Nat, NEW S, Among(S, n), NEW k \in Int, k \notin S, NEW j \in Int
  PROVE  Below(S \cup {k}, j) = Below(S, j) + (IF k < j THEN 1 ELSE 0)
<1> DEFINE low == {i \in S : i < j}
           next == {i \in S \cup {k} : i < j}
<1>1. IsFiniteSet(low) /\ Below(S, j) = Cardinality(low) /\ Below(S \cup {k}, j) = Cardinality(next)
  <2>1. IsFiniteSet(S)
    BY IndexSets
  <2> QED
    BY <2>1, FS_Subset DEF Below
<1>2. CASE k < j
  <2>1. next = low \cup {k} /\ k \notin low
    BY <1>2
  <2> HIDE DEF low, next
  <2>2. Cardinality(next) = Cardinality(low) + 1
    BY <1>1, <2>1, FS_AddElement
  <2> QED
    BY <1>1, <1>2, <2>2
<1>3. CASE ~(k < j)
  <2>1. next = low
    BY <1>3
  <2>2. Below(S, j) \in Nat
    BY BelowFacts
  <2> HIDE DEF low, next
  <2> QED
    BY <1>1, <1>3, <2>1, <2>2
<1> QED
  BY <1>2, <1>3

LEMMA SplitOrder ==
  ASSUME NEW n \in Nat, NEW S, Among(S, n)
  PROVE  /\ InOrder(SplitLo(S, n), SplitHi(S, n), n)
         /\ \A j \in 1..n : /\ SplitLo(S, n)[j] = j + Below(S, j)
                            /\ SplitHi(S, n)[j] = SplitLo(S, n)[j] + (IF j \in S THEN 1 ELSE 0)
                            /\ SplitLo(S, n)[j] \in 1..(n + Cardinality(S))
                            /\ SplitHi(S, n)[j] \in 1..(n + Cardinality(S))
<1> DEFINE lo == SplitLo(S, n)
           hi == SplitHi(S, n)
<1>1. ASSUME NEW j \in 1..n
      PROVE  /\ lo[j] = j + Below(S, j) /\ hi[j] = j + Below(S, j + 1)
             /\ Below(S, j) \in Nat /\ Below(S, j + 1) = Below(S, j) + (IF j \in S THEN 1 ELSE 0)
  <2>1. lo[j] = j + Below(S, j) /\ hi[j] = j + Below(S, j + 1)
    BY DEF SplitLo, SplitHi
  <2> HIDE DEF lo, hi
  <2>2. Below(S, j) \in Nat /\ Below(S, j + 1) = Below(S, j) + (IF j \in S THEN 1 ELSE 0)
    BY BelowFacts
  <2> QED
    BY <2>1, <2>2
<1>2. ASSUME NEW i \in 1..n, NEW j \in 1..n, i < j PROVE hi[i] < lo[j]
  <2> DEFINE next == i + 1
  <2>1. next \in Int /\ next <= j /\ i < j
    BY <1>2
  <2>2. Below(S, next) <= Below(S, j)
    <3> HIDE DEF next
    <3> QED
      BY <2>1, BelowGrows
  <2>3. hi[i] = i + Below(S, next) /\ lo[j] = j + Below(S, j) /\ Below(S, j) \in Nat /\ Below(S, next) \in Nat
    BY <1>1, <2>1, BelowFacts
  <2> HIDE DEF lo, hi, next
  <2> QED
    BY <2>1, <2>2, <2>3
<1>3. ASSUME NEW j \in 1..n PROVE lo[j] \in 1..(n + Cardinality(S)) /\ hi[j] \in 1..(n + Cardinality(S))
  <2> DEFINE next == j + 1
             last == n + 1
  <2>1. next \in Int /\ last \in Int /\ next <= last /\ last > n
    OBVIOUS
  <2>2. Below(S, next) <= Below(S, last)
    <3> HIDE DEF next, last
    <3> QED
      BY <2>1, BelowGrows
  <2>3. Below(S, last) = Cardinality(S) /\ Cardinality(S) \in Nat /\ Below(S, next) \in Nat
    <3> HIDE DEF next, last
    <3> QED
      BY <2>1, BelowFacts
  <2>4. lo[j] = j + Below(S, j) /\ hi[j] = j + Below(S, next) /\ Below(S, j) \in Nat
        /\ Below(S, j) <= Below(S, next)
    BY <1>1
  <2> HIDE DEF lo, hi, next, last
  <2> QED
    BY <2>2, <2>3, <2>4
<1>4. ASSUME NEW j \in 1..n
      PROVE  lo[j] \in Nat /\ hi[j] = lo[j] + (IF j \in S THEN 1 ELSE 0)
  <2> HIDE DEF lo, hi
  <2> QED
    BY <1>1, <1>4
<1> HIDE DEF lo, hi
<1>5. InOrder(lo, hi, n)
  BY <1>2, <1>4 DEF InOrder
<1> QED
  BY <1>1, <1>3, <1>4, <1>5 DEF lo, hi

(* Splitting one more instruction, after those that have been split.         *)
SplitOnce(n, k, S, at, p) ==
  LET T == S \cup {k}
  IN  /\ Cardinality(S) \in Nat /\ Cardinality(T) = Cardinality(S) + 1 /\ at \in 1..p /\ p \in Nat
      /\ \A j \in 1..n :
           /\ SplitLo(S, n)[j] \in 1..p /\ SplitHi(S, n)[j] \in 1..p
           /\ SplitLo(T, n)[j] = Ahead(at + 1, p)[SplitLo(S, n)[j]]
           /\ SplitHi(T, n)[j] = Ahead(at, p)[SplitHi(S, n)[j]]
           /\ SplitLo(S, n)[j] = at => j = k
           /\ j < k => SplitLo(T, n)[j] = SplitLo(S, n)[j] /\ SplitLo(S, n)[j] < at
           /\ j < k => SplitHi(T, n)[j] = SplitHi(S, n)[j] /\ SplitHi(S, n)[j] < at
      /\ SplitLo(T, n)[k] = at /\ SplitHi(T, n)[k] = at + 1

LEMMA SplitOneMore ==
  ASSUME NEW n \in Nat, NEW k \in 1..n, NEW S, Among(S, k - 1),
         NEW at, at = k + Cardinality(S), NEW p, p = n + Cardinality(S)
  PROVE  SplitOnce(n, k, S, at, p)
<1> DEFINE T == S \cup {k}
<1>1. Among(S, n) /\ Among(T, n) /\ k \notin S /\ k - 1 \in Nat /\ k \in Int
  <2>1. S \subseteq 1..(k - 1)
    BY DEF Among
  <2> QED
    BY <2>1 DEF Among
<1>2. IsFiniteSet(S) /\ Cardinality(S) \in Nat
  BY <1>1, BelowFacts
<1>3. Cardinality(T) = Cardinality(S) + 1
  BY <1>1, <1>2, FS_AddElement
<1>4. at \in 1..p /\ p \in Nat
  BY <1>2
<1>5. ASSUME NEW j \in Int, j >= k PROVE Below(S, j) = Cardinality(S)
  <2> DEFINE m == k - 1
  <2>1. m \in Nat /\ Among(S, m) /\ j > m
    BY <1>1, <1>5
  <2> HIDE DEF m
  <2> QED
    BY <2>1, BelowFacts
<1>6. ASSUME NEW j \in 1..n
      PROVE  /\ SplitLo(S, n)[j] = j + Below(S, j)
             /\ SplitHi(S, n)[j] = SplitLo(S, n)[j] + (IF j \in S THEN 1 ELSE 0)
             /\ SplitLo(S, n)[j] \in 1..p /\ SplitHi(S, n)[j] \in 1..p
             /\ SplitLo(T, n)[j] = j + Below(S, j) + (IF k < j THEN 1 ELSE 0)
             /\ SplitHi(T, n)[j] = SplitLo(T, n)[j] + (IF j \in T THEN 1 ELSE 0)
             /\ Below(S, j) \in Nat
  <2>1. Below(T, j) = Below(S, j) + (IF k < j THEN 1 ELSE 0)
    BY <1>1, BelowOneMore
  <2>2. SplitLo(T, n)[j] = j + Below(T, j) /\ SplitHi(T, n)[j] = SplitLo(T, n)[j] + (IF j \in T THEN 1 ELSE 0)
    <3> HIDE DEF T
    <3> QED
      BY <1>1, SplitOrder
  <2>3. /\ SplitLo(S, n)[j] = j + Below(S, j)
        /\ SplitHi(S, n)[j] = SplitLo(S, n)[j] + (IF j \in S THEN 1 ELSE 0)
        /\ SplitLo(S, n)[j] \in 1..p /\ SplitHi(S, n)[j] \in 1..p
    BY <1>1, SplitOrder
  <2>4. Below(S, j) \in Nat
    BY <1>1, BelowFacts
  <2> HIDE DEF T
  <2> QED
    BY <2>1, <2>2, <2>3, <2>4
<1>7. \A j \in 1..n : j < k => SplitHi(S, n)[j] < at
  <2>1. SUFFICES ASSUME NEW j \in 1..n, j < k PROVE SplitHi(S, n)[j] < at
    OBVIOUS
  <2>2. SplitHi(S, n)[j] < SplitLo(S, n)[k]
    BY <1>1, <2>1, SplitOrder DEF InOrder
  <2>3. SplitLo(S, n)[k] = at
    BY <1>1, <1>5, <1>6
  <2> QED
    BY <2>2, <2>3
<1>8. ASSUME NEW j \in 1..n
      PROVE  /\ SplitLo(T, n)[j] = Ahead(at + 1, p)[SplitLo(S, n)[j]]
             /\ SplitHi(T, n)[j] = Ahead(at, p)[SplitHi(S, n)[j]]
             /\ SplitLo(S, n)[j] = at => j = k
             /\ j < k => SplitLo(T, n)[j] = SplitLo(S, n)[j] /\ SplitLo(S, n)[j] < at
             /\ j < k => SplitHi(T, n)[j] = SplitHi(S, n)[j] /\ SplitHi(S, n)[j] < at
             /\ j = k => SplitLo(T, n)[j] = at /\ SplitHi(T, n)[j] = at + 1
  <2> DEFINE x == SplitLo(S, n)[j]
             y == SplitHi(S, n)[j]
             u == SplitLo(T, n)[j]
             v == SplitHi(T, n)[j]
             w == Below(S, j)
             s == Cardinality(S)
  <2>1. /\ x = j + w /\ y = x + (IF j \in S THEN 1 ELSE 0) /\ x \in 1..p /\ y \in 1..p
        /\ u = j + w + (IF k < j THEN 1 ELSE 0) /\ v = u + (IF j \in S \/ j = k THEN 1 ELSE 0)
        /\ w \in Nat
    BY <1>6
  <2>2. (j < k => y < at) /\ (j >= k => w = s) /\ (j \in S => j < k) /\ s \in Nat /\ at = k + s
    <3>1. S \subseteq 1..(k - 1)
      BY DEF Among
    <3> QED
      BY <1>1, <1>2, <1>5, <1>7, <3>1
  <2>3. Ahead(at + 1, p)[x] = (IF x >= at + 1 THEN x + 1 ELSE x) /\ Ahead(at, p)[y] = (IF y >= at THEN y + 1 ELSE y)
    <3> HIDE DEF x, y
    <3> QED
      BY <2>1 DEF Ahead
  <2> HIDE DEF x, y, u, v, w, s
  <2>4. /\ u = (IF x >= at + 1 THEN x + 1 ELSE x) /\ v = (IF y >= at THEN y + 1 ELSE y)
        /\ x = at => j = k
        /\ j < k => u = x /\ x < at /\ v = y /\ y < at
        /\ j = k => u = at /\ v = at + 1
    BY <2>1, <2>2
  <2> QED
    BY <2>3, <2>4 DEF x, y, u, v
<1> QED
  BY <1>2, <1>3, <1>4, <1>6, <1>8 DEF SplitOnce

LEMMA ReadBodyForm ==
  ASSUME NEW b, b.code \in Seq(Instructions), b.eh \in Seq(Clauses)
  PROVE  /\ WellRead(ReadBody(b), Len(b.code))
         /\ \A j \in DOMAIN b.code : ReadBody(b).prog[j].op = LongForm(b.code[j].op)
<1> DEFINE c == b.code
           E == b.eh
           L == NewOffsets(c)
<1>1. c \in Seq(Instructions) /\ E \in Seq(Clauses) /\ Increasing(L) /\ Len(L) = Len(c) + 1
  BY LayoutIncreases
<1> HIDE DEF c, E, L
<1>2. WellRead(Reading(L, c, E), Len(c)) /\ \A j \in DOMAIN c : Reading(L, c, E).prog[j] = ReadInstruction(L, c[j])
  BY <1>1, ReadingForm
<1>3. ASSUME NEW j \in DOMAIN c PROVE ReadInstruction(L, c[j]).op = LongForm(c[j].op)
  BY DEF ReadInstruction
<1>4. \A j \in DOMAIN c : Reading(L, c, E).prog[j].op = LongForm(c[j].op)
  BY <1>2, <1>3
<1> QED
  BY <1>2, <1>4 DEF ReadBody, c, E, L

(* The pass over the loads splits those it has narrowed.                     *)
SplitInto(body, S, b) ==
  LET n == Len(body.code)
  IN  /\ Placed(b.code) /\ Len(b.code) = n + Cardinality(S)
      /\ \A j \in S : /\ b.code[SplitLo(S, n)[j]].op = "ldc_i4"
                      /\ b.code[SplitHi(S, n)[j]].op = "conv_i8"
      /\ Follows(ReadBody(body), ReadBody(b), SplitLo(S, n), SplitHi(S, n), S)

LEMMA SplitOn ==
  ASSUME NEW body, body.code \in Seq(Instructions), body.eh \in Seq(Clauses),
         NEW k \in DOMAIN body.code, NEW S, Among(S, k - 1),
         NEW b, b.code \in Seq(Instructions), b.eh \in Seq(Clauses), SplitInto(body, S, b),
         NEW at, at = k + Cardinality(S), b.code[at].op = "ldc_i8"
  PROVE  SplitInto(body, S \cup {k}, NarrowAt(b, at))
<1> DEFINE n == Len(body.code)
           p == Len(b.code)
           T == S \cup {k}
           f == SplitLo(S, n)
           g == SplitHi(S, n)
           lo == SplitLo(T, n)
           hi == SplitHi(T, n)
           u == Ahead(at + 1, p)
           v == Ahead(at, p)
           c == b.code
           after == NarrowAt(b, at)
           e == after.code
<1>1. n \in Nat /\ k \in 1..n
  OBVIOUS
<1>2. /\ Placed(c) /\ p = n + Cardinality(S)
      /\ \A j \in S : c[f[j]].op = "ldc_i4" /\ c[g[j]].op = "conv_i8"
      /\ Follows(ReadBody(body), ReadBody(b), f, g, S)
  BY DEF SplitInto
<1>3. /\ Cardinality(S) \in Nat /\ Cardinality(T) = Cardinality(S) + 1 /\ at \in 1..p /\ p \in Nat
      /\ \A j \in 1..n :
           /\ f[j] \in 1..p /\ g[j] \in 1..p
           /\ lo[j] = u[f[j]] /\ hi[j] = v[g[j]]
           /\ f[j] = at => j = k
           /\ j < k => lo[j] = f[j] /\ f[j] < at
           /\ j < k => hi[j] = g[j] /\ g[j] < at
      /\ lo[k] = at /\ hi[k] = at + 1
  <2>1. p = n + Cardinality(S)
    BY <1>2
  <2> HIDE DEF n, p
  <2>2. SplitOnce(n, k, S, at, p)
    BY <1>1, <2>1, SplitOneMore
  <2> QED
    BY <2>2 DEF SplitOnce
<1>4. at \in DOMAIN b.code
  BY <1>3
<1>5. Follows(ReadBody(b), ReadBody(after), u, v, {at})
  BY <1>2, <1>4, NarrowFollows
<1>6. /\ Len(e) = p + 1 /\ Placed(e) /\ e[at].op = "ldc_i4" /\ e[at + 1].op = "conv_i8"
      /\ \A q \in 1..p : q < at => e[q].op = c[q].op
  <2>1. NarrowedCode(b.code, NewOffsets(b.code), e, NewOffsets(e), at)
    BY <1>2, <1>4, NarrowParts
  <2> HIDE DEF e
  <2>2. /\ Len(e) = p + 1 /\ Placed(e) /\ e[at].op = "ldc_i4" /\ e[at + 1].op = "conv_i8"
        /\ \A j \in 1..p : j # at => e[IF j >= at + 1 THEN j + 1 ELSE j].op = c[j].op
    BY <2>1 DEF NarrowedCode
  <2>3. ASSUME NEW q \in 1..p, q < at PROVE e[q].op = c[q].op
    <3>1. q # at /\ (IF q >= at + 1 THEN q + 1 ELSE q) = q
      BY <1>3, <2>3
    <3> HIDE DEF c, p
    <3> QED
      BY <2>2, <3>1
  <2> QED
    BY <2>2, <2>3
<1>7. WellRead(ReadBody(body), n) /\ WellRead(ReadBody(b), p)
  BY ReadBodyForm
<1>8. Follows(ReadBody(body), ReadBody(after), lo, hi, T)
  <2>1. /\ \A j \in 1..n : f[j] \in 1..p /\ lo[j] = u[f[j]] /\ hi[j] = v[g[j]]
        /\ \A j \in 1..n : j \in S \/ f[j] \in {at} => j \in T
    <3> HIDE DEF n, p, f, g, lo, hi, u, v
    <3> QED
      BY <1>3
  <2> HIDE DEF n, p, f, g, lo, hi, u, v, T, after
  <2>2. OneAfterAnother(n, p, f, g, S, u, v, {at}, lo, hi, T)
    BY <2>1 DEF OneAfterAnother
  <2> QED
    BY <1>1, <1>2, <1>3, <1>5, <1>7, <2>2, FollowsOn
<1>9. ASSUME NEW j \in T PROVE e[lo[j]].op = "ldc_i4" /\ e[hi[j]].op = "conv_i8"
  <2>1. CASE j = k
    <3> HIDE DEF e, lo, hi
    <3> QED
      BY <1>3, <1>6, <2>1
  <2>2. CASE j \in S
    <3>1. j \in 1..n /\ j < k
      <4>1. S \subseteq 1..(k - 1)
        BY DEF Among
      <4> HIDE DEF n
      <4> QED
        BY <1>1, <2>2, <4>1
    <3> HIDE DEF e, lo, hi, f, g, n, p, c
    <3>2. lo[j] = f[j] /\ f[j] < at /\ f[j] \in 1..p /\ hi[j] = g[j] /\ g[j] < at /\ g[j] \in 1..p
      BY <1>3, <3>1
    <3> QED
      BY <1>2, <1>6, <2>2, <3>2
  <2> QED
    BY <1>9, <2>1, <2>2
<1>10. Len(e) = n + Cardinality(T)
  <2> HIDE DEF e, n, p, T
  <2> QED
    BY <1>1, <1>2, <1>3, <1>6
<1> HIDE DEF e, lo, hi, after, T
<1>11. SplitInto(body, T, after)
  BY <1>6, <1>8, <1>9, <1>10 DEF SplitInto, e, lo, hi
<1> QED
  BY <1>11 DEF after, T

(* Where the pass is after k loads.                                          *)
WideUpTo(c, k) == {i \in 1..k : c[i].op = "ldc_i8"}

Splits(body, k, now) ==
  /\ now.at = k + 1 + Cardinality(WideUpTo(body.code, k))
  /\ SplitInto(body, WideUpTo(body.code, k), now.body)

LEMMA WideSets ==
  ASSUME NEW c, NEW n \in Nat, NEW k \in 1..n
  PROVE  /\ Among(WideUpTo(c, k - 1), k - 1)
         /\ Cardinality(WideUpTo(c, k - 1)) \in Nat
         /\ WideUpTo(c, k) = IF c[k].op = "ldc_i8" THEN WideUpTo(c, k - 1) \cup {k} ELSE WideUpTo(c, k - 1)
         /\ Cardinality(WideUpTo(c, k)) =
              Cardinality(WideUpTo(c, k - 1)) + (IF c[k].op = "ldc_i8" THEN 1 ELSE 0)
<1> DEFINE m == k - 1
           S == WideUpTo(c, m)
<1>1. m \in Nat /\ Among(S, m)
  BY DEF Among, WideUpTo
<1>2. IsFiniteSet(S) /\ Cardinality(S) \in Nat /\ k \notin S
  <2>1. k \notin S
    BY DEF WideUpTo
  <2> HIDE DEF m, S
  <2>2. IsFiniteSet(S)
    BY <1>1, IndexSets
  <2> QED
    BY <2>1, <2>2, FS_CardinalityType
<1>3. WideUpTo(c, k) = IF c[k].op = "ldc_i8" THEN S \cup {k} ELSE S
  <2>1. \A i : i \in 1..k <=> i \in 1..m \/ i = k
    OBVIOUS
  <2> HIDE DEF m
  <2> QED
    BY <2>1 DEF WideUpTo
<1> HIDE DEF S
<1>4. Cardinality(S \cup {k}) = Cardinality(S) + 1
  BY <1>2, FS_AddElement
<1>5. Cardinality(WideUpTo(c, k)) = Cardinality(S) + (IF c[k].op = "ldc_i8" THEN 1 ELSE 0)
  BY <1>2, <1>3, <1>4
<1> QED
  BY <1>1, <1>2, <1>3, <1>5 DEF S

LEMMA SplitsStep ==
  ASSUME NEW body, body.code \in Seq(Instructions), body.eh \in Seq(Clauses),
         NEW k \in DOMAIN body.code, NEW b, NEW at,
         Narrowed(body, k - 1, [body |-> b, at |-> at]), Splits(body, k - 1, [body |-> b, at |-> at])
  PROVE  Splits(body, k, NarrowStep(body, k, [body |-> b, at |-> at]))
<1> DEFINE c == body.code
           n == Len(c)
           S == WideUpTo(c, k - 1)
           W == WideUpTo(c, k)
           s == Cardinality(S)
<1>1. n \in Nat /\ k \in 1..n /\ c \in Seq(Instructions) /\ (k - 1) + 1 = k
  OBVIOUS
<1>2. at = k + s /\ SplitInto(body, S, b)
  BY <1>1 DEF Splits
<1>3. /\ Among(S, k - 1) /\ s \in Nat
      /\ W = IF c[k].op = "ldc_i8" THEN S \cup {k} ELSE S
      /\ Cardinality(W) = s + (IF c[k].op = "ldc_i8" THEN 1 ELSE 0)
  <2> HIDE DEF n, c
  <2> QED
    BY <1>1, WideSets
<1>4. /\ b.code \in Seq(Instructions) /\ b.eh \in Seq(Clauses)
      /\ \A j \in ((k - 1) + 1)..n : b.code[j + (at - (k - 1) - 1)].op = c[j].op
  BY DEF Narrowed
<1> HIDE DEF n, c, S, W
<1>5. b.code[at].op = c[k].op
  <2>1. k \in ((k - 1) + 1)..n /\ k + (at - (k - 1) - 1) = at
    BY <1>1, <1>2, <1>3
  <2> QED
    BY <1>4, <2>1
<1>6. CASE c[k].op = "ldc_i8"
  <2>1. NarrowStep(body, k, [body |-> b, at |-> at]) = [body |-> NarrowAt(b, at), at |-> at + 2]
    BY <1>6 DEF NarrowStep, c
  <2>2. SplitInto(body, W, NarrowAt(b, at))
    <3>1. W = S \cup {k} /\ b.code[at].op = "ldc_i8" /\ at = k + Cardinality(S)
      BY <1>2, <1>3, <1>5, <1>6
    <3>2. SplitInto(body, S \cup {k}, NarrowAt(b, at))
      BY <1>1, <1>2, <1>3, <1>4, <3>1, SplitOn DEF c
    <3> QED
      BY <3>1, <3>2
  <2>3. at + 2 = k + 1 + Cardinality(W)
    BY <1>1, <1>2, <1>3, <1>6
  <2> QED
    BY <2>1, <2>2, <2>3 DEF Splits, W, c
<1>7. CASE c[k].op # "ldc_i8"
  <2>1. NarrowStep(body, k, [body |-> b, at |-> at]) = [body |-> b, at |-> at + 1]
    BY <1>7 DEF NarrowStep, c
  <2>2. SplitInto(body, W, b)
    BY <1>2, <1>3, <1>7
  <2>3. at + 1 = k + 1 + Cardinality(W)
    BY <1>1, <1>2, <1>3, <1>7
  <2> QED
    BY <2>1, <2>2, <2>3 DEF Splits, W, c
<1> QED
  BY <1>6, <1>7

LEMMA SplitsNothing ==
  ASSUME NEW body, body.code \in Seq(Instructions), body.eh \in Seq(Clauses), Placed(body.code)
  PROVE  WideUpTo(body.code, 0) = {} /\ Cardinality({}) = 0 /\ SplitInto(body, {}, body)
<1> DEFINE n == Len(body.code)
<1>1. n \in Nat
  OBVIOUS
<1>2. WideUpTo(body.code, 0) = {}
  BY DEF WideUpTo
<1>3. Cardinality({}) = 0
  BY FS_EmptySet
<1>4. SplitLo({}, n) = Id(n) /\ SplitHi({}, n) = Id(n)
  <2>1. \A j : Below({}, j) = 0
    <3>1. ASSUME NEW j PROVE {i \in {} : i < j} = {}
      OBVIOUS
    <3> QED
      BY <1>3, <3>1 DEF Below
  <2> HIDE DEF n
  <2> QED
    BY <2>1 DEF SplitLo, SplitHi, Id
<1>5. Follows(ReadBody(body), ReadBody(body), Id(n), Id(n), {})
  <2>1. Increasing(NewOffsets(body.code)) /\ Len(NewOffsets(body.code)) = Len(body.code) + 1
    BY LayoutIncreases
  <2>2. Keeps(ReadBody(body), ReadBody(body), n)
    BY <2>1, KeepsItself DEF ReadBody
  <2> QED
    BY <2>2 DEF Keeps
<1>6. Len(body.code) = n + Cardinality({})
  BY <1>1, <1>3
<1>7. SplitInto(body, {}, body)
  BY <1>4, <1>5, <1>6 DEF SplitInto
<1> QED
  BY <1>2, <1>3, <1>7

(* optimize_longs splits the wide loads, and keeps what it is not about.     *)
LEMMA LongsSplit ==
  ASSUME NEW body, body.code \in Seq(Instructions), body.eh \in Seq(Clauses), Placed(body.code)
  PROVE  SplitInto(body, WideUpTo(body.code, Len(body.code)), LongsOptimized(body))
<1> DEFINE n == Len(body.code)
           pass == CHOOSE f : NarrowPass(body, n, f)
<1>1. n \in Nat /\ DOMAIN body.code = 1..n
  OBVIOUS
<1>2. LongsOptimized(body) = pass[n].body
  BY DEF LongsOptimized, NarrowPass, NarrowStep
<1>3. NarrowPass(body, n, pass)
  BY <1>1, NarrowPassExists
<1> HIDE DEF pass, n
<1> DEFINE Good(k) == \E b, at : /\ pass[k] = [body |-> b, at |-> at]
                                 /\ Narrowed(body, k, [body |-> b, at |-> at])
                                 /\ Splits(body, k, [body |-> b, at |-> at])
           Bad == {k \in 0..n : ~Good(k)}
<1>4. Good(0)
  <2>1. pass[0] = [body |-> body, at |-> 1]
    BY <1>1, <1>3 DEF NarrowPass
  <2>2. \A j \in 1..n : j + 0 = j
    BY <1>1
  <2>3. n + 0 = n /\ 0 + 1 = 1 /\ 1 - 0 - 1 = 0
    BY <1>1
  <2>4. Narrowed(body, 0, [body |-> body, at |-> 1])
    BY <1>1, <2>2, <2>3 DEF Narrowed, n
  <2>5. Splits(body, 0, [body |-> body, at |-> 1])
    <3>1. WideUpTo(body.code, 0) = {} /\ Cardinality({}) = 0 /\ SplitInto(body, {}, body)
      BY SplitsNothing
    <3>2. 1 = 0 + 1 + 0
      OBVIOUS
    <3> QED
      BY <3>1, <3>2 DEF Splits
  <2> QED
    BY <2>1, <2>4, <2>5
<1>5. ASSUME NEW k \in 1..n, Good(k - 1) PROVE Good(k)
  <2>1. k \in DOMAIN body.code /\ k \in 0..n /\ k # 0
    BY <1>1
  <2>2. pass[k] = NarrowStep(body, k, pass[k - 1])
    BY <1>3, <2>1 DEF NarrowPass
  <2>3. PICK b, at : /\ pass[k - 1] = [body |-> b, at |-> at]
                     /\ Narrowed(body, k - 1, [body |-> b, at |-> at])
                     /\ Splits(body, k - 1, [body |-> b, at |-> at])
    BY <1>5
  <2>4. pass[k] = NarrowStep(body, k, [body |-> b, at |-> at])
    BY <2>2, <2>3
  <2>5. Narrowed(body, k, pass[k]) /\ Splits(body, k, pass[k])
    <3>1. Narrowed(body, k, NarrowStep(body, k, [body |-> b, at |-> at]))
      BY <2>1, <2>3, NarrowStepType
    <3>2. Splits(body, k, NarrowStep(body, k, [body |-> b, at |-> at]))
      BY <2>1, <2>3, SplitsStep
    <3> QED
      BY <2>4, <3>1, <3>2
  <2>6. \E b2, at2 : pass[k] = [body |-> b2, at |-> at2]
    <3>1. NarrowStep(body, k, [body |-> b, at |-> at])
            \in {[body |-> NarrowAt(b, at), at |-> at + 2], [body |-> b, at |-> at + 1]}
      BY DEF NarrowStep
    <3> QED
      BY <2>4, <3>1
  <2> HIDE DEF Bad
  <2> QED
    BY <2>5, <2>6
<1> HIDE DEF Good
<1>6. Bad = {}
  <2>1. SUFFICES ASSUME Bad # {} PROVE FALSE
    OBVIOUS
  <2>2. PICK k \in Bad : \A j \in Bad : k <= j
    <3>1. Bad \in SUBSET Nat
      BY <1>1
    <3> HIDE DEF Bad
    <3> QED
      BY <2>1, <3>1, LeastNat
  <2>3. k \in 0..n /\ ~Good(k)
    BY <2>2
  <2>4. k \in 1..n
    BY <1>1, <1>4, <2>3
  <2>5. k - 1 \in 0..n /\ k - 1 \notin Bad
    <3> HIDE DEF Bad
    <3> QED
      BY <1>1, <2>2, <2>4
  <2>6. Good(k - 1)
    BY <2>5
  <2> QED
    BY <1>5, <2>3, <2>4, <2>6
<1>7. Good(n)
  BY <1>1, <1>6
<1>8. PICK b, at : pass[n] = [body |-> b, at |-> at] /\ Splits(body, n, [body |-> b, at |-> at])
  BY <1>7 DEF Good
<1>9. SplitInto(body, WideUpTo(body.code, n), b) /\ LongsOptimized(body) = b
  BY <1>2, <1>8 DEF Splits
<1> QED
  BY <1>9 DEF n

(* Splitting the wide loads is what the abstract editor calls narrowing.     *)
WideRead(a, n) == {j \in 1..n : a.prog[j].op = "ldc_i8"}

LEMMA SplitIsNarrowing ==
  ASSUME NEW a, NEW b, NEW n \in Nat, WellRead(a, n), NEW W,
         W = WideRead(a, n),
         Len(b.prog) = n + Cardinality(W), Follows(a, b, SplitLo(W, n), SplitHi(W, n), W),
         \A j \in W : /\ b.prog[SplitLo(W, n)[j]].op = "ldc_i4"
                      /\ b.prog[SplitHi(W, n)[j]].op = "conv_i8"
  PROVE  AbsStep(a, b)
<1> DEFINE lo == SplitLo(W, n)
           hi == SplitHi(W, n)
           moved == Abs!Splitting(a.prog, W)
<1>1. DOMAIN a.prog = 1..n /\ Len(a.prog) = n /\ W = {j \in DOMAIN a.prog : a.prog[j].op = "ldc_i8"}
  BY DEF WellRead, WideRead
<1>2. Among(W, n)
  BY DEF Among, WideRead
<1>3. /\ InOrder(lo, hi, n)
      /\ \A j \in 1..n : lo[j] = j + Below(W, j) /\ hi[j] = lo[j] + (IF j \in W THEN 1 ELSE 0)
  <2>1. InOrder(lo, hi, n)
    BY <1>2, SplitOrder, Zenon
  <2>2. ASSUME NEW S, Among(S, n), NEW j \in 1..n
        PROVE  /\ SplitLo(S, n)[j] = j + Below(S, j)
               /\ SplitHi(S, n)[j] = SplitLo(S, n)[j] + (IF j \in S THEN 1 ELSE 0)
    BY <2>2, SplitOrder
  <2>3. \A j \in 1..n : lo[j] = j + Below(W, j) /\ hi[j] = lo[j] + (IF j \in W THEN 1 ELSE 0)
    BY <1>2, <2>2
  <2> QED
    BY <2>1, <2>3
<1>4. ASSUME NEW j \in 1..n PROVE moved[j] = {lo[j], hi[j]}
  <2> DEFINE new == j + Abs!Cardinality({k \in W : k < j})
  <2>1. new = lo[j]
    BY <1>3, CountIsCardinality DEF Below
  <2>2. moved[j] = IF j \in W THEN {new, new + 1} ELSE {new}
    BY <1>1 DEF Abs!Splitting
  <2>3. hi[j] = IF j \in W THEN new + 1 ELSE new
    <3>1. lo[j] \in Nat
      BY <1>3 DEF InOrder
    <3> HIDE DEF new, lo, hi
    <3> QED
      BY <1>3, <2>1, <3>1
  <2> HIDE DEF new, lo, hi, moved
  <2> QED
    BY <2>1, <2>2, <2>3
<1>9. /\ Follows(a, b, lo, hi, W)
      /\ \A j \in W : b.prog[lo[j]].op = "ldc_i4" /\ b.prog[hi[j]].op = "conv_i8"
  OBVIOUS
<1> HIDE DEF lo, hi, moved
<1>5. Abs!Edit(a, b, moved, W)
  BY <1>3, <1>4, <1>9, FollowsIsEdit
<1>6. ASSUME NEW j \in W
      PROVE  b.prog[Abs!Min(moved[j])].op = "ldc_i4" /\ b.prog[Abs!Max(moved[j])].op = "conv_i8"
  <2>1. j \in 1..n
    BY DEF WideRead
  <2>2. lo[j] \in Nat /\ hi[j] \in Nat /\ lo[j] <= hi[j] /\ moved[j] = {lo[j], hi[j]}
    BY <1>3, <1>4, <2>1 DEF InOrder
  <2>3. Abs!Min({lo[j], hi[j]}) = lo[j] /\ Abs!Max({lo[j], hi[j]}) = hi[j]
    <3> DEFINE x == lo[j]
               y == hi[j]
               S == {x, y}
    <3>1. S \subseteq Int /\ x \in S /\ y \in S /\ (\A z \in S : x <= z) /\ (\A z \in S : z <= y)
      BY <2>2
    <3> HIDE DEF S
    <3>2. Abs!Min(S) = x
      BY <3>1, MinOf, Zenon
    <3>3. Abs!Max(S) = y
      BY <3>1, MaxOf, Zenon
    <3> QED
      BY <3>2, <3>3 DEF S
  <2> QED
    BY <1>9, <2>2, <2>3
<1>7. Len(b.prog) = Len(a.prog) + Abs!Cardinality(W)
  BY <1>1, CountIsCardinality
<1>8. Abs!Narrowed(a, b)
  <2> DEFINE wide == {j \in DOMAIN a.prog : a.prog[j].op = "ldc_i8"}
  <2>1. wide = W
    BY <1>1
  <2>2. /\ Len(b.prog) = Len(a.prog) + Abs!Cardinality(wide)
        /\ Abs!Edit(a, b, Abs!Splitting(a.prog, wide), wide)
        /\ \A j \in wide : /\ b.prog[Abs!Min(Abs!Splitting(a.prog, wide)[j])].op = "ldc_i4"
                           /\ b.prog[Abs!Max(Abs!Splitting(a.prog, wide)[j])].op = "conv_i8"
    <3> HIDE DEF wide
    <3> QED
      BY <1>5, <1>6, <1>7, <2>1 DEF moved
  <2> QED
    BY <2>2, Zenon DEF Abs!Narrowed
<1> QED
  BY <1>8 DEF AbsStep

(* What the narrowed body becomes when its macros are optimized.             *)
LEMMA NarrowedIsStep ==
  ASSUME NEW body, body.code \in Seq(Instructions), body.eh \in Seq(Clauses), Placed(body.code)
  PROVE  LET longs == LongsOptimized(body)
         IN  AbsStep(ReadBody(body), ReadBody(Optimized(Renumbered(longs.code, longs.eh))))
<1> DEFINE c == body.code
           n == Len(c)
           W == WideUpTo(c, n)
           longs == LongsOptimized(body)
           p == Len(longs.code)
           b == Renumbered(longs.code, longs.eh)
           r == Optimized(b)
           lo == SplitLo(W, n)
           hi == SplitHi(W, n)
<1>1. n \in Nat /\ p \in Nat /\ DOMAIN c = 1..n
  <2>1. longs.code \in Seq(Instructions)
    BY LongsOptimizedType
  <2> HIDE DEF longs
  <2> QED
    BY <2>1
<1>2. longs.code \in Seq(Instructions) /\ longs.eh \in Seq(Clauses)
  BY LongsOptimizedType
<1>3. SplitInto(body, W, longs)
  BY LongsSplit
<1> HIDE DEF longs
<1>4. /\ Placed(longs.code) /\ p = n + Cardinality(W)
      /\ \A j \in W : longs.code[lo[j]].op = "ldc_i4" /\ longs.code[hi[j]].op = "conv_i8"
      /\ Follows(ReadBody(body), ReadBody(longs), lo, hi, W)
  BY <1>3 DEF SplitInto
<1>5. Settled(b) /\ Len(b.code) = p
  BY <1>2, RenumberedType
<1>6. Keeps(ReadBody(longs), ReadBody(r), p)
  <2>1. Keeps(ReadBody(longs), ReadBody(b), p)
    <3> DEFINE L == NewOffsets(longs.code)
    <3>1. Increasing(L) /\ Len(L) = Len(longs.code) + 1
      BY <1>2, LayoutIncreases
    <3>2. Snapshot(longs.code) = L
      BY <1>2, <1>4, PlacedIsSnapshot
    <3>3. NewOffsets(longs.code) = L
      OBVIOUS
    <3> HIDE DEF L
    <3>4. Keeps(Reading(L, longs.code, longs.eh), ReadBody(b), p)
      BY <1>2, <3>1, <3>2, <3>3, RenumberKeeps
    <3> QED
      BY <3>4 DEF ReadBody, L
  <2>2. Keeps(ReadBody(b), ReadBody(r), p)
    <3> HIDE DEF b, p
    <3> QED
      BY <1>5, PassesKeep
  <2> HIDE DEF b, p, r
  <2> QED
    BY <1>1, <2>1, <2>2, KeepsTransitive
<1> HIDE DEF b, r
<1>7. WellRead(ReadBody(body), n) /\ WellRead(ReadBody(longs), p)
      /\ \A j \in 1..p : ReadBody(longs).prog[j].op = LongForm(longs.code[j].op)
  <2>1. DOMAIN longs.code = 1..p
    BY <1>2
  <2> QED
    BY <1>2, <2>1, ReadBodyForm
<1>8. Among(W, n) /\ \A j \in 1..n : lo[j] \in 1..p /\ hi[j] \in 1..p
  <2>1. Among(W, n)
    BY DEF Among, WideUpTo
  <2> HIDE DEF W, n, p
  <2> QED
    BY <1>1, <1>4, <2>1, SplitOrder
<1>9. Follows(ReadBody(longs), ReadBody(r), Id(p), Id(p), {}) /\ WellRead(ReadBody(r), p)
  BY <1>6 DEF Keeps
<1> HIDE DEF lo, hi, n, p, W
<1>10. Follows(ReadBody(body), ReadBody(r), lo, hi, W)
  <2>1. OneAfterAnother(n, p, lo, hi, W, Id(p), Id(p), {}, lo, hi, W)
    BY <1>8 DEF OneAfterAnother, Id
  <2> QED
    BY <1>1, <1>4, <1>7, <1>9, <2>1, FollowsOn
<1>11. ASSUME NEW q \in 1..p PROVE ReadBody(r).prog[q].op = LongForm(longs.code[q].op)
  <2>1. q \in DOMAIN ReadBody(longs).prog \ {} /\ Id(p)[q] = q
    BY <1>7 DEF WellRead, Id
  <2>2. InstructionFollowed(ReadBody(longs).prog[q], ReadBody(r).prog[Id(p)[q]], Id(p))
    BY <1>9, <2>1 DEF Follows
  <2> QED
    BY <1>7, <2>1, <2>2 DEF InstructionFollowed
<1>12. ASSUME NEW j \in W PROVE ReadBody(r).prog[lo[j]].op = "ldc_i4" /\ ReadBody(r).prog[hi[j]].op = "conv_i8"
  <2>1. lo[j] \in 1..p /\ hi[j] \in 1..p
    BY <1>8 DEF Among
  <2>2. LongForm("ldc_i4") = "ldc_i4" /\ LongForm("conv_i8") = "conv_i8"
    BY DEF LongForm
  <2> QED
    BY <1>4, <1>11, <2>1, <2>2
<1>13. W = WideRead(ReadBody(body), n)
  <2>1. ASSUME NEW j \in 1..n PROVE ReadBody(body).prog[j].op = "ldc_i8" <=> c[j].op = "ldc_i8"
    <3>1. ReadBody(body).prog[j].op = LongForm(c[j].op)
      BY <1>1, ReadBodyForm
    <3>2. LongForm(c[j].op) = "ldc_i8" <=> c[j].op = "ldc_i8"
      BY DEF LongForm
    <3> QED
      BY <3>1, <3>2
  <2> QED
    BY <2>1 DEF W, WideUpTo, WideRead
<1>14. Len(ReadBody(r).prog) = n + Cardinality(W)
  BY <1>4, <1>9 DEF WellRead
<1>15. AbsStep(ReadBody(body), ReadBody(r))
  BY <1>1, <1>7, <1>10, <1>12, <1>13, <1>14, SplitIsNarrowing DEF lo, hi
<1> QED
  BY <1>15 DEF r, b, longs

LEMMA OptimizeSteps ==
  ASSUME TypeOK, CurrentIs, CurrentIs', Optimize
  PROVE  AbsStep(Reading(CurrentLayout, code, eh), Reading(CurrentLayout', code', eh'))
<1> DEFINE body == [code |-> code, eh |-> eh]
           longs == LongsOptimized(body)
           b == Optimized(Renumbered(longs.code, longs.eh))
<1>1. code \in Seq(Instructions) /\ eh \in Seq(Clauses) /\ Consistent /\ rewritten' = {} /\ Become(b)
  BY DEF TypeOK, Optimize, Consistent
<1>2. Placed(code)
  BY <1>1 DEF CurrentIs
<1>3. body.code = code /\ body.eh = eh
  OBVIOUS
<1> HIDE DEF body
<1>4. AbsStep(ReadBody(body), ReadBody(b))
  BY <1>1, <1>2, <1>3, NarrowedIsStep
<1> HIDE DEF b
<1>5. /\ Reading(CurrentLayout, code, eh) = ReadBody(body)
      /\ Reading(CurrentLayout', code', eh') = ReadBody(b)
  <2>1. code' = b.code /\ eh' = b.eh
    BY <1>1 DEF Become
  <2>2. /\ Reading(CurrentLayout, code, eh) = Reading(NewOffsets(code), code, eh)
        /\ Reading(CurrentLayout', code', eh') = ReadBody(b)
    BY <1>1, <2>1, PlacedReadings
  <2> QED
    BY <1>3, <2>2 DEF ReadBody
<1> QED
  BY <1>4, <1>5

-------------------------------------------------------------------------------
(* A step of the editor is a step of what it promises, or none.              *)
OldReading == Reading(CurrentLayout, code, eh)
NewReading == Reading(CurrentLayout', code', eh')

LEMMA EditorSteps ==
  ASSUME TypeOK, CurrentIs, CurrentIs',
         \/ \E index \in 1..(Len(code) + 2), op \in Ops :
              LET at == IF index <= Len(code) THEN index ELSE Len(code) + 1
              IN  \E instr \in Authored(op, Starts(InsertAt(code, at, Blank(op)))) :
                    InsertAtIndex(index, instr)
         \/ \E index \in DOMAIN code, op \in Ops :
              \E instr \in Authored(op, Starts(ReplaceAt(code, index, Blank(op)))) :
                Replace(index, instr)
         \/ \E first \in DOMAIN code, end \in 1..(Len(code) + 2) : RemoveRange(first, end)
  PROVE  AbsStep(OldReading, NewReading)
<1>1. code \in Seq(Instructions)
  BY DEF TypeOK
<1>2. ASSUME NEW index \in 1..(Len(code) + 2), NEW op \in Ops,
             NEW instr \in Authored(op, Starts(InsertAt(code,
               IF index <= Len(code) THEN index ELSE Len(code) + 1, Blank(op)))),
             InsertAtIndex(index, instr)
      PROVE  AbsStep(OldReading, NewReading)
  <2> DEFINE at == IF index <= Len(code) THEN index ELSE Len(code) + 1
  <2>1. at \in 1..(Len(code) + 1) /\ Blank(op) \in Instructions
    BY <1>1, BlankType
  <2> HIDE DEF at
  <2>2. Starts(InsertAt(code, at, Blank(op))) \subseteq Int
    BY <1>1, <2>1, InsertType, StartsType
  <2>3. instr \in Instructions
    BY <2>2, AuthoredType DEF at
  <2> QED
    BY <1>2, <2>3, InsertSteps DEF OldReading, NewReading
<1>3. ASSUME NEW index \in DOMAIN code, NEW op \in Ops,
             NEW instr \in Authored(op, Starts(ReplaceAt(code, index, Blank(op)))),
             Replace(index, instr)
      PROVE  AbsStep(OldReading, NewReading)
  <2>1. Blank(op) \in Instructions
    BY BlankType
  <2>2. Starts(ReplaceAt(code, index, Blank(op))) \subseteq Int
    BY <1>1, <2>1, ReplaceType, StartsType
  <2>3. instr \in Instructions
    BY <2>2, AuthoredType
  <2> QED
    BY <1>3, <2>3, ReplaceSteps DEF OldReading, NewReading
<1>4. ASSUME NEW first \in DOMAIN code, NEW end \in 1..(Len(code) + 2), RemoveRange(first, end)
      PROVE  AbsStep(OldReading, NewReading)
  <2>1. end \in Int
    BY <1>1
  <2> QED
    BY <1>4, <2>1, RemoveSteps DEF OldReading, NewReading
<1> QED
  BY <1>2, <1>3, <1>4

LEMMA PassSteps ==
  ASSUME TypeOK, LayoutInv, CurrentIs, CurrentIs',
         Capture \/ Remap \/ Renumber \/ SimplifyMacros \/ OptimizeMacros \/ Optimize
  PROVE  AbsStep(OldReading, NewReading)
<1>1. CASE Optimize
  BY <1>1, OptimizeSteps DEF OldReading, NewReading
<1>2. CASE Capture \/ Remap \/ Renumber \/ SimplifyMacros \/ OptimizeMacros
  <2>1. Keeps(OldReading, NewReading, Len(code)) /\ Len(code) \in Nat
    <3>1. code \in Seq(Instructions)
      BY DEF TypeOK
    <3> QED
      BY <1>2, <3>1, RelocationSteps, CaptureStep DEF OldReading, NewReading
  <2> QED
    BY <2>1, KeepsStep
<1> QED
  BY <1>1, <1>2

LEMMA ReadingSteps ==
  ASSUME TypeOK, LayoutInv, TypeOK', CurrentIs, CurrentIs', Next
  PROVE  AbsStep(OldReading, NewReading) \/ NewReading = OldReading
<1>1. ASSUME Clear PROVE AbsStep(OldReading, NewReading)
  BY <1>1, ClearStep DEF OldReading, NewReading
<1>2. ASSUME NEW c, AuthorBody(c) PROVE AbsStep(OldReading, NewReading)
  BY <1>2, AuthorStep DEF OldReading, NewReading
<1>3. ASSUME DropClauses \/ \E first, last, hfirst, hlast, filter :
                              AddClause(first, last, hfirst, hlast, filter)
      PROVE  AbsStep(OldReading, NewReading)
  BY <1>3, ClauseSteps DEF OldReading, NewReading
<1>4. ASSUME NEW index \in DOMAIN code, NEW op \in Ops, Rewrite(index, op)
      PROVE  NewReading = OldReading
  BY <1>4, RewriteStep DEF OldReading, NewReading
<1> HIDE DEF OldReading, NewReading
<1> QED
  BY <1>1, <1>2, <1>3, <1>4, EditorSteps, PassSteps, Zenon DEF Next

LEMMA AbsNext == TypeOK /\ LayoutInv /\ [Next]_vars /\ TypeOK' /\ LayoutInv' => [Abs!ONext]_OldReading
<1> SUFFICES ASSUME TypeOK, LayoutInv, [Next]_vars, TypeOK', LayoutInv'
             PROVE  Abs!ONext \/ OldReading' = OldReading
  OBVIOUS
<1>1. CurrentIs
  BY Current
<1>2. (TypeOK /\ LayoutInv => CurrentIs)'
  BY Current, PTL
<1>3. CurrentIs'
  BY <1>2
<1>4. OldReading' = NewReading
  BY DEF OldReading, NewReading
<1>5. CASE Next
  <2>1. AbsStep(OldReading, NewReading) \/ NewReading = OldReading
    BY <1>1, <1>3, <1>5, ReadingSteps
  <2>2. ASSUME AbsStep(OldReading, NewReading) PROVE Abs!ONext
    BY <2>2, AbsNextIs DEF OldReading, NewReading
  <2> QED
    BY <1>4, <2>1, <2>2
<1>6. CASE UNCHANGED vars
  <2>1. code' = code /\ eh' = eh /\ layout' = layout /\ rewritten' = rewritten
    BY <1>6 DEF vars
  <2>2. CurrentLayout' = CurrentLayout
    BY <2>1 DEF CurrentLayout
  <2> QED
    BY <2>1, <2>2 DEF OldReading
<1> QED
  BY <1>5, <1>6

(* The offset-based body editor of cecil-rs/src/edit.rs and the macro passes *)
(* of cecil-rocks implement the editor that moves references: whatever the   *)
(* body and however it is edited, captured, remapped, renumbered, simplified *)
(* or optimized, branches and clauses follow the instructions they are about.*)
THEOREM EditingByReferences == Spec => ImplementsILProcessor
<1>1. Init => TypeOK /\ LayoutInv
  <2> SUFFICES ASSUME Init PROVE TypeOK /\ LayoutInv
    OBVIOUS
  <2>1. code \in Seq(Instructions) /\ eh \in Seq(Clauses) /\ code = <<>>
    BY DEF Init
  <2>2. Placed(code)
    BY <2>1 DEF Placed
  <2>3. Snapshot(code) = NewOffsets(code)
    BY <2>1, <2>2, PlacedIsSnapshot
  <2> QED
    BY <2>1, <2>3 DEF Init, TypeOK, LayoutInv
<1>2. Init => Abs!OInit
  BY DEF Init, Abs!OInit, Reading
<1>3. Spec => [](TypeOK /\ LayoutInv)
  BY <1>1, NextTypes, LayoutNext, PTL DEF Spec
<1>4. TypeOK /\ LayoutInv /\ [Next]_vars /\ (TypeOK /\ LayoutInv)' => [Abs!ONext]_(Reading(CurrentLayout, code, eh))
  BY AbsNext DEF OldReading
<1>5. Spec => Abs!OSpec
  BY <1>2, <1>3, <1>4, PTL DEF Spec, Abs!OSpec
<1> QED
  BY <1>5 DEF ImplementsILProcessor
===============================================================================
