--------------------------- MODULE ResolutionProofs ---------------------------
(***************************************************************************)
(* Proofs about Resolution, for any files, questions and number of         *)
(* questions.                                                               *)
(***************************************************************************)
EXTENDS Resolution, SequenceTheorems, WellFoundedInduction, TLAPS

-------------------------------------------------------------------------------
(* First elements, and the winner of a pass.                                 *)

LEMMA LeastNat ==
  ASSUME NEW S \in SUBSET Nat, S # {}
  PROVE  \E n \in S : \A m \in S : n <= m
<1>1. PICK x \in S : \A y \in S : ~(<<y, x>> \in OpToRel(<, Nat))
  BY NatLessThanWellFounded, WFMin
<1>2. \A y \in S : ~(y < x)
  BY <1>1 DEF OpToRel
<1> QED
  BY <1>2

LEMMA MinIsLeast ==
  ASSUME NEW S \in SUBSET Nat, S # {}
  PROVE  Min(S) \in S /\ \A m \in S : Min(S) <= m
BY LeastNat DEF Min

(* A set of indices with its later elements beyond it keeps its minimum.     *)
LEMMA MinStays ==
  ASSUME NEW T \in SUBSET Nat, NEW S \in SUBSET T, S # {},
         \A x \in T \ S : \A y \in S : y < x
  PROVE  Min(T) = Min(S)
<1>1. Min(T) \in T /\ \A m \in T : Min(T) <= m
  BY MinIsLeast
<1>2. Min(S) \in S /\ \A m \in S : Min(S) <= m
  BY MinIsLeast
<1>3. Min(T) \in Nat /\ Min(S) \in Nat /\ Min(S) \in T
  BY <1>1, <1>2
<1> QED
  BY <1>1, <1>2, <1>3

LEMMA TakesOverOrder ==
  ASSUME NEW a \in Int, NEW b \in Int, NEW c \in Int, NEW floor \in Int,
         TakesOver(a, b, floor), TakesOver(b, c, floor) \/ ~TakesOver(c, b, floor)
  PROVE  TakesOver(a, c, floor)
<1>1. \A x, y \in Int : TakesOver(x, y, floor) <=>
          \/ x >= floor /\ y < floor
          \/ (x >= floor <=> y >= floor) /\ x > y
  BY DEF TakesOver
<1> QED
  BY <1>1

(* A pass over finitely many versions has a winner: the least initial part   *)
(* without one would be one version longer than a part that has one, and     *)
(* that version takes over from its winner or does not.                      *)
LEMMA PassHasWinner ==
  ASSUME NEW n \in Nat, NEW S \in SUBSET (1..n), S # {},
         NEW v, \A k \in S : v[k] \in Nat, NEW floor \in Int
  PROVE  \E k \in S : \A j \in S : Withstands(k, v[k], j, v[j], floor)
<1> DEFINE Part(m) == {k \in S : k <= m}
           Wins(k, m) == \A j \in Part(m) : Withstands(k, v[k], j, v[j], floor)
           Bad == {m \in Nat : Part(m) # {} /\ ~\E k \in Part(m) : Wins(k, m)}
<1>0. /\ \A m, k : k \in Part(m) <=> k \in S /\ k <= m
      /\ \A m : m \in Bad <=> m \in Nat /\ Part(m) # {} /\ ~\E k \in Part(m) : Wins(k, m)
      /\ \A k, m : Wins(k, m) <=> \A j \in Part(m) : Withstands(k, v[k], j, v[j], floor)
      /\ Bad \in SUBSET Nat
      /\ \A k \in S : k \in Nat /\ k > 0 /\ k <= n
  OBVIOUS
<1> HIDE DEF Part, Wins, Bad
<1>1. ASSUME Bad # {} PROVE FALSE
  <2>1. PICK m \in Bad : \A x \in Bad : m <= x
    BY <1>0, <1>1, LeastNat
  <2>2. m \in Nat /\ Part(m) # {} /\ ~\E k \in Part(m) : Wins(k, m)
    BY <1>0, <2>1
  <2>3. m > 0 /\ m - 1 \in Nat /\ m - 1 \notin Bad
    <3>1. PICK k : k \in S /\ k <= m
      BY <1>0, <2>2
    <3>2. m > 0 /\ m - 1 \in Nat
      BY <1>0, <2>2, <3>1
    <3> QED
      BY <2>1, <2>2, <3>2
  <2>4. \A k : k \in Part(m) <=> k \in Part(m - 1) \/ (k \in S /\ k = m)
    <3> SUFFICES ASSUME NEW k
                 PROVE  k \in Part(m) <=> k \in Part(m - 1) \/ (k \in S /\ k = m)
      OBVIOUS
    <3>1. /\ k \in Part(m) <=> k \in S /\ k <= m
          /\ k \in Part(m - 1) <=> k \in S /\ k <= m - 1
          /\ k \in S => k \in Nat
      BY <1>0
    <3> QED
      BY <2>2, <3>1
  <2>5. CASE m \notin S
    <3>1. Part(m) = Part(m - 1)
      BY <2>4, <2>5
    <3> QED
      BY <1>0, <2>2, <2>3, <3>1
  <2>6. CASE m \in S /\ Part(m - 1) = {}
    <3>1. \A j \in Part(m) : j = m
      BY <2>4, <2>6
    <3>2. Withstands(m, v[m], m, v[m], floor)
      BY <2>2 DEF Withstands
    <3> QED
      BY <1>0, <2>2, <3>1, <3>2
  <2>7. CASE m \in S /\ Part(m - 1) # {}
    <3>1. PICK w \in Part(m - 1) : Wins(w, m - 1)
      BY <1>0, <2>3, <2>7
    <3>2. w \in S /\ w < m /\ v[w] \in Nat /\ v[m] \in Nat /\ w \in Nat
      <4>1. w \in S /\ w <= m - 1 /\ w \in Nat
        BY <1>0, <3>1
      <4> QED
        BY <2>2, <2>7, <4>1
    <3>3. CASE TakesOver(v[m], v[w], floor)
      <4>1. ASSUME NEW j \in Part(m) PROVE Withstands(m, v[m], j, v[j], floor)
        <5>1. j = m \/ (j \in Part(m - 1) /\ j < m)
          <6>1. CASE j \in Part(m - 1)
            <7>1. j \in S /\ j <= m - 1 /\ j \in Nat
              BY <1>0, <6>1
            <7> QED
              BY <2>2, <6>1, <7>1
          <6> QED
            BY <2>4, <6>1
        <5>2. CASE j = m
          BY <2>2, <5>2 DEF Withstands
        <5>3. CASE j \in Part(m - 1) /\ j < m
          <6>1. Withstands(w, v[w], j, v[j], floor) /\ j \in Nat /\ v[j] \in Nat
            BY <1>0, <3>1, <5>3
          <6>2. TakesOver(v[m], v[j], floor)
            <7>1. j = w \/ TakesOver(v[w], v[j], floor) \/ ~TakesOver(v[j], v[w], floor)
              BY <3>2, <6>1 DEF Withstands
            <7> QED
              BY <3>2, <3>3, <6>1, <7>1, TakesOverOrder
          <6> QED
            BY <2>2, <5>3, <6>1, <6>2 DEF Withstands
        <5> QED
          BY <5>1, <5>2, <5>3
      <4> QED
        BY <1>0, <2>2, <2>4, <2>7, <4>1
    <3>4. CASE ~TakesOver(v[m], v[w], floor)
      <4>1. ASSUME NEW j \in Part(m) PROVE Withstands(w, v[w], j, v[j], floor)
        <5>1. j = m \/ j \in Part(m - 1)
          BY <2>4
        <5> QED
          BY <1>0, <2>2, <3>1, <3>2, <3>4, <5>1 DEF Withstands
      <4> QED
        BY <1>0, <2>2, <2>4, <3>1, <4>1
    <3> QED
      BY <3>3, <3>4
  <2> QED
    BY <2>5, <2>6, <2>7
<1>2. \A k : k \in Part(n) <=> k \in S
  BY <1>0
<1> QED
  BY <1>0, <1>1, <1>2

-------------------------------------------------------------------------------
(* Sequences.                                                                *)

LEMMA SequenceMeans ==
  ASSUME NEW s, IsSequence(s)
  PROVE  DOMAIN s = 1..Len(s) /\ Len(s) \in Nat /\ DOMAIN s \in SUBSET Nat
BY DEF IsSequence

LEMMA SequenceIs ==
  ASSUME NEW n \in Nat, NEW s, s = [i \in 1..n |-> s[i]]
  PROVE  IsSequence(s) /\ Len(s) = n
<1>1. s \in [1..n -> Range(s)]
  BY DEF Range
<1>2. s \in Seq(Range(s))
  BY <1>1, SeqDef
<1> QED
  BY <1>1, <1>2 DEF IsSequence

LEMMA AppendSequence ==
  ASSUME NEW s, IsSequence(s), NEW e
  PROVE  /\ IsSequence(Append(s, e))
         /\ Len(Append(s, e)) = Len(s) + 1
         /\ \A i \in DOMAIN s : Append(s, e)[i] = s[i]
         /\ Append(s, e)[Len(s) + 1] = e
<1> DEFINE S == Range(s) \cup {e}
<1>1. s \in Seq(S)
  <2>1. s \in [1..Len(s) -> S] /\ Len(s) \in Nat
    BY SequenceMeans DEF Range, IsSequence
  <2> QED
    BY <2>1, SeqDef
<1>2. e \in S
  OBVIOUS
<1> HIDE DEF S
<1>3. /\ Append(s, e) \in Seq(S)
      /\ Len(Append(s, e)) = Len(s) + 1
      /\ \A i \in 1..Len(s) : Append(s, e)[i] = s[i]
      /\ Append(s, e)[Len(s) + 1] = e
  BY <1>1, <1>2, AppendProperties
<1> DEFINE t == Append(s, e)
<1> HIDE DEF t
<1>4. Len(s) + 1 \in Nat /\ t \in Seq(S) /\ Len(t) = Len(s) + 1
  BY <1>3, SequenceMeans DEF t
<1>5. t = [i \in 1..(Len(s) + 1) |-> t[i]]
  BY <1>4
<1>6. IsSequence(t)
  BY <1>4, <1>5, SequenceIs
<1> QED
  BY <1>3, <1>6, SequenceMeans DEF t

-------------------------------------------------------------------------------
(* What the engine looks up is there.                                        *)

IsCache(c) ==
    /\ IsSequence(c)
    /\ \A i \in DOMAIN c : IsModule(c[i].module) /\ c[i].version \in Nat

(* A definition: a module of the space and a type of it.                     *)
Definitions(w, c) ==
    {d \in Nat \X Nat : d[1] \in 0..Len(c) /\ d[2] \in DOMAIN ModuleAt(w, c, d[1]).types}

LEMMA ModuleAtIsModule ==
  ASSUME NEW w, IsWorld(w), NEW c, IsCache(c), NEW i \in 0..Len(c)
  PROVE  IsModule(ModuleAt(w, c, i))
<1>1. i = 0 \/ i \in DOMAIN c
  BY SequenceMeans DEF IsCache
<1> QED
  BY <1>1 DEF IsWorld, IsCache, ModuleAt

LEMMA FindInFinds ==
  ASSUME NEW m, IsModule(m), NEW path
  PROVE  FindIn(m, path) = None \/ FindIn(m, path) \in DOMAIN m.types
<1> DEFINE hits == {i \in DOMAIN m.types : m.types[i].path = path}
<1>1. DOMAIN m.types \in SUBSET Nat
  BY SequenceMeans DEF IsModule
<1>2. hits \in SUBSET Nat /\ hits \in SUBSET DOMAIN m.types
  BY <1>1
<1>3. FindIn(m, path) = IF hits = {} THEN None ELSE Min(hits)
  BY DEF FindIn
<1> HIDE DEF hits
<1> QED
  BY <1>2, <1>3, MinIsLeast

LEMMA LookupFinds ==
  ASSUME NEW w, IsWorld(w), NEW c, IsCache(c), NEW i \in 0..Len(c), NEW path
  PROVE  /\ Lookup(w, c, i, path) \in Definitions(w, c) \cup {None}
         /\ Lookup(w, c, i, path) = None <=> FindIn(ModuleAt(w, c, i), path) = None
<1> DEFINE id == FindIn(ModuleAt(w, c, i), path)
<1>1. IsModule(ModuleAt(w, c, i))
  BY ModuleAtIsModule
<1>2. id = None \/ (id \in DOMAIN ModuleAt(w, c, i).types /\ id \in Nat)
  BY <1>1, FindInFinds, SequenceMeans DEF IsModule
<1>3. Lookup(w, c, i, path) = IF id = None THEN None ELSE <<i, id>>
  BY DEF Lookup
<1>4. i \in Nat
  BY SequenceMeans DEF IsCache
<1>5. id # None => <<i, id>> \in Definitions(w, c) /\ <<i, id>> # None
  BY <1>2, <1>4, NoneAssumption DEF Definitions
<1> QED
  BY <1>3, <1>5

LEMMA ProbeFinds ==
  ASSUME NEW w, IsWorld(w), NEW c, IsCache(c), NEW indices \in SUBSET (0..Len(c)), NEW path
  PROVE  Probe(w, c, indices, path) \in Definitions(w, c) \cup {None}
<1> DEFINE hits == {i \in indices : FindIn(ModuleAt(w, c, i), path) # None}
<1>1. Len(c) \in Nat
  BY SequenceMeans DEF IsCache
<1>2. hits \in SUBSET Nat /\ hits \in SUBSET (0..Len(c))
  <2>1. (0..Len(c)) \in SUBSET Nat
    BY <1>1
  <2> QED
    BY <2>1
<1>3. Probe(w, c, indices, path) = IF hits = {} THEN None ELSE Lookup(w, c, Min(hits), path)
  BY DEF Probe
<1> HIDE DEF hits
<1>4. hits # {} => Min(hits) \in 0..Len(c)
  BY <1>2, MinIsLeast
<1> QED
  BY <1>3, <1>4, LookupFinds

LEMMA BestIsCached ==
  ASSUME NEW c, IsCache(c), NEW ref, ref.version \in Nat, CachedFor(c, ref) # {}
  PROVE  BestCached(c, ref) \in CachedFor(c, ref)
<1> DEFINE v == [i \in DOMAIN c |-> c[i].version]
<1>1. CachedFor(c, ref) \in SUBSET (1..Len(c)) /\ Len(c) \in Nat
  BY SequenceMeans DEF IsCache, CachedFor
<1>2. \A k \in CachedFor(c, ref) : v[k] = c[k].version /\ v[k] \in Nat
  BY DEF IsCache, CachedFor
<1>3. ref.version \in Int
  OBVIOUS
<1> HIDE DEF v
<1>4. \E k \in CachedFor(c, ref) : \A j \in CachedFor(c, ref) :
          Withstands(k, v[k], j, v[j], ref.version)
  BY <1>1, <1>2, <1>3, PassHasWinner
<1>5. \E k \in CachedFor(c, ref) : \A j \in CachedFor(c, ref) :
          Withstands(k, c[k].version, j, c[j].version, ref.version)
  BY <1>2, <1>4
<1> QED
  BY <1>5 DEF BestCached

LEMMA LocateFindsFiles ==
  ASSUME NEW w, IsWorld(w), NEW ref, ref.version \in Nat
  PROVE  Locate(w.disk, ref) = None \/ IsFile(Locate(w.disk, ref))
<1> DEFINE found == Candidates(w.disk, ref.name)
           known == Versioned(w.disk, ref.name)
           v == [d \in known |-> w.disk[d][ref.name].version]
<1>1. DOMAIN w.disk = 1..Len(w.disk) /\ Len(w.disk) \in Nat
  BY SequenceMeans DEF IsWorld
<1>2. /\ found \in SUBSET (1..Len(w.disk)) /\ found \in SUBSET Nat
      /\ known \in SUBSET found
      /\ \A d \in found : IsFile(w.disk[d][ref.name])
  <2>1. (1..Len(w.disk)) \in SUBSET Nat
    BY <1>1
  <2>2. \A d \in DOMAIN w.disk : \A name \in DOMAIN w.disk[d] :
            w.disk[d][name] = None \/ IsFile(w.disk[d][name])
    BY DEF IsWorld
  <2>3. \A d \in found : d \in DOMAIN w.disk /\ ref.name \in DOMAIN w.disk[d] /\ w.disk[d][ref.name] # None
    BY DEF Candidates
  <2>4. known \in SUBSET found
    BY DEF Versioned
  <2> HIDE DEF found, known
  <2> QED
    BY <1>1, <2>1, <2>2, <2>3, <2>4
<1>3. \A d \in known : v[d] = w.disk[d][ref.name].version /\ v[d] \in Nat
  BY <1>2 DEF Versioned, IsFile
<1>4. Floor(ref.version) \in Int
  BY DEF Floor
<1>5. known # {} => PickHighest(w.disk, ref) \in known
  <2> HAVE known # {}
  <2> HIDE DEF known, v
  <2>1. \E k \in known : \A j \in known : Withstands(k, v[k], j, v[j], Floor(ref.version))
    BY <1>1, <1>2, <1>3, <1>4, PassHasWinner
  <2>2. \E k \in known : \A j \in known :
            Withstands(k, w.disk[k][ref.name].version, j, w.disk[j][ref.name].version, Floor(ref.version))
    BY <1>3, <2>1
  <2> QED
    BY <2>2 DEF PickHighest, known
<1>6. found # {} => Min(found) \in found
  BY <1>2, MinIsLeast
<1>7. Locate(w.disk, ref) = IF known # {} THEN w.disk[PickHighest(w.disk, ref)][ref.name]
                            ELSE IF found # {} THEN w.disk[Min(found)][ref.name] ELSE None
  BY DEF Locate
<1> HIDE DEF found, known
<1> QED
  BY <1>2, <1>5, <1>6, <1>7

-------------------------------------------------------------------------------
(* How the cache grows.                                                      *)

Entry(e) == IsModule(e.module) /\ e.version \in Nat

(* The module is new to the cache by its name.                               *)
NewTo(c, e) == \A i \in DOMAIN c : c[i].name # e.name

Grows(c, d) == d = c \/ \E e : d = Append(c, e) /\ Entry(e) /\ NewTo(c, e)

LEMMA GrownIsCache ==
  ASSUME NEW c, IsCache(c), NEW d, Grows(c, d)
  PROVE  /\ IsCache(d)
         /\ Len(c) <= Len(d)
         /\ \A i \in DOMAIN c : i \in DOMAIN d /\ d[i] = c[i]
<1>1. CASE d = c
  BY <1>1, SequenceMeans DEF IsCache
<1>2. ASSUME NEW e, d = Append(c, e), Entry(e)
      PROVE  /\ IsCache(d)
             /\ Len(c) <= Len(d)
             /\ \A i \in DOMAIN c : i \in DOMAIN d /\ d[i] = c[i]
  <2>1. /\ IsSequence(d) /\ Len(d) = Len(c) + 1
        /\ \A i \in DOMAIN c : d[i] = c[i]
        /\ d[Len(c) + 1] = e
    BY <1>2, AppendSequence DEF IsCache
  <2>2. DOMAIN c = 1..Len(c) /\ Len(c) \in Nat /\ DOMAIN d = 1..Len(d)
    BY <2>1, SequenceMeans DEF IsCache
  <2>3. \A i \in DOMAIN d : i \in DOMAIN c \/ i = Len(c) + 1
    BY <2>1, <2>2
  <2> QED
    BY <1>2, <2>1, <2>2, <2>3 DEF IsCache, Entry
<1> QED
  BY <1>1, <1>2 DEF Grows

(* What was loaded stays where it is.                                        *)
LEMMA ModulesStay ==
  ASSUME NEW w, NEW c, IsCache(c), NEW d, Grows(c, d), NEW i \in 0..Len(c)
  PROVE  ModuleAt(w, d, i) = ModuleAt(w, c, i) /\ i \in 0..Len(d)
<1>1. i = 0 \/ i \in DOMAIN c
  BY SequenceMeans DEF IsCache
<1> QED
  BY <1>1, GrownIsCache, SequenceMeans DEF ModuleAt, IsCache

LEMMA DefinitionsStay ==
  ASSUME NEW w, NEW c, IsCache(c), NEW d, Grows(c, d), NEW x \in Definitions(w, c)
  PROVE  x \in Definitions(w, d) /\ TypeAt(w, d, x) = TypeAt(w, c, x)
BY ModulesStay DEF Definitions, TypeAt

(* The definition a reference found in a module names, in the modules read   *)
(* so far.                                                                   *)
Known(w, c, context, ref) ==
    CASE ref.scope = "def" ->
           IF ref.id \in DOMAIN ModuleAt(w, c, context).types THEN <<context, ref.id>>
           ELSE IF ref.id \in DOMAIN w.primary.types THEN <<0, ref.id>> ELSE None
      [] ref.scope = "this" -> Lookup(w, c, 0, ref.path)
      [] ref.scope = "module" -> Probe(w, c, {i \in DOMAIN c : c[i].module.name = ref.name}, ref.path)
      [] ref.scope = "none" -> Probe(w, c, {0} \cup DOMAIN c, ref.path)
      [] ref.scope = "assembly" ->
           IF CachedFor(c, ref) = {} THEN None ELSE Lookup(w, c, BestCached(c, ref), ref.path)

LEMMA KnownIsDefinition ==
  ASSUME NEW w, IsWorld(w), NEW c, IsCache(c), NEW context \in 0..Len(c),
         NEW ref, IsReference(ref)
  PROVE  Known(w, c, context, ref) \in Definitions(w, c) \cup {None}
<1>1. DOMAIN c = 1..Len(c) /\ Len(c) \in Nat
  BY SequenceMeans DEF IsCache
<1>2. CASE ref.scope = "def"
  <2>1. ASSUME NEW i \in 0..Len(c), ref.id \in DOMAIN ModuleAt(w, c, i).types
        PROVE  <<i, ref.id>> \in Definitions(w, c)
    <3>1. DOMAIN ModuleAt(w, c, i).types \in SUBSET Nat
      BY ModuleAtIsModule, SequenceMeans DEF IsModule
    <3> QED
      BY <1>1, <2>1, <3>1 DEF Definitions
  <2>2. ModuleAt(w, c, 0) = w.primary /\ 0 \in 0..Len(c)
    BY <1>1 DEF ModuleAt
  <2> QED
    BY <1>2, <2>1, <2>2 DEF Known
<1>3. CASE ref.scope = "this"
  BY <1>1, <1>3, LookupFinds DEF Known
<1>4. CASE ref.scope = "module"
  <2>1. {i \in DOMAIN c : c[i].module.name = ref.name} \in SUBSET (0..Len(c))
    BY <1>1
  <2> QED
    BY <1>4, <2>1, ProbeFinds DEF Known
<1>5. CASE ref.scope = "none"
  <2>1. ({0} \cup DOMAIN c) \in SUBSET (0..Len(c))
    BY <1>1
  <2> QED
    BY <1>5, <2>1, ProbeFinds DEF Known
<1>6. CASE ref.scope = "assembly"
  <2>1. CachedFor(c, ref) # {} => BestCached(c, ref) \in 0..Len(c)
    BY <1>1, <1>6, BestIsCached DEF CachedFor, IsReference
  <2> QED
    BY <1>6, <2>1, LookupFinds DEF Known
<1> QED
  BY <1>2, <1>3, <1>4, <1>5, <1>6 DEF IsReference, Scopes

LEMMA LookupStays ==
  ASSUME NEW w, NEW c, IsCache(c), NEW d, Grows(c, d), NEW i \in 0..Len(c), NEW path
  PROVE  Lookup(w, d, i, path) = Lookup(w, c, i, path)
BY ModulesStay DEF Lookup

(* Modules are searched in the order in which they were read, and new ones   *)
(* come last.                                                                *)
LEMMA ProbeStays ==
  ASSUME NEW w, IsWorld(w), NEW c, IsCache(c), NEW d, Grows(c, d),
         NEW I \in SUBSET (0..Len(c)), NEW J \in SUBSET (0..Len(d)),
         \A i \in 0..Len(c) : i \in J <=> i \in I,
         NEW path, Probe(w, c, I, path) # None
  PROVE  Probe(w, d, J, path) = Probe(w, c, I, path)
<1> DEFINE S == {i \in I : FindIn(ModuleAt(w, c, i), path) # None}
           T == {i \in J : FindIn(ModuleAt(w, d, i), path) # None}
<1>1. Len(c) \in Nat /\ Len(d) \in Nat /\ Len(c) <= Len(d)
  BY GrownIsCache, SequenceMeans DEF IsCache
<1>2. \A i \in 0..Len(c) : i \in T <=> i \in S
  BY ModulesStay
<1>3. /\ \A i \in S : i \in 0..Len(c)
      /\ \A i \in T : i \in 0..Len(d)
  OBVIOUS
<1>4. /\ Probe(w, c, I, path) = IF S = {} THEN None ELSE Lookup(w, c, Min(S), path)
      /\ Probe(w, d, J, path) = IF T = {} THEN None ELSE Lookup(w, d, Min(T), path)
  BY DEF Probe
<1> HIDE DEF S, T
<1>5. S # {}
  BY <1>4
<1>6. T \in SUBSET Nat /\ S \in SUBSET T
  BY <1>1, <1>2, <1>3
<1>7. \A x \in T \ S : \A y \in S : y < x
  <2> SUFFICES ASSUME NEW x \in T, x \notin S, NEW y \in S PROVE y < x
    OBVIOUS
  <2>1. x \notin 0..Len(c) /\ x \in 0..Len(d) /\ y \in 0..Len(c)
    BY <1>2, <1>3
  <2> QED
    BY <1>1, <2>1
<1>8. Min(T) = Min(S)
  BY <1>5, <1>6, <1>7, MinStays
<1>9. Min(S) \in 0..Len(c)
  BY <1>3, <1>5, <1>6, MinIsLeast
<1> QED
  BY <1>4, <1>5, <1>6, <1>8, <1>9, LookupStays

(* A module is loaded for a name no module was loaded for: the best module   *)
(* of a name, once there is one, does not change.                            *)
LEMMA BestStays ==
  ASSUME NEW c, IsCache(c), NEW d, Grows(c, d), NEW ref, CachedFor(c, ref) # {}
  PROVE  CachedFor(d, ref) = CachedFor(c, ref) /\ BestCached(d, ref) = BestCached(c, ref)
<1>1. CASE d = c
  BY <1>1
<1>2. ASSUME NEW e, d = Append(c, e), NewTo(c, e)
      PROVE  CachedFor(d, ref) = CachedFor(c, ref) /\ BestCached(d, ref) = BestCached(c, ref)
  <2>1. /\ IsSequence(d) /\ Len(d) = Len(c) + 1
        /\ \A i \in DOMAIN c : d[i] = c[i]
        /\ d[Len(c) + 1] = e
    BY <1>2, AppendSequence DEF IsCache
  <2>2. DOMAIN c = 1..Len(c) /\ Len(c) \in Nat /\ DOMAIN d = 1..Len(d)
    BY <2>1, SequenceMeans DEF IsCache
  <2>3. \A i : i \in DOMAIN d <=> i \in DOMAIN c \/ i = Len(c) + 1
    BY <2>1, <2>2
  <2>4. e.name # ref.name
    BY <1>2 DEF NewTo, CachedFor
  <2>5. \A i : i \in CachedFor(d, ref) <=> i \in CachedFor(c, ref)
    BY <2>1, <2>3, <2>4 DEF CachedFor
  <2>6. CachedFor(d, ref) = CachedFor(c, ref)
    BY <2>5
  <2>7. \A i \in CachedFor(c, ref) : d[i].version = c[i].version
    BY <2>1 DEF CachedFor
  <2> DEFINE S == CachedFor(c, ref)
  <2> HIDE DEF S
  <2>8. BestCached(d, ref) = CHOOSE k \in S : \A j \in S : Withstands(k, d[k].version, j, d[j].version, ref.version)
    BY <2>6 DEF BestCached, S
  <2>9. BestCached(c, ref) = CHOOSE k \in S : \A j \in S : Withstands(k, c[k].version, j, c[j].version, ref.version)
    BY DEF BestCached, S
  <2>10. \A k \in S : (\A j \in S : Withstands(k, d[k].version, j, d[j].version, ref.version))
                        <=> (\A j \in S : Withstands(k, c[k].version, j, c[j].version, ref.version))
    BY <2>7 DEF S
  <2> QED
    BY <2>6, <2>8, <2>9, <2>10
<1> QED
  BY <1>1, <1>2 DEF Grows

(* What a reference names stays what it names, whatever is read meanwhile.   *)
LEMMA KnownStays ==
  ASSUME NEW w, IsWorld(w), NEW c, IsCache(c), NEW d, Grows(c, d),
         NEW context \in 0..Len(c), NEW ref, IsReference(ref),
         Known(w, c, context, ref) # None
  PROVE  Known(w, d, context, ref) = Known(w, c, context, ref)
<1>1. /\ DOMAIN c = 1..Len(c) /\ Len(c) \in Nat
      /\ IsCache(d) /\ DOMAIN d = 1..Len(d) /\ Len(d) \in Nat /\ Len(c) <= Len(d)
      /\ \A i \in DOMAIN c : d[i] = c[i]
  BY GrownIsCache, SequenceMeans DEF IsCache
<1>2. CASE ref.scope = "def"
  BY <1>2, ModulesStay DEF Known
<1>3. CASE ref.scope = "this"
  BY <1>1, <1>3, LookupStays DEF Known
<1>4. CASE ref.scope = "module"
  <2> DEFINE I == {i \in DOMAIN c : c[i].module.name = ref.name}
             J == {i \in DOMAIN d : d[i].module.name = ref.name}
  <2>1. I \in SUBSET (0..Len(c)) /\ J \in SUBSET (0..Len(d))
    BY <1>1
  <2>2. \A i \in 0..Len(c) : i \in J <=> i \in I
    BY <1>1
  <2>3. Known(w, c, context, ref) = Probe(w, c, I, ref.path) /\ Known(w, d, context, ref) = Probe(w, d, J, ref.path)
    BY <1>4 DEF Known
  <2> HIDE DEF I, J
  <2> QED
    BY <2>1, <2>2, <2>3, ProbeStays
<1>5. CASE ref.scope = "none"
  <2> DEFINE I == {0} \cup DOMAIN c
             J == {0} \cup DOMAIN d
  <2>1. I \in SUBSET (0..Len(c)) /\ J \in SUBSET (0..Len(d))
    BY <1>1
  <2>2. \A i \in 0..Len(c) : i \in J <=> i \in I
    BY <1>1
  <2>3. Known(w, c, context, ref) = Probe(w, c, I, ref.path) /\ Known(w, d, context, ref) = Probe(w, d, J, ref.path)
    BY <1>5 DEF Known
  <2> HIDE DEF I, J
  <2> QED
    BY <2>1, <2>2, <2>3, ProbeStays
<1>6. CASE ref.scope = "assembly"
  <2>1. CachedFor(c, ref) # {}
    BY <1>6 DEF Known
  <2>2. BestCached(c, ref) \in 0..Len(c)
    BY <1>1, <1>6, <2>1, BestIsCached DEF CachedFor, IsReference
  <2> QED
    BY <1>6, <2>1, <2>2, BestStays, LookupStays DEF Known
<1> QED
  BY <1>2, <1>3, <1>4, <1>5, <1>6 DEF IsReference, Scopes

-------------------------------------------------------------------------------
(* Resolving a reference.                                                    *)

LEMMA EnsureLoadedGrows ==
  ASSUME NEW w, IsWorld(w), NEW c, IsCache(c), NEW ref, ref.version \in Nat
  PROVE  LET l == EnsureLoaded(w, c, ref)
         IN  /\ Grows(c, l.cache)
             /\ l.index # None => /\ ~l.failed
                                  /\ CachedFor(l.cache, ref) # {}
                                  /\ l.index = BestCached(l.cache, ref)
             /\ CachedFor(c, ref) # {} => /\ l.cache = c /\ ~l.failed
                                          /\ l.index = BestCached(c, ref) /\ l.index # None
<1> DEFINE l == EnsureLoaded(w, c, ref)
           file == Locate(w.disk, ref)
           e == [name |-> ref.name, version |-> ref.version, module |-> file.module]
<1>1. DOMAIN c = 1..Len(c) /\ Len(c) \in Nat
  BY SequenceMeans DEF IsCache
<1>2. file = None \/ IsFile(file)
  BY LocateFindsFiles
<1> HIDE DEF file
<1>3. CASE CachedFor(c, ref) # {}
  <2>1. l = [cache |-> c, index |-> BestCached(c, ref), failed |-> FALSE]
    BY <1>3 DEF EnsureLoaded
  <2>2. BestCached(c, ref) \in Nat
    BY <1>1, <1>3, BestIsCached DEF CachedFor
  <2> QED
    BY <1>3, <2>1, <2>2, NoneAssumption DEF Grows
<1>4. CASE CachedFor(c, ref) = {} /\ (file = None \/ file.module = None)
  <2>1. l.cache = c /\ l.index = None
    BY <1>4 DEF EnsureLoaded, file
  <2> QED
    BY <1>4, <2>1 DEF Grows
<1>5. CASE CachedFor(c, ref) = {} /\ file # None /\ file.module # None
  <2>1. l = [cache |-> Append(c, e), index |-> Len(c) + 1, failed |-> FALSE]
    BY <1>5 DEF EnsureLoaded, file
  <2>2. Entry(e) /\ NewTo(c, e)
    BY <1>2, <1>5 DEF Entry, NewTo, IsFile, CachedFor
  <2>3. Grows(c, l.cache)
    BY <2>1, <2>2 DEF Grows
  <2>4. /\ DOMAIN l.cache = 1..(Len(c) + 1)
        /\ \A i \in DOMAIN c : l.cache[i] = c[i]
        /\ l.cache[Len(c) + 1] = e
    <3>1. IsSequence(Append(c, e)) /\ Len(Append(c, e)) = Len(c) + 1
      BY AppendSequence DEF IsCache
    <3> QED
      BY <2>1, <3>1, AppendSequence, SequenceMeans DEF IsCache
  <2>5. \A i : i \in CachedFor(l.cache, ref) <=> i = Len(c) + 1
    BY <1>1, <1>5, <2>4 DEF CachedFor
  <2>6. CachedFor(l.cache, ref) # {}
    BY <2>5
  <2>7. IsCache(l.cache)
    BY <2>3, GrownIsCache
  <2>8. BestCached(l.cache, ref) = Len(c) + 1
    BY <2>5, <2>6, <2>7, BestIsCached
  <2> QED
    BY <1>5, <2>1, <2>3, <2>6, <2>8
<1> QED
  BY <1>3, <1>4, <1>5

(* A resolution answers what the modules read by then say, and reads no more *)
(* when those read before say it.                                            *)
LEMMA ResolveIsKnown ==
  ASSUME NEW w, IsWorld(w), NEW c, IsCache(c), NEW context \in 0..Len(c),
         NEW ref, IsReference(ref)
  PROVE  LET r == Resolve(w, c, context, ref)
         IN  /\ Grows(c, r.cache)
             /\ ~r.failed /\ r.def # None => r.def = Known(w, r.cache, context, ref)
             /\ Known(w, c, context, ref) # None =>
                    r.cache = c /\ ~r.failed /\ r.def = Known(w, c, context, ref)
<1> DEFINE r == Resolve(w, c, context, ref)
           l == EnsureLoaded(w, c, ref)
<1>1. CASE ref.scope # "assembly"
  <2>1. r.cache = c /\ ~r.failed /\ r.def = Known(w, c, context, ref)
    BY <1>1 DEF Resolve, Known, IsReference, Scopes
  <2> QED
    BY <2>1 DEF Grows
<1>2. CASE ref.scope = "assembly"
  <2>1. /\ r.cache = l.cache /\ r.failed = l.failed
        /\ r.def = IF l.index = None THEN None ELSE Lookup(w, l.cache, l.index, ref.path)
    BY <1>2 DEF Resolve
  <2>2. /\ Grows(c, l.cache)
        /\ l.index # None => /\ ~l.failed
                             /\ CachedFor(l.cache, ref) # {}
                             /\ l.index = BestCached(l.cache, ref)
        /\ CachedFor(c, ref) # {} => /\ l.cache = c /\ ~l.failed
                                     /\ l.index = BestCached(c, ref) /\ l.index # None
    BY <1>2, EnsureLoadedGrows DEF IsReference
  <2>3. \A d : Known(w, d, context, ref) =
                 IF CachedFor(d, ref) = {} THEN None ELSE Lookup(w, d, BestCached(d, ref), ref.path)
    BY <1>2 DEF Known
  <2> HIDE DEF r, l
  <2>4. r.def # None => r.def = Known(w, r.cache, context, ref)
    BY <2>1, <2>2, <2>3
  <2>5. Known(w, c, context, ref) # None =>
            r.cache = c /\ ~r.failed /\ r.def = Known(w, c, context, ref)
    BY <2>1, <2>2, <2>3
  <2> QED
    BY <2>1, <2>2, <2>4, <2>5 DEF r
<1> QED
  BY <1>1, <1>2

-------------------------------------------------------------------------------
(* The walk of a question through the modules read so far: where it starts,  *)
(* where it stops and what it says there, where it goes on to.  Definitions  *)
(* of the modules, not steps of the engine.                                  *)

Start(w, c, q) == Known(w, c, 0, q.ref)

(* The base settles the question: by its name, or once it is found.          *)
NameSettles(t) == t.base.scope # "def" /\ Verdict(t.base.path) # None
BaseSettles(w, c, x, t) ==
    /\ Known(w, c, x[1], t.base) # None
    /\ Verdict(TypeAt(w, c, Known(w, c, x[1], t.base)).path) # None

Stops(w, c, q, x) ==
    LET t == TypeAt(w, c, x)
    IN  CASE q.kind = "type"      -> TRUE
          [] q.kind = "member"    -> MemberIn(t, q.member) # None
          [] q.kind = "valuetype" -> t.interface \/ t.base = None \/ NameSettles(t) \/ BaseSettles(w, c, x, t)

Says(w, c, q, x) ==
    LET t == TypeAt(w, c, x)
    IN  CASE q.kind = "type"      -> x
          [] q.kind = "member"    -> Append(x, MemberIn(t, q.member))
          [] q.kind = "valuetype" -> IF t.interface \/ t.base = None THEN "reference"
                                     ELSE IF NameSettles(t) THEN Verdict(t.base.path)
                                     ELSE Verdict(TypeAt(w, c, Known(w, c, x[1], t.base)).path)

Onward(w, c, q, x) ==
    IF Stops(w, c, q, x) \/ TypeAt(w, c, x).base = None THEN None
    ELSE Known(w, c, x[1], TypeAt(w, c, x).base)

Closed(w, c, q, S) == \A z \in S : Onward(w, c, q, z) # None => Onward(w, c, q, z) \in S

(* The walk from x comes to y: y is in every set that holds x and whatever   *)
(* follows an element of it.                                                 *)
Leads(w, c, q, x, y) == \A S : x \in S /\ Closed(w, c, q, S) => y \in S

(* The walk from x ends with the answer a.                                   *)
Ahead(w, c, q, x, a) ==
    \E y \in Definitions(w, c) : Leads(w, c, q, x, y) /\ Stops(w, c, q, y) /\ Says(w, c, q, y) = a

Given(w, c, q, a) == Start(w, c, q) # None /\ Ahead(w, c, q, Start(w, c, q), a)

Question(q) == q.kind \in {"type", "member", "valuetype"} /\ IsReference(q.ref)

LEMMA LeadsToItself ==
  ASSUME NEW w, NEW c, NEW q, NEW x
  PROVE  Leads(w, c, q, x, x)
BY DEF Leads

LEMMA LeadsOnward ==
  ASSUME NEW w, NEW c, NEW q, NEW x, NEW y, Leads(w, c, q, x, y), Onward(w, c, q, y) # None
  PROVE  Leads(w, c, q, x, Onward(w, c, q, y))
BY DEF Leads, Closed

(* The way to a definition is the way to it from the next one.               *)
LEMMA LeadsThrough ==
  ASSUME NEW w, NEW c, NEW q, NEW x, NEW y, Leads(w, c, q, x, y), y # x
  PROVE  Onward(w, c, q, x) # None /\ Leads(w, c, q, Onward(w, c, q, x), y)
<1>1. CASE Onward(w, c, q, x) = None
  <2>1. Closed(w, c, q, {x})
    BY <1>1 DEF Closed
  <2> QED
    BY <2>1 DEF Leads
<1>2. CASE Onward(w, c, q, x) # None
  <2>1. ASSUME NEW S, Onward(w, c, q, x) \in S, Closed(w, c, q, S)
        PROVE  y \in S
    <3>1. Closed(w, c, q, S \cup {x})
      BY <2>1 DEF Closed
    <3>2. y \in S \cup {x}
      BY <3>1 DEF Leads
    <3> QED
      BY <3>2
  <2> QED
    BY <1>2, <2>1 DEF Leads
<1> QED
  BY <1>1, <1>2

(* An answer ahead of x is given at x or ahead of what follows x.            *)
LEMMA AheadThrough ==
  ASSUME NEW w, NEW c, NEW q, NEW x, NEW a, Ahead(w, c, q, x, a)
  PROVE  \/ Stops(w, c, q, x) /\ Says(w, c, q, x) = a
         \/ /\ Onward(w, c, q, x) # None
            /\ Ahead(w, c, q, Onward(w, c, q, x), a)
<1>1. PICK y \in Definitions(w, c) :
          Leads(w, c, q, x, y) /\ Stops(w, c, q, y) /\ Says(w, c, q, y) = a
  BY DEF Ahead
<1>2. CASE y = x
  BY <1>1, <1>2
<1>3. CASE y # x
  BY <1>1, <1>3, LeadsThrough DEF Ahead
<1> QED
  BY <1>2, <1>3

LEMMA BaseIsReference ==
  ASSUME NEW w, IsWorld(w), NEW c, IsCache(c), NEW x \in Definitions(w, c),
         TypeAt(w, c, x).base # None
  PROVE  IsReference(TypeAt(w, c, x).base) /\ x[1] \in 0..Len(c)
<1>1. x[1] \in 0..Len(c) /\ x[2] \in DOMAIN ModuleAt(w, c, x[1]).types
  BY DEF Definitions
<1> QED
  BY <1>1, ModuleAtIsModule DEF IsModule, TypeAt

LEMMA OnwardIsDefinition ==
  ASSUME NEW w, IsWorld(w), NEW c, IsCache(c), NEW q, NEW x \in Definitions(w, c)
  PROVE  Onward(w, c, q, x) \in Definitions(w, c) \cup {None}
BY BaseIsReference, KnownIsDefinition DEF Onward

(* Reading modules moves none of this.                                       *)
LEMMA WalkStays ==
  ASSUME NEW w, IsWorld(w), NEW c, IsCache(c), NEW d, Grows(c, d), NEW q, Question(q),
         NEW x \in Definitions(w, c)
  PROVE  /\ Stops(w, c, q, x) => Stops(w, d, q, x) /\ Says(w, d, q, x) = Says(w, c, q, x)
         /\ Onward(w, c, q, x) # None => Onward(w, d, q, x) = Onward(w, c, q, x)
<1> DEFINE t == TypeAt(w, c, x)
           k == Known(w, c, x[1], t.base)
<1>1. TypeAt(w, d, x) = t /\ x \in Definitions(w, d)
  BY DefinitionsStay
<1>2. t.base # None /\ k # None =>
          Known(w, d, x[1], t.base) = k /\ TypeAt(w, d, k) = TypeAt(w, c, k)
  <2> HAVE t.base # None /\ k # None
  <2>1. IsReference(t.base) /\ x[1] \in 0..Len(c)
    BY BaseIsReference
  <2>2. k \in Definitions(w, c)
    BY <2>1, KnownIsDefinition
  <2> QED
    BY <2>1, <2>2, KnownStays, DefinitionsStay
<1>3. CASE q.kind = "type"
  BY <1>1, <1>3 DEF Stops, Says, Onward
<1>4. CASE q.kind = "member"
  BY <1>1, <1>2, <1>4 DEF Stops, Says, Onward
<1>5. CASE q.kind = "valuetype"
  <2>1. \A e : Stops(w, e, q, x) <=> LET u == TypeAt(w, e, x) IN
            u.interface \/ u.base = None \/ NameSettles(u) \/ BaseSettles(w, e, x, u)
    BY <1>5 DEF Stops
  <2>2. \A e : Says(w, e, q, x) = LET u == TypeAt(w, e, x) IN
            IF u.interface \/ u.base = None THEN "reference"
            ELSE IF NameSettles(u) THEN Verdict(u.base.path)
            ELSE Verdict(TypeAt(w, e, Known(w, e, x[1], u.base)).path)
    BY <1>5 DEF Says
  <2>3. t.base # None /\ k # None => (BaseSettles(w, d, x, t) <=> BaseSettles(w, c, x, t))
    BY <1>2 DEF BaseSettles
  <2>4. BaseSettles(w, c, x, t) => k # None
    BY DEF BaseSettles
  <2> HIDE DEF t, k
  <2>5. TypeAt(w, c, x) = t /\ Known(w, c, x[1], t.base) = k
    BY DEF t, k
  <2>6. Stops(w, c, q, x) => Stops(w, d, q, x) /\ Says(w, d, q, x) = Says(w, c, q, x)
    BY <1>1, <1>2, <2>1, <2>2, <2>3, <2>4, <2>5
  <2>7. Onward(w, c, q, x) # None => Onward(w, d, q, x) = Onward(w, c, q, x)
    BY <1>1, <1>2, <2>1, <2>3, <2>5 DEF Onward
  <2> QED
    BY <2>6, <2>7
<1> QED
  BY <1>3, <1>4, <1>5 DEF Question

LEMMA LeadsStays ==
  ASSUME NEW w, IsWorld(w), NEW c, IsCache(c), NEW d, Grows(c, d), NEW q, Question(q),
         NEW x \in Definitions(w, c), NEW y, Leads(w, c, q, x, y)
  PROVE  Leads(w, d, q, x, y)
<1> SUFFICES ASSUME NEW S, x \in S, Closed(w, d, q, S)
             PROVE  y \in S
  BY DEF Leads
<1>1. Closed(w, c, q, S \cap Definitions(w, c))
  <2> SUFFICES ASSUME NEW z \in S, z \in Definitions(w, c), Onward(w, c, q, z) # None
               PROVE  Onward(w, c, q, z) \in S /\ Onward(w, c, q, z) \in Definitions(w, c)
    BY DEF Closed
  <2>1. Onward(w, d, q, z) = Onward(w, c, q, z)
    BY WalkStays
  <2> QED
    BY <2>1, OnwardIsDefinition DEF Closed
<1>2. y \in S \cap Definitions(w, c)
  BY <1>1 DEF Leads
<1> QED
  BY <1>2

LEMMA AheadStays ==
  ASSUME NEW w, IsWorld(w), NEW c, IsCache(c), NEW d, Grows(c, d), NEW q, Question(q),
         NEW x \in Definitions(w, c), NEW a, Ahead(w, c, q, x, a)
  PROVE  Ahead(w, d, q, x, a)
<1>1. PICK y \in Definitions(w, c) :
          Leads(w, c, q, x, y) /\ Stops(w, c, q, y) /\ Says(w, c, q, y) = a
  BY DEF Ahead
<1>2. y \in Definitions(w, d)
  BY DefinitionsStay
<1> QED
  BY <1>1, <1>2, LeadsStays, WalkStays DEF Ahead

LEMMA StartStays ==
  ASSUME NEW w, IsWorld(w), NEW c, IsCache(c), NEW d, Grows(c, d), NEW q, Question(q),
         Start(w, c, q) # None
  PROVE  /\ Start(w, d, q) = Start(w, c, q)
         /\ Start(w, c, q) \in Definitions(w, c)
<1>1. 0 \in 0..Len(c)
  BY SequenceMeans DEF IsCache
<1> QED
  BY <1>1, KnownIsDefinition, KnownStays DEF Start, Question

LEMMA GivenStays ==
  ASSUME NEW w, IsWorld(w), NEW c, IsCache(c), NEW d, Grows(c, d), NEW q, Question(q),
         NEW a, Given(w, c, q, a)
  PROVE  Given(w, d, q, a)
BY StartStays, AheadStays DEF Given

(* Nor do files that come and go.                                            *)
LEMMA KnownOfPrimary ==
  ASSUME NEW w, NEW u, u.primary = w.primary, NEW c
  PROVE  /\ \A i : ModuleAt(u, c, i) = ModuleAt(w, c, i)
         /\ \A x : TypeAt(u, c, x) = TypeAt(w, c, x)
         /\ Definitions(u, c) = Definitions(w, c)
         /\ \A i, ref : Known(u, c, i, ref) = Known(w, c, i, ref)
<1>1. \A i : ModuleAt(u, c, i) = ModuleAt(w, c, i)
  BY DEF ModuleAt
<1>2. \A x : TypeAt(u, c, x) = TypeAt(w, c, x)
  BY <1>1 DEF TypeAt
<1>3. Definitions(u, c) = Definitions(w, c)
  BY <1>1 DEF Definitions
<1>4. \A i, path : Lookup(u, c, i, path) = Lookup(w, c, i, path)
  BY <1>1 DEF Lookup
<1>5. ASSUME NEW I, NEW path
      PROVE  Probe(u, c, I, path) = Probe(w, c, I, path)
  <2> DEFINE S(v) == {i \in I : FindIn(ModuleAt(v, c, i), path) # None}
  <2>1. S(u) = S(w)
    BY <1>1
  <2>2. \A v : Probe(v, c, I, path) = IF S(v) = {} THEN None ELSE Lookup(v, c, Min(S(v)), path)
    BY DEF Probe
  <2> HIDE DEF S
  <2> QED
    BY <1>4, <2>1, <2>2
<1>6. ASSUME NEW i, NEW ref
      PROVE  Known(u, c, i, ref) = Known(w, c, i, ref)
  <2> DEFINE named == {j \in DOMAIN c : c[j].module.name = ref.name}
             all == {0} \cup DOMAIN c
             cached == CachedFor(c, ref)
             best == BestCached(c, ref)
             known(m, t, p, n, l, b) ==
                 CASE ref.scope = "def" -> IF ref.id \in DOMAIN m THEN <<i, ref.id>>
                                           ELSE IF ref.id \in DOMAIN p THEN <<0, ref.id>> ELSE None
                   [] ref.scope = "this" -> t
                   [] ref.scope = "module" -> n
                   [] ref.scope = "none" -> l
                   [] ref.scope = "assembly" -> IF cached = {} THEN None ELSE b
  <2>1. \A v : Known(v, c, i, ref) =
               known(ModuleAt(v, c, i).types, Lookup(v, c, 0, ref.path), v.primary.types,
                     Probe(v, c, named, ref.path), Probe(v, c, all, ref.path), Lookup(v, c, best, ref.path))
    BY DEF Known
  <2> HIDE DEF named, all, cached, best, known
  <2> QED
    BY <1>1, <1>4, <1>5, <2>1
<1> QED
  BY <1>1, <1>2, <1>3, <1>6

LEMMA WalkOfPrimary ==
  ASSUME NEW w, NEW u, u.primary = w.primary, NEW c, NEW q
  PROVE  /\ Start(u, c, q) = Start(w, c, q)
         /\ \A x, y : Leads(w, c, q, x, y) => Leads(u, c, q, x, y)
         /\ \A x, a : Ahead(w, c, q, x, a) => Ahead(u, c, q, x, a)
         /\ \A a : Given(w, c, q, a) => Given(u, c, q, a)
<1>1. Start(u, c, q) = Start(w, c, q)
  BY KnownOfPrimary DEF Start
<1>2. ASSUME NEW x
      PROVE  Stops(u, c, q, x) <=> Stops(w, c, q, x)
  BY KnownOfPrimary DEF Stops, BaseSettles
<1>3. ASSUME NEW x
      PROVE  Says(u, c, q, x) = Says(w, c, q, x)
  BY KnownOfPrimary DEF Says
<1>4. ASSUME NEW x
      PROVE  Onward(u, c, q, x) = Onward(w, c, q, x)
  BY <1>2, KnownOfPrimary DEF Onward
<1>5. \A x, y : Leads(w, c, q, x, y) => Leads(u, c, q, x, y)
  BY <1>4 DEF Leads, Closed
<1>6. \A x, a : Ahead(w, c, q, x, a) => Ahead(u, c, q, x, a)
  BY <1>2, <1>3, <1>5, KnownOfPrimary DEF Ahead
<1> QED
  BY <1>1, <1>5, <1>6 DEF Given

-------------------------------------------------------------------------------
(* The inductive invariant.                                                  *)

SpaceOK ==
    /\ IsWorld(world) /\ IsCache(cache)
    /\ Len(world.satellites) <= Len(cache)
    /\ changes \in Nat /\ changes <= MaxChanges

Found(k) == answers[k].answer \notin {None, Error}

(* What was found is what the modules read by now say.                       *)
AnswersOK ==
    /\ IsSequence(answers) /\ Len(answers) <= MaxQuestions
    /\ \A k \in DOMAIN answers :
          /\ answers[k].query \in Queries
          /\ Found(k) => Given(world, cache, answers[k].query, answers[k].answer)

(* The walk is on its way from where its question starts, and if the same    *)
(* question was answered before, that answer is still ahead of it.           *)
WalkOK ==
    op # None =>
        /\ op = [query |-> op.query, at |-> op.at]
        /\ op.query \in Queries
        /\ Len(answers) < MaxQuestions
        /\ op.at # None =>
              /\ op.at \in Definitions(world, cache)
              /\ op.query.kind # "type"
              /\ Start(world, cache, op.query) # None
              /\ Leads(world, cache, op.query, Start(world, cache, op.query), op.at)
              /\ \A k \in DOMAIN answers :
                    answers[k].query = op.query /\ Found(k) =>
                        Ahead(world, cache, op.query, op.at, answers[k].answer)

ResolutionInv == SpaceOK /\ AnswersOK /\ WalkOK /\ OneDefinition

LEMMA QueriesAreQuestions == \A q \in Queries : Question(q)
BY InputsAssumption DEF Question

LEMMA CacheGrows ==
  ASSUME SpaceOK, CachedOnce, Grows(cache, cache'), world' = world, changes' = changes
  PROVE  SpaceOK' /\ CachedOnce'
<1>1. /\ IsCache(cache') /\ Len(cache) <= Len(cache') /\ Len(cache') \in Nat /\ Len(cache) \in Nat
      /\ \A i \in DOMAIN cache : i \in DOMAIN cache' /\ cache'[i] = cache[i]
  BY GrownIsCache, SequenceMeans DEF SpaceOK, IsCache
<1>2. Len(world.satellites) \in Nat
  BY SequenceMeans DEF SpaceOK, IsWorld
<1>3. SpaceOK'
  BY <1>1, <1>2 DEF SpaceOK
<1>4. CASE cache' = cache
  BY <1>3, <1>4 DEF CachedOnce
<1>5. ASSUME NEW e, cache' = Append(cache, e), NewTo(cache, e)
      PROVE  CachedOnce'
  <2>1. /\ Len(cache') = Len(cache) + 1 /\ cache'[Len(cache) + 1] = e
        /\ DOMAIN cache = 1..Len(cache) /\ DOMAIN cache' = 1..Len(cache')
    BY <1>1, <1>5, AppendSequence, SequenceMeans DEF SpaceOK, IsCache
  <2>2. \A i \in DOMAIN cache' : i \in DOMAIN cache \/ (i = Len(cache) + 1 /\ cache'[i] = e)
    BY <1>1, <2>1
  <2>3. \A i \in DOMAIN cache : cache'[i].name # e.name
    BY <1>1, <1>5 DEF NewTo
  <2>4. SUFFICES ASSUME NEW i \in DOMAIN cache', NEW j \in DOMAIN cache',
                        i # j, i > Len(world.satellites)
                 PROVE  cache'[i].name # cache'[j].name
    BY DEF CachedOnce
  <2>5. CASE i \in DOMAIN cache /\ j \in DOMAIN cache
    BY <1>1, <2>4, <2>5 DEF CachedOnce
  <2>6. CASE i \notin DOMAIN cache \/ j \notin DOMAIN cache
    BY <2>2, <2>3, <2>4, <2>6
  <2> QED
    BY <2>5, <2>6
<1> QED
  BY <1>3, <1>4, <1>5 DEF Grows

LEMMA AnswersStay ==
  ASSUME SpaceOK, AnswersOK, Grows(cache, cache'), world' = world,
         NEW k \in DOMAIN answers, Found(k)
  PROVE  Given(world, cache', answers[k].query, answers[k].answer)
BY QueriesAreQuestions, GivenStays DEF SpaceOK, AnswersOK

(* A step that answers: what it finds the modules say, and what the same     *)
(* question found before it finds again.                                     *)
LEMMA AnswerStep ==
  ASSUME SpaceOK, AnswersOK, WalkOK, FoundStaysFound, op # None,
         Grows(cache, cache'), world' = world, NEW a, Answer(a),
         a \notin {None, Error} => Given(world, cache', op.query, a),
         \A k \in DOMAIN answers : answers[k].query = op.query /\ Found(k) => a = answers[k].answer
  PROVE  AnswersOK' /\ WalkOK' /\ FoundStaysFound'
<1> DEFINE e == [query |-> op.query, answer |-> a]
           L == Len(answers) + 1
<1>1. answers' = Append(answers, e) /\ op' = None
  BY DEF Answer
<1>2. /\ IsSequence(answers') /\ Len(answers') = L
      /\ \A k \in DOMAIN answers : answers'[k] = answers[k]
      /\ answers'[L] = e
      /\ DOMAIN answers = 1..Len(answers) /\ Len(answers) \in Nat /\ DOMAIN answers' = 1..L
  BY <1>1, AppendSequence, SequenceMeans DEF AnswersOK
<1>3. op.query \in Queries /\ L <= MaxQuestions
  BY <1>2, QuestionsAssumption DEF WalkOK
<1>4. \A k \in DOMAIN answers' : k \in DOMAIN answers \/ k = L
  BY <1>2
<1>5. e.query = op.query /\ e.answer = a
  OBVIOUS
<1> HIDE DEF e, L
<1>6. AnswersOK'
  <2>1. ASSUME NEW k \in DOMAIN answers'
        PROVE  /\ answers'[k].query \in Queries
               /\ answers'[k].answer \notin {None, Error} =>
                     Given(world', cache', answers'[k].query, answers'[k].answer)
    <3>1. CASE k \in DOMAIN answers
      BY <1>2, <3>1, AnswersStay DEF AnswersOK, Found
    <3>2. CASE k = L
      BY <1>2, <1>3, <1>5, <3>2
    <3> QED
      BY <1>4, <3>1, <3>2
  <2> QED
    BY <1>2, <1>3, <2>1 DEF AnswersOK, Found
<1>7. WalkOK'
  BY <1>1 DEF WalkOK
<1>8. FoundStaysFound'
  <2> SUFFICES ASSUME NEW j \in DOMAIN answers', NEW k \in DOMAIN answers', j < k,
                      answers'[j].query = answers'[k].query,
                      answers'[j].answer \notin {None, Error}
               PROVE  answers'[k].answer = answers'[j].answer
    BY DEF FoundStaysFound
  <2>1. j \in DOMAIN answers
    BY <1>2, <1>4 DEF L
  <2>2. CASE k \in DOMAIN answers
    BY <1>2, <2>1, <2>2 DEF FoundStaysFound
  <2>3. CASE k = L
    BY <1>2, <1>5, <2>1, <2>3 DEF Found
  <2> QED
    BY <1>4, <2>2, <2>3
<1> QED
  BY <1>6, <1>7, <1>8

(* A step that goes on, to a definition where what the same question found   *)
(* before is still ahead.                                                    *)
LEMMA MoveStep ==
  ASSUME SpaceOK, AnswersOK, WalkOK, FoundStaysFound, op # None,
         Grows(cache, cache'), world' = world, answers' = answers,
         NEW y \in Definitions(world, cache'), y # None, op' = [op EXCEPT !.at = y],
         op.query.kind # "type",
         Start(world, cache', op.query) # None,
         Leads(world, cache', op.query, Start(world, cache', op.query), y),
         \A k \in DOMAIN answers : answers[k].query = op.query /\ Found(k) =>
             Ahead(world, cache', op.query, y, answers[k].answer)
  PROVE  AnswersOK' /\ WalkOK' /\ FoundStaysFound'
<1>1. op' = [query |-> op.query, at |-> y] /\ op.query \in Queries /\ Len(answers) < MaxQuestions
  BY DEF WalkOK
<1>2. op'.query = op.query /\ op'.at = y
  BY <1>1
<1>3. WalkOK'
  BY <1>1, <1>2 DEF WalkOK, Found
<1>4. AnswersOK'
  BY AnswersStay DEF AnswersOK, Found
<1>5. FoundStaysFound'
  BY DEF FoundStaysFound
<1> QED
  BY <1>3, <1>4, <1>5

-------------------------------------------------------------------------------
(* The steps.                                                                *)

(* The walk answers where it stops, gives up only where no definition ahead  *)
(* is known, and otherwise moves to the next one.                            *)
WalkOutcome ==
    /\ Grows(cache, cache') /\ world' = world /\ changes' = changes
    /\ \/ /\ Stops(world, cache', op.query, op.at)
          /\ Answer(Says(world, cache', op.query, op.at))
       \/ /\ ~Stops(world, cache, op.query, op.at)
          /\ Onward(world, cache, op.query, op.at) = None
          /\ \E a \in {None, Error} : Answer(a)
       \/ /\ Onward(world, cache', op.query, op.at) # None
          /\ op' = [op EXCEPT !.at = Onward(world, cache', op.query, op.at)]
          /\ answers' = answers

(* What a resolution of a base does to the question, at x.                   *)
LEMMA ResolveBase ==
  ASSUME SpaceOK, NEW x \in Definitions(world, cache), TypeAt(world, cache, x).base # None
  PROVE  LET t == TypeAt(world, cache, x)
             r == Resolve(world, cache, x[1], t.base)
         IN  /\ Grows(cache, r.cache)
             /\ TypeAt(world, r.cache, x) = t
             /\ ~r.failed /\ r.def # None => r.def = Known(world, r.cache, x[1], t.base)
             /\ r.failed \/ r.def = None => Known(world, cache, x[1], t.base) = None
BY BaseIsReference, ResolveIsKnown, DefinitionsStay DEF SpaceOK

LEMMA WalkMembersOutcome ==
  ASSUME SpaceOK, WalkOK, WalkMembers
  PROVE  WalkOutcome
<1> DEFINE x == op.at
           q == op.query
           t == TypeAt(world, cache, x)
           r == Resolve(world, cache, x[1], t.base)
<1>1. x \in Definitions(world, cache) /\ q.kind = "member" /\ world' = world /\ changes' = changes
  BY DEF WalkMembers, WalkOK
<1>2. /\ \A c : Stops(world, c, q, x) <=> MemberIn(TypeAt(world, c, x), q.member) # None
      /\ \A c : Says(world, c, q, x) = Append(x, MemberIn(TypeAt(world, c, x), q.member))
  BY <1>1 DEF Stops, Says
<1>3. Grows(cache, cache)
  BY DEF Grows
<1>4. CASE MemberIn(t, q.member) # None
  <2>1. Answer(Append(x, MemberIn(t, q.member))) /\ cache' = cache
    BY <1>4 DEF WalkMembers, Current
  <2> QED
    BY <1>1, <1>2, <1>3, <1>4, <2>1 DEF WalkOutcome
<1>5. CASE MemberIn(t, q.member) = None /\ t.base = None
  <2>1. Answer(None) /\ cache' = cache
    BY <1>5 DEF WalkMembers, Current
  <2>2. Onward(world, cache, q, x) = None
    BY <1>5 DEF Onward
  <2> QED
    BY <1>1, <1>2, <1>3, <1>5, <2>1, <2>2 DEF WalkOutcome
<1>6. CASE MemberIn(t, q.member) = None /\ t.base # None
  <2>1. /\ cache' = r.cache
        /\ IF r.failed THEN Answer(Error)
           ELSE IF r.def = None THEN Answer(None)
           ELSE op' = [op EXCEPT !.at = r.def] /\ answers' = answers
    BY <1>6 DEF WalkMembers, Current
  <2>2. /\ Grows(cache, r.cache)
        /\ TypeAt(world, r.cache, x) = t
        /\ ~r.failed /\ r.def # None => r.def = Known(world, r.cache, x[1], t.base)
        /\ r.failed \/ r.def = None => Known(world, cache, x[1], t.base) = None
    BY <1>1, <1>6, ResolveBase
  <2>3. /\ ~Stops(world, cache, q, x) /\ ~Stops(world, cache', q, x)
        /\ Onward(world, cache, q, x) = Known(world, cache, x[1], t.base)
        /\ Onward(world, cache', q, x) = Known(world, cache', x[1], t.base)
    BY <1>2, <1>6, <2>1, <2>2 DEF Onward
  <2> HIDE DEF r
  <2>4. CASE r.failed \/ r.def = None
    BY <1>1, <2>1, <2>2, <2>3, <2>4 DEF WalkOutcome
  <2>5. CASE ~r.failed /\ r.def # None
    BY <1>1, <2>1, <2>2, <2>3, <2>5 DEF WalkOutcome
  <2> QED
    BY <2>4, <2>5
<1> QED
  BY <1>4, <1>5, <1>6

LEMMA WalkValueTypeOutcome ==
  ASSUME SpaceOK, WalkOK, WalkValueType
  PROVE  WalkOutcome
<1> DEFINE x == op.at
           q == op.query
           t == TypeAt(world, cache, x)
           r == Resolve(world, cache, x[1], t.base)
           path == TypeAt(world, r.cache, r.def).path
<1>1. x \in Definitions(world, cache) /\ q.kind = "valuetype" /\ world' = world /\ changes' = changes
  BY DEF WalkValueType, WalkOK
<1>2. \A c : TypeAt(world, c, x) = t =>
          /\ Stops(world, c, q, x) <=> t.interface \/ t.base = None \/ NameSettles(t) \/ BaseSettles(world, c, x, t)
          /\ Says(world, c, q, x) = IF t.interface \/ t.base = None THEN "reference"
                                    ELSE IF NameSettles(t) THEN Verdict(t.base.path)
                                    ELSE Verdict(TypeAt(world, c, Known(world, c, x[1], t.base)).path)
  BY <1>1 DEF Stops, Says
<1>3. Grows(cache, cache)
  BY DEF Grows
<1>4. CASE t.interface \/ t.base = None
  <2>1. Answer("reference") /\ cache' = cache
    BY <1>4 DEF WalkValueType, Current
  <2> QED
    BY <1>1, <1>2, <1>3, <1>4, <2>1 DEF WalkOutcome
<1>5. CASE ~(t.interface \/ t.base = None) /\ NameSettles(t)
  <2>1. Answer(Verdict(t.base.path)) /\ cache' = cache
    BY <1>5 DEF WalkValueType, Current, NameSettles
  <2> QED
    BY <1>1, <1>2, <1>3, <1>5, <2>1 DEF WalkOutcome
<1>6. CASE ~(t.interface \/ t.base = None) /\ ~NameSettles(t)
  <2>1. /\ cache' = r.cache
        /\ IF r.failed \/ r.def = None THEN Answer(Error)
           ELSE IF Verdict(path) # None THEN Answer(Verdict(path))
           ELSE op' = [op EXCEPT !.at = r.def] /\ answers' = answers
    BY <1>6 DEF WalkValueType, Current, NameSettles
  <2>2. /\ Grows(cache, r.cache)
        /\ TypeAt(world, r.cache, x) = t
        /\ ~r.failed /\ r.def # None => r.def = Known(world, r.cache, x[1], t.base)
        /\ r.failed \/ r.def = None => Known(world, cache, x[1], t.base) = None
    BY <1>1, <1>6, ResolveBase
  <2>3. \A c : TypeAt(world, c, x) = t =>
            /\ Stops(world, c, q, x) <=> BaseSettles(world, c, x, t)
            /\ Says(world, c, q, x) = Verdict(TypeAt(world, c, Known(world, c, x[1], t.base)).path)
            /\ Onward(world, c, q, x) = IF BaseSettles(world, c, x, t) THEN None
                                        ELSE Known(world, c, x[1], t.base)
    BY <1>2, <1>6 DEF Onward
  <2> HIDE DEF r, t
  <2>4. CASE r.failed \/ r.def = None
    <3>1. ~BaseSettles(world, cache, x, t)
      BY <2>2, <2>4 DEF BaseSettles
    <3>2. ~Stops(world, cache, q, x) /\ Onward(world, cache, q, x) = None
      BY <2>2, <2>3, <2>4, <3>1 DEF t
    <3> QED
      BY <1>1, <2>1, <2>2, <2>4, <3>2 DEF WalkOutcome
  <2>5. CASE ~(r.failed \/ r.def = None)
    <3>1. /\ TypeAt(world, cache', x) = t
          /\ Known(world, cache', x[1], t.base) = r.def
          /\ BaseSettles(world, cache', x, t) <=> Verdict(path) # None
      BY <2>1, <2>2, <2>5 DEF BaseSettles
    <3>2. CASE Verdict(path) # None
      <4>1. Stops(world, cache', q, x) /\ Says(world, cache', q, x) = Verdict(path)
        BY <2>1, <2>3, <3>1, <3>2
      <4> QED
        BY <1>1, <2>1, <2>2, <2>5, <3>2, <4>1 DEF WalkOutcome
    <3>3. CASE Verdict(path) = None
      <4>1. Onward(world, cache', q, x) = r.def
        BY <2>3, <3>1, <3>3
      <4> QED
        BY <1>1, <2>1, <2>2, <2>5, <3>3, <4>1 DEF WalkOutcome
    <3> QED
      BY <3>2, <3>3
  <2> QED
    BY <2>4, <2>5
<1> QED
  BY <1>4, <1>5, <1>6

LEMMA WalkStep ==
  ASSUME ResolutionInv, op # None, op.at # None, WalkOutcome
  PROVE  ResolutionInv'
<1> DEFINE x == op.at
           q == op.query
           d == cache'
<1>1. /\ SpaceOK /\ AnswersOK /\ WalkOK /\ CachedOnce /\ FoundStaysFound
      /\ Grows(cache, d) /\ world' = world /\ changes' = changes
  BY DEF ResolutionInv, OneDefinition, WalkOutcome
<1>2. SpaceOK' /\ CachedOnce'
  BY <1>1, CacheGrows
<1>3. IsWorld(world) /\ IsCache(cache) /\ IsCache(d) /\ Question(q)
  BY <1>1, <1>2, QueriesAreQuestions DEF SpaceOK, WalkOK
<1>4. /\ x \in Definitions(world, cache) /\ x \in Definitions(world, d)
      /\ q.kind # "type"
      /\ Start(world, d, q) # None /\ Leads(world, d, q, Start(world, d, q), x)
  BY <1>1, <1>3, StartStays, LeadsStays, DefinitionsStay DEF WalkOK
<1>5. ASSUME NEW k \in DOMAIN answers, answers[k].query = q, Found(k)
      PROVE  /\ Ahead(world, cache, q, x, answers[k].answer)
             /\ Ahead(world, d, q, x, answers[k].answer)
  BY <1>1, <1>3, <1>4, <1>5, AheadStays DEF WalkOK
<1>6. CASE Stops(world, d, q, x) /\ Answer(Says(world, d, q, x))
  <2>1. Given(world, d, q, Says(world, d, q, x))
    BY <1>4, <1>6 DEF Given, Ahead
  <2>2. \A k \in DOMAIN answers : answers[k].query = q /\ Found(k) =>
            Says(world, d, q, x) = answers[k].answer
    <3>1. Onward(world, d, q, x) = None
      BY <1>6 DEF Onward
    <3> QED
      BY <1>5, <3>1, AheadThrough
  <2>3. AnswersOK' /\ WalkOK' /\ FoundStaysFound'
    BY <1>1, <1>6, <2>1, <2>2, AnswerStep
  <2> QED
    BY <1>2, <2>3 DEF ResolutionInv, OneDefinition
<1>7. ASSUME ~Stops(world, cache, q, x), Onward(world, cache, q, x) = None,
             NEW a \in {None, Error}, Answer(a)
      PROVE  ResolutionInv'
  <2>1. \A k \in DOMAIN answers : ~(answers[k].query = q /\ Found(k))
    BY <1>5, <1>7, AheadThrough
  <2>2. AnswersOK' /\ WalkOK' /\ FoundStaysFound'
    BY <1>1, <1>7, <2>1, AnswerStep
  <2> QED
    BY <1>2, <2>2 DEF ResolutionInv, OneDefinition
<1>8. CASE /\ Onward(world, d, q, x) # None
           /\ op' = [op EXCEPT !.at = Onward(world, d, q, x)]
           /\ answers' = answers
  <2> DEFINE y == Onward(world, d, q, x)
  <2>1. y \in Definitions(world, d)
    BY <1>3, <1>4, <1>8, OnwardIsDefinition
  <2>2. Leads(world, d, q, Start(world, d, q), y)
    BY <1>4, <1>8, LeadsOnward
  <2>3. ~Stops(world, d, q, x)
    BY <1>8 DEF Onward
  <2>4. \A k \in DOMAIN answers : answers[k].query = q /\ Found(k) =>
            Ahead(world, d, q, y, answers[k].answer)
    BY <1>5, <2>3, AheadThrough
  <2> HIDE DEF y
  <2>5. y # None /\ op' = [op EXCEPT !.at = y]
    BY <1>8 DEF y
  <2>6. AnswersOK' /\ WalkOK' /\ FoundStaysFound'
    BY <1>1, <1>4, <1>8, <2>1, <2>2, <2>4, <2>5, MoveStep
  <2> QED
    BY <1>2, <2>6 DEF ResolutionInv, OneDefinition
<1> QED
  BY <1>6, <1>7, <1>8 DEF WalkOutcome

LEMMA ResolveReferenceStep ==
  ASSUME ResolutionInv, ResolveReference
  PROVE  ResolutionInv'
<1> DEFINE q == op.query
           d == cache'
           r == Resolve(world, cache, 0, q.ref)
<1>1. /\ SpaceOK /\ AnswersOK /\ WalkOK /\ CachedOnce /\ FoundStaysFound
      /\ op # None /\ world' = world /\ changes' = changes /\ d = r.cache
  BY DEF ResolutionInv, OneDefinition, ResolveReference
<1>2. IF r.failed THEN Answer(Error)
      ELSE IF r.def = None THEN Answer(IF q.kind = "valuetype" THEN Error ELSE None)
      ELSE IF q.kind = "type" THEN Answer(r.def)
      ELSE op' = [op EXCEPT !.at = r.def] /\ answers' = answers
  BY DEF ResolveReference
<1>3. Question(q) /\ IsWorld(world) /\ IsCache(cache) /\ 0 \in 0..Len(cache)
  BY <1>1, QueriesAreQuestions, SequenceMeans DEF WalkOK, SpaceOK, IsCache
<1>4. /\ Grows(cache, d)
      /\ ~r.failed /\ r.def # None => r.def = Start(world, d, q)
      /\ Start(world, cache, q) # None => ~r.failed /\ r.def # None
  BY <1>1, <1>3, ResolveIsKnown DEF Start, Question
<1> HIDE DEF r
<1>5. SpaceOK' /\ CachedOnce'
  BY <1>1, <1>4, CacheGrows
<1>6. ASSUME NEW k \in DOMAIN answers, answers[k].query = q, Found(k)
      PROVE  ~r.failed /\ r.def # None /\ Ahead(world, d, q, Start(world, d, q), answers[k].answer)
  <2>1. Start(world, cache, q) # None
    BY <1>1, <1>6 DEF AnswersOK, Given
  <2>2. Given(world, d, q, answers[k].answer)
    BY <1>1, <1>4, <1>6, AnswersStay
  <2> QED
    BY <1>4, <2>1, <2>2 DEF Given
<1>7. CASE r.failed \/ r.def = None
  <2>1. PICK a \in {None, Error} : Answer(a)
    BY <1>2, <1>7
  <2>2. AnswersOK' /\ WalkOK' /\ FoundStaysFound'
    BY <1>1, <1>4, <1>6, <1>7, <2>1, AnswerStep
  <2> QED
    BY <1>5, <2>2 DEF ResolutionInv, OneDefinition
<1>8. CASE ~r.failed /\ r.def # None
  <2> DEFINE s == Start(world, d, q)
  <2>1. s # None /\ s = r.def /\ s \in Definitions(world, d) /\ Leads(world, d, q, s, s)
    BY <1>1, <1>3, <1>4, <1>5, <1>8, StartStays, LeadsToItself DEF SpaceOK, Grows
  <2> HIDE DEF s
  <2>2. CASE q.kind = "type"
    <3>1. Stops(world, d, q, s) /\ Says(world, d, q, s) = s /\ Onward(world, d, q, s) = None
      BY <2>2 DEF Stops, Says, Onward
    <3>2. Given(world, d, q, s)
      BY <2>1, <3>1 DEF Given, Ahead, s
    <3>3. \A k \in DOMAIN answers : answers[k].query = q /\ Found(k) => s = answers[k].answer
      BY <1>6, <3>1, AheadThrough DEF s
    <3>4. Answer(s)
      BY <1>2, <1>8, <2>1, <2>2
    <3>5. AnswersOK' /\ WalkOK' /\ FoundStaysFound'
      BY <1>1, <1>4, <3>2, <3>3, <3>4, AnswerStep
    <3> QED
      BY <1>5, <3>5 DEF ResolutionInv, OneDefinition
  <2>3. CASE q.kind # "type"
    <3>1. op' = [op EXCEPT !.at = s] /\ answers' = answers
      BY <1>2, <1>8, <2>1, <2>3
    <3>2. \A k \in DOMAIN answers : answers[k].query = q /\ Found(k) =>
              Ahead(world, d, q, s, answers[k].answer)
      BY <1>6 DEF s
    <3>3. Start(world, d, q) = s
      BY DEF s
    <3>4. AnswersOK' /\ WalkOK' /\ FoundStaysFound'
      BY <1>1, <1>4, <2>1, <2>3, <3>1, <3>2, <3>3, MoveStep
    <3> QED
      BY <1>5, <3>4 DEF ResolutionInv, OneDefinition
  <2> QED
    BY <2>2, <2>3
<1> QED
  BY <1>7, <1>8

LEMMA AskStep ==
  ASSUME ResolutionInv, NEW q \in Queries, Ask(q)
  PROVE  ResolutionInv'
<1>1. /\ op' = [query |-> q, at |-> None] /\ op'.query = q /\ op'.at = None
      /\ Len(answers) < MaxQuestions
      /\ world' = world /\ cache' = cache /\ answers' = answers /\ changes' = changes
  BY DEF Ask
<1>2. WalkOK'
  BY <1>1 DEF WalkOK
<1>3. SpaceOK' /\ AnswersOK' /\ OneDefinition'
  BY <1>1 DEF ResolutionInv, SpaceOK, AnswersOK, Found, OneDefinition, CachedOnce, FoundStaysFound
<1> QED
  BY <1>2, <1>3 DEF ResolutionInv

LEMMA ChangeStep ==
  ASSUME ResolutionInv, NEW d \in DOMAIN world.disk, NEW name \in DOMAIN world.disk[d],
         NEW file \in {None} \cup {world.disk[e][name] : e \in DOMAIN world.disk},
         ChangeFile(d, name, file)
  PROVE  ResolutionInv'
<1> DEFINE disk == world.disk
           row == [disk[d] EXCEPT ![name] = file]
           changed == [disk EXCEPT ![d] = row]
<1>1. /\ SpaceOK /\ AnswersOK /\ WalkOK /\ OneDefinition
      /\ IsWorld(world)
      /\ cache' = cache /\ op' = op /\ answers' = answers
      /\ changes' = changes + 1 /\ changes < MaxChanges
  BY DEF ResolutionInv, SpaceOK, ChangeFile
<1>2. world' = [primary |-> world.primary, satellites |-> world.satellites, disk |-> changed]
  BY <1>1 DEF ChangeFile, IsWorld
<1>3. world'.primary = world.primary /\ world'.satellites = world.satellites /\ world'.disk = changed
  BY <1>2
<1>4. /\ DOMAIN disk = 1..Len(disk) /\ Len(disk) \in Nat
      /\ \A e \in DOMAIN disk : /\ DOMAIN disk[e] = DOMAIN disk[d]
                                /\ disk[e] = [n \in DOMAIN disk[e] |-> disk[e][n]]
                                /\ \A n \in DOMAIN disk[e] : disk[e][n] = None \/ IsFile(disk[e][n])
  BY <1>1, SequenceMeans DEF IsWorld
<1>5. file = None \/ IsFile(file)
  <2>1. file = None \/ \E e \in DOMAIN disk : file = disk[e][name]
    OBVIOUS
  <2>2. name \in DOMAIN disk[d]
    OBVIOUS
  <2> HIDE DEF disk
  <2> QED
    BY <1>4, <2>1, <2>2
<1>6. /\ DOMAIN row = DOMAIN disk[d] /\ row = [n \in DOMAIN row |-> row[n]]
      /\ \A n \in DOMAIN row : row[n] = None \/ IsFile(row[n])
  BY <1>4, <1>5
<1>7. /\ DOMAIN changed = DOMAIN disk /\ changed = [e \in 1..Len(disk) |-> changed[e]]
      /\ \A e \in DOMAIN changed : changed[e] = IF e = d THEN row ELSE disk[e]
  BY <1>4
<1> HIDE DEF row, changed, disk
<1>8. IsSequence(changed)
  BY <1>4, <1>7, SequenceIs
<1>9. \A e \in DOMAIN changed :
          /\ DOMAIN changed[e] = DOMAIN disk[d]
          /\ changed[e] = [n \in DOMAIN changed[e] |-> changed[e][n]]
          /\ \A n \in DOMAIN changed[e] : changed[e][n] = None \/ IsFile(changed[e][n])
  <2> SUFFICES ASSUME NEW e \in DOMAIN changed
               PROVE  /\ DOMAIN changed[e] = DOMAIN disk[d]
                      /\ changed[e] = [n \in DOMAIN changed[e] |-> changed[e][n]]
                      /\ \A n \in DOMAIN changed[e] : changed[e][n] = None \/ IsFile(changed[e][n])
    OBVIOUS
  <2>1. CASE e = d
    <3>1. changed[e] = row
      BY <1>7, <2>1
    <3> QED
      BY <1>6, <3>1
  <2>2. CASE e # d
    <3>1. changed[e] = disk[e] /\ e \in DOMAIN disk
      BY <1>7, <2>2
    <3> QED
      BY <1>4, <3>1
  <2> QED
    BY <2>1, <2>2
<1>10. IsWorld(world')
  <2>1. /\ world' = [primary |-> world'.primary, satellites |-> world'.satellites, disk |-> world'.disk]
        /\ IsModule(world'.primary) /\ IsSequence(world'.satellites)
        /\ \A i \in DOMAIN world'.satellites : IsModule(world'.satellites[i])
    BY <1>1, <1>2, <1>3 DEF IsWorld
  <2> QED
    BY <1>3, <1>8, <1>9, <2>1 DEF IsWorld
<1>11. SpaceOK'
  BY <1>1, <1>3, <1>10, QuestionsAssumption DEF SpaceOK
<1>12. AnswersOK'
  BY <1>1, <1>3, WalkOfPrimary DEF AnswersOK, Found
<1>13. WalkOK'
  <2>1. Definitions(world', cache) = Definitions(world, cache)
    BY <1>3, KnownOfPrimary
  <2>2. /\ Start(world', cache, op.query) = Start(world, cache, op.query)
        /\ \A x, y : Leads(world, cache, op.query, x, y) => Leads(world', cache, op.query, x, y)
        /\ \A x, a : Ahead(world, cache, op.query, x, a) => Ahead(world', cache, op.query, x, a)
    BY <1>3, WalkOfPrimary
  <2> QED
    BY <1>1, <2>1, <2>2 DEF WalkOK, Found
<1>14. OneDefinition'
  BY <1>1, <1>3 DEF OneDefinition, CachedOnce, FoundStaysFound
<1> QED
  BY <1>11, <1>12, <1>13, <1>14 DEF ResolutionInv

(* An engine starts with the satellites in its cache, and nothing asked.     *)
LEMMA ResolutionInit == Init => ResolutionInv
<1> SUFFICES ASSUME Init PROVE ResolutionInv
  OBVIOUS
<1> DEFINE sats == world.satellites
           n == Len(sats)
           entry(i) == [name |-> sats[i].name, version |-> 0, module |-> sats[i]]
<1>1. /\ IsWorld(world) /\ cache = [i \in DOMAIN sats |-> entry(i)]
      /\ op = None /\ answers = <<>> /\ changes = 0
  BY InputsAssumption DEF Init
<1>2. IsSequence(sats) /\ DOMAIN sats = 1..n /\ n \in Nat /\ \A i \in DOMAIN sats : IsModule(sats[i])
  BY <1>1, SequenceMeans DEF IsWorld
<1>3. /\ DOMAIN cache = 1..n
      /\ \A i \in DOMAIN cache : cache[i].version = 0 /\ cache[i].module = sats[i]
      /\ cache = [i \in 1..n |-> cache[i]]
  BY <1>1, <1>2
<1> HIDE DEF sats, n, entry
<1>4. IsSequence(cache) /\ Len(cache) = n
  BY <1>2, <1>3, SequenceIs
<1>5. IsCache(cache)
  BY <1>2, <1>3, <1>4 DEF IsCache
<1>6. SpaceOK
  BY <1>1, <1>2, <1>4, <1>5, QuestionsAssumption DEF SpaceOK, sats, n
<1>7. AnswersOK
  <2>1. answers = [i \in 1..0 |-> answers[i]] /\ DOMAIN answers = {}
    BY <1>1
  <2>2. IsSequence(answers) /\ Len(answers) = 0
    BY <2>1, SequenceIs
  <2> QED
    BY <2>1, <2>2, QuestionsAssumption DEF AnswersOK
<1>8. WalkOK
  BY <1>1 DEF WalkOK
<1>9. CachedOnce
  BY <1>2, <1>3 DEF CachedOnce, sats, n
<1>10. FoundStaysFound
  BY <1>1 DEF FoundStaysFound
<1> QED
  BY <1>6, <1>7, <1>8, <1>9, <1>10 DEF ResolutionInv, OneDefinition

LEMMA ResolutionStep == ResolutionInv /\ [Next]_vars => ResolutionInv'
<1> SUFFICES ASSUME ResolutionInv, [Next]_vars PROVE ResolutionInv'
  OBVIOUS
<1>1. ASSUME NEW q \in Queries, Ask(q) PROVE ResolutionInv'
  BY <1>1, AskStep
<1>2. CASE ResolveReference
  BY <1>2, ResolveReferenceStep
<1>3. CASE WalkMembers
  BY <1>3, WalkMembersOutcome, WalkStep DEF WalkMembers, ResolutionInv
<1>4. CASE WalkValueType
  BY <1>4, WalkValueTypeOutcome, WalkStep DEF WalkValueType, ResolutionInv
<1>5. CASE Change
  BY <1>5, ChangeStep DEF Change
<1>6. CASE UNCHANGED vars
  BY <1>6 DEF vars, ResolutionInv, SpaceOK, AnswersOK, Found, WalkOK, OneDefinition, CachedOnce, FoundStaysFound
<1> QED
  BY <1>1, <1>2, <1>3, <1>4, <1>5, <1>6 DEF Next, Work

(* The module space is well formed, every answer found is one that the       *)
(* modules read so far give, and a walk in progress keeps ahead of it what   *)
(* the same question found before (ensure_loaded, walk_methods, walk_fields, *)
(* is_value_type_def).                                                       *)
THEOREM ResolutionInvariant == Spec => []ResolutionInv
BY ResolutionInit, ResolutionStep, PTL DEF Spec

(* A walk is always at a definition that exists in the module space, however *)
(* many modules it has crossed (resolve_in_context).                         *)
THEOREM ResolutionTypeCorrect == Spec => []TypeOK
<1>1. ResolutionInv => TypeOK
  BY DEF ResolutionInv, SpaceOK, AnswersOK, WalkOK, TypeOK, Definitions
<1> QED
  BY <1>1, ResolutionInvariant, PTL

(* For any files, whatever appears or disappears, and however many questions *)
(* are asked: no assembly is in the module space twice, and a definition     *)
(* once found is what the same question finds ever after (ensure_loaded).    *)
THEOREM DefinitionsAreOne == Spec => []OneDefinition
<1>1. ResolutionInv => OneDefinition
  BY DEF ResolutionInv
<1> QED
  BY <1>1, ResolutionInvariant, PTL

===============================================================================
