----------------------------- MODULE WinRtProofs -----------------------------
(***************************************************************************)
(* Proofs about WinRtProjections, for any files and any number of threads, *)
(* guids and calls.                                                         *)
(***************************************************************************)
EXTENDS WinRtProjections, SequenceTheorems, FiniteSetTheorems, WellFoundedInduction, TLAPS

-------------------------------------------------------------------------------
(* Sequences.                                                                *)

LEMMA LeastNat ==
  ASSUME NEW S \in SUBSET Nat, S # {}
  PROVE  \E n \in S : \A m \in S : n <= m
<1>1. PICK x \in S : \A y \in S : ~(<<y, x>> \in OpToRel(<, Nat))
  BY NatLessThanWellFounded, WFMin
<1>2. \A y \in S : ~(y < x)
  BY <1>1 DEF OpToRel
<1> QED
  BY <1>2

LEMMA SequenceMeans ==
  ASSUME NEW s, IsSequence(s)
  PROVE  DOMAIN s = 1..Len(s) /\ Len(s) \in Nat /\ s = [i \in 1..Len(s) |-> s[i]]
BY DEF IsSequence

LEMMA SequenceIs ==
  ASSUME NEW n \in Nat, NEW s, s = [i \in 1..n |-> s[i]]
  PROVE  IsSequence(s) /\ Len(s) = n /\ DOMAIN s = 1..n
<1>1. s \in [1..n -> Range(s)]
  BY DEF Range
<1>2. s \in Seq(Range(s))
  BY <1>1, SeqDef
<1> QED
  BY <1>1, <1>2 DEF IsSequence

LEMMA SameIndices ==
  ASSUME NEW s, IsSequence(s), NEW t, IsSequence(t), DOMAIN s = DOMAIN t
  PROVE  Len(s) = Len(t)
<1> DEFINE a == Len(s)
           b == Len(t)
<1>1. a \in Nat /\ b \in Nat /\ 1..a = 1..b
  BY SequenceMeans
<1> HIDE DEF a, b
<1>2. a \in 1..a \/ a = 0
  BY <1>1
<1>3. b \in 1..b \/ b = 0
  BY <1>1
<1>4. a = b
  BY <1>1, <1>2, <1>3
<1> QED
  BY <1>4 DEF a, b

LEMMA EmptySequence == IsSequence(<<>>) /\ DOMAIN <<>> = {} /\ Len(<<>>) = 0
BY DEF IsSequence

(* A function on the indices of a sequence is a sequence as long.            *)
LEMMA SameLength ==
  ASSUME NEW s, IsSequence(s), NEW f, f = [i \in DOMAIN s |-> f[i]]
  PROVE  IsSequence(f) /\ Len(f) = Len(s) /\ DOMAIN f = DOMAIN s
BY SequenceMeans, SequenceIs

LEMMA InWider ==
  ASSUME NEW s, IsSequence(s), NEW S, Range(s) \subseteq S
  PROVE  s \in Seq(S)
<1>1. s \in [1..Len(s) -> S] /\ Len(s) \in Nat
  BY SequenceMeans DEF Range
<1> QED
  BY <1>1, SeqDef

LEMMA ConcatSequence ==
  ASSUME NEW s, IsSequence(s), NEW t, IsSequence(t)
  PROVE  /\ IsSequence(s \o t)
         /\ Len(s \o t) = Len(s) + Len(t)
         /\ DOMAIN (s \o t) = 1..Len(s) + Len(t)
         /\ \A i \in DOMAIN s : i \in DOMAIN (s \o t) /\ (s \o t)[i] = s[i]
         /\ \A i \in DOMAIN (s \o t) : \/ i \in DOMAIN s
                                       \/ /\ i > Len(s) /\ i - Len(s) \in DOMAIN t
                                          /\ (s \o t)[i] = t[i - Len(s)]
<1> DEFINE S == Range(s) \cup Range(t)
           c == s \o t
<1>1. s \in Seq(S) /\ t \in Seq(S)
  BY InWider
<1> HIDE DEF S
<1>2. /\ c \in Seq(S) /\ Len(c) = Len(s) + Len(t)
      /\ \A i \in 1..Len(s) + Len(t) : c[i] = IF i <= Len(s) THEN s[i] ELSE t[i - Len(s)]
  BY <1>1, ConcatProperties
<1> HIDE DEF c
<1>3. /\ DOMAIN s = 1..Len(s) /\ Len(s) \in Nat /\ DOMAIN t = 1..Len(t) /\ Len(t) \in Nat
  BY SequenceMeans
<1>4. c = [i \in 1..Len(s) + Len(t) |-> c[i]]
  BY <1>2
<1>5. IsSequence(c) /\ DOMAIN c = 1..Len(s) + Len(t)
  BY <1>3, <1>4, SequenceIs
<1> QED
  BY <1>2, <1>3, <1>5 DEF c

LEMMA SubSequence ==
  ASSUME NEW s, IsSequence(s), NEW m \in Nat \ {0}, NEW n \in Nat, n <= Len(s)
  PROVE  /\ IsSequence(SubSeq(s, m, n))
         /\ Len(SubSeq(s, m, n)) = IF m <= n THEN n - m + 1 ELSE 0
         /\ \A i \in 1..n - m + 1 : SubSeq(s, m, n)[i] = s[m + i - 1]
<1> DEFINE c == SubSeq(s, m, n)
<1>1. \A i \in m..n : s[i] \in Range(s)
  BY SequenceMeans DEF Range
<1>2. /\ c \in Seq(Range(s)) /\ Len(c) = (IF m <= n THEN n - m + 1 ELSE 0)
      /\ \A i \in 1..n - m + 1 : c[i] = s[m + i - 1]
  BY <1>1, SubSeqProperties
<1> HIDE DEF c
<1>3. c = [i \in 1..Len(c) |-> c[i]] /\ Len(c) \in Nat
  BY <1>2
<1> QED
  BY <1>2, <1>3, SequenceIs DEF c
LEMMA RemoveAtSequence ==
  ASSUME NEW s, IsSequence(s), NEW p \in DOMAIN s
  PROVE  /\ IsSequence(RemoveAt(s, p))
         /\ Len(RemoveAt(s, p)) = Len(s) - 1
         /\ \A i \in 1..Len(s) - 1 : RemoveAt(s, p)[i] = IF i < p THEN s[i] ELSE s[i + 1]
<1> DEFINE a == SubSeq(s, 1, p - 1)
           b == SubSeq(s, p + 1, Len(s))
<1>1. /\ Len(s) \in Nat /\ p \in 1..Len(s)
      /\ p \in Nat /\ p - 1 \in Nat /\ p + 1 \in Nat \ {0} /\ p - 1 <= Len(s)
  BY SequenceMeans
<1>2. /\ IsSequence(a) /\ Len(a) = p - 1
      /\ \A i \in 1..p - 1 : a[i] = s[i]
  BY <1>1, SubSequence
<1>3. /\ IsSequence(b) /\ Len(b) = Len(s) - p
      /\ \A i \in 1..Len(s) - p : b[i] = s[p + i]
  BY <1>1, SubSequence
<1> DEFINE c == a \o b
<1>4. RemoveAt(s, p) = c
  BY DEF RemoveAt
<1> HIDE DEF a, b
<1>5. /\ Len(c) = Len(a) + Len(b) /\ IsSequence(c) /\ DOMAIN c = 1..Len(a) + Len(b)
      /\ \A i \in DOMAIN a : c[i] = a[i]
      /\ \A i \in DOMAIN c : \/ i \in DOMAIN a
                             \/ /\ i > Len(a) /\ i - Len(a) \in DOMAIN b
                                /\ c[i] = b[i - Len(a)]
  BY ZenonT(60), <1>2, <1>3, ConcatSequence
<1> HIDE DEF c
<1>6. /\ Len(c) = Len(s) - 1 /\ DOMAIN c = 1..Len(s) - 1
      /\ DOMAIN a = 1..p - 1 /\ DOMAIN b = 1..Len(s) - p
  BY <1>1, <1>2, <1>3, <1>5, SequenceMeans
<1>7. ASSUME NEW i \in 1..Len(s) - 1
      PROVE  c[i] = IF i < p THEN s[i] ELSE s[i + 1]
  <2>0. i \in Nat /\ i > 0 /\ i \in DOMAIN c
    BY <1>1, <1>6
  <2>1. CASE i < p
    <3>1. i \in 1..p - 1
      BY <1>1, <2>0, <2>1
    <3>2. c[i] = a[i] /\ a[i] = s[i]
      BY <1>2, <1>5, <1>6, <3>1
    <3> QED
      BY <2>1, <3>2
  <2>2. CASE ~(i < p)
    <3>1. i \notin DOMAIN a /\ i - (p - 1) \in 1..Len(s) - p /\ p + (i - (p - 1)) = i + 1
      BY <1>1, <1>6, <2>0, <2>2
    <3>2. c[i] = b[i - (p - 1)]
      BY <1>2, <1>5, <2>0, <3>1
    <3>3. b[i - (p - 1)] = s[i + 1]
      BY <1>3, <3>1
    <3> QED
      BY <2>2, <3>2, <3>3
  <2> QED
    BY <2>1, <2>2
<1> QED
  BY <1>4, <1>5, <1>6, <1>7

(* The n-th element of a set of indices: the least index with n of them up   *)
(* to it is one of them.                                                     *)
LEMMA NthElement ==
  ASSUME NEW len \in Nat, NEW at \in SUBSET (1..len), NEW n \in 1..Cardinality(at)
  PROVE  \E k \in at : Cardinality({j \in at : j <= k}) = n
<1> DEFINE Upto(k) == {j \in at : j <= k}
           Enough == {k \in 0..len : Cardinality(Upto(k)) >= n}
<1>1. /\ IsFiniteSet(at) /\ Cardinality(at) \in Nat
      /\ \A k : IsFiniteSet(Upto(k)) /\ Cardinality(Upto(k)) \in Nat
  <2>1. IsFiniteSet(1..len)
    BY FS_Interval
  <2>2. IsFiniteSet(at) /\ \A k : IsFiniteSet(Upto(k))
    BY <2>1, FS_Subset
  <2> QED
    BY <2>2, FS_CardinalityType
<1>0. \A j \in at : j \in Nat /\ j > 0 /\ j <= len
  OBVIOUS
<1>2. Upto(len) = at
  BY <1>0
<1>3. Upto(0) = {}
  <2> SUFFICES ASSUME NEW j \in Upto(0) PROVE FALSE
    OBVIOUS
  <2> QED
    BY <1>0
<1>4. ASSUME NEW k \in 1..len
      PROVE  Upto(k) = IF k \in at THEN Upto(k - 1) \cup {k} ELSE Upto(k - 1)
  <2>1. \A j \in at : j <= k <=> j <= k - 1 \/ j = k
    BY <1>0
  <2>2. \A j : j \in Upto(k) <=> j \in Upto(k - 1) \/ (j \in at /\ j = k)
    BY <2>1
  <2> HIDE DEF Upto
  <2> QED
    BY <2>2
<1>5. \A k \in 1..len : k \notin Upto(k - 1)
  OBVIOUS
<1> HIDE DEF Upto
<1>6. PICK k \in Enough : \A m \in Enough : k <= m
  <2>1. len \in Enough
    BY <1>1, <1>2
  <2>2. Enough \in SUBSET Nat
    OBVIOUS
  <2> HIDE DEF Enough
  <2> QED
    BY <2>1, <2>2, LeastNat
<1>7. k \in 1..len
  <2>1. Cardinality(Upto(0)) = 0
    BY <1>3, FS_EmptySet
  <2> QED
    BY <1>1, <1>6, <2>1
<1>8. Cardinality(Upto(k - 1)) < n
  BY <1>1, <1>6, <1>7
<1>9. Cardinality(Upto(k)) = IF k \in at THEN Cardinality(Upto(k - 1)) + 1 ELSE Cardinality(Upto(k - 1))
  BY <1>1, <1>4, <1>5, <1>7, FS_AddElement
<1>10. k \in at /\ Cardinality(Upto(k)) = n
  BY <1>1, <1>6, <1>7, <1>8, <1>9
<1> QED
  BY <1>10 DEF Upto

LEMMA PickedElements ==
  ASSUME NEW s, IsSequence(s), NEW at \in SUBSET DOMAIN s
  PROVE  /\ IsSequence(Picked(s, at)) /\ Len(Picked(s, at)) = Cardinality(at)
         /\ \A n \in DOMAIN Picked(s, at) : \E k \in at : Picked(s, at)[n] = s[k]
         /\ \A k \in at : \E n \in DOMAIN Picked(s, at) : Picked(s, at)[n] = s[k]
<1> DEFINE c == Picked(s, at)
           Nth(n) == CHOOSE k \in at : Cardinality({j \in at : j <= k}) = n
           Upto(k) == {j \in at : j <= k}
<1>1. Len(s) \in Nat /\ DOMAIN s = 1..Len(s)
  BY SequenceMeans
<1>2. /\ IsFiniteSet(at) /\ Cardinality(at) \in Nat
      /\ \A k : IsFiniteSet(Upto(k)) /\ Cardinality(Upto(k)) \in Nat /\ Cardinality(Upto(k)) <= Cardinality(at)
  <2>1. IsFiniteSet(1..Len(s))
    BY <1>1, FS_Interval
  <2>2. IsFiniteSet(at)
    BY <1>1, <2>1, FS_Subset
  <2> QED
    BY <2>2, FS_Subset, FS_CardinalityType
<1>3. c = [n \in 1..Cardinality(at) |-> s[Nth(n)]]
  BY DEF Picked
<1>4. \A n \in 1..Cardinality(at) : Nth(n) \in at /\ Cardinality(Upto(Nth(n))) = n
  <2>1. \A n \in 1..Cardinality(at) : \E k \in at : Cardinality(Upto(k)) = n
    BY ZenonT(60), <1>1, NthElement
  <2>2. \A n : Nth(n) = CHOOSE k \in at : Cardinality(Upto(k)) = n
    OBVIOUS
  <2> HIDE DEF Nth, Upto
  <2> QED
    BY <2>1, <2>2
<1>5. ASSUME NEW k \in at
      PROVE  Cardinality(Upto(k)) \in 1..Cardinality(at) /\ Nth(Cardinality(Upto(k))) = k
  <2>1. k \in Upto(k)
    BY <1>1
  <2>2. Cardinality(Upto(k)) # 0
    BY <1>2, <2>1, FS_EmptySet
  <2>3. Cardinality(Upto(k)) \in 1..Cardinality(at)
    BY <1>2, <2>2
  <2>4. ASSUME NEW i \in at, NEW j \in at, i < j
        PROVE  Cardinality(Upto(i)) < Cardinality(Upto(j))
    <3>1. Upto(i) \subseteq Upto(j) /\ j \in Upto(j) /\ j \notin Upto(i)
      BY <1>1, <2>4
    <3>2. Upto(i) # Upto(j)
      BY <3>1
    <3> HIDE DEF Upto
    <3> QED
      BY <1>2, <3>1, <3>2, FS_Subset
  <2>5. Nth(Cardinality(Upto(k))) \in at /\ Cardinality(Upto(Nth(Cardinality(Upto(k))))) = Cardinality(Upto(k))
    BY <1>4, <2>3
  <2> HIDE DEF Nth, Upto
  <2>6. \A i, j \in at : i < j \/ j < i \/ i = j
    BY <1>1
  <2> QED
    BY <1>2, <2>3, <2>4, <2>5, <2>6
<1> HIDE DEF Nth, Upto, c
<1>6. c = [n \in 1..Cardinality(at) |-> c[n]] /\ \A n \in 1..Cardinality(at) : c[n] = s[Nth(n)]
  BY <1>3
<1>7. IsSequence(c) /\ Len(c) = Cardinality(at) /\ DOMAIN c = 1..Cardinality(at)
  BY <1>2, <1>6, SequenceIs
<1> QED
  BY <1>4, <1>5, <1>6, <1>7 DEF c

(* Picking an initial part.                                                  *)
LEMMA PickedPrefix ==
  ASSUME NEW s, IsSequence(s), NEW len \in Nat, len <= Len(s)
  PROVE  Picked(s, 1..len) = [n \in 1..len |-> s[n]]
<1>1. Len(s) \in Nat /\ DOMAIN s = 1..Len(s)
  BY SequenceMeans
<1>2. Cardinality(1..len) = len
  BY FS_Interval
<1>3. ASSUME NEW k \in 1..len
      PROVE  Cardinality({j \in 1..len : j <= k}) = k
  <2>1. {j \in 1..len : j <= k} = 1..k
    OBVIOUS
  <2>2. Cardinality(1..k) = k
    BY FS_Interval
  <2> QED
    BY <2>1, <2>2
<1>4. \A n \in 1..len : (CHOOSE k \in 1..len : Cardinality({j \in 1..len : j <= k}) = n) = n
  <2> SUFFICES ASSUME NEW n \in 1..len
               PROVE  (CHOOSE k \in 1..len : Cardinality({j \in 1..len : j <= k}) = n) = n
    OBVIOUS
  <2> DEFINE Size(k) == Cardinality({j \in 1..len : j <= k})
  <2>1. \A k \in 1..len : Size(k) = k
    BY <1>3
  <2> HIDE DEF Size
  <2>2. (CHOOSE k \in 1..len : Size(k) = n) = n
    BY <2>1
  <2> QED
    BY <2>2 DEF Size
<1>5. Picked(s, 1..len) =
        [n \in 1..Cardinality(1..len) |->
            s[CHOOSE k \in 1..len : Cardinality({j \in 1..len : j <= k}) = n]]
  BY DEF Picked
<1> QED
  BY <1>2, <1>4, <1>5, Zenon

-------------------------------------------------------------------------------
(* What a pass does to a module, as far as its definitions go.  A pass       *)
(* replaces types by types that list no method they did not, methods by      *)
(* methods of the same owner, or fields.                                     *)

TypeKept(new, old) ==
    /\ DOMAIN new = DOMAIN old
    /\ IsSequence(new.attrs) /\ DOMAIN new.attrs = DOMAIN old.attrs
    /\ \A j \in DOMAIN new.attrs : DOMAIN new.attrs[j] = {"ctor", "blob"}
    /\ IsSequence(new.methods) /\ Range(new.methods) \subseteq Range(old.methods)
    /\ IsSequence(new.ifaces)

MethodKept(new, old) ==
    /\ DOMAIN new = DOMAIN old /\ new.owner = old.owner
    /\ IsSequence(new.overrides)
    /\ \A j \in DOMAIN new.overrides : DOMAIN new.overrides[j] = {"parent", "name"}

(* What of a module is said in its definitions: the parts a record keeps.    *)
SameTypes(now, was) == \A i \in DOMAIN was.types :
    /\ now.types[i].flags = was.types[i].flags
    /\ now.types[i].prefix = was.types[i].prefix
    /\ now.types[i].methods = was.types[i].methods
SameBlobs(now, was) == \A i \in DOMAIN was.types : \A j \in DOMAIN was.types[i].attrs :
    now.types[i].attrs[j].blob = was.types[i].attrs[j].blob
SameMethods(now, was) == \A k \in DOMAIN was.methods :
    /\ now.methods[k].access = was.methods[k].access
    /\ now.methods[k].flags = was.methods[k].flags
SameFields(now, was) == \A f \in DOMAIN was.fields : now.fields[f] = was.fields[f]

SameDefinitions(now, was) ==
    SameTypes(now, was) /\ SameBlobs(now, was) /\ SameMethods(now, was) /\ SameFields(now, was)

LEMMA ShapeTransitive ==
  ASSUME NEW a, NEW b, NEW c, SameShape(a, b), SameShape(b, c)
  PROVE  SameShape(a, c)
BY DEF SameShape

LEMMA ShapeReflexive ==
  ASSUME NEW m
  PROVE  SameShape(m, m)
BY DEF SameShape

LEMMA SameTransitive ==
  ASSUME NEW a, NEW b, NEW c, SameShape(b, c)
  PROVE  /\ SameTypes(a, b) /\ SameTypes(b, c) => SameTypes(a, c)
         /\ SameBlobs(a, b) /\ SameBlobs(b, c) => SameBlobs(a, c)
         /\ SameMethods(a, b) /\ SameMethods(b, c) => SameMethods(a, c)
         /\ SameFields(a, b) /\ SameFields(b, c) => SameFields(a, c)
<1>1. SameTypes(a, b) /\ SameTypes(b, c) => SameTypes(a, c)
  BY DEF SameTypes, SameShape
<1>2. SameBlobs(a, b) /\ SameBlobs(b, c) => SameBlobs(a, c)
  BY DEF SameBlobs, SameShape
<1>3. SameMethods(a, b) /\ SameMethods(b, c) => SameMethods(a, c)
  BY DEF SameMethods, SameShape
<1>4. SameFields(a, b) /\ SameFields(b, c) => SameFields(a, c)
  BY DEF SameFields, SameShape
<1> QED
  BY <1>1, <1>2, <1>3, <1>4

LEMMA WithTypes ==
  ASSUME NEW m, IsModule(m), NEW ts, ts = [i \in DOMAIN m.types |-> ts[i]],
         \A i \in DOMAIN m.types : TypeKept(ts[i], m.types[i])
  PROVE  /\ IsModule([m EXCEPT !.types = ts]) /\ SameShape([m EXCEPT !.types = ts], m)
         /\ [m EXCEPT !.types = ts].types = ts
         /\ SameMethods([m EXCEPT !.types = ts], m) /\ SameFields([m EXCEPT !.types = ts], m)
<1> DEFINE n == [m EXCEPT !.types = ts]
<1>1. /\ DOMAIN n = DOMAIN m /\ n.types = ts
      /\ n.kind = m.kind /\ n.methods = m.methods /\ n.fields = m.fields
      /\ n.refs = m.refs /\ n.loose = m.loose
  BY DEF IsModule
<1>2. IsSequence(ts) /\ DOMAIN ts = DOMAIN m.types
  BY SameLength DEF IsModule
<1> HIDE DEF n
<1>3. \A i \in DOMAIN m.types : IsType(ts[i], n)
  BY <1>1 DEF IsModule, IsType, TypeKept
<1>4. \A k \in DOMAIN m.methods : IsMethod(m.methods[k], n)
  BY <1>1, <1>2 DEF IsModule, IsMethod
<1>5. IsModule(n)
  BY <1>1, <1>2, <1>3, <1>4 DEF IsModule
<1>6. SameShape(n, m)
  BY <1>1, <1>2 DEF SameShape, TypeKept
<1>7. SameMethods(n, m) /\ SameFields(n, m)
  BY <1>1 DEF SameMethods, SameFields
<1> QED
  BY <1>1, <1>5, <1>6, <1>7 DEF n

LEMMA WithMethods ==
  ASSUME NEW m, IsModule(m), NEW ks, ks = [k \in DOMAIN m.methods |-> ks[k]],
         \A k \in DOMAIN m.methods : MethodKept(ks[k], m.methods[k])
  PROVE  /\ IsModule([m EXCEPT !.methods = ks]) /\ SameShape([m EXCEPT !.methods = ks], m)
         /\ [m EXCEPT !.methods = ks].methods = ks
         /\ SameTypes([m EXCEPT !.methods = ks], m) /\ SameBlobs([m EXCEPT !.methods = ks], m)
         /\ SameFields([m EXCEPT !.methods = ks], m)
<1> DEFINE n == [m EXCEPT !.methods = ks]
<1>1. /\ DOMAIN n = DOMAIN m /\ n.methods = ks
      /\ n.kind = m.kind /\ n.types = m.types /\ n.fields = m.fields
      /\ n.refs = m.refs /\ n.loose = m.loose
  BY DEF IsModule
<1>2. IsSequence(ks) /\ DOMAIN ks = DOMAIN m.methods
  BY SameLength DEF IsModule
<1> HIDE DEF n
<1>3. \A i \in DOMAIN m.types : IsType(m.types[i], n)
  BY <1>1, <1>2 DEF IsModule, IsType
<1>4. \A k \in DOMAIN m.methods : IsMethod(ks[k], n)
  BY <1>1 DEF IsModule, IsMethod, MethodKept
<1>5. IsModule(n)
  BY <1>1, <1>2, <1>3, <1>4 DEF IsModule
<1>6. SameShape(n, m)
  BY <1>1, <1>2 DEF SameShape
<1>7. SameTypes(n, m) /\ SameBlobs(n, m) /\ SameFields(n, m)
  BY <1>1 DEF SameTypes, SameBlobs, SameFields
<1> QED
  BY <1>1, <1>5, <1>6, <1>7 DEF n

LEMMA WithFields ==
  ASSUME NEW m, IsModule(m), NEW fs, fs = [f \in DOMAIN m.fields |-> fs[f]],
         \A f \in DOMAIN m.fields : IsField(fs[f])
  PROVE  /\ IsModule([m EXCEPT !.fields = fs]) /\ SameShape([m EXCEPT !.fields = fs], m)
         /\ [m EXCEPT !.fields = fs].fields = fs
         /\ SameTypes([m EXCEPT !.fields = fs], m) /\ SameBlobs([m EXCEPT !.fields = fs], m)
         /\ SameMethods([m EXCEPT !.fields = fs], m)
<1> DEFINE n == [m EXCEPT !.fields = fs]
<1>1. /\ DOMAIN n = DOMAIN m /\ n.fields = fs
      /\ n.kind = m.kind /\ n.types = m.types /\ n.methods = m.methods
      /\ n.refs = m.refs /\ n.loose = m.loose
  BY DEF IsModule
<1>2. IsSequence(fs) /\ DOMAIN fs = DOMAIN m.fields
  BY SameLength DEF IsModule
<1> HIDE DEF n
<1>3. \A i \in DOMAIN m.types : IsType(m.types[i], n)
  BY <1>1 DEF IsModule, IsType
<1>4. \A k \in DOMAIN m.methods : IsMethod(m.methods[k], n)
  BY <1>1 DEF IsModule, IsMethod
<1>5. IsModule(n)
  BY <1>1, <1>2, <1>3, <1>4 DEF IsModule
<1>6. SameShape(n, m)
  BY <1>1, <1>2 DEF SameShape
<1>7. SameTypes(n, m) /\ SameBlobs(n, m) /\ SameMethods(n, m)
  BY <1>1 DEF SameTypes, SameBlobs, SameMethods
<1> QED
  BY <1>1, <1>5, <1>6, <1>7 DEF n

(* Assembly references and the loose ones say nothing of definitions.        *)
LEMMA WithReferences ==
  ASSUME NEW m, IsModule(m), NEW rs, IsSequence(rs),
         \A k \in DOMAIN rs : DOMAIN rs[k] = {"name", "version"}
  PROVE  /\ IsModule([m EXCEPT !.refs = rs]) /\ SameShape([m EXCEPT !.refs = rs], m)
         /\ SameDefinitions([m EXCEPT !.refs = rs], m)
<1> DEFINE n == [m EXCEPT !.refs = rs]
<1>1. /\ DOMAIN n = DOMAIN m /\ n.fields = m.fields
      /\ n.kind = m.kind /\ n.types = m.types /\ n.methods = m.methods
      /\ n.refs = rs /\ n.loose = m.loose
  BY DEF IsModule
<1> HIDE DEF n
<1>3. \A i \in DOMAIN m.types : IsType(m.types[i], n)
  BY <1>1 DEF IsModule, IsType
<1>4. \A k \in DOMAIN m.methods : IsMethod(m.methods[k], n)
  BY <1>1 DEF IsModule, IsMethod
<1>5. IsModule(n)
  BY <1>1, <1>3, <1>4 DEF IsModule
<1>6. SameShape(n, m) /\ SameDefinitions(n, m)
  BY <1>1 DEF SameShape, SameDefinitions, SameTypes, SameBlobs, SameMethods, SameFields
<1> QED
  BY <1>5, <1>6 DEF n

LEMMA WithLoose ==
  ASSUME NEW m, IsModule(m), NEW ls, IsSequence(ls)
  PROVE  /\ IsModule([m EXCEPT !.loose = ls]) /\ SameShape([m EXCEPT !.loose = ls], m)
         /\ SameDefinitions([m EXCEPT !.loose = ls], m)
<1> DEFINE n == [m EXCEPT !.loose = ls]
<1>1. /\ DOMAIN n = DOMAIN m /\ n.fields = m.fields
      /\ n.kind = m.kind /\ n.types = m.types /\ n.methods = m.methods
      /\ n.refs = m.refs /\ n.loose = ls
  BY DEF IsModule
<1> HIDE DEF n
<1>3. \A i \in DOMAIN m.types : IsType(m.types[i], n)
  BY <1>1 DEF IsModule, IsType
<1>4. \A k \in DOMAIN m.methods : IsMethod(m.methods[k], n)
  BY <1>1 DEF IsModule, IsMethod
<1>5. IsModule(n)
  BY <1>1, <1>3, <1>4 DEF IsModule
<1>6. SameShape(n, m) /\ SameDefinitions(n, m)
  BY <1>1 DEF SameShape, SameDefinitions, SameTypes, SameBlobs, SameMethods, SameFields
<1> QED
  BY <1>5, <1>6 DEF n

-------------------------------------------------------------------------------
(* References replaced: overrides, then the whole module.                    *)

LEMMA WithOverrides ==
  ASSUME NEW m, NEW meth, IsMethod(meth, m), NEW os, os = [j \in DOMAIN meth.overrides |-> os[j]],
         \A j \in DOMAIN meth.overrides : DOMAIN os[j] = {"parent", "name"}
  PROVE  /\ MethodKept([meth EXCEPT !.overrides = os], meth)
         /\ [meth EXCEPT !.overrides = os].access = meth.access
         /\ [meth EXCEPT !.overrides = os].flags = meth.flags
<1>1. IsSequence(os) /\ DOMAIN os = DOMAIN meth.overrides
  BY SameLength DEF IsMethod
<1> QED
  BY <1>1 DEF IsMethod, MethodKept

RenamedAlike(new, old) ==
    /\ TypeKept(new, old)
    /\ new.flags = old.flags /\ new.prefix = old.prefix /\ new.methods = old.methods
    /\ \A j \in DOMAIN old.attrs : new.attrs[j].blob = old.attrs[j].blob

LEMMA Renaming ==
  ASSUME NEW m, IsModule(m),
         NEW ts, ts = [i \in DOMAIN m.types |-> ts[i]],
         \A i \in DOMAIN m.types : RenamedAlike(ts[i], m.types[i]),
         NEW ks, ks = [k \in DOMAIN m.methods |-> ks[k]],
         \A k \in DOMAIN m.methods :
            /\ MethodKept(ks[k], m.methods[k])
            /\ ks[k].access = m.methods[k].access /\ ks[k].flags = m.methods[k].flags,
         NEW ls, IsSequence(ls)
  PROVE  LET n == [m EXCEPT !.types = ts, !.methods = ks, !.loose = ls]
         IN  IsModule(n) /\ SameShape(n, m) /\ SameDefinitions(n, m)
<1> DEFINE a == [m EXCEPT !.types = ts]
           b == [a EXCEPT !.methods = ks]
           c == [b EXCEPT !.loose = ls]
<1>1. /\ IsModule(a) /\ SameShape(a, m) /\ a.types = ts
      /\ SameMethods(a, m) /\ SameFields(a, m) /\ a.methods = m.methods
  BY WithTypes DEF IsModule, RenamedAlike
<1>2. SameTypes(a, m) /\ SameBlobs(a, m)
  BY ZenonT(60), <1>1 DEF SameTypes, SameBlobs, RenamedAlike
<1> HIDE DEF a
<1>3. /\ IsModule(b) /\ SameShape(b, a) /\ b.methods = ks
      /\ SameTypes(b, a) /\ SameBlobs(b, a) /\ SameFields(b, a)
  BY <1>1, WithMethods
<1>4. SameMethods(b, a)
  BY <1>1, <1>3 DEF SameMethods
<1> HIDE DEF b
<1>5. IsModule(c) /\ SameShape(c, b) /\ SameDefinitions(c, b)
  BY <1>3, WithLoose
<1>6. c = [m EXCEPT !.types = ts, !.methods = ks, !.loose = ls]
  BY DEF a, b
<1> HIDE DEF c
<1>7. SameShape(b, m) /\ SameShape(c, m)
  BY <1>1, <1>3, <1>5, ShapeTransitive
<1>8. SameDefinitions(b, m)
  BY <1>1, <1>2, <1>3, <1>4, SameTransitive DEF SameDefinitions
<1>9. SameDefinitions(c, m)
  BY <1>5, <1>7, <1>8, SameTransitive DEF SameDefinitions
<1> QED
  BY <1>5, <1>6, <1>7, <1>9

LEMMA RenamedType ==
  ASSUME NEW m, NEW ty, IsType(ty, m), NEW new,
         DOMAIN new = DOMAIN ty, new.flags = ty.flags, new.prefix = ty.prefix,
         new.methods = ty.methods,
         new.ifaces = [j \in DOMAIN ty.ifaces |-> new.ifaces[j]],
         new.attrs = [j \in DOMAIN ty.attrs |-> new.attrs[j]],
         \A j \in DOMAIN ty.attrs : /\ DOMAIN new.attrs[j] = {"ctor", "blob"}
                                    /\ new.attrs[j].blob = ty.attrs[j].blob
  PROVE  RenamedAlike(new, ty)
<1>1. /\ IsSequence(new.ifaces)
      /\ IsSequence(new.attrs) /\ DOMAIN new.attrs = DOMAIN ty.attrs
  BY SameLength DEF IsType
<1> QED
  BY <1>1 DEF IsType, RenamedAlike, TypeKept

LEMMA ProjectedModule ==
  ASSUME NEW m, IsModule(m)
  PROVE  LET n == Rewritten(m, Projected)
         IN  IsModule(n) /\ SameShape(n, m) /\ SameDefinitions(n, m)
<1> DEFINE R(e) == Projected(e)
           all(s) == [j \in DOMAIN s |-> R(s[j])]
           ctors(ty) == [j \in DOMAIN ty.attrs |-> [ty.attrs[j] EXCEPT !.ctor = R(ty.attrs[j].ctor)]]
           type(ty) == [ty EXCEPT !.base = R(ty.base), !.ifaces = all(ty.ifaces), !.attrs = ctors(ty)]
           parents(meth) == [j \in DOMAIN meth.overrides |->
                               [meth.overrides[j] EXCEPT !.parent = R(meth.overrides[j].parent)]]
           ts == [i \in DOMAIN m.types |-> type(m.types[i])]
           ks == [k \in DOMAIN m.methods |->
                    IF k \in ListedMethods(m)
                    THEN [m.methods[k] EXCEPT !.overrides = parents(m.methods[k])] ELSE m.methods[k]]
           ls == all(m.loose)
           n == [m EXCEPT !.types = ts, !.methods = ks, !.loose = ls]
<1>1. Rewritten(m, Projected) = n
  BY DEF Rewritten, Reparented
<1>2. ASSUME NEW i \in DOMAIN m.types PROVE RenamedAlike(ts[i], m.types[i])
  <2>1. IsType(m.types[i], m)
    BY DEF IsModule
  <2>2. ctors(m.types[i]) = [j \in DOMAIN m.types[i].attrs |-> ctors(m.types[i])[j]]
    OBVIOUS
  <2>3. \A j \in DOMAIN m.types[i].attrs : /\ DOMAIN ctors(m.types[i])[j] = {"ctor", "blob"}
                                           /\ ctors(m.types[i])[j].blob = m.types[i].attrs[j].blob
    BY <2>1 DEF IsType
  <2>4. all(m.types[i].ifaces) = [j \in DOMAIN m.types[i].ifaces |-> all(m.types[i].ifaces)[j]]
    OBVIOUS
  <2>5. ts[i] = type(m.types[i])
    OBVIOUS
  <2> HIDE DEF ctors, all, ts, R
  <2>6. /\ DOMAIN ts[i] = DOMAIN m.types[i] /\ ts[i].flags = m.types[i].flags
        /\ ts[i].prefix = m.types[i].prefix /\ ts[i].methods = m.types[i].methods
        /\ ts[i].ifaces = all(m.types[i].ifaces) /\ ts[i].attrs = ctors(m.types[i])
    BY Zenon, <2>1, <2>5 DEF IsType
  <2> HIDE DEF type
  <2> QED
    BY <2>1, <2>2, <2>3, <2>4, <2>6, RenamedType
<1>3. ASSUME NEW k \in DOMAIN m.methods
      PROVE  /\ MethodKept(ks[k], m.methods[k])
             /\ ks[k].access = m.methods[k].access /\ ks[k].flags = m.methods[k].flags
  <2>1. IsMethod(m.methods[k], m)
    BY DEF IsModule
  <2>2. \A j \in DOMAIN m.methods[k].overrides : DOMAIN parents(m.methods[k])[j] = {"parent", "name"}
    BY <2>1 DEF IsMethod
  <2>3. CASE k \in ListedMethods(m)
    <3> HIDE DEF parents
    <3>1. parents(m.methods[k]) = [j \in DOMAIN m.methods[k].overrides |-> parents(m.methods[k])[j]]
      BY DEF parents
    <3> QED
      BY <2>1, <2>2, <2>3, <3>1, WithOverrides
  <2>4. CASE k \notin ListedMethods(m)
    BY Zenon, <2>1, <2>4 DEF MethodKept, IsMethod
  <2> QED
    BY <2>3, <2>4
<1>4. IsSequence(ls)
  <2>1. ls = [j \in DOMAIN m.loose |-> ls[j]]
    BY Zenon
  <2> HIDE DEF ls
  <2> QED
    BY <2>1, SameLength DEF IsModule
<1>5. ts = [i \in DOMAIN m.types |-> ts[i]] /\ ks = [k \in DOMAIN m.methods |-> ks[k]]
  BY Zenon
<1> HIDE DEF ts, ks, ls
<1>6. IsModule(n) /\ SameShape(n, m) /\ SameDefinitions(n, m)
  BY <1>2, <1>3, <1>4, <1>5, Renaming
<1> HIDE DEF n
<1> QED
  BY <1>1, <1>6

(* What a module is when its references are restored.                        *)
WithReferencesRestored(m, refs) == Rewritten(m, LAMBDA e : Restored(e, refs))

LEMMA RestoredModule ==
  ASSUME NEW m, IsModule(m), NEW refs
  PROVE  LET n == WithReferencesRestored(m, refs)
         IN  IsModule(n) /\ SameShape(n, m) /\ SameDefinitions(n, m)
<1> DEFINE R(e) == Restored(e, refs)
           all(s) == [j \in DOMAIN s |-> R(s[j])]
           ctors(ty) == [j \in DOMAIN ty.attrs |-> [ty.attrs[j] EXCEPT !.ctor = R(ty.attrs[j].ctor)]]
           type(ty) == [ty EXCEPT !.base = R(ty.base), !.ifaces = all(ty.ifaces), !.attrs = ctors(ty)]
           parents(meth) == [j \in DOMAIN meth.overrides |->
                               [meth.overrides[j] EXCEPT !.parent = R(meth.overrides[j].parent)]]
           ts == [i \in DOMAIN m.types |-> type(m.types[i])]
           ks == [k \in DOMAIN m.methods |->
                    IF k \in ListedMethods(m)
                    THEN [m.methods[k] EXCEPT !.overrides = parents(m.methods[k])] ELSE m.methods[k]]
           ls == all(m.loose)
           n == [m EXCEPT !.types = ts, !.methods = ks, !.loose = ls]
<1>1. WithReferencesRestored(m, refs) = n
  BY DEF WithReferencesRestored, Rewritten, Reparented
<1>2. ASSUME NEW i \in DOMAIN m.types PROVE RenamedAlike(ts[i], m.types[i])
  <2>1. IsType(m.types[i], m)
    BY DEF IsModule
  <2>2. ctors(m.types[i]) = [j \in DOMAIN m.types[i].attrs |-> ctors(m.types[i])[j]]
    OBVIOUS
  <2>3. \A j \in DOMAIN m.types[i].attrs : /\ DOMAIN ctors(m.types[i])[j] = {"ctor", "blob"}
                                           /\ ctors(m.types[i])[j].blob = m.types[i].attrs[j].blob
    BY <2>1 DEF IsType
  <2>4. all(m.types[i].ifaces) = [j \in DOMAIN m.types[i].ifaces |-> all(m.types[i].ifaces)[j]]
    OBVIOUS
  <2>5. ts[i] = type(m.types[i])
    OBVIOUS
  <2> HIDE DEF ctors, all, ts, R
  <2>6. /\ DOMAIN ts[i] = DOMAIN m.types[i] /\ ts[i].flags = m.types[i].flags
        /\ ts[i].prefix = m.types[i].prefix /\ ts[i].methods = m.types[i].methods
        /\ ts[i].ifaces = all(m.types[i].ifaces) /\ ts[i].attrs = ctors(m.types[i])
    BY <2>1, <2>5 DEF IsType
  <2> HIDE DEF type
  <2> QED
    BY <2>1, <2>2, <2>3, <2>4, <2>6, RenamedType
<1>3. ASSUME NEW k \in DOMAIN m.methods
      PROVE  /\ MethodKept(ks[k], m.methods[k])
             /\ ks[k].access = m.methods[k].access /\ ks[k].flags = m.methods[k].flags
  <2>1. IsMethod(m.methods[k], m)
    BY DEF IsModule
  <2>2. \A j \in DOMAIN m.methods[k].overrides : DOMAIN parents(m.methods[k])[j] = {"parent", "name"}
    BY <2>1 DEF IsMethod
  <2>3. CASE k \in ListedMethods(m)
    <3> HIDE DEF parents
    <3>1. parents(m.methods[k]) = [j \in DOMAIN m.methods[k].overrides |-> parents(m.methods[k])[j]]
      BY Zenon DEF parents
    <3> QED
      BY <2>1, <2>2, <2>3, <3>1, WithOverrides
  <2>4. CASE k \notin ListedMethods(m)
    BY Zenon, <2>1, <2>4 DEF MethodKept, IsMethod
  <2> QED
    BY <2>3, <2>4
<1>4. IsSequence(ls)
  <2>1. ls = [j \in DOMAIN m.loose |-> ls[j]]
    BY Zenon
  <2> HIDE DEF ls
  <2> QED
    BY <2>1, SameLength DEF IsModule
<1>5. ts = [i \in DOMAIN m.types |-> ts[i]] /\ ks = [k \in DOMAIN m.methods |-> ks[k]]
  BY Zenon
<1> HIDE DEF ts, ks, ls
<1>6. IsModule(n) /\ SameShape(n, m) /\ SameDefinitions(n, m)
  BY <1>2, <1>3, <1>4, <1>5, Renaming
<1> HIDE DEF n
<1> QED
  BY <1>1, <1>6

(* The first and the last of a set of indices.                               *)
LEMMA FirstAndLast ==
  ASSUME NEW s, IsSequence(s), NEW hits \in SUBSET DOMAIN s, hits # {}
  PROVE  Min(hits) \in hits /\ Max(hits) \in hits
<1>1. Len(s) \in Nat /\ DOMAIN s = 1..Len(s)
  BY SequenceMeans
<1>2. \E x \in hits : \A y \in hits : x <= y
  BY <1>1, LeastNat
<1>3. Min(hits) \in hits
  BY <1>2 DEF Min
<1> DEFINE back == {Len(s) - k : k \in hits}
<1>4. back \in SUBSET Nat /\ back # {}
  BY <1>1
<1>5. PICK b \in back : \A c \in back : b <= c
  <2> HIDE DEF back
  <2> QED
    BY <1>4, LeastNat
<1>6. \E x \in hits : \A y \in hits : x >= y
  <2>1. PICK x \in hits : b = Len(s) - x
    BY <1>5
  <2>2. \A y \in hits : Len(s) - x <= Len(s) - y
    BY <1>5, <2>1
  <2>3. \A y \in hits : x \in Nat /\ y \in Nat
    BY <1>1
  <2> QED
    BY <1>1, <2>2, <2>3
<1>7. Max(hits) \in hits
  BY <1>6 DEF Max
<1> QED
  BY <1>3, <1>7

LEMMA OneOut ==
  ASSUME NEW s, IsSequence(s), NEW hits \in SUBSET DOMAIN s, hits # {},
         NEW p \in {Min(hits), Max(hits)}
  PROVE  IsSequence(RemoveAt(s, p)) /\ \A k \in DOMAIN RemoveAt(s, p) : \E j \in DOMAIN s : RemoveAt(s, p)[k] = s[j]
<1>1. p \in DOMAIN s
  BY FirstAndLast
<1> DEFINE c == RemoveAt(s, p)
<1>2. /\ IsSequence(c) /\ Len(c) = Len(s) - 1
      /\ \A i \in 1..Len(s) - 1 : c[i] = IF i < p THEN s[i] ELSE s[i + 1]
  BY <1>1, RemoveAtSequence
<1> HIDE DEF c
<1>3. DOMAIN c = 1..Len(s) - 1 /\ DOMAIN s = 1..Len(s) /\ Len(s) \in Nat
  BY <1>2, SequenceMeans
<1>4. ASSUME NEW k \in DOMAIN c PROVE \E j \in DOMAIN s : c[k] = s[j]
  <2>1. k \in DOMAIN s /\ k + 1 \in DOMAIN s
    BY <1>3
  <2> QED
    BY <1>2, <1>3, <2>1
<1> QED
  BY <1>2, <1>4 DEF c

-------------------------------------------------------------------------------
(* The passes on assembly references.                                        *)

IsReferences(rs) == IsSequence(rs) /\ \A k \in DOMAIN rs : DOMAIN rs[k] = {"name", "version"}

LEMMA VersionSet ==
  ASSUME NEW rs, IsReferences(rs), NEW p, NEW version
  PROVE  IsReferences([rs EXCEPT ![p].version = version])
<1> DEFINE c == [rs EXCEPT ![p].version = version]
<1>1. c = [k \in DOMAIN rs |-> c[k]]
  OBVIOUS
<1>2. \A k \in DOMAIN rs : DOMAIN c[k] = {"name", "version"}
  BY DEF IsReferences
<1> HIDE DEF c
<1>3. IsSequence(c) /\ DOMAIN c = DOMAIN rs
  BY <1>1, SameLength DEF IsReferences
<1> QED
  BY <1>2, <1>3 DEF IsReferences, c

LEMMA ReferencesJoined ==
  ASSUME NEW rs, IsReferences(rs), NEW ss, IsReferences(ss)
  PROVE  IsReferences(rs \o ss)
<1> DEFINE c == rs \o ss
<1>1. /\ IsSequence(c)
      /\ \A i \in DOMAIN rs : c[i] = rs[i]
      /\ \A i \in DOMAIN c : \/ i \in DOMAIN rs
                             \/ i > Len(rs) /\ i - Len(rs) \in DOMAIN ss /\ c[i] = ss[i - Len(rs)]
  BY ConcatSequence DEF IsReferences
<1> HIDE DEF c
<1>2. \A i \in DOMAIN c : DOMAIN c[i] = {"name", "version"}
  BY <1>1 DEF IsReferences
<1> QED
  BY <1>1, <1>2 DEF IsReferences, c

LEMMA VirtualReferences ==
  ASSUME NEW added,
         added = [v \in DOMAIN VirtualNames |-> [name |-> VirtualNames[v], version |-> "4.0"]]
  PROVE  IsReferences(added)
<1>1. DOMAIN VirtualNames = 1..2
  BY DEF VirtualNames
<1>2. added = [v \in 1..2 |-> added[v]] /\ \A v \in 1..2 : DOMAIN added[v] = {"name", "version"}
  BY <1>1
<1>3. IsSequence(added) /\ DOMAIN added = 1..2
  BY <1>2, 2 \in Nat, SequenceIs
<1> QED
  BY <1>2, <1>3 DEF IsReferences

ReferencesBack(rs, version) ==
    WithoutLast(WithoutLast(WithVersion(rs, version), LAMBDA r : r.name = VirtualNames[2]),
                LAMBDA r : r.name = VirtualNames[1])

LEMMA ReferencesWithout ==
  ASSUME NEW rs, IsReferences(rs), NEW version
  PROVE  IsReferences(ReferencesBack(rs, version))
<1> DEFINE named(s, n) == {k \in DOMAIN s : s[k].name = n}
           out(s, n) == IF named(s, n) = {} THEN s ELSE RemoveAt(s, Max(named(s, n)))
<1>1. IsReferences(WithVersion(rs, version))
  BY VersionSet DEF WithVersion
<1>2. ASSUME NEW s, IsReferences(s), NEW n
      PROVE  IsReferences(out(s, n))
  <2>1. CASE named(s, n) = {}
    BY <1>2, <2>1
  <2>2. CASE named(s, n) # {}
    <3>1. named(s, n) \in SUBSET DOMAIN s /\ IsSequence(s)
      BY <1>2 DEF IsReferences
    <3>2. out(s, n) = RemoveAt(s, Max(named(s, n)))
      BY <2>2
    <3> HIDE DEF named, out
    <3>3. /\ IsSequence(RemoveAt(s, Max(named(s, n))))
          /\ \A k \in DOMAIN RemoveAt(s, Max(named(s, n))) :
                \E j \in DOMAIN s : RemoveAt(s, Max(named(s, n)))[k] = s[j]
      BY <2>2, <3>1, OneOut
    <3> QED
      BY <1>2, <3>2, <3>3 DEF IsReferences
  <2> QED
    BY <2>1, <2>2
<1> DEFINE a == WithVersion(rs, version)
           b == out(a, VirtualNames[2])
<1>3. ReferencesBack(rs, version) = out(b, VirtualNames[1])
  BY DEF ReferencesBack, WithoutLast
<1> HIDE DEF out, a
<1>4. IsReferences(b) /\ IsReferences(out(b, VirtualNames[1]))
  BY <1>1, <1>2 DEF a
<1> QED
  BY <1>3, <1>4

-------------------------------------------------------------------------------
(* The passes on types.                                                      *)

(* One type replaced.                                                        *)
LEMMA TypeReplaced ==
  ASSUME NEW m, IsModule(m), NEW i \in DOMAIN m.types, NEW new, TypeKept(new, m.types[i]),
         NEW n, n = [m EXCEPT !.types[i] = new]
  PROVE  /\ IsModule(n) /\ SameShape(n, m)
         /\ n.types[i] = new /\ \A j \in DOMAIN m.types : j # i => n.types[j] = m.types[j]
         /\ n.methods = m.methods /\ n.fields = m.fields
         /\ SameMethods(n, m) /\ SameFields(n, m)
<1> DEFINE ts == [m.types EXCEPT ![i] = new]
<1>1. ts = [j \in DOMAIN m.types |-> ts[j]]
  OBVIOUS
<1>2. ASSUME NEW j \in DOMAIN m.types PROVE TypeKept(ts[j], m.types[j])
  <2>1. IsType(m.types[j], m)
    BY DEF IsModule
  <2>2. TypeKept(m.types[j], m.types[j])
    BY <2>1 DEF IsType, TypeKept
  <2> QED
    BY <2>2
<1>3. ts[i] = new /\ \A j \in DOMAIN m.types : j # i => ts[j] = m.types[j]
  OBVIOUS
<1>4. n = [m EXCEPT !.types = ts]
  BY DEF IsModule
<1>5. n.methods = m.methods /\ n.fields = m.fields
  BY <1>4 DEF IsModule
<1> HIDE DEF ts
<1> DEFINE q == [m EXCEPT !.types = ts]
<1>6. /\ IsModule(q) /\ SameShape(q, m) /\ q.types = ts
      /\ SameMethods(q, m) /\ SameFields(q, m)
  BY <1>1, <1>2, WithTypes
<1> QED
  BY <1>3, <1>4, <1>5, <1>6 DEF q

LEMMA EditKeepsType ==
  ASSUME NEW m, NEW ty, IsType(ty, m), NEW treatment
  PROVE  /\ TypeKept(EditedType(ty, treatment), ty)
         /\ EditedType(ty, treatment).methods = ty.methods
         /\ EditedType(ty, treatment).attrs = ty.attrs
         /\ EditedType(ty, treatment).ifaces = ty.ifaces
<1> DEFINE new == EditedType(ty, treatment)
<1>1. /\ DOMAIN new = DOMAIN ty /\ new.methods = ty.methods /\ new.attrs = ty.attrs
      /\ new.ifaces = ty.ifaces
  BY DEF EditedType, IsType
<1> HIDE DEF new
<1> QED
  BY <1>1 DEF IsType, TypeKept, new

(* No treatment, no edit.                                                    *)
LEMMA UntreatedType ==
  ASSUME NEW m, NEW ty, IsType(ty, m)
  PROVE  EditedType(ty, {}).flags = ty.flags /\ EditedType(ty, {}).prefix = ty.prefix
<1>1. \A k : (k \in {}) = FALSE
  OBVIOUS
<1>2. EditedType(ty, {}) = [ty EXCEPT !.flags = (@ \ {}) \cup {}, !.prefix = @]
  BY <1>1 DEF EditedType
<1> QED
  BY ZenonT(60), <1>2 DEF IsType

LEMMA RedirectKeepsType ==
  ASSUME NEW m, NEW ty, IsType(ty, m), NEW more, IsSequence(more)
  PROVE  LET new == [EditedType(ty, {"Redirect"}) EXCEPT !.ifaces = @ \o more]
         IN  TypeKept(new, ty) /\ new.methods = ty.methods /\ new.attrs = ty.attrs
<1> DEFINE e == EditedType(ty, {"Redirect"})
           new == [e EXCEPT !.ifaces = @ \o more]
<1>1. TypeKept(e, ty) /\ e.methods = ty.methods /\ e.attrs = ty.attrs /\ e.ifaces = ty.ifaces
  BY EditKeepsType
<1> HIDE DEF e
<1>2. IsSequence(e.ifaces \o more)
  BY <1>1, ConcatSequence DEF IsType
<1>3. /\ DOMAIN new = DOMAIN ty /\ new.methods = ty.methods /\ new.attrs = ty.attrs
      /\ new.ifaces = e.ifaces \o more
  BY <1>1 DEF TypeKept, IsType
<1> HIDE DEF new
<1>4. TypeKept(new, ty)
  BY <1>2, <1>3 DEF IsType, TypeKept
<1> QED
  BY <1>3, <1>4 DEF new, e

LEMMA UnprojectKeepsType ==
  ASSUME NEW m, NEW ty, IsType(ty, m), NEW r
  PROVE  LET new == UnprojectedType(ty, r)
         IN  /\ TypeKept(new, ty) /\ new.attrs = ty.attrs
             /\ new.flags = r.flags /\ new.prefix = r.prefix
<1> DEFINE at == {k \in DOMAIN ty.methods : ty.methods[k] \notin r.added}
           own == Picked(ty.methods, at)
           ms == IF "Redirect" \in r.treatment THEN own ELSE ty.methods
           new == [ty EXCEPT !.flags = r.flags, !.prefix = r.prefix, !.methods = ms]
<1>1. UnprojectedType(ty, r) = new
  BY DEF UnprojectedType, IsType
<1>2. IsSequence(own) /\ \A n \in DOMAIN own : \E k \in at : own[n] = ty.methods[k]
  <2>1. at \in SUBSET DOMAIN ty.methods /\ IsSequence(ty.methods)
    BY DEF IsType
  <2> HIDE DEF at
  <2> QED
    BY <2>1, PickedElements
<1> HIDE DEF own
<1>3. Range(own) \subseteq Range(ty.methods)
  BY <1>2 DEF Range
<1>4. IsSequence(ms) /\ Range(ms) \subseteq Range(ty.methods)
  BY <1>2, <1>3 DEF IsType
<1> HIDE DEF ms
<1>5. /\ DOMAIN new = DOMAIN ty /\ new.attrs = ty.attrs /\ new.methods = ms
      /\ new.ifaces = ty.ifaces /\ new.flags = r.flags /\ new.prefix = r.prefix
  BY DEF IsType
<1> HIDE DEF new
<1>6. TypeKept(new, ty)
  BY <1>4, <1>5 DEF IsType, TypeKept
<1> QED
  BY <1>1, <1>5, <1>6

LEMMA BlobsSet ==
  ASSUME NEW m, IsModule(m), NEW blobs
  PROVE  LET n == SetBlobs(m, blobs)
         IN  /\ IsModule(n) /\ SameShape(n, m)
             /\ n.methods = m.methods /\ n.fields = m.fields
             /\ SameTypes(n, m) /\ SameMethods(n, m) /\ SameFields(n, m)
             /\ \A i \in DOMAIN m.types : \A j \in DOMAIN m.types[i].attrs :
                   n.types[i].attrs[j].blob = IF <<i, j>> \in DOMAIN blobs THEN blobs[<<i, j>>]
                                              ELSE m.types[i].attrs[j].blob
<1> DEFINE attribute(i, j) ==
             IF <<i, j>> \in DOMAIN blobs
             THEN [m.types[i].attrs[j] EXCEPT !.blob = blobs[<<i, j>>]] ELSE m.types[i].attrs[j]
           attrs(i) == [j \in DOMAIN m.types[i].attrs |-> attribute(i, j)]
           ts == [i \in DOMAIN m.types |-> [m.types[i] EXCEPT !.attrs = attrs(i)]]
           n == [m EXCEPT !.types = ts]
<1>1. SetBlobs(m, blobs) = n
  <2>1. \A i \in DOMAIN m.types :
           [m.types[i] EXCEPT !.attrs = [j \in DOMAIN @ |-> attribute(i, j)]] = [m.types[i] EXCEPT !.attrs = attrs(i)]
    BY DEF IsModule, IsType
  <2> QED
    BY <2>1 DEF SetBlobs
<1>2. ASSUME NEW i \in DOMAIN m.types
      PROVE  /\ TypeKept(ts[i], m.types[i]) /\ ts[i].flags = m.types[i].flags
             /\ ts[i].prefix = m.types[i].prefix /\ ts[i].methods = m.types[i].methods
             /\ ts[i].attrs = attrs(i)
             /\ \A j \in DOMAIN m.types[i].attrs :
                   attrs(i)[j].blob = IF <<i, j>> \in DOMAIN blobs THEN blobs[<<i, j>>]
                                      ELSE m.types[i].attrs[j].blob
  <2>1. IsType(m.types[i], m)
    BY DEF IsModule
  <2>2. \A j \in DOMAIN m.types[i].attrs :
           /\ DOMAIN attribute(i, j) = {"ctor", "blob"}
           /\ attribute(i, j).blob = IF <<i, j>> \in DOMAIN blobs THEN blobs[<<i, j>>]
                                     ELSE m.types[i].attrs[j].blob
    BY <2>1 DEF IsType
  <2> HIDE DEF attribute
  <2>3. /\ attrs(i) = [j \in DOMAIN m.types[i].attrs |-> attrs(i)[j]]
        /\ \A j \in DOMAIN m.types[i].attrs : attrs(i)[j] = attribute(i, j)
    OBVIOUS
  <2>4. ts[i] = [m.types[i] EXCEPT !.attrs = attrs(i)]
    OBVIOUS
  <2> HIDE DEF attrs, ts
  <2>5. IsSequence(attrs(i)) /\ DOMAIN attrs(i) = DOMAIN m.types[i].attrs
    BY <2>1, <2>3, SameLength DEF IsType
  <2>6. /\ DOMAIN ts[i] = DOMAIN m.types[i] /\ ts[i].flags = m.types[i].flags
        /\ ts[i].prefix = m.types[i].prefix /\ ts[i].methods = m.types[i].methods
        /\ ts[i].ifaces = m.types[i].ifaces /\ ts[i].attrs = attrs(i)
    BY <2>1, <2>4 DEF IsType
  <2>7. \A j \in DOMAIN attrs(i) : DOMAIN attrs(i)[j] = {"ctor", "blob"}
    BY <2>2, <2>3, <2>5
  <2>8. IsSequence(ts[i].ifaces) /\ IsSequence(ts[i].methods) /\ DOMAIN m.types[i].attrs = DOMAIN ts[i].attrs
    BY <2>1, <2>5, <2>6 DEF IsType
  <2>9. TypeKept(ts[i], m.types[i])
    BY <2>5, <2>6, <2>7, <2>8 DEF TypeKept
  <2> QED
    BY <2>2, <2>3, <2>6, <2>9
<1>3. ts = [i \in DOMAIN m.types |-> ts[i]]
  OBVIOUS
<1>4. n.methods = m.methods /\ n.fields = m.fields
  BY DEF IsModule
<1> HIDE DEF ts, attrs, attribute
<1>5. /\ IsModule(n) /\ SameShape(n, m) /\ n.types = ts
      /\ SameMethods(n, m) /\ SameFields(n, m)
  BY <1>2, <1>3, WithTypes
<1> HIDE DEF n
<1>6. SameTypes(n, m)
  BY <1>2, <1>5 DEF SameTypes
<1> QED
  BY <1>1, <1>2, <1>4, <1>5, <1>6

-------------------------------------------------------------------------------
(* The passes on methods and fields.                                         *)

LEMMA RewiredModule ==
  ASSUME NEW m, IsModule(m), NEW i, NEW from, NEW to
  PROVE  LET n == Rewired(m, i, from, to)
         IN  /\ IsModule(n) /\ SameShape(n, m) /\ SameDefinitions(n, m)
             /\ n.types = m.types /\ n.fields = m.fields /\ DOMAIN n.methods = DOMAIN m.methods
<1> DEFINE R(e) == IF e = from THEN to ELSE e
           parents(meth) == [j \in DOMAIN meth.overrides |->
                               [meth.overrides[j] EXCEPT !.parent = R(meth.overrides[j].parent)]]
           ks == [k \in DOMAIN m.methods |->
                    IF k \in Range(m.types[i].methods)
                    THEN [m.methods[k] EXCEPT !.overrides = parents(m.methods[k])] ELSE m.methods[k]]
           n == [m EXCEPT !.methods = ks]
<1>1. Rewired(m, i, from, to) = n
  BY Zenon DEF Rewired, Reparented, IsModule
<1>2. ASSUME NEW k \in DOMAIN m.methods
      PROVE  /\ MethodKept(ks[k], m.methods[k])
             /\ ks[k].access = m.methods[k].access /\ ks[k].flags = m.methods[k].flags
  <2>1. IsMethod(m.methods[k], m)
    BY DEF IsModule
  <2>2. \A j \in DOMAIN m.methods[k].overrides : DOMAIN parents(m.methods[k])[j] = {"parent", "name"}
    BY <2>1 DEF IsMethod
  <2>3. CASE k \in Range(m.types[i].methods)
    <3> HIDE DEF parents
    <3>1. parents(m.methods[k]) = [j \in DOMAIN m.methods[k].overrides |-> parents(m.methods[k])[j]]
      BY DEF parents
    <3> QED
      BY <2>1, <2>2, <2>3, <3>1, WithOverrides
  <2>4. CASE k \notin Range(m.types[i].methods)
    BY Zenon, <2>1, <2>4 DEF MethodKept, IsMethod
  <2> QED
    BY Zenon, <2>3, <2>4
<1>3. ks = [k \in DOMAIN m.methods |-> ks[k]]
  OBVIOUS
<1>4. n.types = m.types /\ n.fields = m.fields
  BY DEF IsModule
<1> HIDE DEF ks
<1>5. /\ IsModule(n) /\ SameShape(n, m) /\ n.methods = ks
      /\ SameTypes(n, m) /\ SameBlobs(n, m) /\ SameFields(n, m)
  BY <1>2, <1>3, WithMethods
<1>6. SameMethods(n, m)
  BY <1>2, <1>5 DEF SameMethods
<1> HIDE DEF n
<1> QED
  BY <1>1, <1>3, <1>4, <1>5, <1>6 DEF SameDefinitions

LEMMA FieldsEdited ==
  ASSUME NEW m, IsModule(m), NEW fs, fs = [f \in DOMAIN m.fields |-> fs[f]],
         \A f \in DOMAIN m.fields : \E a : fs[f] = [m.fields[f] EXCEPT !.access = a]
  PROVE  LET n == [m EXCEPT !.fields = fs]
         IN  /\ IsModule(n) /\ SameShape(n, m) /\ n.fields = fs
             /\ SameTypes(n, m) /\ SameBlobs(n, m) /\ SameMethods(n, m)
<1>1. \A f \in DOMAIN m.fields : IsField(m.fields[f])
  BY DEF IsModule
<1>2. ASSUME NEW f \in DOMAIN m.fields PROVE IsField(fs[f])
  <2>1. PICK a : fs[f] = [m.fields[f] EXCEPT !.access = a]
    OBVIOUS
  <2>2. m.fields[f] = [access |-> m.fields[f].access, value |-> m.fields[f].value]
    BY <1>1 DEF IsField
  <2>3. fs[f] = [access |-> a, value |-> m.fields[f].value]
    BY <2>1, <2>2
  <2> QED
    BY <2>3 DEF IsField
<1> QED
  BY <1>2, WithFields

LEMMA MethodsEdited ==
  ASSUME NEW m, IsModule(m), NEW ks, ks = [k \in DOMAIN m.methods |-> ks[k]],
         \A k \in DOMAIN m.methods :
            \E a, f : ks[k] = [m.methods[k] EXCEPT !.access = a, !.flags = f]
  PROVE  LET n == [m EXCEPT !.methods = ks]
         IN  /\ IsModule(n) /\ SameShape(n, m) /\ n.methods = ks
             /\ SameTypes(n, m) /\ SameBlobs(n, m) /\ SameFields(n, m)
<1>1. ASSUME NEW k \in DOMAIN m.methods PROVE MethodKept(ks[k], m.methods[k])
  <2>1. PICK a, f : ks[k] = [m.methods[k] EXCEPT !.access = a, !.flags = f]
    OBVIOUS
  <2>2. IsMethod(m.methods[k], m)
    BY DEF IsModule
  <2>3. /\ DOMAIN ks[k] = DOMAIN m.methods[k] /\ ks[k].owner = m.methods[k].owner
        /\ ks[k].overrides = m.methods[k].overrides
    BY <2>1, <2>2 DEF IsMethod
  <2> QED
    BY <2>2, <2>3 DEF IsMethod, MethodKept
<1> QED
  BY ZenonT(60), <1>1, WithMethods

(* Methods added at the end of a module and of one of its types.             *)
LEMMA MethodsAdded ==
  ASSUME NEW m, IsModule(m), NEW i \in DOMAIN m.types, NEW gs, IsSequence(gs),
         \A k \in DOMAIN gs : IsMethod(gs[k], m),
         NEW hs, IsSequence(hs), DOMAIN hs = DOMAIN gs,
         \A k \in DOMAIN hs : hs[k] = Len(m.methods) + k
  PROVE  LET n == [m EXCEPT !.methods = @ \o gs, !.types[i].methods = @ \o hs]
         IN  /\ IsModule(n) /\ SameShape(n, m)
             /\ n.types[i].methods = m.types[i].methods \o hs
             /\ n.types[i].flags = m.types[i].flags /\ n.types[i].prefix = m.types[i].prefix
             /\ \A j \in DOMAIN m.types : j # i => n.types[j] = m.types[j]
             /\ SameBlobs(n, m) /\ SameMethods(n, m) /\ SameFields(n, m)
             /\ Range(hs) \cap DOMAIN m.methods = {}
<1> DEFINE ks == m.methods \o gs
           new == [m.types[i] EXCEPT !.methods = @ \o hs]
           ts == [m.types EXCEPT ![i] = new]
           n == [m EXCEPT !.methods = ks, !.types = ts]
<1>1. [m EXCEPT !.methods = @ \o gs, !.types[i].methods = @ \o hs] = n
  BY DEF IsModule
<1>2. /\ DOMAIN m.types = 1..Len(m.types) /\ Len(m.types) \in Nat /\ IsSequence(m.types)
      /\ DOMAIN m.methods = 1..Len(m.methods) /\ Len(m.methods) \in Nat
      /\ DOMAIN gs = 1..Len(gs) /\ Len(gs) \in Nat
      /\ IsType(m.types[i], m)
  BY SequenceMeans DEF IsModule
<1>3. /\ IsSequence(ks) /\ DOMAIN ks = 1..Len(m.methods) + Len(gs)
      /\ \A k \in DOMAIN m.methods : k \in DOMAIN ks /\ ks[k] = m.methods[k]
      /\ \A k \in DOMAIN ks : \/ k \in DOMAIN m.methods
                              \/ /\ k > Len(m.methods) /\ k - Len(m.methods) \in DOMAIN gs
                                 /\ ks[k] = gs[k - Len(m.methods)]
  BY SMTT(30), ConcatSequence DEF IsModule
<1> DEFINE lm == m.types[i].methods \o hs
<1>4. /\ IsSequence(lm)
      /\ \A k \in DOMAIN m.types[i].methods : k \in DOMAIN lm /\ lm[k] = m.types[i].methods[k]
      /\ \A k \in DOMAIN lm : \/ k \in DOMAIN m.types[i].methods
                              \/ /\ k > Len(m.types[i].methods) /\ k - Len(m.types[i].methods) \in DOMAIN hs
                                 /\ lm[k] = hs[k - Len(m.types[i].methods)]
  <2>1. IsSequence(m.types[i].methods)
    BY <1>2 DEF IsType
  <2> HIDE DEF ks, ts, new, n
  <2> QED
    BY ZenonT(60), <2>1, ConcatSequence
<1>5. new = [m.types[i] EXCEPT !.methods = lm]
  BY <1>2 DEF IsType
<1>6. /\ DOMAIN new = DOMAIN m.types[i] /\ new.methods = lm /\ new.attrs = m.types[i].attrs
      /\ new.ifaces = m.types[i].ifaces
      /\ new.flags = m.types[i].flags /\ new.prefix = m.types[i].prefix
  BY <1>2, <1>5 DEF IsType
<1> HIDE DEF lm, new
<1>7. /\ DOMAIN ts = DOMAIN m.types /\ ts[i] = new /\ ts = [j \in DOMAIN m.types |-> ts[j]]
      /\ \A j \in DOMAIN m.types : j # i => ts[j] = m.types[j]
  OBVIOUS
<1> HIDE DEF ks, ts
<1>8. /\ DOMAIN n = DOMAIN m /\ n.methods = ks /\ n.types = ts /\ n.fields = m.fields
      /\ n.refs = m.refs /\ n.loose = m.loose
  BY DEF IsModule
<1> HIDE DEF n
<1>9. IsSequence(ts)
  BY <1>2, <1>7, SameLength
<1>10. \A h \in Range(hs) : h \in DOMAIN ks /\ h \notin DOMAIN m.methods
  <2> SUFFICES ASSUME NEW k \in DOMAIN hs
               PROVE  hs[k] \in DOMAIN ks /\ hs[k] \notin DOMAIN m.methods
    BY DEF Range
  <2>1. k \in 1..Len(gs) /\ hs[k] = Len(m.methods) + k
    BY <1>2
  <2> QED
    BY <1>2, <1>3, <2>1
<1>11. Range(lm) \subseteq DOMAIN ks
  <2> SUFFICES ASSUME NEW k \in DOMAIN lm PROVE lm[k] \in DOMAIN ks
    BY DEF Range
  <2>1. CASE k \in DOMAIN m.types[i].methods
    <3>1. m.types[i].methods[k] \in DOMAIN m.methods
      BY <1>2, <2>1 DEF IsType, Range
    <3> QED
      BY <1>3, <1>4, <2>1, <3>1
  <2>2. CASE k \notin DOMAIN m.types[i].methods
    <3>1. lm[k] \in Range(hs)
      BY <1>4, <2>2 DEF Range
    <3> QED
      BY <1>10, <3>1
  <2> QED
    BY <2>1, <2>2
<1>12. ASSUME NEW j \in DOMAIN m.types PROVE IsType(ts[j], n)
  <2>1. IsType(m.types[j], m) /\ DOMAIN m.methods \subseteq DOMAIN ks
    BY <1>3 DEF IsModule
  <2>2. CASE j = i
    BY <1>4, <1>6, <1>7, <1>8, <1>11, <2>1, <2>2 DEF IsType
  <2>3. CASE j # i
    BY <1>7, <1>8, <2>1, <2>3 DEF IsType
  <2> QED
    BY <2>2, <2>3
<1>13. ASSUME NEW k \in DOMAIN ks PROVE IsMethod(ks[k], n)
  <2>1. IsMethod(ks[k], m)
    BY <1>3 DEF IsModule
  <2> QED
    BY <1>7, <1>8, <2>1 DEF IsMethod
<1>14. IsModule(n)
  BY <1>3, <1>7, <1>8, <1>9, <1>12, <1>13 DEF IsModule
<1>15. SameShape(n, m)
  BY <1>3, <1>6, <1>7, <1>8 DEF SameShape
<1>16. SameBlobs(n, m) /\ SameMethods(n, m) /\ SameFields(n, m)
  BY <1>3, <1>6, <1>7, <1>8 DEF SameBlobs, SameMethods, SameFields
<1>17. Range(hs) \cap DOMAIN m.methods = {}
  BY <1>10
<1> QED
  BY Zenon, <1>1, <1>6, <1>7, <1>8, <1>14, <1>15, <1>16, <1>17 DEF lm

-------------------------------------------------------------------------------
(* What a generated method is.                                               *)

(* A reference is resolved to a type of the module, or to none.              *)
LEMMA ResolvedIsLocal ==
  ASSUME NEW m, IsModule(m), NEW e, NEW refs
  PROVE  Resolved(m, e, refs) = 0 \/ Resolved(m, e, refs) \in DOMAIN m.types
<1> DEFINE named(x) == {i \in 1..Len(m.types) : m.types[i].id = x.id /\ m.types[i].prefix = ""}
           found == IF named(e) # {} THEN named(e) ELSE named(Restored(e, refs))
<1>1. Resolved(m, e, refs) = IF found = {} THEN 0 ELSE CHOOSE i \in found : \A j \in found : i <= j
  BY DEF Resolved
<1>2. DOMAIN m.types = 1..Len(m.types) /\ Len(m.types) \in Nat
  BY SequenceMeans DEF IsModule
<1>3. found \in SUBSET DOMAIN m.types /\ found \in SUBSET Nat
  <2>1. ASSUME NEW x PROVE named(x) \subseteq DOMAIN m.types /\ named(x) \subseteq Nat
    <3>1. \A i \in 1..Len(m.types) : i \in DOMAIN m.types /\ i \in Nat
      BY <1>2
    <3> QED
      BY <3>1
  <2> HIDE DEF named
  <2> QED
    BY <2>1
<1> HIDE DEF found
<1>4. CASE found # {}
  <2>1. \E i \in found : \A j \in found : i <= j
    BY <1>3, <1>4, LeastNat
  <2>2. (CHOOSE i \in found : \A j \in found : i <= j) \in found
    BY <2>1
  <2> QED
    BY <1>1, <1>3, <1>4, <2>2
<1> QED
  BY <1>1, <1>4

LEMMA GeneratedAreMethods ==
  ASSUME NEW m, IsModule(m), NEW owner \in DOMAIN m.types, NEW e, NEW refs
  PROVE  LET gs == GeneratedMethods(m, owner, e, refs)
         IN  IsSequence(gs) /\ \A k \in DOMAIN gs : IsMethod(gs[k], m)
<1> DEFINE d == Resolved(m, e, refs)
           name(j) == m.methods[m.types[d].methods[j]].name
           meth(j) == [owner |-> owner, name |-> name(j), access |-> "public",
                       flags |-> {"virtual", "final", "newslot", "runtime"}, treatAsPublic |-> FALSE,
                       overrides |-> <<[parent |-> e, name |-> name(j)]>>]
           gs == GeneratedMethods(m, owner, e, refs)
<1>1. CASE d = 0 \/ "interface" \in m.types[owner].flags
  <2>1. gs = <<>>
    BY <1>1 DEF GeneratedMethods
  <2> QED
    BY Zenon, <2>1, EmptySequence
<1>2. CASE ~(d = 0 \/ "interface" \in m.types[owner].flags)
  <2>1. d \in DOMAIN m.types
    BY <1>2, ResolvedIsLocal
  <2>2. gs = [j \in 1..Len(m.types[d].methods) |-> meth(j)]
    BY <1>2 DEF GeneratedMethods
  <2>3. Len(m.types[d].methods) \in Nat
    BY <2>1, SequenceMeans DEF IsModule, IsType
  <2>4. ASSUME NEW j PROVE IsMethod(meth(j), m)
    <3>1. IsSequence(<<[parent |-> e, name |-> name(j)]>>)
      <4> DEFINE x == [parent |-> e, name |-> name(j)]
                 s == <<x>>
      <4> HIDE DEF x
      <4>1. s = [k \in 1..1 |-> s[k]]
        OBVIOUS
      <4> HIDE DEF s
      <4>2. IsSequence(s)
        BY <4>1, 1 \in Nat, SequenceIs
      <4> QED
        BY <4>2 DEF s, x
    <3>2. \A k \in DOMAIN <<[parent |-> e, name |-> name(j)]>> :
              DOMAIN <<[parent |-> e, name |-> name(j)]>>[k] = {"parent", "name"}
      <4> HIDE DEF name
      <4> QED
        OBVIOUS
    <3> HIDE DEF name, d
    <3>3. /\ DOMAIN meth(j) = {"owner", "name", "access", "flags", "overrides", "treatAsPublic"}
          /\ meth(j).owner = owner
          /\ meth(j).overrides = <<[parent |-> e, name |-> name(j)]>>
      OBVIOUS
    <3> HIDE DEF meth
    <3> QED
      BY Zenon, <3>1, <3>2, <3>3 DEF IsMethod
  <2> HIDE DEF meth, d, gs
  <2>5. gs = [j \in 1..Len(m.types[d].methods) |-> gs[j]]
    BY <2>2
  <2>6. IsSequence(gs) /\ DOMAIN gs = 1..Len(m.types[d].methods)
    BY <2>3, <2>5, SequenceIs
  <2>7. \A k \in DOMAIN gs : IsMethod(gs[k], m)
    BY <2>2, <2>4, <2>6
  <2> QED
    BY <2>6, <2>7 DEF gs
<1> QED
  BY <1>1, <1>2

LEMMA MethodsJoined ==
  ASSUME NEW m, NEW a, NEW b, IsSequence(a), IsSequence(b),
         \A k \in DOMAIN a : IsMethod(a[k], m), \A k \in DOMAIN b : IsMethod(b[k], m)
  PROVE  IsSequence(a \o b) /\ \A k \in DOMAIN (a \o b) : IsMethod((a \o b)[k], m)
<1> DEFINE c == a \o b
<1>1. /\ IsSequence(c)
      /\ \A i \in DOMAIN a : c[i] = a[i]
      /\ \A i \in DOMAIN c : \/ i \in DOMAIN a
                             \/ i > Len(a) /\ i - Len(a) \in DOMAIN b /\ c[i] = b[i - Len(a)]
  BY ConcatSequence
<1> HIDE DEF c
<1>2. \A i \in DOMAIN c : IsMethod(c[i], m)
  BY <1>1
<1> QED
  BY <1>1, <1>2 DEF c

WithoutInterface(is, out) == WithoutFirst(is, LAMBDA e : e = out)

LEMMA UnwiredType ==
  ASSUME NEW m, NEW ty, IsType(ty, m), NEW out
  PROVE  LET new == [ty EXCEPT !.ifaces = WithoutInterface(@, out)]
         IN  /\ TypeKept(new, ty) /\ new.methods = ty.methods /\ new.attrs = ty.attrs
             /\ new.flags = ty.flags /\ new.prefix = ty.prefix
<1> DEFINE hits == {k \in DOMAIN ty.ifaces : ty.ifaces[k] = out}
           is == IF hits = {} THEN ty.ifaces ELSE RemoveAt(ty.ifaces, Min(hits))
           new == [ty EXCEPT !.ifaces = is]
<1>1. [ty EXCEPT !.ifaces = WithoutInterface(@, out)] = new
  BY DEF WithoutInterface, WithoutFirst, IsType
<1>2. IsSequence(is)
  <2>1. hits \in SUBSET DOMAIN ty.ifaces /\ IsSequence(ty.ifaces)
    BY DEF IsType
  <2> HIDE DEF hits
  <2> QED
    BY <2>1, OneOut
<1> HIDE DEF is
<1>3. /\ DOMAIN new = DOMAIN ty /\ new.methods = ty.methods /\ new.attrs = ty.attrs
      /\ new.flags = ty.flags /\ new.prefix = ty.prefix /\ new.ifaces = is
  BY DEF IsType
<1> HIDE DEF new
<1>4. TypeKept(new, ty)
  BY <1>2, <1>3 DEF IsType, TypeKept
<1> QED
  BY <1>1, <1>3, <1>4

-------------------------------------------------------------------------------
(* Type correctness.                                                         *)

Labels == Passes \cup {"idle", "virtual"}

LEMMA TypeStep ==
  ASSUME TypeOK, NEW t \in Threads, guid' = guid, disk' = disk,
         DOMAIN mods' = Threads, DOMAIN work' = Threads,
         pc' \in [Threads -> Labels], calls' \in [Threads -> 0..MaxCalls],
         \A u \in Threads \ {t} : /\ mods'[u] = mods[u] /\ work'[u] = work[u]
                                  /\ pc'[u] = pc[u] /\ calls'[u] = calls[u],
         pc'[t] # "idle" => calls'[t] < MaxCalls,
         IsModule(mods'[t]), SameShape(mods'[t], mods[t]) \/ mods'[t] = disk[t], WorkOK(t)',
         DOMAIN store' \subseteq Guids, \A g \in DOMAIN store' : DOMAIN store'[g] = RecordFields,
         DOMAIN rec' = {u \in Threads : pc'[u] \in Passes},
         \A u \in DOMAIN rec' : DOMAIN rec'[u] = RecordFields
  PROVE  TypeOK'
<1>1. (\A u \in Threads : IsModule(mods[u]) /\ SameShape(mods[u], disk[u]))'
  <2> SUFFICES ASSUME NEW u \in Threads
               PROVE  IsModule(mods'[u]) /\ SameShape(mods'[u], disk[u])
    OBVIOUS
  <2>1. IsModule(mods[u]) /\ SameShape(mods[u], disk[u])
    BY DEF TypeOK
  <2>2. CASE u = t
    BY <2>1, <2>2, ShapeTransitive, ShapeReflexive
  <2>3. CASE u # t
    BY <2>1, <2>3
  <2> QED
    BY <2>2, <2>3
<1>2. (\A u \in Threads : WorkOK(u))'
  <2> SUFFICES ASSUME NEW u \in Threads, u # t
               PROVE  WorkOK(u)'
    OBVIOUS
  <2>1. WorkOK(u)
    BY DEF TypeOK
  <2> QED
    BY <2>1 DEF WorkOK
<1>3. (\A r \in Range(store) \cup Range(rec) : DOMAIN r = RecordFields)'
  BY DEF Range
<1>4. (\A u \in Threads : pc[u] # "idle" => calls[u] < MaxCalls)'
  BY DEF TypeOK
<1>5. (disk = [u \in Threads |-> disk[u]] /\ \A u \in Threads : IsModule(disk[u]))'
  BY DEF TypeOK
<1> QED
  BY <1>1, <1>2, <1>3, <1>4, <1>5 DEF TypeOK, Labels

(* A pass that keeps its notes on methods to generate, or drops them.        *)
LEMMA WorkMoves ==
  ASSUME TypeOK, NEW t \in Threads,
         DOMAIN mods'[t].types = DOMAIN mods[t].types, IsModule(mods'[t]),
         DOMAIN work'[t] = DOMAIN AtRest, work'[t].at \in 1..Len(mods[t].types) + 1,
         pc'[t] \in {"closure", "rewire", "unwire"} => work'[t].at \in DOMAIN mods[t].types,
         work'[t].generated = work[t].generated \/ work'[t].generated = <<>>
  PROVE  WorkOK(t)'
<1>1. WorkOK(t) /\ IsModule(mods[t])
  BY DEF TypeOK
<1>2. DOMAIN mods'[t].types = DOMAIN mods[t].types /\ Len(mods'[t].types) = Len(mods[t].types)
  <2>1. /\ DOMAIN mods'[t].types = 1..Len(mods'[t].types) /\ Len(mods'[t].types) \in Nat
        /\ DOMAIN mods[t].types = 1..Len(mods[t].types) /\ Len(mods[t].types) \in Nat
    BY <1>1, SequenceMeans DEF IsModule
  <2>2. DOMAIN mods'[t].types = DOMAIN mods[t].types
    OBVIOUS
  <2> QED
    BY <1>1, <2>2, SameIndices DEF IsModule
<1>3. /\ IsSequence(work'[t].generated)
      /\ \A k \in DOMAIN work'[t].generated : IsMethod(work'[t].generated[k], mods'[t])
  <2>1. CASE work'[t].generated = work[t].generated
    BY <1>1, <1>2, <2>1 DEF WorkOK, IsMethod
  <2>2. CASE work'[t].generated = <<>>
    BY <2>2, EmptySequence
  <2> QED
    BY <2>1, <2>2
<1> QED
  BY <1>2, <1>3 DEF WorkOK

LEMMA InitialTypes == Init => TypeOK
<1> SUFFICES ASSUME Init PROVE TypeOK
  OBVIOUS
<1>1. PICK l \in Loads : guid = l[1] /\ disk = l[2]
  BY DEF Init
<1>2. /\ guid \in [Threads -> Guids] /\ disk = [t \in Threads |-> disk[t]]
      /\ \A t \in Threads : IsModule(disk[t])
  BY <1>1, LoadsAssumption
<1>3. ASSUME NEW t \in Threads PROVE IsModule(mods[t]) /\ SameShape(mods[t], disk[t])
  BY <1>2, ShapeReflexive DEF Init
<1>4. ASSUME NEW t \in Threads PROVE WorkOK(t)
  <2>1. work[t] = AtRest /\ pc[t] = "idle"
    BY DEF Init
  <2>2. Len(mods[t].types) \in Nat
    BY <1>3, SequenceMeans DEF IsModule
  <2>3. work[t].at \in 1..Len(mods[t].types) + 1 /\ work[t].generated = <<>>
    BY <2>1, <2>2 DEF AtRest
  <2> QED
    BY <2>1, <2>3, EmptySequence DEF WorkOK
<1>5. /\ pc \in [Threads -> Passes \cup {"idle", "virtual"}]
      /\ DOMAIN store = {} /\ DOMAIN rec = {} /\ {t \in Threads : pc[t] \in Passes} = {}
  BY DEF Init, Passes
<1>6. calls \in [Threads -> 0..MaxCalls] /\ \A t \in Threads : pc[t] = "idle"
  BY BoundAssumption DEF Init
<1>7. DOMAIN mods = Threads /\ DOMAIN work = Threads
  BY <1>2 DEF Init
<1>8. Range(store) \cup Range(rec) = {}
  BY <1>5 DEF Range
<1> QED
  BY <1>2, <1>3, <1>4, <1>5, <1>6, <1>7, <1>8 DEF TypeOK

-------------------------------------------------------------------------------
(* What each pass does to the module of its thread.                          *)

LEMMA AddVirtualReferencesEffect ==
  ASSUME TypeOK, NEW t \in Threads, AddVirtualReferences(t)
  PROVE  IsModule(mods'[t]) /\ SameShape(mods'[t], mods[t]) /\ SameDefinitions(mods'[t], mods[t])
<1> DEFINE m == mods[t]
           hits == {k \in DOMAIN m.refs : m.refs[k].name = "mscorlib"}
           added == [v \in DOMAIN VirtualNames |-> [name |-> VirtualNames[v], version |-> "4.0"]]
           rs == [m.refs EXCEPT ![Min(hits)].version = "4.0"] \o added
<1>1. IsModule(m) /\ IsReferences(m.refs) /\ DOMAIN mods = Threads
  BY DEF TypeOK, IsModule, IsReferences
<1>2. CASE hits = {}
  <2>1. mods' = mods
    BY <1>2 DEF AddVirtualReferences
  <2> QED
    BY <1>1, <2>1, ShapeReflexive DEF SameDefinitions, SameTypes, SameBlobs, SameMethods, SameFields
<1>3. CASE hits # {}
  <2>1. mods'[t] = [m EXCEPT !.refs = rs]
    BY <1>1, <1>3 DEF AddVirtualReferences
  <2>2. IsReferences([m.refs EXCEPT ![Min(hits)].version = "4.0"])
    BY <1>1, VersionSet
  <2>3. IsReferences(added)
    BY VirtualReferences
  <2>4. IsReferences(rs)
    <3> HIDE DEF added, hits
    <3> QED
      BY <2>2, <2>3, ReferencesJoined
  <2> HIDE DEF rs, m
  <2>5. LET n == [m EXCEPT !.refs = rs] IN IsModule(n) /\ SameShape(n, m) /\ SameDefinitions(n, m)
    BY <1>1, <2>4, WithReferences DEF IsReferences
  <2> QED
    BY <2>1, <2>5 DEF m
<1> QED
  BY <1>2, <1>3

LEMMA ProjectTypeReferencesEffect ==
  ASSUME TypeOK, NEW t \in Threads, ProjectTypeReferences(t)
  PROVE  IsModule(mods'[t]) /\ SameShape(mods'[t], mods[t]) /\ SameDefinitions(mods'[t], mods[t])
<1>1. IsModule(mods[t]) /\ mods'[t] = Rewritten(mods[t], Projected)
  BY DEF TypeOK, ProjectTypeReferences
<1> QED
  BY <1>1, ProjectedModule

LEMMA RestoreTypeReferencesEffect ==
  ASSUME TypeOK, NEW t \in Threads, RestoreTypeReferences(t)
  PROVE  IsModule(mods'[t]) /\ SameShape(mods'[t], mods[t]) /\ SameDefinitions(mods'[t], mods[t])
<1>1. IsModule(mods[t]) /\ mods'[t] = WithReferencesRestored(mods[t], rec[t].refs)
  BY DEF TypeOK, RestoreTypeReferences, WithReferencesRestored
<1> QED
  BY <1>1, RestoredModule

LEMMA RemoveVirtualReferencesEffect ==
  ASSUME TypeOK, NEW t \in Threads, RemoveVirtualReferences(t)
  PROVE  IsModule(mods'[t]) /\ SameShape(mods'[t], mods[t]) /\ SameDefinitions(mods'[t], mods[t])
<1> DEFINE m == mods[t]
           rs == ReferencesBack(m.refs, rec[t].version)
<1>1. IsModule(m) /\ IsReferences(m.refs) /\ DOMAIN mods = Threads
  BY DEF TypeOK, IsModule, IsReferences
<1>2. mods'[t] = [m EXCEPT !.refs = rs]
  BY <1>1 DEF RemoveVirtualReferences, ReferencesBack
<1>3. IsReferences(rs)
  <2> HIDE DEF m
  <2> QED
    BY <1>1, ReferencesWithout
<1> HIDE DEF rs, m
<1>4. LET n == [m EXCEPT !.refs = rs] IN IsModule(n) /\ SameShape(n, m) /\ SameDefinitions(n, m)
  BY <1>1, <1>3, WithReferences DEF IsReferences
<1> QED
  BY <1>2, <1>4 DEF m

(* One type replaced by one that has the same methods and attributes.        *)
OneType(now, was, i) ==
    /\ IsModule(now) /\ SameShape(now, was)
    /\ now.methods = was.methods /\ now.fields = was.fields
    /\ now.types[i].methods = was.types[i].methods /\ now.types[i].attrs = was.types[i].attrs
    /\ \A j \in DOMAIN was.types : j # i => now.types[j] = was.types[j]

(* A function that changed at t only. *)
SameElsewhere(now, was, t) ==
    DOMAIN now = DOMAIN was /\ \A u \in DOMAIN was : u # t => now[u] = was[u]

LEMMA WorkDomain ==
  ASSUME TypeOK, NEW t \in Threads
  PROVE  DOMAIN work = Threads /\ DOMAIN mods = Threads /\ DOMAIN work[t] = DOMAIN AtRest
         /\ DOMAIN AtRest = {"at", "stack", "closure", "generated", "pairs"}
  BY DEF TypeOK, WorkOK, AtRest

(* What an action changes, with what it computes left open: enough for every
   step that does not depend on the value written, and far quicker to prove
   from than the action's definition. *)
LEMMA CollectInterfaceShape ==
  ASSUME NEW t \in Threads, CollectInterface(t)
  PROVE  /\ pc[t] = "closure"
         /\ \/ \E s : work' = [work EXCEPT ![t].stack = s]
            \/ \E c, g, s : work' = [work EXCEPT ![t].closure = c, ![t].generated = @ \o g,
                                                 ![t].stack = s]
         /\ UNCHANGED <<mods, guid, store, pc, rec, calls, log, disk>>
  BY Zenon DEF CollectInterface

LEMMA CollectInterfaceChanges ==
  ASSUME TypeOK, NEW t \in Threads, CollectInterface(t)
  PROVE  /\ pc[t] = "closure" /\ UNCHANGED <<mods, guid, store, pc, rec, calls, log, disk>>
         /\ SameElsewhere(work', work, t) /\ DOMAIN work'[t] = DOMAIN AtRest
<1>1. DOMAIN work = Threads /\ DOMAIN work[t] = DOMAIN AtRest
  BY WorkDomain
<1>2. ASSUME NEW s, work' = [work EXCEPT ![t].stack = s] PROVE SameElsewhere(work', work, t) /\ DOMAIN work'[t] = DOMAIN AtRest
  BY <1>1, <1>2 DEF SameElsewhere
<1>3. ASSUME NEW c, NEW g, NEW s,
             work' = [work EXCEPT ![t].closure = c, ![t].generated = @ \o g, ![t].stack = s]
      PROVE  SameElsewhere(work', work, t) /\ DOMAIN work'[t] = DOMAIN AtRest
  BY <1>1, <1>3 DEF SameElsewhere
<1>4. \/ \E s : work' = [work EXCEPT ![t].stack = s]
      \/ \E c, g, s : work' = [work EXCEPT ![t].closure = c, ![t].generated = @ \o g,
                                           ![t].stack = s]
  BY Zenon, CollectInterfaceShape
<1>5. ASSUME \E s : work' = [work EXCEPT ![t].stack = s]
      PROVE  SameElsewhere(work', work, t) /\ DOMAIN work'[t] = DOMAIN AtRest
  <2>1. PICK s : work' = [work EXCEPT ![t].stack = s]
    BY Zenon, <1>5
  <2> QED
    BY Zenon, <1>2, <2>1
<1>6. ASSUME \E c, g, s : work' = [work EXCEPT ![t].closure = c, ![t].generated = @ \o g,
                                             ![t].stack = s]
      PROVE  SameElsewhere(work', work, t) /\ DOMAIN work'[t] = DOMAIN AtRest
  <2>1. PICK c, g, s : work' = [work EXCEPT ![t].closure = c, ![t].generated = @ \o g,
                                            ![t].stack = s]
    BY Zenon, <1>6
  <2> QED
    BY Zenon, <1>3, <2>1
<1>7. pc[t] = "closure" /\ UNCHANGED <<mods, guid, store, pc, rec, calls, log, disk>>
  BY Zenon, CollectInterfaceShape
<1> QED
  BY Zenon, <1>4, <1>5, <1>6, <1>7

LEMMA RedirectTypeShape ==
  ASSUME NEW t \in Threads, RedirectType(t)
  PROVE  /\ pc[t] = "closure"
         /\ \E new : mods' = [mods EXCEPT ![t].types[work[t].at] = new]
         /\ \E pairs :
               /\ rec' = [rec EXCEPT ![t].types =
                            With(@, work[t].at,
                                 TypeRecord(mods[t].types[work[t].at], {"Redirect"}, pairs, {}))]
               /\ work' = [work EXCEPT ![t].pairs = pairs]
         /\ pc' = [pc EXCEPT ![t] = "rewire"]
         /\ UNCHANGED <<guid, store, calls, log, disk>>
  BY Zenon DEF RedirectType, Goto

LEMMA RedirectTypeChanges ==
  ASSUME TypeOK, NEW t \in Threads, RedirectType(t)
  PROVE  /\ pc[t] = "closure" /\ pc' = [pc EXCEPT ![t] = "rewire"]
         /\ UNCHANGED <<guid, store, calls, log, disk>>
         /\ SameElsewhere(mods', mods, t) /\ SameElsewhere(work', work, t)
         /\ DOMAIN work'[t] = DOMAIN AtRest
         /\ work'[t].at = work[t].at /\ work'[t].generated = work[t].generated
         /\ t \in DOMAIN rec /\ SameElsewhere(rec', rec, t)
         /\ DOMAIN rec'[t] = RecordFields /\ rec'[t].serial = rec[t].serial
<1>1. /\ DOMAIN work = Threads /\ DOMAIN work[t] = DOMAIN AtRest
      /\ DOMAIN AtRest = {"at", "stack", "closure", "generated", "pairs"}
  BY WorkDomain
<1>2. t \in DOMAIN rec /\ DOMAIN rec[t] = RecordFields
  BY RedirectTypeShape DEF TypeOK, Passes, Range
<1>3. SameElsewhere(mods', mods, t)
  <2>1. PICK new : mods' = [mods EXCEPT ![t].types[work[t].at] = new]
    BY Zenon, RedirectTypeShape
  <2> QED
    BY <2>1 DEF SameElsewhere
<1>4. PICK pairs :
         /\ rec' = [rec EXCEPT ![t].types =
                      With(@, work[t].at,
                           TypeRecord(mods[t].types[work[t].at], {"Redirect"}, pairs, {}))]
         /\ work' = [work EXCEPT ![t].pairs = pairs]
  BY Zenon, RedirectTypeShape
<1>5. /\ SameElsewhere(work', work, t) /\ DOMAIN work'[t] = DOMAIN AtRest
      /\ work'[t].at = work[t].at /\ work'[t].generated = work[t].generated
  BY <1>1, <1>4 DEF SameElsewhere
<1> DEFINE types == With(rec[t].types, work[t].at,
                         TypeRecord(mods[t].types[work[t].at], {"Redirect"}, pairs, {}))
<1>6. rec' = [rec EXCEPT ![t].types = types]
  BY Zenon, <1>4
<1> HIDE DEF types
<1>7. SameElsewhere(rec', rec, t) /\ DOMAIN rec'[t] = RecordFields /\ rec'[t].serial = rec[t].serial
  BY <1>2, <1>6 DEF SameElsewhere, RecordFields
<1>8. /\ pc[t] = "closure" /\ pc' = [pc EXCEPT ![t] = "rewire"]
      /\ UNCHANGED <<guid, store, calls, log, disk>>
  BY Zenon, RedirectTypeShape
<1> QED
  BY Zenon, <1>2, <1>3, <1>5, <1>7, <1>8

LEMMA UnwirePairShape ==
  ASSUME NEW t \in Threads, UnwirePair(t)
  PROVE  /\ pc[t] = "unwire" /\ work[t].pairs # <<>>
         /\ \E new : mods' = [mods EXCEPT ![t] = new]
         /\ work' = [work EXCEPT ![t].pairs = Tail(@)]
         /\ UNCHANGED <<guid, store, pc, rec, calls, log, disk>>
  BY Zenon DEF UnwirePair

LEMMA UnwirePairChanges ==
  ASSUME TypeOK, NEW t \in Threads, UnwirePair(t)
  PROVE  /\ pc[t] = "unwire" /\ UNCHANGED <<guid, store, pc, rec, calls, log, disk>>
         /\ SameElsewhere(mods', mods, t) /\ SameElsewhere(work', work, t)
         /\ DOMAIN work'[t] = DOMAIN AtRest
         /\ work'[t].at = work[t].at /\ work'[t].generated = work[t].generated
<1>1. /\ DOMAIN work = Threads /\ DOMAIN work[t] = DOMAIN AtRest
      /\ DOMAIN AtRest = {"at", "stack", "closure", "generated", "pairs"}
  BY WorkDomain
<1>2. SameElsewhere(mods', mods, t)
  <2>1. PICK new : mods' = [mods EXCEPT ![t] = new]
    BY Zenon, UnwirePairShape
  <2> QED
    BY <2>1 DEF SameElsewhere
<1>3. /\ work' = [work EXCEPT ![t].pairs = Tail(@)]
      /\ pc[t] = "unwire" /\ UNCHANGED <<guid, store, pc, rec, calls, log, disk>>
  BY Zenon, UnwirePairShape
<1> QED
  BY <1>1, <1>2, <1>3 DEF SameElsewhere

LEMMA AppendGeneratedShape ==
  ASSUME NEW t \in Threads, AppendGenerated(t)
  PROVE  /\ pc[t] = "rewire" /\ work[t].pairs = <<>>
         /\ \E added, handles : mods' = [mods EXCEPT ![t].methods = added,
                                                   ![t].types[work[t].at].methods = handles]
         /\ \E types, added : rec' = [rec EXCEPT ![t].types = types, ![t].added = added]
         /\ work' = [work EXCEPT ![t] = [AtRest EXCEPT !.at = work[t].at + 1]]
         /\ pc' = [pc EXCEPT ![t] = "types"]
         /\ UNCHANGED <<guid, store, calls, log, disk>>
  BY Zenon DEF AppendGenerated, Goto

LEMMA AppendGeneratedChanges ==
  ASSUME TypeOK, NEW t \in Threads, AppendGenerated(t)
  PROVE  /\ pc[t] = "rewire" /\ pc' = [pc EXCEPT ![t] = "types"]
         /\ UNCHANGED <<guid, store, calls, log, disk>>
         /\ SameElsewhere(mods', mods, t) /\ SameElsewhere(work', work, t)
         /\ DOMAIN work'[t] = DOMAIN AtRest
         /\ work'[t].at = work[t].at + 1 /\ work'[t].generated = <<>>
         /\ t \in DOMAIN rec /\ SameElsewhere(rec', rec, t)
         /\ DOMAIN rec'[t] = RecordFields /\ rec'[t].serial = rec[t].serial
<1>1. /\ DOMAIN work = Threads
      /\ DOMAIN AtRest = {"at", "stack", "closure", "generated", "pairs"} /\ AtRest.generated = <<>>
  BY WorkDomain DEF AtRest
<1>2. t \in DOMAIN rec /\ DOMAIN rec[t] = RecordFields
  BY AppendGeneratedShape DEF TypeOK, Passes, Range
<1>3. SameElsewhere(mods', mods, t)
  <2>1. PICK a, h : mods' = [mods EXCEPT ![t].methods = a, ![t].types[work[t].at].methods = h]
    BY Zenon, AppendGeneratedShape
  <2> QED
    BY <2>1 DEF SameElsewhere
<1>4. work' = [work EXCEPT ![t] = [AtRest EXCEPT !.at = work[t].at + 1]]
  BY AppendGeneratedShape
<1>5. /\ SameElsewhere(work', work, t) /\ DOMAIN work'[t] = DOMAIN AtRest
      /\ work'[t].at = work[t].at + 1 /\ work'[t].generated = <<>>
  BY <1>1, <1>4 DEF SameElsewhere
<1>6. PICK types, added : rec' = [rec EXCEPT ![t].types = types, ![t].added = added]
  BY Zenon, AppendGeneratedShape
<1>7. SameElsewhere(rec', rec, t) /\ DOMAIN rec'[t] = RecordFields /\ rec'[t].serial = rec[t].serial
  BY <1>2, <1>6 DEF SameElsewhere, RecordFields
<1>8. /\ pc[t] = "rewire" /\ pc' = [pc EXCEPT ![t] = "types"]
      /\ UNCHANGED <<guid, store, calls, log, disk>>
  BY Zenon, AppendGeneratedShape
<1> QED
  BY Zenon, <1>2, <1>3, <1>5, <1>7, <1>8

LEMMA RestoreTypeShape ==
  ASSUME NEW t \in Threads, RestoreType(t)
  PROVE  /\ pc[t] = "untypes" /\ work[t].at <= Len(mods[t].types)
         /\ mods' = mods \/ \E new : mods' = [mods EXCEPT ![t].types[work[t].at] = new]
         /\ \/ /\ \E pairs : work' = [work EXCEPT ![t].pairs = pairs]
               /\ pc' = [pc EXCEPT ![t] = "unwire"]
            \/ work' = [work EXCEPT ![t].at = work[t].at + 1] /\ pc' = pc
         /\ UNCHANGED <<guid, store, rec, calls, log, disk>>
  BY Zenon DEF RestoreType, Goto

LEMMA ProjectTypeDefinitionShape ==
  ASSUME NEW t \in Threads, ProjectTypeDefinition(t)
  PROVE  /\ pc[t] = "types" /\ work[t].at <= Len(mods[t].types)
         /\ \/ /\ \E s : work' = [work EXCEPT ![t] = [AtRest EXCEPT !.at = work[t].at, !.stack = s]]
               /\ pc' = [pc EXCEPT ![t] = "closure"]
               /\ UNCHANGED <<mods, rec>>
            \/ /\ work' = [work EXCEPT ![t].at = work[t].at + 1]
               /\ \E new : mods' = [mods EXCEPT ![t].types[work[t].at] = new]
               /\ rec' = rec \/ \E types : rec' = [rec EXCEPT ![t].types = types]
               /\ pc' = pc
         /\ UNCHANGED <<guid, store, calls, log, disk>>
  BY Zenon DEF ProjectTypeDefinition, Goto

LEMMA RewirePairShape ==
  ASSUME NEW t \in Threads, RewirePair(t)
  PROVE  /\ pc[t] = "rewire" /\ work[t].pairs # <<>>
         /\ \E new : mods' = [mods EXCEPT ![t] = new]
         /\ work' = [work EXCEPT ![t].pairs = Tail(@)]
         /\ UNCHANGED <<guid, store, pc, rec, calls, log, disk>>
  BY Zenon DEF RewirePair

LEMMA ProjectTypeDefinitionEffect ==
  ASSUME TypeOK, NEW t \in Threads, ProjectTypeDefinition(t)
  PROVE  LET ty == mods[t].types[work[t].at]
             treatment == TypeTreatment(mods[t], ty, rec[t].refs)
         IN  /\ work[t].at \in DOMAIN mods[t].types
             /\ "Redirect" \in treatment => mods' = mods
             /\ "Redirect" \notin treatment =>
                  /\ OneType(mods'[t], mods[t], work[t].at)
                  /\ mods'[t].types[work[t].at] = EditedType(ty, treatment)
<1> DEFINE m == mods[t]
           i == work[t].at
           ty == m.types[i]
           treatment == TypeTreatment(m, ty, rec[t].refs)
           new == EditedType(ty, treatment)
<1>1. IsModule(m) /\ DOMAIN mods = Threads
  BY DEF TypeOK
<1>2. i \in DOMAIN m.types
  <2>1. i \in 1..Len(m.types) + 1 /\ i <= Len(m.types) /\ DOMAIN m.types = 1..Len(m.types) /\ Len(m.types) \in Nat
    BY <1>1, SequenceMeans DEF TypeOK, WorkOK, ProjectTypeDefinition, IsModule
  <2> QED
    BY <2>1
<1>3. CASE "Redirect" \in treatment
  <2>1. mods' = mods
    BY <1>3 DEF ProjectTypeDefinition
  <2> QED
    BY <1>2, <1>3, <2>1
<1>4. CASE "Redirect" \notin treatment
  <2>1. mods'[t] = [m EXCEPT !.types[i] = new]
    BY <1>1, <1>4 DEF ProjectTypeDefinition
  <2>2. IsType(ty, m)
    BY <1>1, <1>2 DEF IsModule
  <2>3. TypeKept(new, ty) /\ new.methods = ty.methods /\ new.attrs = ty.attrs
    <3> HIDE DEF treatment
    <3> QED
      BY <2>2, EditKeepsType
  <2> HIDE DEF new, m, i
  <2>4. LET n == mods'[t]
        IN  /\ IsModule(n) /\ SameShape(n, m) /\ n.types[i] = new
            /\ \A j \in DOMAIN m.types : j # i => n.types[j] = m.types[j]
            /\ n.methods = m.methods /\ n.fields = m.fields
    BY <1>1, <1>2, <2>1, <2>3, TypeReplaced
  <2>5. OneType(mods'[t], m, i) /\ mods'[t].types[i] = new
    BY Zenon, <2>1, <2>3, <2>4 DEF OneType
  <2> QED
    BY <1>2, <1>4, <2>5 DEF m, i, new
<1> QED
  BY <1>3, <1>4

LEMMA RedirectTypeEffect ==
  ASSUME TypeOK, NEW t \in Threads, RedirectType(t)
  PROVE  work[t].at \in DOMAIN mods[t].types /\ OneType(mods'[t], mods[t], work[t].at)
<1> DEFINE m == mods[t]
           i == work[t].at
           ty == m.types[i]
           redirected == RedirectedInterfaces(ty, rec[t].refs)
           more == [k \in DOMAIN redirected |-> Restored(redirected[k], rec[t].refs)]
           new == [EditedType(ty, {"Redirect"}) EXCEPT !.ifaces = @ \o more]
<1>1. /\ IsModule(m) /\ DOMAIN mods = Threads /\ i \in DOMAIN m.types
      /\ IsType(ty, m)
  BY RedirectTypeShape DEF TypeOK, WorkOK, IsModule
<1>2. mods'[t] = [m EXCEPT !.types[i] = new]
  BY Zenon, <1>1 DEF RedirectType
<1>3. IsSequence(more)
  <2>1. IsSequence(redirected)
    <3> DEFINE at == {k \in DOMAIN ty.ifaces : IsRedirected(ty.ifaces[k], rec[t].refs)}
    <3>1. redirected = Picked(ty.ifaces, at) /\ at \in SUBSET DOMAIN ty.ifaces /\ IsSequence(ty.ifaces)
      BY Zenon, <1>1 DEF RedirectedInterfaces, IsType
    <3> HIDE DEF at, redirected
    <3> QED
      BY Zenon, <3>1, PickedElements
  <2>2. more = [k \in DOMAIN redirected |-> more[k]]
    OBVIOUS
  <2> HIDE DEF more, redirected
  <2> QED
    BY Zenon, <2>1, <2>2, SameLength
<1>4. TypeKept(new, ty) /\ new.methods = ty.methods /\ new.attrs = ty.attrs
  <2> HIDE DEF more, ty
  <2> QED
    BY <1>1, <1>3, RedirectKeepsType
<1> HIDE DEF new, redirected, more
<1>5. LET n == mods'[t]
      IN  /\ IsModule(n) /\ SameShape(n, m) /\ n.types[i] = new
          /\ \A j \in DOMAIN m.types : j # i => n.types[j] = m.types[j]
          /\ n.methods = m.methods /\ n.fields = m.fields
  <2>1. IsModule(m) /\ i \in DOMAIN m.types /\ TypeKept(new, m.types[i])
    BY <1>1, <1>4
  <2> HIDE DEF m, i
  <2> QED
    BY <1>2, <2>1, TypeReplaced
<1> QED
  BY SMTT(30), <1>1, <1>4, <1>5 DEF OneType

LEMMA RewirePairEffect ==
  ASSUME TypeOK, NEW t \in Threads, RewirePair(t)
  PROVE  /\ IsModule(mods'[t]) /\ SameShape(mods'[t], mods[t]) /\ SameDefinitions(mods'[t], mods[t])
         /\ DOMAIN mods'[t].methods = DOMAIN mods[t].methods
<1> DEFINE pair == Head(work[t].pairs)
<1>1. IsModule(mods[t]) /\ mods'[t] = Rewired(mods[t], work[t].at, pair[1], pair[2])
  BY Zenon DEF TypeOK, RewirePair
<1> HIDE DEF pair
<1> QED
  BY <1>1, RewiredModule

LEMMA AppendGeneratedEffect ==
  ASSUME TypeOK, NEW t \in Threads, AppendGenerated(t)
  PROVE  LET i == work[t].at
             handles == [k \in DOMAIN work[t].generated |-> Len(mods[t].methods) + k]
         IN  /\ IsModule(mods'[t]) /\ SameShape(mods'[t], mods[t])
             /\ i \in DOMAIN mods[t].types
             /\ mods'[t].types[i].methods = mods[t].types[i].methods \o handles
             /\ mods'[t].types[i].flags = mods[t].types[i].flags
             /\ mods'[t].types[i].prefix = mods[t].types[i].prefix
             /\ \A j \in DOMAIN mods[t].types : j # i => mods'[t].types[j] = mods[t].types[j]
             /\ SameBlobs(mods'[t], mods[t]) /\ SameMethods(mods'[t], mods[t])
             /\ SameFields(mods'[t], mods[t])
             /\ IsSequence(handles) /\ Range(handles) \cap DOMAIN mods[t].methods = {}
<1> DEFINE m == mods[t]
           i == work[t].at
           gs == work[t].generated
           hs == [k \in DOMAIN gs |-> Len(m.methods) + k]
<1>1. /\ IsModule(m) /\ DOMAIN mods = Threads /\ i \in DOMAIN m.types
      /\ IsSequence(gs) /\ \A k \in DOMAIN gs : IsMethod(gs[k], m)
  BY AppendGeneratedShape DEF TypeOK, WorkOK
<1>2. mods'[t] = [m EXCEPT !.methods = @ \o gs, !.types[i].methods = @ \o hs]
  BY Zenon, <1>1 DEF AppendGenerated
<1>3. hs = [k \in DOMAIN gs |-> hs[k]] /\ \A k \in DOMAIN gs : hs[k] = Len(m.methods) + k
  OBVIOUS
<1> HIDE DEF hs, gs, i, m
<1>4. IsSequence(hs) /\ DOMAIN hs = DOMAIN gs
  BY Zenon, <1>1, <1>3, SameLength
<1>5. LET n == [m EXCEPT !.methods = @ \o gs, !.types[i].methods = @ \o hs]
      IN  /\ IsModule(n) /\ SameShape(n, m)
          /\ n.types[i].methods = m.types[i].methods \o hs
          /\ n.types[i].flags = m.types[i].flags /\ n.types[i].prefix = m.types[i].prefix
          /\ \A j \in DOMAIN m.types : j # i => n.types[j] = m.types[j]
          /\ SameBlobs(n, m) /\ SameMethods(n, m) /\ SameFields(n, m)
          /\ Range(hs) \cap DOMAIN m.methods = {}
  BY Zenon, <1>1, <1>3, <1>4, MethodsAdded
<1> QED
  BY Zenon, <1>1, <1>2, <1>4, <1>5 DEF hs, gs, i, m

LEMMA ProjectFieldsEffect ==
  ASSUME TypeOK, NEW t \in Threads, ProjectFields(t)
  PROVE  /\ IsModule(mods'[t]) /\ SameShape(mods'[t], mods[t])
         /\ SameTypes(mods'[t], mods[t]) /\ SameBlobs(mods'[t], mods[t])
         /\ SameMethods(mods'[t], mods[t])
         /\ \A f \in DOMAIN mods[t].fields :
               mods'[t].fields[f] = IF f \in EnumFields(mods[t])
                                    THEN [mods[t].fields[f] EXCEPT !.access = "public"]
                                    ELSE mods[t].fields[f]
<1> DEFINE m == mods[t]
           E == EnumFields(m)
           fs == [f \in DOMAIN m.fields |->
                    IF f \in E THEN [m.fields[f] EXCEPT !.access = "public"] ELSE m.fields[f]]
<1>1. IsModule(m) /\ DOMAIN mods = Threads
  BY DEF TypeOK
<1>2. mods'[t] = [m EXCEPT !.fields = fs]
  BY <1>1 DEF ProjectFields
<1> HIDE DEF m, E
<1>3. ASSUME NEW f \in DOMAIN m.fields
      PROVE  \E a : fs[f] = [m.fields[f] EXCEPT !.access = a]
  <2>1. m.fields[f] = [m.fields[f] EXCEPT !.access = m.fields[f].access]
    BY <1>1 DEF IsModule, IsField
  <2> QED
    BY <2>1
<1>4. fs = [f \in DOMAIN m.fields |-> fs[f]]
  OBVIOUS
<1>5. \A f \in DOMAIN m.fields :
         fs[f] = IF f \in E THEN [m.fields[f] EXCEPT !.access = "public"] ELSE m.fields[f]
  OBVIOUS
<1> HIDE DEF fs
<1>6. LET n == [m EXCEPT !.fields = fs]
      IN  /\ IsModule(n) /\ SameShape(n, m) /\ n.fields = fs
          /\ SameTypes(n, m) /\ SameBlobs(n, m) /\ SameMethods(n, m)
  BY <1>1, <1>3, <1>4, FieldsEdited
<1> QED
  BY <1>2, <1>5, <1>6 DEF m, E

(* The treatment of a method in the pass over methods.                       *)
TreatmentIn(m, r, k) == IF k \in r.added THEN {} ELSE MethodTreatment(m, k, r.refs)

LEMMA UntreatedMethod ==
  ASSUME NEW m, NEW meth, IsMethod(meth, m)
  PROVE  EditedMethod(meth, {}).access = meth.access /\ EditedMethod(meth, {}).flags = meth.flags
<1>1. EditedMethod(meth, {}) = [meth EXCEPT !.access = meth.access, !.flags = meth.flags \cup {}]
  BY DEF EditedMethod
<1> QED
  BY ZenonT(60), <1>1 DEF IsMethod

LEMMA ProjectMethodsEffect ==
  ASSUME TypeOK, NEW t \in Threads, ProjectMethods(t)
  PROVE  /\ IsModule(mods'[t]) /\ SameShape(mods'[t], mods[t])
         /\ SameTypes(mods'[t], mods[t]) /\ SameBlobs(mods'[t], mods[t])
         /\ SameFields(mods'[t], mods[t])
         /\ \A k \in DOMAIN mods[t].methods :
               TreatmentIn(mods[t], rec[t], k) = {} =>
                  /\ mods'[t].methods[k].access = mods[t].methods[k].access
                  /\ mods'[t].methods[k].flags = mods[t].methods[k].flags
<1> DEFINE m == mods[t]
           treatment(k) == TreatmentIn(m, rec[t], k)
           ks == [k \in DOMAIN m.methods |-> EditedMethod(m.methods[k], treatment(k))]
<1>1. IsModule(m) /\ DOMAIN mods = Threads
  BY DEF TypeOK
<1>2. mods'[t] = [m EXCEPT !.methods = ks]
  BY <1>1 DEF ProjectMethods, TreatmentIn
<1> HIDE DEF m, treatment
<1>3. ASSUME NEW k \in DOMAIN m.methods
      PROVE  \E a, f : ks[k] = [m.methods[k] EXCEPT !.access = a, !.flags = f]
  BY DEF EditedMethod
<1>4. ks = [k \in DOMAIN m.methods |-> ks[k]]
  OBVIOUS
<1>5. ASSUME NEW k \in DOMAIN m.methods, treatment(k) = {}
      PROVE  ks[k].access = m.methods[k].access /\ ks[k].flags = m.methods[k].flags
  BY <1>1, <1>5, UntreatedMethod DEF IsModule
<1> HIDE DEF ks
<1>6. LET n == [m EXCEPT !.methods = ks]
      IN  /\ IsModule(n) /\ SameShape(n, m) /\ n.methods = ks
          /\ SameTypes(n, m) /\ SameBlobs(n, m) /\ SameFields(n, m)
  BY <1>1, <1>3, <1>4, MethodsEdited
<1> QED
  BY <1>2, <1>5, <1>6 DEF m, treatment

(* The records the attribute pass reaches before one it cannot read.         *)
Patched(m) ==
    LET all == UsageRecords(m)
        bad == {k \in DOMAIN all : ~BlobAt(m, all[k]).readable}
    IN  {all[k] : k \in {x \in DOMAIN all : \A y \in bad : x < y}}

LEMMA ProjectAttributeRecordsEffect ==
  ASSUME TypeOK, NEW t \in Threads, ProjectAttributeRecords(t)
  PROVE  /\ IsModule(mods'[t]) /\ SameShape(mods'[t], mods[t])
         /\ SameTypes(mods'[t], mods[t]) /\ SameMethods(mods'[t], mods[t])
         /\ SameFields(mods'[t], mods[t])
         /\ \A i \in DOMAIN mods[t].types : \A j \in DOMAIN mods[t].types[i].attrs :
               <<i, j>> \notin Patched(mods[t]) =>
                  mods'[t].types[i].attrs[j].blob = mods[t].types[i].attrs[j].blob
<1> DEFINE m == mods[t]
           done == Patched(m)
           blobs == [x \in done |-> PatchedBlob(m.types[x[1]], BlobAt(m, x))]
<1>1. IsModule(m) /\ DOMAIN mods = Threads
  BY DEF TypeOK
<1>2. mods'[t] = SetBlobs(m, blobs)
  BY <1>1 DEF ProjectAttributeRecords, Patched
<1>3. DOMAIN blobs = done
  OBVIOUS
<1> HIDE DEF m, done, blobs
<1>4. LET n == SetBlobs(m, blobs)
      IN  /\ IsModule(n) /\ SameShape(n, m)
          /\ SameTypes(n, m) /\ SameMethods(n, m) /\ SameFields(n, m)
          /\ \A i \in DOMAIN m.types : \A j \in DOMAIN m.types[i].attrs :
                n.types[i].attrs[j].blob = IF <<i, j>> \in DOMAIN blobs THEN blobs[<<i, j>>]
                                           ELSE m.types[i].attrs[j].blob
  BY <1>1, BlobsSet
<1>5. \A i \in DOMAIN m.types : \A j \in DOMAIN m.types[i].attrs :
         <<i, j>> \notin done =>
            SetBlobs(m, blobs).types[i].attrs[j].blob = m.types[i].attrs[j].blob
  BY <1>3, <1>4
<1> QED
  BY <1>2, <1>4, <1>5 DEF m, done

LEMMA RestoreMembersEffect ==
  ASSUME TypeOK, NEW t \in Threads, RestoreMembers(t)
  PROVE  LET m == mods[t]
             r == rec[t]
             n == mods'[t]
         IN  /\ IsModule(n) /\ SameShape(n, m) /\ SameTypes(n, m)
             /\ \A i \in DOMAIN m.types : \A j \in DOMAIN m.types[i].attrs :
                   n.types[i].attrs[j].blob = IF <<i, j>> \in DOMAIN r.attrs THEN r.attrs[<<i, j>>]
                                              ELSE m.types[i].attrs[j].blob
             /\ \A k \in DOMAIN m.methods :
                   n.methods[k] = IF k \in DOMAIN r.methods
                                  THEN [m.methods[k] EXCEPT !.access = r.methods[k].access,
                                                            !.flags = r.methods[k].flags]
                                  ELSE m.methods[k]
             /\ \A f \in DOMAIN m.fields :
                   n.fields[f] = IF f \in DOMAIN r.fields
                                 THEN [m.fields[f] EXCEPT !.access = r.fields[f]] ELSE m.fields[f]
<1> DEFINE m == mods[t]
           r == rec[t]
           a == SetBlobs(m, r.attrs)
           field(f) == IF f \in DOMAIN r.fields THEN [a.fields[f] EXCEPT !.access = r.fields[f]]
                       ELSE a.fields[f]
           method(k) == IF k \in DOMAIN r.methods
                        THEN [a.methods[k] EXCEPT !.access = r.methods[k].access,
                                                  !.flags = r.methods[k].flags]
                        ELSE a.methods[k]
           fs == [f \in DOMAIN a.fields |-> field(f)]
           ks == [k \in DOMAIN a.methods |-> method(k)]
           b == [a EXCEPT !.fields = fs]
           c == [b EXCEPT !.methods = ks]
<1>1. IsModule(m) /\ DOMAIN mods = Threads
  BY DEF TypeOK
<1>2. mods'[t] = [a EXCEPT !.fields = fs, !.methods = ks]
  BY <1>1 DEF RestoreMembers
<1>3. c = [a EXCEPT !.fields = fs, !.methods = ks]
  OBVIOUS
<1> HIDE DEF m, r, a
<1>4. /\ IsModule(a) /\ SameShape(a, m)
      /\ a.methods = m.methods /\ a.fields = m.fields
      /\ SameTypes(a, m) /\ SameMethods(a, m) /\ SameFields(a, m)
      /\ \A i \in DOMAIN m.types : \A j \in DOMAIN m.types[i].attrs :
            a.types[i].attrs[j].blob = IF <<i, j>> \in DOMAIN r.attrs THEN r.attrs[<<i, j>>]
                                       ELSE m.types[i].attrs[j].blob
  BY <1>1, BlobsSet DEF a
<1>5. ASSUME NEW f \in DOMAIN a.fields
      PROVE  \E x : fs[f] = [a.fields[f] EXCEPT !.access = x]
  <2>1. a.fields[f] = [a.fields[f] EXCEPT !.access = a.fields[f].access]
    BY Zenon, <1>4 DEF IsModule, IsField
  <2> QED
    BY <2>1
<1>6. fs = [f \in DOMAIN a.fields |-> fs[f]] /\ ks = [k \in DOMAIN a.methods |-> ks[k]]
  BY Zenon
<1>7. \A f \in DOMAIN m.fields :
         fs[f] = IF f \in DOMAIN r.fields
                 THEN [m.fields[f] EXCEPT !.access = r.fields[f]] ELSE m.fields[f]
  BY <1>4
<1>8. \A k \in DOMAIN m.methods :
         ks[k] = IF k \in DOMAIN r.methods
                 THEN [m.methods[k] EXCEPT !.access = r.methods[k].access,
                                           !.flags = r.methods[k].flags]
                 ELSE m.methods[k]
  BY <1>4
<1> HIDE DEF fs, field
<1>9. /\ IsModule(b) /\ SameShape(b, a) /\ b.fields = fs
      /\ SameTypes(b, a) /\ SameBlobs(b, a) /\ SameMethods(b, a)
  BY Zenon, <1>4, <1>5, <1>6, FieldsEdited
<1>10. b.methods = a.methods /\ b.types = a.types
  BY Zenon, <1>4 DEF IsModule
<1> HIDE DEF b
<1>11. ASSUME NEW k \in DOMAIN b.methods PROVE MethodKept(ks[k], b.methods[k])
  <2>1. IsMethod(b.methods[k], b) /\ k \in DOMAIN a.methods
    BY <1>9, <1>10 DEF IsModule
  <2>2. /\ DOMAIN ks[k] = DOMAIN b.methods[k] /\ ks[k].owner = b.methods[k].owner
        /\ ks[k].overrides = b.methods[k].overrides
    BY <1>10, <2>1 DEF IsMethod
  <2> QED
    BY Zenon, <2>1, <2>2 DEF IsMethod, MethodKept
<1> HIDE DEF ks, method
<1>12. /\ IsModule(c) /\ SameShape(c, b) /\ c.methods = ks
       /\ SameTypes(c, b) /\ SameBlobs(c, b) /\ SameFields(c, b)
  BY <1>6, <1>9, <1>10, <1>11, WithMethods
<1>13. c.types = a.types /\ c.fields = fs
  BY <1>9, <1>10 DEF IsModule
<1> HIDE DEF c
<1>14. SameShape(c, m)
  BY <1>4, <1>9, <1>12, ShapeTransitive
<1>15. SameTypes(c, m)
  BY <1>4, <1>13 DEF SameTypes
<1>16. mods'[t] = c
  BY <1>2, <1>3
<1>17. \A i \in DOMAIN m.types : \A j \in DOMAIN m.types[i].attrs :
          c.types[i].attrs[j].blob = IF <<i, j>> \in DOMAIN r.attrs THEN r.attrs[<<i, j>>]
                                     ELSE m.types[i].attrs[j].blob
  BY <1>4, <1>13
<1>18. \A k \in DOMAIN m.methods :
          c.methods[k] = IF k \in DOMAIN r.methods
                         THEN [m.methods[k] EXCEPT !.access = r.methods[k].access,
                                                   !.flags = r.methods[k].flags]
                         ELSE m.methods[k]
  BY <1>8, <1>12
<1>19. \A f \in DOMAIN m.fields :
          c.fields[f] = IF f \in DOMAIN r.fields
                        THEN [m.fields[f] EXCEPT !.access = r.fields[f]] ELSE m.fields[f]
  BY Zenon, <1>7, <1>13
<1> QED
  BY <1>12, <1>14, <1>15, <1>16, <1>17, <1>18, <1>19, Zenon DEF m, r

LEMMA RestoreTypeEffect ==
  ASSUME TypeOK, NEW t \in Threads, RestoreType(t)
  PROVE  LET i == work[t].at
             r == rec[t].types[i]
         IN  /\ i \in DOMAIN mods[t].types
             /\ i \notin DOMAIN rec[t].types => mods' = mods
             /\ i \in DOMAIN rec[t].types =>
                  /\ IsModule(mods'[t]) /\ SameShape(mods'[t], mods[t])
                  /\ mods'[t].types[i] = UnprojectedType(mods[t].types[i], r)
                  /\ mods'[t].types[i].attrs = mods[t].types[i].attrs
                  /\ mods'[t].types[i].flags = r.flags /\ mods'[t].types[i].prefix = r.prefix
                  /\ \A j \in DOMAIN mods[t].types : j # i => mods'[t].types[j] = mods[t].types[j]
                  /\ mods'[t].methods = mods[t].methods /\ mods'[t].fields = mods[t].fields
<1> DEFINE m == mods[t]
           i == work[t].at
           r == rec[t].types[i]
           new == UnprojectedType(m.types[i], r)
<1>1. IsModule(m) /\ DOMAIN mods = Threads
  BY DEF TypeOK
<1>2. i \in DOMAIN m.types
  <2>1. i \in 1..Len(m.types) + 1 /\ i <= Len(m.types) /\ DOMAIN m.types = 1..Len(m.types) /\ Len(m.types) \in Nat
    BY <1>1, SequenceMeans DEF TypeOK, WorkOK, RestoreType, IsModule
  <2> QED
    BY <2>1
<1>3. CASE i \notin DOMAIN rec[t].types
  BY Zenon, <1>2, <1>3 DEF RestoreType
<1>4. CASE i \in DOMAIN rec[t].types
  <2>1. mods'[t] = [m EXCEPT !.types[i] = new]
    BY <1>1, <1>4 DEF RestoreType
  <2>2. TypeKept(new, m.types[i]) /\ new.attrs = m.types[i].attrs /\ new.flags = r.flags /\ new.prefix = r.prefix
    <3>1. IsType(m.types[i], m)
      BY <1>1, <1>2 DEF IsModule
    <3> HIDE DEF m, i, r
    <3> QED
      BY <3>1, UnprojectKeepsType
  <2> HIDE DEF new, m, i, r
  <2>3. LET n == mods'[t]
        IN  /\ IsModule(n) /\ SameShape(n, m) /\ n.types[i] = new
            /\ \A j \in DOMAIN m.types : j # i => n.types[j] = m.types[j]
            /\ n.methods = m.methods /\ n.fields = m.fields
    BY <1>1, <1>2, <2>1, <2>2, TypeReplaced
  <2> QED
    BY Zenon, <1>2, <1>4, <2>2, <2>3 DEF new, m, i, r
<1> QED
  BY <1>3, <1>4

LEMMA UnwirePairEffect ==
  ASSUME TypeOK, NEW t \in Threads, UnwirePair(t)
  PROVE  IsModule(mods'[t]) /\ SameShape(mods'[t], mods[t]) /\ SameDefinitions(mods'[t], mods[t])
<1> DEFINE m == mods[t]
           i == work[t].at
           pair == Head(work[t].pairs)
           n == Rewired(m, i, pair[2], pair[1])
           out == pair[2]
           new == [m.types[i] EXCEPT !.ifaces = WithoutInterface(@, out)]
<1>1. /\ IsModule(m) /\ DOMAIN mods = Threads /\ i \in DOMAIN m.types
      /\ IsType(m.types[i], m)
  BY UnwirePairShape DEF TypeOK, WorkOK, IsModule
<1>2. /\ IsModule(n) /\ SameShape(n, m) /\ SameDefinitions(n, m) /\ n.types = m.types
  <2> HIDE DEF m, i, pair
  <2> QED
    BY SMTT(30), <1>1, RewiredModule
<1>3. mods'[t] = [n EXCEPT !.types[i].ifaces = WithoutInterface(m.types[i].ifaces, out)]
  BY Zenon, <1>1 DEF UnwirePair, WithoutInterface
<1> HIDE DEF n, m, i, pair, out
<1>4. new = [n.types[i] EXCEPT !.ifaces = WithoutInterface(m.types[i].ifaces, out)]
  <2>1. new = [m.types[i] EXCEPT !.ifaces = WithoutInterface(m.types[i].ifaces, out)]
    BY <1>1 DEF IsType
  <2> QED
    BY <1>2, <2>1
<1>5. mods'[t] = [n EXCEPT !.types[i] = new]
  BY <1>2, <1>3, <1>4 DEF IsModule
<1>6. /\ TypeKept(new, m.types[i]) /\ new.methods = m.types[i].methods /\ new.attrs = m.types[i].attrs
      /\ new.flags = m.types[i].flags /\ new.prefix = m.types[i].prefix
  BY <1>1, UnwiredType
<1> HIDE DEF new
<1>7. LET b == mods'[t]
      IN  /\ IsModule(b) /\ SameShape(b, n) /\ b.types[i] = new
          /\ \A j \in DOMAIN n.types : j # i => b.types[j] = n.types[j]
          /\ b.methods = n.methods /\ b.fields = n.fields
  BY SMTT(30), <1>1, <1>2, <1>5, <1>6, TypeReplaced
<1>8. SameDefinitions(mods'[t], n)
  BY <1>2, <1>6, <1>7 DEF SameDefinitions, SameTypes, SameBlobs, SameMethods, SameFields
<1>9. SameShape(mods'[t], m)
  BY <1>2, <1>7, ShapeTransitive
<1>10. SameDefinitions(mods'[t], m)
  BY <1>2, <1>7, <1>8, SameTransitive DEF SameDefinitions
<1> QED
  BY SMTT(30), <1>7, <1>9, <1>10 DEF m

LEMMA RepairEffect ==
  ASSUME TypeOK, NEW t \in Threads, Repair(t)
  PROVE  IsModule(mods'[t]) /\ SameShape(mods'[t], mods[t])
<1> DEFINE m == mods[t]
           bad == {x \in Range(UsageRecords(m)) : ~BlobAt(m, x).readable}
           blobs == [x \in bad |-> [BlobAt(m, x) EXCEPT !.readable = TRUE]]
<1>1. IsModule(m) /\ mods'[t] = SetBlobs(m, blobs)
  BY DEF TypeOK, Repair
<1> HIDE DEF blobs, m
<1> QED
  BY <1>1, BlobsSet DEF m

(* One step keeps the types: every pass changes one module, as the lemmas    *)
(* above say, and the notes and the record of its own thread.                *)
LEMMA TypeNext == TypeOK /\ [Next]_vars => TypeOK'
<1> SUFFICES ASSUME TypeOK, [Next]_vars PROVE TypeOK'
  OBVIOUS
<1>1. CASE UNCHANGED vars
  <2>1. /\ mods' = mods /\ guid' = guid /\ store' = store /\ pc' = pc /\ rec' = rec
        /\ work' = work /\ calls' = calls /\ disk' = disk
    BY <1>1 DEF vars
  <2>2. \A t \in Threads : WorkOK(t)' = WorkOK(t)
    BY <2>1 DEF WorkOK
  <2> QED
    BY <2>1, <2>2 DEF TypeOK
<1>2. ASSUME NEW t \in Threads,
             CheckNotApplied(t) \/ TakeRecord(t) \/ Reread(t) \/ Repair(t) \/ Continue(t)
      PROVE  TypeOK'
  <2>1. /\ IsModule(mods[t]) /\ DOMAIN mods = Threads /\ DOMAIN work = Threads
        /\ WorkOK(t) /\ DOMAIN work[t] = DOMAIN AtRest
        /\ pc \in [Threads -> Labels] /\ calls \in [Threads -> 0..MaxCalls]
        /\ MaxCalls \in Nat /\ (pc[t] # "idle" => calls[t] < MaxCalls)
        /\ DOMAIN store \subseteq Guids /\ guid[t] \in Guids
        /\ DOMAIN rec = {u \in Threads : pc[u] \in Passes}
    BY BoundAssumption DEF TypeOK, WorkOK, Labels
  <2>2. /\ \A g \in DOMAIN store : DOMAIN store[g] = RecordFields
        /\ \A u \in DOMAIN rec : DOMAIN rec[u] = RecordFields
    BY DEF TypeOK, Range
  <2>3. /\ Len(mods[t].types) \in Nat /\ DOMAIN mods[t].types = 1..Len(mods[t].types)
        /\ work[t].at \in 1..Len(mods[t].types) + 1
        /\ DOMAIN AtRest = {"at", "stack", "closure", "generated", "pairs"}
        /\ AtRest.at = 1 /\ AtRest.generated = <<>>
        /\ pc[t] \in {"closure", "rewire", "unwire"} => work[t].at \in DOMAIN mods[t].types
    BY <2>1, SequenceMeans DEF IsModule, WorkOK, AtRest
  <2>4. SameShape(mods[t], mods[t])
    BY ShapeReflexive
  <2>5. CASE CheckNotApplied(t)
    <3>1. /\ IsModule(mods'[t]) /\ SameShape(mods'[t], mods[t])
          /\ DOMAIN mods'[t].types = DOMAIN mods[t].types
      BY <2>1, <2>4, <2>5 DEF CheckNotApplied, SameShape
    <3>2. /\ guid' = guid /\ disk' = disk /\ DOMAIN mods' = Threads /\ DOMAIN work' = Threads
          /\ \A u \in Threads \ {t} : /\ mods'[u] = mods[u] /\ work'[u] = work[u]
                                       /\ pc'[u] = pc[u] /\ calls'[u] = calls[u]
      BY <2>1, <2>5 DEF CheckNotApplied, Goto, Declines, Calls
    <3>3. /\ pc' \in [Threads -> Labels] /\ calls' \in [Threads -> 0..MaxCalls]
          /\ pc'[t] # "idle" => calls'[t] < MaxCalls
      BY <2>1, <2>5 DEF CheckNotApplied, Goto, Labels, Passes, Declines, Calls
    <3>4. DOMAIN store' \subseteq Guids /\ \A g \in DOMAIN store' : DOMAIN store'[g] = RecordFields
      BY <2>1, <2>2, <2>5 DEF CheckNotApplied, Passes
    <3>5. /\ DOMAIN rec' = {u \in Threads : pc'[u] \in Passes}
          /\ \A u \in DOMAIN rec' : DOMAIN rec'[u] = RecordFields
      BY <2>1, <2>2, <2>5 DEF CheckNotApplied, Goto, Labels, Passes, Declines, Calls
    <3>6. /\ DOMAIN work'[t] = DOMAIN AtRest /\ work'[t].at \in 1..Len(mods[t].types) + 1
          /\ pc'[t] \in {"closure", "rewire", "unwire"} => work'[t].at \in DOMAIN mods[t].types
          /\ work'[t].generated = work[t].generated \/ work'[t].generated = <<>>
      BY <2>1, <2>3, <2>5 DEF CheckNotApplied, Goto, Declines, Calls
    <3>7. WorkOK(t)'
      BY <3>1, <3>6, WorkMoves
    <3> QED
      BY <3>1, <3>2, <3>3, <3>4, <3>5, <3>7, TypeStep
  <2>6. CASE TakeRecord(t)
    <3>1. /\ IsModule(mods'[t]) /\ SameShape(mods'[t], mods[t])
          /\ DOMAIN mods'[t].types = DOMAIN mods[t].types
      BY <2>1, <2>4, <2>6 DEF TakeRecord, SameShape
    <3>2. /\ guid' = guid /\ disk' = disk /\ DOMAIN mods' = Threads /\ DOMAIN work' = Threads
          /\ \A u \in Threads \ {t} : /\ mods'[u] = mods[u] /\ work'[u] = work[u]
                                       /\ pc'[u] = pc[u] /\ calls'[u] = calls[u]
      <4>1. CASE guid[t] \in DOMAIN store
        BY <2>1, <2>6, <4>1 DEF TakeRecord, Goto, Declines, Calls
      <4>2. CASE ~(guid[t] \in DOMAIN store)
        BY <2>1, <2>6, <4>2 DEF TakeRecord, Goto, Declines, Calls
      <4> QED
        BY <4>1, <4>2
    <3>3. /\ pc' \in [Threads -> Labels] /\ calls' \in [Threads -> 0..MaxCalls]
          /\ pc'[t] # "idle" => calls'[t] < MaxCalls
      <4>1. CASE guid[t] \in DOMAIN store
        BY <2>1, <2>6, <4>1 DEF TakeRecord, Goto, Labels, Passes, Declines, Calls
      <4>2. CASE ~(guid[t] \in DOMAIN store)
        BY <2>1, <2>6, <4>2 DEF TakeRecord, Goto, Labels, Passes, Declines, Calls
      <4> QED
        BY <4>1, <4>2
    <3>4. DOMAIN store' \subseteq Guids /\ \A g \in DOMAIN store' : DOMAIN store'[g] = RecordFields
      <4>1. CASE guid[t] \in DOMAIN store
        BY <2>1, <2>2, <2>6, <4>1 DEF TakeRecord, With, Without, Passes
      <4>2. CASE ~(guid[t] \in DOMAIN store)
        BY <2>1, <2>2, <2>6, <4>2 DEF TakeRecord, With, Without, Passes
      <4> QED
        BY <4>1, <4>2
    <3>5. /\ DOMAIN rec' = {u \in Threads : pc'[u] \in Passes}
          /\ \A u \in DOMAIN rec' : DOMAIN rec'[u] = RecordFields
      <4>1. CASE guid[t] \in DOMAIN store
        BY <2>1, <2>2, <2>6, <4>1 DEF TakeRecord, Goto, Labels, Passes, Declines, Calls, With, Without
      <4>2. CASE ~(guid[t] \in DOMAIN store)
        BY <2>1, <2>2, <2>6, <4>2 DEF TakeRecord, Goto, Labels, Passes, Declines, Calls, With, Without
      <4> QED
        BY <4>1, <4>2
    <3>6. /\ DOMAIN work'[t] = DOMAIN AtRest /\ work'[t].at \in 1..Len(mods[t].types) + 1
          /\ pc'[t] \in {"closure", "rewire", "unwire"} => work'[t].at \in DOMAIN mods[t].types
          /\ work'[t].generated = work[t].generated \/ work'[t].generated = <<>>
      <4>1. CASE guid[t] \in DOMAIN store
        BY <2>1, <2>3, <2>6, <4>1 DEF TakeRecord, Goto, Declines, Calls
      <4>2. CASE ~(guid[t] \in DOMAIN store)
        BY <2>1, <2>3, <2>6, <4>2 DEF TakeRecord, Goto, Declines, Calls
      <4> QED
        BY <4>1, <4>2
    <3>7. WorkOK(t)'
      BY <3>1, <3>6, WorkMoves
    <3> QED
      BY <3>1, <3>2, <3>3, <3>4, <3>5, <3>7, TypeStep
  <2>7. CASE Reread(t)
    <3>1. /\ IsModule(mods'[t]) /\ mods'[t] = disk[t]
          /\ DOMAIN mods'[t].types = DOMAIN mods[t].types
      BY <2>1, <2>7 DEF Reread, TypeOK, SameShape
    <3>2. /\ guid' = guid /\ disk' = disk /\ DOMAIN mods' = Threads /\ DOMAIN work' = Threads
          /\ \A u \in Threads \ {t} : /\ mods'[u] = mods[u] /\ work'[u] = work[u]
                                       /\ pc'[u] = pc[u] /\ calls'[u] = calls[u]
      BY <2>1, <2>7 DEF Reread, Goto
    <3>3. /\ pc' \in [Threads -> Labels] /\ calls' \in [Threads -> 0..MaxCalls]
          /\ pc'[t] # "idle" => calls'[t] < MaxCalls
      BY <2>1, <2>7 DEF Reread, Goto, Labels, Passes
    <3>4. DOMAIN store' \subseteq Guids /\ \A g \in DOMAIN store' : DOMAIN store'[g] = RecordFields
      BY <2>1, <2>2, <2>7 DEF Reread, Passes
    <3>5. /\ DOMAIN rec' = {u \in Threads : pc'[u] \in Passes}
          /\ \A u \in DOMAIN rec' : DOMAIN rec'[u] = RecordFields
      BY <2>1, <2>2, <2>7 DEF Reread, Goto, Labels, Passes
    <3>6. /\ DOMAIN work'[t] = DOMAIN AtRest /\ work'[t].at \in 1..Len(mods[t].types) + 1
          /\ pc'[t] \in {"closure", "rewire", "unwire"} => work'[t].at \in DOMAIN mods[t].types
          /\ work'[t].generated = work[t].generated \/ work'[t].generated = <<>>
      BY <2>1, <2>3, <2>7 DEF Reread, Goto
    <3>7. WorkOK(t)'
      BY <3>1, <3>6, WorkMoves
    <3> QED
      BY <3>1, <3>2, <3>3, <3>4, <3>5, <3>7, TypeStep
  <2>8. CASE Repair(t)
    <3>1. /\ IsModule(mods'[t]) /\ SameShape(mods'[t], mods[t])
          /\ DOMAIN mods'[t].types = DOMAIN mods[t].types
      BY <2>1, <2>4, <2>8, RepairEffect DEF SameShape
    <3>2. /\ guid' = guid /\ disk' = disk /\ DOMAIN mods' = Threads /\ DOMAIN work' = Threads
          /\ \A u \in Threads \ {t} : /\ mods'[u] = mods[u] /\ work'[u] = work[u]
                                       /\ pc'[u] = pc[u] /\ calls'[u] = calls[u]
      BY <2>1, <2>8 DEF Repair, Goto
    <3>3. /\ pc' \in [Threads -> Labels] /\ calls' \in [Threads -> 0..MaxCalls]
          /\ pc'[t] # "idle" => calls'[t] < MaxCalls
      BY <2>1, <2>8 DEF Repair, Goto, Labels, Passes
    <3>4. DOMAIN store' \subseteq Guids /\ \A g \in DOMAIN store' : DOMAIN store'[g] = RecordFields
      BY <2>1, <2>2, <2>8 DEF Repair, Passes
    <3>5. /\ DOMAIN rec' = {u \in Threads : pc'[u] \in Passes}
          /\ \A u \in DOMAIN rec' : DOMAIN rec'[u] = RecordFields
      BY <2>1, <2>2, <2>8 DEF Repair, Goto, Labels, Passes
    <3>6. /\ DOMAIN work'[t] = DOMAIN AtRest /\ work'[t].at \in 1..Len(mods[t].types) + 1
          /\ pc'[t] \in {"closure", "rewire", "unwire"} => work'[t].at \in DOMAIN mods[t].types
          /\ work'[t].generated = work[t].generated \/ work'[t].generated = <<>>
      BY <2>1, <2>3, <2>8 DEF Repair, Goto
    <3>7. WorkOK(t)'
      BY <3>1, <3>6, WorkMoves
    <3> QED
      BY <3>1, <3>2, <3>3, <3>4, <3>5, <3>7, TypeStep
  <2>9. CASE AddVirtualReferences(t)
    <3>0. /\ guid' = guid /\ disk' = disk /\ store' = store /\ pc[t] = "virtual"
          /\ \/ /\ mods' = mods /\ rec' = rec /\ work' = work
                /\ pc' = [pc EXCEPT ![t] = "idle"] /\ calls' = [calls EXCEPT ![t] = @ + 1]
             \/ /\ \E rs : mods' = [mods EXCEPT ![t].refs = rs]
                /\ \E v, n : rec' = With(rec, t, EmptyRecord(v, n))
                /\ work' = [work EXCEPT ![t] = AtRest]
                /\ pc' = [pc EXCEPT ![t] = "references"] /\ calls' = calls
      BY <2>9 DEF AddVirtualReferences, Declines, Goto
    <3>1. /\ IsModule(mods'[t]) /\ SameShape(mods'[t], mods[t])
          /\ DOMAIN mods'[t].types = DOMAIN mods[t].types
      BY <2>1, <2>4, <2>9, AddVirtualReferencesEffect DEF SameShape
    <3>2. /\ guid' = guid /\ disk' = disk /\ DOMAIN mods' = Threads /\ DOMAIN work' = Threads
          /\ \A u \in Threads \ {t} : /\ mods'[u] = mods[u] /\ work'[u] = work[u]
                                       /\ pc'[u] = pc[u] /\ calls'[u] = calls[u]
      BY <2>1, <3>0 DEF Goto, Declines
    <3>3. /\ pc' \in [Threads -> Labels] /\ calls' \in [Threads -> 0..MaxCalls]
          /\ pc'[t] # "idle" => calls'[t] < MaxCalls
      BY <2>1, <3>0 DEF Goto, Labels, Passes, Declines
    <3>4. DOMAIN store' \subseteq Guids /\ \A g \in DOMAIN store' : DOMAIN store'[g] = RecordFields
      BY <2>1, <2>2, <3>0 DEF With, EmptyRecord, RecordFields, Passes
    <3>5. /\ DOMAIN rec' = {u \in Threads : pc'[u] \in Passes}
          /\ \A u \in DOMAIN rec' : DOMAIN rec'[u] = RecordFields
      <4>1. t \notin DOMAIN rec
        BY <2>1, <3>0 DEF Passes
      <4>2. CASE rec' = rec /\ pc' = [pc EXCEPT ![t] = "idle"]
        BY <2>1, <2>2, <4>1, <4>2 DEF Passes
      <4>3. ASSUME NEW v, NEW n, rec' = With(rec, t, EmptyRecord(v, n)),
                   pc' = [pc EXCEPT ![t] = "references"]
            PROVE  /\ DOMAIN rec' = {u \in Threads : pc'[u] \in Passes}
                   /\ \A u \in DOMAIN rec' : DOMAIN rec'[u] = RecordFields
        <5>1. DOMAIN EmptyRecord(v, n) = RecordFields
          BY DEF EmptyRecord, RecordFields
        <5>2. /\ DOMAIN rec' = DOMAIN rec \cup {t} /\ rec'[t] = EmptyRecord(v, n)
              /\ \A u \in DOMAIN rec : u # t => rec'[u] = rec[u]
          BY <4>3 DEF With
        <5>3. {u \in Threads : pc'[u] \in Passes} = DOMAIN rec \cup {t}
          BY <2>1, <4>3 DEF Passes
        <5> QED
          BY <2>2, <5>1, <5>2, <5>3
      <4> QED
        BY <3>0, <4>2, <4>3
    <3>6. /\ DOMAIN work'[t] = DOMAIN AtRest /\ work'[t].at \in 1..Len(mods[t].types) + 1
          /\ pc'[t] \in {"closure", "rewire", "unwire"} => work'[t].at \in DOMAIN mods[t].types
          /\ work'[t].generated = work[t].generated \/ work'[t].generated = <<>>
      BY <2>1, <2>3, <3>0 DEF Goto, Declines
    <3>7. WorkOK(t)'
      BY <3>1, <3>6, WorkMoves
    <3> QED
      BY <3>1, <3>2, <3>3, <3>4, <3>5, <3>7, TypeStep
  <2>10. CASE ProjectTypeReferences(t)
    <3>1. /\ IsModule(mods'[t]) /\ SameShape(mods'[t], mods[t])
          /\ DOMAIN mods'[t].types = DOMAIN mods[t].types
      BY <2>1, <2>4, <2>10, ProjectTypeReferencesEffect DEF SameShape
    <3>2. /\ guid' = guid /\ disk' = disk /\ DOMAIN mods' = Threads /\ DOMAIN work' = Threads
          /\ \A u \in Threads \ {t} : /\ mods'[u] = mods[u] /\ work'[u] = work[u]
                                       /\ pc'[u] = pc[u] /\ calls'[u] = calls[u]
      BY <2>1, <2>10 DEF ProjectTypeReferences, Goto
    <3>3. /\ pc' \in [Threads -> Labels] /\ calls' \in [Threads -> 0..MaxCalls]
          /\ pc'[t] # "idle" => calls'[t] < MaxCalls
      BY <2>1, <2>10 DEF ProjectTypeReferences, Goto, Labels, Passes
    <3>4. DOMAIN store' \subseteq Guids /\ \A g \in DOMAIN store' : DOMAIN store'[g] = RecordFields
      BY <2>1, <2>2, <2>10 DEF ProjectTypeReferences, Passes
    <3>5. /\ DOMAIN rec' = {u \in Threads : pc'[u] \in Passes}
          /\ \A u \in DOMAIN rec' : DOMAIN rec'[u] = RecordFields
      BY <2>1, <2>2, <2>10 DEF ProjectTypeReferences, Goto, Labels, Passes
    <3>6. /\ DOMAIN work'[t] = DOMAIN AtRest /\ work'[t].at \in 1..Len(mods[t].types) + 1
          /\ pc'[t] \in {"closure", "rewire", "unwire"} => work'[t].at \in DOMAIN mods[t].types
          /\ work'[t].generated = work[t].generated \/ work'[t].generated = <<>>
      BY Zenon, <2>1, <2>3, <2>10 DEF ProjectTypeReferences, Goto
    <3>7. WorkOK(t)'
      BY <3>1, <3>6, WorkMoves
    <3> QED
      BY <3>1, <3>2, <3>3, <3>4, <3>5, <3>7, TypeStep
  <2>11. CASE ProjectTypeDefinition(t)
    <3>0. /\ guid' = guid /\ disk' = disk /\ store' = store /\ pc[t] = "types" /\ calls' = calls
          /\ work[t].at <= Len(mods[t].types)
          /\ \/ /\ mods' = mods /\ rec' = rec /\ pc' = [pc EXCEPT ![t] = "closure"]
                /\ \E s : work' = [work EXCEPT ![t] = [AtRest EXCEPT !.at = work[t].at, !.stack = s]]
             \/ /\ \E ty : mods' = [mods EXCEPT ![t].types[work[t].at] = ty]
                /\ rec' = rec \/ \E r : rec' = [rec EXCEPT ![t].types = r]
                /\ pc' = pc /\ work' = [work EXCEPT ![t].at = work[t].at + 1]
      BY Zenon, <2>11 DEF ProjectTypeDefinition, Goto
    <3>1. /\ IsModule(mods'[t]) /\ SameShape(mods'[t], mods[t])
          /\ DOMAIN mods'[t].types = DOMAIN mods[t].types
      BY <2>1, <2>4, <2>11, ProjectTypeDefinitionEffect DEF OneType, SameShape
    <3>2. /\ guid' = guid /\ disk' = disk /\ DOMAIN mods' = Threads /\ DOMAIN work' = Threads
          /\ \A u \in Threads \ {t} : /\ mods'[u] = mods[u] /\ work'[u] = work[u]
                                       /\ pc'[u] = pc[u] /\ calls'[u] = calls[u]
      BY <2>1, <3>0 DEF Goto
    <3>3. /\ pc' \in [Threads -> Labels] /\ calls' \in [Threads -> 0..MaxCalls]
          /\ pc'[t] # "idle" => calls'[t] < MaxCalls
      BY <2>1, <3>0 DEF Goto, Labels, Passes
    <3>4. DOMAIN store' \subseteq Guids /\ \A g \in DOMAIN store' : DOMAIN store'[g] = RecordFields
      BY <2>1, <2>2, <3>0 DEF Passes
    <3>5. /\ DOMAIN rec' = {u \in Threads : pc'[u] \in Passes}
          /\ \A u \in DOMAIN rec' : DOMAIN rec'[u] = RecordFields
      BY ZenonT(60), <2>1, <2>2, <3>0 DEF Goto, Labels, Passes
    <3>6. /\ DOMAIN work'[t] = DOMAIN AtRest /\ work'[t].at \in 1..Len(mods[t].types) + 1
          /\ pc'[t] \in {"closure", "rewire", "unwire"} => work'[t].at \in DOMAIN mods[t].types
          /\ work'[t].generated = work[t].generated \/ work'[t].generated = <<>>
      <4>1. ASSUME NEW s, work' = [work EXCEPT ![t] = [AtRest EXCEPT !.at = work[t].at, !.stack = s]]
            PROVE  /\ DOMAIN work'[t] = DOMAIN AtRest /\ work'[t].at = work[t].at
                   /\ work'[t].generated = <<>>
        BY <2>1, <4>1 DEF AtRest
      <4>2. CASE pc' = pc /\ work' = [work EXCEPT ![t].at = work[t].at + 1]
        BY <2>1, <2>3, <3>0, <4>2
      <4>3. work[t].at \in DOMAIN mods[t].types
        <5>1. /\ Len(mods[t].types) \in Nat /\ work[t].at \in 1..Len(mods[t].types) + 1
              /\ work[t].at <= Len(mods[t].types)
          BY <2>3, <3>0
        <5>2. work[t].at \in 1..Len(mods[t].types)
          BY SMTT(30), <5>1
        <5> QED
          BY Zenon, <2>3, <5>2
      <4> QED
        BY <2>3, <3>0, <4>1, <4>2, <4>3
    <3>7. WorkOK(t)'
      BY <3>1, <3>6, WorkMoves
    <3> QED
      BY <3>1, <3>2, <3>3, <3>4, <3>5, <3>7, TypeStep
  <2>12. CASE CollectInterface(t)
    <3>1. /\ IsModule(mods'[t]) /\ SameShape(mods'[t], mods[t])
          /\ DOMAIN mods'[t].types = DOMAIN mods[t].types
      BY <2>1, <2>4, <2>12, CollectInterfaceChanges DEF SameElsewhere, SameShape
    <3>2. /\ guid' = guid /\ disk' = disk /\ DOMAIN mods' = Threads /\ DOMAIN work' = Threads
          /\ \A u \in Threads \ {t} : /\ mods'[u] = mods[u] /\ work'[u] = work[u]
                                       /\ pc'[u] = pc[u] /\ calls'[u] = calls[u]
      BY <2>1, <2>12, CollectInterfaceChanges DEF SameElsewhere
    <3>3. /\ pc' \in [Threads -> Labels] /\ calls' \in [Threads -> 0..MaxCalls]
          /\ pc'[t] # "idle" => calls'[t] < MaxCalls
      BY <2>1, <2>12, CollectInterfaceChanges DEF SameElsewhere, Labels, Passes
    <3>4. DOMAIN store' \subseteq Guids /\ \A g \in DOMAIN store' : DOMAIN store'[g] = RecordFields
      BY <2>1, <2>2, <2>12, CollectInterfaceChanges DEF SameElsewhere, Passes
    <3>5. /\ DOMAIN rec' = {u \in Threads : pc'[u] \in Passes}
          /\ \A u \in DOMAIN rec' : DOMAIN rec'[u] = RecordFields
      BY <2>1, <2>2, <2>12, CollectInterfaceChanges DEF SameElsewhere, Labels, Passes
    <3>6. WorkOK(t)'
      <4> DEFINE e == Head(work[t].stack)
                 more == GeneratedMethods(mods[t], work[t].at, e, rec[t].refs)
      <4>1. work[t].at \in DOMAIN mods[t].types
        BY <2>3, <2>12, CollectInterfaceChanges DEF SameElsewhere
      <4>2. IsSequence(more) /\ \A k \in DOMAIN more : IsMethod(more[k], mods[t])
        BY <2>1, <4>1, GeneratedAreMethods
      <4>3. /\ DOMAIN work'[t] = DOMAIN AtRest /\ work'[t].at = work[t].at
            /\ work'[t].generated \in {work[t].generated, work[t].generated \o more}
            /\ mods' = mods /\ pc' = pc
        <5> HIDE DEF more
        <5>1. CASE e \in Range(work[t].closure)
          BY Zenon, <2>1, <2>3, <2>12, <5>1 DEF CollectInterface
        <5>2. CASE e \notin Range(work[t].closure)
          BY Zenon, <2>1, <2>3, <2>12, <5>2 DEF CollectInterface, more
        <5> QED
          BY <5>1, <5>2
      <4> HIDE DEF more
      <4>4. /\ IsSequence(work[t].generated)
            /\ \A k \in DOMAIN work[t].generated : IsMethod(work[t].generated[k], mods[t])
        BY <2>1 DEF WorkOK
      <4>5. /\ IsSequence(work[t].generated \o more)
            /\ \A k \in DOMAIN (work[t].generated \o more) : IsMethod((work[t].generated \o more)[k], mods[t])
        BY <4>2, <4>4, MethodsJoined
      <4>6. /\ IsSequence(work'[t].generated)
            /\ \A k \in DOMAIN work'[t].generated : IsMethod(work'[t].generated[k], mods[t])
        BY <4>3, <4>4, <4>5
      <4> QED
        BY Zenon, <2>3, <4>1, <4>3, <4>6 DEF WorkOK
    <3>7. WorkOK(t)'
      BY <3>6
    <3> QED
      BY <3>1, <3>2, <3>3, <3>4, <3>5, <3>7, TypeStep
  <2>13. CASE RedirectType(t)
    <3>0. /\ pc[t] = "closure" /\ pc' = [pc EXCEPT ![t] = "rewire"]
          /\ guid' = guid /\ store' = store /\ calls' = calls /\ disk' = disk
          /\ SameElsewhere(mods', mods, t) /\ SameElsewhere(work', work, t)
          /\ SameElsewhere(rec', rec, t) /\ t \in DOMAIN rec /\ DOMAIN rec'[t] = RecordFields
          /\ DOMAIN work'[t] = DOMAIN AtRest
          /\ work'[t].at = work[t].at /\ work'[t].generated = work[t].generated
      BY Zenon, <2>13, RedirectTypeChanges
    <3>1. /\ IsModule(mods'[t]) /\ SameShape(mods'[t], mods[t])
          /\ DOMAIN mods'[t].types = DOMAIN mods[t].types
      BY <2>1, <2>4, <2>13, RedirectTypeEffect DEF OneType, SameShape
    <3>2. /\ guid' = guid /\ disk' = disk /\ DOMAIN mods' = Threads /\ DOMAIN work' = Threads
          /\ \A u \in Threads \ {t} : /\ mods'[u] = mods[u] /\ work'[u] = work[u]
                                       /\ pc'[u] = pc[u] /\ calls'[u] = calls[u]
      <4>1. \A u \in Threads \ {t} : pc'[u] = pc[u] /\ calls'[u] = calls[u]
        BY <2>1, <3>0
      <4> QED
        BY Zenon, <2>1, <3>0, <4>1 DEF SameElsewhere
    <3>3. /\ pc' \in [Threads -> Labels] /\ calls' \in [Threads -> 0..MaxCalls]
          /\ pc'[t] # "idle" => calls'[t] < MaxCalls
      BY <2>1, <3>0 DEF Labels, Passes
    <3>4. DOMAIN store' \subseteq Guids /\ \A g \in DOMAIN store' : DOMAIN store'[g] = RecordFields
      BY <2>1, <2>2, <3>0
    <3>5. /\ DOMAIN rec' = {u \in Threads : pc'[u] \in Passes}
          /\ \A u \in DOMAIN rec' : DOMAIN rec'[u] = RecordFields
      <4>1. DOMAIN rec' = DOMAIN rec /\ \A u \in DOMAIN rec : DOMAIN rec'[u] = RecordFields
        BY Zenon, <2>2, <3>0 DEF SameElsewhere
      <4>2. {u \in Threads : pc'[u] \in Passes} = {u \in Threads : pc[u] \in Passes}
        BY <2>1, <3>0 DEF Passes
      <4> QED
        BY <2>1, <4>1, <4>2
    <3>6. /\ DOMAIN work'[t] = DOMAIN AtRest /\ work'[t].at \in 1..Len(mods[t].types) + 1
          /\ pc'[t] \in {"closure", "rewire", "unwire"} => work'[t].at \in DOMAIN mods[t].types
          /\ work'[t].generated = work[t].generated \/ work'[t].generated = <<>>
      <4>1. work[t].at \in 1..Len(mods[t].types)
        BY <2>3, <3>0
      <4>2. work[t].at \in 1..Len(mods[t].types) + 1
        BY <2>3, <4>1
      <4>3. pc'[t] = "rewire"
        BY <2>1, <3>0
      <4> QED
        BY <2>3, <3>0, <4>1, <4>2, <4>3
    <3>7. WorkOK(t)'
      BY <3>1, <3>6, WorkMoves
    <3> QED
      BY <3>1, <3>2, <3>3, <3>4, <3>5, <3>7, TypeStep
  <2>14. CASE RewirePair(t)
    <3>1. /\ IsModule(mods'[t]) /\ SameShape(mods'[t], mods[t])
          /\ DOMAIN mods'[t].types = DOMAIN mods[t].types
      BY <2>1, <2>4, <2>14, RewirePairEffect DEF SameShape
    <3>2. /\ guid' = guid /\ disk' = disk /\ DOMAIN mods' = Threads /\ DOMAIN work' = Threads
          /\ \A u \in Threads \ {t} : /\ mods'[u] = mods[u] /\ work'[u] = work[u]
                                       /\ pc'[u] = pc[u] /\ calls'[u] = calls[u]
      BY <2>1, <2>14, RewirePairShape
    <3>3. /\ pc' \in [Threads -> Labels] /\ calls' \in [Threads -> 0..MaxCalls]
          /\ pc'[t] # "idle" => calls'[t] < MaxCalls
      BY <2>1, <2>14, RewirePairShape DEF Labels, Passes
    <3>4. DOMAIN store' \subseteq Guids /\ \A g \in DOMAIN store' : DOMAIN store'[g] = RecordFields
      BY <2>1, <2>2, <2>14, RewirePairShape DEF Passes
    <3>5. /\ DOMAIN rec' = {u \in Threads : pc'[u] \in Passes}
          /\ \A u \in DOMAIN rec' : DOMAIN rec'[u] = RecordFields
      BY <2>1, <2>2, <2>14, RewirePairShape DEF Labels, Passes
    <3>6. /\ DOMAIN work'[t] = DOMAIN AtRest /\ work'[t].at \in 1..Len(mods[t].types) + 1
          /\ pc'[t] \in {"closure", "rewire", "unwire"} => work'[t].at \in DOMAIN mods[t].types
          /\ work'[t].generated = work[t].generated \/ work'[t].generated = <<>>
      BY <2>1, <2>3, <2>14 DEF RewirePair, Goto
    <3>7. WorkOK(t)'
      BY <3>1, <3>6, WorkMoves
    <3> QED
      BY <3>1, <3>2, <3>3, <3>4, <3>5, <3>7, TypeStep
  <2>15. CASE AppendGenerated(t)
    <3>0. /\ pc[t] = "rewire" /\ pc' = [pc EXCEPT ![t] = "types"]
          /\ guid' = guid /\ store' = store /\ calls' = calls /\ disk' = disk
          /\ SameElsewhere(mods', mods, t) /\ SameElsewhere(work', work, t)
          /\ SameElsewhere(rec', rec, t) /\ t \in DOMAIN rec /\ DOMAIN rec'[t] = RecordFields
          /\ DOMAIN work'[t] = DOMAIN AtRest
          /\ work'[t].at = work[t].at + 1 /\ work'[t].generated = <<>>
      BY Zenon, <2>15, AppendGeneratedChanges
    <3>1. /\ IsModule(mods'[t]) /\ SameShape(mods'[t], mods[t])
          /\ DOMAIN mods'[t].types = DOMAIN mods[t].types
      BY Zenon, <2>1, <2>4, <2>15, AppendGeneratedEffect DEF SameShape
    <3>2. /\ guid' = guid /\ disk' = disk /\ DOMAIN mods' = Threads /\ DOMAIN work' = Threads
          /\ \A u \in Threads \ {t} : /\ mods'[u] = mods[u] /\ work'[u] = work[u]
                                       /\ pc'[u] = pc[u] /\ calls'[u] = calls[u]
      <4>1. \A u \in Threads \ {t} : pc'[u] = pc[u] /\ calls'[u] = calls[u]
        BY <2>1, <3>0
      <4> QED
        BY Zenon, <2>1, <3>0, <4>1 DEF SameElsewhere
    <3>3. /\ pc' \in [Threads -> Labels] /\ calls' \in [Threads -> 0..MaxCalls]
          /\ pc'[t] # "idle" => calls'[t] < MaxCalls
      BY <2>1, <3>0 DEF Labels, Passes
    <3>4. DOMAIN store' \subseteq Guids /\ \A g \in DOMAIN store' : DOMAIN store'[g] = RecordFields
      BY <2>1, <2>2, <3>0
    <3>5. /\ DOMAIN rec' = {u \in Threads : pc'[u] \in Passes}
          /\ \A u \in DOMAIN rec' : DOMAIN rec'[u] = RecordFields
      <4>1. DOMAIN rec' = DOMAIN rec /\ \A u \in DOMAIN rec : DOMAIN rec'[u] = RecordFields
        BY Zenon, <2>2, <3>0 DEF SameElsewhere
      <4>2. {u \in Threads : pc'[u] \in Passes} = {u \in Threads : pc[u] \in Passes}
        BY <2>1, <3>0 DEF Passes
      <4> QED
        BY <2>1, <4>1, <4>2
    <3>6. /\ DOMAIN work'[t] = DOMAIN AtRest /\ work'[t].at \in 1..Len(mods[t].types) + 1
          /\ pc'[t] \in {"closure", "rewire", "unwire"} => work'[t].at \in DOMAIN mods[t].types
          /\ work'[t].generated = work[t].generated \/ work'[t].generated = <<>>
      <4>1. work[t].at \in 1..Len(mods[t].types)
        BY <2>3, <3>0
      <4>2. work[t].at + 1 \in 1..Len(mods[t].types) + 1
        BY <2>3, <4>1
      <4>3. pc'[t] = "types"
        BY <2>1, <3>0
      <4> QED
        BY <2>3, <3>0, <4>1, <4>2, <4>3
    <3>7. WorkOK(t)'
      BY <3>1, <3>6, WorkMoves
    <3> QED
      BY <3>1, <3>2, <3>3, <3>4, <3>5, <3>7, TypeStep
  <2>16. CASE ProjectFields(t)
    <3>1. /\ IsModule(mods'[t]) /\ SameShape(mods'[t], mods[t])
          /\ DOMAIN mods'[t].types = DOMAIN mods[t].types
      BY <2>1, <2>4, <2>16, ProjectFieldsEffect DEF SameShape
    <3>2. /\ guid' = guid /\ disk' = disk /\ DOMAIN mods' = Threads /\ DOMAIN work' = Threads
          /\ \A u \in Threads \ {t} : /\ mods'[u] = mods[u] /\ work'[u] = work[u]
                                       /\ pc'[u] = pc[u] /\ calls'[u] = calls[u]
      BY <2>1, <2>16 DEF ProjectFields, Goto
    <3>3. /\ pc' \in [Threads -> Labels] /\ calls' \in [Threads -> 0..MaxCalls]
          /\ pc'[t] # "idle" => calls'[t] < MaxCalls
      BY <2>1, <2>16 DEF ProjectFields, Goto, Labels, Passes
    <3>4. DOMAIN store' \subseteq Guids /\ \A g \in DOMAIN store' : DOMAIN store'[g] = RecordFields
      BY <2>1, <2>2, <2>16 DEF ProjectFields, Passes
    <3>5. /\ DOMAIN rec' = {u \in Threads : pc'[u] \in Passes}
          /\ \A u \in DOMAIN rec' : DOMAIN rec'[u] = RecordFields
      BY <2>1, <2>2, <2>16 DEF ProjectFields, Goto, Labels, Passes
    <3>6. /\ DOMAIN work'[t] = DOMAIN AtRest /\ work'[t].at \in 1..Len(mods[t].types) + 1
          /\ pc'[t] \in {"closure", "rewire", "unwire"} => work'[t].at \in DOMAIN mods[t].types
          /\ work'[t].generated = work[t].generated \/ work'[t].generated = <<>>
      BY <2>1, <2>3, <2>16 DEF ProjectFields, Goto
    <3>7. WorkOK(t)'
      BY <3>1, <3>6, WorkMoves
    <3> QED
      BY <3>1, <3>2, <3>3, <3>4, <3>5, <3>7, TypeStep
  <2>17. CASE ProjectMethods(t)
    <3>1. /\ IsModule(mods'[t]) /\ SameShape(mods'[t], mods[t])
          /\ DOMAIN mods'[t].types = DOMAIN mods[t].types
      BY <2>1, <2>4, <2>17, ProjectMethodsEffect DEF SameShape
    <3>2. /\ guid' = guid /\ disk' = disk /\ DOMAIN mods' = Threads /\ DOMAIN work' = Threads
          /\ \A u \in Threads \ {t} : /\ mods'[u] = mods[u] /\ work'[u] = work[u]
                                       /\ pc'[u] = pc[u] /\ calls'[u] = calls[u]
      BY <2>1, <2>17 DEF ProjectMethods, Goto
    <3>3. /\ pc' \in [Threads -> Labels] /\ calls' \in [Threads -> 0..MaxCalls]
          /\ pc'[t] # "idle" => calls'[t] < MaxCalls
      BY <2>1, <2>17 DEF ProjectMethods, Goto, Labels, Passes
    <3>4. DOMAIN store' \subseteq Guids /\ \A g \in DOMAIN store' : DOMAIN store'[g] = RecordFields
      BY <2>1, <2>2, <2>17 DEF ProjectMethods, Passes
    <3>5. /\ DOMAIN rec' = {u \in Threads : pc'[u] \in Passes}
          /\ \A u \in DOMAIN rec' : DOMAIN rec'[u] = RecordFields
      BY <2>1, <2>2, <2>17 DEF ProjectMethods, Goto, Labels, Passes
    <3>6. /\ DOMAIN work'[t] = DOMAIN AtRest /\ work'[t].at \in 1..Len(mods[t].types) + 1
          /\ pc'[t] \in {"closure", "rewire", "unwire"} => work'[t].at \in DOMAIN mods[t].types
          /\ work'[t].generated = work[t].generated \/ work'[t].generated = <<>>
      BY <2>1, <2>3, <2>17 DEF ProjectMethods, Goto
    <3>7. WorkOK(t)'
      BY <3>1, <3>6, WorkMoves
    <3> QED
      BY <3>1, <3>2, <3>3, <3>4, <3>5, <3>7, TypeStep
  <2>18. CASE ProjectAttributeRecords(t)
    <3>0. /\ guid' = guid /\ disk' = disk /\ store' = store /\ work' = work /\ pc[t] = "attributes"
          /\ \E n : mods' = [mods EXCEPT ![t] = n]
          /\ \/ /\ \E x : rec' = [rec EXCEPT ![t].attrs = x]
                /\ pc' = [pc EXCEPT ![t] = "insert"] /\ calls' = calls
             \/ /\ rec' = Without(rec, t)
                /\ pc' = [pc EXCEPT ![t] = "idle"] /\ calls' = [calls EXCEPT ![t] = @ + 1]
      BY <2>18 DEF ProjectAttributeRecords, Goto, Returns
    <3>1. /\ IsModule(mods'[t]) /\ SameShape(mods'[t], mods[t])
          /\ DOMAIN mods'[t].types = DOMAIN mods[t].types
      BY <2>1, <2>4, <2>18, ProjectAttributeRecordsEffect DEF SameShape
    <3>2. /\ guid' = guid /\ disk' = disk /\ DOMAIN mods' = Threads /\ DOMAIN work' = Threads
          /\ \A u \in Threads \ {t} : /\ mods'[u] = mods[u] /\ work'[u] = work[u]
                                       /\ pc'[u] = pc[u] /\ calls'[u] = calls[u]
      BY <2>1, <3>0 DEF Goto, Returns
    <3>3. /\ pc' \in [Threads -> Labels] /\ calls' \in [Threads -> 0..MaxCalls]
          /\ pc'[t] # "idle" => calls'[t] < MaxCalls
      BY <2>1, <3>0 DEF Goto, Labels, Passes, Returns
    <3>4. DOMAIN store' \subseteq Guids /\ \A g \in DOMAIN store' : DOMAIN store'[g] = RecordFields
      BY <2>1, <2>2, <3>0 DEF Without, Passes
    <3>5. /\ DOMAIN rec' = {u \in Threads : pc'[u] \in Passes}
          /\ \A u \in DOMAIN rec' : DOMAIN rec'[u] = RecordFields
      <4>1. t \in DOMAIN rec
        BY <2>1, <3>0 DEF Passes
      <4>2. ASSUME NEW x, rec' = [rec EXCEPT ![t].attrs = x], pc' = [pc EXCEPT ![t] = "insert"]
            PROVE  /\ DOMAIN rec' = {u \in Threads : pc'[u] \in Passes}
                   /\ \A u \in DOMAIN rec' : DOMAIN rec'[u] = RecordFields
        BY <2>1, <2>2, <4>1, <4>2 DEF Passes
      <4>3. CASE rec' = Without(rec, t) /\ pc' = [pc EXCEPT ![t] = "idle"]
        BY <2>1, <2>2, <4>1, <4>3 DEF Passes, Without
      <4> QED
        BY <3>0, <4>2, <4>3
    <3>6. /\ DOMAIN work'[t] = DOMAIN AtRest /\ work'[t].at \in 1..Len(mods[t].types) + 1
          /\ pc'[t] \in {"closure", "rewire", "unwire"} => work'[t].at \in DOMAIN mods[t].types
          /\ work'[t].generated = work[t].generated \/ work'[t].generated = <<>>
      BY <2>1, <2>3, <3>0 DEF Goto, Returns
    <3>7. WorkOK(t)'
      BY <3>1, <3>6, WorkMoves
    <3> QED
      BY <3>1, <3>2, <3>3, <3>4, <3>5, <3>7, TypeStep
  <2>19. CASE InsertRecord(t)
    <3>1. /\ IsModule(mods'[t]) /\ SameShape(mods'[t], mods[t])
          /\ DOMAIN mods'[t].types = DOMAIN mods[t].types
      BY <2>1, <2>4, <2>19 DEF InsertRecord, SameShape
    <3>2. /\ guid' = guid /\ disk' = disk /\ DOMAIN mods' = Threads /\ DOMAIN work' = Threads
          /\ \A u \in Threads \ {t} : /\ mods'[u] = mods[u] /\ work'[u] = work[u]
                                       /\ pc'[u] = pc[u] /\ calls'[u] = calls[u]
      BY <2>1, <2>19 DEF InsertRecord, Goto, Returns
    <3>3. /\ pc' \in [Threads -> Labels] /\ calls' \in [Threads -> 0..MaxCalls]
          /\ pc'[t] # "idle" => calls'[t] < MaxCalls
      BY <2>1, <2>19 DEF InsertRecord, Goto, Labels, Passes, Returns
    <3>4. DOMAIN store' \subseteq Guids /\ \A g \in DOMAIN store' : DOMAIN store'[g] = RecordFields
      BY <2>1, <2>2, <2>19 DEF InsertRecord, With, Without, Passes
    <3>5. /\ DOMAIN rec' = {u \in Threads : pc'[u] \in Passes}
          /\ \A u \in DOMAIN rec' : DOMAIN rec'[u] = RecordFields
      BY <2>1, <2>2, <2>19 DEF InsertRecord, Goto, Labels, Passes, Returns, With, Without
    <3>6. /\ DOMAIN work'[t] = DOMAIN AtRest /\ work'[t].at \in 1..Len(mods[t].types) + 1
          /\ pc'[t] \in {"closure", "rewire", "unwire"} => work'[t].at \in DOMAIN mods[t].types
          /\ work'[t].generated = work[t].generated \/ work'[t].generated = <<>>
      BY ZenonT(60), <2>1, <2>3, <2>19 DEF InsertRecord, Goto, Returns
    <3>7. WorkOK(t)'
      BY <3>1, <3>6, WorkMoves
    <3> QED
      BY <3>1, <3>2, <3>3, <3>4, <3>5, <3>7, TypeStep
  <2>20. CASE RestoreMembers(t)
    <3>1. /\ IsModule(mods'[t]) /\ SameShape(mods'[t], mods[t])
          /\ DOMAIN mods'[t].types = DOMAIN mods[t].types
      BY <2>1, <2>4, <2>20, RestoreMembersEffect DEF SameShape
    <3>2. /\ guid' = guid /\ disk' = disk /\ DOMAIN mods' = Threads /\ DOMAIN work' = Threads
          /\ \A u \in Threads \ {t} : /\ mods'[u] = mods[u] /\ work'[u] = work[u]
                                       /\ pc'[u] = pc[u] /\ calls'[u] = calls[u]
      BY <2>1, <2>20 DEF RestoreMembers, Goto
    <3>3. /\ pc' \in [Threads -> Labels] /\ calls' \in [Threads -> 0..MaxCalls]
          /\ pc'[t] # "idle" => calls'[t] < MaxCalls
      BY <2>1, <2>20 DEF RestoreMembers, Goto, Labels, Passes
    <3>4. DOMAIN store' \subseteq Guids /\ \A g \in DOMAIN store' : DOMAIN store'[g] = RecordFields
      BY <2>1, <2>2, <2>20 DEF RestoreMembers, Passes
    <3>5. /\ DOMAIN rec' = {u \in Threads : pc'[u] \in Passes}
          /\ \A u \in DOMAIN rec' : DOMAIN rec'[u] = RecordFields
      BY Zenon, <2>1, <2>2, <2>20 DEF RestoreMembers, Goto, Labels, Passes
    <3>6. /\ DOMAIN work'[t] = DOMAIN AtRest /\ work'[t].at \in 1..Len(mods[t].types) + 1
          /\ pc'[t] \in {"closure", "rewire", "unwire"} => work'[t].at \in DOMAIN mods[t].types
          /\ work'[t].generated = work[t].generated \/ work'[t].generated = <<>>
      BY <2>1, <2>3, <2>20 DEF RestoreMembers, Goto
    <3>7. WorkOK(t)'
      BY <3>1, <3>6, WorkMoves
    <3> QED
      BY <3>1, <3>2, <3>3, <3>4, <3>5, <3>7, TypeStep
  <2>21. CASE RestoreType(t)
    <3>1. /\ IsModule(mods'[t]) /\ SameShape(mods'[t], mods[t])
          /\ DOMAIN mods'[t].types = DOMAIN mods[t].types
      BY <2>1, <2>4, <2>21, RestoreTypeEffect DEF SameShape
    <3>2. /\ guid' = guid /\ disk' = disk /\ DOMAIN mods' = Threads /\ DOMAIN work' = Threads
          /\ \A u \in Threads \ {t} : /\ mods'[u] = mods[u] /\ work'[u] = work[u]
                                       /\ pc'[u] = pc[u] /\ calls'[u] = calls[u]
      BY <2>1, <2>21, RestoreTypeShape
    <3>3. /\ pc' \in [Threads -> Labels] /\ calls' \in [Threads -> 0..MaxCalls]
          /\ pc'[t] # "idle" => calls'[t] < MaxCalls
      BY <2>1, <2>21, RestoreTypeShape DEF Labels, Passes
    <3>4. DOMAIN store' \subseteq Guids /\ \A g \in DOMAIN store' : DOMAIN store'[g] = RecordFields
      BY <2>1, <2>2, <2>21, RestoreTypeShape DEF Passes
    <3>5. /\ DOMAIN rec' = {u \in Threads : pc'[u] \in Passes}
          /\ \A u \in DOMAIN rec' : DOMAIN rec'[u] = RecordFields
      BY <2>1, <2>2, <2>21, RestoreTypeShape DEF Labels, Passes
    <3>6. /\ DOMAIN work'[t] = DOMAIN AtRest /\ work'[t].at \in 1..Len(mods[t].types) + 1
          /\ pc'[t] \in {"closure", "rewire", "unwire"} => work'[t].at \in DOMAIN mods[t].types
          /\ work'[t].generated = work[t].generated \/ work'[t].generated = <<>>
      BY <2>1, <2>3, <2>21, RestoreTypeShape
    <3>7. WorkOK(t)'
      BY <3>1, <3>6, WorkMoves
    <3> QED
      BY <3>1, <3>2, <3>3, <3>4, <3>5, <3>7, TypeStep
  <2>22. CASE UnwirePair(t)
    <3>1. /\ IsModule(mods'[t]) /\ SameShape(mods'[t], mods[t])
          /\ DOMAIN mods'[t].types = DOMAIN mods[t].types
      BY <2>1, <2>4, <2>22, UnwirePairEffect DEF SameShape
    <3>2. /\ guid' = guid /\ disk' = disk /\ DOMAIN mods' = Threads /\ DOMAIN work' = Threads
          /\ \A u \in Threads \ {t} : /\ mods'[u] = mods[u] /\ work'[u] = work[u]
                                       /\ pc'[u] = pc[u] /\ calls'[u] = calls[u]
      BY <2>1, <2>22, UnwirePairChanges DEF SameElsewhere
    <3>3. /\ pc' \in [Threads -> Labels] /\ calls' \in [Threads -> 0..MaxCalls]
          /\ pc'[t] # "idle" => calls'[t] < MaxCalls
      BY <2>1, <2>22, UnwirePairChanges DEF SameElsewhere, Labels, Passes
    <3>4. DOMAIN store' \subseteq Guids /\ \A g \in DOMAIN store' : DOMAIN store'[g] = RecordFields
      BY <2>1, <2>2, <2>22, UnwirePairChanges DEF SameElsewhere, Passes
    <3>5. /\ DOMAIN rec' = {u \in Threads : pc'[u] \in Passes}
          /\ \A u \in DOMAIN rec' : DOMAIN rec'[u] = RecordFields
      BY <2>1, <2>2, <2>22, UnwirePairChanges DEF SameElsewhere, Labels, Passes
    <3>6. /\ DOMAIN work'[t] = DOMAIN AtRest /\ work'[t].at \in 1..Len(mods[t].types) + 1
          /\ pc'[t] \in {"closure", "rewire", "unwire"} => work'[t].at \in DOMAIN mods[t].types
          /\ work'[t].generated = work[t].generated \/ work'[t].generated = <<>>
      BY <2>1, <2>3, <2>22, UnwirePairChanges DEF SameElsewhere
    <3>7. WorkOK(t)'
      BY <3>1, <3>6, WorkMoves
    <3> QED
      BY <3>1, <3>2, <3>3, <3>4, <3>5, <3>7, TypeStep
  <2>23. CASE TypeRestored(t)
    <3>1. /\ IsModule(mods'[t]) /\ SameShape(mods'[t], mods[t])
          /\ DOMAIN mods'[t].types = DOMAIN mods[t].types
      BY <2>1, <2>4, <2>23 DEF TypeRestored, SameShape
    <3>2. /\ guid' = guid /\ disk' = disk /\ DOMAIN mods' = Threads /\ DOMAIN work' = Threads
          /\ \A u \in Threads \ {t} : /\ mods'[u] = mods[u] /\ work'[u] = work[u]
                                       /\ pc'[u] = pc[u] /\ calls'[u] = calls[u]
      BY <2>1, <2>23 DEF TypeRestored, Goto
    <3>3. /\ pc' \in [Threads -> Labels] /\ calls' \in [Threads -> 0..MaxCalls]
          /\ pc'[t] # "idle" => calls'[t] < MaxCalls
      BY <2>1, <2>23 DEF TypeRestored, Goto, Labels, Passes
    <3>4. DOMAIN store' \subseteq Guids /\ \A g \in DOMAIN store' : DOMAIN store'[g] = RecordFields
      BY <2>1, <2>2, <2>23 DEF TypeRestored, Passes
    <3>5. /\ DOMAIN rec' = {u \in Threads : pc'[u] \in Passes}
          /\ \A u \in DOMAIN rec' : DOMAIN rec'[u] = RecordFields
      BY <2>1, <2>2, <2>23 DEF TypeRestored, Goto, Labels, Passes
    <3>6. /\ DOMAIN work'[t] = DOMAIN AtRest /\ work'[t].at \in 1..Len(mods[t].types) + 1
          /\ pc'[t] \in {"closure", "rewire", "unwire"} => work'[t].at \in DOMAIN mods[t].types
          /\ work'[t].generated = work[t].generated \/ work'[t].generated = <<>>
      BY <2>1, <2>3, <2>23 DEF TypeRestored, Goto
    <3>7. WorkOK(t)'
      BY <3>1, <3>6, WorkMoves
    <3> QED
      BY <3>1, <3>2, <3>3, <3>4, <3>5, <3>7, TypeStep
  <2>24. CASE RestoreTypeReferences(t)
    <3>1. /\ IsModule(mods'[t]) /\ SameShape(mods'[t], mods[t])
          /\ DOMAIN mods'[t].types = DOMAIN mods[t].types
      BY <2>1, <2>4, <2>24, RestoreTypeReferencesEffect DEF SameShape
    <3>2. /\ guid' = guid /\ disk' = disk /\ DOMAIN mods' = Threads /\ DOMAIN work' = Threads
          /\ \A u \in Threads \ {t} : /\ mods'[u] = mods[u] /\ work'[u] = work[u]
                                       /\ pc'[u] = pc[u] /\ calls'[u] = calls[u]
      BY <2>1, <2>24 DEF RestoreTypeReferences, Goto
    <3>3. /\ pc' \in [Threads -> Labels] /\ calls' \in [Threads -> 0..MaxCalls]
          /\ pc'[t] # "idle" => calls'[t] < MaxCalls
      BY <2>1, <2>24 DEF RestoreTypeReferences, Goto, Labels, Passes
    <3>4. DOMAIN store' \subseteq Guids /\ \A g \in DOMAIN store' : DOMAIN store'[g] = RecordFields
      BY <2>1, <2>2, <2>24 DEF RestoreTypeReferences, Passes
    <3>5. /\ DOMAIN rec' = {u \in Threads : pc'[u] \in Passes}
          /\ \A u \in DOMAIN rec' : DOMAIN rec'[u] = RecordFields
      BY <2>1, <2>2, <2>24 DEF RestoreTypeReferences, Goto, Labels, Passes
    <3>6. /\ DOMAIN work'[t] = DOMAIN AtRest /\ work'[t].at \in 1..Len(mods[t].types) + 1
          /\ pc'[t] \in {"closure", "rewire", "unwire"} => work'[t].at \in DOMAIN mods[t].types
          /\ work'[t].generated = work[t].generated \/ work'[t].generated = <<>>
      BY <2>1, <2>3, <2>24 DEF RestoreTypeReferences, Goto
    <3>7. WorkOK(t)'
      BY <3>1, <3>6, WorkMoves
    <3> QED
      BY <3>1, <3>2, <3>3, <3>4, <3>5, <3>7, TypeStep
  <2>25. CASE RemoveVirtualReferences(t)
    <3>1. /\ IsModule(mods'[t]) /\ SameShape(mods'[t], mods[t])
          /\ DOMAIN mods'[t].types = DOMAIN mods[t].types
      BY <2>1, <2>4, <2>25, RemoveVirtualReferencesEffect DEF SameShape
    <3>2. /\ guid' = guid /\ disk' = disk /\ DOMAIN mods' = Threads /\ DOMAIN work' = Threads
          /\ \A u \in Threads \ {t} : /\ mods'[u] = mods[u] /\ work'[u] = work[u]
                                       /\ pc'[u] = pc[u] /\ calls'[u] = calls[u]
      BY <2>1, <2>25 DEF RemoveVirtualReferences, Goto, Returns
    <3>3. /\ pc' \in [Threads -> Labels] /\ calls' \in [Threads -> 0..MaxCalls]
          /\ pc'[t] # "idle" => calls'[t] < MaxCalls
      BY <2>1, <2>25 DEF RemoveVirtualReferences, Goto, Labels, Passes, Returns
    <3>4. DOMAIN store' \subseteq Guids /\ \A g \in DOMAIN store' : DOMAIN store'[g] = RecordFields
      BY <2>1, <2>2, <2>25 DEF RemoveVirtualReferences, Without, Passes
    <3>5. /\ DOMAIN rec' = {u \in Threads : pc'[u] \in Passes}
          /\ \A u \in DOMAIN rec' : DOMAIN rec'[u] = RecordFields
      BY <2>1, <2>2, <2>25 DEF RemoveVirtualReferences, Goto, Labels, Passes, Returns, Without
    <3>6. /\ DOMAIN work'[t] = DOMAIN AtRest /\ work'[t].at \in 1..Len(mods[t].types) + 1
          /\ pc'[t] \in {"closure", "rewire", "unwire"} => work'[t].at \in DOMAIN mods[t].types
          /\ work'[t].generated = work[t].generated \/ work'[t].generated = <<>>
      BY <2>1, <2>3, <2>25 DEF RemoveVirtualReferences, Goto, Returns
    <3>7. WorkOK(t)'
      BY <3>1, <3>6, WorkMoves
    <3> QED
      BY <3>1, <3>2, <3>3, <3>4, <3>5, <3>7, TypeStep
  <2> QED
    BY <1>2, <2>5, <2>6, <2>7, <2>8, <2>9, <2>10, <2>11, <2>12, <2>13, <2>14, <2>15, <2>16, <2>17, <2>18, <2>19, <2>20, <2>21, <2>22, <2>23, <2>24, <2>25 DEF Continue
<1> QED
  BY <1>1, <1>2 DEF Next

(* Whatever the files hold and whatever is called on them, every module stays *)
(* a module of the shape it was read with, a record exists exactly while a    *)
(* call needs one, and a call is only begun within the bound.                 *)
THEOREM TypesSound == Spec => []TypeOK
<1>1. Init => TypeOK
  BY InitialTypes
<1>2. TypeOK /\ [Next]_vars => TypeOK'
  BY TypeNext
<1> QED
  BY <1>1, <1>2, PTL DEF Spec

-------------------------------------------------------------------------------
(* One record, one owner.                                                    *)

LEMMA SerialsOf ==
  ASSUME NEW f, IsFiniteSet(DOMAIN f)
  PROVE  LET T == {f[x].serial : x \in DOMAIN f}
         IN  IsFiniteSet(T) /\ Cardinality(T) \in Nat /\ Cardinality(T) <= Cardinality(DOMAIN f)
<1> DEFINE T == {f[x].serial : x \in DOMAIN f}
           g == [x \in DOMAIN f |-> f[x].serial]
<1>1. g \in Surjection(DOMAIN f, T)
  BY DEF Surjection
<1> HIDE DEF T, g
<1>2. IsFiniteSet(T) /\ Cardinality(T) <= Cardinality(DOMAIN f)
  BY <1>1, FS_Surjection
<1>3. Cardinality(T) \in Nat
  BY <1>2, FS_CardinalityType
<1> QED
  BY <1>2, <1>3 DEF T

(* There is always a name to give: there are fewer records than names.       *)
LEMMA FreshName ==
  ASSUME TypeOK
  PROVE  /\ \A g \in DOMAIN store : store[g].serial # FreshSerial
         /\ \A u \in DOMAIN rec : rec[u].serial # FreshSerial
<1> DEFINE A == {store[g].serial : g \in DOMAIN store}
           B == {rec[u].serial : u \in DOMAIN rec}
           bound == Cardinality(Guids) + Cardinality(Threads)
           Held == Range(store) \cup Range(rec)
<1>1. /\ DOMAIN store \subseteq Guids /\ DOMAIN rec \subseteq Threads
      /\ IsFiniteSet(Guids) /\ IsFiniteSet(Threads)
  BY FiniteAssumption DEF TypeOK
<1>2. /\ IsFiniteSet(DOMAIN store) /\ Cardinality(DOMAIN store) <= Cardinality(Guids)
      /\ IsFiniteSet(DOMAIN rec) /\ Cardinality(DOMAIN rec) <= Cardinality(Threads)
      /\ Cardinality(DOMAIN store) \in Nat /\ Cardinality(DOMAIN rec) \in Nat
      /\ Cardinality(Guids) \in Nat /\ Cardinality(Threads) \in Nat
  BY <1>1, FS_Subset, FS_CardinalityType
<1>3. /\ IsFiniteSet(A) /\ Cardinality(A) \in Nat /\ Cardinality(A) <= Cardinality(DOMAIN store)
      /\ IsFiniteSet(B) /\ Cardinality(B) \in Nat /\ Cardinality(B) <= Cardinality(DOMAIN rec)
  BY <1>2, SerialsOf
<1>4. \A r \in Held : r.serial \in A \cup B
  BY DEF Range
<1>5. A \subseteq {r.serial : r \in Held} /\ B \subseteq {r.serial : r \in Held}
  BY DEF Range
<1>6. FreshSerial = CHOOSE n \in 0..bound : \A r \in Held : r.serial # n
  BY DEF FreshSerial
<1> HIDE DEF A, B, bound, Held
<1>7. IsFiniteSet(A \cup B) /\ Cardinality(A \cup B) <= bound /\ bound \in Nat
  <2>1. IsFiniteSet(A \cap B) /\ Cardinality(A \cap B) \in Nat
    BY <1>3, FS_Subset, FS_CardinalityType
  <2>2. /\ IsFiniteSet(A \cup B)
        /\ Cardinality(A \cup B) = Cardinality(A) + Cardinality(B) - Cardinality(A \cap B)
    BY <1>3, FS_Union
  <2> QED
    BY <1>2, <1>3, <2>1, <2>2 DEF bound
<1>8. \E n \in 0..bound : n \notin A \cup B
  <2> SUFFICES ASSUME 0..bound \subseteq A \cup B PROVE FALSE
    OBVIOUS
  <2>1. Cardinality(0..bound) <= Cardinality(A \cup B)
    BY <1>7, FS_Subset
  <2>2. Cardinality(0..bound) = bound + 1
    BY <1>7, FS_Interval
  <2>3. Cardinality(A \cup B) \in Nat
    BY <1>7, FS_CardinalityType
  <2> QED
    BY <1>7, <2>1, <2>2, <2>3
<1>9. \E n \in 0..bound : \A r \in Held : r.serial # n
  BY <1>4, <1>8
<1>10. \A r \in Held : r.serial # FreshSerial
  BY <1>6, <1>9
<1> QED
  BY <1>10 DEF Held, Range

(* Records that stay where they are, or go.                                  *)
LEMMA OwnersKept ==
  ASSUME RecordHasOneOwner, store' = store, DOMAIN rec' \subseteq DOMAIN rec,
         \A u \in DOMAIN rec' : rec'[u].serial = rec[u].serial
  PROVE  RecordHasOneOwner'
BY DEF RecordHasOneOwner

LEMMA OwnerNext == TypeOK /\ RecordHasOneOwner /\ [Next]_vars => RecordHasOneOwner'
<1> SUFFICES ASSUME TypeOK, RecordHasOneOwner, [Next]_vars PROVE RecordHasOneOwner'
  OBVIOUS
<1>1. CASE UNCHANGED vars
  BY <1>1 DEF vars, RecordHasOneOwner
<1>2. ASSUME NEW t \in Threads,
             CheckNotApplied(t) \/ TakeRecord(t) \/ Reread(t) \/ Repair(t) \/ Continue(t)
      PROVE  RecordHasOneOwner'
  <2>1. /\ DOMAIN rec = {u \in Threads : pc[u] \in Passes}
        /\ \A u \in DOMAIN rec : DOMAIN rec[u] = RecordFields
    BY DEF TypeOK, Range
  <2>2. CASE \/ CheckNotApplied(t) \/ Reread(t) \/ Repair(t) \/ CollectInterface(t)
             \/ RewirePair(t) \/ RestoreMembers(t) \/ RestoreType(t) \/ UnwirePair(t)
             \/ TypeRestored(t) \/ RestoreTypeReferences(t)
    <3>1. store' = store /\ rec' = rec
      BY Zenon, <2>2, CollectInterfaceShape, RewirePairShape, RestoreTypeShape, UnwirePairShape
         DEF CheckNotApplied, Reread, Repair, RestoreMembers, TypeRestored, RestoreTypeReferences
    <3> QED
      BY ZenonT(60), <3>1, OwnersKept
  <2>3. CASE TakeRecord(t)
    <3>1. CASE guid[t] \in DOMAIN store
      <4>1. rec' = With(rec, t, store[guid[t]]) /\ store' = Without(store, guid[t]) /\ t \notin DOMAIN rec
        BY <2>1, <2>3, <3>1 DEF TakeRecord, Calls, Passes
      <4>2. /\ DOMAIN rec' = DOMAIN rec \cup {t} /\ rec'[t] = store[guid[t]]
            /\ \A u \in DOMAIN rec : rec'[u] = rec[u]
            /\ DOMAIN store' = DOMAIN store \ {guid[t]}
            /\ \A g \in DOMAIN store' : store'[g] = store[g]
        BY <4>1 DEF With, Without
      <4> QED
        BY <3>1, <4>1, <4>2 DEF RecordHasOneOwner
    <3>2. CASE guid[t] \notin DOMAIN store
      BY <2>3, <3>2, OwnersKept DEF TakeRecord
    <3> QED
      BY <3>1, <3>2
  <2>4. CASE AddVirtualReferences(t)
    <3>1. store' = store /\ (rec' = rec \/ \E v : rec' = With(rec, t, EmptyRecord(v, FreshSerial)))
      BY <2>4 DEF AddVirtualReferences
    <3>2. CASE rec' = rec
      BY <3>1, <3>2, OwnersKept
    <3>3. ASSUME NEW v, rec' = With(rec, t, EmptyRecord(v, FreshSerial))
          PROVE  RecordHasOneOwner'
      <4>1. EmptyRecord(v, FreshSerial).serial = FreshSerial
        BY Zenon DEF EmptyRecord
      <4>2. t \notin DOMAIN rec
        BY <2>1, <2>4 DEF AddVirtualReferences, Passes
      <4>3. /\ DOMAIN rec' = DOMAIN rec \cup {t} /\ rec'[t].serial = FreshSerial
            /\ \A u \in DOMAIN rec : rec'[u] = rec[u]
        BY <3>3, <4>1, <4>2 DEF With
      <4> QED
        BY <3>1, <4>2, <4>3, FreshName DEF RecordHasOneOwner
    <3> QED
      BY <3>1, <3>2, <3>3
  <2>5. CASE InsertRecord(t)
    <3>1. rec' = Without(rec, t) /\ store' = With(store, guid[t], rec[t]) /\ t \in DOMAIN rec
      BY <2>1, <2>5 DEF InsertRecord, Passes
    <3>2. /\ DOMAIN rec' = DOMAIN rec \ {t} /\ \A u \in DOMAIN rec' : rec'[u] = rec[u]
          /\ DOMAIN store' = DOMAIN store \cup {guid[t]} /\ store'[guid[t]] = rec[t]
          /\ \A g \in DOMAIN store : g # guid[t] => store'[g] = store[g]
      BY <3>1 DEF With, Without
    <3> QED
      BY <3>1, <3>2 DEF RecordHasOneOwner
  <2>6. CASE RemoveVirtualReferences(t)
    <3>1. store' = store /\ rec' = Without(rec, t)
      BY <2>6 DEF RemoveVirtualReferences
    <3> QED
      BY <3>1, OwnersKept DEF Without
  <2>7. CASE \/ ProjectTypeReferences(t) \/ ProjectTypeDefinition(t) \/ ProjectFields(t)
             \/ ProjectMethods(t) \/ ProjectAttributeRecords(t)
    <3>1. t \in DOMAIN rec /\ DOMAIN rec[t] = RecordFields
      BY Zenon, <2>1, <2>7, ProjectTypeDefinitionShape
         DEF ProjectTypeReferences, ProjectFields, ProjectMethods, ProjectAttributeRecords, Passes
    <3>2. /\ store' = store
          /\ \/ rec' = rec \/ rec' = Without(rec, t)
             \/ \E x : rec' = [rec EXCEPT ![t].refs = x] \/ rec' = [rec EXCEPT ![t].types = x]
                       \/ rec' = [rec EXCEPT ![t].fields = x] \/ rec' = [rec EXCEPT ![t].methods = x]
                       \/ rec' = [rec EXCEPT ![t].attrs = x]
      <4>1. CASE ProjectTypeReferences(t)
        BY <4>1 DEF ProjectTypeReferences
      <4>2. CASE ProjectTypeDefinition(t)
        BY <4>2, ProjectTypeDefinitionShape
      <4>5. CASE ProjectFields(t) \/ ProjectMethods(t)
        BY <4>5 DEF ProjectFields, ProjectMethods
      <4>6. CASE ProjectAttributeRecords(t)
        BY <4>6 DEF ProjectAttributeRecords
      <4> QED
        BY <2>7, <4>1, <4>2, <4>5, <4>6
    <3> DEFINE Kept == /\ DOMAIN rec' \subseteq DOMAIN rec
                       /\ \A u \in DOMAIN rec' : rec'[u].serial = rec[u].serial
    <3>3. Kept
      <4>1. CASE rec' = rec \/ rec' = Without(rec, t)
        BY <4>1 DEF Without
      <4>2. ASSUME NEW x, \/ rec' = [rec EXCEPT ![t].refs = x] \/ rec' = [rec EXCEPT ![t].types = x]
                          \/ rec' = [rec EXCEPT ![t].fields = x] \/ rec' = [rec EXCEPT ![t].methods = x]
                          \/ rec' = [rec EXCEPT ![t].attrs = x]
            PROVE  Kept
        <5>1. "serial" \in DOMAIN rec[t]
          BY <3>1 DEF RecordFields
        <5> QED
          BY <3>1, <4>2, <5>1
      <4> HIDE DEF Kept
      <4> QED
        BY <3>2, <4>1, <4>2
    <3> QED
      BY ZenonT(60), <3>2, <3>3, OwnersKept
  <2>8. CASE RedirectType(t) \/ AppendGenerated(t)
    <3>1. /\ store' = store /\ t \in DOMAIN rec /\ rec'[t].serial = rec[t].serial
          /\ SameElsewhere(rec', rec, t)
      BY Zenon, <2>8, RedirectTypeChanges, AppendGeneratedChanges
    <3>2. DOMAIN rec' = DOMAIN rec /\ \A u \in DOMAIN rec' : rec'[u].serial = rec[u].serial
      BY Zenon, <3>1 DEF SameElsewhere
    <3> QED
      BY <3>1, <3>2, OwnersKept
  <2> QED
    BY <1>2, <2>2, <2>3, <2>4, <2>5, <2>6, <2>7, <2>8 DEF Continue
<1> QED
  BY <1>1, <1>2 DEF Next

(* No two threads, and no thread and the store, ever have one record: of      *)
(* concurrent removes of modules with one guid only one undoes it.            *)
THEOREM RecordsHaveOneOwner == Spec => []RecordHasOneOwner
<1>1. Init => RecordHasOneOwner
  BY DEF Init, RecordHasOneOwner
<1>2. TypeOK /\ RecordHasOneOwner /\ [Next]_vars => RecordHasOneOwner'
  BY OwnerNext
<1> QED
  BY <1>1, <1>2, TypesSound, PTL DEF Spec

-------------------------------------------------------------------------------
(* What a record says of the module it was made for.  Definition by          *)
(* definition, what removal would put back is what is on disk: what is        *)
(* recorded, or what the module holds where nothing is recorded.              *)

Alike(new, old) ==
    new.flags = old.flags /\ new.prefix = old.prefix /\ new.methods = old.methods

(* The methods of a list that were not added.                                *)
OwnMethods(ms, added) == Picked(ms, {k \in DOMAIN ms : ms[k] \notin added})

TypeRecorded(now, was, r, i) ==
    IF i \in DOMAIN r.types
    THEN /\ r.types[i].flags = was.types[i].flags /\ r.types[i].prefix = was.types[i].prefix
         /\ was.types[i].methods = IF "Redirect" \in r.types[i].treatment
                                   THEN OwnMethods(now.types[i].methods, r.types[i].added)
                                   ELSE now.types[i].methods
    ELSE Alike(now.types[i], was.types[i])
TypesRecorded(now, was, r) == \A i \in DOMAIN was.types : TypeRecorded(now, was, r, i)

BlobsRecorded(now, was, r) == \A i \in DOMAIN was.types : \A j \in DOMAIN was.types[i].attrs :
    was.types[i].attrs[j].blob = IF <<i, j>> \in DOMAIN r.attrs THEN r.attrs[<<i, j>>]
                                 ELSE now.types[i].attrs[j].blob

MethodsRecorded(now, was, r) == \A k \in DOMAIN was.methods :
    IF k \in DOMAIN r.methods
    THEN r.methods[k].access = was.methods[k].access /\ r.methods[k].flags = was.methods[k].flags
    ELSE now.methods[k].access = was.methods[k].access /\ now.methods[k].flags = was.methods[k].flags

FieldsRecorded(now, was, r) == \A f \in DOMAIN was.fields :
    /\ now.fields[f].value = was.fields[f].value
    /\ was.fields[f].access = IF f \in DOMAIN r.fields THEN r.fields[f] ELSE now.fields[f].access

Recorded(now, was, r) ==
    /\ TypesRecorded(now, was, r) /\ BlobsRecorded(now, was, r)
    /\ MethodsRecorded(now, was, r) /\ FieldsRecorded(now, was, r)

(* How far the record of an apply under way has come: types up to the one    *)
(* the pass is at, then fields, then methods, then attributes.               *)
OverTypes == {"references", "types", "closure", "rewire"}
Applying == OverTypes \cup {"methods", "attributes", "insert"}

Recording(t) ==
    LET r == rec[t]
        i == work[t].at
    IN  /\ pc[t] \in OverTypes => DOMAIN r.fields = {}
        /\ pc[t] \in OverTypes \cup {"methods"} => DOMAIN r.methods = {}
        /\ pc[t] \in OverTypes \cup {"methods", "attributes"} => DOMAIN r.attrs = {}
        /\ pc[t] \in OverTypes => \A j \in DOMAIN disk[t].types \cap DOMAIN r.types :
              j < i \/ (pc[t] = "rewire" /\ j = i)
        /\ pc[t] = "rewire" =>
              /\ i \in DOMAIN r.types /\ DOMAIN r.types[i] = {"flags", "prefix", "treatment", "pairs", "added"}
              /\ r.types[i].treatment = {"Redirect"}
              /\ mods[t].types[i].methods = disk[t].types[i].methods

(* The types of a removal under way: those it has passed are as on disk.     *)
Restoring(t) == \A i \in DOMAIN disk[t].types :
    IF i < work[t].at \/ (pc[t] = "unwire" /\ i = work[t].at)
    THEN Alike(mods[t].types[i], disk[t].types[i])
    ELSE TypeRecorded(mods[t], disk[t], rec[t], i)

TracedPlain(t) ==
    /\ pc[t] \in {"idle", "virtual"} => SameDefinitions(mods[t], disk[t])
    /\ pc[t] \in Applying => Recorded(mods[t], disk[t], rec[t]) /\ Recording(t)

TracedProjected(t) ==
    /\ pc[t] \in {"idle", "restore", "untypes", "unwire", "unvirtual"}
    /\ pc[t] = "idle" =>
          guid[t] \in DOMAIN store /\ Recorded(mods[t], disk[t], store[guid[t]])
    /\ pc[t] = "restore" => Recorded(mods[t], disk[t], rec[t])
    /\ pc[t] \in {"untypes", "unwire"} =>
          /\ Restoring(t) /\ SameBlobs(mods[t], disk[t])
          /\ SameMethods(mods[t], disk[t]) /\ SameFields(mods[t], disk[t])
    /\ pc[t] = "unvirtual" => SameDefinitions(mods[t], disk[t])

Even(t) == Len(log[t]) % 2 = 0

Traced(t) ==
    Sole(t) /\ Alternates(t) => IF Even(t) THEN TracedPlain(t) ELSE TracedProjected(t)

Outcomes == {"applied", "failed", "removed"}

EditsTraced == log \in [Threads -> Seq(Outcomes)] /\ \A t \in Threads : Traced(t)

LEMMA RecordedKept ==
  ASSUME NEW m, NEW n, NEW was, NEW r, SameShape(m, was)
  PROVE  /\ SameTypes(n, m) /\ TypesRecorded(m, was, r) => TypesRecorded(n, was, r)
         /\ SameBlobs(n, m) /\ BlobsRecorded(m, was, r) => BlobsRecorded(n, was, r)
         /\ SameMethods(n, m) /\ MethodsRecorded(m, was, r) => MethodsRecorded(n, was, r)
         /\ SameFields(n, m) /\ FieldsRecorded(m, was, r) => FieldsRecorded(n, was, r)
<1>1. SameTypes(n, m) /\ TypesRecorded(m, was, r) => TypesRecorded(n, was, r)
  BY DEF SameTypes, TypesRecorded, TypeRecorded, Alike, SameShape
<1>2. SameBlobs(n, m) /\ BlobsRecorded(m, was, r) => BlobsRecorded(n, was, r)
  BY DEF SameBlobs, BlobsRecorded, SameShape
<1>3. SameMethods(n, m) /\ MethodsRecorded(m, was, r) => MethodsRecorded(n, was, r)
  BY DEF SameMethods, MethodsRecorded, SameShape
<1>4. SameFields(n, m) /\ FieldsRecorded(m, was, r) => FieldsRecorded(n, was, r)
  BY DEF SameFields, FieldsRecorded, SameShape
<1> QED
  BY <1>1, <1>2, <1>3, <1>4

(* Parts of a record that changed where the definitions did not.             *)
LEMMA RecordReplaced ==
  ASSUME NEW m, NEW was, NEW r, NEW q
  PROVE  /\ q.types = r.types /\ TypesRecorded(m, was, r) => TypesRecorded(m, was, q)
         /\ q.attrs = r.attrs /\ BlobsRecorded(m, was, r) => BlobsRecorded(m, was, q)
         /\ q.methods = r.methods /\ MethodsRecorded(m, was, r) => MethodsRecorded(m, was, q)
         /\ q.fields = r.fields /\ FieldsRecorded(m, was, r) => FieldsRecorded(m, was, q)
<1>1. q.types = r.types /\ TypesRecorded(m, was, r) => TypesRecorded(m, was, q)
  BY DEF TypesRecorded, TypeRecorded
<1>2. q.attrs = r.attrs /\ BlobsRecorded(m, was, r) => BlobsRecorded(m, was, q)
  <2> SUFFICES ASSUME q.attrs = r.attrs, BlobsRecorded(m, was, r),
                      NEW i \in DOMAIN was.types, NEW j \in DOMAIN was.types[i].attrs
               PROVE  was.types[i].attrs[j].blob =
                        IF <<i, j>> \in DOMAIN q.attrs THEN q.attrs[<<i, j>>]
                        ELSE m.types[i].attrs[j].blob
    BY DEF BlobsRecorded
  <2> QED
    BY DEF BlobsRecorded
<1>3. q.methods = r.methods /\ MethodsRecorded(m, was, r) => MethodsRecorded(m, was, q)
  BY DEF MethodsRecorded
<1>4. q.fields = r.fields /\ FieldsRecorded(m, was, r) => FieldsRecorded(m, was, q)
  BY DEF FieldsRecorded
<1> QED
  BY <1>1, <1>2, <1>3, <1>4

LEMMA NothingRecorded ==
  ASSUME NEW m, NEW was, SameDefinitions(m, was), NEW r,
         DOMAIN r.types = {}, DOMAIN r.attrs = {}, DOMAIN r.methods = {}, DOMAIN r.fields = {}
  PROVE  Recorded(m, was, r)
BY DEF SameDefinitions, SameTypes, SameBlobs, SameMethods, SameFields,
       Recorded, TypesRecorded, TypeRecorded, Alike, BlobsRecorded, MethodsRecorded, FieldsRecorded

(* Taking back what was added.                                               *)
LEMMA NoneAdded ==
  ASSUME NEW ms, IsSequence(ms)
  PROVE  OwnMethods(ms, {}) = ms
<1>1. DOMAIN ms = 1..Len(ms) /\ Len(ms) \in Nat /\ ms = [n \in 1..Len(ms) |-> ms[n]]
  BY SequenceMeans
<1>2. OwnMethods(ms, {}) = Picked(ms, 1..Len(ms))
  BY <1>1 DEF OwnMethods
<1>3. Picked(ms, 1..Len(ms)) = [n \in 1..Len(ms) |-> ms[n]]
  BY <1>1, PickedPrefix
<1> QED
  BY <1>1, <1>2, <1>3

LEMMA AddedTaken ==
  ASSUME NEW ms, IsSequence(ms), NEW hs, IsSequence(hs), Range(ms) \cap Range(hs) = {}
  PROVE  OwnMethods(ms \o hs, Range(hs)) = ms
<1> DEFINE c == ms \o hs
           at == {k \in DOMAIN c : c[k] \notin Range(hs)}
<1>1. /\ IsSequence(c) /\ Len(c) = Len(ms) + Len(hs)
      /\ \A i \in DOMAIN ms : i \in DOMAIN c /\ c[i] = ms[i]
      /\ \A i \in DOMAIN c : \/ i \in DOMAIN ms
                             \/ i > Len(ms) /\ i - Len(ms) \in DOMAIN hs /\ c[i] = hs[i - Len(ms)]
  BY ConcatSequence
<1>2. /\ DOMAIN ms = 1..Len(ms) /\ Len(ms) \in Nat /\ ms = [n \in 1..Len(ms) |-> ms[n]]
      /\ Len(hs) \in Nat
  BY SequenceMeans
<1>3. OwnMethods(c, Range(hs)) = Picked(c, at)
  BY DEF OwnMethods
<1> HIDE DEF c
<1>4. at = 1..Len(ms)
  <2>1. ASSUME NEW i \in DOMAIN ms PROVE i \in at
    <3>1. ms[i] \in Range(ms)
      BY DEF Range
    <3> QED
      BY <1>1, <3>1
  <2>2. ASSUME NEW i \in at PROVE i \in DOMAIN ms
    <3>1. i \in DOMAIN c /\ c[i] \notin Range(hs)
      OBVIOUS
    <3> QED
      BY <1>1, <3>1 DEF Range
  <2> HIDE DEF at
  <2> QED
    BY <1>2, <2>1, <2>2
<1> HIDE DEF at
<1>5. Picked(c, at) = [n \in 1..Len(ms) |-> c[n]]
  <2>1. Len(ms) <= Len(c)
    BY <1>1, <1>2
  <2> QED
    BY <1>1, <1>2, <1>4, <2>1, PickedPrefix
<1>6. \A n \in 1..Len(ms) : c[n] = ms[n]
  BY <1>1, <1>2
<1> QED
  BY <1>2, <1>3, <1>5, <1>6 DEF c

(* What removal makes of a recorded type is the type on disk.                *)
LEMMA UnprojectedAlike ==
  ASSUME NEW m, NEW was, NEW r, NEW i \in DOMAIN r.types, IsType(m.types[i], m), TypeRecorded(m, was, r, i)
  PROVE  Alike(UnprojectedType(m.types[i], r.types[i]), was.types[i])
<1> DEFINE ty == m.types[i]
           new == UnprojectedType(ty, r.types[i])
<1>1. new.flags = r.types[i].flags /\ new.prefix = r.types[i].prefix
  BY UnprojectKeepsType
<1>2. new.methods = IF "Redirect" \in r.types[i].treatment
                    THEN OwnMethods(ty.methods, r.types[i].added) ELSE ty.methods
  BY DEF UnprojectedType, OwnMethods, IsType
<1> HIDE DEF new
<1> QED
  BY <1>1, <1>2 DEF TypeRecorded, Alike, new

-------------------------------------------------------------------------------
(* A step changes what its own thread owns, and the record under its guid.   *)

Frame(t, u) ==
    /\ mods'[u] = mods[u] /\ pc'[u] = pc[u] /\ work'[u] = work[u] /\ log'[u] = log[u]
    /\ u \in DOMAIN rec => rec'[u] = rec[u]
    /\ guid[u] # guid[t] /\ guid[u] \in DOMAIN store =>
          guid[u] \in DOMAIN store' /\ store'[guid[u]] = store[guid[u]]

LEMMA Framed ==
  ASSUME TypeOK, log \in [Threads -> Seq(Outcomes)], NEW t \in Threads, NEW u \in Threads \ {t},
         CheckNotApplied(t) \/ TakeRecord(t) \/ Reread(t) \/ Repair(t) \/ Continue(t)
  PROVE  Frame(t, u) /\ guid' = guid /\ disk' = disk
<1>1. /\ t # u /\ u \in Threads
      /\ DOMAIN mods = Threads /\ DOMAIN work = Threads /\ DOMAIN pc = Threads /\ DOMAIN log = Threads
  BY DEF TypeOK
<1>2. CASE CheckNotApplied(t)
  <2>1. mods'[u] = mods[u] /\ guid' = guid /\ disk' = disk
    BY <1>1, <1>2 DEF CheckNotApplied
  <2>2. pc'[u] = pc[u] /\ log'[u] = log[u]
    BY <1>1, <1>2 DEF CheckNotApplied, Goto, Declines
  <2>3. work'[u] = work[u]
    BY <1>1, <1>2 DEF CheckNotApplied
  <2>4. u \in DOMAIN rec => rec'[u] = rec[u]
    BY <1>1, <1>2 DEF CheckNotApplied, With, Without
  <2>5. guid[u] # guid[t] /\ guid[u] \in DOMAIN store =>
           guid[u] \in DOMAIN store' /\ store'[guid[u]] = store[guid[u]]
    BY <1>1, <1>2 DEF CheckNotApplied, With, Without
  <2> QED
    BY <2>1, <2>2, <2>3, <2>4, <2>5 DEF Frame
<1>3. CASE TakeRecord(t)
  <2>1. mods'[u] = mods[u] /\ guid' = guid /\ disk' = disk
    BY <1>1, <1>3 DEF TakeRecord
  <2>2. pc'[u] = pc[u] /\ log'[u] = log[u]
    BY <1>1, <1>3 DEF TakeRecord, Goto, Declines
  <2>3. work'[u] = work[u]
    BY <1>1, <1>3 DEF TakeRecord
  <2>4. u \in DOMAIN rec => rec'[u] = rec[u]
    BY <1>1, <1>3 DEF TakeRecord, With, Without
  <2>5. guid[u] # guid[t] /\ guid[u] \in DOMAIN store =>
           guid[u] \in DOMAIN store' /\ store'[guid[u]] = store[guid[u]]
    BY <1>1, <1>3 DEF TakeRecord, With, Without
  <2> QED
    BY <2>1, <2>2, <2>3, <2>4, <2>5 DEF Frame
<1>4. CASE Reread(t)
  BY <1>1, <1>4 DEF Reread, Frame
<1>5. CASE Repair(t)
  BY <1>1, <1>5 DEF Repair, Frame
<1>6. CASE AddVirtualReferences(t)
  <2>1. mods'[u] = mods[u] /\ guid' = guid /\ disk' = disk
    BY <1>1, <1>6 DEF AddVirtualReferences
  <2>2. pc'[u] = pc[u] /\ log'[u] = log[u]
    BY <1>1, <1>6 DEF AddVirtualReferences, Goto, Declines
  <2>3. work'[u] = work[u]
    BY <1>1, <1>6 DEF AddVirtualReferences
  <2>4. u \in DOMAIN rec => rec'[u] = rec[u]
    BY <1>1, <1>6 DEF AddVirtualReferences, With, Without
  <2>5. guid[u] # guid[t] /\ guid[u] \in DOMAIN store =>
           guid[u] \in DOMAIN store' /\ store'[guid[u]] = store[guid[u]]
    BY <1>1, <1>6 DEF AddVirtualReferences, With, Without
  <2> QED
    BY <2>1, <2>2, <2>3, <2>4, <2>5 DEF Frame
<1>7. CASE ProjectTypeReferences(t)
  BY <1>1, <1>7 DEF ProjectTypeReferences, Frame, Goto
<1>8. CASE ProjectTypeDefinition(t)
  <2>1. mods'[u] = mods[u] /\ guid' = guid /\ disk' = disk
    BY ZenonT(60), <1>1, <1>8, ProjectTypeDefinitionShape
  <2>2. pc'[u] = pc[u] /\ log'[u] = log[u]
    BY <1>1, <1>8, ProjectTypeDefinitionShape
  <2>3. work'[u] = work[u]
    BY ZenonT(60), <1>1, <1>8, ProjectTypeDefinitionShape
  <2>4. u \in DOMAIN rec => rec'[u] = rec[u]
    BY ZenonT(60), <1>1, <1>8, ProjectTypeDefinitionShape DEF With, Without
  <2>5. guid[u] # guid[t] /\ guid[u] \in DOMAIN store =>
           guid[u] \in DOMAIN store' /\ store'[guid[u]] = store[guid[u]]
    BY <1>1, <1>8, ProjectTypeDefinitionShape DEF With, Without
  <2> QED
    BY <2>1, <2>2, <2>3, <2>4, <2>5 DEF Frame
<1>9. CASE CollectInterface(t)
  <2>1. mods'[u] = mods[u] /\ guid' = guid /\ disk' = disk
    BY <1>1, <1>9, CollectInterfaceChanges DEF SameElsewhere
  <2>2. pc'[u] = pc[u] /\ log'[u] = log[u]
    BY <1>1, <1>9, CollectInterfaceChanges DEF SameElsewhere
  <2>3. work'[u] = work[u]
    BY <1>1, <1>9, CollectInterfaceChanges DEF SameElsewhere
  <2>4. u \in DOMAIN rec => rec'[u] = rec[u]
    BY <1>1, <1>9, CollectInterfaceChanges DEF SameElsewhere, With, Without
  <2>5. guid[u] # guid[t] /\ guid[u] \in DOMAIN store =>
           guid[u] \in DOMAIN store' /\ store'[guid[u]] = store[guid[u]]
    BY <1>1, <1>9, CollectInterfaceChanges DEF SameElsewhere, With, Without
  <2> QED
    BY <2>1, <2>2, <2>3, <2>4, <2>5 DEF Frame
<1>10. CASE RedirectType(t)
  <2>1. mods'[u] = mods[u] /\ guid' = guid /\ disk' = disk
    BY <1>1, <1>10, RedirectTypeChanges DEF SameElsewhere
  <2>2. pc'[u] = pc[u] /\ log'[u] = log[u]
    BY <1>1, <1>10, RedirectTypeChanges DEF SameElsewhere
  <2>3. work'[u] = work[u]
    BY <1>1, <1>10, RedirectTypeChanges DEF SameElsewhere
  <2>4. u \in DOMAIN rec => rec'[u] = rec[u]
    BY <1>1, <1>10, RedirectTypeChanges DEF SameElsewhere, With, Without
  <2>5. guid[u] # guid[t] /\ guid[u] \in DOMAIN store =>
           guid[u] \in DOMAIN store' /\ store'[guid[u]] = store[guid[u]]
    BY <1>1, <1>10, RedirectTypeChanges DEF SameElsewhere, With, Without
  <2> QED
    BY <2>1, <2>2, <2>3, <2>4, <2>5 DEF Frame
<1>11. CASE RewirePair(t)
  BY <1>1, <1>11, RewirePairShape DEF Frame
<1>12. CASE AppendGenerated(t)
  <2>1. mods'[u] = mods[u] /\ guid' = guid /\ disk' = disk
    BY <1>1, <1>12, AppendGeneratedChanges DEF SameElsewhere
  <2>2. pc'[u] = pc[u] /\ log'[u] = log[u]
    BY <1>1, <1>12, AppendGeneratedChanges DEF SameElsewhere
  <2>3. work'[u] = work[u]
    BY <1>1, <1>12, AppendGeneratedChanges DEF SameElsewhere
  <2>4. u \in DOMAIN rec => rec'[u] = rec[u]
    BY <1>1, <1>12, AppendGeneratedChanges DEF SameElsewhere, With, Without
  <2>5. guid[u] # guid[t] /\ guid[u] \in DOMAIN store =>
           guid[u] \in DOMAIN store' /\ store'[guid[u]] = store[guid[u]]
    BY <1>1, <1>12, AppendGeneratedChanges DEF SameElsewhere, With, Without
  <2> QED
    BY <2>1, <2>2, <2>3, <2>4, <2>5 DEF Frame
<1>13. CASE ProjectFields(t)
  BY <1>1, <1>13 DEF ProjectFields, Frame, Goto
<1>14. CASE ProjectMethods(t)
  BY <1>1, <1>14 DEF ProjectMethods, Frame, Goto
<1>15. CASE ProjectAttributeRecords(t)
  <2>1. mods'[u] = mods[u] /\ guid' = guid /\ disk' = disk
    BY <1>1, <1>15 DEF ProjectAttributeRecords
  <2>2. pc'[u] = pc[u] /\ log'[u] = log[u]
    BY <1>1, <1>15 DEF ProjectAttributeRecords, Goto, Returns
  <2>3. work'[u] = work[u]
    BY <1>1, <1>15 DEF ProjectAttributeRecords
  <2>4. u \in DOMAIN rec => rec'[u] = rec[u]
    BY <1>1, <1>15 DEF ProjectAttributeRecords, With, Without
  <2>5. guid[u] # guid[t] /\ guid[u] \in DOMAIN store =>
           guid[u] \in DOMAIN store' /\ store'[guid[u]] = store[guid[u]]
    BY <1>1, <1>15 DEF ProjectAttributeRecords, With, Without
  <2> QED
    BY <2>1, <2>2, <2>3, <2>4, <2>5 DEF Frame
<1>16. CASE InsertRecord(t)
  BY <1>1, <1>16 DEF InsertRecord, Frame, Returns, With, Without
<1>17. CASE RestoreMembers(t)
  BY <1>1, <1>17 DEF RestoreMembers, Frame, Goto
<1>18. CASE RestoreType(t)
  <2>1. mods'[u] = mods[u] /\ guid' = guid /\ disk' = disk
    BY <1>1, <1>18, RestoreTypeShape
  <2>2. pc'[u] = pc[u] /\ log'[u] = log[u]
    BY <1>1, <1>18, RestoreTypeShape
  <2>3. work'[u] = work[u]
    BY <1>1, <1>18, RestoreTypeShape
  <2>4. u \in DOMAIN rec => rec'[u] = rec[u]
    BY <1>1, <1>18, RestoreTypeShape DEF With, Without
  <2>5. guid[u] # guid[t] /\ guid[u] \in DOMAIN store =>
           guid[u] \in DOMAIN store' /\ store'[guid[u]] = store[guid[u]]
    BY <1>1, <1>18, RestoreTypeShape DEF With, Without
  <2> QED
    BY <2>1, <2>2, <2>3, <2>4, <2>5 DEF Frame
<1>19. CASE UnwirePair(t)
  <2>1. mods'[u] = mods[u] /\ guid' = guid /\ disk' = disk
    BY <1>1, <1>19, UnwirePairChanges DEF SameElsewhere
  <2>2. pc'[u] = pc[u] /\ log'[u] = log[u]
    BY <1>1, <1>19, UnwirePairChanges DEF SameElsewhere
  <2>3. work'[u] = work[u]
    BY <1>1, <1>19, UnwirePairChanges DEF SameElsewhere
  <2>4. u \in DOMAIN rec => rec'[u] = rec[u]
    BY <1>1, <1>19, UnwirePairChanges DEF SameElsewhere, With, Without
  <2>5. guid[u] # guid[t] /\ guid[u] \in DOMAIN store =>
           guid[u] \in DOMAIN store' /\ store'[guid[u]] = store[guid[u]]
    BY <1>1, <1>19, UnwirePairChanges DEF SameElsewhere, With, Without
  <2> QED
    BY <2>1, <2>2, <2>3, <2>4, <2>5 DEF Frame
<1>20. CASE TypeRestored(t)
  BY <1>1, <1>20 DEF TypeRestored, Frame, Goto
<1>21. CASE RestoreTypeReferences(t)
  BY <1>1, <1>21 DEF RestoreTypeReferences, Frame, Goto
<1>22. CASE RemoveVirtualReferences(t)
  BY <1>1, <1>22 DEF RemoveVirtualReferences, Frame, Returns, With, Without
<1> QED
  BY <1>2, <1>3, <1>4, <1>5, <1>6, <1>7, <1>8, <1>9, <1>10, <1>11, <1>12, <1>13,
     <1>14, <1>15, <1>16, <1>17, <1>18, <1>19, <1>20, <1>21, <1>22 DEF Continue

-------------------------------------------------------------------------------
(* The log of outcomes.                                                      *)

LEMMA Parity ==
  ASSUME NEW n \in Nat
  PROVE  /\ (n + 1) % 2 = 1 <=> n % 2 = 0
         /\ (n + 1) % 2 = 0 <=> ~(n % 2 = 0)
<1>1. n % 2 \in {0, 1} /\ n = 2 * (n \div 2) + (n % 2) /\ n \div 2 \in Nat
  OBVIOUS
<1>2. /\ (n + 1) % 2 \in {0, 1} /\ n + 1 = 2 * ((n + 1) \div 2) + ((n + 1) % 2)
      /\ (n + 1) \div 2 \in Nat
  OBVIOUS
<1> QED
  BY <1>1, <1>2

LEMMA OutcomeLogged ==
  ASSUME NEW t \in Threads, log[t] \in Seq(Outcomes), NEW x \in Outcomes,
         log'[t] = Append(log[t], x)
  PROVE  /\ log'[t] \in Seq(Outcomes)
         /\ Alternates(t)' => /\ Alternates(t)
                              /\ x = IF Even(t) THEN "applied" ELSE "removed"
                              /\ Even(t)' <=> ~Even(t)
<1> DEFINE old == log[t]
           new == log'[t]
           n == Len(old)
<1>1. /\ new \in Seq(Outcomes) /\ n \in Nat /\ Len(new) = n + 1
      /\ DOMAIN old = 1..n /\ DOMAIN new = 1..n + 1
      /\ \A k \in 1..n : new[k] = old[k]
      /\ new[n + 1] = x
  OBVIOUS
<1>2. /\ Alternates(t) <=> \A k \in DOMAIN old : old[k] = IF k % 2 = 1 THEN "applied" ELSE "removed"
      /\ Alternates(t)' <=> \A k \in DOMAIN new : new[k] = IF k % 2 = 1 THEN "applied" ELSE "removed"
      /\ Even(t) <=> n % 2 = 0
      /\ Even(t)' <=> Len(new) % 2 = 0
  BY DEF Alternates, Even
<1> HIDE DEF old, new, n
<1>3. ASSUME Alternates(t)'
      PROVE  /\ \A k \in DOMAIN old : old[k] = IF k % 2 = 1 THEN "applied" ELSE "removed"
             /\ x = IF (n + 1) % 2 = 1 THEN "applied" ELSE "removed"
  <2>1. \A k \in DOMAIN old : k \in DOMAIN new /\ new[k] = old[k]
    BY <1>1
  <2>2. n + 1 \in DOMAIN new
    BY <1>1
  <2> QED
    BY <1>1, <1>2, <1>3, <2>1, <2>2
<1>4. /\ (n + 1) % 2 = 1 <=> n % 2 = 0
      /\ (n + 1) % 2 = 0 <=> ~(n % 2 = 0)
  BY <1>1, Parity
<1>5. Alternates(t)' => /\ Alternates(t)
                        /\ x = IF Even(t) THEN "applied" ELSE "removed"
                        /\ Even(t)' <=> ~Even(t)
  BY <1>1, <1>2, <1>3, <1>4
<1> QED
  BY <1>1, <1>5 DEF new

(* A pass of an apply and a pass of a removal, neither the last.             *)
LEMMA ApplyingStep ==
  ASSUME NEW t \in Threads, Traced(t), guid' = guid, log'[t] = log[t],
         pc[t] \in Applying \cup {"virtual"},
         Sole(t) /\ Even(t) /\ TracedPlain(t) => TracedPlain(t)'
  PROVE  Traced(t)'
<1>1. pc[t] \notin {"idle", "restore", "untypes", "unwire", "unvirtual"}
  BY DEF Applying, OverTypes
<1>2. /\ Sole(t)' <=> Sole(t)
      /\ Alternates(t)' <=> Alternates(t)
  BY DEF Sole, Alternates
<1>3. Even(t)' <=> Even(t)
  BY DEF Even
<1>4. Sole(t) /\ Alternates(t) => Even(t) /\ TracedPlain(t)
  BY <1>1 DEF Traced, TracedProjected
<1> QED
  BY <1>2, <1>3, <1>4 DEF Traced

Removing == {"restore", "untypes", "unwire", "unvirtual"}

LEMMA RemovingStep ==
  ASSUME NEW t \in Threads, Traced(t), guid' = guid, log'[t] = log[t],
         pc[t] \in Removing, pc'[t] \in Removing,
         TracedProjected(t) => TracedProjected(t)'
  PROVE  Traced(t)'
<1>1. pc'[t] \notin Applying \cup {"idle", "virtual"}
  BY DEF Applying, OverTypes, Removing
<1>2. /\ Sole(t)' <=> Sole(t)
      /\ Alternates(t)' <=> Alternates(t)
  BY DEF Sole, Alternates
<1>3. Even(t)' <=> Even(t)
  BY DEF Even
<1>4. TracedPlain(t)'
  BY <1>1 DEF TracedPlain
<1> QED
  BY <1>2, <1>3, <1>4 DEF Traced

(* The threads that do not take the step.                                    *)
LEMMA OthersTraced ==
  ASSUME TypeOK, EditsTraced, NEW t \in Threads, NEW u \in Threads \ {t},
         Frame(t, u), guid' = guid, disk' = disk
  PROVE  Traced(u)'
<1>1. /\ Sole(u)' <=> Sole(u)
      /\ Alternates(u)' <=> Alternates(u)
      /\ Even(u)' <=> Even(u)
  BY DEF Sole, Alternates, Even, Frame
<1>2. Sole(u) => guid[u] # guid[t]
  BY DEF Sole
<1>3. /\ mods'[u] = mods[u] /\ pc'[u] = pc[u] /\ work'[u] = work[u] /\ disk'[u] = disk[u]
      /\ pc[u] \in Passes => rec'[u] = rec[u]
  BY DEF Frame, TypeOK
<1>4. Traced(u)
  BY DEF EditsTraced
<1>5. /\ Applying \subseteq Passes /\ OverTypes \subseteq Applying
      /\ {"methods", "attributes", "restore", "untypes", "unwire", "unvirtual"} \subseteq Passes
  BY DEF Applying, OverTypes, Passes
<1>6. TracedPlain(u) => TracedPlain(u)'
  <2> SUFFICES ASSUME TracedPlain(u) PROVE TracedPlain(u)'
    OBVIOUS
  <2>1. pc[u] \in Applying => Recorded(mods[u], disk[u], rec[u])'
    BY <1>3, <1>5 DEF TracedPlain
  <2>2. pc[u] \in Applying => Recording(u)'
    BY <1>3, <1>5 DEF TracedPlain, Recording
  <2>3. SameDefinitions(mods'[u], disk'[u]) <=> SameDefinitions(mods[u], disk[u])
    BY <1>3
  <2> QED
    BY <1>3, <2>1, <2>2, <2>3 DEF TracedPlain
<1>7. ASSUME Sole(u), TracedProjected(u) PROVE TracedProjected(u)'
  <2>1. pc[u] = "idle" => guid'[u] \in DOMAIN store' /\ Recorded(mods'[u], disk'[u], store'[guid'[u]])
    BY <1>2, <1>3, <1>7 DEF TracedProjected, Frame
  <2>2. pc[u] = "restore" => Recorded(mods'[u], disk'[u], rec'[u])
    BY <1>3, <1>5, <1>7 DEF TracedProjected
  <2>3. pc[u] \in {"untypes", "unwire"} => Restoring(u)'
    BY <1>3, <1>5, <1>7 DEF TracedProjected, Restoring
  <2> QED
    BY <1>3, <1>7, <2>1, <2>2, <2>3 DEF TracedProjected
<1> QED
  BY <1>1, <1>4, <1>6, <1>7 DEF Traced

-------------------------------------------------------------------------------
(* An apply keeps its record true to the module, pass by pass.               *)

LEMMA TracedContext ==
  ASSUME TypeOK, EditsTraced, NEW t \in Threads
  PROVE  /\ Traced(t) /\ log[t] \in Seq(Outcomes)
         /\ IsModule(mods[t]) /\ IsModule(disk[t]) /\ SameShape(mods[t], disk[t])
         /\ DOMAIN mods = Threads /\ DOMAIN work = Threads /\ DOMAIN pc = Threads
         /\ DOMAIN log = Threads
         /\ DOMAIN rec = {u \in Threads : pc[u] \in Passes}
         /\ pc[t] \in Passes => DOMAIN rec[t] = RecordFields
         /\ DOMAIN mods[t].types = DOMAIN disk[t].types
         /\ \A i \in DOMAIN mods[t].types : i \in Nat
<1>1. \A i \in DOMAIN mods[t].types : i \in Nat
  BY SequenceMeans DEF TypeOK, IsModule
<1>2. pc[t] \in Passes => DOMAIN rec[t] = RecordFields
  BY DEF TypeOK, Range
<1> QED
  BY <1>1, <1>2 DEF EditsTraced, TypeOK, SameShape

LEMMA RecordingPass ==
  ASSUME NEW t \in Threads, pc'[t] \in Applying,
         Recorded(mods'[t], disk'[t], rec'[t]), Recording(t)'
  PROVE  TracedPlain(t)'
<1>1. pc'[t] \notin {"idle", "virtual"}
  BY DEF Applying, OverTypes
<1> QED
  BY <1>1 DEF TracedPlain

LEMMA AddVirtualReferencesTraced ==
  ASSUME TypeOK, EditsTraced, NEW t \in Threads, AddVirtualReferences(t)
  PROVE  Traced(t)'
<1>1. /\ Traced(t) /\ SameShape(mods[t], disk[t]) /\ DOMAIN work = Threads /\ DOMAIN pc = Threads
      /\ DOMAIN rec = {u \in Threads : pc[u] \in Passes}
  BY TracedContext
<1>2. SameShape(mods'[t], mods[t]) /\ SameDefinitions(mods'[t], mods[t])
  BY AddVirtualReferencesEffect
<1>3. /\ guid' = guid /\ disk' = disk /\ log' = log /\ pc[t] = "virtual"
      /\ \/ mods' = mods /\ pc' = [pc EXCEPT ![t] = "idle"]
         \/ /\ \E v, n : rec' = With(rec, t, EmptyRecord(v, n))
            /\ work' = [work EXCEPT ![t] = AtRest] /\ pc' = [pc EXCEPT ![t] = "references"]
  BY DEF AddVirtualReferences, Goto, Declines
<1>4. ASSUME TracedPlain(t) PROVE TracedPlain(t)'
  <2>1. SameDefinitions(mods[t], disk[t])
    BY <1>3, <1>4 DEF TracedPlain
  <2>2. CASE mods' = mods /\ pc' = [pc EXCEPT ![t] = "idle"]
    BY <1>1, <1>3, <2>1, <2>2 DEF TracedPlain, Applying, OverTypes
  <2>3. ASSUME NEW v, NEW n, rec' = With(rec, t, EmptyRecord(v, n)),
               work' = [work EXCEPT ![t] = AtRest], pc' = [pc EXCEPT ![t] = "references"]
        PROVE  TracedPlain(t)'
    <3>1. SameDefinitions(mods'[t], disk'[t])
      BY <1>1, <1>2, <1>3, <2>1, SameTransitive DEF SameDefinitions
    <3>2. /\ DOMAIN rec'[t].types = {} /\ DOMAIN rec'[t].attrs = {}
          /\ DOMAIN rec'[t].methods = {} /\ DOMAIN rec'[t].fields = {}
      BY <2>3 DEF With, EmptyRecord
    <3>3. Recorded(mods'[t], disk'[t], rec'[t])
      BY <3>1, <3>2, NothingRecorded
    <3>4. pc'[t] = "references"
      BY <1>1, <2>3
    <3>5. Recording(t)'
      BY <3>2, <3>4 DEF Recording
    <3> QED
      BY <3>3, <3>4, <3>5, RecordingPass DEF Applying, OverTypes
  <2> QED
    BY <1>3, <2>2, <2>3
<1> QED
  BY <1>1, <1>3, <1>4, ApplyingStep

LEMMA ProjectTypeReferencesTraced ==
  ASSUME TypeOK, EditsTraced, NEW t \in Threads, ProjectTypeReferences(t)
  PROVE  Traced(t)'
<1>1. /\ Traced(t) /\ SameShape(mods[t], disk[t]) /\ DOMAIN pc = Threads
      /\ DOMAIN rec = {u \in Threads : pc[u] \in Passes}
      /\ pc[t] \in Passes => DOMAIN rec[t] = RecordFields
  BY TracedContext
<1>2. SameDefinitions(mods'[t], mods[t])
  BY ProjectTypeReferencesEffect
<1>3. /\ guid' = guid /\ disk' = disk /\ log' = log /\ pc[t] = "references"
      /\ \E x : rec' = [rec EXCEPT ![t].refs = x]
      /\ work' = work /\ pc' = [pc EXCEPT ![t] = "types"]
  BY DEF ProjectTypeReferences, Goto
<1>4. pc'[t] = "types" /\ t \in DOMAIN rec /\ DOMAIN rec[t] = RecordFields
  BY <1>1, <1>3 DEF Passes
<1>5. /\ rec'[t].types = rec[t].types /\ rec'[t].fields = rec[t].fields
      /\ rec'[t].methods = rec[t].methods /\ rec'[t].attrs = rec[t].attrs
  BY <1>3, <1>4 DEF RecordFields
<1>6. ASSUME TracedPlain(t) PROVE TracedPlain(t)'
  <2>1. Recorded(mods[t], disk[t], rec[t]) /\ Recording(t)
    BY <1>3, <1>6 DEF TracedPlain, Applying, OverTypes
  <2>2. Recorded(mods'[t], disk[t], rec[t])
    BY <1>1, <1>2, <2>1, RecordedKept DEF Recorded, SameDefinitions
  <2>3. Recorded(mods'[t], disk'[t], rec'[t])
    BY <1>3, <1>5, <2>2, RecordReplaced DEF Recorded
  <2>4. Recording(t)'
    BY <1>3, <1>4, <1>5, <2>1 DEF Recording, OverTypes
  <2> QED
    BY <1>4, <2>3, <2>4, RecordingPass DEF Applying, OverTypes
<1> QED
  BY <1>1, <1>3, <1>6, ApplyingStep DEF Applying, OverTypes

(* One type goes through, with or without a record of it.                    *)
LEMMA TypePassed ==
  ASSUME NEW m, NEW n, NEW was, NEW i \in DOMAIN was.types, OneType(n, m, i),
         NEW r, NEW q, Recorded(m, was, r),
         DOMAIN m.types = DOMAIN was.types,
         q.attrs = r.attrs, q.methods = r.methods, q.fields = r.fields,
         \A j \in DOMAIN was.types : j # i => /\ j \in DOMAIN q.types <=> j \in DOMAIN r.types
                                              /\ q.types[j] = r.types[j] \/ j \notin DOMAIN r.types,
         TypeRecorded(n, was, q, i)
  PROVE  Recorded(n, was, q)
<1>1. TypesRecorded(n, was, q)
  <2> SUFFICES ASSUME NEW j \in DOMAIN was.types PROVE TypeRecorded(n, was, q, j)
    BY DEF TypesRecorded
  <2>1. CASE j = i
    BY <2>1
  <2>2. CASE j # i
    <3>1. TypeRecorded(m, was, r, j) /\ n.types[j] = m.types[j]
      BY <2>2 DEF Recorded, TypesRecorded, OneType
    <3> QED
      BY <2>2, <3>1 DEF TypeRecorded
  <2> QED
    BY <2>1, <2>2
<1>2. \A j \in DOMAIN was.types : n.types[j].attrs = m.types[j].attrs
  BY DEF OneType
<1>3. BlobsRecorded(n, was, r)
  BY ZenonT(60), <1>2 DEF Recorded, BlobsRecorded
<1>4. MethodsRecorded(n, was, r) /\ FieldsRecorded(n, was, r)
  BY DEF Recorded, MethodsRecorded, FieldsRecorded, OneType
<1> QED
  BY <1>1, <1>3, <1>4, RecordReplaced DEF Recorded

(* One type is recorded and edited, its list of methods left alone.          *)
LEMMA TypeNoted ==
  ASSUME NEW m, IsModule(m), NEW n, NEW was, NEW i \in DOMAIN was.types, OneType(n, m, i),
         DOMAIN m.types = DOMAIN was.types,
         NEW r, NEW q, Recorded(m, was, r), i \notin DOMAIN r.types,
         q.attrs = r.attrs, q.methods = r.methods, q.fields = r.fields,
         NEW treatment, NEW pairs,
         q.types = With(r.types, i, TypeRecord(m.types[i], treatment, pairs, {}))
  PROVE  Recorded(n, was, q)
<1>1. \A j \in DOMAIN was.types : j # i => /\ j \in DOMAIN q.types <=> j \in DOMAIN r.types
                                           /\ q.types[j] = r.types[j]
                                              \/ j \notin DOMAIN r.types
  BY DEF With
<1>2. /\ i \in DOMAIN q.types
      /\ q.types[i] = TypeRecord(m.types[i], treatment, pairs, {})
  BY DEF With
<1>3. Alike(m.types[i], was.types[i]) /\ IsType(m.types[i], m)
  BY DEF Recorded, TypesRecorded, TypeRecorded, IsModule
<1>4. OwnMethods(n.types[i].methods, {}) = n.types[i].methods
  BY <1>3, NoneAdded DEF OneType, IsType
<1>5. /\ q.types[i].flags = m.types[i].flags /\ q.types[i].prefix = m.types[i].prefix
      /\ q.types[i].added = {}
  <2>1. q.types[i] = [flags |-> m.types[i].flags, prefix |-> m.types[i].prefix,
                      treatment |-> treatment, pairs |-> pairs, added |-> {}]
    BY <1>2 DEF TypeRecord
  <2> DEFINE x == q.types[i]
  <2> HIDE DEF x
  <2>2. x.flags = m.types[i].flags /\ x.prefix = m.types[i].prefix /\ x.added = {}
    BY <2>1 DEF x
  <2> QED
    BY <2>2 DEF x
<1>6. TypeRecorded(n, was, q, i)
  BY <1>2, <1>3, <1>4, <1>5 DEF TypeRecorded, Alike, OneType
<1> QED
  BY <1>1, <1>6, TypePassed

(* Where the pass over the types goes on to the next one.                    *)
LEMMA NextType ==
  ASSUME NEW t \in Threads, pc'[t] = "types", disk' = disk,
         \A i \in DOMAIN disk[t].types : i \in Nat,
         work[t].at \in DOMAIN disk[t].types,
         work'[t].at = work[t].at + 1,
         rec'[t].attrs = rec[t].attrs, rec'[t].methods = rec[t].methods,
         rec'[t].fields = rec[t].fields,
         \A j \in DOMAIN disk[t].types : j \in DOMAIN rec'[t].types =>
            j \in DOMAIN rec[t].types \/ j = work[t].at,
         Recorded(mods'[t], disk'[t], rec'[t]),
         pc[t] \in OverTypes, Recording(t)
  PROVE  TracedPlain(t)'
<1> DEFINE i == work[t].at
<1>1. \A j \in DOMAIN disk[t].types \cap DOMAIN rec[t].types : j <= i
  BY DEF Recording
<1>2. \A j \in DOMAIN disk'[t].types \cap DOMAIN rec'[t].types : j < work'[t].at
  BY <1>1
<1>3. DOMAIN rec[t].fields = {} /\ DOMAIN rec[t].methods = {} /\ DOMAIN rec[t].attrs = {}
  BY DEF Recording
<1>4. Recording(t)'
  BY <1>2, <1>3 DEF Recording
<1> QED
  BY <1>4, RecordingPass DEF Applying, OverTypes

LEMMA ProjectTypeDefinitionTraced ==
  ASSUME TypeOK, EditsTraced, NEW t \in Threads, ProjectTypeDefinition(t)
  PROVE  Traced(t)'
<1> DEFINE m == mods[t]
           i == work[t].at
           ty == m.types[i]
           treatment == TypeTreatment(m, ty, rec[t].refs)
<1>1. /\ Traced(t) /\ IsModule(m) /\ SameShape(m, disk[t])
      /\ DOMAIN work = Threads /\ DOMAIN pc = Threads
      /\ DOMAIN rec = {u \in Threads : pc[u] \in Passes}
      /\ pc[t] \in Passes => DOMAIN rec[t] = RecordFields
      /\ DOMAIN m.types = DOMAIN disk[t].types
      /\ \A k \in DOMAIN m.types : k \in Nat
  BY TracedContext
<1>2. /\ i \in DOMAIN m.types
      /\ "Redirect" \in treatment => mods' = mods
      /\ "Redirect" \notin treatment =>
            OneType(mods'[t], m, i) /\ mods'[t].types[i] = EditedType(ty, treatment)
  BY ProjectTypeDefinitionEffect
<1>3. /\ guid' = guid /\ disk' = disk /\ log' = log /\ pc[t] = "types"
      /\ \/ /\ "Redirect" \in treatment /\ rec' = rec
            /\ \E s : work' = [work EXCEPT ![t] = [AtRest EXCEPT !.at = i, !.stack = s]]
            /\ pc' = [pc EXCEPT ![t] = "closure"]
         \/ /\ "Redirect" \notin treatment /\ work' = [work EXCEPT ![t].at = i + 1]
            /\ rec' = IF treatment = {} THEN rec
                      ELSE [rec EXCEPT ![t].types = With(@, i, TypeRecord(ty, treatment, <<>>, {}))]
            /\ pc' = pc
  BY Zenon DEF ProjectTypeDefinition, Goto
<1>4. t \in DOMAIN rec /\ DOMAIN rec[t] = RecordFields /\ DOMAIN work[t] = DOMAIN AtRest
  BY <1>1, <1>3 DEF Passes, TypeOK, WorkOK
<1> HIDE DEF treatment
<1>5. ASSUME TracedPlain(t) PROVE TracedPlain(t)'
  <2>1. Recorded(m, disk[t], rec[t]) /\ Recording(t)
    BY <1>3, <1>5 DEF TracedPlain, Applying, OverTypes
  <2>2. i \notin DOMAIN rec[t].types
    <3>1. i \in Nat /\ i \in DOMAIN disk[t].types
      BY <1>1, <1>2
    <3>2. pc[t] = "types"
      BY <1>3
    <3>3. \A j \in DOMAIN disk[t].types \cap DOMAIN rec[t].types : j < i
      BY <2>1, <3>2 DEF Recording, OverTypes
    <3> QED
      BY <3>1, <3>3
  <2>3. CASE "Redirect" \in treatment
    <3>1. /\ rec' = rec /\ mods' = mods /\ pc' = [pc EXCEPT ![t] = "closure"]
          /\ \E s : work' = [work EXCEPT ![t] = [AtRest EXCEPT !.at = i, !.stack = s]]
      BY <1>2, <1>3, <2>3
    <3>2. pc'[t] = "closure" /\ work'[t].at = work[t].at
      BY ZenonT(60), <1>1, <3>1 DEF AtRest
    <3>3. Recording(t)'
      BY <1>3, <2>1, <3>1, <3>2 DEF Recording, OverTypes
    <3>4. Recorded(mods'[t], disk'[t], rec'[t])
      BY <1>3, <2>1, <3>1
    <3> QED
      BY ZenonT(60), <3>2, <3>3, <3>4, RecordingPass DEF Applying, OverTypes
  <2>4. CASE "Redirect" \notin treatment
    <3>1. OneType(mods'[t], m, i) /\ mods'[t].types[i] = EditedType(ty, treatment)
      BY <1>2, <2>4
    <3>2. pc'[t] = "types" /\ work'[t].at = work[t].at + 1
      BY ZenonT(60), <1>1, <1>3, <1>4, <2>4 DEF AtRest
    <3>3. CASE treatment = {}
      <4>1. rec' = rec
        BY <1>3, <2>4, <3>3
      <4>2. IsType(ty, m) /\ Alike(ty, disk[t].types[i])
        BY <1>1, <1>2, <2>1, <2>2 DEF IsModule, Recorded, TypesRecorded, TypeRecorded
      <4>3. Alike(mods'[t].types[i], disk[t].types[i])
        BY <3>1, <3>3, <4>2, UntreatedType, EditKeepsType DEF Alike
      <4>4. TypeRecorded(mods'[t], disk[t], rec[t], i)
        BY <2>2, <4>3 DEF TypeRecorded
      <4>5. Recorded(mods'[t], disk[t], rec[t])
        BY <1>1, <1>2, <2>1, <3>1, <4>4, TypePassed
      <4> QED
        BY <1>1, <1>2, <1>3, <2>1, <3>2, <4>1, <4>5, NextType DEF OverTypes
    <3>4. CASE treatment # {}
      <4>1. rec' = [rec EXCEPT ![t].types = With(@, i, TypeRecord(ty, treatment, <<>>, {}))]
        BY <1>3, <2>4, <3>4
      <4>2. /\ rec'[t].types = With(rec[t].types, i, TypeRecord(ty, treatment, <<>>, {}))
            /\ rec'[t].attrs = rec[t].attrs /\ rec'[t].methods = rec[t].methods
            /\ rec'[t].fields = rec[t].fields
        BY <1>4, <4>1 DEF RecordFields
      <4>3. Recorded(mods'[t], disk[t], rec'[t])
        BY <1>1, <1>2, <2>1, <2>2, <3>1, <4>2, TypeNoted
      <4>4. \A j : j \in DOMAIN rec'[t].types => j \in DOMAIN rec[t].types \/ j = i
        BY <4>2 DEF With
      <4> QED
        BY Zenon, <1>1, <1>2, <1>3, <2>1, <3>2, <4>2, <4>3, <4>4, NextType DEF OverTypes
    <3> QED
      BY <3>3, <3>4
  <2> QED
    BY <2>3, <2>4
<1> QED
  BY <1>1, <1>3, <1>5, ApplyingStep DEF Applying, OverTypes

LEMMA CollectInterfaceTraced ==
  ASSUME TypeOK, EditsTraced, NEW t \in Threads, CollectInterface(t)
  PROVE  Traced(t)'
<1>1. Traced(t) /\ DOMAIN work = Threads
  BY Zenon, TracedContext
<1>2. /\ guid' = guid /\ disk' = disk /\ log' = log /\ mods' = mods /\ pc' = pc /\ rec' = rec
      /\ pc[t] = "closure"
  BY Zenon DEF CollectInterface
<1>3. work'[t].at = work[t].at
  <2>1. DOMAIN work[t] = DOMAIN AtRest
    BY DEF TypeOK, WorkOK
  <2> QED
    BY Zenon, <1>1, <2>1 DEF CollectInterface, AtRest
<1>4. TracedPlain(t) => TracedPlain(t)'
  BY <1>2, <1>3 DEF TracedPlain, Recording, Applying, OverTypes
<1> QED
  BY <1>1, <1>2, <1>4, ApplyingStep DEF Applying, OverTypes

LEMMA RedirectTypeTraced ==
  ASSUME TypeOK, EditsTraced, NEW t \in Threads, RedirectType(t)
  PROVE  Traced(t)'
<1> DEFINE m == mods[t]
           i == work[t].at
<1>1. /\ Traced(t) /\ IsModule(m) /\ DOMAIN work = Threads /\ DOMAIN pc = Threads
      /\ DOMAIN rec = {u \in Threads : pc[u] \in Passes}
      /\ pc[t] \in Passes => DOMAIN rec[t] = RecordFields
      /\ DOMAIN m.types = DOMAIN disk[t].types
      /\ \A k \in DOMAIN m.types : k \in Nat
  BY TracedContext
<1>2. i \in DOMAIN m.types /\ OneType(mods'[t], m, i)
  BY RedirectTypeEffect
<1>3. /\ guid' = guid /\ disk' = disk /\ log' = log /\ pc[t] = "closure"
      /\ pc' = [pc EXCEPT ![t] = "rewire"]
      /\ \E pairs : /\ rec' = [rec EXCEPT ![t].types =
                                 With(@, i, TypeRecord(m.types[i], {"Redirect"}, pairs, {}))]
                    /\ work' = [work EXCEPT ![t].pairs = pairs]
  BY RedirectTypeShape
<1>4. t \in DOMAIN rec /\ DOMAIN rec[t] = RecordFields /\ DOMAIN work[t] = DOMAIN AtRest
  BY <1>1, <1>3 DEF Passes, TypeOK, WorkOK
<1>5. pc'[t] = "rewire" /\ work'[t].at = i
  BY <1>1, <1>3, <1>4 DEF AtRest
<1>6. ASSUME TracedPlain(t) PROVE TracedPlain(t)'
  <2>1. Recorded(m, disk[t], rec[t]) /\ Recording(t)
    BY <1>3, <1>6 DEF TracedPlain, Applying, OverTypes
  <2>2. i \notin DOMAIN rec[t].types
    <3>1. i \in Nat /\ i \in DOMAIN disk[t].types
      BY <1>1, <1>2
    <3> QED
      BY <1>3, <2>1, <3>1 DEF Recording, OverTypes
  <2>3. PICK pairs : rec' = [rec EXCEPT ![t].types =
                               With(@, i, TypeRecord(m.types[i], {"Redirect"}, pairs, {}))]
    BY <1>3
  <2>4. /\ rec'[t].types = With(rec[t].types, i, TypeRecord(m.types[i], {"Redirect"}, pairs, {}))
        /\ rec'[t].attrs = rec[t].attrs /\ rec'[t].methods = rec[t].methods
        /\ rec'[t].fields = rec[t].fields
    BY <1>4, <2>3 DEF RecordFields
  <2>5. Recorded(mods'[t], disk[t], rec'[t])
    BY Zenon, <1>1, <1>2, <2>1, <2>2, <2>4, TypeNoted
  <2>6. mods'[t].types[i].methods = disk[t].types[i].methods
    BY Zenon, <1>1, <1>2, <2>1, <2>2 DEF OneType, Recorded, TypesRecorded, TypeRecorded, Alike
  <2>7. /\ DOMAIN rec'[t].types = DOMAIN rec[t].types \cup {i}
        /\ rec'[t].types[i] = TypeRecord(m.types[i], {"Redirect"}, pairs, {})
    BY <2>4 DEF With
  <2>8. /\ DOMAIN rec'[t].types[i] = {"flags", "prefix", "treatment", "pairs", "added"}
        /\ rec'[t].types[i].treatment = {"Redirect"}
    BY <2>7 DEF TypeRecord
  <2>9. \A j \in DOMAIN disk[t].types \cap DOMAIN rec[t].types : j < i
    BY <1>3, <2>1 DEF Recording, OverTypes
  <2>10. \A j \in DOMAIN disk'[t].types \cap DOMAIN rec'[t].types :
            j < work'[t].at \/ (pc'[t] = "rewire" /\ j = work'[t].at)
    BY <1>3, <1>5, <2>7, <2>9
  <2>11. DOMAIN rec[t].fields = {} /\ DOMAIN rec[t].methods = {} /\ DOMAIN rec[t].attrs = {}
    BY Zenon, <1>3, <2>1 DEF Recording, OverTypes
  <2>12. Recording(t)'
    BY Zenon, <1>3, <1>5, <2>4, <2>6, <2>7, <2>8, <2>10, <2>11 DEF Recording
  <2>13. Recorded(mods'[t], disk'[t], rec'[t])
    BY <1>3, <2>5
  <2> QED
    BY <1>5, <2>12, <2>13, RecordingPass DEF Applying, OverTypes
<1> QED
  BY <1>1, <1>3, <1>6, ApplyingStep DEF Applying, OverTypes

LEMMA RewirePairTraced ==
  ASSUME TypeOK, EditsTraced, NEW t \in Threads, RewirePair(t)
  PROVE  Traced(t)'
<1>1. /\ Traced(t) /\ SameShape(mods[t], disk[t]) /\ DOMAIN work = Threads
      /\ DOMAIN mods[t].types = DOMAIN disk[t].types
  BY TracedContext
<1>2. SameDefinitions(mods'[t], mods[t])
  BY RewirePairEffect
<1>3. /\ guid' = guid /\ disk' = disk /\ log' = log /\ pc[t] = "rewire" /\ pc' = pc
      /\ rec' = rec
  BY DEF RewirePair
<1>4. work'[t].at = work[t].at /\ work[t].at \in DOMAIN mods[t].types
  <2>1. DOMAIN work[t] = DOMAIN AtRest /\ work[t].at \in DOMAIN mods[t].types
    BY <1>3 DEF TypeOK, WorkOK
  <2> QED
    BY <1>1, <2>1 DEF RewirePair, AtRest
<1>5. ASSUME TracedPlain(t) PROVE TracedPlain(t)'
  <2>1. Recorded(mods[t], disk[t], rec[t]) /\ Recording(t)
    BY <1>3, <1>5 DEF TracedPlain, Applying, OverTypes
  <2>2. Recorded(mods'[t], disk'[t], rec'[t])
    BY <1>1, <1>2, <1>3, <2>1, RecordedKept DEF Recorded, SameDefinitions
  <2>3. mods'[t].types[work[t].at].methods = mods[t].types[work[t].at].methods
    BY Zenon, <1>2, <1>4 DEF SameDefinitions, SameTypes
  <2>4. Recording(t)'
    BY Zenon, <1>3, <1>4, <2>1, <2>3 DEF Recording, OverTypes
  <2> QED
    BY <1>3, <2>2, <2>4, RecordingPass DEF Applying, OverTypes
<1> QED
  BY <1>1, <1>3, <1>5, ApplyingStep DEF Applying, OverTypes

(* The methods generated for a redirected type: the module and the record    *)
(* get them together.                                                        *)
LEMMA AppendGeneratedTraced ==
  ASSUME TypeOK, EditsTraced, NEW t \in Threads, AppendGenerated(t)
  PROVE  Traced(t)'
<1> DEFINE m == mods[t]
           i == work[t].at
           handles == [k \in DOMAIN work[t].generated |-> Len(mods[t].methods) + k]
           own == [rec[t].types[i] EXCEPT !.added = Range(handles)]
<1>1. /\ Traced(t) /\ IsModule(m) /\ SameShape(m, disk[t])
      /\ DOMAIN work = Threads /\ DOMAIN pc = Threads
      /\ DOMAIN rec = {u \in Threads : pc[u] \in Passes}
      /\ pc[t] \in Passes => DOMAIN rec[t] = RecordFields
      /\ DOMAIN m.types = DOMAIN disk[t].types
      /\ \A k \in DOMAIN m.types : k \in Nat
  BY TracedContext
<1>2. /\ SameShape(mods'[t], m) /\ i \in DOMAIN m.types
      /\ mods'[t].types[i].methods = m.types[i].methods \o handles
      /\ \A j \in DOMAIN m.types : j # i => mods'[t].types[j] = m.types[j]
      /\ SameBlobs(mods'[t], m) /\ SameMethods(mods'[t], m) /\ SameFields(mods'[t], m)
      /\ IsSequence(handles) /\ Range(handles) \cap DOMAIN m.methods = {}
  BY Zenon, AppendGeneratedEffect
<1>3. /\ guid' = guid /\ disk' = disk /\ log' = log /\ pc[t] = "rewire"
      /\ pc' = [pc EXCEPT ![t] = "types"]
      /\ rec' = [rec EXCEPT ![t].types = With(@, i, own), ![t].added = @ \cup Range(handles)]
      /\ work' = [work EXCEPT ![t] = [AtRest EXCEPT !.at = i + 1]]
  BY Zenon DEF AppendGenerated, Goto
<1> HIDE DEF handles
<1>4. t \in DOMAIN rec /\ DOMAIN rec[t] = RecordFields
  BY <1>1, <1>3 DEF Passes
<1>5. pc'[t] = "types" /\ work'[t].at = work[t].at + 1
  BY <1>1, <1>3 DEF AtRest
<1>6. /\ rec'[t].types = With(rec[t].types, i, own)
      /\ rec'[t].attrs = rec[t].attrs /\ rec'[t].methods = rec[t].methods
      /\ rec'[t].fields = rec[t].fields
  BY Zenon, <1>3, <1>4 DEF RecordFields
<1>7. ASSUME TracedPlain(t) PROVE TracedPlain(t)'
  <2>1. Recorded(m, disk[t], rec[t]) /\ Recording(t)
    BY Zenon, <1>3, <1>7 DEF TracedPlain, Applying, OverTypes
  <2>2. /\ i \in DOMAIN rec[t].types
        /\ DOMAIN rec[t].types[i] = {"flags", "prefix", "treatment", "pairs", "added"}
        /\ rec[t].types[i].treatment = {"Redirect"}
        /\ m.types[i].methods = disk[t].types[i].methods
    BY Zenon, <1>3, <2>1 DEF Recording
  <2>3. /\ own.added = Range(handles) /\ own.treatment = {"Redirect"}
        /\ own.flags = rec[t].types[i].flags /\ own.prefix = rec[t].types[i].prefix
    BY <2>2
  <2> HIDE DEF own
  <2>4. /\ i \in DOMAIN rec'[t].types /\ rec'[t].types[i] = own
        /\ \A j : j # i => (j \in DOMAIN rec'[t].types <=> j \in DOMAIN rec[t].types)
        /\ \A j \in DOMAIN rec[t].types : j # i => rec'[t].types[j] = rec[t].types[j]
    BY Zenon, <1>6 DEF With
  <2>5. OwnMethods(mods'[t].types[i].methods, own.added) = m.types[i].methods
    <3>1. IsSequence(m.types[i].methods) /\ Range(m.types[i].methods) \subseteq DOMAIN m.methods
      BY Zenon, <1>1, <1>2 DEF IsModule, IsType
    <3>2. Range(m.types[i].methods) \cap Range(handles) = {}
      BY Zenon, <1>2, <3>1
    <3>3. OwnMethods(m.types[i].methods \o handles, Range(handles)) = m.types[i].methods
      BY Zenon, <1>2, <3>1, <3>2, AddedTaken
    <3> QED
      BY Zenon, <1>2, <2>3, <3>3
  <2>6. TypesRecorded(mods'[t], disk[t], rec'[t])
    <3> SUFFICES ASSUME NEW j \in DOMAIN disk[t].types
                 PROVE  TypeRecorded(mods'[t], disk[t], rec'[t], j)
      BY DEF TypesRecorded
    <3>1. TypeRecorded(m, disk[t], rec[t], j)
      BY Zenon, <2>1 DEF Recorded, TypesRecorded
    <3>2. CASE j = i
      BY Zenon, <2>2, <2>3, <2>4, <2>5, <3>1, <3>2 DEF TypeRecorded
    <3>3. CASE j # i
      <4>1. mods'[t].types[j] = m.types[j]
        BY Zenon, <1>1, <1>2, <3>3
      <4> QED
        BY Zenon, <2>4, <3>1, <3>3, <4>1 DEF TypeRecorded
    <3> QED
      BY <3>2, <3>3
  <2>7. /\ BlobsRecorded(mods'[t], disk[t], rec[t]) /\ MethodsRecorded(mods'[t], disk[t], rec[t])
        /\ FieldsRecorded(mods'[t], disk[t], rec[t])
    BY Zenon, <1>1, <1>2, <2>1, RecordedKept DEF Recorded
  <2>8. Recorded(mods'[t], disk'[t], rec'[t])
    BY <1>3, <1>6, <2>6, <2>7, RecordReplaced DEF Recorded
  <2>9. \A j \in DOMAIN disk[t].types : j \in DOMAIN rec'[t].types =>
            j \in DOMAIN rec[t].types \/ j = work[t].at
    BY <2>4
  <2> QED
    BY Zenon, <1>1, <1>2, <1>3, <1>5, <1>6, <2>1, <2>8, <2>9, NextType DEF OverTypes
<1> QED
  BY Zenon, <1>1, <1>3, <1>7, ApplyingStep DEF Applying, OverTypes

LEMMA ProjectFieldsTraced ==
  ASSUME TypeOK, EditsTraced, NEW t \in Threads, ProjectFields(t)
  PROVE  Traced(t)'
<1> DEFINE m == mods[t]
<1>1. /\ Traced(t) /\ IsModule(m) /\ SameShape(m, disk[t]) /\ DOMAIN pc = Threads
      /\ DOMAIN rec = {u \in Threads : pc[u] \in Passes}
      /\ pc[t] \in Passes => DOMAIN rec[t] = RecordFields
  BY TracedContext
<1>2. /\ SameTypes(mods'[t], m) /\ SameBlobs(mods'[t], m) /\ SameMethods(mods'[t], m)
      /\ \A f \in DOMAIN m.fields :
            mods'[t].fields[f] = IF f \in EnumFields(m)
                                 THEN [m.fields[f] EXCEPT !.access = "public"] ELSE m.fields[f]
  BY ProjectFieldsEffect
<1>3. /\ guid' = guid /\ disk' = disk /\ log' = log /\ pc[t] = "types"
      /\ pc' = [pc EXCEPT ![t] = "methods"]
      /\ rec' = [rec EXCEPT ![t].fields = [f \in EnumFields(m) |-> m.fields[f].access]]
  BY DEF ProjectFields, Goto
<1>4. t \in DOMAIN rec /\ DOMAIN rec[t] = RecordFields
  BY <1>1, <1>3 DEF Passes
<1>5. pc'[t] = "methods"
  BY <1>1, <1>3
<1>6. /\ rec'[t].fields = [f \in EnumFields(m) |-> m.fields[f].access]
      /\ rec'[t].types = rec[t].types /\ rec'[t].methods = rec[t].methods
      /\ rec'[t].attrs = rec[t].attrs
  BY <1>3, <1>4 DEF RecordFields
<1>7. ASSUME TracedPlain(t) PROVE TracedPlain(t)'
  <2>1. Recorded(m, disk[t], rec[t]) /\ Recording(t)
    BY <1>3, <1>7 DEF TracedPlain, Applying, OverTypes
  <2>2. DOMAIN rec[t].fields = {} /\ DOMAIN rec[t].methods = {} /\ DOMAIN rec[t].attrs = {}
    BY <1>3, <2>1 DEF Recording, OverTypes
  <2>3. FieldsRecorded(mods'[t], disk[t], rec'[t])
    <3> SUFFICES ASSUME NEW f \in DOMAIN disk[t].fields
                 PROVE  /\ mods'[t].fields[f].value = disk[t].fields[f].value
                        /\ disk[t].fields[f].access =
                             IF f \in DOMAIN rec'[t].fields THEN rec'[t].fields[f]
                             ELSE mods'[t].fields[f].access
      BY DEF FieldsRecorded
    <3>1. f \in DOMAIN m.fields
      BY <1>1 DEF SameShape
    <3>2. m.fields[f] = [access |-> m.fields[f].access, value |-> m.fields[f].value]
      BY <1>1, <3>1 DEF IsModule, IsField
    <3>3. /\ m.fields[f].value = disk[t].fields[f].value
          /\ m.fields[f].access = disk[t].fields[f].access
      BY <2>1, <2>2 DEF Recorded, FieldsRecorded
    <3>4. CASE f \in EnumFields(m)
      <4>1. mods'[t].fields[f] = [m.fields[f] EXCEPT !.access = "public"]
        BY <1>2, <3>1, <3>4
      <4>2. mods'[t].fields[f].value = m.fields[f].value
        BY <3>2, <4>1
      <4>3. f \in DOMAIN rec'[t].fields /\ rec'[t].fields[f] = m.fields[f].access
        BY <1>6, <3>4
      <4> QED
        BY <3>3, <4>2, <4>3
    <3>5. CASE f \notin EnumFields(m)
      <4>1. mods'[t].fields[f] = m.fields[f] /\ f \notin DOMAIN rec'[t].fields
        BY <1>2, <1>6, <3>1, <3>5
      <4> QED
        BY <3>3, <4>1
    <3> QED
      BY <3>4, <3>5
  <2>4. /\ TypesRecorded(mods'[t], disk[t], rec[t]) /\ BlobsRecorded(mods'[t], disk[t], rec[t])
        /\ MethodsRecorded(mods'[t], disk[t], rec[t])
    BY <1>1, <1>2, <2>1, RecordedKept DEF Recorded
  <2>5. Recorded(mods'[t], disk'[t], rec'[t])
    BY <1>3, <1>6, <2>3, <2>4, RecordReplaced DEF Recorded
  <2>6. Recording(t)'
    BY <1>5, <1>6, <2>2 DEF Recording, OverTypes
  <2> QED
    BY <1>5, <2>5, <2>6, RecordingPass DEF Applying, OverTypes
<1> QED
  BY <1>1, <1>3, <1>7, ApplyingStep DEF Applying, OverTypes

LEMMA ProjectMethodsTraced ==
  ASSUME TypeOK, EditsTraced, NEW t \in Threads, ProjectMethods(t)
  PROVE  Traced(t)'
<1> DEFINE m == mods[t]
           treated == {k \in DOMAIN m.methods : TreatmentIn(m, rec[t], k) # {}}
           old == [k \in treated |-> [access |-> m.methods[k].access, flags |-> m.methods[k].flags]]
<1>1. /\ Traced(t) /\ SameShape(m, disk[t]) /\ DOMAIN pc = Threads
      /\ DOMAIN rec = {u \in Threads : pc[u] \in Passes}
      /\ pc[t] \in Passes => DOMAIN rec[t] = RecordFields
  BY TracedContext
<1>2. /\ SameTypes(mods'[t], m) /\ SameBlobs(mods'[t], m) /\ SameFields(mods'[t], m)
      /\ \A k \in DOMAIN m.methods :
            TreatmentIn(m, rec[t], k) = {} =>
               /\ mods'[t].methods[k].access = m.methods[k].access
               /\ mods'[t].methods[k].flags = m.methods[k].flags
  BY ProjectMethodsEffect
<1>3. /\ guid' = guid /\ disk' = disk /\ log' = log /\ pc[t] = "methods"
      /\ pc' = [pc EXCEPT ![t] = "attributes"]
      /\ rec' = [rec EXCEPT ![t].methods = old]
  BY DEF ProjectMethods, Goto, TreatmentIn
<1>4. t \in DOMAIN rec /\ DOMAIN rec[t] = RecordFields
  BY <1>1, <1>3 DEF Passes
<1>5. pc'[t] = "attributes"
  BY <1>1, <1>3
<1>6. /\ rec'[t].methods = old
      /\ rec'[t].types = rec[t].types /\ rec'[t].fields = rec[t].fields
      /\ rec'[t].attrs = rec[t].attrs
  BY <1>3, <1>4 DEF RecordFields
<1>7. ASSUME TracedPlain(t) PROVE TracedPlain(t)'
  <2>1. Recorded(m, disk[t], rec[t]) /\ Recording(t)
    BY <1>3, <1>7 DEF TracedPlain, Applying, OverTypes
  <2>2. DOMAIN rec[t].methods = {} /\ DOMAIN rec[t].attrs = {}
    BY <1>3, <2>1 DEF Recording, OverTypes
  <2>3. MethodsRecorded(mods'[t], disk[t], rec'[t])
    <3> SUFFICES ASSUME NEW k \in DOMAIN disk[t].methods
                 PROVE  IF k \in DOMAIN rec'[t].methods
                        THEN /\ rec'[t].methods[k].access = disk[t].methods[k].access
                             /\ rec'[t].methods[k].flags = disk[t].methods[k].flags
                        ELSE /\ mods'[t].methods[k].access = disk[t].methods[k].access
                             /\ mods'[t].methods[k].flags = disk[t].methods[k].flags
      BY DEF MethodsRecorded
    <3>1. k \in DOMAIN m.methods
      BY <1>1 DEF SameShape
    <3>2. /\ m.methods[k].access = disk[t].methods[k].access
          /\ m.methods[k].flags = disk[t].methods[k].flags
      BY <2>1, <2>2 DEF Recorded, MethodsRecorded
    <3>3. CASE k \in treated
      <4>1. k \in DOMAIN rec'[t].methods
        BY <1>6, <3>3
      <4>2. rec'[t].methods[k] = [access |-> m.methods[k].access, flags |-> m.methods[k].flags]
        BY <1>6, <3>3
      <4> QED
        BY <3>2, <4>1, <4>2
    <3>4. CASE k \notin treated
      <4>1. TreatmentIn(m, rec[t], k) = {} /\ k \notin DOMAIN rec'[t].methods
        BY <1>6, <3>1, <3>4
      <4> QED
        BY <1>2, <3>1, <3>2, <4>1
    <3> QED
      BY <3>3, <3>4
  <2>4. /\ TypesRecorded(mods'[t], disk[t], rec[t]) /\ BlobsRecorded(mods'[t], disk[t], rec[t])
        /\ FieldsRecorded(mods'[t], disk[t], rec[t])
    BY Zenon, <1>1, <1>2, <2>1, RecordedKept DEF Recorded
  <2>5. Recorded(mods'[t], disk'[t], rec'[t])
    BY <1>3, <1>6, <2>3, <2>4, RecordReplaced DEF Recorded
  <2>6. Recording(t)'
    BY <1>5, <1>6, <2>2 DEF Recording, OverTypes
  <2> QED
    BY <1>5, <2>5, <2>6, RecordingPass DEF Applying, OverTypes
<1> QED
  BY <1>1, <1>3, <1>7, ApplyingStep DEF Applying, OverTypes

(* The blobs before the first unreadable one: recorded when there is none,   *)
(* and when there is one the call has failed.                                *)
LEMMA ProjectAttributeRecordsTraced ==
  ASSUME TypeOK, EditsTraced, NEW t \in Threads, ProjectAttributeRecords(t)
  PROVE  Traced(t)'
<1> DEFINE m == mods[t]
<1>1. /\ Traced(t) /\ log[t] \in Seq(Outcomes) /\ SameShape(m, disk[t])
      /\ DOMAIN pc = Threads /\ DOMAIN log = Threads
      /\ DOMAIN rec = {u \in Threads : pc[u] \in Passes}
      /\ pc[t] \in Passes => DOMAIN rec[t] = RecordFields
  BY TracedContext
<1>2. /\ SameTypes(mods'[t], m) /\ SameMethods(mods'[t], m) /\ SameFields(mods'[t], m)
      /\ \A i \in DOMAIN m.types : \A j \in DOMAIN m.types[i].attrs :
            <<i, j>> \notin Patched(m) =>
               mods'[t].types[i].attrs[j].blob = m.types[i].attrs[j].blob
  BY ProjectAttributeRecordsEffect
<1>3. /\ guid' = guid /\ disk' = disk /\ pc[t] = "attributes"
      /\ \/ /\ rec' = [rec EXCEPT ![t].attrs = [x \in Patched(m) |-> BlobAt(m, x)]]
            /\ pc' = [pc EXCEPT ![t] = "insert"] /\ log' = log
         \/ log' = [log EXCEPT ![t] = Append(@, "failed")]
  BY DEF ProjectAttributeRecords, Goto, Returns, Patched
<1>4. t \in DOMAIN rec /\ DOMAIN rec[t] = RecordFields
  BY <1>1, <1>3 DEF Passes
<1>5. CASE log' = [log EXCEPT ![t] = Append(@, "failed")]
  <2>1. log'[t] = Append(log[t], "failed")
    BY <1>1, <1>5
  <2>2. ~Alternates(t)'
    BY <1>1, <2>1, OutcomeLogged DEF Outcomes
  <2> QED
    BY <2>2 DEF Traced
<1>6. CASE /\ rec' = [rec EXCEPT ![t].attrs = [x \in Patched(m) |-> BlobAt(m, x)]]
           /\ pc' = [pc EXCEPT ![t] = "insert"] /\ log' = log
  <2>1. pc'[t] = "insert"
    BY <1>1, <1>6
  <2>2. /\ rec'[t].attrs = [x \in Patched(m) |-> BlobAt(m, x)]
        /\ rec'[t].types = rec[t].types /\ rec'[t].methods = rec[t].methods
        /\ rec'[t].fields = rec[t].fields
    BY <1>4, <1>6 DEF RecordFields
  <2>3. ASSUME TracedPlain(t) PROVE TracedPlain(t)'
    <3>1. Recorded(m, disk[t], rec[t]) /\ DOMAIN rec[t].attrs = {}
      BY <1>3, <2>3 DEF TracedPlain, Recording, Applying
    <3>2. BlobsRecorded(mods'[t], disk[t], rec'[t])
      <4> SUFFICES ASSUME NEW i \in DOMAIN disk[t].types, NEW j \in DOMAIN disk[t].types[i].attrs
                   PROVE  disk[t].types[i].attrs[j].blob =
                            IF <<i, j>> \in DOMAIN rec'[t].attrs THEN rec'[t].attrs[<<i, j>>]
                            ELSE mods'[t].types[i].attrs[j].blob
        BY DEF BlobsRecorded
      <4>1. m.types[i].attrs[j].blob = disk[t].types[i].attrs[j].blob
        BY <3>1 DEF Recorded, BlobsRecorded
      <4>2. i \in DOMAIN m.types /\ j \in DOMAIN m.types[i].attrs
        BY <1>1 DEF SameShape
      <4>3. CASE <<i, j>> \in Patched(m)
        <5>1. rec'[t].attrs[<<i, j>>] = BlobAt(m, <<i, j>>) /\ <<i, j>> \in DOMAIN rec'[t].attrs
          BY Zenon, <2>2, <4>3
        <5> QED
          BY <4>1, <5>1 DEF BlobAt
      <4>4. CASE <<i, j>> \notin Patched(m)
        <5>1. <<i, j>> \notin DOMAIN rec'[t].attrs
          BY <2>2, <4>4
        <5> QED
          BY <1>2, <4>1, <4>2, <4>4, <5>1
      <4> QED
        BY <4>3, <4>4
    <3>3. /\ TypesRecorded(mods'[t], disk[t], rec[t]) /\ MethodsRecorded(mods'[t], disk[t], rec[t])
          /\ FieldsRecorded(mods'[t], disk[t], rec[t])
      BY <1>1, <1>2, <3>1, RecordedKept DEF Recorded
    <3>4. Recorded(mods'[t], disk'[t], rec'[t])
      BY <1>3, <2>2, <3>2, <3>3, RecordReplaced DEF Recorded
    <3>5. Recording(t)'
      BY <2>1 DEF Recording, OverTypes
    <3> QED
      BY <2>1, <3>4, <3>5, RecordingPass DEF Applying
  <2> QED
    BY <1>1, <1>3, <1>6, <2>3, ApplyingStep DEF Applying
<1> QED
  BY <1>3, <1>5, <1>6

LEMMA InsertRecordTraced ==
  ASSUME TypeOK, EditsTraced, NEW t \in Threads, InsertRecord(t)
  PROVE  Traced(t)'
<1>1. /\ Traced(t) /\ log[t] \in Seq(Outcomes) /\ DOMAIN pc = Threads /\ DOMAIN log = Threads
  BY TracedContext
<1>2. /\ guid' = guid /\ disk' = disk /\ mods' = mods /\ pc[t] = "insert"
      /\ store' = With(store, guid[t], rec[t])
      /\ pc' = [pc EXCEPT ![t] = "idle"] /\ log' = [log EXCEPT ![t] = Append(@, "applied")]
  BY DEF InsertRecord, Returns
<1>3. pc'[t] = "idle" /\ log'[t] = Append(log[t], "applied")
  BY <1>1, <1>2
<1>4. Alternates(t)' => Alternates(t) /\ Even(t) /\ ~Even(t)'
  BY <1>1, <1>3, OutcomeLogged DEF Outcomes
<1>5. Sole(t)' <=> Sole(t)
  BY <1>2 DEF Sole
<1>6. ASSUME TracedPlain(t) PROVE TracedProjected(t)'
  <2>1. Recorded(mods[t], disk[t], rec[t])
    BY <1>2, <1>6 DEF TracedPlain, Applying
  <2>2. guid'[t] \in DOMAIN store' /\ store'[guid'[t]] = rec[t]
    BY <1>2 DEF With
  <2>3. Recorded(mods'[t], disk'[t], store'[guid'[t]])
    BY <1>2, <2>1, <2>2
  <2> QED
    BY <1>3, <2>2, <2>3 DEF TracedProjected
<1> QED
  BY <1>1, <1>4, <1>5, <1>6 DEF Traced

-------------------------------------------------------------------------------
(* A removal puts back what its record says.                                 *)

LEMMA TakeRecordTraced ==
  ASSUME TypeOK, EditsTraced, NEW t \in Threads, TakeRecord(t)
  PROVE  Traced(t)'
<1>1. Traced(t) /\ DOMAIN pc = Threads
  BY TracedContext
<1>2. /\ guid' = guid /\ disk' = disk /\ mods' = mods /\ log' = log /\ pc[t] = "idle"
      /\ \/ /\ rec' = With(rec, t, store[guid[t]]) /\ pc' = [pc EXCEPT ![t] = "restore"]
         \/ store' = store /\ pc' = [pc EXCEPT ![t] = "idle"]
  BY DEF TakeRecord, Calls, Goto, Declines
<1>3. /\ Sole(t)' <=> Sole(t)
      /\ Alternates(t)' <=> Alternates(t)
      /\ Even(t)' <=> Even(t)
  BY <1>2 DEF Sole, Alternates, Even
<1>4. CASE rec' = With(rec, t, store[guid[t]]) /\ pc' = [pc EXCEPT ![t] = "restore"]
  <2>1. pc'[t] = "restore" /\ rec'[t] = store[guid[t]]
    BY <1>1, <1>4 DEF With
  <2>2. TracedPlain(t)'
    BY <2>1 DEF TracedPlain, Applying, OverTypes
  <2>3. ASSUME TracedProjected(t) PROVE TracedProjected(t)'
    <3>1. Recorded(mods[t], disk[t], store[guid[t]])
      BY <1>2, <2>3 DEF TracedProjected
    <3>2. Recorded(mods'[t], disk'[t], rec'[t])
      BY <1>2, <2>1, <3>1
    <3> QED
      BY <2>1, <3>2 DEF TracedProjected
  <2> QED
    BY <1>1, <1>3, <2>2, <2>3 DEF Traced
<1>5. CASE store' = store /\ pc' = [pc EXCEPT ![t] = "idle"]
  <2>1. pc'[t] = "idle"
    BY <1>1, <1>5
  <2>2. TracedPlain(t) => TracedPlain(t)'
    BY <1>2, <2>1 DEF TracedPlain, Applying, OverTypes
  <2>3. TracedProjected(t) => TracedProjected(t)'
    BY <1>2, <1>5, <2>1 DEF TracedProjected
  <2> QED
    BY <1>1, <1>3, <2>2, <2>3 DEF Traced
<1> QED
  BY <1>2, <1>4, <1>5

LEMMA RestoreMembersTraced ==
  ASSUME TypeOK, EditsTraced, NEW t \in Threads, RestoreMembers(t)
  PROVE  Traced(t)'
<1> DEFINE m == mods[t]
           was == disk[t]
           r == rec[t]
           n == mods'[t]
<1>1. /\ Traced(t) /\ IsModule(m) /\ IsModule(was) /\ SameShape(m, was)
      /\ DOMAIN pc = Threads /\ DOMAIN work = Threads
  BY Zenon, TracedContext
<1>2. /\ SameTypes(n, m)
      /\ \A i \in DOMAIN m.types : \A j \in DOMAIN m.types[i].attrs :
            n.types[i].attrs[j].blob = IF <<i, j>> \in DOMAIN r.attrs THEN r.attrs[<<i, j>>]
                                       ELSE m.types[i].attrs[j].blob
      /\ \A k \in DOMAIN m.methods :
            n.methods[k] = IF k \in DOMAIN r.methods
                           THEN [m.methods[k] EXCEPT !.access = r.methods[k].access,
                                                     !.flags = r.methods[k].flags]
                           ELSE m.methods[k]
      /\ \A f \in DOMAIN m.fields :
            n.fields[f] = IF f \in DOMAIN r.fields
                          THEN [m.fields[f] EXCEPT !.access = r.fields[f]] ELSE m.fields[f]
  BY Zenon, RestoreMembersEffect
<1>3. /\ guid' = guid /\ disk' = disk /\ log' = log /\ rec' = rec /\ pc[t] = "restore"
      /\ pc' = [pc EXCEPT ![t] = "untypes"] /\ work' = [work EXCEPT ![t] = AtRest]
  BY DEF RestoreMembers, Goto
<1>4. pc'[t] = "untypes" /\ work'[t].at = 1
  BY <1>1, <1>3 DEF AtRest
<1> HIDE DEF m, was, r, n
<1>5. ASSUME TracedProjected(t) PROVE TracedProjected(t)'
  <2>1. Recorded(m, was, r)
    BY <1>3, <1>5 DEF TracedProjected, m, was, r
  <2>2. SameBlobs(n, was)
    <3> SUFFICES ASSUME NEW i \in DOMAIN was.types, NEW j \in DOMAIN was.types[i].attrs
                 PROVE  n.types[i].attrs[j].blob = was.types[i].attrs[j].blob
      BY DEF SameBlobs
    <3>1. i \in DOMAIN m.types /\ j \in DOMAIN m.types[i].attrs
      BY <1>1 DEF SameShape
    <3> QED
      BY ZenonT(60), <1>2, <2>1, <3>1 DEF Recorded, BlobsRecorded
  <2>3. SameMethods(n, was)
    <3> SUFFICES ASSUME NEW k \in DOMAIN was.methods
                 PROVE  /\ n.methods[k].access = was.methods[k].access
                        /\ n.methods[k].flags = was.methods[k].flags
      BY DEF SameMethods
    <3>1. k \in DOMAIN m.methods
      BY <1>1 DEF SameShape
    <3>2. DOMAIN m.methods[k] = {"owner", "name", "access", "flags", "overrides", "treatAsPublic"}
      BY <1>1, <3>1 DEF IsModule, IsMethod
    <3>3. CASE k \in DOMAIN r.methods
      <4>1. n.methods[k] = [m.methods[k] EXCEPT !.access = r.methods[k].access,
                                                !.flags = r.methods[k].flags]
        BY <1>2, <3>1, <3>3
      <4>2. n.methods[k].access = r.methods[k].access /\ n.methods[k].flags = r.methods[k].flags
        BY <3>2, <4>1
      <4> QED
        BY <2>1, <3>3, <4>2 DEF Recorded, MethodsRecorded
    <3>4. CASE k \notin DOMAIN r.methods
      BY <1>2, <2>1, <3>1, <3>4 DEF Recorded, MethodsRecorded
    <3> QED
      BY <3>3, <3>4
  <2>4. SameFields(n, was)
    <3> SUFFICES ASSUME NEW f \in DOMAIN was.fields PROVE n.fields[f] = was.fields[f]
      BY DEF SameFields
    <3>1. f \in DOMAIN m.fields
      BY <1>1 DEF SameShape
    <3>2. /\ m.fields[f] = [access |-> m.fields[f].access, value |-> m.fields[f].value]
          /\ was.fields[f] = [access |-> was.fields[f].access, value |-> was.fields[f].value]
      BY <1>1, <3>1 DEF IsModule, IsField
    <3>3. /\ m.fields[f].value = was.fields[f].value
          /\ was.fields[f].access = IF f \in DOMAIN r.fields THEN r.fields[f] ELSE m.fields[f].access
      BY <2>1 DEF Recorded, FieldsRecorded
    <3>4. CASE f \in DOMAIN r.fields
      <4>1. n.fields[f] = [m.fields[f] EXCEPT !.access = r.fields[f]]
        BY <1>2, <3>1, <3>4
      <4>2. n.fields[f] = [access |-> r.fields[f], value |-> m.fields[f].value]
        BY <3>2, <4>1
      <4> QED
        BY <3>2, <3>3, <3>4, <4>2
    <3>5. CASE f \notin DOMAIN r.fields
      <4>1. n.fields[f] = m.fields[f]
        BY <1>2, <3>1, <3>5
      <4> QED
        BY <3>2, <3>3, <3>5, <4>1
    <3> QED
      BY <3>4, <3>5
  <2>5. TypesRecorded(n, was, r)
    BY <1>1, <1>2, <2>1, RecordedKept DEF Recorded
  <2>6. \A i \in DOMAIN was.types : ~(i < 1)
    BY <1>1, SequenceMeans DEF IsModule
  <2>7. Restoring(t)'
    BY <1>3, <1>4, <2>5, <2>6 DEF Restoring, TypesRecorded, n, was, r
  <2> QED
    BY <1>3, <1>4, <2>2, <2>3, <2>4, <2>7 DEF TracedProjected, n, was
<1> QED
  BY <1>1, <1>3, <1>4, <1>5, RemovingStep DEF Removing

(* A type has been passed: the next one is not.                              *)
LEMMA TypePutBack ==
  ASSUME NEW t \in Threads, \A j \in DOMAIN disk[t].types : j \in Nat,
         work[t].at \in DOMAIN disk[t].types,
         disk' = disk, rec'[t] = rec[t],
         Restoring(t), pc[t] \in {"untypes", "unwire"},
         Alike(mods'[t].types[work[t].at], disk[t].types[work[t].at]),
         \A j \in DOMAIN disk[t].types : j # work[t].at => mods'[t].types[j] = mods[t].types[j],
         \/ pc'[t] = "unwire" /\ work'[t].at = work[t].at
         \/ pc'[t] = "untypes" /\ work'[t].at = work[t].at + 1
  PROVE  Restoring(t)'
<1> DEFINE i == work[t].at
<1> SUFFICES ASSUME NEW j \in DOMAIN disk[t].types
             PROVE  IF j < work'[t].at \/ (pc'[t] = "unwire" /\ j = work'[t].at)
                    THEN Alike(mods'[t].types[j], disk[t].types[j])
                    ELSE TypeRecorded(mods'[t], disk[t], rec[t], j)
  BY DEF Restoring
<1>1. /\ j \in Nat /\ i \in Nat
      /\ (j < work'[t].at \/ (pc'[t] = "unwire" /\ j = work'[t].at)) <=> j <= i
  OBVIOUS
<1>2. CASE j = i
  BY <1>1, <1>2
<1>3. CASE j < i
  BY <1>1, <1>3 DEF Restoring
<1>4. CASE j > i
  <2>1. TypeRecorded(mods[t], disk[t], rec[t], j) /\ mods'[t].types[j] = mods[t].types[j]
    BY <1>1, <1>4 DEF Restoring
  <2> QED
    BY <1>1, <1>4, <2>1 DEF TypeRecorded
<1> QED
  BY <1>1, <1>2, <1>3, <1>4

LEMMA RestoreTypeTraced ==
  ASSUME TypeOK, EditsTraced, NEW t \in Threads, RestoreType(t)
  PROVE  Traced(t)'
<1> DEFINE m == mods[t]
           was == disk[t]
           i == work[t].at
           r == rec[t].types[i]
<1>1. /\ Traced(t) /\ IsModule(m) /\ SameShape(m, was) /\ DOMAIN pc = Threads /\ DOMAIN work = Threads
      /\ DOMAIN m.types = DOMAIN was.types /\ \A k \in DOMAIN m.types : k \in Nat
  BY TracedContext
<1>2. /\ i \in DOMAIN m.types
      /\ i \notin DOMAIN rec[t].types => mods' = mods
      /\ i \in DOMAIN rec[t].types =>
            /\ mods'[t].types[i] = UnprojectedType(m.types[i], r)
            /\ mods'[t].types[i].attrs = m.types[i].attrs
            /\ \A j \in DOMAIN m.types : j # i => mods'[t].types[j] = m.types[j]
            /\ mods'[t].methods = m.methods /\ mods'[t].fields = m.fields
  BY RestoreTypeEffect
<1>3. /\ guid' = guid /\ disk' = disk /\ log' = log /\ rec' = rec /\ pc[t] = "untypes"
      /\ \/ (\E p : work' = [work EXCEPT ![t].pairs = p]) /\ pc' = [pc EXCEPT ![t] = "unwire"]
            /\ i \in DOMAIN rec[t].types
         \/ work' = [work EXCEPT ![t].at = i + 1] /\ pc' = pc
  BY DEF RestoreType, Goto
<1>4. \/ pc'[t] = "unwire" /\ work'[t].at = i
      \/ pc'[t] = "untypes" /\ work'[t].at = i + 1
  <2>1. DOMAIN work[t] = DOMAIN AtRest
    BY DEF TypeOK, WorkOK
  <2> QED
    BY <1>1, <1>3, <2>1 DEF AtRest
<1>5. ASSUME TracedProjected(t) PROVE TracedProjected(t)'
  <2>1. /\ Restoring(t) /\ SameBlobs(m, was) /\ SameMethods(m, was) /\ SameFields(m, was)
    BY <1>3, <1>5 DEF TracedProjected
  <2>2. TypeRecorded(m, was, rec[t], i)
    <3>1. i \in Nat /\ i \in DOMAIN was.types
      BY <1>1, <1>2
    <3>2. ~(i < i)
      BY <3>1
    <3> QED
      BY <1>3, <2>1, <3>1, <3>2 DEF Restoring
  <2>3. Alike(mods'[t].types[i], was.types[i])
    <3>1. CASE i \in DOMAIN rec[t].types
      BY <1>1, <1>2, <2>2, <3>1, UnprojectedAlike DEF IsModule
    <3>2. CASE i \notin DOMAIN rec[t].types
      BY <1>2, <2>2, <3>2 DEF TypeRecorded
    <3> QED
      BY <3>1, <3>2
  <2>4. \A j \in DOMAIN was.types : j # i => mods'[t].types[j] = m.types[j]
    BY ZenonT(60), <1>1, <1>2
  <2>5. Restoring(t)'
    BY <1>1, <1>2, <1>3, <1>4, <2>1, <2>3, <2>4, TypePutBack
  <2>6. mods'[t].methods = m.methods /\ mods'[t].fields = m.fields
    BY <1>2
  <2>7. \A j \in DOMAIN was.types : mods'[t].types[j].attrs = m.types[j].attrs
    BY <1>2, <2>4
  <2>8. /\ SameBlobs(mods'[t], was) /\ SameMethods(mods'[t], was) /\ SameFields(mods'[t], was)
    BY <2>1, <2>6, <2>7 DEF SameBlobs, SameMethods, SameFields
  <2> QED
    BY <1>3, <1>4, <2>5, <2>8 DEF TracedProjected
<1> QED
  BY <1>1, <1>3, <1>4, <1>5, RemovingStep DEF Removing

LEMMA UnwirePairTraced ==
  ASSUME TypeOK, EditsTraced, NEW t \in Threads, UnwirePair(t)
  PROVE  Traced(t)'
<1> DEFINE m == mods[t]
           was == disk[t]
<1>1. /\ Traced(t) /\ SameShape(m, was) /\ DOMAIN work = Threads
      /\ DOMAIN m.types = DOMAIN was.types
  BY Zenon, TracedContext
<1>2. SameDefinitions(mods'[t], m)
  BY UnwirePairEffect
<1>3. /\ guid' = guid /\ disk' = disk /\ log' = log /\ rec' = rec /\ pc[t] = "unwire" /\ pc' = pc
  BY Zenon DEF UnwirePair
<1>4. work'[t].at = work[t].at
  <2>1. DOMAIN work[t] = DOMAIN AtRest
    BY DEF TypeOK, WorkOK
  <2> QED
    BY Zenon, <1>1, <2>1 DEF UnwirePair, AtRest
<1>5. ASSUME TracedProjected(t) PROVE TracedProjected(t)'
  <2>1. /\ Restoring(t) /\ SameBlobs(m, was) /\ SameMethods(m, was) /\ SameFields(m, was)
    BY <1>3, <1>5 DEF TracedProjected
  <2>2. SameBlobs(mods'[t], was) /\ SameMethods(mods'[t], was) /\ SameFields(mods'[t], was)
    BY <1>1, <1>2, <2>1, SameTransitive DEF SameDefinitions
  <2>3. \A j \in DOMAIN was.types :
           /\ mods'[t].types[j].flags = m.types[j].flags
           /\ mods'[t].types[j].prefix = m.types[j].prefix
           /\ mods'[t].types[j].methods = m.types[j].methods
    BY <1>1, <1>2 DEF SameDefinitions, SameTypes
  <2>4. \A j \in DOMAIN was.types :
           /\ Alike(m.types[j], was.types[j]) => Alike(mods'[t].types[j], was.types[j])
           /\ TypeRecorded(m, was, rec[t], j) => TypeRecorded(mods'[t], was, rec[t], j)
    BY <2>3 DEF Alike, TypeRecorded
  <2>5. Restoring(t)'
    BY <1>3, <1>4, <2>1, <2>4 DEF Restoring
  <2> QED
    BY <1>3, <2>2, <2>5 DEF TracedProjected
<1> QED
  BY <1>1, <1>3, <1>5, RemovingStep DEF Removing

LEMMA TypeRestoredTraced ==
  ASSUME TypeOK, EditsTraced, NEW t \in Threads, TypeRestored(t)
  PROVE  Traced(t)'
<1>1. /\ Traced(t) /\ DOMAIN work = Threads /\ DOMAIN pc = Threads
      /\ DOMAIN mods[t].types = DOMAIN disk[t].types
      /\ \A k \in DOMAIN mods[t].types : k \in Nat
  BY TracedContext
<1>2. /\ guid' = guid /\ disk' = disk /\ log' = log /\ rec' = rec /\ mods' = mods
      /\ pc[t] = "unwire" /\ pc' = [pc EXCEPT ![t] = "untypes"]
  BY DEF TypeRestored, Goto
<1>3. /\ pc'[t] = "untypes" /\ work'[t].at = work[t].at + 1
      /\ work[t].at \in DOMAIN mods[t].types
  <2>1. DOMAIN work[t] = DOMAIN AtRest /\ work[t].at \in DOMAIN mods[t].types
    BY <1>2 DEF TypeOK, WorkOK
  <2> QED
    BY <1>1, <1>2, <2>1 DEF TypeRestored, AtRest
<1>4. ASSUME TracedProjected(t) PROVE TracedProjected(t)'
  <2>1. /\ Restoring(t) /\ SameBlobs(mods[t], disk[t]) /\ SameMethods(mods[t], disk[t])
        /\ SameFields(mods[t], disk[t])
    BY <1>2, <1>4 DEF TracedProjected
  <2>2. Alike(mods[t].types[work[t].at], disk[t].types[work[t].at])
    BY <1>1, <1>2, <1>3, <2>1 DEF Restoring
  <2>3. Restoring(t)'
    BY <1>1, <1>2, <1>3, <2>1, <2>2, TypePutBack
  <2> QED
    BY <1>2, <1>3, <2>1, <2>3 DEF TracedProjected
<1> QED
  BY <1>1, <1>2, <1>3, <1>4, RemovingStep DEF Removing

LEMMA RestoreTypeReferencesTraced ==
  ASSUME TypeOK, EditsTraced, NEW t \in Threads, RestoreTypeReferences(t)
  PROVE  Traced(t)'
<1>1. /\ Traced(t) /\ SameShape(mods[t], disk[t]) /\ DOMAIN pc = Threads
      /\ IsModule(mods[t]) /\ DOMAIN mods[t].types = DOMAIN disk[t].types
  BY TracedContext
<1>2. SameDefinitions(mods'[t], mods[t])
  BY RestoreTypeReferencesEffect
<1>3. /\ guid' = guid /\ disk' = disk /\ log' = log /\ pc[t] = "untypes"
      /\ pc' = [pc EXCEPT ![t] = "unvirtual"] /\ work[t].at > Len(mods[t].types)
  BY DEF RestoreTypeReferences, Goto
<1>4. pc'[t] = "unvirtual"
  BY <1>1, <1>3
<1>5. ASSUME TracedProjected(t) PROVE TracedProjected(t)'
  <2>1. /\ Restoring(t) /\ SameBlobs(mods[t], disk[t]) /\ SameMethods(mods[t], disk[t])
        /\ SameFields(mods[t], disk[t])
    BY <1>3, <1>5 DEF TracedProjected
  <2>2. \A i \in DOMAIN disk[t].types : i < work[t].at
    <3>1. DOMAIN mods[t].types = 1..Len(mods[t].types) /\ Len(mods[t].types) \in Nat
      BY <1>1, SequenceMeans DEF IsModule
    <3>2. work[t].at \in Int
      BY <3>1 DEF TypeOK, WorkOK
    <3> QED
      BY <1>1, <1>3, <3>1, <3>2
  <2>3. SameTypes(mods[t], disk[t])
    BY <2>1, <2>2 DEF Restoring, SameTypes, Alike
  <2>4. SameDefinitions(mods'[t], disk'[t])
    BY <1>1, <1>2, <1>3, <2>1, <2>3, SameTransitive DEF SameDefinitions
  <2> QED
    BY <1>4, <2>4 DEF TracedProjected
<1> QED
  BY <1>1, <1>3, <1>4, <1>5, RemovingStep DEF Removing

LEMMA RemoveVirtualReferencesTraced ==
  ASSUME TypeOK, EditsTraced, NEW t \in Threads, RemoveVirtualReferences(t)
  PROVE  Traced(t)'
<1>1. /\ Traced(t) /\ log[t] \in Seq(Outcomes) /\ SameShape(mods[t], disk[t])
      /\ DOMAIN pc = Threads /\ DOMAIN log = Threads
  BY TracedContext
<1>2. SameDefinitions(mods'[t], mods[t])
  BY RemoveVirtualReferencesEffect
<1>3. /\ guid' = guid /\ disk' = disk /\ pc[t] = "unvirtual"
      /\ pc' = [pc EXCEPT ![t] = "idle"] /\ log' = [log EXCEPT ![t] = Append(@, "removed")]
  BY DEF RemoveVirtualReferences, Returns
<1>4. pc'[t] = "idle" /\ log'[t] = Append(log[t], "removed")
  BY <1>1, <1>3
<1>5. Alternates(t)' => Alternates(t) /\ ~Even(t) /\ Even(t)'
  BY <1>1, <1>4, OutcomeLogged DEF Outcomes
<1>6. Sole(t)' <=> Sole(t)
  BY <1>3 DEF Sole
<1>7. ASSUME TracedProjected(t) PROVE TracedPlain(t)'
  <2>1. SameDefinitions(mods[t], disk[t])
    BY <1>3, <1>7 DEF TracedProjected
  <2>2. SameDefinitions(mods'[t], disk'[t])
    BY <1>1, <1>2, <1>3, <2>1, SameTransitive DEF SameDefinitions
  <2> QED
    BY <1>4, <2>2 DEF TracedPlain, Applying, OverTypes
<1> QED
  BY <1>1, <1>5, <1>6, <1>7 DEF Traced

-------------------------------------------------------------------------------
(* The look into the store, and the program around the engine.               *)

LEMMA CheckNotAppliedTraced ==
  ASSUME TypeOK, EditsTraced, NEW t \in Threads, CheckNotApplied(t)
  PROVE  Traced(t)'
<1>1. Traced(t) /\ DOMAIN pc = Threads
  BY TracedContext
<1>2. /\ guid' = guid /\ disk' = disk /\ mods' = mods /\ log' = log /\ store' = store
      /\ pc[t] = "idle"
      /\ \/ pc' = [pc EXCEPT ![t] = "idle"]
         \/ pc' = [pc EXCEPT ![t] = "virtual"] /\ guid[t] \notin DOMAIN store
  BY DEF CheckNotApplied, Calls, Goto, Declines
<1>3. /\ Sole(t)' <=> Sole(t)
      /\ Alternates(t)' <=> Alternates(t)
      /\ Even(t)' <=> Even(t)
  BY <1>2 DEF Sole, Alternates, Even
<1>4. \/ pc'[t] = "idle"
      \/ pc'[t] = "virtual" /\ guid[t] \notin DOMAIN store
  BY <1>1, <1>2
<1>5. TracedPlain(t) => TracedPlain(t)'
  BY <1>2, <1>4 DEF TracedPlain, Applying, OverTypes
<1>6. TracedProjected(t) => TracedProjected(t)'
  BY <1>2, <1>4 DEF TracedProjected
<1> QED
  BY <1>1, <1>3, <1>5, <1>6 DEF Traced

LEMMA RereadTraced ==
  ASSUME TypeOK, EditsTraced, NEW t \in Threads, Reread(t)
  PROVE  Traced(t)' /\ log'[t] = <<>>
<1>1. DOMAIN mods = Threads /\ DOMAIN log = Threads
  BY TracedContext
<1>2. mods'[t] = disk'[t] /\ log'[t] = <<>> /\ pc'[t] = "idle"
  BY <1>1 DEF Reread
<1>3. Even(t)'
  BY <1>2 DEF Even
<1>4. SameDefinitions(mods'[t], disk'[t])
  BY <1>2 DEF SameDefinitions, SameTypes, SameBlobs, SameMethods, SameFields
<1>5. TracedPlain(t)'
  BY <1>2, <1>4 DEF TracedPlain, Applying, OverTypes
<1> QED
  BY <1>2, <1>3, <1>5 DEF Traced

LEMMA RepairTraced ==
  ASSUME TypeOK, EditsTraced, NEW t \in Threads, Repair(t)
  PROVE  Traced(t)'
<1>1. log[t] \in Seq(Outcomes)
  BY TracedContext
<1>2. log' = log /\ log[t] # <<>> /\ log[t][Len(log[t])] = "failed"
  BY DEF Repair, Last
<1>3. Len(log[t]) \in DOMAIN log[t]
  BY <1>1, <1>2
<1>4. ~Alternates(t)
  BY <1>2, <1>3 DEF Alternates
<1> QED
  BY <1>2, <1>4 DEF Traced, Alternates

LEMMA LogTyped ==
  ASSUME log \in [Threads -> Seq(Outcomes)], NEW t \in Threads,
         CheckNotApplied(t) \/ TakeRecord(t) \/ Reread(t) \/ Repair(t) \/ Continue(t)
  PROVE  log' \in [Threads -> Seq(Outcomes)]
<1>1. \/ log' = log
      \/ log' = [log EXCEPT ![t] = <<>>]
      \/ \E x \in Outcomes : log' = [log EXCEPT ![t] = Append(@, x)]
  <2>1. CASE CheckNotApplied(t)
    BY <2>1 DEF CheckNotApplied, Declines, Goto
  <2>2. CASE TakeRecord(t)
    BY <2>2 DEF TakeRecord, Declines, Goto
  <2>3. CASE Reread(t)
    BY <2>3 DEF Reread
  <2>4. CASE Repair(t)
    BY <2>4 DEF Repair
  <2>5. CASE AddVirtualReferences(t)
    BY <2>5 DEF AddVirtualReferences, Declines, Goto
  <2>6. CASE ProjectTypeReferences(t)
    BY <2>6 DEF ProjectTypeReferences, Goto
  <2>7. CASE ProjectTypeDefinition(t)
    BY ZenonT(60), <2>7, ProjectTypeDefinitionShape
  <2>8. CASE CollectInterface(t)
    BY <2>8, CollectInterfaceShape
  <2>9. CASE RedirectType(t)
    BY <2>9, RedirectTypeShape
  <2>10. CASE RewirePair(t)
    BY <2>10, RewirePairShape
  <2>11. CASE AppendGenerated(t)
    BY <2>11, AppendGeneratedShape
  <2>12. CASE ProjectFields(t)
    BY <2>12 DEF ProjectFields, Goto
  <2>13. CASE ProjectMethods(t)
    BY <2>13 DEF ProjectMethods, Goto
  <2>14. CASE ProjectAttributeRecords(t)
    BY <2>14 DEF ProjectAttributeRecords, Goto, Returns, Outcomes
  <2>15. CASE InsertRecord(t)
    BY <2>15 DEF InsertRecord, Returns, Outcomes
  <2>16. CASE RestoreMembers(t)
    BY <2>16 DEF RestoreMembers, Goto
  <2>17. CASE RestoreType(t)
    BY <2>17, RestoreTypeShape
  <2>18. CASE UnwirePair(t)
    BY <2>18, UnwirePairShape
  <2>19. CASE TypeRestored(t)
    BY <2>19 DEF TypeRestored, Goto
  <2>20. CASE RestoreTypeReferences(t)
    BY <2>20 DEF RestoreTypeReferences, Goto
  <2>21. CASE RemoveVirtualReferences(t)
    BY <2>21 DEF RemoveVirtualReferences, Returns, Outcomes
  <2> QED
    BY <2>1, <2>2, <2>3, <2>4, <2>5, <2>6, <2>7, <2>8, <2>9, <2>10, <2>11, <2>12, <2>13,
       <2>14, <2>15, <2>16, <2>17, <2>18, <2>19, <2>20, <2>21 DEF Continue
<1>2. CASE log' = [log EXCEPT ![t] = <<>>]
  <2>1. <<>> \in Seq(Outcomes)
    OBVIOUS
  <2> QED
    BY <1>2, <2>1
<1>3. ASSUME NEW x \in Outcomes, log' = [log EXCEPT ![t] = Append(@, x)]
      PROVE  log' \in [Threads -> Seq(Outcomes)]
  <2>1. Append(log[t], x) \in Seq(Outcomes)
    OBVIOUS
  <2> QED
    BY <1>3, <2>1
<1> QED
  BY <1>1, <1>2, <1>3

LEMMA EditsNext == TypeOK /\ EditsTraced /\ [Next]_vars => EditsTraced'
<1> SUFFICES ASSUME TypeOK, EditsTraced, [Next]_vars PROVE EditsTraced'
  OBVIOUS
<1>1. CASE UNCHANGED vars
  BY <1>1 DEF vars, EditsTraced, Traced, Sole, Alternates, Even, TracedPlain, TracedProjected,
              Recording, Restoring
<1>2. ASSUME NEW t \in Threads,
             CheckNotApplied(t) \/ TakeRecord(t) \/ Reread(t) \/ Repair(t) \/ Continue(t)
      PROVE  EditsTraced'
  <2>1. log \in [Threads -> Seq(Outcomes)]
    BY DEF EditsTraced
  <2>2. log' \in [Threads -> Seq(Outcomes)]
    BY <1>2, <2>1, LogTyped
  <2>3. ASSUME NEW u \in Threads \ {t} PROVE Traced(u)'
    <3>1. Frame(t, u) /\ guid' = guid /\ disk' = disk
      BY <1>2, <2>1, Framed
    <3> QED
      BY <3>1, OthersTraced
  <2>4. Traced(t)'
    <3>1. CASE CheckNotApplied(t)
      BY <3>1, CheckNotAppliedTraced
    <3>2. CASE TakeRecord(t)
      BY <3>2, TakeRecordTraced
    <3>3. CASE Reread(t)
      BY <3>3, RereadTraced
    <3>4. CASE Repair(t)
      BY <3>4, RepairTraced
    <3>5. CASE Continue(t)
      <4>1. CASE \/ AddVirtualReferences(t) \/ ProjectTypeReferences(t)
                 \/ ProjectTypeDefinition(t) \/ CollectInterface(t) \/ RedirectType(t)
                 \/ RewirePair(t) \/ AppendGenerated(t)
        BY <4>1, AddVirtualReferencesTraced, ProjectTypeReferencesTraced,
           ProjectTypeDefinitionTraced, CollectInterfaceTraced, RedirectTypeTraced,
           RewirePairTraced, AppendGeneratedTraced
      <4>2. CASE \/ ProjectFields(t) \/ ProjectMethods(t) \/ ProjectAttributeRecords(t)
                 \/ InsertRecord(t)
        BY <4>2, ProjectFieldsTraced, ProjectMethodsTraced, ProjectAttributeRecordsTraced,
           InsertRecordTraced
      <4>3. CASE \/ RestoreMembers(t) \/ RestoreType(t) \/ UnwirePair(t) \/ TypeRestored(t)
                 \/ RestoreTypeReferences(t) \/ RemoveVirtualReferences(t)
        BY <4>3, RestoreMembersTraced, RestoreTypeTraced, UnwirePairTraced, TypeRestoredTraced,
           RestoreTypeReferencesTraced, RemoveVirtualReferencesTraced
      <4> QED
        BY <3>5, <4>1, <4>2, <4>3 DEF Continue
    <3> QED
      BY <1>2, <3>1, <3>2, <3>3, <3>4, <3>5
  <2> QED
    BY <2>2, <2>3, <2>4 DEF EditsTraced
<1> QED
  BY <1>1, <1>2 DEF Next

LEMMA InitialEdits == Init => EditsTraced
<1> SUFFICES ASSUME Init PROVE EditsTraced
  OBVIOUS
<1>1. /\ log = [u \in Threads |-> <<>>] /\ pc = [u \in Threads |-> "idle"] /\ mods = disk
  BY DEF Init
<1>2. log \in [Threads -> Seq(Outcomes)]
  BY <1>1
<1>3. ASSUME NEW t \in Threads PROVE Traced(t)
  <2>1. log[t] = <<>> /\ pc[t] = "idle" /\ mods[t] = disk[t]
    BY <1>1
  <2>2. Even(t)
    BY <2>1 DEF Even
  <2>3. SameDefinitions(mods[t], disk[t])
    BY <2>1 DEF SameDefinitions, SameTypes, SameBlobs, SameMethods, SameFields
  <2>4. TracedPlain(t)
    BY <2>1, <2>3 DEF TracedPlain, Applying, OverTypes
  <2> QED
    BY <2>2, <2>4 DEF Traced
<1> QED
  BY <1>2, <1>3 DEF EditsTraced

(* Each edit is traced in every reachable state: the inductive invariant.    *)
LEMMA EditsAreTraced == Spec => []EditsTraced
<1>1. Init => EditsTraced
  BY InitialEdits
<1>2. TypeOK /\ EditsTraced /\ [Next]_vars => EditsTraced'
  BY EditsNext
<1> QED
  BY <1>1, <1>2, TypesSound, PTL DEF Spec

LEMMA TracedEditsAreRecorded == TypeOK /\ EditsTraced => EditsAreRecorded
<1> SUFFICES ASSUME TypeOK, EditsTraced, NEW t \in Threads, IsProjected(t), Sole(t)
             PROVE  LET r == store[guid[t]]
                        now == mods[t]
                        was == disk[t]
                        shown(x) == [f |-> x.flags, p |-> x.prefix]
                    IN  /\ guid[t] \in DOMAIN store
                        /\ \A i \in DOMAIN now.types :
                              /\ (shown(now.types[i]) # shown(was.types[i])
                                    \/ now.types[i].methods # was.types[i].methods)
                                   => i \in DOMAIN r.types
                              /\ \A j \in DOMAIN now.types[i].attrs :
                                    now.types[i].attrs[j].blob # was.types[i].attrs[j].blob
                                      => <<i, j>> \in DOMAIN r.attrs
                        /\ \A k \in DOMAIN was.methods :
                              (now.methods[k].flags # was.methods[k].flags
                                 \/ now.methods[k].access # was.methods[k].access)
                                   => k \in DOMAIN r.methods
                        /\ \A f \in DOMAIN now.fields :
                              now.fields[f] # was.fields[f] => f \in DOMAIN r.fields
  BY DEF EditsAreRecorded
<1> DEFINE r == store[guid[t]]
           now == mods[t]
           was == disk[t]
<1>1. Traced(t) /\ IsModule(now) /\ IsModule(was) /\ SameShape(now, was)
  BY TracedContext
<1>2. pc[t] = "idle" /\ Alternates(t) /\ ~Even(t)
  <2>1. pc[t] = "idle" /\ Alternates(t) /\ Len(log[t]) % 2 = 1
    BY DEF IsProjected
  <2>2. ~(Len(log[t]) % 2 = 0)
    <3>1. Len(log[t]) \in Nat
      BY TracedContext
    <3> DEFINE n == Len(log[t])
    <3> HIDE DEF n
    <3>2. n \in Nat /\ n % 2 = 1
      BY <2>1, <3>1 DEF n
    <3>3. ~(n % 2 = 0)
      BY <3>2
    <3> QED
      BY <3>3 DEF n
  <2> QED
    BY <2>1, <2>2 DEF Even
<1>3. guid[t] \in DOMAIN store /\ Recorded(now, was, r)
  BY <1>1, <1>2 DEF Traced, TracedProjected
<1> HIDE DEF r, now, was
<1>4. ASSUME NEW i \in DOMAIN now.types
      PROVE  /\ ([f |-> now.types[i].flags, p |-> now.types[i].prefix] #
                    [f |-> was.types[i].flags, p |-> was.types[i].prefix]
                  \/ now.types[i].methods # was.types[i].methods) => i \in DOMAIN r.types
             /\ \A j \in DOMAIN now.types[i].attrs :
                   now.types[i].attrs[j].blob # was.types[i].attrs[j].blob
                     => <<i, j>> \in DOMAIN r.attrs
  <2>1. i \in DOMAIN was.types /\ DOMAIN now.types[i].attrs = DOMAIN was.types[i].attrs
    BY <1>1 DEF SameShape
  <2>2. TypeRecorded(now, was, r, i)
    BY <1>3, <2>1 DEF Recorded, TypesRecorded
  <2>3. i \notin DOMAIN r.types => Alike(now.types[i], was.types[i])
    BY <2>2 DEF TypeRecorded
  <2>4. ASSUME NEW j \in DOMAIN now.types[i].attrs, <<i, j>> \notin DOMAIN r.attrs
        PROVE  now.types[i].attrs[j].blob = was.types[i].attrs[j].blob
    BY <1>3, <2>1, <2>4 DEF Recorded, BlobsRecorded
  <2> QED
    BY <2>3, <2>4 DEF Alike
<1>5. ASSUME NEW k \in DOMAIN was.methods, k \notin DOMAIN r.methods
      PROVE  now.methods[k].flags = was.methods[k].flags /\ now.methods[k].access = was.methods[k].access
  BY <1>3, <1>5 DEF Recorded, MethodsRecorded
<1>6. ASSUME NEW f \in DOMAIN now.fields, f \notin DOMAIN r.fields
      PROVE  now.fields[f] = was.fields[f]
  <2>1. f \in DOMAIN was.fields
    BY <1>1 DEF SameShape
  <2>2. /\ now.fields[f] = [access |-> now.fields[f].access, value |-> now.fields[f].value]
        /\ was.fields[f] = [access |-> was.fields[f].access, value |-> was.fields[f].value]
    BY <1>1, <2>1 DEF IsModule, IsField
  <2>3. now.fields[f].value = was.fields[f].value /\ was.fields[f].access = now.fields[f].access
    BY <1>3, <1>6, <2>1 DEF Recorded, FieldsRecorded
  <2> QED
    BY <2>2, <2>3
<1> QED
  BY <1>3, <1>4, <1>5, <1>6 DEF r, now, was

(* Whatever calls are made on modules that share the store, a module the     *)
(* engine has projected has its record in the store, and the record names    *)
(* every definition that is shown differently from the file; no record is in *)
(* two places.  is_projected_type and its companions therefore answer for    *)
(* every edit, and remove_projections finds all of them.                     *)
THEOREM ProjectionsAreRecorded == Spec => []RecordsSound
<1>1. TypeOK /\ EditsTraced => EditsAreRecorded
  BY TracedEditsAreRecorded
<1>2. RecordsSound <=> EditsAreRecorded /\ RecordHasOneOwner
  BY DEF RecordsSound
<1> QED
  BY <1>1, <1>2, TypesSound, EditsAreTraced, RecordsHaveOneOwner, PTL

(* What a removal gives back of the definitions of a module whose guid is    *)
(* its own: the flags, names and method lists of the types, the access and   *)
(* flags of the methods, the fields and the attribute blobs are those of the *)
(* file, after any number of applies each undone in turn.                    *)
DefinitionsRestored ==
    \A t \in Threads : IsPlain(t) /\ Sole(t) => SameDefinitions(mods[t], disk[t])

(* remove_projections undoes apply_projections on every definition, with no  *)
(* condition on how the references of the module collide.                    *)
THEOREM RemovalRestoresDefinitions == Spec => []DefinitionsRestored
<1>1. EditsTraced => DefinitionsRestored
  BY DEF EditsTraced, DefinitionsRestored, Traced, IsPlain, Even, TracedPlain
<1> QED
  BY <1>1, EditsAreTraced, PTL

=============================================================================
