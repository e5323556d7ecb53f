-------------------------- MODULE WinRtRestoreProofs --------------------------
(***************************************************************************)
(* Proof that remove_projections undoes apply_projections on a whole       *)
(* module, references included, for any files and any number of threads,   *)
(* guids and calls.                                                        *)
(***************************************************************************)
EXTENDS WinRtProofs

-------------------------------------------------------------------------------
(* References.  What no pass changes of a module, whatever its references    *)
(* are.                                                                       *)

TypeKeeps(new, old) ==
    /\ new.id = old.id /\ new.fields = old.fields /\ new.nested = old.nested
    /\ IsRecord(old) => IsRecord(new)
    /\ \A j \in DOMAIN old.attrs : IsRecord(old.attrs[j]) => IsRecord(new.attrs[j])

MethodKeeps(new, old) ==
    /\ new.name = old.name /\ new.owner = old.owner /\ new.treatAsPublic = old.treatAsPublic
    /\ IsRecord(old) => IsRecord(new)
    /\ DOMAIN new.overrides = DOMAIN old.overrides
    /\ \A j \in DOMAIN old.overrides :
          /\ new.overrides[j].name = old.overrides[j].name
          /\ IsRecord(old.overrides[j]) => IsRecord(new.overrides[j])

Keeps(now, was) ==
    /\ now.kind = was.kind /\ DOMAIN now.loose = DOMAIN was.loose
    /\ \A i \in DOMAIN was.types : TypeKeeps(now.types[i], was.types[i])
    /\ \A k \in DOMAIN was.methods : MethodKeeps(now.methods[k], was.methods[k])

(* The references of one module, turned back one by one, are those of        *)
(* another, interfaces aside.                                                *)
TurnsBack(now, was, refs) ==
    /\ \A j \in DOMAIN was.loose : Restored(now.loose[j], refs) = was.loose[j]
    /\ \A i \in DOMAIN was.types :
          /\ Restored(now.types[i].base, refs) = was.types[i].base
          /\ \A j \in DOMAIN was.types[i].attrs :
                Restored(now.types[i].attrs[j].ctor, refs) = was.types[i].attrs[j].ctor
    /\ \A k \in ListedMethods(was) : \A j \in DOMAIN was.methods[k].overrides :
          Restored(now.methods[k].overrides[j].parent, refs) = was.methods[k].overrides[j].parent

(* A module that is as it was, but for its references to assemblies and for  *)
(* methods no type lists.                                                    *)
AsRead(now, was) ==
    /\ now.types = was.types /\ now.loose = was.loose
    /\ \A k \in ListedMethods(was) : now.methods[k] = was.methods[k]

(* What the map of a record says: each entry is the original of what has     *)
(* this identity once it is projected.                                       *)
Inverts(refs) == \A id \in DOMAIN refs :
    /\ "id" \in DOMAIN refs[id].orig
    /\ Projected(refs[id].orig).id = id /\ refs[id].treatment = Treatment(refs[id].orig)

(* A pair of a projected interface and its original turns back to one thing. *)
PairSound(p, refs) == Restored(p[1], refs) = Restored(p[2], refs)
PairsSound(pairs, refs) == IsSequence(pairs) /\ \A l \in DOMAIN pairs : PairSound(pairs[l], refs)

(* The interfaces of a type that owes pairs: those of the file, projected,   *)
(* then for each pair, in some order, its original.                          *)
Places(f, now, was, pairs) ==
    /\ \A l \in DOMAIN pairs : f[l] > Len(was) /\ now[f[l]] = pairs[l][2]
    /\ \A a, b \in DOMAIN pairs : f[a] = f[b] => a = b

Duplicated(now, was, pairs, refs) ==
    /\ PairsSound(pairs, refs)
    /\ Len(now) = Len(was) + Len(pairs)
    /\ \A k \in DOMAIN was : now[k] = Projected(was[k]) /\ Restored(now[k], refs) = was[k]
    /\ \A k \in DOMAIN was : \A l \in DOMAIN pairs : now[k] # pairs[l][2]
    /\ \E f \in [DOMAIN pairs -> DOMAIN now] : Places(f, now, was, pairs)

RecordedPairs(r, i) ==
    IF i \in DOMAIN r.types /\ "Redirect" \in r.types[i].treatment THEN r.types[i].pairs ELSE <<>>

(* The pairs a removal at pass p, with w at hand, has not taken back yet.    *)
Owed(p, w, r, i) ==
    IF p = "unwire" /\ i = w.at THEN w.pairs
    ELSE IF p \in {"untypes", "unwire"} /\ i < w.at THEN <<>> ELSE RecordedPairs(r, i)

(* The references to assemblies of a projected module.                       *)
Corlib(refs) == {k \in DOMAIN refs : refs[k].name = "mscorlib"}
Virtual == [v \in DOMAIN VirtualNames |-> [name |-> VirtualNames[v], version |-> "4.0"]]

VirtualAdded(now, was, version) ==
    /\ Corlib(was) # {} /\ version = was[Min(Corlib(was))].version
    /\ now = [was EXCEPT ![Min(Corlib(was))].version = "4.0"] \o Virtual

(* A module that record r brings back.                                       *)
Halfway(now, was, p, w, r) ==
    /\ Inverts(r.refs) /\ TurnsBack(now, was, r.refs)
    /\ VirtualAdded(now.refs, was.refs, r.version)
    /\ \A i \in DOMAIN was.types :
          Duplicated(now.types[i].ifaces, was.types[i].ifaces, Owed(p, w, r, i), r.refs)

RefPlain(t) ==
    /\ pc[t] \in {"idle", "virtual"} => AsRead(mods[t], disk[t]) /\ mods[t].refs = disk[t].refs
    /\ pc[t] = "references" => /\ AsRead(mods[t], disk[t]) /\ DOMAIN rec[t].types = {}
                               /\ VirtualAdded(mods[t].refs, disk[t].refs, rec[t].version)
    /\ pc[t] \in Applying \ {"references"} => Halfway(mods[t], disk[t], pc[t], work[t], rec[t])
    /\ pc[t] = "rewire" => PairsSound(work[t].pairs, rec[t].refs)

RefProjected(t) ==
    /\ pc[t] = "idle" => Halfway(mods[t], disk[t], pc[t], work[t], store[guid[t]])
    /\ pc[t] \in {"restore", "untypes", "unwire"} => Halfway(mods[t], disk[t], pc[t], work[t], rec[t])
    /\ pc[t] = "unvirtual" => /\ AsRead(mods[t], disk[t])
                              /\ VirtualAdded(mods[t].refs, disk[t].refs, rec[t].version)

RefTraced(t) ==
    Sole(t) /\ Alternates(t) /\ ~Collides(disk[t]) => IF Even(t) THEN RefPlain(t) ELSE RefProjected(t)

FileKept(t) == IsFile(disk[t]) /\ Keeps(mods[t], disk[t])

ReferencesTraced == \A t \in Threads : FileKept(t) /\ RefTraced(t)

-------------------------------------------------------------------------------
(* Sequences of sequences joined, and what the walk over a module meets.     *)

(* What was joined is in the joint.                                          *)
LEMMA JoinedRange ==
  ASSUME NEW s, IsSequence(s), NEW t, IsSequence(t)
  PROVE  IsSequence(s \o t) /\ Range(s) \subseteq Range(s \o t) /\ Range(t) \subseteq Range(s \o t)
<1> DEFINE c == s \o t
           S == Range(s) \cup Range(t)
<1>1. s \in Seq(S) /\ t \in Seq(S)
  BY InWider
<1> HIDE DEF S
<1>2. /\ Len(c) = Len(s) + Len(t)
      /\ \A i \in 1..Len(s) + Len(t) : c[i] = IF i <= Len(s) THEN s[i] ELSE t[i - Len(s)]
      /\ IsSequence(c) /\ DOMAIN c = 1..Len(s) + Len(t)
  BY <1>1, ConcatProperties, ConcatSequence
<1> HIDE DEF c
<1>3. /\ DOMAIN s = 1..Len(s) /\ Len(s) \in Nat /\ DOMAIN t = 1..Len(t) /\ Len(t) \in Nat
  BY SequenceMeans
<1>4. \A i \in DOMAIN s : i \in DOMAIN c /\ c[i] = s[i]
  BY <1>2, <1>3
<1>5. ASSUME NEW i \in DOMAIN t PROVE Len(s) + i \in DOMAIN c /\ c[Len(s) + i] = t[i]
  <2>1. Len(s) + i \in 1..Len(s) + Len(t) /\ ~(Len(s) + i <= Len(s)) /\ (Len(s) + i) - Len(s) = i
    BY <1>3
  <2> QED
    BY <1>2, <2>1
<1> QED
  BY <1>2, <1>4, <1>5 DEF Range, c

Flattens(f, ss, n) == f = [i \in 1..n |-> IF i = 1 THEN ss[i] ELSE f[i - 1] \o ss[i]]

LEMMA FlattensAt ==
  ASSUME NEW f, NEW ss, NEW n, Flattens(f, ss, n)
  PROVE  /\ 1 \in 1..n => f[1] = ss[1]
         /\ \A i \in 1..n : i # 1 => f[i] = f[i - 1] \o ss[i]
<1>1. \A i \in 1..n : f[i] = [k \in 1..n |-> IF k = 1 THEN ss[k] ELSE f[k - 1] \o ss[k]][i]
  BY Zenon DEF Flattens
<1>2. ASSUME 1 \in 1..n PROVE f[1] = ss[1]
  BY Zenon, <1>1, <1>2
<1>3. ASSUME NEW i \in 1..n, i # 1 PROVE f[i] = f[i - 1] \o ss[i]
  BY Zenon, <1>1, <1>3
<1> QED
  BY Zenon, <1>2, <1>3

(* Joining goes through to the end: the least length without a joint would   *)
(* be one more than a length with it.                                        *)
LEMMA JointExists ==
  ASSUME NEW ss, NEW n \in Nat
  PROVE  \E f : Flattens(f, ss, n)
<1> DEFINE Bad == {m \in Nat : ~\E f : Flattens(f, ss, m)}
<1> SUFFICES ASSUME Bad # {} PROVE FALSE
  OBVIOUS
<1>1. PICK m \in Bad : \A j \in Bad : m <= j
  <2> HIDE DEF Bad
  <2>1. Bad \in SUBSET Nat
    BY DEF Bad
  <2> QED
    BY <2>1, LeastNat
<1>2. m # 0
  <2>1. Flattens([k \in 1..0 |-> 0], ss, 0)
    BY DEF Flattens
  <2> QED
    BY <1>1, <2>1
<1>3. m \in Nat /\ m - 1 \in Nat /\ m - 1 \notin Bad
  <2> HIDE DEF Bad
  <2>1. m \in Nat
    BY DEF Bad
  <2> QED
    BY <1>1, <1>2, <2>1
<1>4. PICK f : Flattens(f, ss, m - 1)
  BY <1>3
<1> DEFINE g == [i \in 1..m |-> IF i = 1 THEN ss[i] ELSE f[i - 1] \o ss[i]]
<1>5. ASSUME NEW i \in 1..(m - 1) PROVE f[i] = g[i]
  <2>0. 1 \in 1..(m - 1)
    BY <1>3
  <2>1. i \in 1..m
    BY <1>3
  <2>2. g[i] = IF i = 1 THEN ss[i] ELSE f[i - 1] \o ss[i]
    BY Zenon, <2>1
  <2>3. f[1] = ss[1] /\ (i # 1 => f[i] = f[i - 1] \o ss[i])
    <3> HIDE DEF g, Bad
    <3>1. Flattens(f, ss, m - 1)
      BY Zenon, <1>4
    <3>2. f[1] = ss[1]
      BY Zenon, <3>1, <2>0, FlattensAt
    <3>3. \A k \in 1..(m - 1) : k # 1 => f[k] = f[k - 1] \o ss[k]
      BY Zenon, <3>1, FlattensAt
    <3> QED
      BY Zenon, <3>2, <3>3
  <2> HIDE DEF g
  <2> QED
    BY <2>2, <2>3
<1>6. Flattens(g, ss, m)
  <2>1. \A i \in 1..m : i # 1 => i - 1 \in 1..(m - 1)
    BY <1>3
  <2> QED
    BY <1>5, <2>1 DEF Flattens
<1> QED
  BY <1>1, <1>6

(* All that is joined is in the joint.                                       *)
LEMMA FlattenedRange ==
  ASSUME NEW ss, IsSequence(ss), \A i \in DOMAIN ss : IsSequence(ss[i])
  PROVE  IsSequence(FlattenSeq(ss)) /\ \A i \in DOMAIN ss : Range(ss[i]) \subseteq Range(FlattenSeq(ss))
<1> DEFINE n == Len(ss)
<1>1. n \in Nat /\ DOMAIN ss = 1..n
  BY SequenceMeans
<1>2. CASE n = 0
  <2>1. FlattenSeq(ss) = ss /\ DOMAIN ss = {}
    BY <1>1, <1>2 DEF FlattenSeq
  <2> QED
    BY <2>1
<1>3. CASE n # 0
  <2> DEFINE Flat(f) == f = [i \in 1..n |-> IF i = 1 THEN ss[i] ELSE f[i - 1] \o ss[i]]
             flat == CHOOSE f : Flat(f)
  <2>1. FlattenSeq(ss) = flat[n]
    BY <1>3 DEF FlattenSeq
  <2>2. Flat(flat)
    <3>1. \E f : Flat(f)
      BY <1>1, JointExists DEF Flattens
    <3> HIDE DEF Flat
    <3> QED
      BY <3>1
  <2>3. flat[1] = ss[1] /\ \A i \in 1..n : i # 1 => flat[i] = flat[i - 1] \o ss[i]
    <3>1. 1 \in 1..n
      BY <1>1, <1>3
    <3>2. Flattens(flat, ss, n)
      BY <2>2 DEF Flattens
    <3> HIDE DEF flat, Flat, n
    <3> QED
      BY Zenon, <3>1, <3>2, FlattensAt
  <2> HIDE DEF flat, Flat, n
  <2> DEFINE Good(k) == /\ IsSequence(flat[k])
                        /\ \A i \in 1..k : Range(ss[i]) \subseteq Range(flat[k])
             Bad == {k \in Nat : k \in 1..n /\ ~Good(k)}
  <2>4. Bad = {}
    <3> SUFFICES ASSUME Bad # {} PROVE FALSE
      OBVIOUS
    <3>1. PICK k \in Bad : \A j \in Bad : k <= j
      <4> HIDE DEF Bad
      <4>1. Bad \in SUBSET Nat
        BY DEF Bad
      <4> QED
        BY <4>1, LeastNat
    <3>2. k \in 1..n /\ ~Good(k)
      BY <3>1
    <3>3. CASE k = 1
      <4>1. flat[1] = ss[1] /\ IsSequence(ss[1]) /\ \A i \in 1..1 : i = 1
        BY <1>1, <2>3, <3>2, <3>3
      <4> QED
        BY <3>2, <3>3, <4>1
    <3>4. CASE k # 1
      <4>1. k - 1 \in 1..n /\ k - 1 \in Nat /\ ~(k <= k - 1)
        BY <1>1, <3>2, <3>4
      <4>2. Good(k - 1)
        <5> HIDE DEF Good
        <5> QED
          BY <3>1, <4>1
      <4>3. flat[k] = flat[k - 1] \o ss[k] /\ IsSequence(ss[k]) /\ IsSequence(flat[k - 1])
        BY <1>1, <2>3, <3>2, <3>4, <4>2
      <4>4. /\ IsSequence(flat[k]) /\ Range(flat[k - 1]) \subseteq Range(flat[k])
            /\ Range(ss[k]) \subseteq Range(flat[k])
        BY <4>3, JoinedRange
      <4>5. \A i \in 1..k : i \in 1..(k - 1) \/ i = k
        BY <1>1, <3>2
      <4> QED
        BY <3>2, <4>2, <4>4, <4>5
    <3> QED
      BY <3>3, <3>4
  <2>5. n \in Nat /\ n \in 1..n
    BY <1>1, <1>3
  <2>6. Good(n)
    <3> HIDE DEF Good
    <3> QED
      BY <2>4, <2>5
  <2> QED
    BY <1>1, <2>1, <2>6
<1> QED
  BY <1>2, <1>3

Parents(m, k) == [j \in 1..Len(m.methods[k].overrides) |-> m.methods[k].overrides[j].parent]
Ctors(ty) == [j \in 1..Len(ty.attrs) |-> ty.attrs[j].ctor]
ParentsOf(m, ty) == [j \in 1..Len(ty.methods) |-> Parents(m, ty.methods[j])]
OfType(m, ty) == <<ty.base>> \o ty.ifaces \o Ctors(ty) \o FlattenSeq(ParentsOf(m, ty))
OfTypes(m) == [i \in 1..Len(m.types) |-> OfType(m, m.types[i])]

LEMMA ExternalsAre ==
  ASSUME NEW m
  PROVE  Externals(m) = FlattenSeq(OfTypes(m)) \o m.loose
BY DEF Externals, OfTypes, OfType, Ctors, ParentsOf, Parents

LEMMA TypeMet ==
  ASSUME NEW m, IsModule(m), NEW i \in DOMAIN m.types
  PROVE  LET ty == m.types[i]
             es == OfType(m, ty)
         IN  /\ IsSequence(es)
             /\ ty.base \in Range(es) /\ Range(ty.ifaces) \subseteq Range(es)
             /\ \A j \in DOMAIN ty.attrs : ty.attrs[j].ctor \in Range(es)
             /\ \A k \in Range(ty.methods) : \A j \in DOMAIN m.methods[k].overrides :
                   m.methods[k].overrides[j].parent \in Range(es)
<1> DEFINE ty == m.types[i]
           one == <<ty.base>>
           a == one \o ty.ifaces
           b == a \o Ctors(ty)
           ps == ParentsOf(m, ty)
<1>1. IsType(ty, m) /\ \A k \in DOMAIN m.methods : IsMethod(m.methods[k], m)
  BY DEF IsModule
<1>2. IsSequence(one) /\ ty.base \in Range(one)
  <2>1. one = [k \in 1..1 |-> one[k]] /\ one[1] = ty.base
    OBVIOUS
  <2> HIDE DEF one
  <2>2. IsSequence(one) /\ DOMAIN one = 1..1
    BY <2>1, SequenceIs
  <2> QED
    BY <2>1, <2>2 DEF Range
<1>3. IsSequence(Ctors(ty)) /\ \A j \in DOMAIN ty.attrs : ty.attrs[j].ctor \in Range(Ctors(ty))
  <2>1. DOMAIN ty.attrs = 1..Len(ty.attrs) /\ Len(ty.attrs) \in Nat
    BY <1>1, SequenceMeans DEF IsType
  <2>2. /\ Ctors(ty) = [j \in 1..Len(ty.attrs) |-> Ctors(ty)[j]]
        /\ \A j \in 1..Len(ty.attrs) : Ctors(ty)[j] = ty.attrs[j].ctor
    BY DEF Ctors
  <2>3. IsSequence(Ctors(ty)) /\ DOMAIN Ctors(ty) = 1..Len(ty.attrs)
    BY <2>1, <2>2, SequenceIs
  <2> QED
    BY <2>1, <2>2, <2>3 DEF Range
<1>4. ASSUME NEW k \in DOMAIN m.methods
      PROVE  /\ IsSequence(Parents(m, k))
             /\ \A j \in DOMAIN m.methods[k].overrides :
                   m.methods[k].overrides[j].parent \in Range(Parents(m, k))
  <2> DEFINE os == m.methods[k].overrides
  <2>1. DOMAIN os = 1..Len(os) /\ Len(os) \in Nat
    BY <1>1, SequenceMeans DEF IsMethod
  <2>2. /\ Parents(m, k) = [j \in 1..Len(os) |-> Parents(m, k)[j]]
        /\ \A j \in 1..Len(os) : Parents(m, k)[j] = os[j].parent
    BY DEF Parents
  <2> HIDE DEF os
  <2>3. IsSequence(Parents(m, k)) /\ DOMAIN Parents(m, k) = 1..Len(os)
    BY <2>1, <2>2, SequenceIs
  <2>4. \A j \in DOMAIN os : os[j].parent \in Range(Parents(m, k))
    BY <2>1, <2>2, <2>3 DEF Range
  <2> QED
    BY <2>3, <2>4 DEF os
<1>5. /\ IsSequence(FlattenSeq(ps))
      /\ \A k \in Range(ty.methods) : Range(Parents(m, k)) \subseteq Range(FlattenSeq(ps))
  <2>1. DOMAIN ty.methods = 1..Len(ty.methods) /\ Len(ty.methods) \in Nat
    BY <1>1, SequenceMeans DEF IsType
  <2>2. /\ ps = [j \in 1..Len(ty.methods) |-> ps[j]]
        /\ \A j \in 1..Len(ty.methods) : ps[j] = Parents(m, ty.methods[j])
    BY DEF ParentsOf
  <2>3. \A j \in DOMAIN ty.methods : ty.methods[j] \in DOMAIN m.methods
    BY <1>1 DEF IsType, Range
  <2> HIDE DEF ps
  <2>4. IsSequence(ps) /\ DOMAIN ps = 1..Len(ty.methods)
    BY <2>1, <2>2, SequenceIs
  <2>5. \A j \in DOMAIN ps : IsSequence(ps[j])
    BY <1>4, <2>1, <2>2, <2>3, <2>4
  <2>6. IsSequence(FlattenSeq(ps)) /\ \A j \in DOMAIN ps : Range(ps[j]) \subseteq Range(FlattenSeq(ps))
    BY <2>4, <2>5, FlattenedRange
  <2>7. ASSUME NEW k \in Range(ty.methods)
        PROVE  Range(Parents(m, k)) \subseteq Range(FlattenSeq(ps))
    <3>1. PICK j \in DOMAIN ty.methods : ty.methods[j] = k
      BY DEF Range
    <3>2. j \in DOMAIN ps /\ ps[j] = Parents(m, k)
      BY <2>1, <2>2, <2>4, <3>1
    <3> QED
      BY <2>6, <3>2
  <2> QED
    BY <2>6, <2>7
<1>6. /\ IsSequence(a) /\ Range(one) \subseteq Range(a) /\ Range(ty.ifaces) \subseteq Range(a)
  BY <1>1, <1>2, JoinedRange DEF IsType
<1>7. /\ IsSequence(b) /\ Range(a) \subseteq Range(b) /\ Range(Ctors(ty)) \subseteq Range(b)
  <2> HIDE DEF a
  <2> QED
    BY <1>3, <1>6, JoinedRange
<1>8. LET es == OfType(m, ty)
      IN  /\ IsSequence(es) /\ Range(b) \subseteq Range(es) /\ Range(FlattenSeq(ps)) \subseteq Range(es)
  <2>1. OfType(m, ty) = b \o FlattenSeq(ps)
    BY DEF OfType
  <2> HIDE DEF b, ps
  <2> QED
    BY <1>5, <1>7, <2>1, JoinedRange
<1>9. Range(ty.methods) \subseteq DOMAIN m.methods
  BY <1>1 DEF IsType
<1> HIDE DEF ty, one, a, b, ps
<1>10. /\ ty.base \in Range(OfType(m, ty)) /\ Range(ty.ifaces) \subseteq Range(OfType(m, ty))
       /\ \A j \in DOMAIN ty.attrs : ty.attrs[j].ctor \in Range(OfType(m, ty))
  BY <1>2, <1>3, <1>6, <1>7, <1>8
<1>11. ASSUME NEW k \in Range(ty.methods), NEW j \in DOMAIN m.methods[k].overrides
       PROVE  m.methods[k].overrides[j].parent \in Range(OfType(m, ty))
  BY <1>4, <1>5, <1>8, <1>9
<1> QED
  BY <1>8, <1>10, <1>11 DEF ty

(* The walk meets every reference of a module that is written out.           *)
LEMMA AllMet ==
  ASSUME NEW m, IsModule(m)
  PROVE  /\ IsSequence(Externals(m))
         /\ \A i \in DOMAIN m.types : LET ty == m.types[i] IN
               /\ ty.base \in Range(Externals(m)) /\ Range(ty.ifaces) \subseteq Range(Externals(m))
               /\ \A j \in DOMAIN ty.attrs : ty.attrs[j].ctor \in Range(Externals(m))
         /\ \A k \in ListedMethods(m) : \A j \in DOMAIN m.methods[k].overrides :
               m.methods[k].overrides[j].parent \in Range(Externals(m))
         /\ Range(m.loose) \subseteq Range(Externals(m))
<1> DEFINE ss == OfTypes(m)
           all == Externals(m)
<1>1. /\ DOMAIN m.types = 1..Len(m.types) /\ Len(m.types) \in Nat
      /\ IsSequence(m.loose)
  BY SequenceMeans DEF IsModule
<1>2. /\ ss = [i \in 1..Len(m.types) |-> ss[i]]
      /\ \A i \in 1..Len(m.types) : ss[i] = OfType(m, m.types[i])
  BY DEF OfTypes
<1> HIDE DEF ss
<1>3. IsSequence(ss) /\ DOMAIN ss = 1..Len(m.types)
  BY <1>1, <1>2, SequenceIs
<1>4. \A i \in DOMAIN ss : IsSequence(ss[i])
  BY <1>1, <1>2, <1>3, TypeMet
<1>5. IsSequence(FlattenSeq(ss)) /\ \A i \in DOMAIN ss : Range(ss[i]) \subseteq Range(FlattenSeq(ss))
  BY <1>3, <1>4, FlattenedRange
<1>6. all = FlattenSeq(ss) \o m.loose
  BY ExternalsAre DEF ss
<1> HIDE DEF all
<1>7. /\ IsSequence(all) /\ Range(FlattenSeq(ss)) \subseteq Range(all) /\ Range(m.loose) \subseteq Range(all)
  BY <1>1, <1>5, <1>6, JoinedRange
<1>8. ASSUME NEW i \in DOMAIN m.types PROVE Range(OfType(m, m.types[i])) \subseteq Range(all)
  BY <1>1, <1>2, <1>3, <1>5, <1>7
<1>9. ASSUME NEW i \in DOMAIN m.types
      PROVE  LET ty == m.types[i] IN
             /\ ty.base \in Range(all) /\ Range(ty.ifaces) \subseteq Range(all)
             /\ \A j \in DOMAIN ty.attrs : ty.attrs[j].ctor \in Range(all)
             /\ \A k \in Range(ty.methods) : \A j \in DOMAIN m.methods[k].overrides :
                   m.methods[k].overrides[j].parent \in Range(all)
  BY <1>8, TypeMet
<1>10. ASSUME NEW k \in ListedMethods(m), NEW j \in DOMAIN m.methods[k].overrides
       PROVE  m.methods[k].overrides[j].parent \in Range(all)
  <2>1. PICK i \in 1..Len(m.types) : k \in Range(m.types[i].methods)
    BY DEF ListedMethods
  <2> QED
    BY <1>1, <1>9, <2>1
<1> QED
  BY <1>7, <1>9, <1>10 DEF all

(* Modules alike in types, methods listed and the rest have one walk.        *)
LEMMA SameWalk ==
  ASSUME NEW now, NEW was, IsModule(was), AsRead(now, was)
  PROVE  ListedMethods(now) = ListedMethods(was) /\ Externals(now) = Externals(was)
<1>1. now.types = was.types /\ now.loose = was.loose
  BY DEF AsRead
<1>2. ASSUME NEW i \in 1..Len(was.types), NEW j \in 1..Len(was.types[i].methods)
      PROVE  Parents(now, was.types[i].methods[j]) = Parents(was, was.types[i].methods[j])
  <2>1. i \in DOMAIN was.types
    BY SequenceMeans DEF IsModule
  <2>2. IsSequence(was.types[i].methods)
    BY <2>1 DEF IsModule, IsType
  <2>3. j \in DOMAIN was.types[i].methods
    BY <2>2, SequenceMeans
  <2>4. was.types[i].methods[j] \in ListedMethods(was)
    BY <2>3 DEF ListedMethods, Range
  <2>5. now.methods[was.types[i].methods[j]] = was.methods[was.types[i].methods[j]]
    BY <2>4 DEF AsRead
  <2> QED
    BY Zenon, <2>5 DEF Parents
<1>3. ASSUME NEW i \in 1..Len(was.types)
      PROVE  OfType(now, was.types[i]) = OfType(was, was.types[i])
  <2>1. ParentsOf(now, was.types[i]) = ParentsOf(was, was.types[i])
    BY ZenonT(60), <1>2 DEF ParentsOf
  <2> QED
    BY Zenon, <2>1 DEF OfType
<1>4. OfTypes(now) = OfTypes(was)
  BY ZenonT(60), <1>1, <1>3 DEF OfTypes
<1> QED
  BY <1>1, <1>4, ExternalsAre DEF ListedMethods

-------------------------------------------------------------------------------
(* The map of a record and what it turns back.                               *)

LEMMA RecordsOf ==
  ASSUME NEW m, IsModule(m)
  PROVE  LET es == Externals(m)
             refs == ReferenceRecords(m)
         IN  /\ \A k \in DOMAIN es : Treatment(es[k]) # "None" => Projected(es[k]).id \in DOMAIN refs
             /\ \A id \in DOMAIN refs : \E k \in DOMAIN es :
                   /\ refs[id].orig = es[k] /\ refs[id].treatment = Treatment(es[k])
                   /\ Projected(es[k]).id = id /\ Treatment(es[k]) # "None"
<1> DEFINE es == Externals(m)
           refs == ReferenceRecords(m)
           treated == {k \in DOMAIN es : Treatment(es[k]) # "None"}
           under(id) == {k \in treated : Projected(es[k]).id = id}
           last(id) == es[Max(under(id))]
<1>1. IsSequence(es)
  BY AllMet
<1>2. /\ DOMAIN refs = {Projected(es[k]).id : k \in treated}
      /\ \A id \in DOMAIN refs : refs[id] = [orig |-> last(id), treatment |-> Treatment(last(id))]
  BY DEF ReferenceRecords
<1> HIDE DEF es, refs
<1>3. ASSUME NEW id \in DOMAIN refs
      PROVE  \E k \in DOMAIN es : /\ refs[id].orig = es[k] /\ refs[id].treatment = Treatment(es[k])
                                  /\ Projected(es[k]).id = id /\ Treatment(es[k]) # "None"
  <2>1. under(id) # {} /\ under(id) \in SUBSET DOMAIN es
    BY <1>2
  <2>2. Max(under(id)) \in under(id)
    <3> HIDE DEF under
    <3> QED
      BY <1>1, <2>1, FirstAndLast
  <2>3. refs[id].orig = es[Max(under(id))] /\ refs[id].treatment = Treatment(es[Max(under(id))])
    <3> HIDE DEF last
    <3>0. refs[id] = [orig |-> last(id), treatment |-> Treatment(last(id))]
      BY Zenon, <1>2
    <3>1. refs[id].orig = last(id) /\ refs[id].treatment = Treatment(last(id))
      BY <3>0
    <3> QED
      BY Zenon, <3>1 DEF last
  <2>4. PICK k \in under(id) : refs[id].orig = es[k] /\ refs[id].treatment = Treatment(es[k])
    <3> HIDE DEF under
    <3> QED
      BY <2>2, <2>3
  <2> QED
    BY <2>4
<1> QED
  BY <1>2, <1>3 DEF es, refs

LEMMA RecordsInvert ==
  ASSUME NEW m, IsModule(m), \A e \in Range(Externals(m)) : DOMAIN e = {"id", "scope"}
  PROVE  Inverts(ReferenceRecords(m))
<1> SUFFICES ASSUME NEW id \in DOMAIN ReferenceRecords(m)
             PROVE  LET r == ReferenceRecords(m)[id]
                    IN  "id" \in DOMAIN r.orig /\ Projected(r.orig).id = id
                        /\ r.treatment = Treatment(r.orig)
  BY DEF Inverts
<1>1. PICK k \in DOMAIN Externals(m) :
        LET r == ReferenceRecords(m)[id]
        IN  r.orig = Externals(m)[k] /\ r.treatment = Treatment(Externals(m)[k])
            /\ Projected(Externals(m)[k]).id = id
  BY RecordsOf
<1>2. Externals(m)[k] \in Range(Externals(m))
  BY DEF Range
<1> QED
  BY <1>1, <1>2

(* What a module without collisions names, projected, turns back to it.      *)
LEMMA TurnedBack ==
  ASSUME NEW m, IsModule(m), ~Collides(m), NEW e \in Range(Externals(m))
  PROVE  Restored(Projected(e), ReferenceRecords(m)) = e
<1> DEFINE refs == ReferenceRecords(m)
           p == Projected(e)
<1>1. p.id \in DOMAIN refs => refs[p.id].orig = e
  <2> SUFFICES ASSUME p.id \in DOMAIN refs PROVE refs[p.id].orig = e
    OBVIOUS
  <2>1. PICK k \in DOMAIN Externals(m) :
           /\ refs[p.id].orig = Externals(m)[k]
           /\ Projected(Externals(m)[k]).id = p.id /\ Treatment(Externals(m)[k]) # "None"
    BY RecordsOf
  <2>2. Externals(m)[k] \in Range(Externals(m))
    BY DEF Range
  <2> QED
    BY <2>1, <2>2 DEF Collides
<1>2. p.id \notin DOMAIN refs => p = e
  <2>1. PICK k \in DOMAIN Externals(m) : e = Externals(m)[k]
    BY DEF Range
  <2>2. p.id \notin DOMAIN refs => Treatment(e) = "None"
    BY <2>1, RecordsOf
  <2> QED
    BY <2>2 DEF Projected
<1> QED
  BY <1>1, <1>2 DEF Restored

(* No reference has, once it is projected, a name the projection took away.  *)
LEMMA NameGone ==
  ASSUME NEW w, Treatment(w) = "UseProjectionInfo", Projected(w).id # w.id,
         NEW e, "id" \in DOMAIN e
  PROVE  Projected(e).id # w.id
<1>1. w.id[2] \in DOMAIN Projection /\ Projection[w.id[2]].winrt = w.id[1]
  BY DEF Treatment
<1>2. DOMAIN Projection = {"IIterable", "IVector", "Color", "AttributeUsageAttribute"}
  BY DEF Projection
<1>3. /\ Projection["IIterable"] = [winrt |-> "WFC", clr |-> <<"SCG", "IEnumerable">>, attribute |-> FALSE]
      /\ Projection["IVector"] = [winrt |-> "WFC", clr |-> <<"SCG", "IList">>, attribute |-> FALSE]
      /\ Projection["Color"] = [winrt |-> "WUI", clr |-> <<"WUI", "Color">>, attribute |-> FALSE]
      /\ Projection["AttributeUsageAttribute"] =
           [winrt |-> "WFM", clr |-> <<"System", "AttributeUsageAttribute">>, attribute |-> TRUE]
  BY DEF Projection
<1>4. Projected(w).id = Projection[w.id[2]].clr
  BY DEF Projected
<1>5. w.id[1] \in {"WFC", "WFM", "WUI"} /\ (w.id[1] = "WUI" => w.id[2] = "Color")
  BY <1>1, <1>2, <1>3
<1>6. CASE Treatment(e) = "None"
  <2>1. Projected(e).id = e.id /\ Treatment(e) # Treatment(w)
    BY <1>6 DEF Projected
  <2> QED
    BY <2>1 DEF Treatment
<1>7. CASE Treatment(e) = "System"
  <2>1. Projected(e).id = e.id
    BY <1>7 DEF Projected
  <2>2. Treatment(e) # "UseProjectionInfo"
    BY <1>7
  <2> QED
    BY <2>1, <2>2, <1>1 DEF Treatment
<1>8. CASE Treatment(e) = "UseProjectionInfo"
  <2>1. e.id[2] \in DOMAIN Projection /\ Projected(e).id = Projection[e.id[2]].clr
    BY <1>8 DEF Projected, Treatment
  <2>2. Projected(e).id \in {<<"SCG", "IEnumerable">>, <<"SCG", "IList">>, <<"WUI", "Color">>,
                             <<"System", "AttributeUsageAttribute">>}
    BY <1>2, <1>3, <2>1
  <2>3. ASSUME Projected(e).id = w.id PROVE FALSE
    <3>1. w.id \in {<<"SCG", "IEnumerable">>, <<"SCG", "IList">>, <<"WUI", "Color">>,
                    <<"System", "AttributeUsageAttribute">>}
      BY <2>2, <2>3
    <3>2. w.id[1] = "WUI" /\ w.id[2] = "Color"
      BY <1>5, <3>1
    <3>3. w.id = <<"WUI", "Color">> /\ Projection[w.id[2]].clr = <<"WUI", "Color">>
      BY <1>3, <3>1, <3>2
    <3> QED
      BY <1>4, <3>3
  <2> QED
    BY <2>3
<1> QED
  BY <1>6, <1>7, <1>8 DEF Treatment

LEMMA OriginalStays ==
  ASSUME NEW refs, Inverts(refs), NEW w, Treatment(w) = "UseProjectionInfo", Projected(w).id # w.id
  PROVE  Restored(w, refs) = w
<1>1. w.id \notin DOMAIN refs
  <2> SUFFICES ASSUME w.id \in DOMAIN refs PROVE FALSE
    OBVIOUS
  <2>1. "id" \in DOMAIN refs[w.id].orig /\ Projected(refs[w.id].orig).id = w.id
    BY DEF Inverts
  <2> QED
    BY <2>1, NameGone
<1> QED
  BY <1>1 DEF Restored

-------------------------------------------------------------------------------
(* The interfaces of a type that owes pairs.                                 *)

LEMMA FacesOwed ==
  ASSUME NEW now, NEW was, NEW pairs, NEW refs, PairsSound(pairs, refs),
         Len(now) = Len(was) + Len(pairs),
         \A k \in DOMAIN was : now[k] = Projected(was[k]) /\ Restored(now[k], refs) = was[k],
         \A k \in DOMAIN was : \A l \in DOMAIN pairs : now[k] # pairs[l][2],
         NEW f, f = [l \in DOMAIN pairs |-> f[l]], \A l \in DOMAIN pairs : f[l] \in DOMAIN now,
         Places(f, now, was, pairs)
  PROVE  Duplicated(now, was, pairs, refs)
<1>1. f \in [DOMAIN pairs -> DOMAIN now]
  OBVIOUS
<1> QED
  BY <1>1 DEF Duplicated

LEMMA NothingOwed ==
  ASSUME NEW now, IsSequence(now), NEW was, IsSequence(was), DOMAIN now = DOMAIN was, NEW refs,
         \A k \in DOMAIN was : now[k] = Projected(was[k]) /\ Restored(now[k], refs) = was[k]
  PROVE  Duplicated(now, was, <<>>, refs)
<1>1. IsSequence(<<>>) /\ DOMAIN <<>> = {} /\ Len(<<>>) = 0
  BY EmptySequence
<1>2. Len(now) = Len(was) /\ Len(was) \in Nat
  BY SameIndices, SequenceMeans
<1>3. PairsSound(<<>>, refs) /\ Len(now) = Len(was) + Len(<<>>)
  BY <1>1, <1>2 DEF PairsSound
<1> DEFINE f == [l \in DOMAIN <<>> |-> 1]
<1>4. Places(f, now, was, <<>>)
  BY <1>1 DEF Places
<1> QED
  BY <1>1, <1>3, <1>4, FacesOwed

LEMMA Behind ==
  ASSUME NEW s, IsSequence(s), NEW t, IsSequence(t), NEW c, c = s \o t
  PROVE  \A i \in DOMAIN c : i \in DOMAIN s \/ (i > Len(s) /\ c[i] = t[i - Len(s)])
BY ConcatSequence

(* A redirected type gets, behind its interfaces, the originals of those     *)
(* that are redirected.                                                      *)
LEMMA RedirectOwes ==
  ASSUME NEW now, IsSequence(now), NEW was, IsSequence(was), NEW refs, Inverts(refs),
         Duplicated(now, was, <<>>, refs),
         \A k \in DOMAIN was : Treatment(was[k]) = "UseProjectionInfo" => Projected(was[k]).id # was[k].id,
         \A k \in DOMAIN was : "id" \in DOMAIN was[k],
         NEW red, IsSequence(red),
         \A n \in DOMAIN red : IsRedirected(red[n], refs) /\ \E k \in DOMAIN now : red[n] = now[k],
         NEW more, more = [n \in DOMAIN red |-> Restored(red[n], refs)],
         NEW pairs, pairs = [n \in DOMAIN red |-> <<red[n], Restored(red[n], refs)>>]
  PROVE  Duplicated(now \o more, was, pairs, refs)
<1>1. /\ Len(now) = Len(was) /\ DOMAIN now = DOMAIN was
      /\ \A k \in DOMAIN was : now[k] = Projected(was[k]) /\ Restored(now[k], refs) = was[k]
  BY EmptySequence, SequenceMeans DEF Duplicated
<1>2. /\ IsSequence(more) /\ Len(more) = Len(red) /\ DOMAIN more = DOMAIN red
      /\ IsSequence(pairs) /\ Len(pairs) = Len(red) /\ DOMAIN pairs = DOMAIN red
  BY SameLength
<1>3. ASSUME NEW n \in DOMAIN red
      PROVE  /\ pairs[n][1] = red[n] /\ pairs[n][2] = more[n] /\ more[n] = Restored(red[n], refs)
             /\ \E k \in DOMAIN was : red[n] = now[k] /\ more[n] = was[k]
                                      /\ Treatment(was[k]) = "UseProjectionInfo"
                                      /\ Projected(was[k]).id # was[k].id
                                      /\ Restored(was[k], refs) = was[k]
  <2>1. pairs[n] = <<red[n], more[n]>> /\ more[n] = Restored(red[n], refs)
    OBVIOUS
  <2>2. PICK k \in DOMAIN now : red[n] = now[k]
    OBVIOUS
  <2>3. more[n] = was[k] /\ k \in DOMAIN was
    BY <1>1, <2>1, <2>2
  <2>4. now[k].id \in DOMAIN refs /\ refs[now[k].id].treatment = "UseProjectionInfo"
    BY <2>2 DEF IsRedirected
  <2>5. refs[now[k].id].orig = was[k]
    BY <1>1, <2>3, <2>4 DEF Restored
  <2>6. Treatment(was[k]) = "UseProjectionInfo"
    BY <2>4, <2>5 DEF Inverts
  <2>7. Projected(was[k]).id # was[k].id
    BY <2>3, <2>6
  <2>8. Restored(was[k], refs) = was[k]
    BY <2>6, <2>7, OriginalStays
  <2>9. pairs[n][1] = red[n] /\ pairs[n][2] = more[n]
    BY <2>1
  <2> QED
    BY <2>1, <2>2, <2>3, <2>6, <2>7, <2>8, <2>9
<1> DEFINE all == now \o more
           f == [l \in DOMAIN pairs |-> Len(was) + l]
<1>4. /\ Len(all) = Len(now) + Len(more)
      /\ DOMAIN all = 1..Len(now) + Len(more)
      /\ \A i \in DOMAIN now : all[i] = now[i]
      /\ \A i \in DOMAIN all : i \in DOMAIN now \/ (i > Len(now) /\ all[i] = more[i - Len(now)])
  <2>1. Len(all) = Len(now) + Len(more) /\ DOMAIN all = 1..Len(now) + Len(more)
    BY <1>2, ConcatSequence
  <2>2. \A i \in DOMAIN now : i \in DOMAIN all /\ all[i] = now[i]
    BY <1>2, ConcatSequence
  <2>0. all = now \o more
    OBVIOUS
  <2> HIDE DEF all
  <2>3. \A i \in DOMAIN all : i \in DOMAIN now \/ (i > Len(now) /\ all[i] = more[i - Len(now)])
    <3>1. IsSequence(now) /\ IsSequence(more)
      BY <1>2
    <3> QED
      BY <2>0, <3>1, Behind
  <2> QED
    BY <2>1, <2>2, <2>3
<1>5. /\ DOMAIN now = 1..Len(now) /\ Len(now) \in Nat /\ DOMAIN red = 1..Len(red) /\ Len(red) \in Nat
  BY SequenceMeans
<1> HIDE DEF all
<1>6. PairsSound(pairs, refs)
  <2>1. ASSUME NEW l \in DOMAIN pairs PROVE PairSound(pairs[l], refs)
    BY <1>2, <1>3 DEF PairSound
  <2> QED
    BY <1>2, <2>1 DEF PairsSound
<1>7. ASSUME NEW k \in DOMAIN was, NEW l \in DOMAIN pairs PROVE all[k] # pairs[l][2]
  <2>1. PICK q \in DOMAIN was : /\ more[l] = was[q] /\ Treatment(was[q]) = "UseProjectionInfo"
                                /\ Projected(was[q]).id # was[q].id
    BY <1>2, <1>3
  <2>2. Projected(was[k]).id # was[q].id
    BY <2>1, NameGone
  <2>3. pairs[l][2] = was[q] /\ all[k] = Projected(was[k])
    BY <1>1, <1>2, <1>3, <1>4, <2>1
  <2> QED
    BY <2>2, <2>3
<1>8. ASSUME NEW l \in DOMAIN pairs
      PROVE  f[l] \in DOMAIN all /\ f[l] > Len(was) /\ all[f[l]] = pairs[l][2] /\ f[l] = Len(was) + l /\ l \in Nat
  <2>1. f[l] = Len(was) + l
    OBVIOUS
  <2>2. l \in 1..Len(red)
    BY <1>2, <1>5
  <2>3. Len(was) + l \in 1..Len(now) + Len(more) /\ Len(was) + l > Len(was)
        /\ Len(was) + l \notin 1..Len(now) /\ (Len(was) + l) - Len(now) = l
    BY <1>1, <1>2, <1>5, <2>2
  <2>4. all[Len(was) + l] = more[l]
    BY <1>4, <1>5, <2>3
  <2>5. pairs[l][2] = more[l]
    BY <1>2, <1>3
  <2> QED
    BY <1>4, <2>1, <2>2, <2>3, <2>4, <2>5
<1>9. f = [l \in DOMAIN pairs |-> f[l]]
  OBVIOUS
<1> HIDE DEF f
<1>10. \A a, b \in DOMAIN pairs : f[a] = f[b] => a = b
  BY <1>1, <1>5, <1>8
<1>11. Places(f, all, was, pairs)
  BY <1>8, <1>10 DEF Places
<1>12. Len(all) = Len(was) + Len(pairs)
  BY <1>1, <1>2, <1>4
<1>13. \A k \in DOMAIN was : all[k] = Projected(was[k]) /\ Restored(all[k], refs) = was[k]
  BY <1>1, <1>4
<1>14. Duplicated(all, was, pairs, refs)
  <2>1. \A l \in DOMAIN pairs : f[l] \in DOMAIN all
    BY <1>8
  <2>2. \A k \in DOMAIN was : \A l \in DOMAIN pairs : all[k] # pairs[l][2]
    BY <1>7
  <2> QED
    BY Zenon, <1>6, <1>9, <1>11, <1>12, <1>13, <2>1, <2>2, FacesOwed
<1> QED
  BY <1>14 DEF all

(* The pairs may be taken back in any order.                                 *)
LEMMA ReverseIs ==
  ASSUME NEW s, IsSequence(s)
  PROVE  /\ IsSequence(Reverse(s)) /\ Len(Reverse(s)) = Len(s) /\ DOMAIN Reverse(s) = DOMAIN s
         /\ \A l \in DOMAIN s : Reverse(s)[l] = s[(Len(s) - l) + 1] /\ (Len(s) - l) + 1 \in DOMAIN s
<1> DEFINE c == Reverse(s)
<1>1. DOMAIN s = 1..Len(s) /\ Len(s) \in Nat
  BY SequenceMeans
<1>2. c = [i \in 1..Len(s) |-> c[i]] /\ \A i \in 1..Len(s) : c[i] = s[(Len(s) - i) + 1]
  BY DEF Reverse
<1> HIDE DEF c
<1>3. IsSequence(c) /\ Len(c) = Len(s) /\ DOMAIN c = 1..Len(s)
  BY <1>1, <1>2, SequenceIs
<1>4. \A l \in 1..Len(s) : (Len(s) - l) + 1 \in 1..Len(s)
  BY <1>1
<1> QED
  BY <1>1, <1>2, <1>3, <1>4 DEF c

LEMMA ReverseSound ==
  ASSUME NEW pairs, NEW refs, PairsSound(pairs, refs)
  PROVE  PairsSound(Reverse(pairs), refs)
BY ReverseIs DEF PairsSound

LEMMA ReverseOwes ==
  ASSUME NEW now, NEW was, NEW pairs, NEW refs, Duplicated(now, was, pairs, refs)
  PROVE  Duplicated(now, was, Reverse(pairs), refs)
<1> DEFINE n == Len(pairs)
           rev == Reverse(pairs)
<1>1. IsSequence(pairs)
  BY DEF Duplicated, PairsSound
<1>2. /\ IsSequence(rev) /\ Len(rev) = n /\ DOMAIN rev = DOMAIN pairs
      /\ \A l \in DOMAIN pairs : rev[l] = pairs[(n - l) + 1] /\ (n - l) + 1 \in DOMAIN pairs
      /\ DOMAIN pairs = 1..n /\ n \in Nat
  BY <1>1, ReverseIs, SequenceMeans
<1>3. PICK f \in [DOMAIN pairs -> DOMAIN now] : Places(f, now, was, pairs)
  BY DEF Duplicated
<1> DEFINE g == [l \in DOMAIN rev |-> f[(n - l) + 1]]
<1>4. PairsSound(rev, refs)
  BY ReverseSound DEF Duplicated
<1> HIDE DEF rev, n
<1>5. ASSUME NEW l \in DOMAIN rev
      PROVE  g[l] \in DOMAIN now /\ g[l] > Len(was) /\ now[g[l]] = rev[l][2]
  <2>1. g[l] = f[(n - l) + 1] /\ (n - l) + 1 \in DOMAIN pairs /\ rev[l] = pairs[(n - l) + 1]
    BY <1>2
  <2> QED
    BY <1>3, <2>1 DEF Places
<1>6. ASSUME NEW a \in DOMAIN rev, NEW b \in DOMAIN rev, g[a] = g[b] PROVE a = b
  <2>1. f[(n - a) + 1] = f[(n - b) + 1] /\ (n - a) + 1 \in DOMAIN pairs /\ (n - b) + 1 \in DOMAIN pairs
    BY <1>2, <1>6
  <2>2. (n - a) + 1 = (n - b) + 1
    BY <1>3, <2>1 DEF Places
  <2> QED
    BY <1>2, <2>2
<1>7. g = [l \in DOMAIN rev |-> g[l]]
  OBVIOUS
<1> HIDE DEF g
<1>8. Places(g, now, was, rev)
  BY <1>5, <1>6 DEF Places
<1>9. Len(now) = Len(was) + Len(rev)
  BY <1>2 DEF Duplicated, n
<1>10. \A k \in DOMAIN was : \A l \in DOMAIN rev : now[k] # rev[l][2]
  BY <1>2 DEF Duplicated
<1>11. \A k \in DOMAIN was : now[k] = Projected(was[k]) /\ Restored(now[k], refs) = was[k]
  BY DEF Duplicated
<1>12. \A l \in DOMAIN rev : g[l] \in DOMAIN now
  BY <1>5
<1>13. Duplicated(now, was, rev, refs)
  BY Zenon, <1>4, <1>7, <1>8, <1>9, <1>10, <1>11, <1>12, FacesOwed
<1> QED
  BY <1>13 DEF rev

LEMMA OneGone ==
  ASSUME NEW x \in Int, NEW y \in Int, NEW p \in Int, x # p, y # p,
         NEW u, u = (IF x < p THEN x ELSE x - 1), u = (IF y < p THEN y ELSE y - 1)
  PROVE  x = y
OBVIOUS

(* Taking the first pair back removes the duplicate that stands for it, or   *)
(* another like it.                                                          *)
LEMMA UnwireOwes ==
  ASSUME NEW now, IsSequence(now), NEW was, IsSequence(was), NEW pairs, NEW refs,
         Duplicated(now, was, pairs, refs), pairs # <<>>
  PROVE  Duplicated(WithoutInterface(now, Head(pairs)[2]), was, Tail(pairs), refs)
<1> DEFINE out == pairs[1][2]
           hits == {k \in DOMAIN now : now[k] = out}
           p == Min(hits)
           rest == Tail(pairs)
           n == Len(was)
           left == WithoutInterface(now, out)
<1>1. IsSequence(pairs)
  BY DEF Duplicated, PairsSound
<1>2. /\ Len(pairs) \in Nat \ {0} /\ DOMAIN pairs = 1..Len(pairs) /\ n \in Nat /\ DOMAIN was = 1..n
      /\ Head(pairs) = pairs[1] /\ 1 \in DOMAIN pairs
  <2>1. /\ Len(pairs) \in Nat /\ DOMAIN pairs = 1..Len(pairs) /\ n \in Nat /\ DOMAIN was = 1..n
        /\ pairs = [i \in 1..Len(pairs) |-> pairs[i]]
    BY <1>1, SequenceMeans
  <2>2. Len(pairs) # 0
    <3>1. Len(pairs) = 0 => pairs = [i \in 1..0 |-> pairs[i]]
      BY <2>1
    <3>2. Len(pairs) = 0 => pairs = <<>>
      BY <3>1
    <3> QED
      BY <3>2
  <2> QED
    BY <2>1, <2>2
<1>3. /\ IsSequence(rest) /\ Len(rest) = Len(pairs) - 1 /\ DOMAIN rest = 1..Len(pairs) - 1
      /\ \A l \in DOMAIN rest : l + 1 \in DOMAIN pairs /\ rest[l] = pairs[l + 1] /\ l \in Nat \ {0}
  <2>1. pairs \in Seq(Range(pairs)) /\ pairs # <<>>
    BY <1>1 DEF IsSequence
  <2>2. rest \in Seq(Range(pairs)) /\ Len(rest) = Len(pairs) - 1 /\ \A i \in 1..Len(rest) : rest[i] = pairs[i + 1]
    BY <2>1, HeadTailProperties
  <2> HIDE DEF rest
  <2>3. IsSequence(rest)
    BY <2>2 DEF IsSequence, Range
  <2>4. DOMAIN rest = 1..Len(pairs) - 1
    BY <2>2, <2>3, SequenceMeans
  <2>5. ASSUME NEW l \in DOMAIN rest PROVE l + 1 \in DOMAIN pairs /\ rest[l] = pairs[l + 1] /\ l \in Nat \ {0}
    <3>1. l \in 1..Len(rest) /\ l + 1 \in 1..Len(pairs) /\ l \in Nat \ {0}
      BY <1>2, <2>2, <2>4
    <3> QED
      BY <1>2, <2>2, <3>1
  <2> QED
    BY <2>2, <2>3, <2>4, <2>5
<1>4. PICK f \in [DOMAIN pairs -> DOMAIN now] : Places(f, now, was, pairs)
  BY DEF Duplicated
<1>5. DOMAIN now = 1..Len(now) /\ Len(now) \in Nat /\ Len(now) = n + Len(pairs)
  BY SequenceMeans DEF Duplicated
<1> HIDE DEF rest
<1>6. hits # {} /\ hits \in SUBSET DOMAIN now /\ p \in hits
  <2>1. f[1] \in DOMAIN now /\ now[f[1]] = pairs[1][2]
    BY <1>2, <1>4 DEF Places
  <2>2. hits # {} /\ hits \in SUBSET DOMAIN now
    BY <2>1
  <2> HIDE DEF hits
  <2> QED
    BY <2>2, FirstAndLast
<1>7. p \in DOMAIN now /\ now[p] = pairs[1][2] /\ p > n
  <2>1. p \in DOMAIN now /\ now[p] = pairs[1][2]
    BY <1>6
  <2>2. p \notin DOMAIN was
    BY <1>2, <2>1 DEF Duplicated
  <2> HIDE DEF p
  <2> QED
    BY <1>2, <1>5, <2>1, <2>2
<1>8. left = RemoveAt(now, p)
  BY <1>6 DEF WithoutInterface, WithoutFirst
<1>9. /\ IsSequence(left) /\ Len(left) = Len(now) - 1
      /\ \A i \in 1..Len(now) - 1 : left[i] = IF i < p THEN now[i] ELSE now[i + 1]
  <2> HIDE DEF p, left
  <2> QED
    BY <1>7, <1>8, RemoveAtSequence
<1> HIDE DEF p, left, hits
<1>10. DOMAIN left = 1..Len(now) - 1
  BY <1>9, SequenceMeans
(* f with the place p for the first pair. *)
<1> DEFINE g == [l \in DOMAIN pairs |-> IF f[l] = p THEN f[1] ELSE f[l]]
           h == [l \in DOMAIN rest |-> IF g[l + 1] < p THEN g[l + 1] ELSE g[l + 1] - 1]
<1>11. ASSUME NEW l \in DOMAIN rest
       PROVE  /\ g[l + 1] \in DOMAIN now /\ g[l + 1] > n /\ now[g[l + 1]] = pairs[l + 1][2]
              /\ g[l + 1] # p
  <2>1. l + 1 \in DOMAIN pairs /\ l + 1 # 1
    BY <1>3
  <2>2. g[l + 1] = IF f[l + 1] = p THEN f[1] ELSE f[l + 1]
    BY <2>1
  <2>3. f[1] = f[l + 1] => 1 = l + 1
    BY <1>2, <1>4, <2>1 DEF Places
  <2>4. /\ f[1] \in DOMAIN now /\ f[1] > n /\ now[f[1]] = pairs[1][2]
        /\ f[l + 1] \in DOMAIN now /\ f[l + 1] > n /\ now[f[l + 1]] = pairs[l + 1][2]
    BY <1>2, <1>4, <2>1 DEF Places
  <2> HIDE DEF g
  <2> QED
    BY <1>7, <2>1, <2>2, <2>3, <2>4
<1>12. ASSUME NEW a \in DOMAIN rest, NEW b \in DOMAIN rest, g[a + 1] = g[b + 1] PROVE a = b
  <2>1. a + 1 \in DOMAIN pairs /\ b + 1 \in DOMAIN pairs /\ a + 1 # 1 /\ b + 1 # 1
    BY <1>3
  <2>2. /\ g[a + 1] = IF f[a + 1] = p THEN f[1] ELSE f[a + 1]
        /\ g[b + 1] = IF f[b + 1] = p THEN f[1] ELSE f[b + 1]
    BY <2>1
  <2>3. \A x, y \in DOMAIN pairs : f[x] = f[y] => x = y
    BY <1>4 DEF Places
  <2> HIDE DEF g
  <2>4. f[a + 1] = f[b + 1]
    BY <1>2, <1>12, <2>1, <2>2, <2>3
  <2>5. a + 1 = b + 1
    BY <2>1, <2>3, <2>4
  <2> QED
    BY <1>3, <2>5
<1> HIDE DEF g
<1>13. ASSUME NEW l \in DOMAIN rest
       PROVE  h[l] = (IF g[l + 1] < p THEN g[l + 1] ELSE g[l + 1] - 1)
  OBVIOUS
<1>14. h = [l \in DOMAIN rest |-> h[l]]
  OBVIOUS
<1> HIDE DEF h
<1>15. ASSUME NEW l \in DOMAIN rest
       PROVE  h[l] \in DOMAIN left /\ h[l] > n /\ left[h[l]] = rest[l][2]
  <2> DEFINE q == g[l + 1]
  <2>1. q \in 1..Len(now) /\ q > n /\ now[q] = rest[l][2] /\ q # p /\ p \in 1..Len(now) /\ p > n
    BY <1>3, <1>5, <1>7, <1>11
  <2>2. h[l] = IF q < p THEN q ELSE q - 1
    BY <1>13
  <2> HIDE DEF q
  <2>3. CASE q < p
    <3>1. h[l] = q /\ q \in 1..Len(now) - 1
      BY <1>5, <2>1, <2>2, <2>3
    <3> QED
      BY <1>9, <1>10, <2>1, <2>3, <3>1
  <2>4. CASE ~(q < p)
    <3>1. h[l] = q - 1 /\ q - 1 \in 1..Len(now) - 1 /\ ~(q - 1 < p) /\ (q - 1) + 1 = q /\ q - 1 > n
      BY <1>2, <1>5, <2>1, <2>2, <2>4
    <3>2. left[q - 1] = now[(q - 1) + 1]
      BY <1>9, <3>1
    <3> QED
      BY <1>10, <2>1, <3>1, <3>2
  <2> QED
    BY <2>3, <2>4
<1>16. ASSUME NEW a \in DOMAIN rest, NEW b \in DOMAIN rest, h[a] = h[b] PROVE a = b
  <2>1. /\ g[a + 1] \in 1..Len(now) /\ g[b + 1] \in 1..Len(now) /\ g[a + 1] # p /\ g[b + 1] # p
        /\ p \in 1..Len(now)
    BY <1>5, <1>7, <1>11
  <2>2. /\ h[a] = IF g[a + 1] < p THEN g[a + 1] ELSE g[a + 1] - 1
        /\ h[b] = IF g[b + 1] < p THEN g[b + 1] ELSE g[b + 1] - 1
    BY <1>13
  <2>3. g[a + 1] = g[b + 1]
    <3>1. g[a + 1] \in Int /\ g[b + 1] \in Int /\ p \in Int
      BY <1>5, <2>1
    <3>2. h[a] = (IF g[b + 1] < p THEN g[b + 1] ELSE g[b + 1] - 1)
      BY Zenon, <1>16, <2>2
    <3> QED
      BY Zenon, <2>1, <2>2, <3>1, <3>2, OneGone
  <2> QED
    BY <1>12, <2>3
<1>17. Places(h, left, was, rest)
  BY <1>15, <1>16 DEF Places
<1>18. PairsSound(rest, refs)
  <2>1. \A l \in DOMAIN pairs : PairSound(pairs[l], refs)
    BY DEF Duplicated, PairsSound
  <2>2. ASSUME NEW l \in DOMAIN rest PROVE PairSound(rest[l], refs)
    <3>1. l + 1 \in DOMAIN pairs /\ rest[l] = pairs[l + 1]
      BY <1>3
    <3>2. PairSound(pairs[l + 1], refs)
      BY <2>1, <3>1
    <3> QED
      BY <3>1, <3>2
  <2> QED
    BY <1>3, <2>2 DEF PairsSound
<1>19. Len(left) = Len(was) + Len(rest)
  BY <1>2, <1>3, <1>5, <1>9
<1>20. ASSUME NEW k \in DOMAIN was PROVE left[k] = now[k]
  <2>1. k \in 1..Len(now) - 1 /\ k < p
    BY <1>2, <1>5, <1>7
  <2> QED
    BY <1>9, <2>1
<1>21. \A k \in DOMAIN was : left[k] = Projected(was[k]) /\ Restored(left[k], refs) = was[k]
  BY <1>20 DEF Duplicated
<1>22. ASSUME NEW k \in DOMAIN was, NEW l \in DOMAIN rest PROVE left[k] # rest[l][2]
  <2>1. l + 1 \in DOMAIN pairs /\ rest[l] = pairs[l + 1]
    BY <1>3
  <2>2. \A x \in DOMAIN pairs : now[k] # pairs[x][2]
    BY DEF Duplicated
  <2>3. now[k] # pairs[l + 1][2]
    BY <2>1, <2>2
  <2> QED
    BY <1>20, <2>1, <2>3
<1>23. \A l \in DOMAIN rest : h[l] \in DOMAIN left
  BY <1>15
<1>24. \A k \in DOMAIN was : \A l \in DOMAIN rest : left[k] # rest[l][2]
  BY <1>22
<1>25. Duplicated(left, was, rest, refs)
  BY Zenon, <1>14, <1>17, <1>18, <1>19, <1>21, <1>23, <1>24, FacesOwed
<1> QED
  BY <1>2, <1>25 DEF left, rest

(* A type that owes nothing has the interfaces of the file, to be turned     *)
(* back one by one.                                                          *)
LEMMA OwesNothing ==
  ASSUME NEW now, IsSequence(now), NEW was, IsSequence(was), NEW refs, Duplicated(now, was, <<>>, refs)
  PROVE  [k \in DOMAIN now |-> Restored(now[k], refs)] = was
<1>1. Len(now) = Len(was) /\ \A k \in DOMAIN was : Restored(now[k], refs) = was[k]
  BY EmptySequence, SequenceMeans DEF Duplicated
<1>2. DOMAIN now = DOMAIN was /\ was = [k \in DOMAIN was |-> was[k]]
  BY <1>1, SequenceMeans
<1> QED
  BY <1>1, <1>2

-------------------------------------------------------------------------------
(* The references to assemblies are put back.                                *)

LastNamed(s, x) == WithoutLast(s, LAMBDA r : r.name = x)

LEMMA LastNamedOut ==
  ASSUME NEW s, IsSequence(s), NEW n \in Nat, Len(s) = n + 1, NEW x, s[n + 1].name = x
  PROVE  LastNamed(s, x) = [k \in 1..n |-> s[k]]
<1> DEFINE hits == {k \in DOMAIN s : s[k].name = x}
           c == RemoveAt(s, n + 1)
<1>1. DOMAIN s = 1..n + 1 /\ n + 1 \in DOMAIN s
  BY SequenceMeans
<1>2. n + 1 \in hits /\ hits \in SUBSET (1..n + 1)
  BY <1>1
<1> HIDE DEF hits
<1>3. \A y \in hits : n + 1 >= y
  BY <1>2
<1>4. \A z \in hits : (\A y \in hits : z >= y) => z = n + 1
  BY <1>2
<1>5. Max(hits) = n + 1
  <2>1. Max(hits) = CHOOSE z \in hits : \A y \in hits : z >= y
    BY DEF Max
  <2> QED
    BY <1>2, <1>3, <1>4, <2>1
<1>6. LastNamed(s, x) = c
  BY <1>2, <1>5 DEF LastNamed, WithoutLast, hits
<1>7. /\ IsSequence(c) /\ Len(c) = Len(s) - 1
      /\ \A i \in 1..Len(s) - 1 : c[i] = IF i < n + 1 THEN s[i] ELSE s[i + 1]
  BY <1>1, RemoveAtSequence
<1> HIDE DEF c
<1>8. Len(c) = n /\ \A i \in 1..n : c[i] = s[i]
  BY <1>7
<1>9. c = [i \in 1..n |-> c[i]]
  BY <1>7, <1>8, SequenceMeans
<1> QED
  BY <1>6, <1>8, <1>9

LEMMA VersionBack ==
  ASSUME NEW r, IsRecord(r), DOMAIN r = {"name", "version"}, NEW v
  PROVE  [[r EXCEPT !.version = v] EXCEPT !.version = r.version] = r
BY DEF IsRecord

LEMMA VirtualOut ==
  ASSUME NEW was, IsReferences(was), \A k \in DOMAIN was : IsRecord(was[k]),
         NEW now, NEW version, VirtualAdded(now, was, version)
  PROVE  ReferencesBack(now, version) = was
<1> DEFINE n == Len(was)
           p == Min(Corlib(was))
           low == [was EXCEPT ![p].version = "4.0"]
           mid == WithVersion(now, version)
           one == LastNamed(mid, VirtualNames[2])
<1>1. n \in Nat /\ DOMAIN was = 1..n /\ was = [k \in 1..n |-> was[k]] /\ IsSequence(was)
  BY SequenceMeans DEF IsReferences
<1>2. p \in Corlib(was) /\ p \in DOMAIN was
  <2>1. Corlib(was) \in SUBSET DOMAIN was /\ Corlib(was) # {}
    BY DEF Corlib, VirtualAdded
  <2> QED
    BY <1>1, <2>1, FirstAndLast
<1>3. version = was[p].version /\ now = low \o Virtual
  BY DEF VirtualAdded
<1>4. /\ IsReferences(low) /\ DOMAIN low = 1..n /\ low[p] = [was[p] EXCEPT !.version = "4.0"]
      /\ \A k \in DOMAIN was : k # p => low[k] = was[k]
  <2>1. IsReferences(low)
    BY VersionSet
  <2> QED
    BY <1>1, <1>2, <2>1
<1>5. /\ IsSequence(Virtual) /\ Len(Virtual) = 2 /\ DOMAIN Virtual = 1..2
      /\ Virtual[1].name = VirtualNames[1] /\ Virtual[2].name = VirtualNames[2]
      /\ VirtualNames[1] # "mscorlib" /\ VirtualNames[2] # "mscorlib"
  <2>1. DOMAIN VirtualNames = 1..2
    BY DEF VirtualNames
  <2>2. Virtual = [v \in 1..2 |-> Virtual[v]] /\ \A v \in 1..2 : Virtual[v].name = VirtualNames[v]
    BY <2>1 DEF Virtual
  <2>3. IsSequence(Virtual) /\ Len(Virtual) = 2 /\ DOMAIN Virtual = 1..2
    BY <2>2, 2 \in Nat, SequenceIs
  <2>4. VirtualNames[1] # "mscorlib" /\ VirtualNames[2] # "mscorlib"
    BY DEF VirtualNames
  <2>5. Virtual[1].name = VirtualNames[1] /\ Virtual[2].name = VirtualNames[2]
    BY <2>2
  <2> QED
    BY <2>3, <2>4, <2>5
<1> HIDE DEF low
<1>6. Len(low) = n
  BY <1>1, <1>4, SequenceMeans, SameIndices DEF IsReferences
<1>7. /\ IsSequence(now) /\ Len(now) = n + 2 /\ DOMAIN now = 1..n + 2
      /\ \A k \in 1..n : now[k] = low[k]
      /\ now[n + 1] = Virtual[1] /\ now[n + 2] = Virtual[2]
  <2>1. IsSequence(low)
    BY <1>4 DEF IsReferences
  <2>2. /\ IsSequence(now) /\ Len(now) = n + 2 /\ DOMAIN now = 1..n + 2
        /\ \A k \in DOMAIN low : now[k] = low[k]
    <3>1. now = low \o Virtual /\ IsSequence(low) /\ IsSequence(Virtual)
      BY <1>3, <1>5, <2>1
    <3>2. IsSequence(now) /\ Len(now) = Len(low) + Len(Virtual) /\ DOMAIN now = 1..Len(low) + Len(Virtual)
      BY <3>1, ConcatSequence
    <3>3. \A k \in DOMAIN low : now[k] = low[k]
      BY <3>1, ConcatSequence
    <3> QED
      BY <1>5, <1>6, <3>2, <3>3
  <2>3. \A i \in DOMAIN now : i \in DOMAIN low \/ (i > Len(low) /\ now[i] = Virtual[i - Len(low)])
    BY <1>3, <1>5, <2>1, Behind
  <2>4. now[n + 1] = Virtual[(n + 1) - n] /\ now[n + 2] = Virtual[(n + 2) - n]
    BY <1>1, <1>4, <1>6, <2>2, <2>3
  <2>5. (n + 1) - n = 1 /\ (n + 2) - n = 2
    BY <1>1
  <2> QED
    BY <1>4, <2>2, <2>4, <2>5
<1>8. {k \in DOMAIN now : now[k].name = "mscorlib"} = Corlib(was)
  <2>1. ASSUME NEW k \in 1..n PROVE now[k].name = was[k].name
    <3>1. now[k] = low[k] /\ DOMAIN was[k] = {"name", "version"}
      BY <1>1, <1>7 DEF IsReferences
    <3>2. CASE k = p
      <4>1. [was[p] EXCEPT !.version = "4.0"].name = was[p].name
        BY <3>1, <3>2
      <4> QED
        BY <1>4, <3>1, <3>2, <4>1
    <3>3. CASE k # p
      BY <1>1, <1>4, <3>1, <3>3
    <3> QED
      BY <3>2, <3>3
  <2>2. now[n + 1].name # "mscorlib" /\ now[n + 2].name # "mscorlib"
    BY <1>5, <1>7
  <2>3. \A k \in 1..n + 2 : k \in 1..n \/ k = n + 1 \/ k = n + 2
    BY <1>1
  <2>4. 1..n \subseteq 1..n + 2
    BY <1>1
  <2>5. \A k \in DOMAIN now : now[k].name = "mscorlib" <=> k \in Corlib(was)
    <3> SUFFICES ASSUME NEW k \in DOMAIN now PROVE now[k].name = "mscorlib" <=> k \in Corlib(was)
      OBVIOUS
    <3>1. CASE k \in 1..n
      BY <1>1, <2>1, <3>1 DEF Corlib
    <3>2. CASE k \notin 1..n
      BY <1>1, <1>7, <2>2, <2>3, <3>2 DEF Corlib
    <3> QED
      BY <3>1, <3>2
  <2>6. Corlib(was) \subseteq DOMAIN now
    BY <1>1, <1>7, <2>4 DEF Corlib
  <2> QED
    BY <2>5, <2>6
<1>9. mid = [now EXCEPT ![p].version = version]
  <2>1. Corlib(was) # {}
    BY <1>2
  <2> QED
    BY <1>8, <2>1 DEF WithVersion
<1> HIDE DEF mid
<1>10. /\ IsSequence(mid) /\ Len(mid) = n + 2
       /\ mid[n + 1] = Virtual[1] /\ mid[n + 2] = Virtual[2]
       /\ \A k \in 1..n : mid[k] = was[k]
  <2>0. p \in 1..n /\ p # n + 1 /\ p # n + 2 /\ n + 1 \in DOMAIN now /\ n + 2 \in DOMAIN now /\ 1..n \subseteq DOMAIN now
    BY <1>1, <1>2, <1>7
  <2> HIDE DEF p
  <2>1. mid = [k \in DOMAIN now |-> mid[k]]
    BY <1>9
  <2>2. IsSequence(mid) /\ Len(mid) = n + 2
    BY <1>7, <2>1, SameLength
  <2>3. mid[n + 1] = Virtual[1] /\ mid[n + 2] = Virtual[2]
    BY <1>7, <1>9, <2>0
  <2>4. ASSUME NEW k \in 1..n PROVE mid[k] = was[k]
    <3>1. CASE k = p
      <4>1. IsRecord(was[p]) /\ DOMAIN was[p] = {"name", "version"}
        BY <1>1, <2>0 DEF IsReferences
      <4>2. [[was[p] EXCEPT !.version = "4.0"] EXCEPT !.version = was[p].version] = was[p]
        BY <4>1, VersionBack
      <4>3. mid[p] = [now[p] EXCEPT !.version = version]
        BY <1>9, <2>0
      <4>4. now[p] = [was[p] EXCEPT !.version = "4.0"]
        BY <1>4, <1>7, <2>0
      <4> QED
        BY <1>3, <3>1, <4>2, <4>3, <4>4
    <3>2. CASE k # p
      BY <1>1, <1>4, <1>7, <1>9, <2>0, <3>2
    <3> QED
      BY <3>1, <3>2
  <2> QED
    BY <2>2, <2>3, <2>4
<1>11. one = [k \in 1..n + 1 |-> mid[k]]
  <2>1. (n + 1) + 1 = n + 2 /\ n + 1 \in Nat
    BY <1>1
  <2>2. mid[(n + 1) + 1].name = VirtualNames[2] /\ Len(mid) = (n + 1) + 1
    BY <1>5, <1>10, <2>1
  <2> QED
    BY <1>10, <2>1, <2>2, LastNamedOut
<1> HIDE DEF one
<1>12. IsSequence(one) /\ Len(one) = n + 1 /\ one[n + 1] = Virtual[1] /\ \A k \in 1..n : one[k] = was[k]
  <2>1. n + 1 \in Nat /\ n + 1 \in 1..n + 1 /\ 1..n \subseteq 1..n + 1
    BY <1>1
  <2>2. one = [k \in 1..n + 1 |-> one[k]]
    BY <1>11
  <2>3. IsSequence(one) /\ Len(one) = n + 1
    BY <2>1, <2>2, SequenceIs
  <2>4. one[n + 1] = mid[n + 1] /\ \A k \in 1..n : one[k] = mid[k]
    BY <1>11, <2>1
  <2> QED
    BY <1>10, <2>3, <2>4
<1>13. LastNamed(one, VirtualNames[1]) = [k \in 1..n |-> one[k]]
  <2>1. one[n + 1].name = VirtualNames[1]
    BY <1>5, <1>12
  <2> QED
    BY <1>1, <1>12, <2>1, LastNamedOut
<1>14. LastNamed(one, VirtualNames[1]) = was
  BY <1>1, <1>12, <1>13
<1>15. ReferencesBack(now, version) = LastNamed(LastNamed(mid, VirtualNames[2]), VirtualNames[1])
  BY DEF ReferencesBack, LastNamed, mid
<1> QED
  BY <1>14, <1>15 DEF one

-------------------------------------------------------------------------------
(* What each pass leaves alone of a module's references.                     *)

Aside(n, m) == n.kind = m.kind /\ n.loose = m.loose /\ n.refs = m.refs

TypeRefersAlike(new, old) ==
    /\ new.base = old.base /\ new.ifaces = old.ifaces
    /\ \A j \in DOMAIN old.attrs : new.attrs[j].ctor = old.attrs[j].ctor

SameReferences(n, m) ==
    /\ Aside(n, m)
    /\ \A i \in DOMAIN m.types : TypeRefersAlike(n.types[i], m.types[i])
    /\ \A k \in DOMAIN m.methods : n.methods[k].overrides = m.methods[k].overrides

LEMMA KeepsReflexive ==
  ASSUME NEW m
  PROVE  Keeps(m, m) /\ SameReferences(m, m)
BY DEF Keeps, TypeKeeps, MethodKeeps, SameReferences, TypeRefersAlike, Aside

LEMMA KeepsTransitive ==
  ASSUME NEW a, NEW b, NEW c, SameShape(b, c), Keeps(a, b), Keeps(b, c)
  PROVE  Keeps(a, c)
<1>1. DOMAIN b.types = DOMAIN c.types /\ DOMAIN c.methods \subseteq DOMAIN b.methods
  BY DEF SameShape
<1>2. ASSUME NEW i \in DOMAIN c.types PROVE TypeKeeps(a.types[i], c.types[i])
  <2>1. /\ TypeKeeps(a.types[i], b.types[i]) /\ TypeKeeps(b.types[i], c.types[i])
        /\ DOMAIN b.types[i].attrs = DOMAIN c.types[i].attrs
    BY <1>1 DEF Keeps, SameShape
  <2> QED
    BY Zenon, <2>1 DEF TypeKeeps
<1>3. ASSUME NEW k \in DOMAIN c.methods PROVE MethodKeeps(a.methods[k], c.methods[k])
  <2>1. MethodKeeps(a.methods[k], b.methods[k]) /\ MethodKeeps(b.methods[k], c.methods[k])
    BY <1>1 DEF Keeps
  <2> QED
    BY Zenon, <2>1 DEF MethodKeeps
<1> QED
  BY <1>2, <1>3 DEF Keeps

LEMMA ListedExist ==
  ASSUME NEW m, IsModule(m)
  PROVE  ListedMethods(m) \subseteq DOMAIN m.methods
<1>1. DOMAIN m.types = 1..Len(m.types)
  BY SequenceMeans DEF IsModule
<1>2. \A i \in DOMAIN m.types : Range(m.types[i].methods) \subseteq DOMAIN m.methods
  BY DEF IsModule, IsType
<1> QED
  BY <1>1, <1>2 DEF ListedMethods

(* Types alike list the same methods.                                        *)
LEMMA ListedAlike ==
  ASSUME NEW n, NEW m, IsSequence(n.types), IsSequence(m.types), DOMAIN n.types = DOMAIN m.types,
         \A i \in DOMAIN m.types : n.types[i].methods = m.types[i].methods
  PROVE  ListedMethods(n) = ListedMethods(m)
<1>1. Len(n.types) = Len(m.types) /\ DOMAIN m.types = 1..Len(m.types)
  BY SameIndices, SequenceMeans
<1>2. \A i \in 1..Len(m.types) : n.types[i].methods = m.types[i].methods
  BY <1>1
<1>3. {Range(n.types[i].methods) : i \in 1..Len(m.types)} = {Range(m.types[i].methods) : i \in 1..Len(m.types)}
  BY Zenon, <1>2
<1> QED
  BY Zenon, <1>1, <1>3 DEF ListedMethods

LEMMA SameTurnsBack ==
  ASSUME NEW n, NEW m, NEW was, SameReferences(n, m), SameShape(m, was), IsModule(was), NEW refs,
         TurnsBack(m, was, refs)
  PROVE  TurnsBack(n, was, refs)
<1>1. /\ DOMAIN m.types = DOMAIN was.types /\ DOMAIN was.methods \subseteq DOMAIN m.methods
      /\ \A i \in DOMAIN was.types : DOMAIN m.types[i].attrs = DOMAIN was.types[i].attrs
  BY DEF SameShape
<1>2. \A j \in DOMAIN was.loose : Restored(n.loose[j], refs) = was.loose[j]
  BY Zenon DEF TurnsBack, SameReferences, Aside
<1>3. ASSUME NEW i \in DOMAIN was.types
      PROVE  /\ Restored(n.types[i].base, refs) = was.types[i].base
             /\ \A j \in DOMAIN was.types[i].attrs :
                   Restored(n.types[i].attrs[j].ctor, refs) = was.types[i].attrs[j].ctor
  <2>1. TypeRefersAlike(n.types[i], m.types[i])
    BY <1>1 DEF SameReferences
  <2>2. n.types[i].base = m.types[i].base
        /\ \A j \in DOMAIN was.types[i].attrs : n.types[i].attrs[j].ctor = m.types[i].attrs[j].ctor
    BY <1>1, <2>1 DEF TypeRefersAlike
  <2>3. /\ Restored(m.types[i].base, refs) = was.types[i].base
        /\ \A j \in DOMAIN was.types[i].attrs :
              Restored(m.types[i].attrs[j].ctor, refs) = was.types[i].attrs[j].ctor
    BY DEF TurnsBack
  <2> QED
    BY Zenon, <2>2, <2>3
<1>4. ASSUME NEW k \in ListedMethods(was), NEW j \in DOMAIN was.methods[k].overrides
      PROVE  Restored(n.methods[k].overrides[j].parent, refs) = was.methods[k].overrides[j].parent
  <2>1. k \in DOMAIN m.methods
    BY <1>1, ListedExist
  <2>2. n.methods[k].overrides = m.methods[k].overrides
    BY <2>1 DEF SameReferences
  <2>3. Restored(m.methods[k].overrides[j].parent, refs) = was.methods[k].overrides[j].parent
    BY DEF TurnsBack
  <2> QED
    BY Zenon, <2>2, <2>3
<1> QED
  BY Zenon, <1>2, <1>3, <1>4 DEF TurnsBack

(* One type is replaced.                                                     *)
LEMMA OneTypeKeeps ==
  ASSUME NEW n, NEW m, NEW i \in DOMAIN m.types, OneType(n, m, i), Aside(n, m),
         TypeKeeps(n.types[i], m.types[i])
  PROVE  /\ Keeps(n, m)
         /\ TypeRefersAlike(n.types[i], m.types[i]) => SameReferences(n, m)
<1>1. \A j \in DOMAIN m.types : j # i => n.types[j] = m.types[j]
  BY DEF OneType
<1>2. \A j \in DOMAIN m.types : TypeKeeps(n.types[j], m.types[j])
  BY <1>1 DEF TypeKeeps
<1>3. n.methods = m.methods
  BY DEF OneType
<1>4. \A k \in DOMAIN m.methods : MethodKeeps(n.methods[k], m.methods[k])
  BY <1>3 DEF MethodKeeps
<1>5. Keeps(n, m)
  BY <1>2, <1>4 DEF Keeps, Aside
<1>6. ASSUME TypeRefersAlike(n.types[i], m.types[i]) PROVE SameReferences(n, m)
  <2>1. \A j \in DOMAIN m.types : TypeRefersAlike(n.types[j], m.types[j])
    BY <1>1, <1>6 DEF TypeRefersAlike
  <2> QED
    BY <1>3, <2>1 DEF SameReferences
<1> QED
  BY <1>5, <1>6

LEMMA EditRefersAlike ==
  ASSUME NEW m, NEW ty, IsType(ty, m), NEW treatment
  PROVE  LET new == EditedType(ty, treatment)
         IN  /\ TypeKeeps(new, ty) /\ TypeRefersAlike(new, ty)
<1> DEFINE new == EditedType(ty, treatment)
<1>1. /\ DOMAIN new = DOMAIN ty /\ new.id = ty.id /\ new.fields = ty.fields /\ new.nested = ty.nested
      /\ new.attrs = ty.attrs /\ new.ifaces = ty.ifaces /\ new.base = ty.base
  BY DEF EditedType, IsType
<1>2. IsRecord(new)
  BY DEF EditedType, IsRecord
<1> HIDE DEF new
<1>3. TypeKeeps(new, ty)
  BY Zenon, <1>1, <1>2 DEF TypeKeeps
<1>4. TypeRefersAlike(new, ty)
  BY Zenon, <1>1 DEF TypeRefersAlike
<1> QED
  BY <1>3, <1>4 DEF new

LEMMA UnprojectRefersAlike ==
  ASSUME NEW m, NEW ty, IsType(ty, m), NEW r
  PROVE  LET new == UnprojectedType(ty, r)
         IN  TypeKeeps(new, ty) /\ TypeRefersAlike(new, ty)
<1> DEFINE own == Picked(ty.methods, {k \in DOMAIN ty.methods : ty.methods[k] \notin r.added})
           ms == IF "Redirect" \in r.treatment THEN own ELSE ty.methods
           new == [ty EXCEPT !.flags = r.flags, !.prefix = r.prefix, !.methods = ms]
<1>0. UnprojectedType(ty, r) = new
  BY DEF UnprojectedType, IsType
<1> HIDE DEF ms
<1>1. /\ DOMAIN new = DOMAIN ty /\ new.id = ty.id /\ new.fields = ty.fields /\ new.nested = ty.nested
      /\ new.attrs = ty.attrs /\ new.ifaces = ty.ifaces /\ new.base = ty.base
  BY DEF IsType
<1>2. IsRecord(new)
  BY DEF IsRecord
<1> HIDE DEF new
<1>3. TypeKeeps(new, ty)
  BY Zenon, <1>1, <1>2 DEF TypeKeeps
<1>4. TypeRefersAlike(new, ty)
  BY Zenon, <1>1 DEF TypeRefersAlike
<1> QED
  BY <1>0, <1>3, <1>4

LEMMA RedirectKeeps ==
  ASSUME NEW m, NEW ty, IsType(ty, m), NEW more
  PROVE  LET new == [EditedType(ty, {"Redirect"}) EXCEPT !.ifaces = @ \o more]
         IN  /\ TypeKeeps(new, ty) /\ new.base = ty.base /\ new.ifaces = ty.ifaces \o more
             /\ new.attrs = ty.attrs
<1> DEFINE e == EditedType(ty, {"Redirect"})
           new == [e EXCEPT !.ifaces = @ \o more]
<1>1. /\ DOMAIN e = DOMAIN ty /\ e.id = ty.id /\ e.fields = ty.fields /\ e.nested = ty.nested
      /\ e.attrs = ty.attrs /\ e.ifaces = ty.ifaces /\ e.base = ty.base
  BY DEF EditedType, IsType
<1> HIDE DEF e
<1>2. /\ new.id = ty.id /\ new.fields = ty.fields /\ new.nested = ty.nested
      /\ new.attrs = ty.attrs /\ new.ifaces = ty.ifaces \o more /\ new.base = ty.base
  BY <1>1 DEF IsType
<1>3. IsRecord(new)
  BY DEF IsRecord
<1> HIDE DEF new
<1>4. TypeKeeps(new, ty)
  BY Zenon, <1>2, <1>3 DEF TypeKeeps
<1> QED
  BY <1>2, <1>4 DEF new, e

LEMMA UnwireKeeps ==
  ASSUME NEW m, NEW ty, IsType(ty, m), NEW is
  PROVE  LET new == [ty EXCEPT !.ifaces = is]
         IN  TypeKeeps(new, ty) /\ new.base = ty.base /\ new.ifaces = is /\ new.attrs = ty.attrs
<1> DEFINE new == [ty EXCEPT !.ifaces = is]
<1>2. /\ new.id = ty.id /\ new.fields = ty.fields /\ new.nested = ty.nested
      /\ new.attrs = ty.attrs /\ new.ifaces = is /\ new.base = ty.base
  BY DEF IsType
<1>3. IsRecord(new)
  BY DEF IsRecord
<1> HIDE DEF new
<1>4. TypeKeeps(new, ty)
  BY Zenon, <1>2, <1>3 DEF TypeKeeps
<1> QED
  BY <1>2, <1>4 DEF new

LEMMA ReparentKeeps ==
  ASSUME NEW m, NEW meth, IsMethod(meth, m),
         NEW os, os = [j \in DOMAIN meth.overrides |-> os[j]],
         \A j \in DOMAIN meth.overrides : /\ os[j].name = meth.overrides[j].name
                                          /\ IsRecord(meth.overrides[j]) => IsRecord(os[j])
  PROVE  LET new == [meth EXCEPT !.overrides = os] IN MethodKeeps(new, meth) /\ new.overrides = os
<1> DEFINE new == [meth EXCEPT !.overrides = os]
<1>1. /\ new.name = meth.name /\ new.owner = meth.owner /\ new.treatAsPublic = meth.treatAsPublic
      /\ new.overrides = os
  BY DEF IsMethod
<1>2. IsRecord(new)
  BY DEF IsRecord
<1>3. DOMAIN os = DOMAIN meth.overrides
  OBVIOUS
<1> HIDE DEF new
<1>4. MethodKeeps(new, meth)
  BY Zenon, <1>1, <1>2, <1>3 DEF MethodKeeps
<1> QED
  BY <1>1, <1>4 DEF new

LEMMA MethodsKeep ==
  ASSUME NEW n, NEW m, Aside(n, m), n.types = m.types,
         \A k \in DOMAIN m.methods : MethodKeeps(n.methods[k], m.methods[k])
  PROVE  /\ Keeps(n, m)
         /\ (\A k \in DOMAIN m.methods : n.methods[k].overrides = m.methods[k].overrides)
               => SameReferences(n, m)
<1>1. \A i \in DOMAIN m.types : TypeKeeps(n.types[i], m.types[i]) /\ TypeRefersAlike(n.types[i], m.types[i])
  BY Zenon DEF TypeKeeps, TypeRefersAlike
<1> QED
  BY Zenon, <1>1 DEF Keeps, SameReferences, Aside

LEMMA RewiredKeeps ==
  ASSUME NEW m, IsModule(m), NEW i, NEW from, NEW to
  PROVE  LET n == Rewired(m, i, from, to)
         IN  /\ Keeps(n, m) /\ Aside(n, m) /\ n.types = m.types
             /\ \A k \in DOMAIN m.methods : \A j \in DOMAIN m.methods[k].overrides :
                   \/ n.methods[k].overrides[j].parent = m.methods[k].overrides[j].parent
                   \/ /\ m.methods[k].overrides[j].parent = from
                      /\ n.methods[k].overrides[j].parent = to
<1> DEFINE R(e) == IF e = from THEN to ELSE e
           parents(meth) == [j \in DOMAIN meth.overrides |->
                               [meth.overrides[j] EXCEPT !.parent = R(meth.overrides[j].parent)]]
           ks == [k \in DOMAIN m.methods |->
                    IF k \in Range(m.types[i].methods)
                    THEN [m.methods[k] EXCEPT !.overrides = parents(m.methods[k])] ELSE m.methods[k]]
           n == [m EXCEPT !.methods = ks]
<1>1. Rewired(m, i, from, to) = n
  BY Zenon DEF Rewired, Reparented, IsModule
<1>2. ASSUME NEW k \in DOMAIN m.methods
      PROVE  /\ MethodKeeps(ks[k], m.methods[k])
             /\ \A j \in DOMAIN m.methods[k].overrides :
                   \/ ks[k].overrides[j].parent = m.methods[k].overrides[j].parent
                   \/ m.methods[k].overrides[j].parent = from /\ ks[k].overrides[j].parent = to
  <2> DEFINE meth == m.methods[k]
  <2>1. IsMethod(meth, m)
    BY DEF IsModule
  <2>2. ASSUME NEW j \in DOMAIN meth.overrides
        PROVE  /\ parents(meth)[j].name = meth.overrides[j].name
               /\ IsRecord(parents(meth)[j])
               /\ parents(meth)[j].parent = R(meth.overrides[j].parent)
    <3>1. DOMAIN meth.overrides[j] = {"parent", "name"}
      BY <2>1 DEF IsMethod
    <3>2. parents(meth)[j] = [meth.overrides[j] EXCEPT !.parent = R(meth.overrides[j].parent)]
      OBVIOUS
    <3> HIDE DEF parents, R
    <3> QED
      BY <3>1, <3>2 DEF IsRecord
  <2>3. parents(meth) = [j \in DOMAIN meth.overrides |-> parents(meth)[j]]
    OBVIOUS
  <2>4. CASE k \in Range(m.types[i].methods)
    <3>1. ks[k] = [meth EXCEPT !.overrides = parents(meth)]
      BY <2>4
    <3> HIDE DEF ks, parents, meth
    <3>2. MethodKeeps(ks[k], meth) /\ ks[k].overrides = parents(meth)
      BY <2>1, <2>2, <2>3, <3>1, ReparentKeeps
    <3>3. \A j \in DOMAIN meth.overrides : ks[k].overrides[j].parent = R(meth.overrides[j].parent)
      BY <2>2, <3>2
    <3> QED
      BY <3>2, <3>3 DEF meth
  <2>5. CASE k \notin Range(m.types[i].methods)
    <3>1. ks[k] = meth
      BY <2>5
    <3> HIDE DEF ks, parents
    <3> QED
      BY <3>1 DEF MethodKeeps
  <2> QED
    BY Zenon, <2>4, <2>5
<1>3. n.types = m.types /\ Aside(n, m) /\ n.methods = ks
  BY DEF IsModule, Aside
<1> HIDE DEF ks, n
<1>4. Keeps(n, m)
  BY <1>2, <1>3, MethodsKeep
<1> QED
  BY <1>1, <1>2, <1>3, <1>4

LEMMA RewiredTurnsBack ==
  ASSUME NEW n, NEW m, NEW was, Aside(n, m), n.types = m.types, SameShape(m, was), Keeps(m, was),
         IsModule(was), NEW from, NEW to, NEW refs, Restored(from, refs) = Restored(to, refs),
         \A k \in DOMAIN m.methods : \A j \in DOMAIN m.methods[k].overrides :
            \/ n.methods[k].overrides[j].parent = m.methods[k].overrides[j].parent
            \/ m.methods[k].overrides[j].parent = from /\ n.methods[k].overrides[j].parent = to,
         TurnsBack(m, was, refs)
  PROVE  TurnsBack(n, was, refs)
<1>1. n.loose = m.loose
  BY DEF Aside
<1>2. ASSUME NEW k \in ListedMethods(was), NEW j \in DOMAIN was.methods[k].overrides
      PROVE  Restored(n.methods[k].overrides[j].parent, refs) = was.methods[k].overrides[j].parent
  <2>1. k \in DOMAIN was.methods /\ k \in DOMAIN m.methods
    BY ListedExist DEF SameShape
  <2>2. j \in DOMAIN m.methods[k].overrides
    BY <2>1 DEF Keeps, MethodKeeps
  <2>3. Restored(m.methods[k].overrides[j].parent, refs) = was.methods[k].overrides[j].parent
    BY DEF TurnsBack
  <2>4. \/ n.methods[k].overrides[j].parent = m.methods[k].overrides[j].parent
        \/ m.methods[k].overrides[j].parent = from /\ n.methods[k].overrides[j].parent = to
    BY Zenon, <2>1, <2>2
  <2> QED
    BY Zenon, <2>3, <2>4
<1> QED
  BY Zenon, <1>1, <1>2 DEF TurnsBack

LEMMA BlobsKeep ==
  ASSUME NEW m, IsModule(m), NEW blobs
  PROVE  LET n == SetBlobs(m, blobs) IN Keeps(n, m) /\ SameReferences(n, m)
<1> DEFINE attribute(i, j) ==
             IF <<i, j>> \in DOMAIN blobs
             THEN [m.types[i].attrs[j] EXCEPT !.blob = blobs[<<i, j>>]] ELSE m.types[i].attrs[j]
           attrs(i) == [j \in DOMAIN m.types[i].attrs |-> attribute(i, j)]
           ts == [i \in DOMAIN m.types |-> [m.types[i] EXCEPT !.attrs = attrs(i)]]
           n == [m EXCEPT !.types = ts]
<1>1. SetBlobs(m, blobs) = n
  <2>1. \A i \in DOMAIN m.types :
           [m.types[i] EXCEPT !.attrs = [j \in DOMAIN @ |-> attribute(i, j)]] = [m.types[i] EXCEPT !.attrs = attrs(i)]
    BY DEF IsModule, IsType
  <2> QED
    BY <2>1 DEF SetBlobs
<1>2. ASSUME NEW i \in DOMAIN m.types
      PROVE  TypeKeeps(ts[i], m.types[i]) /\ TypeRefersAlike(ts[i], m.types[i])
  <2> DEFINE ty == m.types[i]
             new == ts[i]
  <2>1. IsType(ty, m)
    BY DEF IsModule
  <2>2. ASSUME NEW j \in DOMAIN ty.attrs
        PROVE  /\ attribute(i, j).ctor = ty.attrs[j].ctor
               /\ IsRecord(ty.attrs[j]) => IsRecord(attribute(i, j))
    <3>1. DOMAIN ty.attrs[j] = {"ctor", "blob"}
      BY <2>1 DEF IsType
    <3> QED
      BY <3>1 DEF IsRecord
  <2> HIDE DEF attribute
  <2>3. \A j \in DOMAIN ty.attrs : attrs(i)[j] = attribute(i, j)
    OBVIOUS
  <2>4. new = [ty EXCEPT !.attrs = attrs(i)]
    OBVIOUS
  <2> HIDE DEF attrs, ts, new
  <2>5. /\ new.id = ty.id /\ new.fields = ty.fields /\ new.nested = ty.nested
        /\ new.attrs = attrs(i) /\ new.ifaces = ty.ifaces /\ new.base = ty.base
    BY <2>1, <2>4 DEF IsType
  <2>6. IsRecord(new)
    BY <2>4 DEF IsRecord
  <2> HIDE DEF ty
  <2>7. \A j \in DOMAIN ty.attrs : IsRecord(ty.attrs[j]) => IsRecord(new.attrs[j])
    BY Zenon, <2>2, <2>3, <2>5 DEF ty
  <2>8. \A j \in DOMAIN ty.attrs : new.attrs[j].ctor = ty.attrs[j].ctor
    BY Zenon, <2>2, <2>3, <2>5 DEF ty
  <2>9. TypeKeeps(new, ty) /\ TypeRefersAlike(new, ty)
    BY Zenon, <2>5, <2>6, <2>7, <2>8 DEF TypeKeeps, TypeRefersAlike
  <2> QED
    BY <2>9 DEF ty, new
<1>3. n.types = ts /\ n.methods = m.methods /\ Aside(n, m)
  BY DEF IsModule, Aside
<1> HIDE DEF ts, n
<1>4. \A k \in DOMAIN m.methods : MethodKeeps(n.methods[k], m.methods[k])
  BY <1>3 DEF MethodKeeps
<1>5. Keeps(n, m)
  BY <1>2, <1>3, <1>4 DEF Keeps, Aside
<1>6. SameReferences(n, m)
  BY <1>2, <1>3 DEF SameReferences
<1> QED
  BY <1>1, <1>5, <1>6

LEMMA ReferencesSet ==
  ASSUME NEW m, IsModule(m), NEW rs
  PROVE  LET n == [m EXCEPT !.refs = rs]
         IN  /\ Keeps(n, m) /\ n.refs = rs /\ n.types = m.types /\ n.methods = m.methods
             /\ n.loose = m.loose /\ n.kind = m.kind /\ n.fields = m.fields
<1> DEFINE n == [m EXCEPT !.refs = rs]
<1>1. /\ n.refs = rs /\ n.types = m.types /\ n.methods = m.methods
      /\ n.loose = m.loose /\ n.kind = m.kind /\ n.fields = m.fields
  BY DEF IsModule
<1> HIDE DEF n
<1>2. \A i \in DOMAIN m.types : TypeKeeps(n.types[i], m.types[i])
  BY <1>1 DEF TypeKeeps
<1>3. \A k \in DOMAIN m.methods : MethodKeeps(n.methods[k], m.methods[k])
  BY <1>1 DEF MethodKeeps
<1>4. Keeps(n, m)
  BY <1>1, <1>2, <1>3 DEF Keeps
<1> QED
  BY <1>1, <1>4 DEF n

(* What the walk does to a module, reference by reference.                   *)
RewrittenBy(n, m, R(_)) ==
    /\ n.kind = m.kind /\ n.refs = m.refs /\ n.fields = m.fields
    /\ n.loose = [j \in DOMAIN m.loose |-> R(m.loose[j])]
    /\ \A i \in DOMAIN m.types :
          /\ n.types[i].base = R(m.types[i].base)
          /\ n.types[i].ifaces = [j \in DOMAIN m.types[i].ifaces |-> R(m.types[i].ifaces[j])]
          /\ \A j \in DOMAIN m.types[i].attrs : n.types[i].attrs[j].ctor = R(m.types[i].attrs[j].ctor)
    /\ \A k \in DOMAIN m.methods : k \in ListedMethods(m) =>
          \A j \in DOMAIN m.methods[k].overrides :
             n.methods[k].overrides[j].parent = R(m.methods[k].overrides[j].parent)

LEMMA ProjectedAs ==
  ASSUME NEW m, IsModule(m)
  PROVE  LET n == Rewritten(m, Projected)
         IN  Keeps(n, m) /\ RewrittenBy(n, m, Projected)
<1> DEFINE R(e) == Projected(e)
           all(s) == [j \in DOMAIN s |-> R(s[j])]
           ctors(ty) == [j \in DOMAIN ty.attrs |-> [ty.attrs[j] EXCEPT !.ctor = R(ty.attrs[j].ctor)]]
           type(ty) == [ty EXCEPT !.base = R(ty.base), !.ifaces = all(ty.ifaces), !.attrs = ctors(ty)]
           parents(meth) == [j \in DOMAIN meth.overrides |->
                               [meth.overrides[j] EXCEPT !.parent = R(meth.overrides[j].parent)]]
           ts == [i \in DOMAIN m.types |-> type(m.types[i])]
           ks == [k \in DOMAIN m.methods |->
                    IF k \in ListedMethods(m)
                    THEN [m.methods[k] EXCEPT !.overrides = parents(m.methods[k])] ELSE m.methods[k]]
           ls == all(m.loose)
           n == [m EXCEPT !.types = ts, !.methods = ks, !.loose = ls]
<1>1. Rewritten(m, Projected) = n
  BY DEF Rewritten, Reparented
<1>2. ASSUME NEW i \in DOMAIN m.types
      PROVE  LET ty == m.types[i] IN
             /\ TypeKeeps(ts[i], ty) /\ ts[i].base = R(ty.base) /\ ts[i].ifaces = all(ty.ifaces)
             /\ \A j \in DOMAIN ty.attrs : ts[i].attrs[j].ctor = R(ty.attrs[j].ctor)
  <2> DEFINE ty == m.types[i]
             new == ts[i]
  <2>1. IsType(ty, m)
    BY DEF IsModule
  <2>2. ASSUME NEW j \in DOMAIN ty.attrs
        PROVE  ctors(ty)[j].ctor = R(ty.attrs[j].ctor) /\ IsRecord(ctors(ty)[j])
    <3>1. DOMAIN ty.attrs[j] = {"ctor", "blob"}
      BY <2>1 DEF IsType
    <3>2. ctors(ty)[j] = [ty.attrs[j] EXCEPT !.ctor = R(ty.attrs[j].ctor)]
      OBVIOUS
    <3> HIDE DEF ctors, R
    <3> QED
      BY <3>1, <3>2 DEF IsRecord
  <2>3. new = [ty EXCEPT !.base = R(ty.base), !.ifaces = all(ty.ifaces), !.attrs = ctors(ty)]
    BY DEF type
  <2> HIDE DEF ctors, all, R, new, ts, type
  <2>4. /\ new.id = ty.id /\ new.fields = ty.fields /\ new.nested = ty.nested
        /\ new.base = R(ty.base) /\ new.ifaces = all(ty.ifaces) /\ new.attrs = ctors(ty)
    BY Zenon, <2>1, <2>3 DEF IsType
  <2>5. IsRecord(new)
    BY <2>3 DEF IsRecord
  <2>6. \A j \in DOMAIN ty.attrs : new.attrs[j].ctor = R(ty.attrs[j].ctor) /\ IsRecord(new.attrs[j])
    BY Zenon, <2>2, <2>4
  <2> HIDE DEF ty
  <2>7. TypeKeeps(new, ty)
    BY Zenon, <2>4, <2>5, <2>6 DEF TypeKeeps
  <2> QED
    BY Zenon, <2>4, <2>6, <2>7 DEF ty, new
<1>3. ASSUME NEW k \in DOMAIN m.methods
      PROVE  /\ MethodKeeps(ks[k], m.methods[k])
             /\ k \in ListedMethods(m) => \A j \in DOMAIN m.methods[k].overrides :
                   ks[k].overrides[j].parent = R(m.methods[k].overrides[j].parent)
  <2> DEFINE meth == m.methods[k]
  <2>1. IsMethod(meth, m)
    BY DEF IsModule
  <2>2. ASSUME NEW j \in DOMAIN meth.overrides
        PROVE  /\ parents(meth)[j].name = meth.overrides[j].name
               /\ IsRecord(parents(meth)[j])
               /\ parents(meth)[j].parent = R(meth.overrides[j].parent)
    <3>1. DOMAIN meth.overrides[j] = {"parent", "name"}
      BY <2>1 DEF IsMethod
    <3>2. parents(meth)[j] = [meth.overrides[j] EXCEPT !.parent = R(meth.overrides[j].parent)]
      OBVIOUS
    <3> HIDE DEF parents, R
    <3> QED
      BY <3>1, <3>2 DEF IsRecord
  <2>3. parents(meth) = [j \in DOMAIN meth.overrides |-> parents(meth)[j]]
    BY Zenon
  <2>4. CASE k \in ListedMethods(m)
    <3>1. ks[k] = [meth EXCEPT !.overrides = parents(meth)]
      BY Zenon, <2>4
    <3> HIDE DEF ks, parents, meth, R
    <3>2. MethodKeeps(ks[k], meth) /\ ks[k].overrides = parents(meth)
      BY <2>1, <2>2, <2>3, <3>1, ReparentKeeps
    <3>3. \A j \in DOMAIN meth.overrides : ks[k].overrides[j].parent = R(meth.overrides[j].parent)
      BY <2>2, <3>2
    <3> QED
      BY Zenon, <3>2, <3>3 DEF meth
  <2>5. CASE k \notin ListedMethods(m)
    <3>1. ks[k] = meth
      BY Zenon, <2>5
    <3> HIDE DEF ks, parents, R
    <3> QED
      BY Zenon, <2>5, <3>1 DEF MethodKeeps
  <2> QED
    BY Zenon, <2>4, <2>5
<1>4. /\ n.types = ts /\ n.methods = ks /\ n.loose = ls /\ n.kind = m.kind /\ n.refs = m.refs
      /\ n.fields = m.fields
  <2> HIDE DEF ts, ks, ls
  <2> QED
    BY DEF IsModule
<1>5. DOMAIN ls = DOMAIN m.loose
  BY Zenon
<1>6. ls = [j \in DOMAIN m.loose |-> R(m.loose[j])]
  BY Zenon
<1>7. \A s : all(s) = [j \in DOMAIN s |-> R(s[j])]
  BY Zenon
<1> HIDE DEF ts, ks, ls, n, all, ctors, type, parents, R
<1>8. Keeps(n, m)
  BY Zenon, <1>2, <1>3, <1>4, <1>5 DEF Keeps
<1>9. RewrittenBy(n, m, R)
  BY ZenonT(60), <1>2, <1>3, <1>4, <1>6, <1>7 DEF RewrittenBy
<1> QED
  BY <1>1, <1>8, <1>9 DEF R, RewrittenBy

(* The same, for the references of a record.                                 *)
BackBy(n, m, refs) ==
    /\ n.kind = m.kind /\ n.refs = m.refs /\ n.fields = m.fields
    /\ n.loose = [j \in DOMAIN m.loose |-> Restored(m.loose[j], refs)]
    /\ \A i \in DOMAIN m.types :
          /\ n.types[i].base = Restored(m.types[i].base, refs)
          /\ n.types[i].ifaces = [j \in DOMAIN m.types[i].ifaces |-> Restored(m.types[i].ifaces[j], refs)]
          /\ \A j \in DOMAIN m.types[i].attrs : n.types[i].attrs[j].ctor = Restored(m.types[i].attrs[j].ctor, refs)
    /\ \A k \in DOMAIN m.methods : k \in ListedMethods(m) =>
          \A j \in DOMAIN m.methods[k].overrides :
             n.methods[k].overrides[j].parent = Restored(m.methods[k].overrides[j].parent, refs)

LEMMA RestoredAs ==
  ASSUME NEW m, IsModule(m), NEW refs, NEW x, x = WithReferencesRestored(m, refs)
  PROVE  Keeps(x, m) /\ BackBy(x, m, refs)
<1> DEFINE R(e) == Restored(e, refs)
           all(s) == [j \in DOMAIN s |-> R(s[j])]
           ctors(ty) == [j \in DOMAIN ty.attrs |-> [ty.attrs[j] EXCEPT !.ctor = R(ty.attrs[j].ctor)]]
           type(ty) == [ty EXCEPT !.base = R(ty.base), !.ifaces = all(ty.ifaces), !.attrs = ctors(ty)]
           parents(meth) == [j \in DOMAIN meth.overrides |->
                               [meth.overrides[j] EXCEPT !.parent = R(meth.overrides[j].parent)]]
           ts == [i \in DOMAIN m.types |-> type(m.types[i])]
           ks == [k \in DOMAIN m.methods |->
                    IF k \in ListedMethods(m)
                    THEN [m.methods[k] EXCEPT !.overrides = parents(m.methods[k])] ELSE m.methods[k]]
           ls == all(m.loose)
           n == [m EXCEPT !.types = ts, !.methods = ks, !.loose = ls]
<1>1. WithReferencesRestored(m, refs) = n
  BY DEF WithReferencesRestored, Rewritten, Reparented
<1>2. ASSUME NEW i \in DOMAIN m.types
      PROVE  LET ty == m.types[i] IN
             /\ TypeKeeps(ts[i], ty) /\ ts[i].base = R(ty.base) /\ ts[i].ifaces = all(ty.ifaces)
             /\ \A j \in DOMAIN ty.attrs : ts[i].attrs[j].ctor = R(ty.attrs[j].ctor)
  <2> DEFINE ty == m.types[i]
             new == ts[i]
  <2>1. IsType(ty, m)
    BY DEF IsModule
  <2>2. ASSUME NEW j \in DOMAIN ty.attrs
        PROVE  ctors(ty)[j].ctor = R(ty.attrs[j].ctor) /\ IsRecord(ctors(ty)[j])
    <3>1. DOMAIN ty.attrs[j] = {"ctor", "blob"}
      BY <2>1 DEF IsType
    <3>2. ctors(ty)[j] = [ty.attrs[j] EXCEPT !.ctor = R(ty.attrs[j].ctor)]
      OBVIOUS
    <3> HIDE DEF ctors, R
    <3> QED
      BY <3>1, <3>2 DEF IsRecord
  <2>3. new = [ty EXCEPT !.base = R(ty.base), !.ifaces = all(ty.ifaces), !.attrs = ctors(ty)]
    BY DEF type
  <2> HIDE DEF ctors, all, R, new, ts, type
  <2>4. /\ new.id = ty.id /\ new.fields = ty.fields /\ new.nested = ty.nested
        /\ new.base = R(ty.base) /\ new.ifaces = all(ty.ifaces) /\ new.attrs = ctors(ty)
    BY Zenon, <2>1, <2>3 DEF IsType
  <2>5. IsRecord(new)
    BY <2>3 DEF IsRecord
  <2>6. \A j \in DOMAIN ty.attrs : new.attrs[j].ctor = R(ty.attrs[j].ctor) /\ IsRecord(new.attrs[j])
    BY Zenon, <2>2, <2>4
  <2> HIDE DEF ty
  <2>7. TypeKeeps(new, ty)
    BY Zenon, <2>4, <2>5, <2>6 DEF TypeKeeps
  <2> QED
    BY Zenon, <2>4, <2>6, <2>7 DEF ty, new
<1>3. ASSUME NEW k \in DOMAIN m.methods
      PROVE  /\ MethodKeeps(ks[k], m.methods[k])
             /\ k \in ListedMethods(m) => \A j \in DOMAIN m.methods[k].overrides :
                   ks[k].overrides[j].parent = R(m.methods[k].overrides[j].parent)
  <2> DEFINE meth == m.methods[k]
  <2>1. IsMethod(meth, m)
    BY DEF IsModule
  <2>2. ASSUME NEW j \in DOMAIN meth.overrides
        PROVE  /\ parents(meth)[j].name = meth.overrides[j].name
               /\ IsRecord(parents(meth)[j])
               /\ parents(meth)[j].parent = R(meth.overrides[j].parent)
    <3>1. DOMAIN meth.overrides[j] = {"parent", "name"}
      BY <2>1 DEF IsMethod
    <3>2. parents(meth)[j] = [meth.overrides[j] EXCEPT !.parent = R(meth.overrides[j].parent)]
      OBVIOUS
    <3> HIDE DEF parents, R
    <3> QED
      BY <3>1, <3>2 DEF IsRecord
  <2>3. parents(meth) = [j \in DOMAIN meth.overrides |-> parents(meth)[j]]
    BY Zenon
  <2>4. CASE k \in ListedMethods(m)
    <3>1. ks[k] = [meth EXCEPT !.overrides = parents(meth)]
      BY Zenon, <2>4
    <3> HIDE DEF ks, parents, meth, R
    <3>2. MethodKeeps(ks[k], meth) /\ ks[k].overrides = parents(meth)
      BY <2>1, <2>2, <2>3, <3>1, ReparentKeeps
    <3>3. \A j \in DOMAIN meth.overrides : ks[k].overrides[j].parent = R(meth.overrides[j].parent)
      BY <2>2, <3>2
    <3> QED
      BY Zenon, <3>2, <3>3 DEF meth
  <2>5. CASE k \notin ListedMethods(m)
    <3>1. ks[k] = meth
      BY Zenon, <2>5
    <3> HIDE DEF ks, parents, R
    <3> QED
      BY Zenon, <2>5, <3>1 DEF MethodKeeps
  <2> QED
    BY Zenon, <2>4, <2>5
<1>4. /\ n.types = ts /\ n.methods = ks /\ n.loose = ls /\ n.kind = m.kind /\ n.refs = m.refs
      /\ n.fields = m.fields
  <2> HIDE DEF ts, ks, ls
  <2> QED
    BY DEF IsModule
<1>5. DOMAIN ls = DOMAIN m.loose
  BY Zenon
<1>6. ls = [j \in DOMAIN m.loose |-> R(m.loose[j])]
  BY Zenon
<1>7. \A s : all(s) = [j \in DOMAIN s |-> R(s[j])]
  BY Zenon
<1> HIDE DEF ts, ks, ls, n, all, ctors, type, parents, R
<1>8. Keeps(n, m)
  BY Zenon, <1>2, <1>3, <1>4, <1>5 DEF Keeps
<1>9. RewrittenBy(n, m, R)
  BY ZenonT(60), <1>2, <1>3, <1>4, <1>6, <1>7 DEF RewrittenBy
<1>10. BackBy(n, m, refs)
  BY <1>9 DEF R, RewrittenBy, BackBy
<1> QED
  BY Zenon, <1>1, <1>8, <1>10

-------------------------------------------------------------------------------
(* The references after each pass.                                           *)

ReferencesAsBefore(t) == Keeps(mods'[t], mods[t]) /\ SameReferences(mods'[t], mods[t])

LEMMA TypeSetAside ==
  ASSUME NEW m, IsModule(m), NEW i, NEW new
  PROVE  Aside([m EXCEPT !.types[i] = new], m)
BY DEF IsModule, Aside

LEMMA ProjectTypeDefinitionReferences ==
  ASSUME TypeOK, NEW t \in Threads, ProjectTypeDefinition(t)
  PROVE  ReferencesAsBefore(t)
<1> DEFINE i == work[t].at
           m == mods[t]
           n == mods'[t]
           treatment == TypeTreatment(m, m.types[i], rec[t].refs)
<1>1. /\ i \in DOMAIN m.types
      /\ "Redirect" \in treatment => mods' = mods
      /\ "Redirect" \notin treatment => OneType(n, m, i) /\ n.types[i] = EditedType(m.types[i], treatment)
  BY ProjectTypeDefinitionEffect
<1>2. IsModule(m) /\ DOMAIN mods = Threads
  BY DEF TypeOK
<1>3. ASSUME mods' # mods PROVE Aside(n, m)
  <2>1. PICK new : mods' = [mods EXCEPT ![t].types[i] = new]
    BY Zenon, <1>3, ProjectTypeDefinitionShape
  <2>2. n = [m EXCEPT !.types[i] = new]
    BY <1>2, <2>1
  <2> HIDE DEF n, m, i
  <2> QED
    BY <1>2, <2>2, TypeSetAside
<1> HIDE DEF treatment, i
<1>4. CASE mods' = mods
  BY <1>4, KeepsReflexive DEF ReferencesAsBefore
<1>5. CASE mods' # mods
  <2>1. Aside(n, m)
    BY <1>3, <1>5
  <2>2. OneType(n, m, i) /\ n.types[i] = EditedType(m.types[i], treatment)
    BY <1>1, <1>5
  <2>3. IsType(m.types[i], m)
    BY <1>1, <1>2 DEF IsModule
  <2>4. TypeKeeps(n.types[i], m.types[i]) /\ TypeRefersAlike(n.types[i], m.types[i])
    BY Zenon, <2>2, <2>3, EditRefersAlike
  <2> HIDE DEF n, m
  <2>5. Keeps(n, m) /\ SameReferences(n, m)
    BY <1>1, <2>1, <2>2, <2>4, OneTypeKeeps
  <2> QED
    BY <2>5 DEF ReferencesAsBefore, n, m
<1> QED
  BY <1>4, <1>5

LEMMA FieldsSetKeep ==
  ASSUME NEW m, IsModule(m), NEW fs
  PROVE  LET n == [m EXCEPT !.fields = fs] IN Keeps(n, m) /\ SameReferences(n, m)
<1> DEFINE n == [m EXCEPT !.fields = fs]
<1>1. n.types = m.types /\ n.methods = m.methods /\ Aside(n, m)
  BY DEF IsModule, Aside
<1> HIDE DEF n
<1>2. \A k \in DOMAIN m.methods : MethodKeeps(n.methods[k], m.methods[k])
  BY <1>1 DEF MethodKeeps
<1>3. \A k \in DOMAIN m.methods : n.methods[k].overrides = m.methods[k].overrides
  BY <1>1
<1> QED
  BY <1>1, <1>2, <1>3, MethodsKeep DEF n

LEMMA ProjectFieldsReferences ==
  ASSUME TypeOK, NEW t \in Threads, ProjectFields(t)
  PROVE  ReferencesAsBefore(t)
<1>1. IsModule(mods[t]) /\ \E fs : mods'[t] = [mods[t] EXCEPT !.fields = fs]
  BY DEF TypeOK, ProjectFields
<1> QED
  BY <1>1, FieldsSetKeep DEF ReferencesAsBefore

LEMMA MembersEditedKeep ==
  ASSUME NEW m, IsModule(m), NEW ks, ks = [k \in DOMAIN m.methods |-> ks[k]],
         \A k \in DOMAIN m.methods : \/ ks[k] = m.methods[k]
                                     \/ \E a, f : ks[k] = [m.methods[k] EXCEPT !.access = a, !.flags = f]
  PROVE  LET n == [m EXCEPT !.methods = ks] IN Keeps(n, m) /\ SameReferences(n, m)
<1> DEFINE n == [m EXCEPT !.methods = ks]
<1>1. n.types = m.types /\ n.methods = ks /\ Aside(n, m)
  BY DEF IsModule, Aside
<1>2. ASSUME NEW k \in DOMAIN m.methods
      PROVE  MethodKeeps(ks[k], m.methods[k]) /\ ks[k].overrides = m.methods[k].overrides
  <2>1. IsMethod(m.methods[k], m)
    BY DEF IsModule
  <2>2. CASE ks[k] = m.methods[k]
    BY <2>2 DEF MethodKeeps
  <2>3. ASSUME NEW a, NEW f, ks[k] = [m.methods[k] EXCEPT !.access = a, !.flags = f]
        PROVE  MethodKeeps(ks[k], m.methods[k]) /\ ks[k].overrides = m.methods[k].overrides
    <3> DEFINE meth == m.methods[k]
               new == ks[k]
    <3>1. IsMethod(meth, m) /\ new = [meth EXCEPT !.access = a, !.flags = f]
      BY <2>1, <2>3
    <3> HIDE DEF meth, new
    <3>2. /\ new.name = meth.name /\ new.owner = meth.owner /\ new.treatAsPublic = meth.treatAsPublic
          /\ new.overrides = meth.overrides
      BY <3>1 DEF IsMethod
    <3>3. IsRecord(new)
      BY <3>1 DEF IsRecord
    <3>4. MethodKeeps(new, meth)
      BY Zenon, <3>2, <3>3 DEF MethodKeeps
    <3> QED
      BY <3>2, <3>4 DEF meth, new
  <2> QED
    BY Zenon, <2>2, <2>3
<1> HIDE DEF n
<1>3. Keeps(n, m)
  BY <1>1, <1>2, MethodsKeep
<1>4. \A k \in DOMAIN m.methods : n.methods[k].overrides = m.methods[k].overrides
  BY <1>1, <1>2
<1>5. SameReferences(n, m)
  BY <1>1, <1>4 DEF SameReferences, TypeRefersAlike
<1> QED
  BY <1>3, <1>5 DEF n

LEMMA ProjectMethodsReferences ==
  ASSUME TypeOK, NEW t \in Threads, ProjectMethods(t)
  PROVE  ReferencesAsBefore(t)
<1> DEFINE m == mods[t]
           treatment(k) == TreatmentIn(m, rec[t], k)
           ks == [k \in DOMAIN m.methods |-> EditedMethod(m.methods[k], treatment(k))]
<1>1. IsModule(m) /\ DOMAIN mods = Threads
  BY DEF TypeOK
<1>2. mods'[t] = [m EXCEPT !.methods = ks]
  BY <1>1 DEF ProjectMethods, TreatmentIn
<1> HIDE DEF m, treatment
<1>3. ASSUME NEW k \in DOMAIN m.methods
      PROVE  \E a, f : ks[k] = [m.methods[k] EXCEPT !.access = a, !.flags = f]
  BY DEF EditedMethod
<1>4. ks = [k \in DOMAIN m.methods |-> ks[k]]
  OBVIOUS
<1> HIDE DEF ks
<1>5. \A k \in DOMAIN m.methods : \/ ks[k] = m.methods[k]
                                    \/ \E a, f : ks[k] = [m.methods[k] EXCEPT !.access = a, !.flags = f]
  BY ZenonT(30), <1>3
<1>6. IsModule(m)
  BY <1>1
<1>7. LET n == [m EXCEPT !.methods = ks] IN Keeps(n, m) /\ SameReferences(n, m)
  BY ZenonT(30), <1>4, <1>5, <1>6, MembersEditedKeep
<1> QED
  BY <1>2, <1>7 DEF m, ReferencesAsBefore

LEMMA ProjectAttributeRecordsReferences ==
  ASSUME TypeOK, NEW t \in Threads, ProjectAttributeRecords(t)
  PROVE  ReferencesAsBefore(t)
<1>1. IsModule(mods[t]) /\ \E blobs : mods'[t] = SetBlobs(mods[t], blobs)
  BY DEF TypeOK, ProjectAttributeRecords
<1> QED
  BY <1>1, BlobsKeep DEF ReferencesAsBefore

LEMMA RepairReferences ==
  ASSUME TypeOK, NEW t \in Threads, Repair(t)
  PROVE  ReferencesAsBefore(t)
<1>1. IsModule(mods[t]) /\ \E blobs : mods'[t] = SetBlobs(mods[t], blobs)
  BY DEF TypeOK, Repair
<1> QED
  BY <1>1, BlobsKeep DEF ReferencesAsBefore

LEMMA SameReferencesTransitive ==
  ASSUME NEW a, NEW b, NEW c, SameShape(b, c), SameReferences(a, b), SameReferences(b, c)
  PROVE  SameReferences(a, c)
<1>1. DOMAIN b.types = DOMAIN c.types /\ DOMAIN c.methods \subseteq DOMAIN b.methods
  BY DEF SameShape
<1>2. ASSUME NEW i \in DOMAIN c.types PROVE TypeRefersAlike(a.types[i], c.types[i])
  <2>1. /\ TypeRefersAlike(a.types[i], b.types[i]) /\ TypeRefersAlike(b.types[i], c.types[i])
        /\ DOMAIN b.types[i].attrs = DOMAIN c.types[i].attrs
    BY <1>1 DEF SameReferences, SameShape
  <2> QED
    BY Zenon, <2>1 DEF TypeRefersAlike
<1>3. ASSUME NEW k \in DOMAIN c.methods PROVE a.methods[k].overrides = c.methods[k].overrides
  BY <1>1 DEF SameReferences
<1>4. Aside(a, c)
  BY DEF Aside, SameReferences
<1> QED
  BY <1>2, <1>3, <1>4 DEF SameReferences

LEMMA RestoreMembersReferences ==
  ASSUME TypeOK, NEW t \in Threads, RestoreMembers(t)
  PROVE  ReferencesAsBefore(t)
<1> DEFINE m == mods[t]
           r == rec[t]
           a == SetBlobs(m, r.attrs)
           field(f) == IF f \in DOMAIN r.fields THEN [a.fields[f] EXCEPT !.access = r.fields[f]]
                       ELSE a.fields[f]
           method(k) == IF k \in DOMAIN r.methods
                        THEN [a.methods[k] EXCEPT !.access = r.methods[k].access,
                                                  !.flags = r.methods[k].flags]
                        ELSE a.methods[k]
           fs == [f \in DOMAIN a.fields |-> field(f)]
           ks == [k \in DOMAIN a.methods |-> method(k)]
           b == [a EXCEPT !.methods = ks]
           c == [b EXCEPT !.fields = fs]
<1>1. IsModule(m) /\ DOMAIN mods = Threads
  BY DEF TypeOK
<1>2. mods'[t] = [a EXCEPT !.fields = fs, !.methods = ks]
  BY <1>1 DEF RestoreMembers
<1> HIDE DEF m, r, a
<1>3. IsModule(a) /\ SameShape(a, m) /\ Keeps(a, m) /\ SameReferences(a, m)
  BY <1>1, BlobsSet, BlobsKeep DEF a
<1>4. \A k \in DOMAIN a.methods : \/ ks[k] = a.methods[k]
                                  \/ \E x, f : ks[k] = [a.methods[k] EXCEPT !.access = x, !.flags = f]
  OBVIOUS
<1>5. ks = [k \in DOMAIN a.methods |-> ks[k]]
  BY Zenon
<1>6. \A k \in DOMAIN a.methods : MethodKept(ks[k], a.methods[k])
  <2> SUFFICES ASSUME NEW k \in DOMAIN a.methods PROVE MethodKept(ks[k], a.methods[k])
    BY Zenon
  <2>1. IsMethod(a.methods[k], a)
    BY <1>3 DEF IsModule
  <2>2. /\ DOMAIN ks[k] = DOMAIN a.methods[k] /\ ks[k].owner = a.methods[k].owner
        /\ ks[k].overrides = a.methods[k].overrides
    BY <2>1 DEF IsMethod
  <2> QED
    BY Zenon, <2>1, <2>2 DEF IsMethod, MethodKept
<1>7. c = [a EXCEPT !.fields = fs, !.methods = ks]
  <2> HIDE DEF fs, ks
  <2> QED
    BY <1>3 DEF IsModule
<1> HIDE DEF ks, fs
<1>8. IsModule(b) /\ SameShape(b, a)
  BY <1>3, <1>5, <1>6, WithMethods
<1>9. Keeps(b, a) /\ SameReferences(b, a)
  BY <1>3, <1>4, <1>5, MembersEditedKeep
<1> HIDE DEF b
<1>10. Keeps(c, b) /\ SameReferences(c, b)
  BY <1>8, FieldsSetKeep
<1> HIDE DEF c
<1>11. Keeps(b, m) /\ SameReferences(b, m) /\ SameShape(b, m)
  BY <1>3, <1>8, <1>9, KeepsTransitive, SameReferencesTransitive, ShapeTransitive
<1>12. Keeps(c, m) /\ SameReferences(c, m)
  BY <1>10, <1>11, KeepsTransitive, SameReferencesTransitive
<1> QED
  BY <1>2, <1>7, <1>12 DEF m, ReferencesAsBefore

LEMMA RestoreTypeReferencesKept ==
  ASSUME TypeOK, NEW t \in Threads, RestoreType(t)
  PROVE  ReferencesAsBefore(t)
<1> DEFINE i == work[t].at
           m == mods[t]
           n == mods'[t]
           r == rec[t].types[i]
<1>1. /\ i \in DOMAIN m.types
      /\ i \notin DOMAIN rec[t].types => mods' = mods
      /\ i \in DOMAIN rec[t].types =>
           /\ IsModule(n) /\ SameShape(n, m) /\ n.types[i] = UnprojectedType(m.types[i], r)
           /\ \A j \in DOMAIN m.types : j # i => n.types[j] = m.types[j]
           /\ n.methods = m.methods
  BY RestoreTypeEffect
<1>2. IsModule(m) /\ DOMAIN mods = Threads
  BY DEF TypeOK
<1>3. ASSUME mods' # mods PROVE Aside(n, m)
  <2>1. PICK new : mods' = [mods EXCEPT ![t].types[i] = new]
    BY Zenon, <1>3, RestoreTypeShape
  <2>2. n = [m EXCEPT !.types[i] = new]
    BY <1>2, <2>1
  <2> HIDE DEF n, m, i
  <2> QED
    BY <1>2, <2>2, TypeSetAside
<1> HIDE DEF i, r
<1>4. CASE mods' = mods
  BY <1>4, KeepsReflexive DEF ReferencesAsBefore
<1>5. CASE mods' # mods
  <2>1. Aside(n, m)
    BY <1>3, <1>5
  <2>2. IsType(m.types[i], m)
    BY <1>1, <1>2 DEF IsModule
  <2>3. TypeKeeps(n.types[i], m.types[i]) /\ TypeRefersAlike(n.types[i], m.types[i])
    BY Zenon, <1>1, <1>5, <2>2, UnprojectRefersAlike
  <2> HIDE DEF n, m
  <2>4. \A j \in DOMAIN m.types : TypeKeeps(n.types[j], m.types[j]) /\ TypeRefersAlike(n.types[j], m.types[j])
    BY <1>1, <1>5, <2>3 DEF TypeKeeps, TypeRefersAlike
  <2>5. n.methods = m.methods
    BY <1>1, <1>5
  <2>6. Keeps(n, m) /\ SameReferences(n, m)
    BY <2>1, <2>4, <2>5 DEF Keeps, SameReferences, MethodKeeps, Aside
  <2> QED
    BY <2>6 DEF ReferencesAsBefore, n, m
<1> QED
  BY <1>4, <1>5

LEMMA AppendedKeep ==
  ASSUME NEW m, IsModule(m), NEW i \in DOMAIN m.types, NEW gs, IsSequence(gs), NEW hs,
         NEW n, n = [m EXCEPT !.methods = @ \o gs, !.types[i].methods = @ \o hs]
  PROVE  Keeps(n, m) /\ SameReferences(n, m)
<1> DEFINE ty == m.types[i]
           new == [ty EXCEPT !.methods = @ \o hs]
<1>1. IsType(ty, m)
  BY DEF IsModule
<1>2. n.methods = m.methods \o gs /\ Aside(n, m) /\ n.types = [m.types EXCEPT ![i] = new]
  BY DEF IsModule, IsType, Aside
<1>3. n.types[i] = new /\ \A j \in DOMAIN m.types : j # i => n.types[j] = m.types[j]
  BY <1>2
<1>4. /\ new.id = ty.id /\ new.fields = ty.fields /\ new.nested = ty.nested
      /\ new.base = ty.base /\ new.ifaces = ty.ifaces /\ new.attrs = ty.attrs
  BY <1>1 DEF IsType
<1>5. IsRecord(new)
  BY <1>1 DEF IsRecord, IsType
<1> HIDE DEF new, ty
<1>6. TypeKeeps(new, ty) /\ TypeRefersAlike(new, ty)
  BY Zenon, <1>4, <1>5 DEF TypeKeeps, TypeRefersAlike
<1>7. \A j \in DOMAIN m.types : TypeKeeps(n.types[j], m.types[j]) /\ TypeRefersAlike(n.types[j], m.types[j])
  <2> SUFFICES ASSUME NEW j \in DOMAIN m.types
               PROVE  TypeKeeps(n.types[j], m.types[j]) /\ TypeRefersAlike(n.types[j], m.types[j])
    BY Zenon
  <2>1. CASE j = i
    BY Zenon, <1>3, <1>6, <2>1 DEF ty
  <2>2. CASE j # i
    BY Zenon, <1>3, <2>2 DEF TypeKeeps, TypeRefersAlike
  <2> QED
    BY Zenon, <2>1, <2>2
<1>8. \A k \in DOMAIN m.methods : n.methods[k] = m.methods[k]
  BY <1>2, ConcatSequence DEF IsModule
<1>9. \A k \in DOMAIN m.methods : /\ MethodKeeps(n.methods[k], m.methods[k])
                                  /\ n.methods[k].overrides = m.methods[k].overrides
  BY Zenon, <1>8 DEF MethodKeeps
<1> QED
  BY Zenon, <1>2, <1>7, <1>9 DEF Keeps, SameReferences, Aside

LEMMA AppendGeneratedReferences ==
  ASSUME TypeOK, NEW t \in Threads, AppendGenerated(t)
  PROVE  ReferencesAsBefore(t)
<1> DEFINE i == work[t].at
           m == mods[t]
           gs == work[t].generated
           hs == [k \in DOMAIN gs |-> Len(m.methods) + k]
<1>1. IsModule(m) /\ DOMAIN mods = Threads /\ i \in DOMAIN m.types /\ IsSequence(gs)
  <2>1. pc[t] = "rewire"
    BY DEF AppendGenerated
  <2> QED
    BY <2>1 DEF TypeOK, WorkOK
<1>2. mods'[t] = [m EXCEPT !.methods = @ \o gs, !.types[i].methods = @ \o hs]
  <2>1. mods' = [mods EXCEPT ![t].methods = @ \o gs, ![t].types[i].methods = @ \o hs]
    BY Zenon DEF AppendGenerated
  <2> QED
    BY <1>1, <2>1
<1> HIDE DEF hs, gs, i, m
<1>3. Keeps(mods'[t], m) /\ SameReferences(mods'[t], m)
  BY <1>1, <1>2, AppendedKeep
<1> QED
  BY <1>3 DEF m, ReferencesAsBefore

(* One type has other interfaces and the references else are the same.       *)
OtherFaces(n, m, i) ==
    /\ Aside(n, m) /\ \A k \in DOMAIN m.methods : n.methods[k].overrides = m.methods[k].overrides
    /\ n.types[i].base = m.types[i].base
    /\ \A j \in DOMAIN m.types[i].attrs : n.types[i].attrs[j].ctor = m.types[i].attrs[j].ctor
    /\ \A j \in DOMAIN m.types : j # i => TypeRefersAlike(n.types[j], m.types[j])

LEMMA FacesTurnBack ==
  ASSUME NEW n, NEW m, NEW was, NEW i \in DOMAIN m.types, OtherFaces(n, m, i), SameShape(m, was),
         IsModule(was), NEW refs, TurnsBack(m, was, refs)
  PROVE  TurnsBack(n, was, refs)
<1>1. /\ DOMAIN m.types = DOMAIN was.types /\ DOMAIN was.methods \subseteq DOMAIN m.methods
      /\ \A j \in DOMAIN was.types : DOMAIN m.types[j].attrs = DOMAIN was.types[j].attrs
  BY DEF SameShape
<1>2. \A j \in DOMAIN was.loose : Restored(n.loose[j], refs) = was.loose[j]
  BY Zenon DEF TurnsBack, OtherFaces, Aside
<1>3. ASSUME NEW x \in DOMAIN was.types
      PROVE  /\ Restored(n.types[x].base, refs) = was.types[x].base
             /\ \A j \in DOMAIN was.types[x].attrs :
                   Restored(n.types[x].attrs[j].ctor, refs) = was.types[x].attrs[j].ctor
  <2>1. n.types[x].base = m.types[x].base
        /\ \A j \in DOMAIN was.types[x].attrs : n.types[x].attrs[j].ctor = m.types[x].attrs[j].ctor
    BY <1>1 DEF OtherFaces, TypeRefersAlike
  <2>2. /\ Restored(m.types[x].base, refs) = was.types[x].base
        /\ \A j \in DOMAIN was.types[x].attrs :
              Restored(m.types[x].attrs[j].ctor, refs) = was.types[x].attrs[j].ctor
    BY DEF TurnsBack
  <2> QED
    BY Zenon, <2>1, <2>2
<1>4. ASSUME NEW k \in ListedMethods(was), NEW j \in DOMAIN was.methods[k].overrides
      PROVE  Restored(n.methods[k].overrides[j].parent, refs) = was.methods[k].overrides[j].parent
  <2>1. k \in DOMAIN m.methods
    BY <1>1, ListedExist
  <2>2. n.methods[k].overrides = m.methods[k].overrides
    BY <2>1 DEF OtherFaces
  <2>3. Restored(m.methods[k].overrides[j].parent, refs) = was.methods[k].overrides[j].parent
    BY DEF TurnsBack
  <2> QED
    BY Zenon, <2>2, <2>3
<1> QED
  BY Zenon, <1>2, <1>3, <1>4 DEF TurnsBack

LEMMA RedirectTypeReferences ==
  ASSUME TypeOK, NEW t \in Threads, RedirectType(t)
  PROVE  LET i == work[t].at
             m == mods[t]
             n == mods'[t]
             refs == rec[t].refs
             red == RedirectedInterfaces(m.types[i], refs)
         IN  /\ i \in DOMAIN m.types /\ Keeps(n, m) /\ OtherFaces(n, m, i)
             /\ n.types[i].ifaces = m.types[i].ifaces \o [k \in DOMAIN red |-> Restored(red[k], refs)]
             /\ \A j \in DOMAIN m.types : j # i => n.types[j] = m.types[j]
<1> DEFINE i == work[t].at
           m == mods[t]
           n == mods'[t]
           refs == rec[t].refs
           red == RedirectedInterfaces(m.types[i], refs)
           more == [k \in DOMAIN red |-> Restored(red[k], refs)]
           new == [EditedType(m.types[i], {"Redirect"}) EXCEPT !.ifaces = @ \o more]
<1>1. IsModule(m) /\ DOMAIN mods = Threads /\ i \in DOMAIN m.types /\ OneType(n, m, i)
  BY RedirectTypeEffect DEF TypeOK
<1>2. n = [m EXCEPT !.types[i] = new]
  <2>1. mods' = [mods EXCEPT ![t].types[i] = new]
    BY Zenon DEF RedirectType
  <2> HIDE DEF new, i
  <2> QED
    BY <1>1, <2>1
<1>3. IsType(m.types[i], m)
  BY <1>1 DEF IsModule
<1> HIDE DEF m, i, n, refs, red, more
<1>4. /\ TypeKeeps(new, m.types[i]) /\ new.base = m.types[i].base
      /\ new.ifaces = m.types[i].ifaces \o more /\ new.attrs = m.types[i].attrs
  BY Zenon, <1>3, RedirectKeeps
<1> HIDE DEF new
<1>5. n.types[i] = new /\ Aside(n, m)
  BY <1>1, <1>2, TypeSetAside DEF IsModule
<1>6. Keeps(n, m)
  BY <1>1, <1>4, <1>5, OneTypeKeeps
<1>7. \A j \in DOMAIN m.types : j # i => n.types[j] = m.types[j]
  BY <1>1 DEF OneType
<1>8. n.methods = m.methods
  BY <1>1 DEF OneType
<1>9. OtherFaces(n, m, i)
  BY Zenon, <1>4, <1>5, <1>7, <1>8 DEF OtherFaces, TypeRefersAlike
<1> QED
  BY <1>1, <1>4, <1>5, <1>6, <1>7, <1>9 DEF m, i, n, refs, red, more

(* What rewiring a pair does to the references of the overrides.             *)
Rewires(n, m, from, to) ==
    \A k \in DOMAIN m.methods : \A j \in DOMAIN m.methods[k].overrides :
       \/ n.methods[k].overrides[j].parent = m.methods[k].overrides[j].parent
       \/ m.methods[k].overrides[j].parent = from /\ n.methods[k].overrides[j].parent = to

LEMMA RewiringKeeps ==
  ASSUME NEW m, IsModule(m), NEW i, NEW from, NEW to, NEW n, n = Rewired(m, i, from, to)
  PROVE  /\ IsModule(n) /\ SameShape(n, m) /\ Keeps(n, m) /\ Aside(n, m) /\ n.types = m.types
         /\ Rewires(n, m, from, to)
<1>1. IsModule(n) /\ SameShape(n, m)
  BY RewiredModule
<1>2. Keeps(n, m) /\ Aside(n, m) /\ n.types = m.types
  BY RewiredKeeps
<1>3. Rewires(n, m, from, to)
  BY RewiredKeeps DEF Rewires
<1> QED
  BY <1>1, <1>2, <1>3

LEMMA RewirePairReferences ==
  ASSUME TypeOK, NEW t \in Threads, RewirePair(t)
  PROVE  LET pair == Head(work[t].pairs)
             m == mods[t]
             n == mods'[t]
         IN  Keeps(n, m) /\ Aside(n, m) /\ n.types = m.types /\ Rewires(n, m, pair[1], pair[2])
<1>1. IsModule(mods[t]) /\ DOMAIN mods = Threads
  BY DEF TypeOK
<1>2. mods'[t] = Rewired(mods[t], work[t].at, Head(work[t].pairs)[1], Head(work[t].pairs)[2])
  BY <1>1 DEF RewirePair
<1> QED
  BY <1>1, <1>2, RewiringKeeps

LEMMA UnwirePairReferences ==
  ASSUME TypeOK, NEW t \in Threads, UnwirePair(t)
  PROVE  LET i == work[t].at
             pair == Head(work[t].pairs)
             m == mods[t]
             n == mods'[t]
             k == Rewired(m, i, pair[2], pair[1])
         IN  /\ i \in DOMAIN m.types
             /\ IsModule(k) /\ SameShape(k, m) /\ Keeps(k, m) /\ Aside(k, m) /\ k.types = m.types
             /\ Rewires(k, m, pair[2], pair[1])
             /\ Keeps(n, k) /\ OtherFaces(n, k, i)
             /\ n.types[i].ifaces = WithoutInterface(m.types[i].ifaces, pair[2])
             /\ \A j \in DOMAIN m.types : j # i => n.types[j] = m.types[j]
<1> DEFINE i == work[t].at
           pair == Head(work[t].pairs)
           m == mods[t]
           n == mods'[t]
           k == Rewired(m, i, pair[2], pair[1])
           out == WithoutInterface(m.types[i].ifaces, pair[2])
<1>1. IsModule(m) /\ DOMAIN mods = Threads /\ i \in DOMAIN m.types
  <2>1. pc[t] = "unwire"
    BY DEF UnwirePair
  <2> QED
    BY <2>1 DEF TypeOK, WorkOK
<1>2. n = [k EXCEPT !.types[i].ifaces = out]
  BY <1>1 DEF UnwirePair, WithoutInterface
<1> HIDE DEF m, i, n, pair
<1>3. /\ IsModule(k) /\ SameShape(k, m) /\ k.types = m.types /\ Keeps(k, m) /\ Aside(k, m)
      /\ Rewires(k, m, pair[2], pair[1])
  BY <1>1, RewiringKeeps
<1> HIDE DEF k, out
<1> DEFINE ty == k.types[i]
           new == [ty EXCEPT !.ifaces = out]
<1>5. IsType(ty, k) /\ i \in DOMAIN k.types
  BY <1>1, <1>3 DEF IsModule
<1>6. TypeKeeps(new, ty) /\ new.base = ty.base /\ new.ifaces = out /\ new.attrs = ty.attrs
  BY Zenon, <1>5, UnwireKeeps
<1>7. n = [k EXCEPT !.types[i] = new]
  BY <1>2, <1>3
<1> HIDE DEF new
<1>8. /\ n.types[i] = new /\ Aside(n, k) /\ \A j \in DOMAIN k.types : j # i => n.types[j] = k.types[j]
      /\ n.methods = k.methods
  BY <1>3, <1>5, <1>7, TypeSetAside DEF IsModule
<1> HIDE DEF ty
<1>9. OtherFaces(n, k, i)
  BY Zenon, <1>6, <1>8 DEF OtherFaces, TypeRefersAlike, ty
<1>10. \A j \in DOMAIN k.types : TypeKeeps(n.types[j], k.types[j])
  <2> SUFFICES ASSUME NEW j \in DOMAIN k.types PROVE TypeKeeps(n.types[j], k.types[j])
    BY Zenon
  <2>1. CASE j = i
    BY Zenon, <1>6, <1>8, <2>1 DEF ty
  <2>2. CASE j # i
    BY Zenon, <1>8, <2>2 DEF TypeKeeps
  <2> QED
    BY Zenon, <2>1, <2>2
<1>11. Keeps(n, k)
  BY Zenon, <1>8, <1>10 DEF Keeps, MethodKeeps, Aside
<1> QED
  BY <1>1, <1>3, <1>6, <1>8, <1>9, <1>11 DEF m, i, n, pair, k, out

-------------------------------------------------------------------------------
(* The references at each step.                                              *)

LEMMA HalfwayKept ==
  ASSUME NEW m, NEW n, NEW was, SameReferences(n, m), SameShape(m, was), IsModule(was),
         NEW p, NEW w, NEW r, NEW p2, NEW w2, NEW q, Halfway(m, was, p, w, r),
         q.refs = r.refs, q.version = r.version,
         \A i \in DOMAIN was.types :
            Duplicated(m.types[i].ifaces, was.types[i].ifaces, Owed(p, w, r, i), r.refs) =>
               Duplicated(m.types[i].ifaces, was.types[i].ifaces, Owed(p2, w2, q, i), r.refs)
  PROVE  Halfway(n, was, p2, w2, q)
<1>1. /\ Inverts(r.refs) /\ TurnsBack(m, was, r.refs) /\ VirtualAdded(m.refs, was.refs, r.version)
      /\ \A i \in DOMAIN was.types :
            Duplicated(m.types[i].ifaces, was.types[i].ifaces, Owed(p, w, r, i), r.refs)
  BY Zenon DEF Halfway
<1>2. TurnsBack(n, was, r.refs)
  BY <1>1, SameTurnsBack
<1>3. n.refs = m.refs
  BY DEF SameReferences, Aside
<1>4. \A i \in DOMAIN was.types : n.types[i].ifaces = m.types[i].ifaces
  BY DEF SameReferences, TypeRefersAlike, SameShape
<1>5. \A i \in DOMAIN was.types :
         Duplicated(n.types[i].ifaces, was.types[i].ifaces, Owed(p2, w2, q, i), r.refs)
  BY Zenon, <1>1, <1>4
<1> QED
  BY Zenon, <1>1, <1>2, <1>3, <1>5 DEF Halfway

LEMMA ReferencesContext ==
  ASSUME TypeOK, EditsTraced, ReferencesTraced, NEW t \in Threads
  PROVE  /\ RefTraced(t) /\ Traced(t) /\ log[t] \in Seq(Outcomes)
         /\ IsFile(disk[t]) /\ Keeps(mods[t], disk[t])
         /\ IsModule(mods[t]) /\ IsModule(disk[t]) /\ SameShape(mods[t], disk[t])
         /\ DOMAIN mods = Threads /\ DOMAIN work = Threads /\ DOMAIN pc = Threads
         /\ DOMAIN log = Threads
         /\ DOMAIN rec = {u \in Threads : pc[u] \in Passes}
         /\ pc[t] \in Passes => DOMAIN rec[t] = RecordFields
         /\ DOMAIN mods[t].types = DOMAIN disk[t].types
         /\ \A i \in DOMAIN disk[t].types : i \in Nat
BY TracedContext DEF ReferencesTraced, FileKept

LEMMA ApplyingReferences ==
  ASSUME NEW t \in Threads, Traced(t), RefTraced(t), guid' = guid, disk' = disk, log'[t] = log[t],
         pc[t] \in Applying \cup {"virtual"},
         TracedPlain(t) /\ RefPlain(t) /\ ~Collides(disk[t]) => RefPlain(t)'
  PROVE  RefTraced(t)'
<1>1. pc[t] \notin {"idle", "restore", "untypes", "unwire", "unvirtual"}
  BY DEF Applying, OverTypes
<1>2. /\ Sole(t)' <=> Sole(t)
      /\ Alternates(t)' <=> Alternates(t)
      /\ Collides(disk[t])' <=> Collides(disk[t])
  BY DEF Sole, Alternates
<1>3. Even(t)' <=> Even(t)
  BY DEF Even
<1>4. Sole(t) /\ Alternates(t) => Even(t) /\ TracedPlain(t)
  BY <1>1 DEF Traced, TracedProjected
<1>5. Sole(t) /\ Alternates(t) /\ ~Collides(disk[t]) => RefPlain(t)'
  BY <1>4 DEF RefTraced
<1> QED
  BY <1>2, <1>3, <1>4, <1>5 DEF RefTraced

LEMMA RemovingReferences ==
  ASSUME NEW t \in Threads, Traced(t), RefTraced(t), guid' = guid, disk' = disk, log'[t] = log[t],
         pc[t] \in Removing, pc'[t] \in Removing,
         TracedProjected(t) /\ RefProjected(t) => RefProjected(t)'
  PROVE  RefTraced(t)'
<1>1. /\ pc'[t] \notin Applying \cup {"idle", "virtual"}
      /\ "references" \in Applying /\ "rewire" \in Applying
  BY DEF Applying, OverTypes, Removing
<1>2. /\ Sole(t)' <=> Sole(t)
      /\ Alternates(t)' <=> Alternates(t)
      /\ Collides(disk[t])' <=> Collides(disk[t])
  BY DEF Sole, Alternates
<1>3. Even(t)' <=> Even(t)
  BY DEF Even
<1>4. RefPlain(t)'
  BY <1>1 DEF RefPlain
<1> QED
  BY <1>2, <1>3, <1>4 DEF RefTraced, Traced

LEMMA OthersReferences ==
  ASSUME TypeOK, EditsTraced, ReferencesTraced, NEW t \in Threads, NEW u \in Threads \ {t},
         Frame(t, u), guid' = guid, disk' = disk
  PROVE  RefTraced(u)' /\ FileKept(u)'
<1>1. /\ Sole(u)' <=> Sole(u)
      /\ Alternates(u)' <=> Alternates(u)
      /\ Even(u)' <=> Even(u)
      /\ Collides(disk[u])' <=> Collides(disk[u])
  BY DEF Sole, Alternates, Even, Frame
<1>2. Sole(u) => guid[u] # guid[t]
  BY DEF Sole
<1>3. /\ mods'[u] = mods[u] /\ pc'[u] = pc[u] /\ work'[u] = work[u] /\ disk'[u] = disk[u]
      /\ pc[u] \in Passes => rec'[u] = rec[u]
  BY DEF Frame, TypeOK
<1>4. Traced(u) /\ RefTraced(u) /\ FileKept(u)
  BY DEF EditsTraced, ReferencesTraced
<1>5. /\ Applying \subseteq Passes /\ {"references", "rewire"} \subseteq Passes
      /\ {"restore", "untypes", "unwire", "unvirtual"} \subseteq Passes
  BY DEF Applying, OverTypes, Passes
<1>6. RefPlain(u) => RefPlain(u)'
  BY Zenon, <1>3, <1>5 DEF RefPlain
<1>7. ASSUME Sole(u), TracedProjected(u), RefProjected(u) PROVE RefProjected(u)'
  <2>1. pc[u] = "idle" => store'[guid'[u]] = store[guid[u]]
    BY <1>2, <1>7 DEF TracedProjected, Frame
  <2> QED
    BY Zenon, <1>3, <1>5, <1>7, <2>1 DEF RefProjected
<1>8. FileKept(u)'
  BY <1>3, <1>4 DEF FileKept
<1> QED
  BY <1>1, <1>4, <1>6, <1>7, <1>8 DEF RefTraced, Traced

LEMMA FileStaysKept ==
  ASSUME TypeOK, EditsTraced, ReferencesTraced, NEW t \in Threads, disk' = disk,
         \/ mods'[t] = mods[t] \/ Keeps(mods'[t], mods[t]) \/ mods'[t] = disk[t]
  PROVE  FileKept(t)'
<1>1. IsFile(disk[t]) /\ Keeps(mods[t], disk[t]) /\ SameShape(mods[t], disk[t])
  BY ReferencesContext
<1>2. Keeps(mods'[t], disk[t])
  BY <1>1, KeepsTransitive, KeepsReflexive
<1> QED
  BY <1>1, <1>2 DEF FileKept

LEMMA AddVirtualReferencesRefers ==
  ASSUME TypeOK, EditsTraced, ReferencesTraced, NEW t \in Threads, AddVirtualReferences(t)
  PROVE  RefTraced(t)' /\ FileKept(t)'
<1> DEFINE m == mods[t]
           refs == m.refs
           hits == {k \in DOMAIN refs : refs[k].name = "mscorlib"}
           rs == [refs EXCEPT ![Min(hits)].version = "4.0"] \o Virtual
<1>1. /\ RefTraced(t) /\ Traced(t) /\ IsModule(m) /\ DOMAIN mods = Threads /\ DOMAIN pc = Threads
      /\ DOMAIN rec = {u \in Threads : pc[u] \in Passes}
  BY ReferencesContext
<1>2. /\ guid' = guid /\ disk' = disk /\ log' = log /\ pc[t] = "virtual"
      /\ \/ mods' = mods /\ pc' = [pc EXCEPT ![t] = "idle"]
         \/ /\ hits # {}
            /\ mods' = [mods EXCEPT ![t].refs = rs] /\ pc' = [pc EXCEPT ![t] = "references"]
            /\ \E s : rec' = With(rec, t, EmptyRecord(refs[Min(hits)].version, s))
  BY Zenon DEF AddVirtualReferences, Goto, Declines, Virtual
<1>3. CASE mods' = mods /\ pc' = [pc EXCEPT ![t] = "idle"]
  <2>1. mods'[t] = mods[t] /\ pc'[t] = "idle"
    BY <1>1, <1>3
  <2>2. RefPlain(t) => RefPlain(t)'
    BY <1>2, <2>1 DEF RefPlain, Applying, OverTypes
  <2>3. RefTraced(t)'
    BY <1>1, <1>2, <2>2, ApplyingReferences
  <2> QED
    BY <1>2, <2>1, <2>3, FileStaysKept
<1>4. ASSUME hits # {}, mods' = [mods EXCEPT ![t].refs = rs], pc' = [pc EXCEPT ![t] = "references"],
             NEW s, rec' = With(rec, t, EmptyRecord(refs[Min(hits)].version, s))
      PROVE  RefTraced(t)' /\ FileKept(t)'
  <2> HIDE DEF rs
  <2>1. mods'[t] = [m EXCEPT !.refs = rs] /\ pc'[t] = "references"
    BY <1>1, <1>4
  <2>2. rec'[t].version = refs[Min(hits)].version /\ DOMAIN rec'[t].types = {}
    BY <1>4 DEF With, EmptyRecord
  <2>3. /\ Keeps(mods'[t], m) /\ mods'[t].refs = rs /\ mods'[t].types = m.types
        /\ mods'[t].methods = m.methods /\ mods'[t].loose = m.loose
    BY <1>1, <2>1, ReferencesSet
  <2>4. ASSUME RefPlain(t) PROVE RefPlain(t)'
    <3>1. AsRead(m, disk[t]) /\ refs = disk[t].refs
      BY <1>2, <2>4 DEF RefPlain
    <3>2. AsRead(mods'[t], disk'[t])
      BY Zenon, <1>2, <2>3, <3>1 DEF AsRead
    <3>3. hits = Corlib(disk[t].refs)
      BY <3>1 DEF Corlib
    <3>4. VirtualAdded(mods'[t].refs, disk'[t].refs, rec'[t].version)
      BY Zenon, <1>2, <1>4, <2>2, <2>3, <3>1, <3>3 DEF VirtualAdded, rs
    <3> QED
      BY <2>1, <2>2, <3>2, <3>4 DEF RefPlain
  <2>5. RefTraced(t)'
    BY <1>1, <1>2, <2>4, ApplyingReferences
  <2> QED
    BY <1>2, <2>3, <2>5, FileStaysKept
<1> QED
  BY <1>2, <1>3, <1>4

(* What projecting every reference of a module as it was read makes of it.   *)
LEMMA ProjectedHalfway ==
  ASSUME NEW was, IsModule(was), IsFile(was), ~Collides(was),
         NEW m, IsModule(m), SameShape(m, was), Keeps(m, was), AsRead(m, was),
         NEW n, RewrittenBy(n, m, Projected),
         NEW r, r.refs = ReferenceRecords(m), DOMAIN r.types = {}, VirtualAdded(m.refs, was.refs, r.version),
         NEW p, p \notin {"unwire", "untypes"}, NEW w
  PROVE  Halfway(n, was, p, w, r)
<1> DEFINE refs == ReferenceRecords(was)
<1>1. ListedMethods(m) = ListedMethods(was) /\ Externals(m) = Externals(was)
  BY SameWalk
<1>2. r.refs = refs
  BY <1>1 DEF ReferenceRecords
<1>3. Inverts(refs)
  BY RecordsInvert DEF IsFile
<1> HIDE DEF refs
<1>4. \A e \in Range(Externals(was)) : Restored(Projected(e), refs) = e
  BY TurnedBack DEF refs
<1>5. m.types = was.types /\ m.loose = was.loose /\ \A k \in ListedMethods(was) : m.methods[k] = was.methods[k]
  BY DEF AsRead
<1>6. ASSUME NEW j \in DOMAIN was.loose PROVE Restored(n.loose[j], refs) = was.loose[j]
  <2>1. was.loose[j] \in Range(Externals(was))
    BY AllMet DEF Range
  <2>2. n.loose[j] = Projected(was.loose[j])
    BY <1>5 DEF RewrittenBy
  <2> QED
    BY Zenon, <1>4, <2>1, <2>2
<1>7. ASSUME NEW i \in DOMAIN was.types
      PROVE  /\ Restored(n.types[i].base, refs) = was.types[i].base
             /\ \A j \in DOMAIN was.types[i].attrs :
                   Restored(n.types[i].attrs[j].ctor, refs) = was.types[i].attrs[j].ctor
             /\ Duplicated(n.types[i].ifaces, was.types[i].ifaces, <<>>, refs)
  <2>1. /\ was.types[i].base \in Range(Externals(was))
        /\ \A j \in DOMAIN was.types[i].attrs : was.types[i].attrs[j].ctor \in Range(Externals(was))
        /\ \A j \in DOMAIN was.types[i].ifaces : was.types[i].ifaces[j] \in Range(Externals(was))
    <3>1. /\ was.types[i].base \in Range(Externals(was))
          /\ \A j \in DOMAIN was.types[i].attrs : was.types[i].attrs[j].ctor \in Range(Externals(was))
          /\ Range(was.types[i].ifaces) \subseteq Range(Externals(was))
      BY AllMet
    <3>2. \A j \in DOMAIN was.types[i].ifaces : was.types[i].ifaces[j] \in Range(was.types[i].ifaces)
      BY DEF Range
    <3> QED
      BY <3>1, <3>2
  <2>2. /\ n.types[i].base = Projected(was.types[i].base)
        /\ \A j \in DOMAIN was.types[i].attrs :
              n.types[i].attrs[j].ctor = Projected(was.types[i].attrs[j].ctor)
        /\ n.types[i].ifaces = [j \in DOMAIN was.types[i].ifaces |-> Projected(was.types[i].ifaces[j])]
    <3>1. i \in DOMAIN m.types /\ m.types[i] = was.types[i]
      BY <1>5
    <3>2. /\ n.types[i].base = Projected(m.types[i].base)
          /\ \A j \in DOMAIN m.types[i].attrs :
                n.types[i].attrs[j].ctor = Projected(m.types[i].attrs[j].ctor)
          /\ n.types[i].ifaces = [j \in DOMAIN m.types[i].ifaces |-> Projected(m.types[i].ifaces[j])]
      BY Zenon, <3>1 DEF RewrittenBy
    <3> QED
      BY <3>1, <3>2
  <2>3. IsSequence(was.types[i].ifaces)
    BY DEF IsModule, IsType
  <2>4. IsSequence(n.types[i].ifaces) /\ DOMAIN n.types[i].ifaces = DOMAIN was.types[i].ifaces
    <3> DEFINE f == n.types[i].ifaces
    <3>1. f = [j \in DOMAIN was.types[i].ifaces |-> f[j]]
      BY <2>2
    <3> HIDE DEF f
    <3> QED
      BY <2>3, <3>1, SameLength DEF f
  <2>5. \A j \in DOMAIN was.types[i].ifaces :
           /\ n.types[i].ifaces[j] = Projected(was.types[i].ifaces[j])
           /\ Restored(n.types[i].ifaces[j], refs) = was.types[i].ifaces[j]
    BY Zenon, <1>4, <2>1, <2>2
  <2>6. Duplicated(n.types[i].ifaces, was.types[i].ifaces, <<>>, refs)
    BY <2>3, <2>4, <2>5, NothingOwed
  <2> QED
    BY Zenon, <1>4, <2>1, <2>2, <2>6
<1>8. ASSUME NEW k \in ListedMethods(was), NEW j \in DOMAIN was.methods[k].overrides
      PROVE  Restored(n.methods[k].overrides[j].parent, refs) = was.methods[k].overrides[j].parent
  <2>1. was.methods[k].overrides[j].parent \in Range(Externals(was))
    BY AllMet
  <2>2. k \in ListedMethods(m) /\ k \in DOMAIN m.methods /\ m.methods[k] = was.methods[k]
    BY <1>1, <1>5, ListedExist
  <2>3. n.methods[k].overrides[j].parent = Projected(was.methods[k].overrides[j].parent)
    <3>1. j \in DOMAIN m.methods[k].overrides
      BY <2>2
    <3>2. n.methods[k].overrides[j].parent = Projected(m.methods[k].overrides[j].parent)
      BY Zenon, <2>2, <3>1 DEF RewrittenBy
    <3> QED
      BY <2>2, <3>2
  <2> QED
    BY Zenon, <1>4, <2>1, <2>3
<1>9. TurnsBack(n, was, refs)
  BY Zenon, <1>6, <1>7, <1>8 DEF TurnsBack
<1>10. VirtualAdded(n.refs, was.refs, r.version)
  BY Zenon DEF RewrittenBy
<1>11. \A i : Owed(p, w, r, i) = <<>>
  BY DEF Owed, RecordedPairs
<1> QED
  BY Zenon, <1>2, <1>3, <1>7, <1>9, <1>10, <1>11 DEF Halfway

LEMMA ProjectTypeReferencesRefers ==
  ASSUME TypeOK, EditsTraced, ReferencesTraced, NEW t \in Threads, ProjectTypeReferences(t)
  PROVE  RefTraced(t)' /\ FileKept(t)'
<1> DEFINE m == mods[t]
           n == mods'[t]
<1>1. /\ RefTraced(t) /\ Traced(t) /\ IsModule(m) /\ DOMAIN mods = Threads /\ DOMAIN pc = Threads
      /\ IsModule(disk[t]) /\ IsFile(disk[t]) /\ SameShape(m, disk[t]) /\ Keeps(m, disk[t])
      /\ DOMAIN rec = {u \in Threads : pc[u] \in Passes}
      /\ pc[t] \in Passes => DOMAIN rec[t] = RecordFields
  BY ReferencesContext
<1>2. /\ guid' = guid /\ disk' = disk /\ log' = log /\ pc[t] = "references"
      /\ pc'[t] = "types"
      /\ rec' = [rec EXCEPT ![t].refs = ReferenceRecords(m)]
      /\ n = Rewritten(m, Projected)
  BY <1>1 DEF ProjectTypeReferences, Goto
<1>3. t \in DOMAIN rec /\ DOMAIN rec[t] = RecordFields
  BY <1>1, <1>2 DEF Passes
<1>4. /\ rec'[t].refs = ReferenceRecords(m) /\ rec'[t].types = rec[t].types
      /\ rec'[t].version = rec[t].version
  BY <1>2, <1>3 DEF RecordFields
<1>5. Keeps(n, m) /\ RewrittenBy(n, m, Projected)
  BY <1>1, <1>2, ProjectedAs
<1>6. ASSUME RefPlain(t), ~Collides(disk[t]) PROVE RefPlain(t)'
  <2>1. /\ AsRead(m, disk[t]) /\ DOMAIN rec[t].types = {}
        /\ VirtualAdded(m.refs, disk[t].refs, rec[t].version)
    BY <1>2, <1>6 DEF RefPlain
  <2> HIDE DEF m, n
  <2> DEFINE r == rec'[t]
  <2>2. /\ r.refs = ReferenceRecords(m) /\ DOMAIN r.types = {}
        /\ VirtualAdded(m.refs, disk[t].refs, r.version)
    BY <1>4, <2>1
  <2> HIDE DEF r
  <2>3. Halfway(n, disk[t], "types", work'[t], r)
    BY <1>1, <1>5, <1>6, <2>1, <2>2, ProjectedHalfway
  <2> QED
    BY <1>2, <2>3 DEF RefPlain, n, r
<1>7. RefTraced(t)'
  BY <1>1, <1>2, <1>6, ApplyingReferences DEF Applying, OverTypes
<1> QED
  BY <1>2, <1>5, <1>7, FileStaysKept

LEMMA OwedRecorded ==
  ASSUME NEW p, p \notin {"unwire", "untypes"}, NEW w, NEW r, NEW i
  PROVE  Owed(p, w, r, i) = RecordedPairs(r, i)
BY DEF Owed

(* A pass that changes no reference and no pair, nor ends with more to do on *)
(* one type.                                                                 *)
LEMMA PassRefers ==
  ASSUME TypeOK, EditsTraced, ReferencesTraced, NEW t \in Threads,
         guid' = guid, disk' = disk, log'[t] = log[t],
         pc[t] \in Applying \ {"references"}, pc'[t] \in Applying \ {"references", "rewire"},
         ReferencesAsBefore(t),
         rec'[t].refs = rec[t].refs, rec'[t].version = rec[t].version,
         TracedPlain(t) => \A i \in DOMAIN disk[t].types :
            RecordedPairs(rec'[t], i) = RecordedPairs(rec[t], i)
  PROVE  RefTraced(t)' /\ FileKept(t)'
<1> DEFINE m == mods[t]
           n == mods'[t]
           was == disk[t]
           r == rec[t]
           q == rec'[t]
           p == pc[t]
           p2 == pc'[t]
           w == work[t]
           w2 == work'[t]
<1>1. /\ RefTraced(t) /\ Traced(t) /\ IsModule(was) /\ SameShape(m, was)
  BY ReferencesContext
<1>2. /\ p \notin {"unwire", "untypes"} /\ p2 \notin {"unwire", "untypes"}
      /\ p2 \notin {"idle", "virtual", "references", "rewire"}
  BY DEF Applying, OverTypes
<1>3. Keeps(n, m) /\ SameReferences(n, m)
  BY DEF ReferencesAsBefore
<1>4. ASSUME RefPlain(t), TracedPlain(t) PROVE RefPlain(t)'
  <2>1. Halfway(m, was, p, w, r)
    BY <1>4 DEF RefPlain
  <2>2. \A i \in DOMAIN was.types : RecordedPairs(q, i) = RecordedPairs(r, i)
    BY <1>4
  <2>3. q.refs = r.refs /\ q.version = r.version
    OBVIOUS
  <2> HIDE DEF m, n, was, r, q, p, p2, w, w2
  <2>4. \A i \in DOMAIN was.types : Owed(p2, w2, q, i) = Owed(p, w, r, i)
    BY <1>2, <2>2, OwedRecorded
  <2>5. Halfway(n, was, p2, w2, q)
    BY <1>1, <1>3, <2>1, <2>3, <2>4, HalfwayKept
  <2> QED
    BY <1>2, <2>5 DEF RefPlain, m, n, was, r, q, p, p2, w, w2
<1>5. RefTraced(t)'
  BY <1>1, <1>4, ApplyingReferences
<1> QED
  BY <1>3, <1>5, FileStaysKept

LEMMA ProjectTypeDefinitionRefers ==
  ASSUME TypeOK, EditsTraced, ReferencesTraced, NEW t \in Threads, ProjectTypeDefinition(t)
  PROVE  RefTraced(t)' /\ FileKept(t)'
<1> DEFINE i == work[t].at
           ty == mods[t].types[i]
           treatment == TypeTreatment(mods[t], ty, rec[t].refs)
           noted == TypeRecord(ty, treatment, <<>>, {})
<1>1. /\ DOMAIN pc = Threads /\ DOMAIN rec = {u \in Threads : pc[u] \in Passes}
      /\ pc[t] \in Passes => DOMAIN rec[t] = RecordFields
      /\ \A j \in DOMAIN disk[t].types : j \in Nat
      /\ DOMAIN mods[t].types = DOMAIN disk[t].types
  BY ReferencesContext
<1>2. i \in DOMAIN mods[t].types
  BY ProjectTypeDefinitionEffect
<1>3. /\ guid' = guid /\ disk' = disk /\ log' = log /\ pc[t] = "types"
      /\ \/ rec' = rec /\ pc' = [pc EXCEPT ![t] = "closure"]
         \/ rec' = rec /\ pc' = pc
         \/ /\ "Redirect" \notin treatment /\ pc' = pc
            /\ rec' = [rec EXCEPT ![t].types = With(@, i, noted)]
  BY ZenonT(60) DEF ProjectTypeDefinition, Goto
<1> HIDE DEF treatment
<1>4. t \in DOMAIN rec /\ DOMAIN rec[t] = RecordFields
  BY <1>1, <1>3 DEF Passes
<1>5. pc'[t] \in {"types", "closure"}
  BY <1>1, <1>3
<1>6. ASSUME "Redirect" \notin treatment, rec' = [rec EXCEPT ![t].types = With(@, i, noted)]
      PROVE  /\ rec'[t].refs = rec[t].refs /\ rec'[t].version = rec[t].version
             /\ rec'[t].types = With(rec[t].types, i, noted)
  <2> HIDE DEF noted
  <2> QED
    BY <1>4, <1>6 DEF RecordFields
<1>7. ASSUME TracedPlain(t), NEW j \in DOMAIN disk[t].types
      PROVE  RecordedPairs(rec'[t], j) = RecordedPairs(rec[t], j)
  <2>1. CASE rec' = rec
    BY <2>1
  <2>2. CASE "Redirect" \notin treatment /\ rec' = [rec EXCEPT ![t].types = With(@, i, noted)]
    <3>1. Recording(t)
      BY <1>3, <1>7 DEF TracedPlain, Applying, OverTypes
    <3>2. i \notin DOMAIN rec[t].types
      BY <1>1, <1>2, <1>3, <3>1 DEF Recording, OverTypes
    <3>3. rec'[t].types = With(rec[t].types, i, noted)
      BY <1>6, <2>2
    <3>4. noted.treatment = treatment
      BY DEF TypeRecord
    <3> HIDE DEF noted, i
    <3>5. DOMAIN rec'[t].types = DOMAIN rec[t].types \cup {i}
      BY <3>3 DEF With
    <3>6. CASE j = i
      <4>1. rec'[t].types[j] = noted
        BY <3>3, <3>6 DEF With
      <4> QED
        BY <2>2, <3>2, <3>4, <3>6, <4>1 DEF RecordedPairs
    <3>7. CASE j # i
      <4>1. j \in DOMAIN rec[t].types => rec'[t].types[j] = rec[t].types[j]
        BY <3>3, <3>7 DEF With
      <4> QED
        BY <3>5, <3>7, <4>1 DEF RecordedPairs
    <3> QED
      BY <3>6, <3>7
  <2> QED
    BY <1>3, <2>1, <2>2
<1>8. rec'[t].refs = rec[t].refs /\ rec'[t].version = rec[t].version
  BY <1>3, <1>6
<1>9. ReferencesAsBefore(t)
  BY ProjectTypeDefinitionReferences
<1>10. {"types", "closure"} \subseteq Applying \ {"references", "rewire"}
  BY DEF Applying, OverTypes
<1> QED
  BY <1>3, <1>5, <1>7, <1>8, <1>9, <1>10, PassRefers

LEMMA CollectInterfaceRefers ==
  ASSUME TypeOK, EditsTraced, ReferencesTraced, NEW t \in Threads, CollectInterface(t)
  PROVE  RefTraced(t)' /\ FileKept(t)'
<1>1. pc[t] = "closure" /\ UNCHANGED <<mods, guid, store, pc, rec, calls, log, disk>>
  BY CollectInterfaceChanges
<1>2. ReferencesAsBefore(t)
  BY <1>1, KeepsReflexive DEF ReferencesAsBefore
<1>3. "closure" \in Applying \ {"references", "rewire"}
  BY DEF Applying, OverTypes
<1> QED
  BY <1>1, <1>2, <1>3, PassRefers

LEMMA AppendGeneratedRefers ==
  ASSUME TypeOK, EditsTraced, ReferencesTraced, NEW t \in Threads, AppendGenerated(t)
  PROVE  RefTraced(t)' /\ FileKept(t)'
<1> DEFINE i == work[t].at
           noted(hs) == [rec[t].types[i] EXCEPT !.added = hs]
<1>1. /\ DOMAIN pc = Threads /\ DOMAIN rec = {u \in Threads : pc[u] \in Passes}
      /\ pc[t] \in Passes => DOMAIN rec[t] = RecordFields
      /\ DOMAIN mods[t].types = DOMAIN disk[t].types
  BY ReferencesContext
<1>2. /\ guid' = guid /\ disk' = disk /\ log' = log /\ pc[t] = "rewire"
      /\ pc' = [pc EXCEPT ![t] = "types"]
      /\ \E hs, added : rec' = [rec EXCEPT ![t].types = With(@, i, noted(hs)), ![t].added = added]
  BY Zenon DEF AppendGenerated, Goto
<1>3. t \in DOMAIN rec /\ DOMAIN rec[t] = RecordFields
  BY <1>1, <1>2 DEF Passes
<1>4. PICK hs, added : rec' = [rec EXCEPT ![t].types = With(@, i, noted(hs)), ![t].added = added]
  BY <1>2
<1> DEFINE new == noted(hs)
<1>5. /\ rec'[t].refs = rec[t].refs /\ rec'[t].version = rec[t].version
      /\ rec'[t].types = With(rec[t].types, i, new)
  <2> HIDE DEF new
  <2>1. rec' = [rec EXCEPT ![t].types = With(@, i, new), ![t].added = added]
    BY <1>4 DEF new
  <2> QED
    BY <1>3, <2>1 DEF RecordFields
<1>6. ASSUME TracedPlain(t), NEW j \in DOMAIN disk[t].types
      PROVE  RecordedPairs(rec'[t], j) = RecordedPairs(rec[t], j)
  <2>1. Recording(t)
    BY <1>2, <1>6 DEF TracedPlain, Applying, OverTypes
  <2>2. /\ i \in DOMAIN rec[t].types
        /\ DOMAIN rec[t].types[i] = {"flags", "prefix", "treatment", "pairs", "added"}
    BY <1>2, <2>1 DEF Recording
  <2>3. new.treatment = rec[t].types[i].treatment /\ new.pairs = rec[t].types[i].pairs
    BY <2>2
  <2> HIDE DEF new, i
  <2>4. DOMAIN rec'[t].types = DOMAIN rec[t].types
    BY <1>5, <2>2 DEF With
  <2>5. j \in DOMAIN rec[t].types => /\ rec'[t].types[j].treatment = rec[t].types[j].treatment
                                     /\ rec'[t].types[j].pairs = rec[t].types[j].pairs
    BY <1>5, <2>3 DEF With
  <2> QED
    BY <2>4, <2>5 DEF RecordedPairs
<1>7. ReferencesAsBefore(t)
  BY AppendGeneratedReferences
<1>8. "rewire" \in Applying \ {"references"} /\ "types" \in Applying \ {"references", "rewire"}
  BY DEF Applying, OverTypes
<1>9. pc'[t] = "types"
  BY <1>1, <1>2
<1> QED
  BY <1>2, <1>5, <1>6, <1>7, <1>8, <1>9, PassRefers

LEMMA MemberPassRefers ==
  ASSUME TypeOK, EditsTraced, ReferencesTraced, NEW t \in Threads,
         guid' = guid, disk' = disk, log'[t] = log[t],
         pc[t] \in Applying \ {"references"}, pc'[t] \in Applying \ {"references", "rewire"},
         ReferencesAsBefore(t),
         rec'[t].refs = rec[t].refs, rec'[t].version = rec[t].version, rec'[t].types = rec[t].types
  PROVE  RefTraced(t)' /\ FileKept(t)'
<1>1. \A i : RecordedPairs(rec'[t], i) = RecordedPairs(rec[t], i)
  BY DEF RecordedPairs
<1> QED
  BY <1>1, PassRefers

LEMMA ProjectFieldsRefers ==
  ASSUME TypeOK, EditsTraced, ReferencesTraced, NEW t \in Threads, ProjectFields(t)
  PROVE  RefTraced(t)' /\ FileKept(t)'
<1>1. /\ DOMAIN pc = Threads /\ DOMAIN rec = {u \in Threads : pc[u] \in Passes}
      /\ pc[t] \in Passes => DOMAIN rec[t] = RecordFields
  BY ReferencesContext
<1>2. /\ guid' = guid /\ disk' = disk /\ log' = log /\ pc[t] = "types"
      /\ pc' = [pc EXCEPT ![t] = "methods"] /\ \E fs : rec' = [rec EXCEPT ![t].fields = fs]
  BY DEF ProjectFields, Goto
<1>3. t \in DOMAIN rec /\ DOMAIN rec[t] = RecordFields /\ pc'[t] = "methods"
  BY <1>1, <1>2 DEF Passes
<1>4. /\ rec'[t].refs = rec[t].refs /\ rec'[t].version = rec[t].version
      /\ rec'[t].types = rec[t].types
  BY <1>2, <1>3 DEF RecordFields
<1>5. "types" \in Applying \ {"references"} /\ "methods" \in Applying \ {"references", "rewire"}
  BY DEF Applying, OverTypes
<1> QED
  BY <1>2, <1>3, <1>4, <1>5, ProjectFieldsReferences, MemberPassRefers

LEMMA ProjectMethodsRefers ==
  ASSUME TypeOK, EditsTraced, ReferencesTraced, NEW t \in Threads, ProjectMethods(t)
  PROVE  RefTraced(t)' /\ FileKept(t)'
<1>1. /\ DOMAIN pc = Threads /\ DOMAIN rec = {u \in Threads : pc[u] \in Passes}
      /\ pc[t] \in Passes => DOMAIN rec[t] = RecordFields
  BY ReferencesContext
<1>2. /\ guid' = guid /\ disk' = disk /\ log' = log /\ pc[t] = "methods"
      /\ pc' = [pc EXCEPT ![t] = "attributes"] /\ \E ks : rec' = [rec EXCEPT ![t].methods = ks]
  BY Zenon DEF ProjectMethods, Goto
<1>3. t \in DOMAIN rec /\ DOMAIN rec[t] = RecordFields /\ pc'[t] = "attributes"
  BY <1>1, <1>2 DEF Passes
<1>4. /\ rec'[t].refs = rec[t].refs /\ rec'[t].version = rec[t].version
      /\ rec'[t].types = rec[t].types
  BY <1>2, <1>3 DEF RecordFields
<1>5. "methods" \in Applying \ {"references"} /\ "attributes" \in Applying \ {"references", "rewire"}
  BY DEF Applying, OverTypes
<1> QED
  BY <1>2, <1>3, <1>4, <1>5, ProjectMethodsReferences, MemberPassRefers

LEMMA ProjectAttributeRecordsRefers ==
  ASSUME TypeOK, EditsTraced, ReferencesTraced, NEW t \in Threads, ProjectAttributeRecords(t)
  PROVE  RefTraced(t)' /\ FileKept(t)'
<1>1. /\ DOMAIN pc = Threads /\ DOMAIN rec = {u \in Threads : pc[u] \in Passes}
      /\ pc[t] \in Passes => DOMAIN rec[t] = RecordFields
      /\ DOMAIN log = Threads /\ log[t] \in Seq(Outcomes)
  BY ReferencesContext
<1>2. /\ guid' = guid /\ disk' = disk /\ pc[t] = "attributes"
      /\ \/ /\ log' = log /\ pc' = [pc EXCEPT ![t] = "insert"]
            /\ \E bs : rec' = [rec EXCEPT ![t].attrs = bs]
         \/ log' = [log EXCEPT ![t] = Append(@, "failed")]
  BY Zenon DEF ProjectAttributeRecords, Goto, Returns
<1>3. t \in DOMAIN rec /\ DOMAIN rec[t] = RecordFields
  BY <1>1, <1>2 DEF Passes
<1>4. ReferencesAsBefore(t)
  BY ProjectAttributeRecordsReferences
<1>5. ASSUME log' = log, pc' = [pc EXCEPT ![t] = "insert"], NEW bs, rec' = [rec EXCEPT ![t].attrs = bs]
      PROVE  RefTraced(t)' /\ FileKept(t)'
  <2>1. pc'[t] = "insert"
    BY <1>1, <1>5
  <2>2. /\ rec'[t].refs = rec[t].refs /\ rec'[t].version = rec[t].version
        /\ rec'[t].types = rec[t].types
    BY <1>3, <1>5 DEF RecordFields
  <2>3. "attributes" \in Applying \ {"references"} /\ "insert" \in Applying \ {"references", "rewire"}
    BY DEF Applying, OverTypes
  <2> QED
    BY <1>2, <1>4, <1>5, <2>1, <2>2, <2>3, MemberPassRefers
<1>6. CASE log' = [log EXCEPT ![t] = Append(@, "failed")]
  <2>1. log'[t] = Append(log[t], "failed") /\ "failed" \in Outcomes
    BY <1>1, <1>6 DEF Outcomes
  <2>2. ~Alternates(t)'
    BY <1>1, <2>1, OutcomeLogged
  <2>3. RefTraced(t)'
    BY <2>2 DEF RefTraced
  <2> QED
    BY <1>2, <1>4, <2>3, FileStaysKept DEF ReferencesAsBefore
<1> QED
  BY <1>2, <1>5, <1>6

LEMMA RedirectedAre ==
  ASSUME NEW ty, IsSequence(ty.ifaces), NEW refs, NEW red, red = RedirectedInterfaces(ty, refs)
  PROVE  /\ IsSequence(red)
         /\ \A n \in DOMAIN red : IsRedirected(red[n], refs) /\ \E k \in DOMAIN ty.ifaces : red[n] = ty.ifaces[k]
<1> DEFINE at == {k \in DOMAIN ty.ifaces : IsRedirected(ty.ifaces[k], refs)}
<1>1. at \in SUBSET DOMAIN ty.ifaces
  OBVIOUS
<1>2. \A k \in at : k \in DOMAIN ty.ifaces /\ IsRedirected(ty.ifaces[k], refs)
  OBVIOUS
<1>3. red = Picked(ty.ifaces, at)
  BY DEF RedirectedInterfaces
<1> HIDE DEF at
<1>4. IsSequence(red) /\ \A n \in DOMAIN red : \E k \in at : red[n] = ty.ifaces[k]
  BY <1>1, <1>3, PickedElements
<1> QED
  BY Zenon, <1>2, <1>4

LEMMA RedirectTypeRefers ==
  ASSUME TypeOK, EditsTraced, ReferencesTraced, NEW t \in Threads, RedirectType(t)
  PROVE  RefTraced(t)' /\ FileKept(t)'
<1> DEFINE i == work[t].at
           m == mods[t]
           n == mods'[t]
           was == disk[t]
           r == rec[t]
           q == rec'[t]
           refs == r.refs
           red == RedirectedInterfaces(m.types[i], refs)
           more == [k \in DOMAIN red |-> Restored(red[k], refs)]
           pairs == [k \in DOMAIN red |-> <<red[k], Restored(red[k], refs)>>]
           noted == TypeRecord(m.types[i], {"Redirect"}, pairs, {})
<1>1. /\ RefTraced(t) /\ Traced(t) /\ IsModule(was) /\ IsModule(m) /\ SameShape(m, was) /\ IsFile(was)
      /\ DOMAIN pc = Threads /\ DOMAIN rec = {u \in Threads : pc[u] \in Passes}
      /\ pc[t] \in Passes => DOMAIN rec[t] = RecordFields
      /\ DOMAIN m.types = DOMAIN was.types /\ \A j \in DOMAIN was.types : j \in Nat
      /\ DOMAIN work = Threads /\ DOMAIN work[t] = {"at", "stack", "closure", "generated", "pairs"}
  BY ReferencesContext, WorkDomain
<1>2. /\ guid' = guid /\ disk' = disk /\ log' = log /\ pc[t] = "closure"
      /\ pc' = [pc EXCEPT ![t] = "rewire"]
      /\ rec' = [rec EXCEPT ![t].types = With(@, i, noted)]
      /\ work' = [work EXCEPT ![t].pairs = pairs]
  BY Zenon DEF RedirectType, Goto
<1>3. t \in DOMAIN rec /\ DOMAIN rec[t] = RecordFields /\ pc'[t] = "rewire"
  BY <1>1, <1>2 DEF Passes
<1>4. /\ q.refs = refs /\ q.version = r.version /\ q.types = With(r.types, i, noted)
      /\ work'[t].pairs = pairs
  <2> HIDE DEF noted, pairs
  <2> QED
    BY <1>1, <1>2, <1>3 DEF RecordFields
<1>5. noted.treatment = {"Redirect"} /\ noted.pairs = pairs
  BY DEF TypeRecord
<1>6. /\ i \in DOMAIN m.types /\ Keeps(n, m) /\ OtherFaces(n, m, i)
      /\ n.types[i].ifaces = m.types[i].ifaces \o more
      /\ \A j \in DOMAIN m.types : j # i => n.types[j] = m.types[j]
  BY RedirectTypeReferences
<1>7. ASSUME RefPlain(t), TracedPlain(t) PROVE RefPlain(t)'
  <2>1. Halfway(m, was, "closure", work[t], r)
    BY <1>2, <1>7 DEF RefPlain, Applying, OverTypes
  <2>2. Recording(t)
    BY <1>2, <1>7 DEF TracedPlain, Applying, OverTypes
  <2>3. i \notin DOMAIN r.types
    <3>1. \A j \in DOMAIN was.types \cap DOMAIN r.types : j < i
      BY <1>2, <2>2 DEF Recording, OverTypes
    <3>2. i \in DOMAIN was.types /\ i \in Nat
      BY <1>1, <1>6
    <3> HIDE DEF i, was, r
    <3> QED
      BY <3>1, <3>2
  <2>4. IsSequence(m.types[i].ifaces) /\ IsSequence(was.types[i].ifaces)
    BY <1>1, <1>6 DEF IsModule, IsType
  <2>5. /\ IsSequence(red)
        /\ \A k \in DOMAIN red : IsRedirected(red[k], refs) /\ \E l \in DOMAIN m.types[i].ifaces : red[k] = m.types[i].ifaces[l]
    <3> DEFINE ty == m.types[i]
               x == red
    <3>1. IsSequence(ty.ifaces) /\ x = RedirectedInterfaces(ty, refs)
      BY <2>4
    <3> HIDE DEF ty, x, refs
    <3>2. /\ IsSequence(x)
          /\ \A k \in DOMAIN x : IsRedirected(x[k], refs) /\ \E l \in DOMAIN ty.ifaces : x[k] = ty.ifaces[l]
      BY <3>1, RedirectedAre
    <3> QED
      BY <3>2 DEF ty, x
  <2>6. /\ \A k \in DOMAIN was.types[i].ifaces :
              Treatment(was.types[i].ifaces[k]) = "UseProjectionInfo" =>
                 Projected(was.types[i].ifaces[k]).id # was.types[i].ifaces[k].id
        /\ \A e \in Range(Externals(was)) : DOMAIN e = {"id", "scope"}
    BY <1>1, <1>6 DEF IsFile
  <2>7. \A k \in DOMAIN was.types[i].ifaces : "id" \in DOMAIN was.types[i].ifaces[k]
    <3>1. Range(was.types[i].ifaces) \subseteq Range(Externals(was))
      BY <1>1, <1>6, AllMet
    <3>2. \A k \in DOMAIN was.types[i].ifaces : was.types[i].ifaces[k] \in Range(was.types[i].ifaces)
      BY DEF Range
    <3> QED
      BY <2>6, <3>1, <3>2
  <2> DEFINE p2 == pc'[t]
             w2 == work'[t]
             w == work[t]
  <2>8. p2 = "rewire"
    BY <1>3
  <2> HIDE DEF m, n, was, r, q, red, more, pairs, noted, p2, w2, i, w
  <2>9. /\ Inverts(refs) /\ TurnsBack(m, was, refs) /\ VirtualAdded(m.refs, was.refs, r.version)
        /\ \A j \in DOMAIN was.types :
              Duplicated(m.types[j].ifaces, was.types[j].ifaces, RecordedPairs(r, j), refs)
    BY Zenon, <2>1, OwedRecorded DEF Halfway, w
  <2>10. Duplicated(m.types[i].ifaces, was.types[i].ifaces, <<>>, refs)
    BY <1>1, <1>6, <2>3, <2>9 DEF RecordedPairs
  <2>11. more = [k \in DOMAIN red |-> Restored(red[k], refs)]
         /\ pairs = [k \in DOMAIN red |-> <<red[k], Restored(red[k], refs)>>]
    BY DEF more, pairs
  <2>12. Duplicated(m.types[i].ifaces \o more, was.types[i].ifaces, pairs, refs)
    <3> DEFINE now == m.types[i].ifaces
               old == was.types[i].ifaces
    <3>1. /\ IsSequence(now) /\ IsSequence(old) /\ Duplicated(now, old, <<>>, refs)
          /\ \A k \in DOMAIN old : Treatment(old[k]) = "UseProjectionInfo" => Projected(old[k]).id # old[k].id
          /\ \A k \in DOMAIN old : "id" \in DOMAIN old[k]
          /\ \A k \in DOMAIN red : IsRedirected(red[k], refs) /\ \E l \in DOMAIN now : red[k] = now[l]
      BY <2>4, <2>5, <2>6, <2>7, <2>10
    <3> HIDE DEF now, old, refs
    <3>2. Duplicated(now \o more, old, pairs, refs)
      BY <2>5, <2>9, <2>11, <3>1, RedirectOwes
    <3> QED
      BY <3>2 DEF now, old
  <2>13. TurnsBack(n, was, refs)
    BY <1>1, <1>6, <2>9, FacesTurnBack
  <2>14. VirtualAdded(n.refs, was.refs, q.version)
    BY Zenon, <1>4, <1>6, <2>9 DEF OtherFaces, Aside
  <2>15. RecordedPairs(q, i) = pairs
    <3>1. i \in DOMAIN q.types /\ q.types[i] = noted
      BY <1>4 DEF With
    <3> QED
      BY <1>5, <3>1 DEF RecordedPairs
  <2>16. ASSUME NEW j \in DOMAIN was.types, j # i PROVE RecordedPairs(q, j) = RecordedPairs(r, j)
    <3>1. j \in DOMAIN q.types <=> j \in DOMAIN r.types
      BY <1>4, <2>16 DEF With
    <3>2. j \in DOMAIN r.types => q.types[j] = r.types[j]
      BY <1>4, <2>16 DEF With
    <3> QED
      BY <3>1, <3>2 DEF RecordedPairs
  <2>17. ASSUME NEW j \in DOMAIN was.types
         PROVE  Duplicated(n.types[j].ifaces, was.types[j].ifaces, Owed(p2, w2, q, j), refs)
    <3>1. Owed(p2, w2, q, j) = RecordedPairs(q, j)
      BY <2>8, OwedRecorded
    <3>2. CASE j = i
      BY Zenon, <1>6, <2>12, <2>15, <3>1, <3>2
    <3>3. CASE j # i
      BY <1>1, <1>6, <2>9, <2>16, <3>1, <3>3
    <3> QED
      BY <3>2, <3>3
  <2>18. Halfway(n, was, p2, w2, q)
    BY Zenon, <1>4, <2>9, <2>13, <2>14, <2>17 DEF Halfway
  <2>19. PairsSound(w2.pairs, q.refs)
    BY Zenon, <1>4, <2>12 DEF Duplicated, w2
  <2> QED
    BY <1>2, <2>8, <2>18, <2>19 DEF RefPlain, n, was, q, p2, w2
<1>8. RefTraced(t)'
  BY <1>1, <1>2, <1>7, ApplyingReferences DEF Applying, OverTypes
<1> QED
  BY <1>2, <1>6, <1>8, FileStaysKept

LEMMA TailSound ==
  ASSUME NEW pairs, NEW refs, PairsSound(pairs, refs), pairs # <<>>
  PROVE  PairSound(Head(pairs), refs) /\ PairsSound(Tail(pairs), refs)
<1>1. IsSequence(pairs) /\ \A l \in DOMAIN pairs : PairSound(pairs[l], refs)
  BY Zenon DEF PairsSound
<1>2. Len(pairs) \in Nat /\ DOMAIN pairs = 1..Len(pairs) /\ Len(pairs) # 0 /\ Head(pairs) = pairs[1]
  BY <1>1, SequenceMeans DEF IsSequence
<1>3. PairSound(Head(pairs), refs)
  BY <1>1, <1>2
<1> DEFINE s == Tail(pairs)
<1>4. pairs \in Seq(Range(pairs))
  BY <1>1 DEF IsSequence
<1>5. /\ s \in Seq(Range(pairs)) /\ Len(s) = Len(pairs) - 1
      /\ \A l \in 1..Len(s) : s[l] = pairs[l + 1]
  BY <1>4, HeadTailProperties
<1> HIDE DEF s
<1>6. IsSequence(s) /\ DOMAIN s = 1..Len(pairs) - 1
  <2>1. DOMAIN s = 1..Len(s) /\ s = [l \in 1..Len(s) |-> s[l]] /\ Len(s) \in Nat
    BY <1>5
  <2> QED
    BY <1>5, <2>1, SequenceIs
<1>7. \A l \in DOMAIN s : s[l] = pairs[l + 1] /\ l + 1 \in DOMAIN pairs
  BY <1>2, <1>5, <1>6
<1>8. \A l \in DOMAIN s : PairSound(s[l], refs)
  BY Zenon, <1>1, <1>7
<1> QED
  BY Zenon, <1>3, <1>6, <1>8 DEF PairsSound, s

LEMMA RewirePairRefers ==
  ASSUME TypeOK, EditsTraced, ReferencesTraced, NEW t \in Threads, RewirePair(t)
  PROVE  RefTraced(t)' /\ FileKept(t)'
<1> DEFINE m == mods[t]
           n == mods'[t]
           was == disk[t]
           r == rec[t]
           pair == Head(work[t].pairs)
<1>1. /\ RefTraced(t) /\ Traced(t) /\ IsModule(was) /\ SameShape(m, was) /\ Keeps(m, was)
      /\ DOMAIN m.types = DOMAIN was.types
      /\ DOMAIN work = Threads /\ DOMAIN work[t] = {"at", "stack", "closure", "generated", "pairs"}
  BY ReferencesContext, WorkDomain
<1>2. /\ guid' = guid /\ disk' = disk /\ log' = log /\ pc[t] = "rewire" /\ pc' = pc /\ rec' = rec
      /\ work[t].pairs # <<>> /\ work'[t].pairs = Tail(work[t].pairs)
  <2>1. /\ guid' = guid /\ disk' = disk /\ log' = log /\ pc[t] = "rewire" /\ pc' = pc /\ rec' = rec
        /\ work[t].pairs # <<>> /\ work' = [work EXCEPT ![t].pairs = Tail(@)]
    BY Zenon, RewirePairShape
  <2> QED
    BY <1>1, <2>1
<1>3. Keeps(n, m) /\ Aside(n, m) /\ n.types = m.types /\ Rewires(n, m, pair[1], pair[2])
  BY RewirePairReferences
<1>4. ASSUME RefPlain(t) PROVE RefPlain(t)'
  <2>1. Halfway(m, was, "rewire", work[t], r) /\ PairsSound(work[t].pairs, r.refs)
    BY <1>2, <1>4 DEF RefPlain, Applying, OverTypes
  <2>2. PairSound(pair, r.refs) /\ PairsSound(Tail(work[t].pairs), r.refs)
    BY <1>2, <2>1, TailSound
  <2>3. Restored(pair[1], r.refs) = Restored(pair[2], r.refs)
    BY <2>2 DEF PairSound
  <2> DEFINE w == work[t]
             w2 == work'[t]
  <2> HIDE DEF m, n, was, r, pair, w, w2
  <2>4. /\ Inverts(r.refs) /\ TurnsBack(m, was, r.refs) /\ VirtualAdded(m.refs, was.refs, r.version)
        /\ \A j \in DOMAIN was.types :
              Duplicated(m.types[j].ifaces, was.types[j].ifaces, Owed("rewire", w, r, j), r.refs)
    BY Zenon, <2>1 DEF Halfway, w
  <2>5. \A j : Owed("rewire", w2, r, j) = Owed("rewire", w, r, j)
    BY OwedRecorded
  <2>6. TurnsBack(n, was, r.refs)
    <3> DEFINE from == pair[1]
               to == pair[2]
               refs == r.refs
    <3>1. /\ TurnsBack(m, was, refs) /\ Restored(from, refs) = Restored(to, refs)
          /\ \A k \in DOMAIN m.methods : \A j \in DOMAIN m.methods[k].overrides :
                \/ n.methods[k].overrides[j].parent = m.methods[k].overrides[j].parent
                \/ m.methods[k].overrides[j].parent = from /\ n.methods[k].overrides[j].parent = to
      BY Zenon, <1>3, <2>3, <2>4 DEF Rewires
    <3> HIDE DEF from, to, refs
    <3>2. TurnsBack(n, was, refs)
      BY <1>1, <1>3, <3>1, RewiredTurnsBack
    <3> QED
      BY <3>2 DEF refs
  <2>7. VirtualAdded(n.refs, was.refs, r.version)
    BY Zenon, <1>3, <2>4 DEF Aside
  <2>8. Halfway(n, was, "rewire", w2, r)
    BY Zenon, <1>3, <2>4, <2>5, <2>6, <2>7 DEF Halfway
  <2> QED
    BY Zenon, <1>2, <2>2, <2>8 DEF RefPlain, n, was, r, w2
<1>5. RefTraced(t)'
  BY <1>1, <1>2, <1>4, ApplyingReferences DEF Applying, OverTypes
<1> QED
  BY <1>2, <1>3, <1>5, FileStaysKept

LEMMA InsertRecordRefers ==
  ASSUME TypeOK, EditsTraced, ReferencesTraced, NEW t \in Threads, InsertRecord(t)
  PROVE  RefTraced(t)' /\ FileKept(t)'
<1>1. /\ RefTraced(t) /\ Traced(t) /\ DOMAIN pc = Threads /\ DOMAIN log = Threads
      /\ log[t] \in Seq(Outcomes)
  BY ReferencesContext
<1>2. /\ guid' = guid /\ disk' = disk /\ mods' = mods /\ work' = work /\ pc[t] = "insert"
      /\ pc'[t] = "idle" /\ log'[t] = Append(log[t], "applied")
      /\ store' = With(store, guid[t], rec[t])
  BY <1>1 DEF InsertRecord, Returns
<1>3. store'[guid[t]] = rec[t]
  BY <1>2 DEF With
<1>4. Alternates(t)' => Alternates(t) /\ Even(t) /\ ~Even(t)'
  BY <1>1, <1>2, OutcomeLogged DEF Outcomes
<1>5. Sole(t)' = Sole(t) /\ Collides(disk[t])' = Collides(disk[t])
  BY <1>2 DEF Sole
<1>6. ASSUME RefPlain(t) PROVE RefProjected(t)'
  <2> DEFINE was == disk[t]
             m == mods[t]
             r == rec[t]
             w == work[t]
  <2>1. Halfway(m, was, "insert", w, r)
    BY <1>2, <1>6 DEF RefPlain, Applying, OverTypes
  <2> HIDE DEF was, m, r, w
  <2>2. \A i : Owed("idle", w, r, i) = Owed("insert", w, r, i)
    BY OwedRecorded
  <2>3. Halfway(m, was, "idle", w, r)
    BY Zenon, <2>1, <2>2 DEF Halfway
  <2> QED
    BY <1>2, <1>3, <2>3 DEF RefProjected, was, m, r, w
<1>7. RefTraced(t)'
  BY <1>1, <1>4, <1>5, <1>6 DEF RefTraced
<1> QED
  BY <1>2, <1>7, FileStaysKept

LEMMA CheckNotAppliedRefers ==
  ASSUME TypeOK, EditsTraced, ReferencesTraced, NEW t \in Threads, CheckNotApplied(t)
  PROVE  RefTraced(t)' /\ FileKept(t)'
<1>1. /\ RefTraced(t) /\ Traced(t) /\ DOMAIN pc = Threads
  BY ReferencesContext
<1>2. /\ UNCHANGED <<mods, guid, store, rec, work, log, disk>> /\ pc[t] = "idle"
      /\ pc'[t] \in {"idle", "virtual"}
      /\ guid[t] \in DOMAIN store => pc'[t] = "idle"
  BY <1>1 DEF CheckNotApplied, Calls, Declines, Goto
<1>3. Sole(t)' = Sole(t) /\ Alternates(t)' = Alternates(t) /\ Even(t)' = Even(t)
      /\ Collides(disk[t])' = Collides(disk[t])
  BY <1>2 DEF Sole, Alternates, Even
<1>4. RefPlain(t) => RefPlain(t)'
  BY <1>2 DEF RefPlain, Applying, OverTypes
<1>5. TracedProjected(t) /\ RefProjected(t) => RefProjected(t)'
  BY <1>2 DEF RefProjected, TracedProjected
<1>6. RefTraced(t)'
  BY <1>1, <1>3, <1>4, <1>5 DEF RefTraced, Traced
<1> QED
  BY <1>2, <1>6, FileStaysKept

LEMMA TakeRecordRefers ==
  ASSUME TypeOK, EditsTraced, ReferencesTraced, NEW t \in Threads, TakeRecord(t)
  PROVE  RefTraced(t)' /\ FileKept(t)'
<1>1. /\ RefTraced(t) /\ Traced(t) /\ DOMAIN pc = Threads
  BY ReferencesContext
<1>2. /\ UNCHANGED <<mods, guid, work, log, disk>> /\ pc[t] = "idle"
      /\ \/ pc'[t] = "idle" /\ store' = store /\ rec' = rec /\ guid[t] \notin DOMAIN store
         \/ pc'[t] = "restore" /\ rec'[t] = store[guid[t]]
  <2>1. CASE guid[t] \in DOMAIN store
    BY <1>1, <2>1 DEF TakeRecord, Calls, Declines, Goto, With
  <2>2. CASE guid[t] \notin DOMAIN store
    BY <1>1, <2>2 DEF TakeRecord, Calls, Declines, Goto
  <2> QED
    BY <2>1, <2>2
<1>3. Sole(t)' = Sole(t) /\ Alternates(t)' = Alternates(t) /\ Even(t)' = Even(t)
      /\ Collides(disk[t])' = Collides(disk[t])
  BY <1>2 DEF Sole, Alternates, Even
<1>4. RefPlain(t) => RefPlain(t)'
  BY <1>2 DEF RefPlain, Applying, OverTypes
<1>5. ASSUME TracedProjected(t), RefProjected(t) PROVE RefProjected(t)'
  <2> DEFINE was == disk[t]
             m == mods[t]
             r == store[guid[t]]
             w == work[t]
  <2>1. guid[t] \in DOMAIN store /\ pc'[t] = "restore" /\ rec'[t] = r
    BY <1>2, <1>5 DEF TracedProjected
  <2>2. Halfway(m, was, "idle", w, r)
    BY <1>2, <1>5 DEF RefProjected
  <2> HIDE DEF was, m, r, w
  <2>3. \A i : Owed("restore", w, r, i) = Owed("idle", w, r, i)
    BY OwedRecorded
  <2>4. Halfway(m, was, "restore", w, r)
    BY Zenon, <2>2, <2>3 DEF Halfway
  <2> QED
    BY <1>2, <2>1, <2>4 DEF RefProjected, was, m, w
<1>6. RefTraced(t)'
  BY <1>1, <1>3, <1>4, <1>5 DEF RefTraced, Traced
<1> QED
  BY <1>2, <1>6, FileStaysKept

LEMMA RereadRefers ==
  ASSUME TypeOK, EditsTraced, ReferencesTraced, NEW t \in Threads, Reread(t)
  PROVE  RefTraced(t)' /\ FileKept(t)'
<1>1. DOMAIN mods = Threads /\ DOMAIN log = Threads
  BY ReferencesContext
<1>2. mods'[t] = disk[t] /\ disk' = disk /\ log'[t] = <<>> /\ pc'[t] = "idle"
  BY <1>1 DEF Reread
<1>3. Even(t)'
  BY <1>2 DEF Even
<1>4. RefPlain(t)'
  BY <1>2 DEF RefPlain, AsRead, Applying, OverTypes
<1> QED
  BY <1>2, <1>3, <1>4, FileStaysKept DEF RefTraced

LEMMA RepairRefers ==
  ASSUME TypeOK, EditsTraced, ReferencesTraced, NEW t \in Threads, Repair(t)
  PROVE  RefTraced(t)' /\ FileKept(t)'
<1>1. log[t] \in Seq(Outcomes)
  BY ReferencesContext
<1>2. log' = log /\ disk' = disk /\ log[t] # <<>> /\ log[t][Len(log[t])] = "failed"
  BY DEF Repair, Last
<1>3. Len(log[t]) \in DOMAIN log[t]
  BY <1>1, <1>2
<1>4. ~Alternates(t)
  BY <1>2, <1>3 DEF Alternates
<1>5. RefTraced(t)'
  BY <1>2, <1>4 DEF RefTraced, Alternates
<1> QED
  BY <1>2, <1>5, RepairReferences, FileStaysKept DEF ReferencesAsBefore

LEMMA RestoreMembersRefers ==
  ASSUME TypeOK, EditsTraced, ReferencesTraced, NEW t \in Threads, RestoreMembers(t)
  PROVE  RefTraced(t)' /\ FileKept(t)'
<1> DEFINE was == disk[t]
           m == mods[t]
           n == mods'[t]
           r == rec[t]
           w == work[t]
           w2 == work'[t]
<1>1. /\ RefTraced(t) /\ Traced(t) /\ DOMAIN pc = Threads /\ DOMAIN work = Threads
      /\ IsModule(was) /\ SameShape(m, was)
      /\ DOMAIN m.types = DOMAIN was.types
  BY ReferencesContext
<1>2. /\ guid' = guid /\ disk' = disk /\ log' = log /\ rec' = rec
      /\ pc[t] = "restore" /\ pc'[t] = "untypes" /\ w2 = AtRest
  BY <1>1 DEF RestoreMembers, Goto
<1>3. Keeps(n, m) /\ SameReferences(n, m)
  BY RestoreMembersReferences DEF ReferencesAsBefore
<1>4. \A i \in DOMAIN was.types : i \in Nat \ {0}
  BY <1>1, SequenceMeans DEF IsModule
<1>5. ASSUME RefProjected(t) PROVE RefProjected(t)'
  <2>1. Halfway(m, was, "restore", w, r)
    BY <1>2, <1>5 DEF RefProjected
  <2>2. w2.at = 1
    BY <1>2 DEF AtRest
  <2> HIDE DEF was, m, n, r, w, w2
  <2>3. \A i \in DOMAIN was.types : ~(i < w2.at)
    BY <1>4, <2>2
  <2>4. \A i \in DOMAIN was.types : Owed("untypes", w2, r, i) = Owed("restore", w, r, i)
    BY <2>3 DEF Owed
  <2>5. Halfway(n, was, "untypes", w2, r)
    BY <1>1, <1>3, <2>1, <2>4, HalfwayKept
  <2> QED
    BY <1>2, <2>5 DEF RefProjected, was, n, r, w2
<1>6. RefTraced(t)'
  BY <1>1, <1>2, <1>5, RemovingReferences DEF Removing
<1> QED
  BY <1>2, <1>3, <1>6, FileStaysKept

LEMMA RestoreTypeRefers ==
  ASSUME TypeOK, EditsTraced, ReferencesTraced, NEW t \in Threads, RestoreType(t)
  PROVE  RefTraced(t)' /\ FileKept(t)'
<1> DEFINE was == disk[t]
           m == mods[t]
           n == mods'[t]
           r == rec[t]
           i == work[t].at
           w == work[t]
           p2 == pc'[t]
           w2 == work'[t]
           redirects == i \in DOMAIN r.types /\ "Redirect" \in r.types[i].treatment
<1>1. /\ RefTraced(t) /\ Traced(t) /\ DOMAIN pc = Threads /\ DOMAIN work = Threads
      /\ IsModule(was) /\ SameShape(m, was)
      /\ DOMAIN m.types = DOMAIN was.types /\ \A j \in DOMAIN was.types : j \in Nat
      /\ DOMAIN work[t] = {"at", "stack", "closure", "generated", "pairs"}
  BY ReferencesContext, WorkDomain
<1>2. /\ guid' = guid /\ disk' = disk /\ log' = log /\ rec' = rec /\ pc[t] = "untypes"
      /\ redirects => work' = [work EXCEPT ![t].pairs = Reverse(r.types[i].pairs)]
                      /\ pc' = [pc EXCEPT ![t] = "unwire"]
      /\ ~redirects => work' = [work EXCEPT ![t].at = i + 1] /\ pc' = pc
  BY Zenon DEF RestoreType, Goto
<1>3. i \in DOMAIN m.types
  BY RestoreTypeEffect
<1>4. Keeps(n, m) /\ SameReferences(n, m)
  BY RestoreTypeReferencesKept DEF ReferencesAsBefore
<1>5. /\ redirects => p2 = "unwire" /\ w2.at = i /\ w2.pairs = Reverse(r.types[i].pairs)
      /\ ~redirects => p2 = "untypes" /\ w2.at = i + 1
  <2> HIDE DEF redirects
  <2> QED
    BY <1>1, <1>2
<1>6. ASSUME RefProjected(t) PROVE RefProjected(t)'
  <2>1. Halfway(m, was, "untypes", w, r)
    BY <1>2, <1>6 DEF RefProjected
  <2>2. i \in DOMAIN was.types /\ i \in Nat /\ i = w.at
    BY <1>1, <1>3
  <2> HIDE DEF was, m, n, r, i, w, p2, w2
  <2>3. ASSUME NEW j \in DOMAIN was.types,
               Duplicated(m.types[j].ifaces, was.types[j].ifaces, Owed("untypes", w, r, j), r.refs)
        PROVE  Duplicated(m.types[j].ifaces, was.types[j].ifaces, Owed(p2, w2, r, j), r.refs)
    <3>1. j \in Nat
      BY <1>1
    <3>2. CASE j < i
      <4>1. Owed("untypes", w, r, j) = <<>>
        BY <2>2, <3>2 DEF Owed
      <4>2. j # w2.at \/ p2 # "unwire"
        BY <1>5, <2>2, <3>1, <3>2
      <4>3. j < w2.at /\ p2 \in {"untypes", "unwire"}
        BY <1>5, <2>2, <3>1, <3>2
      <4>4. Owed(p2, w2, r, j) = <<>>
        BY <4>2, <4>3 DEF Owed
      <4> QED
        BY Zenon, <2>3, <4>1, <4>4
    <3>3. CASE j > i
      <4>1. Owed("untypes", w, r, j) = RecordedPairs(r, j)
        BY <2>2, <3>1, <3>3 DEF Owed
      <4>2. ~(p2 = "unwire" /\ j = w2.at) /\ ~(j < w2.at)
        BY <1>5, <2>2, <3>1, <3>3
      <4>3. Owed(p2, w2, r, j) = RecordedPairs(r, j)
        BY <4>2 DEF Owed
      <4> QED
        BY Zenon, <2>3, <4>1, <4>3
    <3>4. CASE j = i
      <4>1. Owed("untypes", w, r, j) = RecordedPairs(r, j)
        BY <2>2, <3>4 DEF Owed
      <4>2. CASE redirects
        <5>1. RecordedPairs(r, j) = r.types[i].pairs
          BY <3>4, <4>2 DEF RecordedPairs
        <5>2. Owed(p2, w2, r, j) = Reverse(r.types[i].pairs)
          BY <1>5, <3>4, <4>2 DEF Owed
        <5> DEFINE pairs == r.types[i].pairs
                   now == m.types[j].ifaces
                   old == was.types[j].ifaces
        <5>3. Duplicated(now, old, pairs, r.refs)
          BY <2>3, <4>1, <5>1
        <5> HIDE DEF pairs, now, old
        <5>4. Duplicated(now, old, Reverse(pairs), r.refs)
          BY <5>3, ReverseOwes
        <5> QED
          BY <5>2, <5>4 DEF pairs, now, old
      <4>3. CASE ~redirects
        <5>1. RecordedPairs(r, j) = <<>>
          BY <3>4, <4>3 DEF RecordedPairs
        <5>2. p2 = "untypes" /\ j < w2.at
          BY <1>5, <2>2, <3>4, <4>3
        <5>3. Owed(p2, w2, r, j) = <<>>
          BY <5>2 DEF Owed
        <5> QED
          BY Zenon, <2>3, <4>1, <5>1, <5>3
      <4> QED
        BY <4>2, <4>3
    <3> QED
      BY <2>2, <3>1, <3>2, <3>3, <3>4
  <2>4. Halfway(n, was, p2, w2, r)
    BY <1>1, <1>4, <2>1, <2>3, HalfwayKept
  <2>5. p2 \in {"untypes", "unwire"}
    BY <1>5
  <2> QED
    BY <1>2, <2>4, <2>5 DEF RefProjected, was, n, r, p2, w2
<1>7. RefTraced(t)'
  <2>1. p2 \in Removing /\ pc[t] \in Removing
    BY <1>2, <1>5 DEF Removing
  <2> QED
    BY <1>1, <1>2, <1>6, <2>1, RemovingReferences
<1> QED
  BY <1>2, <1>4, <1>7, FileStaysKept

LEMMA UnwirePairRefers ==
  ASSUME TypeOK, EditsTraced, ReferencesTraced, NEW t \in Threads, UnwirePair(t)
  PROVE  RefTraced(t)' /\ FileKept(t)'
<1> DEFINE was == disk[t]
           m == mods[t]
           n == mods'[t]
           r == rec[t]
           i == work[t].at
           w == work[t]
           w2 == work'[t]
           pair == Head(work[t].pairs)
           k == Rewired(m, i, pair[2], pair[1])
<1>1. /\ RefTraced(t) /\ Traced(t) /\ DOMAIN pc = Threads /\ DOMAIN work = Threads
      /\ IsModule(m) /\ IsModule(was) /\ SameShape(m, was) /\ Keeps(m, was)
      /\ DOMAIN m.types = DOMAIN was.types
      /\ DOMAIN work[t] = {"at", "stack", "closure", "generated", "pairs"}
  BY ReferencesContext, WorkDomain
<1>2. /\ guid' = guid /\ disk' = disk /\ log' = log /\ rec' = rec /\ pc' = pc /\ pc[t] = "unwire"
      /\ w.pairs # <<>> /\ w2.at = i /\ w2.pairs = Tail(w.pairs)
  <2>1. /\ guid' = guid /\ disk' = disk /\ log' = log /\ pc[t] = "unwire" /\ pc' = pc /\ rec' = rec
        /\ w.pairs # <<>> /\ work' = [work EXCEPT ![t].pairs = Tail(@)]
    BY Zenon, UnwirePairShape
  <2> QED
    BY <1>1, <2>1
<1>3. /\ i \in DOMAIN m.types
      /\ IsModule(k) /\ SameShape(k, m) /\ Keeps(k, m) /\ Aside(k, m) /\ k.types = m.types
      /\ Rewires(k, m, pair[2], pair[1])
      /\ Keeps(n, k) /\ OtherFaces(n, k, i)
      /\ n.types[i].ifaces = WithoutInterface(m.types[i].ifaces, pair[2])
      /\ \A j \in DOMAIN m.types : j # i => n.types[j] = m.types[j]
  BY UnwirePairReferences
<1>4. Keeps(n, m) /\ SameShape(k, was)
  <2> HIDE DEF k, n, m, was
  <2> QED
    BY <1>1, <1>3, KeepsTransitive, ShapeTransitive
<1>5. IsSequence(m.types[i].ifaces) /\ IsSequence(was.types[i].ifaces)
  BY <1>1, <1>3 DEF IsModule, IsType
<1>6. ASSUME RefProjected(t) PROVE RefProjected(t)'
  <2>1. Halfway(m, was, "unwire", w, r)
    BY <1>2, <1>6 DEF RefProjected
  <2>2. i \in DOMAIN was.types /\ i = w.at /\ pair = Head(w.pairs)
    BY <1>1, <1>3
  <2> HIDE DEF was, m, n, r, i, w, w2, pair, k
  <2> DEFINE refs == r.refs
             from == pair[2]
             to == pair[1]
             now == m.types[i].ifaces
             old == was.types[i].ifaces
             pairs == w.pairs
  <2>3. /\ Inverts(refs) /\ TurnsBack(m, was, refs) /\ VirtualAdded(m.refs, was.refs, r.version)
        /\ \A j \in DOMAIN was.types :
              Duplicated(m.types[j].ifaces, was.types[j].ifaces, Owed("unwire", w, r, j), refs)
    BY Zenon, <2>1 DEF Halfway
  <2>4. Owed("unwire", w, r, i) = pairs /\ Owed("unwire", w2, r, i) = Tail(pairs)
    BY <1>2, <2>2 DEF Owed
  <2>5. Duplicated(now, old, pairs, refs)
    BY <2>2, <2>3, <2>4
  <2>6. Restored(from, refs) = Restored(to, refs)
    <3>1. PairsSound(pairs, refs)
      BY <2>5 DEF Duplicated
    <3>2. PairSound(Head(pairs), refs)
      BY <1>2, <3>1, TailSound
    <3> QED
      BY <2>2, <3>2 DEF PairSound
  <2>7. Duplicated(n.types[i].ifaces, old, Tail(pairs), refs)
    <3> HIDE DEF refs, now, old
    <3>1. n.types[i].ifaces = WithoutInterface(now, Head(pairs)[2])
      BY <1>3, <2>2 DEF now
    <3>2. IsSequence(now) /\ IsSequence(old) /\ pairs # <<>>
      BY <1>2, <1>5 DEF now, old
    <3> HIDE DEF pairs
    <3>3. Duplicated(WithoutInterface(now, Head(pairs)[2]), old, Tail(pairs), refs)
      BY <2>5, <3>2, UnwireOwes
    <3> QED
      BY Zenon, <3>1, <3>3
  <2>8. ASSUME NEW j \in DOMAIN was.types
        PROVE  Duplicated(n.types[j].ifaces, was.types[j].ifaces, Owed("unwire", w2, r, j), refs)
    <3>1. CASE j = i
      BY <2>4, <2>7, <3>1
    <3>2. CASE j # i
      <4>1. Owed("unwire", w2, r, j) = Owed("unwire", w, r, j)
        BY <1>2, <2>2, <3>2 DEF Owed
      <4>2. n.types[j] = m.types[j]
        BY <1>1, <1>3, <3>2
      <4> QED
        BY <2>3, <4>1, <4>2
    <3> QED
      BY <3>1, <3>2
  <2>9. TurnsBack(k, was, refs)
    <3>1. \A x \in DOMAIN m.methods : \A j \in DOMAIN m.methods[x].overrides :
             \/ k.methods[x].overrides[j].parent = m.methods[x].overrides[j].parent
             \/ m.methods[x].overrides[j].parent = from /\ k.methods[x].overrides[j].parent = to
      BY Zenon, <1>3 DEF Rewires
    <3> HIDE DEF refs, from, to
    <3> QED
      BY <1>1, <1>3, <2>3, <2>6, <3>1, RewiredTurnsBack
  <2>10. TurnsBack(n, was, refs)
    <3> HIDE DEF refs
    <3> QED
      BY <1>1, <1>3, <1>4, <2>9, FacesTurnBack
  <2>11. VirtualAdded(n.refs, was.refs, r.version)
    BY Zenon, <1>3, <2>3 DEF OtherFaces, Aside
  <2>12. Halfway(n, was, "unwire", w2, r)
    BY Zenon, <2>3, <2>8, <2>10, <2>11 DEF Halfway
  <2> QED
    BY <1>2, <2>12 DEF RefProjected, was, n, r, w2
<1>7. RefTraced(t)'
  BY <1>1, <1>2, <1>6, RemovingReferences DEF Removing
<1> QED
  BY <1>2, <1>4, <1>7, FileStaysKept

LEMMA TypeRestoredRefers ==
  ASSUME TypeOK, EditsTraced, ReferencesTraced, NEW t \in Threads, TypeRestored(t)
  PROVE  RefTraced(t)' /\ FileKept(t)'
<1> DEFINE was == disk[t]
           m == mods[t]
           r == rec[t]
           i == work[t].at
           w == work[t]
           w2 == work'[t]
<1>1. /\ RefTraced(t) /\ Traced(t) /\ DOMAIN pc = Threads /\ DOMAIN work = Threads
      /\ DOMAIN m.types = DOMAIN was.types /\ \A j \in DOMAIN was.types : j \in Nat
      /\ DOMAIN work[t] = {"at", "stack", "closure", "generated", "pairs"}
  BY ReferencesContext, WorkDomain
<1>2. /\ guid' = guid /\ disk' = disk /\ log' = log /\ rec' = rec /\ mods' = mods
      /\ pc[t] = "unwire" /\ pc'[t] = "untypes"
      /\ w.pairs = <<>> /\ w2.at = i + 1
  BY <1>1 DEF TypeRestored, Goto
<1>3. i \in DOMAIN was.types
  BY <1>1, <1>2 DEF TypeOK, WorkOK
<1>4. ASSUME RefProjected(t) PROVE RefProjected(t)'
  <2>1. Halfway(m, was, "unwire", w, r)
    BY <1>2, <1>4 DEF RefProjected
  <2>2. i \in Nat /\ i = w.at
    BY <1>1, <1>3
  <2> HIDE DEF was, m, r, i, w, w2
  <2>3. ASSUME NEW j \in DOMAIN was.types PROVE Owed("untypes", w2, r, j) = Owed("unwire", w, r, j)
    <3>1. j \in Nat
      BY <1>1
    <3>2. j < w2.at <=> j < i \/ j = i
      BY <1>2, <2>2, <3>1
    <3> QED
      BY <1>2, <2>2, <3>2 DEF Owed
  <2>4. Halfway(m, was, "untypes", w2, r)
    BY Zenon, <2>1, <2>3 DEF Halfway
  <2> QED
    BY <1>2, <2>4 DEF RefProjected, was, m, r, w2
<1>5. RefTraced(t)'
  BY <1>1, <1>2, <1>4, RemovingReferences DEF Removing
<1> QED
  BY <1>2, <1>5, FileStaysKept

LEMMA SameRecord ==
  ASSUME NEW a, NEW b, IsRecord(a), IsRecord(b), DOMAIN a = DOMAIN b, \A f \in DOMAIN a : a[f] = b[f]
  PROVE  a = b
BY DEF IsRecord

LEMMA SameSequence ==
  ASSUME NEW s, NEW t, IsSequence(s), IsSequence(t), DOMAIN s = DOMAIN t, \A i \in DOMAIN s : s[i] = t[i]
  PROVE  s = t
<1>1. Len(s) = Len(t) /\ s = [i \in 1..Len(s) |-> s[i]] /\ t = [i \in 1..Len(t) |-> t[i]]
      /\ DOMAIN s = 1..Len(s)
  BY SameIndices, SequenceMeans
<1>2. \A i \in 1..Len(s) : s[i] = t[i]
  BY <1>1
<1> QED
  BY <1>1, <1>2

(* Putting every reference back completes a removal.                         *)
LEMMA RestoredAsRead ==
  ASSUME NEW was, IsModule(was), IsFile(was),
         NEW m, IsModule(m), SameShape(m, was), Keeps(m, was), NEW refs, TurnsBack(m, was, refs),
         \A i \in DOMAIN was.types : /\ Duplicated(m.types[i].ifaces, was.types[i].ifaces, <<>>, refs)
                                     /\ Alike(m.types[i], was.types[i]),
         SameBlobs(m, was), SameMethods(m, was),
         NEW n, IsModule(n), SameShape(n, m), SameDefinitions(n, m), Keeps(n, m),
         BackBy(n, m, refs)
  PROVE  AsRead(n, was)
<1>1. /\ SameShape(n, was) /\ Keeps(n, was)
      /\ DOMAIN m.types = DOMAIN was.types /\ DOMAIN n.types = DOMAIN was.types
      /\ DOMAIN was.methods \subseteq DOMAIN m.methods
  BY ShapeTransitive, KeepsTransitive DEF SameShape
<1>2. SameBlobs(n, was) /\ SameMethods(n, was)
  BY SameTransitive DEF SameDefinitions
<1>3. /\ n.loose = [j \in DOMAIN m.loose |-> Restored(m.loose[j], refs)]
      /\ \A i \in DOMAIN m.types :
            /\ n.types[i].base = Restored(m.types[i].base, refs)
            /\ n.types[i].ifaces = [j \in DOMAIN m.types[i].ifaces |-> Restored(m.types[i].ifaces[j], refs)]
            /\ \A j \in DOMAIN m.types[i].attrs : n.types[i].attrs[j].ctor = Restored(m.types[i].attrs[j].ctor, refs)
      /\ \A k \in DOMAIN m.methods : k \in ListedMethods(m) =>
            \A j \in DOMAIN m.methods[k].overrides :
               n.methods[k].overrides[j].parent = Restored(m.methods[k].overrides[j].parent, refs)
  BY Zenon DEF BackBy
<1>4. n.loose = was.loose
  <2>1. /\ DOMAIN m.loose = DOMAIN was.loose /\ DOMAIN n.loose = DOMAIN m.loose
        /\ \A j \in DOMAIN was.loose : n.loose[j] = was.loose[j]
    BY <1>3 DEF Keeps, TurnsBack
  <2>2. IsSequence(n.loose) /\ IsSequence(was.loose)
    BY DEF IsModule
  <2> QED
    BY <2>1, <2>2, SameSequence
<1>5. ASSUME NEW i \in DOMAIN was.types PROVE n.types[i] = was.types[i]
  <2> DEFINE new == n.types[i]
             old == was.types[i]
             mid == m.types[i]
  <2>1. IsType(new, n) /\ IsType(old, was) /\ IsType(mid, m) /\ IsRecord(old)
        /\ \A j \in DOMAIN old.attrs : IsRecord(old.attrs[j])
    BY <1>1 DEF IsModule, IsFile
  <2>2. TypeKeeps(new, old)
    BY <1>1 DEF Keeps
  <2>3. Alike(new, old)
    <3>1. Alike(mid, old)
      OBVIOUS
    <3>2. new.flags = mid.flags /\ new.prefix = mid.prefix /\ new.methods = mid.methods
      BY <1>1 DEF SameDefinitions, SameTypes
    <3> QED
      BY <3>1, <3>2 DEF Alike
  <2>4. DOMAIN new.attrs = DOMAIN old.attrs /\ DOMAIN mid.attrs = DOMAIN old.attrs
    BY <1>1 DEF SameShape
  <2>5. \A j \in DOMAIN old.attrs : new.attrs[j].blob = old.attrs[j].blob
    BY <1>2 DEF SameBlobs
  <2>6. new.base = old.base /\ \A j \in DOMAIN old.attrs : new.attrs[j].ctor = old.attrs[j].ctor
    <3>1. /\ Restored(mid.base, refs) = old.base
          /\ \A j \in DOMAIN old.attrs : Restored(mid.attrs[j].ctor, refs) = old.attrs[j].ctor
      BY DEF TurnsBack
    <3>2. /\ new.base = Restored(mid.base, refs)
          /\ \A j \in DOMAIN mid.attrs : new.attrs[j].ctor = Restored(mid.attrs[j].ctor, refs)
      BY <1>1, <1>3
    <3> QED
      BY <2>4, <3>1, <3>2
  <2>7. new.ifaces = old.ifaces
    <3>1. new.ifaces = [j \in DOMAIN mid.ifaces |-> Restored(mid.ifaces[j], refs)]
      BY <1>1, <1>3
    <3>2. IsSequence(mid.ifaces) /\ IsSequence(old.ifaces)
      BY <2>1 DEF IsType
    <3>3. Duplicated(mid.ifaces, old.ifaces, <<>>, refs)
      OBVIOUS
    <3> DEFINE a == mid.ifaces
               b == old.ifaces
    <3> HIDE DEF a, b
    <3>4. [j \in DOMAIN a |-> Restored(a[j], refs)] = b
      BY <3>2, <3>3, OwesNothing DEF a, b
    <3> QED
      BY <3>1, <3>4 DEF a, b
  <2> HIDE DEF new, old, mid
  <2>8. ASSUME NEW j \in DOMAIN old.attrs PROVE new.attrs[j] = old.attrs[j]
    <3> DEFINE a == new.attrs[j]
               b == old.attrs[j]
    <3>1. IsRecord(a) /\ IsRecord(b)
      BY <2>1, <2>2 DEF TypeKeeps
    <3>2. DOMAIN a = {"ctor", "blob"} /\ DOMAIN b = {"ctor", "blob"}
      BY <2>1, <2>4 DEF IsType
    <3>3. a.ctor = b.ctor /\ a.blob = b.blob
      BY <2>5, <2>6
    <3> HIDE DEF a, b
    <3>4. a = b
      BY <3>1, <3>2, <3>3, SameRecord
    <3> QED
      BY <3>4 DEF a, b
  <2>9. new.attrs = old.attrs
    <3>1. IsSequence(new.attrs) /\ IsSequence(old.attrs)
      BY <2>1 DEF IsType
    <3> QED
      BY <2>4, <2>8, <3>1, SameSequence
  <2>10. /\ IsRecord(new) /\ new.id = old.id /\ new.fields = old.fields /\ new.nested = old.nested
         /\ new.flags = old.flags /\ new.prefix = old.prefix /\ new.methods = old.methods
    BY <2>1, <2>2, <2>3 DEF TypeKeeps, Alike
  <2>11. /\ DOMAIN new = {"id", "prefix", "flags", "base", "ifaces", "attrs", "methods", "fields", "nested"}
         /\ DOMAIN old = {"id", "prefix", "flags", "base", "ifaces", "attrs", "methods", "fields", "nested"}
    BY <2>1 DEF IsType
  <2>12. new = old
    BY <2>1, <2>6, <2>7, <2>9, <2>10, <2>11, SameRecord
  <2> QED
    BY <2>12 DEF new, old
<1>6. n.types = was.types
  <2>1. IsSequence(n.types) /\ IsSequence(was.types)
    BY DEF IsModule
  <2> QED
    BY <1>1, <1>5, <2>1, SameSequence
<1>7. ListedMethods(m) = ListedMethods(was)
  <2>1. \A i \in DOMAIN was.types : m.types[i].methods = was.types[i].methods
    BY DEF Alike
  <2>2. IsSequence(m.types) /\ IsSequence(was.types)
    BY DEF IsModule
  <2> QED
    BY <1>1, <2>1, <2>2, ListedAlike
<1>8. ASSUME NEW k \in ListedMethods(was) PROVE n.methods[k] = was.methods[k]
  <2> DEFINE new == n.methods[k]
             old == was.methods[k]
             mid == m.methods[k]
  <2>1. k \in DOMAIN was.methods /\ k \in DOMAIN m.methods /\ k \in DOMAIN n.methods
    BY <1>1, ListedExist DEF SameShape
  <2>2. IsMethod(new, n) /\ IsMethod(old, was) /\ IsRecord(old)
        /\ \A j \in DOMAIN old.overrides : IsRecord(old.overrides[j])
    BY <2>1 DEF IsModule, IsFile
  <2>3. MethodKeeps(new, old) /\ MethodKeeps(mid, old)
    BY <1>1, <2>1 DEF Keeps
  <2>4. new.access = old.access /\ new.flags = old.flags
    BY <1>2, <2>1 DEF SameMethods
  <2>5. \A j \in DOMAIN old.overrides : new.overrides[j].parent = old.overrides[j].parent
    <3>1. \A j \in DOMAIN old.overrides : Restored(mid.overrides[j].parent, refs) = old.overrides[j].parent
      BY DEF TurnsBack
    <3>2. \A j \in DOMAIN mid.overrides : new.overrides[j].parent = Restored(mid.overrides[j].parent, refs)
      BY <1>3, <1>7, <2>1
    <3>3. DOMAIN mid.overrides = DOMAIN old.overrides
      BY <2>3 DEF MethodKeeps
    <3> QED
      BY <3>1, <3>2, <3>3
  <2> HIDE DEF new, old, mid
  <2>6. DOMAIN new.overrides = DOMAIN old.overrides
    BY <2>3 DEF MethodKeeps
  <2>7. ASSUME NEW j \in DOMAIN old.overrides PROVE new.overrides[j] = old.overrides[j]
    <3> DEFINE a == new.overrides[j]
               b == old.overrides[j]
    <3>1. IsRecord(a) /\ IsRecord(b) /\ a.name = b.name
      BY <2>2, <2>3 DEF MethodKeeps
    <3>2. DOMAIN a = {"parent", "name"} /\ DOMAIN b = {"parent", "name"}
      BY <2>2, <2>6 DEF IsMethod
    <3>3. a.parent = b.parent
      BY <2>5
    <3> HIDE DEF a, b
    <3>4. a = b
      BY <3>1, <3>2, <3>3, SameRecord
    <3> QED
      BY <3>4 DEF a, b
  <2>8. new.overrides = old.overrides
    <3>1. IsSequence(new.overrides) /\ IsSequence(old.overrides)
      BY <2>2 DEF IsMethod
    <3> QED
      BY <2>6, <2>7, <3>1, SameSequence
  <2>9. /\ IsRecord(new) /\ new.name = old.name /\ new.owner = old.owner
        /\ new.treatAsPublic = old.treatAsPublic
    BY <2>2, <2>3 DEF MethodKeeps
  <2>10. /\ DOMAIN new = {"owner", "name", "access", "flags", "overrides", "treatAsPublic"}
         /\ DOMAIN old = {"owner", "name", "access", "flags", "overrides", "treatAsPublic"}
    BY <2>2 DEF IsMethod
  <2>11. new = old
    BY <2>2, <2>4, <2>8, <2>9, <2>10, SameRecord
  <2> QED
    BY <2>11 DEF new, old
<1> QED
  BY <1>4, <1>6, <1>8 DEF AsRead

LEMMA RestoreTypeReferencesRefers ==
  ASSUME TypeOK, EditsTraced, ReferencesTraced, NEW t \in Threads, RestoreTypeReferences(t)
  PROVE  RefTraced(t)' /\ FileKept(t)'
<1> DEFINE was == disk[t]
           m == mods[t]
           n == mods'[t]
           r == rec[t]
           w == work[t]
<1>1. /\ RefTraced(t) /\ Traced(t) /\ DOMAIN pc = Threads /\ DOMAIN mods = Threads
      /\ IsModule(m) /\ IsModule(was) /\ SameShape(m, was) /\ Keeps(m, was) /\ IsFile(was)
      /\ DOMAIN m.types = DOMAIN was.types
  BY ReferencesContext
<1>2. /\ guid' = guid /\ disk' = disk /\ log' = log /\ rec' = rec
      /\ pc[t] = "untypes" /\ pc'[t] = "unvirtual" /\ w.at > Len(m.types)
      /\ n = WithReferencesRestored(m, r.refs)
  BY <1>1 DEF RestoreTypeReferences, Goto, WithReferencesRestored
<1>3. IsModule(n) /\ SameShape(n, m) /\ SameDefinitions(n, m)
  BY RestoreTypeReferencesEffect
<1>4. Keeps(n, m) /\ BackBy(n, m, r.refs)
  <2> HIDE DEF m, n, r
  <2> QED
    BY <1>1, <1>2, RestoredAs
<1>5. \A i \in DOMAIN was.types : i < w.at /\ i \in Nat
  <2>1. DOMAIN m.types = 1..Len(m.types) /\ Len(m.types) \in Nat /\ w.at \in 1..Len(m.types) + 1
    BY <1>1, SequenceMeans DEF IsModule, TypeOK, WorkOK
  <2> QED
    BY <1>1, <1>2, <2>1
<1>6. ASSUME TracedProjected(t), RefProjected(t) PROVE RefProjected(t)'
  <2>1. Halfway(m, was, "untypes", w, r)
    BY <1>2, <1>6 DEF RefProjected
  <2>2. Restoring(t) /\ SameBlobs(m, was) /\ SameMethods(m, was)
    BY <1>2, <1>6 DEF TracedProjected
  <2>3. \A i \in DOMAIN was.types : Alike(m.types[i], was.types[i])
    BY <1>5, <2>2 DEF Restoring
  <2> HIDE DEF was, m, n, r, w
  <2> DEFINE refs == r.refs
  <2>4. \A i \in DOMAIN was.types : Owed("untypes", w, r, i) = <<>>
    BY <1>5 DEF Owed
  <2>5. /\ TurnsBack(m, was, refs) /\ VirtualAdded(m.refs, was.refs, r.version)
        /\ \A i \in DOMAIN was.types : Duplicated(m.types[i].ifaces, was.types[i].ifaces, <<>>, refs)
    BY Zenon, <2>1, <2>4 DEF Halfway
  <2> HIDE DEF refs
  <2>6. BackBy(n, m, refs)
    BY <1>4 DEF refs
  <2>7. AsRead(n, was)
    BY <1>1, <1>3, <1>4, <2>2, <2>3, <2>5, <2>6, RestoredAsRead
  <2>8. VirtualAdded(n.refs, was.refs, r.version)
    BY Zenon, <1>4, <2>5 DEF BackBy, refs
  <2> QED
    BY <1>2, <2>7, <2>8 DEF RefProjected, was, n, r
<1>7. RefTraced(t)'
  BY <1>1, <1>2, <1>6, RemovingReferences DEF Removing
<1> QED
  BY <1>2, <1>4, <1>7, FileStaysKept

LEMMA RemoveVirtualReferencesRefers ==
  ASSUME TypeOK, EditsTraced, ReferencesTraced, NEW t \in Threads, RemoveVirtualReferences(t)
  PROVE  RefTraced(t)' /\ FileKept(t)'
<1> DEFINE was == disk[t]
           m == mods[t]
           n == mods'[t]
           r == rec[t]
           rs == ReferencesBack(m.refs, r.version)
<1>1. /\ RefTraced(t) /\ Traced(t) /\ DOMAIN pc = Threads /\ DOMAIN mods = Threads /\ DOMAIN log = Threads
      /\ IsModule(m) /\ IsModule(was) /\ IsFile(was) /\ log[t] \in Seq(Outcomes)
  BY ReferencesContext
<1>2. /\ guid' = guid /\ disk' = disk /\ pc[t] = "unvirtual" /\ pc'[t] = "idle"
      /\ log'[t] = Append(log[t], "removed") /\ n = [m EXCEPT !.refs = rs]
  BY <1>1 DEF RemoveVirtualReferences, Returns, ReferencesBack
<1>3. Keeps(n, m) /\ n.refs = rs /\ n.types = m.types /\ n.methods = m.methods /\ n.loose = m.loose
  <2> HIDE DEF rs, m
  <2>1. mods'[t] = [m EXCEPT !.refs = rs]
    BY <1>2
  <2> QED
    BY <1>1, <2>1, ReferencesSet
<1>4. Alternates(t)' => Alternates(t) /\ ~Even(t) /\ Even(t)'
  BY <1>1, <1>2, OutcomeLogged DEF Outcomes
<1>5. Sole(t)' = Sole(t) /\ Collides(disk[t])' = Collides(disk[t])
  BY <1>2 DEF Sole
<1>6. ASSUME RefProjected(t) PROVE RefPlain(t)'
  <2>1. AsRead(m, was) /\ VirtualAdded(m.refs, was.refs, r.version)
    BY <1>2, <1>6 DEF RefProjected
  <2> HIDE DEF was, m, n, r, rs
  <2>2. IsReferences(was.refs) /\ \A k \in DOMAIN was.refs : IsRecord(was.refs[k])
    BY <1>1 DEF IsReferences, IsModule, IsFile
  <2>3. rs = was.refs
    BY <2>1, <2>2, VirtualOut DEF rs
  <2>4. AsRead(n, was)
    BY Zenon, <1>3, <2>1 DEF AsRead
  <2> QED
    BY <1>2, <1>3, <2>3, <2>4 DEF RefPlain, Applying, OverTypes, was, n
<1>7. RefTraced(t)'
  BY <1>1, <1>4, <1>5, <1>6 DEF RefTraced
<1> QED
  BY <1>2, <1>3, <1>7, FileStaysKept

(* Every step keeps the references traced.                                   *)
LEMMA ReferencesNext == TypeOK /\ EditsTraced /\ ReferencesTraced /\ [Next]_vars => ReferencesTraced'
<1> SUFFICES ASSUME TypeOK, EditsTraced, ReferencesTraced, [Next]_vars PROVE ReferencesTraced'
  OBVIOUS
<1>1. CASE UNCHANGED vars
  <2> SUFFICES ASSUME NEW t \in Threads PROVE RefTraced(t)' /\ FileKept(t)'
    BY DEF ReferencesTraced
  <2>1. RefTraced(t) /\ FileKept(t)
    BY DEF ReferencesTraced
  <2>2. /\ mods' = mods /\ guid' = guid /\ store' = store /\ pc' = pc /\ rec' = rec
        /\ work' = work /\ log' = log /\ disk' = disk
    BY <1>1 DEF vars
  <2>3. Sole(t)' = Sole(t) /\ Alternates(t)' = Alternates(t) /\ Even(t)' = Even(t)
    BY <2>2 DEF Sole, Alternates, Even
  <2>4. RefPlain(t) => RefPlain(t)'
    BY <2>2 DEF RefPlain
  <2>5. RefProjected(t) => RefProjected(t)'
    BY <2>2 DEF RefProjected
  <2> QED
    BY <2>1, <2>2, <2>3, <2>4, <2>5 DEF RefTraced, FileKept
<1>2. ASSUME NEW t \in Threads,
             CheckNotApplied(t) \/ TakeRecord(t) \/ Reread(t) \/ Repair(t) \/ Continue(t)
      PROVE  ReferencesTraced'
  <2>1. ASSUME NEW u \in Threads \ {t} PROVE RefTraced(u)' /\ FileKept(u)'
    <3>1. log \in [Threads -> Seq(Outcomes)]
      BY DEF EditsTraced
    <3>2. Frame(t, u) /\ guid' = guid /\ disk' = disk
      BY <1>2, <3>1, Framed
    <3> QED
      BY <3>2, OthersReferences
  <2>2. RefTraced(t)' /\ FileKept(t)'
    <3>1. CASE CheckNotApplied(t)
      BY <3>1, CheckNotAppliedRefers
    <3>2. CASE TakeRecord(t)
      BY <3>2, TakeRecordRefers
    <3>3. CASE Reread(t)
      BY <3>3, RereadRefers
    <3>4. CASE Repair(t)
      BY <3>4, RepairRefers
    <3>5. CASE Continue(t)
      <4>1. CASE \/ AddVirtualReferences(t) \/ ProjectTypeReferences(t)
                 \/ ProjectTypeDefinition(t) \/ CollectInterface(t) \/ RedirectType(t)
                 \/ RewirePair(t) \/ AppendGenerated(t)
        BY <4>1, AddVirtualReferencesRefers, ProjectTypeReferencesRefers,
           ProjectTypeDefinitionRefers, CollectInterfaceRefers, RedirectTypeRefers,
           RewirePairRefers, AppendGeneratedRefers
      <4>2. CASE \/ ProjectFields(t) \/ ProjectMethods(t) \/ ProjectAttributeRecords(t)
                 \/ InsertRecord(t)
        BY <4>2, ProjectFieldsRefers, ProjectMethodsRefers, ProjectAttributeRecordsRefers,
           InsertRecordRefers
      <4>3. CASE \/ RestoreMembers(t) \/ RestoreType(t) \/ UnwirePair(t) \/ TypeRestored(t)
                 \/ RestoreTypeReferences(t) \/ RemoveVirtualReferences(t)
        BY <4>3, RestoreMembersRefers, RestoreTypeRefers, UnwirePairRefers, TypeRestoredRefers,
           RestoreTypeReferencesRefers, RemoveVirtualReferencesRefers
      <4> QED
        BY <3>5, <4>1, <4>2, <4>3 DEF Continue
    <3> QED
      BY <1>2, <3>1, <3>2, <3>3, <3>4, <3>5
  <2> QED
    BY <2>1, <2>2 DEF ReferencesTraced
<1> QED
  BY <1>1, <1>2 DEF Next

LEMMA InitialReferences == Init => ReferencesTraced
<1> SUFFICES ASSUME Init, NEW t \in Threads PROVE FileKept(t) /\ RefTraced(t)
  BY DEF ReferencesTraced
<1>1. log[t] = <<>> /\ pc[t] = "idle" /\ mods = disk
  BY DEF Init
<1>2. IsFile(disk[t])
  BY FilesAssumption DEF Init
<1>3. FileKept(t)
  BY <1>1, <1>2, KeepsReflexive DEF FileKept
<1>4. Even(t)
  BY <1>1 DEF Even
<1>5. RefPlain(t)
  BY <1>1 DEF RefPlain, AsRead, Applying, OverTypes
<1> QED
  BY <1>3, <1>4, <1>5 DEF RefTraced

(* The references are traced in every reachable state.                       *)
LEMMA ReferencesAreTraced == Spec => []ReferencesTraced
<1>1. Init => ReferencesTraced
  BY InitialReferences
<1>2. TypeOK /\ EditsTraced /\ ReferencesTraced /\ [Next]_vars => ReferencesTraced'
  BY ReferencesNext
<1> QED
  BY <1>1, <1>2, TypesSound, EditsAreTraced, PTL DEF Spec

LEMMA TracedReferencesAreRestored == TypeOK /\ EditsTraced /\ ReferencesTraced => RemoveRestores
<1> SUFFICES ASSUME TypeOK, EditsTraced, ReferencesTraced,
                    NEW t \in Threads, IsPlain(t), Sole(t), ~Collides(disk[t])
             PROVE  Listed(mods[t]) = Listed(disk[t])
  BY DEF RemoveRestores
<1> DEFINE m == mods[t]
           was == disk[t]
<1>1. /\ RefTraced(t) /\ Traced(t) /\ Keeps(m, was) /\ IsModule(m) /\ IsModule(was) /\ SameShape(m, was)
  BY ReferencesContext
<1>2. pc[t] = "idle" /\ Alternates(t) /\ Even(t)
  BY DEF IsPlain, Even
<1>3. AsRead(m, was) /\ m.refs = was.refs
  BY <1>1, <1>2 DEF RefTraced, RefPlain
<1>4. SameDefinitions(m, was)
  BY <1>1, <1>2 DEF Traced, TracedPlain
<1> HIDE DEF m, was
<1>5. m.fields = was.fields
  <2>1. DOMAIN m.fields = DOMAIN was.fields /\ \A f \in DOMAIN was.fields : m.fields[f] = was.fields[f]
    BY <1>1, <1>4 DEF SameShape, SameDefinitions, SameFields
  <2>2. IsSequence(m.fields) /\ IsSequence(was.fields)
    BY <1>1 DEF IsModule
  <2> QED
    BY <2>1, <2>2, SameSequence
<1>6. m.kind = was.kind /\ m.types = was.types /\ m.loose = was.loose
  BY <1>1, <1>3 DEF Keeps, AsRead
<1> DEFINE ks == [k \in ListedMethods(m) |-> m.methods[k]]
           vs == [k \in ListedMethods(was) |-> was.methods[k]]
<1>7. ks = vs
  <2>1. ListedMethods(m) = ListedMethods(was)
    BY <1>1, <1>3, SameWalk
  <2>2. \A k \in ListedMethods(was) : m.methods[k] = was.methods[k]
    BY <1>3 DEF AsRead
  <2> QED
    BY <2>1, <2>2
<1>8. Listed(m) = [m EXCEPT !.methods = ks] /\ Listed(was) = [was EXCEPT !.methods = vs]
  BY DEF Listed
<1> HIDE DEF ks, vs
<1>9. [m EXCEPT !.methods = ks] = [was EXCEPT !.methods = ks]
  BY <1>1, <1>3, <1>5, <1>6 DEF IsModule
<1> QED
  BY <1>7, <1>8, <1>9 DEF m, was

(* Whatever calls are made on the modules that share the store, and in       *)
(* whatever order their passes run, a module whose guid is its own and whose *)
(* references stay apart is, after any number of applies each undone in      *)
(* turn, what was read: remove_projections undoes apply_projections.         *)
THEOREM RemovalRestores == Spec => []RemoveRestores
<1>1. TypeOK /\ EditsTraced /\ ReferencesTraced => RemoveRestores
  BY TracedReferencesAreRestored
<1> QED
  BY <1>1, TypesSound, EditsAreTraced, ReferencesAreTraced, PTL

=============================================================================
