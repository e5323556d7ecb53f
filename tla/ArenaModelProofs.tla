--------------------------- MODULE ArenaModelProofs ---------------------------
(***************************************************************************)
(* Proofs about ArenaModel, for arenas of any length.                       *)
(***************************************************************************)
EXTENDS ArenaModel, FiniteSetTheorems, SequenceTheorems, TLAPS

-------------------------------------------------------------------------------
(* ArenaMap: the old-to-new map of one arena is an order-preserving         *)
(* bijection from the kept slots onto an initial segment of the numbers.    *)

Keep(len, removed) == (0..(len - 1)) \ removed
Below(keep, h)     == {j \in keep : j < h}

(* The kept slots are finitely many, and so are those below one of them.     *)
LEMMA KeepFinite ==
  ASSUME NEW len \in Nat, NEW removed
  PROVE  /\ IsFiniteSet(Keep(len, removed))
         /\ Cardinality(Keep(len, removed)) \in Nat
         /\ \A h : /\ IsFiniteSet(Below(Keep(len, removed), h))
                   /\ Cardinality(Below(Keep(len, removed), h)) \in Nat
<1>1. IsFiniteSet(0..(len - 1))
  BY FS_Interval
<1>2. IsFiniteSet(Keep(len, removed))
  BY <1>1, FS_Subset, Keep(len, removed) \in SUBSET (0..(len - 1)) DEF Keep
<1>3. \A h : Below(Keep(len, removed), h) \in SUBSET Keep(len, removed)
  BY DEF Below
<1>4. \A h : IsFiniteSet(Below(Keep(len, removed), h))
  BY <1>2, <1>3, FS_Subset
<1> QED
  BY <1>2, <1>4, FS_CardinalityType

(* Of two kept slots the earlier one gets the smaller new index: compaction  *)
(* keeps the order of an arena.                                              *)
LEMMA BuildMonotone ==
  ASSUME NEW len \in Nat, NEW removed,
         NEW a \in Keep(len, removed), NEW b \in Keep(len, removed), a < b
  PROVE  Build(len, removed)[a] < Build(len, removed)[b]
<1> DEFINE K == Keep(len, removed)
<1>1. Build(len, removed)[a] = Cardinality(Below(K, a)) /\ Build(len, removed)[b] = Cardinality(Below(K, b))
  BY DEF Build, Keep, Below
<1>2. Below(K, a) \in SUBSET Below(K, b) /\ a \in Below(K, b) /\ a \notin Below(K, a)
  BY DEF Below, Keep
<1>3. Cardinality(Below(K, a)) <= Cardinality(Below(K, b))
      /\ (Cardinality(Below(K, a)) = Cardinality(Below(K, b)) => Below(K, a) = Below(K, b))
  BY <1>2, KeepFinite, FS_Subset
<1>4. Cardinality(Below(K, a)) \in Nat /\ Cardinality(Below(K, b)) \in Nat
  BY KeepFinite
<1> QED
  BY <1>1, <1>2, <1>3, <1>4

(* A kept slot goes to an index below the number of kept slots; a removed    *)
(* one goes nowhere.                                                         *)
LEMMA BuildRange ==
  ASSUME NEW len \in Nat, NEW removed
  PROVE  /\ DOMAIN Build(len, removed) = 0..(len - 1)
         /\ \A h \in Keep(len, removed) :
              Build(len, removed)[h] \in 0..(Cardinality(Keep(len, removed)) - 1)
         /\ \A h \in (0..(len - 1)) \cap removed : Build(len, removed)[h] = None
<1> DEFINE K == Keep(len, removed)
<1>1. DOMAIN Build(len, removed) = 0..(len - 1)
  BY DEF Build
<1>2. ASSUME NEW h \in K
      PROVE  Build(len, removed)[h] \in 0..(Cardinality(K) - 1)
  <2>1. Build(len, removed)[h] = Cardinality(Below(K, h))
    BY DEF Build, Keep, Below
  <2>2. Below(K, h) \in SUBSET K /\ h \in K /\ h \notin Below(K, h)
    BY DEF Below, Keep
  <2>3. Cardinality(Below(K, h)) <= Cardinality(K)
        /\ (Cardinality(Below(K, h)) = Cardinality(K) => Below(K, h) = K)
    BY <2>2, KeepFinite, FS_Subset
  <2>4. Cardinality(Below(K, h)) \in Nat /\ Cardinality(K) \in Nat
    BY KeepFinite
  <2> QED
    BY <2>1, <2>2, <2>3, <2>4
<1>3. \A h \in (0..(len - 1)) \cap removed : Build(len, removed)[h] = None
  BY DEF Build
<1> QED
  BY <1>1, <1>2, <1>3

(* Every new index is the image of a kept slot: compaction leaves no hole.   *)
LEMMA BuildOnto ==
  ASSUME NEW len \in Nat, NEW removed,
         NEW new \in 0..(Cardinality(Keep(len, removed)) - 1)
  PROVE  \E h \in Keep(len, removed) : Build(len, removed)[h] = new
<1> DEFINE K == Keep(len, removed)
           n == Cardinality(K)
           T == (0..(n - 1)) \ {new}
           f == [h \in K |-> Build(len, removed)[h]]
<1>1. n \in Nat /\ IsFiniteSet(K)
  BY KeepFinite
<1>2. IsFiniteSet(0..(n - 1)) /\ Cardinality(0..(n - 1)) = n
  <2>1. IsFiniteSet(0..(n - 1)) /\ Cardinality(0..(n - 1)) = IF 0 > n - 1 THEN 0 ELSE n - 1 - 0 + 1
    BY <1>1, FS_Interval, 0 \in Int, n - 1 \in Int
  <2> QED
    BY <1>1, <2>1
<1>3. IsFiniteSet(T) /\ Cardinality(T) = n - 1
  BY ZenonT(60), <1>1, <1>2, FS_RemoveElement
<1>4. SUFFICES ASSUME \A h \in K : Build(len, removed)[h] # new
               PROVE  FALSE
  OBVIOUS
<1>5. f \in [K -> T]
  BY <1>4, BuildRange
<1>6. PICK x \in K, y \in K : x # y /\ f[x] = f[y]
  <2>1. Cardinality(T) < Cardinality(K)
    BY <1>1, <1>3
  <2> HIDE DEF K, T, f
  <2> QED
    BY <1>1, <1>3, <1>5, <2>1, FS_PigeonHole
<1>7. x < y \/ y < x
  BY <1>6 DEF Keep
<1>8. Build(len, removed)[x] \in Int /\ Build(len, removed)[y] \in Int
  BY BuildRange, <1>1
<1> QED
  BY <1>6, <1>7, <1>8, BuildMonotone

-------------------------------------------------------------------------------
(* What compaction needs to know of a map: it sends the slots it keeps onto  *)
(* 0..new-1, one to one.                                                     *)

Kept(map) == {h \in DOMAIN map : map[h] # None}

IsArenaMap(map, len, new) ==
  /\ new \in Nat /\ new = Cardinality(Kept(map))
  /\ DOMAIN map = 0..(len - 1)
  /\ \A h \in Kept(map) : map[h] \in 0..(new - 1)
  /\ \A n \in 0..(new - 1) : \E h \in Kept(map) : map[h] = n
  /\ \A a, b \in Kept(map) : map[a] = map[b] => a = b

(* ArenaMap::build returns such a map, which forgets exactly what it is told *)
(* to remove.                                                                *)
LEMMA BuildIsArenaMap ==
  ASSUME NEW len \in Nat, NEW removed
  PROVE  /\ IsArenaMap(Build(len, removed), len, Cardinality(Keep(len, removed)))
         /\ \A h \in 0..(len - 1) : Build(len, removed)[h] = None <=> h \in removed
<1> DEFINE K == Keep(len, removed)
           map == Build(len, removed)
           n == Cardinality(K)
<1>1. n \in Nat
  BY KeepFinite
<1>2. /\ DOMAIN map = 0..(len - 1)
      /\ \A h \in K : map[h] \in 0..(n - 1)
      /\ \A h \in (0..(len - 1)) \cap removed : map[h] = None
  BY BuildRange
<1>3. \A h \in 0..(len - 1) : map[h] = None <=> h \in removed
  BY <1>1, <1>2, NoneAssumption DEF Keep
<1>4. Kept(map) = K
  BY <1>2, <1>3 DEF Keep, Kept
<1>5. \A i \in 0..(n - 1) : \E h \in K : map[h] = i
  BY BuildOnto
<1>6. \A a, b \in K : map[a] = map[b] => a = b
  <2> SUFFICES ASSUME NEW a \in K, NEW b \in K, map[a] = map[b], a # b
               PROVE  FALSE
    OBVIOUS
  <2>1. map[a] \in Int /\ map[b] \in Int
    BY <1>1, <1>2
  <2>2. a < b \/ b < a
    BY DEF Keep
  <2>3. map[a] < map[b] \/ map[b] < map[a]
    BY <2>2, BuildMonotone
  <2> QED
    BY <2>1, <2>3
<1> HIDE DEF K, map, n
<1>7. IsArenaMap(map, len, n)
  BY <1>1, <1>2, <1>4, <1>5, <1>6 DEF IsArenaMap, n
<1> QED
  BY <1>3, <1>7 DEF map, n, K

-------------------------------------------------------------------------------
(* The roles.                                                               *)

(* Every role indexes one of the six arenas.                                 *)
LEMMA TargetKindType ==
  ASSUME NEW role \in Roles
  PROVE  TargetKind(role) \in Kinds
BY DEF TargetKind, Roles, Kinds, TypeRoles, MethodRoles, FieldRoles

(* The roles of the ownership lists and back pointers, one by one.           *)
LEMMA OwnershipTargets ==
  /\ TargetKind("method_declaring_type") = "type" /\ TargetKind("methods") = "method"
  /\ TargetKind("declaring_type") = "type" /\ TargetKind("nested_types") = "type"
  /\ TargetKind("owner_type") = "type" /\ TargetKind("owner_method") = "method"
  /\ TargetKind("overrides") = "method"
BY DEF TargetKind, TypeRoles, MethodRoles, FieldRoles

(* The maps of one compaction: every kept handle goes to a number.           *)
MapsOK(maps) ==
  \A k \in Kinds : \A h \in DOMAIN maps[k] : maps[k][h] \in Nat \cup {None}

(* Looking a handle up gives a number or None.                               *)
LEMMA GetType ==
  ASSUME NEW maps, MapsOK(maps), NEW k \in Kinds, NEW h
  PROVE  Get(maps[k], h) \in Nat \cup {None}
BY DEF Get, MapsOK

(* A slot all of whose targets survive is a slot again.                      *)
LEMMA MovedType ==
  ASSUME NEW maps, MapsOK(maps), NEW r \in Ref(Nat), Alive(maps, r)
  PROVE  Moved(maps, r) \in Ref(Nat)
<1> DEFINE k == TargetKind(r.role)
           to == [i \in DOMAIN r.to |-> Get(maps[k], r.to[i])]
<1>1. r.role \in Roles /\ r.to \in Seq(Nat) /\ k \in Kinds
  BY TargetKindType DEF Ref
<1>2. \A i \in DOMAIN r.to : Get(maps[k], r.to[i]) \in Nat
  BY <1>1, GetType DEF Alive
<1>3. PICK n \in Nat : DOMAIN r.to = 1..n
  BY <1>1, SeqDef
<1>4. to \in [1..n -> Nat]
  BY <1>2, <1>3
<1>5. to \in Seq(Nat)
  BY <1>4, SeqDef
<1>6. Moved(maps, r) = [role |-> r.role, to |-> to]
  BY DEF Moved
<1> QED
  BY <1>1, <1>5, <1>6 DEF Ref

(* Remapping a definition's slots gives slots.                               *)
LEMMA RemapRefsType ==
  ASSUME NEW maps, MapsOK(maps), NEW refs \in SUBSET Ref(Nat)
  PROVE  RemapRefs(maps, refs) \in SUBSET Ref(Nat)
<1> SUFFICES ASSUME NEW x \in RemapRefs(maps, refs)
             PROVE  x \in Ref(Nat)
  OBVIOUS
<1>1. CASE x \in refs
  BY <1>1
<1>2. CASE \E r \in refs : Alive(maps, r) /\ x = Moved(maps, r)
  BY <1>2, MovedType
<1>3. CASE \E r \in refs : x = [role |-> r.role, to |-> <<>>]
  BY <1>3 DEF Ref
<1> QED
  BY <1>1, <1>2, <1>3 DEF RemapRefs

(* A compacted arena is an arena: one definition per kept slot, at its new   *)
(* index, under its own identity and with its slots remapped.                *)
LEMMA CompactArenaProps ==
  ASSUME NEW defs \in Seq(Def), NEW map, NEW new,
         IsArenaMap(map, Len(defs), new),
         NEW maps, MapsOK(maps)
  PROVE  /\ CompactArena(defs, map, maps) \in Seq(Def)
         /\ Len(CompactArena(defs, map, maps)) = new
         /\ \A h \in Kept(map) :
              /\ CompactArena(defs, map, maps)[map[h] + 1].id = defs[h + 1].id
              /\ CompactArena(defs, map, maps)[map[h] + 1].refs = RemapRefs(maps, defs[h + 1].refs)
<1> DEFINE OldAt(n) == CHOOSE h \in Kept(map) : map[h] = n
           C == [i \in 1..new |->
                   [id   |-> defs[OldAt(i - 1) + 1].id,
                    refs |-> RemapRefs(maps, defs[OldAt(i - 1) + 1].refs)]]
<1>1. CompactArena(defs, map, maps) = C
  BY DEF CompactArena, Kept, IsArenaMap
<1>2. new \in Nat /\ DOMAIN map = 0..(Len(defs) - 1)
  BY DEF IsArenaMap
<1>3. ASSUME NEW h \in Kept(map)
      PROVE  /\ map[h] \in 0..(new - 1) /\ OldAt(map[h]) = h
             /\ h + 1 \in 1..Len(defs)
  <2>1. map[h] \in 0..(new - 1)
    BY DEF IsArenaMap
  <2>2. OldAt(map[h]) \in Kept(map) /\ map[OldAt(map[h])] = map[h]
    OBVIOUS
  <2>3. OldAt(map[h]) = h
    BY <2>2 DEF IsArenaMap
  <2>4. h + 1 \in 1..Len(defs)
    BY <1>2 DEF Kept
  <2> QED
    BY <2>1, <2>3, <2>4
<1>4. ASSUME NEW i \in 1..new
      PROVE  OldAt(i - 1) \in Kept(map) /\ OldAt(i - 1) + 1 \in 1..Len(defs)
  <2>1. i - 1 \in 0..(new - 1)
    BY <1>2
  <2>2. PICK h \in Kept(map) : map[h] = i - 1
    BY <2>1 DEF IsArenaMap
  <2> QED
    BY <1>3, <2>2
<1>5. ASSUME NEW j \in 1..Len(defs)
      PROVE  defs[j] \in Def /\ defs[j].id \in Names /\ RemapRefs(maps, defs[j].refs) \in SUBSET Ref(Nat)
  <2>1. defs[j] \in Def
    BY ElementOfSeq
  <2> QED
    BY <2>1, RemapRefsType DEF Def
<1> HIDE DEF OldAt
<1>6. C \in [1..new -> Def]
  BY <1>4, <1>5 DEF Def
<1>7. C \in Seq(Def) /\ Len(C) = new
  BY <1>2, <1>6, SeqDef
<1>8. ASSUME NEW h \in Kept(map)
      PROVE  /\ C[map[h] + 1].id = defs[h + 1].id
             /\ C[map[h] + 1].refs = RemapRefs(maps, defs[h + 1].refs)
  <2>1. map[h] + 1 \in 1..new /\ (map[h] + 1) - 1 = map[h]
    BY <1>2, <1>3
  <2> QED
    BY <1>3, <2>1
<1> QED
  BY <1>1, <1>7, <1>8

-------------------------------------------------------------------------------
(* The inductive invariant.  HandlesInRange is not inductive: compact()      *)
(* leaves a back pointer alone when its target is removed, and that is safe  *)
(* only because the definition that holds it is removed as well.  For        *)
(* generic parameters compact() sees to it; for methods it takes that every  *)
(* method is in the list of the type it points back to, since remove_type    *)
(* removes the methods the lists name.                                       *)

MethodsListed ==
  \A k \in Kinds : \A h \in Handles(k) : \A r \in At(k, h).refs :
    /\ r.role = "method_declaring_type" =>
         /\ k = "method" /\ Len(r.to) = 1
         /\ OneTo("methods", h) \in At("type", r.to[1]).refs
    /\ r.role \in {"owner_type", "owner_method"} =>
         k = "generic_param" /\ Len(r.to) = 1

RefsInRange ==
  \A k \in Kinds : \A h \in Handles(k) :
    \A r \in At(k, h).refs : r.role \notin Untouched => InRange(r)

IInv == TypeOK /\ HandlesInRange /\ MethodsListed /\ DebugFollowsMethod

(* The empty module satisfies it.                                            *)
LEMMA InitIInv == Init => IInv
<1> SUFFICES ASSUME Init PROVE IInv
  OBVIOUS
<1>1. ASSUME NEW k \in Kinds PROVE arena[k] = <<>> /\ Handles(k) = {}
  <2>1. arena[k] = <<>> /\ Len(arena[k]) = 0
    BY DEF Init
  <2> QED
    BY <2>1 DEF Handles
<1>2. TypeOK
  BY NoneAssumption DEF Init, TypeOK
<1>3. HandlesInRange /\ MethodsListed
  BY <1>1 DEF Init, HandlesInRange, MethodsListed
<1>4. DebugFollowsMethod
  BY DEF Init, DebugFollowsMethod
<1> QED
  BY <1>2, <1>3, <1>4 DEF IInv

(* A handle below the length of its arena denotes a definition.              *)
LEMMA AtType ==
  ASSUME TypeOK, NEW k \in Kinds
  PROVE  /\ arena[k] \in Seq(Def) /\ Len(arena[k]) \in Nat
         /\ \A h \in Handles(k) : /\ h \in Nat /\ h + 1 \in 1..Len(arena[k])
                                  /\ At(k, h) \in Def /\ At(k, h) = arena[k][h + 1]
<1>1. arena[k] \in Seq(Def)
  BY DEF TypeOK
<1>2. Len(arena[k]) \in Nat
  BY <1>1, LenProperties
<1>3. ASSUME NEW h \in Handles(k)
      PROVE  h \in Nat /\ h + 1 \in 1..Len(arena[k]) /\ At(k, h) \in Def /\ At(k, h) = arena[k][h + 1]
  <2>1. h \in Nat /\ h + 1 \in 1..Len(arena[k])
    BY <1>2 DEF Handles
  <2> QED
    BY <1>1, <2>1, ElementOfSeq DEF At
<1> QED
  BY <1>1, <1>2, <1>3

-------------------------------------------------------------------------------
(* Steps that only add: arenas grow at the end, a definition keeps its       *)
(* identity and its slots.                                                   *)

Grows(old, new) ==
  /\ new \in [Kinds -> Seq(Def)]
  /\ \A k \in Kinds :
       /\ Len(new[k]) \in Nat /\ Len(old[k]) <= Len(new[k])
       /\ \A i \in 1..Len(old[k]) : new[k][i].id = old[k][i].id
                                     /\ old[k][i].refs \subseteq new[k][i].refs

(* Growing is transitive.                                                    *)
LEMMA GrowsTrans ==
  ASSUME NEW old, NEW mid, NEW new, \A k \in Kinds : Len(old[k]) \in Nat,
         Grows(old, mid), Grows(mid, new)
  PROVE  Grows(old, new)
<1>1. ASSUME NEW k \in Kinds
      PROVE  Len(new[k]) \in Nat /\ Len(old[k]) <= Len(mid[k]) /\ Len(mid[k]) <= Len(new[k])
  BY <1>1 DEF Grows
<1>2. ASSUME NEW k \in Kinds, NEW i \in 1..Len(old[k])
      PROVE  new[k][i].id = old[k][i].id /\ old[k][i].refs \subseteq new[k][i].refs
  <2>1. Len(mid[k]) \in Nat
    BY DEF Grows
  <2>2. i \in 1..Len(mid[k])
    BY <1>1, <2>1
  <2>3. mid[k][i].id = old[k][i].id /\ old[k][i].refs \subseteq mid[k][i].refs
    BY DEF Grows
  <2>4. new[k][i].id = mid[k][i].id /\ mid[k][i].refs \subseteq new[k][i].refs
    BY <2>2 DEF Grows
  <2> QED
    BY <2>3, <2>4
<1>3. \A k \in Kinds : Len(mid[k]) \in Nat /\ Len(new[k]) \in Nat
  BY DEF Grows
<1>4. ASSUME NEW k \in Kinds
      PROVE  Len(old[k]) <= Len(new[k])
  <2> DEFINE p == Len(old[k])
             q == Len(mid[k])
             s == Len(new[k])
  <2>1. p \in Nat /\ q \in Nat /\ s \in Nat
    BY <1>3
  <2>2. p <= q /\ q <= s
    BY <1>1
  <2> HIDE DEF p, q, s
  <2>3. p <= s
    BY <2>1, <2>2
  <2> QED
    BY <2>3 DEF p, s
<1>5. new \in [Kinds -> Seq(Def)]
  BY DEF Grows
<1> QED
  BY <1>1, <1>2, <1>4, <1>5 DEF Grows

(* Appending a definition to one arena.                                      *)
LEMMA AppendedGrows ==
  ASSUME TypeOK, NEW k \in Kinds, CanAdd(k), NEW refs \in SUBSET Ref(Nat)
  PROVE  /\ Grows(arena, Appended(k, refs))
         /\ Len(Appended(k, refs)[k]) = Len(arena[k]) + 1
         /\ Appended(k, refs)[k][Len(arena[k]) + 1].refs = refs
         /\ \A i \in 1..Len(arena[k]) : Appended(k, refs)[k][i] = arena[k][i]
         /\ \A j \in Kinds \ {k} : Appended(k, refs)[j] = arena[j]
<1> DEFINE d == [id |-> Fresh(k), refs |-> refs]
           b == Append(arena[k], d)
<1>1. arena \in [Kinds -> Seq(Def)] /\ \A j \in Kinds : Len(arena[j]) \in Nat
  BY AtType DEF TypeOK
<1>2. d \in Def
  BY DEF CanAdd, Fresh, Def
<1> HIDE DEF d
<1>3. /\ b \in Seq(Def) /\ Len(b) = Len(arena[k]) + 1
      /\ b[Len(arena[k]) + 1] = d
      /\ \A i \in 1..Len(arena[k]) : b[i] = arena[k][i]
  BY <1>1, <1>2
<1>4. Appended(k, refs) = [arena EXCEPT ![k] = b]
  BY DEF Appended, d
<1> HIDE DEF b
<1>5. Appended(k, refs)[k] = b /\ (\A j \in Kinds \ {k} : Appended(k, refs)[j] = arena[j])
      /\ Appended(k, refs) \in [Kinds -> Seq(Def)]
  BY <1>1, <1>3, <1>4
<1>6. Grows(arena, Appended(k, refs))
  BY SMTT(30), <1>1, <1>3, <1>5 DEF Grows
<1> QED
  BY <1>3, <1>5, <1>6 DEF d

(* Adding a slot to one definition.                                          *)
AddSlot(a, k, i, x) == [a EXCEPT ![k][i].refs = @ \cup {x}]

(* It disturbs nothing else.                                                 *)
LEMMA RegisterGrows ==
  ASSUME NEW a \in [Kinds -> Seq(Def)], NEW k \in Kinds, NEW i \in 1..Len(a[k]),
         NEW x \in Ref(Nat), NEW b, b = AddSlot(a, k, i, x)
  PROVE  /\ Grows(a, b)
         /\ \A j \in Kinds : Len(b[j]) = Len(a[j])
         /\ b[k][i].refs = a[k][i].refs \cup {x}
         /\ \A j \in Kinds : \A n \in 1..Len(a[j]) : j # k \/ n # i => b[j][n] = a[j][n]
<1> DEFINE d == [a[k][i] EXCEPT !.refs = @ \cup {x}]
           s == [a[k] EXCEPT ![i] = d]
<1>1. \A j \in Kinds : a[j] \in Seq(Def) /\ Len(a[j]) \in Nat
  BY LenProperties
<1>2. a[k][i] \in Def
  BY <1>1, ElementOfSeq
<1>3. d \in Def /\ d.id = a[k][i].id /\ d.refs = a[k][i].refs \cup {x}
  BY <1>2 DEF Def
<1> HIDE DEF d
<1>4. /\ s \in Seq(Def) /\ Len(s) = Len(a[k])
      /\ \A n \in 1..Len(a[k]) : s[n] = IF n = i THEN d ELSE a[k][n]
  BY <1>1, <1>3, ExceptSeq
<1> HIDE DEF s
<1>5. b = [a EXCEPT ![k] = s]
  BY DEF AddSlot, s, d
<1>6. b \in [Kinds -> Seq(Def)] /\ b[k] = s /\ \A j \in Kinds \ {k} : b[j] = a[j]
  BY <1>4, <1>5
<1>7. \A j \in Kinds : Len(b[j]) = Len(a[j]) /\ Len(b[j]) \in Nat
  BY <1>1, <1>4, <1>6
<1>8. b[k][i].id = a[k][i].id /\ b[k][i].refs = a[k][i].refs \cup {x}
  BY <1>3, <1>4, <1>6
<1>9. ASSUME NEW j \in Kinds, NEW n \in 1..Len(a[j]), j # k \/ n # i
      PROVE  b[j][n] = a[j][n]
  BY <1>4, <1>6, <1>9
<1>10. Grows(a, b)
  BY <1>6, <1>7, <1>8, <1>9 DEF Grows
<1> QED
  BY <1>7, <1>8, <1>9, <1>10

(* The part of the invariant that looks at the arenas only survives growth,  *)
(* provided the slots gained are in range and no back pointer is among them  *)
(* that its owner does not list.                                             *)
SlotsOK(a, k, h, r) ==
  /\ r.role \notin Untouched =>
       \A i \in DOMAIN r.to : r.to[i] \in 0..(Len(a[TargetKind(r.role)]) - 1)
  /\ r.role = "method_declaring_type" =>
       /\ k = "method" /\ Len(r.to) = 1
       /\ OneTo("methods", h) \in a["type"][r.to[1] + 1].refs
  /\ r.role \in {"owner_type", "owner_method"} => k = "generic_param" /\ Len(r.to) = 1

ArenaOK(a) ==
  \A k \in Kinds : \A h \in 0..(Len(a[k]) - 1) : \A r \in a[k][h + 1].refs : SlotsOK(a, k, h, r)

(* ArenaOK is RefsInRange and MethodsListed, of a given value of the arenas.  *)
LEMMA ArenaOKMeans == RefsInRange /\ MethodsListed <=> ArenaOK(arena)
BY DEF ArenaOK, SlotsOK, RefsInRange, MethodsListed, InRange, Handles, At

(* The same of the next state.                                               *)
LEMMA ArenaOKMeansNext == (RefsInRange /\ MethodsListed)' <=> ArenaOK(arena')
BY DEF ArenaOK, SlotsOK, RefsInRange, MethodsListed, InRange, Handles, At

(* A definition's old slots stay good when arenas grow.                      *)
LEMMA OldSlotsStayOK ==
  ASSUME NEW a \in [Kinds -> Seq(Def)], NEW b, Grows(a, b), ArenaOK(a),
         NEW k \in Kinds, NEW h \in 0..(Len(a[k]) - 1), NEW r \in a[k][h + 1].refs
  PROVE  SlotsOK(b, k, h, r)
<1>1. \A j \in Kinds : Len(a[j]) \in Nat /\ Len(b[j]) \in Nat /\ Len(a[j]) <= Len(b[j])
  BY LenProperties DEF Grows
<1>2. SlotsOK(a, k, h, r)
  BY DEF ArenaOK
<1>3. r \in Ref(Nat)
  <2>1. h + 1 \in 1..Len(a[k])
    BY <1>1
  <2>2. a[k][h + 1] \in Def
    BY <2>1, ElementOfSeq
  <2> QED
    BY <2>2 DEF Def
<1>4. TargetKind(r.role) \in Kinds /\ "type" \in Kinds
  BY <1>3, TargetKindType DEF Ref, Kinds
<1>5. r.role \notin Untouched =>
        \A i \in DOMAIN r.to : r.to[i] \in 0..(Len(b[TargetKind(r.role)]) - 1)
  BY <1>1, <1>2, <1>4 DEF SlotsOK
<1>6. ASSUME r.role = "method_declaring_type"
      PROVE  OneTo("methods", h) \in b["type"][r.to[1] + 1].refs
  <2>1. Len(r.to) = 1 /\ OneTo("methods", h) \in a["type"][r.to[1] + 1].refs
    BY <1>2, <1>6 DEF SlotsOK
  <2>2. 1 \in DOMAIN r.to
    BY <1>3, <2>1 DEF Ref
  <2>3. r.to[1] \in 0..(Len(a["type"]) - 1)
    BY <1>2, <1>6, <2>2, OwnershipTargets DEF SlotsOK, Untouched
  <2>4. r.to[1] + 1 \in 1..Len(a["type"])
    BY SMTT(30), <1>1, <1>4, <2>3
  <2> QED
    BY <1>4, <2>1, <2>4 DEF Grows
<1> QED
  BY <1>2, <1>5, <1>6 DEF SlotsOK

(* The back pointers a new definition of kind k, owned by <<ok, owner>>, is   *)
(* appended with.                                                            *)
GoodBack(k, ok, owner, refs) ==
  \/ refs = {}
  \/ k = "type" /\ ok = "type" /\ refs = {OneTo("declaring_type", owner)}
  \/ k = "method" /\ ok = "type" /\ refs = {OneTo("method_declaring_type", owner)}
  \/ k = "generic_param" /\ ok = "type" /\ refs = {OneTo("owner_type", owner)}
  \/ k = "generic_param" /\ ok = "method" /\ refs = {OneTo("owner_method", owner)}

(* The list that registers a definition holds handles of its kind, and is no  *)
(* back pointer.                                                             *)
LEMMA ListRoleProps ==
  ASSUME NEW k \in Kinds
  PROVE  /\ ListRole(k) \in Roles /\ TargetKind(ListRole(k)) = k
         /\ ListRole(k) \notin {"method_declaring_type", "owner_type", "owner_method"}
         /\ (k = "method" => ListRole(k) = "methods")
<1>1. CASE k = "type"
  <2>1. ListRole(k) = "nested_types"
    BY <1>1 DEF ListRole
  <2> QED
    BY <1>1, <2>1, OwnershipTargets DEF Roles, TypeRoles
<1>2. CASE k = "method"
  <2>1. ListRole(k) = "methods"
    BY <1>2 DEF ListRole
  <2> QED
    BY <1>2, <2>1, OwnershipTargets DEF Roles, MethodRoles
<1>3. CASE k = "field"
  <2>1. ListRole(k) = "fields"
    BY <1>3 DEF ListRole
  <2> QED
    BY <1>3, <2>1 DEF TargetKind, Roles, TypeRoles, MethodRoles, FieldRoles
<1>4. CASE k = "property"
  <2>1. ListRole(k) = "properties"
    BY <1>4 DEF ListRole
  <2> QED
    BY <1>4, <2>1 DEF TargetKind, Roles, TypeRoles, MethodRoles, FieldRoles
<1>5. CASE k = "event"
  <2>1. ListRole(k) = "events"
    BY <1>5 DEF ListRole
  <2> QED
    BY <1>5, <2>1 DEF TargetKind, Roles, TypeRoles, MethodRoles, FieldRoles
<1>6. CASE k = "generic_param"
  <2>1. ListRole(k) = "generic_parameters"
    BY <1>6 DEF ListRole
  <2> QED
    BY <1>6, <2>1 DEF TargetKind, Roles, TypeRoles, MethodRoles, FieldRoles
<1> QED
  BY <1>1, <1>2, <1>3, <1>4, <1>5, <1>6 DEF Kinds

(* Appending a definition and registering it on its owner keeps the arenas    *)
(* sound.                                                                    *)
LEMMA AddStep ==
  ASSUME TypeOK, ArenaOK(arena),
         NEW k \in Kinds, NEW ok \in Kinds, CanAdd(k),
         NEW owner \in Handles(ok), NEW refs, GoodBack(k, ok, owner, refs),
         NEW b, b = Register(Appended(k, refs), ok, owner, ListRole(k), Len(arena[k]))
  PROVE  Grows(arena, b) /\ ArenaOK(b)
<1> DEFINE a == Appended(k, refs)
           len == Len(arena[k])
           x == OneTo(ListRole(k), len)
<1>1. /\ \A j \in Kinds : Len(arena[j]) \in Nat /\ arena[j] \in Seq(Def)
      /\ owner \in Nat /\ owner + 1 \in 1..Len(arena[ok])
      /\ arena \in [Kinds -> Seq(Def)]
  BY AtType DEF TypeOK
<1>2. refs \in SUBSET Ref(Nat)
  <2>1. \A role \in Roles : OneTo(role, owner) \in Ref(Nat)
    BY <1>1 DEF OneTo, Ref
  <2>2. {"declaring_type", "method_declaring_type", "owner_type", "owner_method"} \subseteq Roles
    BY DEF Roles, TypeRoles, MethodRoles
  <2> QED
    BY <2>1, <2>2 DEF GoodBack
<1>3. /\ Grows(arena, a)
      /\ Len(a[k]) = len + 1 /\ a[k][len + 1].refs = refs
      /\ \A i \in 1..len : a[k][i] = arena[k][i]
      /\ \A j \in Kinds \ {k} : a[j] = arena[j]
  BY <1>2, AppendedGrows
<1>4. /\ a \in [Kinds -> Seq(Def)]
      /\ \A j \in Kinds : Len(a[j]) \in Nat /\ Len(arena[j]) <= Len(a[j])
  BY <1>3 DEF Grows
<1>5. x \in Ref(Nat)
  BY <1>1, ListRoleProps DEF OneTo, Ref
<1>6. owner + 1 \in 1..Len(a[ok])
  BY <1>1, <1>4
<1>7. b = AddSlot(a, ok, owner + 1, x)
  BY DEF Register, AddSlot
<1> HIDE DEF a, x
<1>8. /\ Grows(a, b)
      /\ \A j \in Kinds : Len(b[j]) = Len(a[j])
      /\ b[ok][owner + 1].refs = a[ok][owner + 1].refs \cup {x}
      /\ \A j \in Kinds : \A n \in 1..Len(a[j]) : j # ok \/ n # owner + 1 => b[j][n] = a[j][n]
  BY <1>4, <1>5, <1>6, <1>7, RegisterGrows
<1>9. Grows(arena, b)
  BY <1>1, <1>3, <1>8, GrowsTrans
<1>10. ASSUME NEW j \in Kinds, NEW h \in 0..(Len(b[j]) - 1), NEW r \in b[j][h + 1].refs
       PROVE  SlotsOK(b, j, h, r)
  <2>1. h + 1 \in 1..Len(a[j]) /\ h \in Nat
    BY <1>4, <1>8
  <2>2. CASE h < Len(arena[j]) /\ r \in arena[j][h + 1].refs
    <3>1. h \in 0..(Len(arena[j]) - 1)
      BY <1>1, <2>1, <2>2
    <3> QED
      BY <1>1, <1>9, <2>2, <3>1, OldSlotsStayOK
  <2>3. CASE r = x
    <3>1. r.role = ListRole(k) /\ r.to = <<len>>
      BY <2>3 DEF x, OneTo
    <3>2. len \in 0..(Len(b[k]) - 1)
      BY <1>1, <1>3, <1>8
    <3> QED
      BY <3>1, <3>2, ListRoleProps DEF SlotsOK
  <2>4. CASE j = k /\ h = len /\ r \in refs
    <3>1. owner \in 0..(Len(b[ok]) - 1)
      BY <1>1, <1>4, <1>8
    <3>2. ASSUME k = "method", ok = "type"
          PROVE  OneTo("methods", h) \in b["type"][owner + 1].refs
      BY <1>8, <2>4, <3>2, ListRoleProps DEF x
    <3> QED
      BY <2>4, <3>1, <3>2, OwnershipTargets DEF SlotsOK, GoodBack, OneTo
  <2> QED
    <3>1. r \in a[j][h + 1].refs \/ r = x
      BY <1>8, <2>1
    <3>2. CASE j # k
      BY <1>3, <1>4, <2>1, <2>2, <2>3, <3>1, <3>2
    <3>3. CASE j = k
      <4>1. CASE h = len
        BY <1>3, <2>3, <2>4, <3>1, <3>3, <4>1
      <4>2. CASE h # len
        <5>1. h < len /\ h + 1 \in 1..len
          BY <1>1, <1>3, <2>1, <3>3, <4>2
        <5> QED
          BY <1>3, <2>2, <2>3, <3>1, <3>3, <5>1
      <4> QED
        BY <4>1, <4>2
    <3> QED
      BY <3>2, <3>3
<1> QED
  BY <1>9, <1>10 DEF ArenaOK

(* Steps that only add keep the whole invariant.                             *)
LEMMA GrowthKeepsIInv ==
  ASSUME IInv, Grows(arena, arena'), ArenaOK(arena'), UNCHANGED SideState
  PROVE  IInv'
<1>1. TypeOK /\ UNCHANGED <<debug, native_rvas, entry_point, asm_cas>>
  BY DEF IInv, SideState
<1>2. TypeOK'
  BY <1>1 DEF TypeOK, Grows
<1>3. \A h \in Handles("method") : h \in Handles("method")' /\ At("method", h)'.id = At("method", h).id
  BY <1>1, AtType DEF Grows, Handles, At, Kinds
<1>4. HandlesInRange' /\ MethodsListed'
  <2>1. (entry_point # None => entry_point \in Handles("method"))'
    BY <1>1, <1>3 DEF IInv, HandlesInRange
  <2> QED
    BY <2>1, ArenaOKMeansNext DEF HandlesInRange, RefsInRange
<1>5. DebugFollowsMethod'
  BY <1>1, <1>3 DEF IInv, DebugFollowsMethod
<1> QED
  BY <1>2, <1>4, <1>5 DEF IInv

-------------------------------------------------------------------------------
(* Removal.                                                                 *)

(* What compact() expects of its caller: detaching only drops list entries,   *)
(* never that of a surviving method, and the methods a removed type lists    *)
(* are removed with it.                                                      *)
GoodRemoval(detached, removed) ==
  /\ detached \in [Kinds -> Seq(Def)]
  /\ \A k \in Kinds : Len(detached[k]) = Len(arena[k])
  /\ \A k \in Kinds : \A h \in Handles(k) :
       /\ detached[k][h + 1].id = At(k, h).id
       /\ detached[k][h + 1].refs \subseteq At(k, h).refs
  /\ \A t \in Handles("type") : \A h : OneTo("methods", h) \in At("type", t).refs =>
       /\ h \notin removed["method"] => OneTo("methods", h) \in detached["type"][t + 1].refs
       /\ t \in removed["type"] => h \in removed["method"]

Dead(k, removed) == IF k = "generic_param" THEN DeadGenericParams(removed) ELSE removed[k]

(* The maps of a removal keep exactly the slots that are not removed.         *)
LEMMA ArenaMapsProps ==
  ASSUME TypeOK, NEW removed, ~NothingIn(removed), NEW maps, maps = ArenaMaps(removed)
  PROVE  /\ MapsOK(maps)
         /\ \A k \in Kinds :
              /\ \E new : IsArenaMap(maps[k], Len(arena[k]), new)
              /\ DOMAIN maps[k] = Handles(k)
              /\ \A h \in Handles(k) : maps[k][h] = None <=> h \in Dead(k, removed)
<1>1. ASSUME NEW k \in Kinds
      PROVE  /\ \E new : IsArenaMap(maps[k], Len(arena[k]), new)
             /\ DOMAIN maps[k] = Handles(k)
             /\ \A h \in DOMAIN maps[k] : maps[k][h] \in Nat \cup {None}
             /\ \A h \in Handles(k) : maps[k][h] = None <=> h \in Dead(k, removed)
  <2>1. maps[k] = Build(Len(arena[k]), Dead(k, removed))
    BY DEF ArenaMaps, Dead
  <2>2. Len(arena[k]) \in Nat
    BY AtType
  <2>3. PICK new : IsArenaMap(maps[k], Len(arena[k]), new)
    BY <2>1, <2>2, BuildIsArenaMap
  <2>4. DOMAIN maps[k] = Handles(k)
    BY <2>3 DEF IsArenaMap, Handles
  <2>5. \A h \in DOMAIN maps[k] : maps[k][h] \in Nat \cup {None}
    <3>1. \A h \in Kept(maps[k]) : maps[k][h] \in Nat
      BY <2>3 DEF IsArenaMap
    <3> QED
      BY <3>1 DEF Kept
  <2>6. \A h \in Handles(k) : maps[k][h] = None <=> h \in Dead(k, removed)
    BY <2>1, <2>2, BuildIsArenaMap DEF Handles
  <2> QED
    BY <2>3, <2>4, <2>5, <2>6
<1> QED
  BY <1>1 DEF MapsOK

(* b is the compaction of the detached arenas: typed, every survivor at its   *)
(* new index under its own identity and remapped, every new index a          *)
(* survivor's.                                                               *)
Compaction(b, maps, detached) ==
  /\ b \in [Kinds -> Seq(Def)]
  /\ \A k \in Kinds :
       /\ Len(b[k]) \in Nat
       /\ \A h \in Kept(maps[k]) :
            /\ h \in Handles(k) /\ maps[k][h] \in 0..(Len(b[k]) - 1)
            /\ b[k][maps[k][h] + 1].id = At(k, h).id
            /\ b[k][maps[k][h] + 1].refs = RemapRefs(maps, detached[k][h + 1].refs)
       /\ \A n \in 0..(Len(b[k]) - 1) : \E h \in Kept(maps[k]) : maps[k][h] = n

(* compact() computes one.                                                   *)
LEMMA CompactedArenas ==
  ASSUME TypeOK, NEW removed, ~NothingIn(removed), NEW maps, maps = ArenaMaps(removed),
         NEW detached, GoodRemoval(detached, removed),
         NEW b, b = [k \in Kinds |-> CompactArena(detached[k], maps[k], maps)]
  PROVE  Compaction(b, maps, detached)
<1>1. ASSUME NEW k \in Kinds
      PROVE  /\ b[k] \in Seq(Def) /\ Len(b[k]) \in Nat
             /\ \A h \in Kept(maps[k]) :
                   /\ h \in Handles(k) /\ maps[k][h] \in 0..(Len(b[k]) - 1)
                   /\ b[k][maps[k][h] + 1].id = At(k, h).id
                   /\ b[k][maps[k][h] + 1].refs = RemapRefs(maps, detached[k][h + 1].refs)
             /\ \A n \in 0..(Len(b[k]) - 1) : \E h \in Kept(maps[k]) : maps[k][h] = n
  <2>1. MapsOK(maps) /\ DOMAIN maps[k] = Handles(k)
    BY ArenaMapsProps
  <2>2. PICK new : IsArenaMap(maps[k], Len(arena[k]), new)
    BY ArenaMapsProps
  <2>3. detached[k] \in Seq(Def) /\ Len(detached[k]) = Len(arena[k])
    BY DEF GoodRemoval
  <2>4. b[k] = CompactArena(detached[k], maps[k], maps)
    OBVIOUS
  <2>5. IsArenaMap(maps[k], Len(detached[k]), new)
    BY <2>2, <2>3
  <2>6. /\ b[k] \in Seq(Def) /\ Len(b[k]) = new
        /\ \A h \in Kept(maps[k]) :
             /\ b[k][maps[k][h] + 1].id = detached[k][h + 1].id
             /\ b[k][maps[k][h] + 1].refs = RemapRefs(maps, detached[k][h + 1].refs)
    BY <2>1, <2>3, <2>4, <2>5, CompactArenaProps
  <2>7. \A h \in Kept(maps[k]) : h \in Handles(k) /\ detached[k][h + 1].id = At(k, h).id
    BY <2>1 DEF Kept, GoodRemoval
  <2>8. /\ new \in Nat
        /\ \A h \in Kept(maps[k]) : maps[k][h] \in 0..(new - 1)
        /\ \A n \in 0..(new - 1) : \E h \in Kept(maps[k]) : maps[k][h] = n
    BY <2>2 DEF IsArenaMap
  <2> QED
    BY <2>6, <2>7, <2>8
<1>2. b \in [Kinds -> Seq(Def)]
  BY <1>1
<1> QED
  BY <1>1, <1>2 DEF Compaction

(* A back pointer of a survivor never dangles: its target survives too.       *)
LEMMA BackPointersSurvive ==
  ASSUME TypeOK, ArenaOK(arena), NEW removed, ~NothingIn(removed),
         NEW maps, maps = ArenaMaps(removed),
         NEW detached, GoodRemoval(detached, removed),
         NEW k \in Kinds, NEW h \in Kept(maps[k]), NEW r \in At(k, h).refs,
         r.role \in IfMapped
  PROVE  /\ Alive(maps, r)
         /\ r.to = <<r.to[1]>> /\ r.to[1] \in Kept(maps[TargetKind(r.role)])
<1>1. h \in Handles(k) /\ h \notin Dead(k, removed) /\ DOMAIN maps[k] = Handles(k)
  BY ArenaMapsProps DEF Kept
<1>2. At(k, h) \in Def /\ r \in Ref(Nat)
  BY <1>1, AtType DEF Def
<1>3. SlotsOK(arena, k, h, r)
  BY <1>1, AtType DEF ArenaOK, Handles
<1>4. Len(r.to) = 1 /\ r.to \in Seq(Nat) /\ DOMAIN r.to = {1}
  BY <1>2, <1>3 DEF SlotsOK, IfMapped, Ref
<1>5. r.to = <<r.to[1]>>
  BY <1>4
<1>6. TargetKind(r.role) \in {"type", "method"} /\ TargetKind(r.role) \in Kinds
  BY OwnershipTargets DEF IfMapped, Kinds
<1>7. r.to[1] \in Handles(TargetKind(r.role))
  BY <1>3, <1>4 DEF SlotsOK, IfMapped, Untouched, Handles
<1>8. r.to[1] \notin Dead(TargetKind(r.role), removed)
  <2> SUFFICES ASSUME r.to[1] \in removed[TargetKind(r.role)]
               PROVE  FALSE
    BY <1>6 DEF Dead
  <2>1. CASE r.role = "method_declaring_type"
    <3>1. k = "method" /\ OneTo("methods", h) \in At("type", r.to[1]).refs
      BY <1>3, <2>1 DEF SlotsOK, At
    <3>2. h \in removed["method"]
      BY <1>7, <2>1, <3>1, OwnershipTargets DEF GoodRemoval
    <3> QED
      BY <1>1, <3>1, <3>2 DEF Dead
  <2>2. CASE r.role \in {"owner_type", "owner_method"}
    <3>1. k = "generic_param"
      BY <1>3, <2>2 DEF SlotsOK
    <3>2. r.to[1] \in Targets(k, h, r.role)
      BY <1>4 DEF Targets
    <3>3. h \in DeadGenericParams(removed)
      BY <1>1, <2>2, <3>1, <3>2, OwnershipTargets DEF DeadGenericParams
    <3> QED
      BY <1>1, <3>1, <3>3 DEF Dead
  <2> QED
    BY <2>1, <2>2 DEF IfMapped
<1>9. r.to[1] \in Kept(maps[TargetKind(r.role)])
  BY <1>6, <1>7, <1>8, ArenaMapsProps DEF Kept
<1>10. Alive(maps, r)
  BY <1>4, <1>9 DEF Alive, Get, Kept
<1> QED
  BY <1>5, <1>9, <1>10

(* Moving a slot that holds one handle.                                      *)
LEMMA MovedSingle ==
  ASSUME NEW maps, NEW r, NEW t, r.to = <<t>>
  PROVE  /\ Moved(maps, r).role = r.role
         /\ Moved(maps, r).to = <<Get(maps[TargetKind(r.role)], t)>>
         /\ Len(Moved(maps, r).to) = 1
<1>1. DOMAIN r.to = {1} /\ r.to[1] = t
  OBVIOUS
<1>2. Moved(maps, r).to = [i \in {1} |-> Get(maps[TargetKind(r.role)], r.to[i])]
  BY <1>1 DEF Moved
<1>3. [i \in {1} |-> Get(maps[TargetKind(r.role)], r.to[i])] = <<Get(maps[TargetKind(r.role)], t)>>
  BY <1>1
<1>4. Moved(maps, r).role = r.role
  BY DEF Moved
<1> QED
  BY <1>2, <1>3, <1>4

(* Compaction keeps the arenas sound.                                        *)
LEMMA CompactionKeepsArenaOK ==
  ASSUME TypeOK, ArenaOK(arena), NEW removed, ~NothingIn(removed),
         NEW maps, maps = ArenaMaps(removed),
         NEW detached, GoodRemoval(detached, removed),
         NEW b, Compaction(b, maps, detached)
  PROVE  ArenaOK(b)
<1> SUFFICES ASSUME NEW k \in Kinds, NEW n \in 0..(Len(b[k]) - 1), NEW x \in b[k][n + 1].refs
             PROVE  SlotsOK(b, k, n, x)
  BY DEF ArenaOK
<1>1. /\ \A j \in Kinds : Len(b[j]) \in Nat
      /\ \A j \in Kinds : \A h \in Kept(maps[j]) :
           /\ h \in Handles(j) /\ maps[j][h] \in 0..(Len(b[j]) - 1)
           /\ b[j][maps[j][h] + 1].refs = RemapRefs(maps, detached[j][h + 1].refs)
      /\ \A j \in Kinds : \A m \in 0..(Len(b[j]) - 1) : \E h \in Kept(maps[j]) : maps[j][h] = m
  BY DEF Compaction
<1>2. PICK h \in Kept(maps[k]) : maps[k][h] = n
  BY <1>1
<1>3. /\ h \in Handles(k) /\ detached[k][h + 1].refs \subseteq At(k, h).refs
      /\ x \in RemapRefs(maps, detached[k][h + 1].refs)
  BY <1>1, <1>2 DEF GoodRemoval
<1>4. \A r \in At(k, h).refs : r \in Ref(Nat) /\ SlotsOK(arena, k, h, r)
  BY <1>3, AtType DEF ArenaOK, Handles, Def
<1>5. CASE x \in detached[k][h + 1].refs /\ x.role \in Untouched
  BY <1>5 DEF SlotsOK, Untouched
<1>6. ASSUME NEW r \in At(k, h).refs, Alive(maps, r), x = Moved(maps, r)
      PROVE  SlotsOK(b, k, n, x)
  <2> DEFINE T == TargetKind(r.role)
  <2>1. T \in Kinds /\ x.role = r.role
    BY <1>4, <1>6, TargetKindType DEF Ref, Moved
  <2>2. ASSUME NEW i \in DOMAIN x.to
        PROVE  x.to[i] \in 0..(Len(b[T]) - 1)
    <3>1. i \in DOMAIN r.to /\ x.to[i] = Get(maps[T], r.to[i])
      BY <1>6 DEF Moved
    <3>2. Get(maps[T], r.to[i]) # None
      BY <1>6, <3>1 DEF Alive
    <3>3. r.to[i] \in Kept(maps[T]) /\ x.to[i] = maps[T][r.to[i]]
      BY <3>1, <3>2 DEF Get, Kept
    <3> QED
      BY <1>1, <2>1, <3>3
  <2>3. CASE r.role \in IfMapped
    <3>1. r.to = <<r.to[1]>> /\ r.to[1] \in Kept(maps[T])
      BY <2>3, BackPointersSurvive
    <3>2. Len(x.to) = 1 /\ x.to = <<Get(maps[T], r.to[1])>>
      BY <1>6, <3>1, MovedSingle
    <3>3. x.to[1] = maps[T][r.to[1]]
      BY <3>1, <3>2 DEF Get, Kept
    <3>4. ASSUME r.role = "method_declaring_type"
          PROVE  k = "method" /\ OneTo("methods", n) \in b["type"][x.to[1] + 1].refs
      <4> DEFINE t == r.to[1]
                 y == OneTo("methods", h)
      <4>1. k = "method" /\ y \in At("type", t).refs
        BY <1>4, <3>4 DEF SlotsOK, At
      <4>2. T = "type" /\ "type" \in Kinds /\ "method" \in Kinds
        BY <3>4, OwnershipTargets DEF Kinds
      <4>3. t \in Kept(maps["type"]) /\ t \in Handles("type")
        BY <1>1, <3>1, <4>2
      <4>4. h \notin removed["method"]
        BY <1>2, <1>3, <4>1, ArenaMapsProps DEF Kept, Dead
      <4>5. y \in detached["type"][t + 1].refs
        BY <4>1, <4>3, <4>4 DEF GoodRemoval
      <4>6. y.role = "methods" /\ y.to = <<h>> /\ Get(maps["method"], h) = n
        BY <1>2, <4>1 DEF OneTo, Get, Kept
      <4>7. n # None
        BY <1>2 DEF Kept
      <4>8. Alive(maps, y)
        BY <4>6, <4>7, OwnershipTargets DEF Alive
      <4>9. Moved(maps, y) = OneTo("methods", n)
        BY <4>6, MovedSingle, OwnershipTargets DEF Moved, OneTo
      <4>10. Moved(maps, y) \in RemapRefs(maps, detached["type"][t + 1].refs)
        BY <4>5, <4>6, <4>8 DEF RemapRefs, Untouched
      <4>11. b["type"][maps["type"][t] + 1].refs = RemapRefs(maps, detached["type"][t + 1].refs)
        BY <1>1, <4>2, <4>3
      <4>12. x.to[1] = maps["type"][t]
        BY <3>3, <4>2
      <4> HIDE DEF y, t
      <4> QED
        BY <4>1, <4>9, <4>10, <4>11, <4>12
    <3>5. r.role \in {"owner_type", "owner_method"} => k = "generic_param"
      BY <1>4 DEF SlotsOK
    <3> QED
      BY <2>1, <2>2, <3>2, <3>4, <3>5 DEF SlotsOK
  <2>4. CASE r.role \notin IfMapped
    BY <2>1, <2>2, <2>4 DEF SlotsOK, IfMapped
  <2> QED
    BY <2>3, <2>4
<1>7. ASSUME NEW r, r.role \in Sentinel, x = [role |-> r.role, to |-> <<>>]
      PROVE  SlotsOK(b, k, n, x)
  <2>1. DOMAIN x.to = {} /\ x.role \in Sentinel
    BY <1>7
  <2> QED
    BY <2>1 DEF SlotsOK, Sentinel
<1>8. ASSUME x \in At(k, h).refs, ~Alive(maps, x), x.role \in IfMapped
      PROVE  FALSE
  BY <1>8, BackPointersSurvive
<1> QED
  BY <1>3, <1>5, <1>6, <1>7, <1>8 DEF RemapRefs

(* Detaching alone keeps the arenas sound: nothing was removed, so nothing    *)
(* is missing from a list.                                                   *)
LEMMA DetachingKeepsArenaOK ==
  ASSUME TypeOK, ArenaOK(arena), NEW removed, NothingIn(removed),
         NEW detached, GoodRemoval(detached, removed)
  PROVE  ArenaOK(detached)
<1> SUFFICES ASSUME NEW k \in Kinds, NEW h \in 0..(Len(detached[k]) - 1),
                    NEW r \in detached[k][h + 1].refs
             PROVE  SlotsOK(detached, k, h, r)
  BY DEF ArenaOK
<1>1. \A j \in Kinds : Len(detached[j]) = Len(arena[j])
  BY DEF GoodRemoval
<1>2. h \in Handles(k) /\ r \in At(k, h).refs
  BY <1>1 DEF GoodRemoval, Handles
<1>3. r \in Ref(Nat) /\ SlotsOK(arena, k, h, r)
  BY <1>2, AtType DEF ArenaOK, Handles, Def
<1>4. TargetKind(r.role) \in Kinds
  BY <1>3, TargetKindType DEF Ref
<1>5. ASSUME r.role = "method_declaring_type"
      PROVE  OneTo("methods", h) \in detached["type"][r.to[1] + 1].refs
  <2>1. Len(r.to) = 1 /\ OneTo("methods", h) \in At("type", r.to[1]).refs
    BY <1>3, <1>5 DEF SlotsOK, At
  <2>2. r.to[1] \in Handles("type")
    BY <1>3, <1>5, <2>1, OwnershipTargets DEF SlotsOK, Untouched, Handles, Ref
  <2>3. h \notin removed["method"]
    BY DEF NothingIn, Kinds
  <2> QED
    BY <2>1, <2>2, <2>3 DEF GoodRemoval
<1> QED
  BY <1>1, <1>3, <1>4, <1>5 DEF SlotsOK

(* Of a removal step: the definitions a kept handle denotes before and after  *)
(* are the same one, the entry point goes where its handle goes, and the     *)
(* invariant holds again.                                                    *)
EntryPointFollows ==
  entry_point' # None =>
    entry_point # None /\ At("method", entry_point)'.id = At("method", entry_point).id

(* What every removal does, whichever remove_* it is.                        *)
LEMMA RemoveStep ==
  ASSUME IInv, NEW removed, NEW detached, GoodRemoval(detached, removed),
         Remove(detached, removed)
  PROVE  IInv' /\ EntryPointFollows
<1> DEFINE maps == ArenaMaps(removed)
           m == maps["method"]
<1>1. TypeOK /\ ArenaOK(arena) /\ "method" \in Kinds
  BY ArenaOKMeans DEF IInv, HandlesInRange, RefsInRange, Kinds
<1>2. /\ entry_point' = IF entry_point = None THEN None ELSE Get(m, entry_point)
      /\ native_rvas' = native_rvas
  BY DEF Remove, FixupEntryPoint
<1>3. MapsOK(maps) => asm_cas' \subseteq Nat \X Names
  <2> SUFFICES ASSUME MapsOK(maps), NEW c \in asm_cas'
               PROVE  c \in Nat \X Names
    OBVIOUS
  <2>1. PICK ca \in asm_cas :
          c = ca \/ (c = <<Get(m, ca[1]), ca[2]>> /\ Get(m, ca[1]) # None)
    BY DEF Remove, FixupAssemblyAttributes
  <2>2. ca \in Nat \X Names /\ Get(m, ca[1]) \in Nat \cup {None}
    BY <1>1, GetType DEF TypeOK
  <2> QED
    BY <2>1, <2>2
<1>4. CASE NothingIn(removed)
  <2>1. arena' = detached /\ debug' = debug
    BY <1>4 DEF Remove
  <2>2. ArenaOK(arena')
    BY <1>1, <1>4, <2>1, DetachingKeepsArenaOK
  <2>3. \A k \in Kinds : maps[k] = <<>>
    BY <1>4 DEF ArenaMaps
  <2>4. \A h : Get(m, h) = None
    BY <1>1, <2>3 DEF Get
  <2>5. entry_point' = None
    BY <1>2, <2>4
  <2>6. MapsOK(maps)
    BY <2>3 DEF MapsOK
  <2>7. TypeOK'
    BY <1>1, <1>2, <1>3, <2>1, <2>5, <2>6 DEF TypeOK, GoodRemoval
  <2>8. \A h \in Handles("method") : h \in Handles("method")' /\ At("method", h)'.id = At("method", h).id
    BY <1>1, <2>1 DEF GoodRemoval, Handles, At
  <2>9. DebugFollowsMethod'
    BY <2>1, <2>8 DEF IInv, DebugFollowsMethod
  <2>10. HandlesInRange' /\ MethodsListed'
    BY <2>2, <2>5, ArenaOKMeansNext DEF HandlesInRange, RefsInRange
  <2> QED
    BY <2>5, <2>7, <2>9, <2>10 DEF IInv, EntryPointFollows
<1>5. CASE ~NothingIn(removed)
  <2>1. /\ arena' = [k \in Kinds |-> CompactArena(detached[k], maps[k], maps)]
        /\ debug' = RemapDebug(debug, m)
    BY <1>5 DEF Remove
  <2>2. MapsOK(maps)
    BY <1>1, <1>5, ArenaMapsProps
  <2>3. Compaction(arena', maps, detached)
    BY <1>1, <1>5, <2>1, CompactedArenas
  <2> HIDE DEF maps
  <2>4. ArenaOK(arena')
    BY <1>1, <1>5, <2>3, CompactionKeepsArenaOK DEF maps
  <2>5. \A h : Get(m, h) # None =>
           /\ h \in Handles("method") /\ Get(m, h) \in Nat
           /\ Get(m, h) \in 0..(Len(arena'["method"]) - 1)
           /\ arena'["method"][Get(m, h) + 1].id = At("method", h).id
    <3> SUFFICES ASSUME NEW h, Get(m, h) # None
                 PROVE  /\ h \in Handles("method") /\ Get(m, h) \in Nat
                        /\ Get(m, h) \in 0..(Len(arena'["method"]) - 1)
                        /\ arena'["method"][Get(m, h) + 1].id = At("method", h).id
      OBVIOUS
    <3>1. h \in Kept(m) /\ Get(m, h) = m[h]
      BY DEF Get, Kept
    <3>2. /\ Len(arena'["method"]) \in Nat /\ h \in Handles("method")
          /\ m[h] \in 0..(Len(arena'["method"]) - 1)
          /\ arena'["method"][m[h] + 1].id = At("method", h).id
      BY <1>1, <2>3, <3>1 DEF Compaction
    <3> QED
      BY <3>1, <3>2
  <2>6. entry_point' \in Nat \cup {None}
    BY <1>1, <1>2, <2>5
  <2>7. \A p \in debug' : \E q \in debug : /\ Get(m, q[1] - 1) # None
                                         /\ p = <<Get(m, q[1] - 1) + 1, q[2]>>
    BY <2>1 DEF RemapDebug
  <2>8. debug' \subseteq (Nat \ {0}) \X Names
    <3> SUFFICES ASSUME NEW p \in debug' PROVE p \in (Nat \ {0}) \X Names
      OBVIOUS
    <3>1. PICK q \in debug : Get(m, q[1] - 1) # None /\ p = <<Get(m, q[1] - 1) + 1, q[2]>>
      BY <2>7
    <3>2. q[2] \in Names /\ Get(m, q[1] - 1) \in Nat
      BY <1>1, <2>5, <3>1 DEF TypeOK
    <3> QED
      BY <3>1, <3>2
  <2>9. TypeOK'
    BY <1>1, <1>2, <1>3, <2>2, <2>3, <2>6, <2>8 DEF TypeOK, Compaction
  <2>10. DebugFollowsMethod'
    <3> SUFFICES ASSUME NEW p \in debug'
                 PROVE  /\ p[1] - 1 \in 0..(Len(arena'["method"]) - 1)
                        /\ arena'["method"][(p[1] - 1) + 1].id = p[2]
      BY DEF DebugFollowsMethod, Handles, At
    <3>1. PICK q \in debug : Get(m, q[1] - 1) # None /\ p = <<Get(m, q[1] - 1) + 1, q[2]>>
      BY <2>7
    <3>2. At("method", q[1] - 1).id = q[2]
      BY <3>1 DEF IInv, DebugFollowsMethod
    <3>3. Get(m, q[1] - 1) \in Nat /\ p[1] - 1 = Get(m, q[1] - 1) /\ p[2] = q[2]
      BY <2>5, <3>1
    <3> QED
      BY <2>5, <3>1, <3>2, <3>3
  <2>11. EntryPointFollows /\ (entry_point' # None => entry_point' \in Handles("method")')
    BY <1>2, <2>5 DEF EntryPointFollows, Handles, At
  <2>12. HandlesInRange' /\ MethodsListed'
    BY <2>4, <2>11, ArenaOKMeansNext DEF HandlesInRange, RefsInRange
  <2> QED
    BY <2>9, <2>10, <2>11, <2>12 DEF IInv
<1> QED
  BY <1>4, <1>5

-------------------------------------------------------------------------------
(* Every remove_* calls compact() as it expects.                             *)

MembersRemoved(removed) ==
  \A t \in Handles("type") : \A h :
    OneTo("methods", h) \in At("type", t).refs /\ t \in removed["type"] => h \in removed["method"]

(* Detaching nothing is a good start.                                        *)
LEMMA NotDetachingIsGood ==
  ASSUME TypeOK, NEW removed, MembersRemoved(removed)
  PROVE  GoodRemoval(arena, removed)
BY DEF TypeOK, GoodRemoval, MembersRemoved, At

(* So is taking a removed definition out of the lists of some types.          *)
LEMMA DetachIsGood ==
  ASSUME TypeOK, NEW removed, MembersRemoved(removed), NEW owners, NEW role, NEW h,
         role = "methods" => h \in removed["method"]
  PROVE  GoodRemoval(Detach(owners, role, h), removed)
<1> DEFINE x == OneTo(role, h)
           old == arena["type"]
           new == [i \in DOMAIN old |->
                     IF i - 1 \in owners THEN [id |-> old[i].id, refs |-> old[i].refs \ {x}]
                                         ELSE old[i]]
           b == Detach(owners, role, h)
<1>1. old \in Seq(Def) /\ Len(old) \in Nat /\ DOMAIN old = 1..Len(old) /\ "type" \in Kinds
  BY AtType, LenProperties DEF Kinds
<1>2. ASSUME NEW i \in 1..Len(old)
      PROVE  /\ new[i] \in Def /\ new[i].id = old[i].id /\ new[i].refs \subseteq old[i].refs
             /\ old[i].refs \subseteq new[i].refs \cup {x}
  <2>1. old[i] \in Def
    BY <1>1, ElementOfSeq
  <2>2. CASE i - 1 \in owners
    <3>1. new[i] = [id |-> old[i].id, refs |-> old[i].refs \ {x}]
      BY <1>1, <2>2
    <3> QED
      BY <2>1, <3>1 DEF Def
  <2>3. CASE i - 1 \notin owners
    <3>1. new[i] = old[i]
      BY <1>1, <2>3
    <3> QED
      BY <2>1, <3>1
  <2> QED
    BY <2>2, <2>3
<1>3. new \in [1..Len(old) -> Def]
  BY <1>1, <1>2
<1>4. new \in Seq(Def) /\ Len(new) = Len(old)
  BY <1>1, <1>3, SeqDef
<1>5. b = [arena EXCEPT !["type"] = new]
  BY DEF Detach
<1> HIDE DEF new, b
<1>6. /\ b \in [Kinds -> Seq(Def)] /\ b["type"] = new
      /\ \A k \in Kinds \ {"type"} : b[k] = arena[k]
  BY <1>1, <1>4, <1>5 DEF TypeOK
<1>7. \A k \in Kinds : Len(b[k]) = Len(arena[k])
  BY <1>4, <1>6
<1>8. ASSUME NEW t \in Handles("type")
      PROVE  /\ b["type"][t + 1].id = At("type", t).id
             /\ b["type"][t + 1].refs \subseteq At("type", t).refs
             /\ At("type", t).refs \subseteq b["type"][t + 1].refs \cup {x}
  <2>1. t + 1 \in 1..Len(old)
    BY <1>1, AtType
  <2> QED
    BY <1>2, <1>6, <2>1 DEF At
<1>9. ASSUME NEW k \in Kinds, NEW i \in Handles(k)
      PROVE  b[k][i + 1].id = At(k, i).id /\ b[k][i + 1].refs \subseteq At(k, i).refs
  <2>1. CASE k = "type"
    BY <1>8, <2>1
  <2>2. CASE k # "type"
    BY <1>6, <2>2 DEF At
  <2> QED
    BY <2>1, <2>2
<1>10. ASSUME NEW t \in Handles("type"), NEW i, OneTo("methods", i) \in At("type", t).refs
       PROVE  /\ i \notin removed["method"] => OneTo("methods", i) \in b["type"][t + 1].refs
              /\ t \in removed["type"] => i \in removed["method"]
  <2>1. OneTo("methods", i) = x => role = "methods" /\ i = h
    <3>1. OneTo("methods", i).role = "methods" /\ OneTo("methods", i).to[1] = i
      BY DEF OneTo
    <3>2. x.role = role /\ x.to[1] = h
      BY DEF OneTo
    <3> QED
      BY <3>1, <3>2
  <2> HIDE DEF x
  <2> QED
    BY <1>8, <1>10, <2>1 DEF MembersRemoved
<1> QED
  BY <1>6, <1>7, <1>9, <1>10 DEF GoodRemoval, b

(* remove_type collects the methods its types list.                          *)
LEMMA CollectedMembers ==
  ASSUME NEW id
  PROVE  MembersRemoved(CollectTypeRemoval(id))
<1> SUFFICES ASSUME NEW t \in Handles("type"), NEW h,
                    OneTo("methods", h) \in At("type", t).refs,
                    t \in CollectTypeRemoval(id)["type"]
             PROVE  h \in CollectTypeRemoval(id)["method"]
  BY DEF MembersRemoved
<1>1. CollectTypeRemoval(id)["type"] = Subtree(id)
  BY DEF CollectTypeRemoval, Kinds
<1>2. CollectTypeRemoval(id)["method"] = MembersOf(Subtree(id), "method")
  BY DEF CollectTypeRemoval, Kinds
<1>3. h \in Targets("type", t, "methods")
  BY DEF Targets, OneTo
<1>4. ListRole("method") = "methods"
  BY ListRoleProps DEF Kinds
<1> QED
  BY <1>1, <1>2, <1>3, <1>4 DEF MembersOf

(* Each removal is a RemoveStep.                                             *)
LEMMA RemovalsStep ==
  ASSUME IInv,
         \/ \E id : RemoveType(id)
         \/ \E id : RemoveMethod(id)
         \/ \E k \in MemberKinds : \E id : RemoveMember(k, id)
  PROVE  IInv' /\ EntryPointFollows
<1>1. TypeOK
  BY DEF IInv
<1>2. ASSUME NEW id, RemoveType(id)
      PROVE  IInv' /\ EntryPointFollows
  <2>1. GoodRemoval(arena, CollectTypeRemoval(id))
    BY <1>1, CollectedMembers, NotDetachingIsGood
  <2>2. GoodRemoval(Detach(Targets("type", id, "declaring_type"), "nested_types", id), CollectTypeRemoval(id))
    BY <1>1, CollectedMembers, DetachIsGood
  <2> QED
    BY <1>2, <2>1, <2>2, RemoveStep DEF RemoveType
<1>3. ASSUME NEW id, RemoveMethod(id)
      PROVE  IInv' /\ EntryPointFollows
  <2>1. id \in Only("method", id)["method"] /\ MembersRemoved(Only("method", id))
    BY DEF Only, MembersRemoved, Kinds
  <2>2. GoodRemoval(arena, Only("method", id))
    BY <1>1, <2>1, NotDetachingIsGood
  <2>3. GoodRemoval(Detach(Targets("method", id, "method_declaring_type"), "methods", id), Only("method", id))
    BY <1>1, <2>1, DetachIsGood
  <2> QED
    BY <1>3, <2>2, <2>3, RemoveStep DEF RemoveMethod
<1>4. ASSUME NEW k \in MemberKinds, NEW id, RemoveMember(k, id)
      PROVE  IInv' /\ EntryPointFollows
  <2>1. MembersRemoved(Only(k, id)) /\ k \in Kinds /\ k # "method"
    BY DEF Only, MembersRemoved, Kinds, MemberKinds
  <2>2. ListRole(k) # "methods"
    BY <2>1, ListRoleProps, OwnershipTargets
  <2>3. GoodRemoval(Detach(MemberOwner(k, id), ListRole(k), id), Only(k, id))
    BY <1>1, <2>1, <2>2, DetachIsGood
  <2> QED
    BY <1>4, <2>3, RemoveStep DEF RemoveMember
<1> QED
  BY <1>2, <1>3, <1>4

-------------------------------------------------------------------------------
(* The other steps.                                                         *)

(* No adding or authoring step shortens an arena.                            *)
NoRemoval == \A k \in Kinds : ~(Len(arena'[k]) < Len(arena[k]))

(* An authored slot names live definitions and is no back pointer.           *)
LEMMA AuthorRefStep ==
  ASSUME IInv, NEW k \in Kinds, NEW h \in Handles(k), NEW role \in Authored,
         NEW to \in TargetTuples(role), AuthorRef(k, h, role, to)
  PROVE  IInv' /\ NoRemoval
<1> DEFINE x == [role |-> role, to |-> to]
<1>1. TypeOK /\ ArenaOK(arena) /\ UNCHANGED SideState
  BY ArenaOKMeans DEF IInv, HandlesInRange, RefsInRange, AuthorRef
<1>2. /\ \A j \in Kinds : Len(arena[j]) \in Nat
      /\ arena \in [Kinds -> Seq(Def)] /\ h + 1 \in 1..Len(arena[k])
  BY <1>1, AtType DEF TypeOK
<1>3. role \in Roles /\ role \notin {"method_declaring_type", "owner_type", "owner_method"}
  BY AuthoredAssumption DEF OwnerRoles
<1>4. TargetKind(role) \in Kinds
  BY <1>3, TargetKindType
<1>5. to \in Seq(Nat) /\ \A i \in DOMAIN to : to[i] \in Handles(TargetKind(role))
  <2>1. CASE role = "overrides"
    <3>1. TargetKind(role) = "method"
      BY <2>1, OwnershipTargets
    <3>2. PICK a \in Handles("method"), b \in Handles("method") : to = <<a, b>>
      BY <2>1 DEF TargetTuples
    <3>3. a \in Nat /\ b \in Nat
      BY DEF Handles
    <3> QED
      BY <3>1, <3>2, <3>3
  <2>2. CASE role # "overrides"
    <3>1. PICK t \in Handles(TargetKind(role)) : to = <<t>>
      BY <2>2 DEF TargetTuples
    <3>2. t \in Nat
      BY DEF Handles
    <3> QED
      BY <3>1, <3>2
  <2> QED
    BY <2>1, <2>2
<1>6. x \in Ref(Nat)
  BY <1>3, <1>5 DEF Ref
<1>7. arena' = AddSlot(arena, k, h + 1, x)
  BY DEF AuthorRef, AddSlot
<1> DEFINE b == arena'
<1>8. /\ Grows(arena, b)
      /\ \A j \in Kinds : Len(b[j]) = Len(arena[j])
      /\ b[k][h + 1].refs = arena[k][h + 1].refs \cup {x}
      /\ \A j \in Kinds : \A n \in 1..Len(arena[j]) : j # k \/ n # h + 1 => b[j][n] = arena[j][n]
  BY <1>2, <1>6, <1>7, RegisterGrows
<1>9. SlotsOK(b, k, h, x)
  BY <1>3, <1>4, <1>5, <1>8 DEF SlotsOK, Handles
<1>10. ASSUME NEW j \in Kinds, NEW n \in 0..(Len(b[j]) - 1), NEW r \in b[j][n + 1].refs
       PROVE  SlotsOK(b, j, n, r)
  <2>1. n \in 0..(Len(arena[j]) - 1) /\ n + 1 \in 1..Len(arena[j]) /\ h \in Nat
    BY <1>2, <1>8 DEF Handles
  <2>2. r \in arena[j][n + 1].refs \/ (j = k /\ n = h /\ r = x)
    BY <1>8, <2>1
  <2> QED
    BY <1>1, <1>2, <1>8, <1>9, <2>1, <2>2, OldSlotsStayOK
<1>11. ArenaOK(arena')
  BY <1>10 DEF ArenaOK
<1>12. NoRemoval
  BY <1>2, <1>8 DEF NoRemoval
<1> QED
  BY <1>1, <1>8, <1>11, <1>12, GrowthKeepsIInv

(* Adding a definition, with or without an owner.                            *)
LEMMA AddSteps ==
  ASSUME IInv,
         \/ \E parent \in {None} \cup 0..Len(arena["type"]) : AddType(parent)
         \/ \E owner \in Handles("type") : AddMethod(owner)
         \/ \E k \in MemberKinds : \E owner \in Handles("type") : AddMember(k, owner)
         \/ \E k \in {"type", "method"} : \E owner \in Handles(k) : AddGenericParameter(k, owner)
  PROVE  IInv' /\ NoRemoval
<1>1. TypeOK /\ ArenaOK(arena) /\ {"type", "method", "generic_param"} \subseteq Kinds
  BY ArenaOKMeans DEF IInv, HandlesInRange, RefsInRange, Kinds
<1>2. ASSUME Grows(arena, arena'), ArenaOK(arena'), UNCHANGED SideState
      PROVE  IInv' /\ NoRemoval
  <2>1. \A k \in Kinds : Len(arena[k]) \in Nat /\ Len(arena'[k]) \in Nat /\ Len(arena[k]) <= Len(arena'[k])
    BY <1>1, <1>2, AtType DEF Grows
  <2> QED
    BY <1>2, <2>1, GrowthKeepsIInv DEF NoRemoval
<1>3. ASSUME NEW parent, AddType(parent)
      PROVE  IInv' /\ NoRemoval
  <2>1. CASE parent \in Handles("type")
    <3>1. arena' = Register(Appended("type", {OneTo("declaring_type", parent)}),
                            "type", parent, ListRole("type"), Len(arena["type"]))
      BY <1>3, <2>1 DEF AddType, ListRole
    <3>2. GoodBack("type", "type", parent, {OneTo("declaring_type", parent)})
      BY DEF GoodBack
    <3> QED
      BY <1>1, <1>2, <1>3, <2>1, <3>1, <3>2, AddStep DEF AddType
  <2>2. CASE parent \notin Handles("type")
    <3>1. arena' = Appended("type", {}) /\ CanAdd("type") /\ UNCHANGED SideState
      BY <1>3, <2>2 DEF AddType
    <3> DEFINE b == Appended("type", {})
               len == Len(arena["type"])
    <3>2. /\ Grows(arena, b) /\ Len(b["type"]) = len + 1 /\ b["type"][len + 1].refs = {}
          /\ \A i \in 1..len : b["type"][i] = arena["type"][i]
          /\ \A j \in Kinds \ {"type"} : b[j] = arena[j]
      BY <1>1, <3>1, AppendedGrows
    <3> HIDE DEF b
    <3>3. ASSUME NEW j \in Kinds, NEW n \in 0..(Len(b[j]) - 1), NEW r \in b[j][n + 1].refs
          PROVE  SlotsOK(b, j, n, r)
      <4>1. n \in Nat /\ Len(arena[j]) \in Nat /\ len \in Nat
        BY <1>1, <3>2, AtType DEF Grows
      <4>2. n \in 0..(Len(arena[j]) - 1) /\ r \in arena[j][n + 1].refs
        <5>1. CASE j # "type"
          BY <3>2, <5>1
        <5>2. CASE j = "type"
          <6>1. n # len
            BY <3>2, <3>3, <5>2
          <6>2. n + 1 \in 1..len
            BY <3>2, <4>1, <5>2, <6>1
          <6> QED
            BY <3>2, <4>1, <5>2, <6>2
        <5> QED
          BY <5>1, <5>2
      <4> QED
        BY <1>1, <3>2, <4>2, OldSlotsStayOK DEF TypeOK
    <3>4. ArenaOK(b)
      BY <3>3 DEF ArenaOK
    <3> QED
      BY <1>2, <3>1, <3>2, <3>4 DEF b
  <2> QED
    BY <2>1, <2>2
<1>4. ASSUME NEW owner \in Handles("type"), AddMethod(owner)
      PROVE  IInv' /\ NoRemoval
  <2>1. arena' = Register(Appended("method", {OneTo("method_declaring_type", owner)}),
                          "type", owner, ListRole("method"), Len(arena["method"]))
    BY <1>1, <1>4, ListRoleProps DEF AddMethod
  <2>2. GoodBack("method", "type", owner, {OneTo("method_declaring_type", owner)})
    BY DEF GoodBack
  <2> QED
    BY <1>1, <1>2, <1>4, <2>1, <2>2, AddStep DEF AddMethod
<1>5. ASSUME NEW k \in MemberKinds, NEW owner \in Handles("type"), AddMember(k, owner)
      PROVE  IInv' /\ NoRemoval
  <2>1. k \in Kinds /\ GoodBack(k, "type", owner, {})
    BY DEF MemberKinds, Kinds, GoodBack
  <2>2. arena' = Register(Appended(k, {}), "type", owner, ListRole(k), Len(arena[k]))
    BY <1>5 DEF AddMember
  <2> QED
    BY <1>1, <1>2, <1>5, <2>1, <2>2, AddStep DEF AddMember
<1>6. ASSUME NEW k \in {"type", "method"}, NEW owner \in Handles(k), AddGenericParameter(k, owner)
      PROVE  IInv' /\ NoRemoval
  <2>1. k \in Kinds /\ GoodBack("generic_param", k, owner, {OneTo(OwnerRole(k), owner)})
    BY <1>1 DEF GoodBack, OwnerRole
  <2>2. arena' = Register(Appended("generic_param", {OneTo(OwnerRole(k), owner)}),
                          k, owner, ListRole("generic_param"), Len(arena["generic_param"]))
    BY <1>6 DEF AddGenericParameter, ListRole
  <2> QED
    BY <1>1, <1>2, <1>6, <2>1, <2>2, AddStep DEF AddGenericParameter
<1> QED
  BY <1>3, <1>4, <1>5, <1>6

(* Recording module-level or facade-level state leaves the arenas alone.      *)
LEMMA RecordSteps ==
  ASSUME IInv, NEW h \in Handles("method"),
         SetEntryPoint(h) \/ AddAssemblyAttribute(h) \/ RecordDebug(h) \/ RecordNative(h)
  PROVE  IInv' /\ NoRemoval
<1>1. arena' = arena
  BY DEF SetEntryPoint, AddAssemblyAttribute, RecordDebug, RecordNative
<1>2. TypeOK /\ "method" \in Kinds /\ (\A k \in Kinds : Len(arena[k]) \in Nat)
  BY AtType DEF IInv, Kinds
<1>3. h \in Nat /\ At("method", h).id \in Names
  BY <1>2, AtType DEF Def
<1>4. TypeOK'
  BY <1>2, <1>3, NoneAssumption
     DEF TypeOK, SetEntryPoint, AddAssemblyAttribute, RecordDebug, RecordNative
<1>5. HandlesInRange' /\ MethodsListed'
  <2>1. RefsInRange /\ MethodsListed
    BY DEF IInv, HandlesInRange, RefsInRange
  <2>2. RefsInRange' /\ MethodsListed'
    BY <1>1, <2>1, ArenaOKMeans, ArenaOKMeansNext
  <2>3. (entry_point # None => entry_point \in Handles("method"))'
    BY <1>1 DEF IInv, HandlesInRange, Handles, SetEntryPoint, AddAssemblyAttribute, RecordDebug, RecordNative
  <2> QED
    BY <2>2, <2>3 DEF HandlesInRange, RefsInRange
<1>6. DebugFollowsMethod'
  <2>1. debug' = debug \/ debug' = debug \cup {<<h + 1, At("method", h).id>>}
    BY DEF SetEntryPoint, AddAssemblyAttribute, RecordDebug, RecordNative
  <2>2. (h + 1) - 1 = h
    BY <1>3
  <2> QED
    BY <1>1, <2>1, <2>2 DEF IInv, DebugFollowsMethod, Handles, At
<1>7. NoRemoval
  BY <1>1, <1>2 DEF NoRemoval
<1> QED
  BY <1>4, <1>5, <1>6, <1>7 DEF IInv

(* Every step keeps the inductive invariant, and one that shortens an arena   *)
(* does not send the entry point to another method.                          *)
LEMMA NextStep ==
  ASSUME IInv, [Next]_vars
  PROVE  IInv' /\ (RemovalStep => EntryPointFollows)
<1>1. CASE UNCHANGED vars
  <2>1. IInv'
    BY <1>1 DEF vars, IInv, TypeOK, HandlesInRange, MethodsListed, DebugFollowsMethod,
                InRange, Handles, At
  <2>2. ~RemovalStep
    BY <1>1, AtType DEF vars, RemovalStep, IInv
  <2> QED
    BY <2>1, <2>2
<1>2. CASE \E k \in Kinds : \E h \in Handles(k), role \in Authored :
             \E to \in TargetTuples(role) : AuthorRef(k, h, role, to)
  BY <1>2, AuthorRefStep DEF NoRemoval, RemovalStep
<1>3. CASE \/ \E parent \in {None} \cup 0..Len(arena["type"]) : AddType(parent)
           \/ \E owner \in Handles("type") : AddMethod(owner)
           \/ \E k \in MemberKinds : \E owner \in Handles("type") : AddMember(k, owner)
           \/ \E k \in {"type", "method"} : \E owner \in Handles(k) : AddGenericParameter(k, owner)
  BY <1>3, AddSteps DEF NoRemoval, RemovalStep
<1>4. CASE \E h \in Handles("method") :
             SetEntryPoint(h) \/ AddAssemblyAttribute(h) \/ RecordDebug(h) \/ RecordNative(h)
  BY <1>4, RecordSteps DEF NoRemoval, RemovalStep
<1>5. CASE \/ \E id : RemoveType(id)
           \/ \E id : RemoveMethod(id)
           \/ \E k \in MemberKinds : \E id : RemoveMember(k, id)
  BY <1>5, RemovalsStep
<1> QED
  BY <1>1, <1>2, <1>3, <1>4, <1>5 DEF Next

-------------------------------------------------------------------------------
(* The inductive invariant holds throughout.                                 *)
THEOREM InvariantHolds == Spec => []IInv
<1>1. Init => IInv
  BY InitIInv
<1>2. IInv /\ [Next]_vars => IInv'
  BY NextStep
<1> QED
  BY <1>1, <1>2, PTL DEF Spec

(* Type correctness, for arenas of any length and any number of slots.       *)
THEOREM TypeCorrect == Spec => []TypeOK
<1>1. IInv => TypeOK
  BY DEF IInv
<1> QED
  BY <1>1, InvariantHolds, PTL

(* removal.rs never leaves a visited slot or the entry point dangling.        *)
THEOREM NoDanglingHandle == Spec => []HandlesInRange
<1>1. IInv => HandlesInRange
  BY DEF IInv
<1> QED
  BY <1>1, InvariantHolds, PTL

(* Sequence points stay with their method through every removal.             *)
THEOREM DebugInfoFollows == Spec => []DebugFollowsMethod
<1>1. IInv => DebugFollowsMethod
  BY DEF IInv
<1> QED
  BY <1>1, InvariantHolds, PTL

(* A removal never makes the entry point denote another method.              *)
THEOREM EntryPointKept == Spec => EntryPointNeverRetargets
<1>1. IInv /\ [Next]_vars
        => [RemovalStep /\ entry_point' # None
            => /\ entry_point # None
               /\ At("method", entry_point)'.id = At("method", entry_point).id]_vars
  BY NextStep DEF EntryPointFollows
<1> QED
  BY <1>1, InvariantHolds, PTL DEF Spec, EntryPointNeverRetargets
===============================================================================
