------------------------- MODULE ArenaRefinementProofs -------------------------
(***************************************************************************)
(* ArenaModel implements ObjectModel, for arenas of any length: an         *)
(* addition adds one object, an authored slot adds one reference, and a    *)
(* removal by compaction removes exactly what the removed object owns.     *)
(***************************************************************************)
EXTENDS ArenaRefinement, ArenaOwnershipProofs

-------------------------------------------------------------------------------
(* The object graph of a given value of the arenas.                         *)

IdOf(a, k, h) == a[k][h + 1].id

(* Definition <<p, o>> owns <<k, h>>: it lists it.                           *)
Owns(a, p, o, k, h) ==
  /\ p \in {"type", "method"} /\ (p = "method" => k = "generic_param")
  /\ o \in HandlesIn(a, p)
  /\ Holds(a, p, o, ListRole(k), h)

OwnersIn(a, k, h) == {x \in Kinds \X Nat : Owns(a, x[1], x[2], k, h)}

OwnerOf(a, k, h) ==
  IF OwnersIn(a, k, h) = {} THEN None
    ELSE LET o == CHOOSE x \in OwnersIn(a, k, h) : TRUE
         IN  <<o[1], IdOf(a, o[1], o[2])>>

(* The slots an object shows: all but those of the tree and the locals.      *)
Shown(r) == r.role \notin OwnRoles \cup Untouched

NamedIn(a, r) ==
  [role |-> r.role,
   to   |-> [i \in DOMAIN r.to |-> IdOf(a, TargetKind(r.role), r.to[i])]]

ShownIn(a, k, h) == {NamedIn(a, r) : r \in {x \in a[k][h + 1].refs : Shown(x)}}

ObjectIn(a, k, h) ==
  [kind |-> k, id |-> IdOf(a, k, h), owner |-> OwnerOf(a, k, h), refs |-> ShownIn(a, k, h)]

Graph(a) == UNION {{ObjectIn(a, k, h) : h \in HandlesIn(a, k)} : k \in Kinds}

(* What the refinement needs besides the tree: identities tell definitions   *)
(* of a kind apart, and nothing has two owners.                              *)
UniqueIds(a) ==
  \A k \in Kinds : \A g, h \in HandlesIn(a, k) : IdOf(a, k, g) = IdOf(a, k, h) => g = h

OneOwner(a) ==
  \A k \in Kinds : \A h \in HandlesIn(a, k) : \A p1, o1, p2, o2 :
    Owns(a, p1, o1, k, h) /\ Owns(a, p2, o2, k, h) => p1 = p2 /\ o1 = o2

GraphOK(a) == UniqueIds(a) /\ OneOwner(a)

RefinementInv == OwnershipInv /\ GraphOK(arena)

-------------------------------------------------------------------------------
(* Objects and owners.                                                      *)

(* The vocabulary of ObjectModel is that of ArenaModel.                      *)
LEMMA SameVocabulary ==
  /\ Abs!Kinds = Kinds /\ Abs!Sentinel = Sentinel
  /\ \A r : Abs!TargetKind(r) = TargetKind(r)
  /\ \A k : Abs!RolesOf(k) = RolesOf(k)
<1>1. Abs!Kinds = Kinds /\ Abs!Sentinel = Sentinel
  BY DEF Abs!Kinds, Kinds, Abs!Sentinel, Sentinel
<1>2. Abs!TypeRoles = TypeRoles /\ Abs!MethodRoles = MethodRoles /\ Abs!FieldRoles = FieldRoles
  BY DEF Abs!TypeRoles, TypeRoles, Abs!MethodRoles, MethodRoles, Abs!FieldRoles, FieldRoles
<1>3. \A r : Abs!TargetKind(r) = TargetKind(r)
  BY <1>2 DEF Abs!TargetKind, TargetKind
<1>4. \A k : Abs!RolesOf(k) = RolesOf(k)
  BY DEF Abs!RolesOf, RolesOf
<1> QED
  BY <1>1, <1>3, <1>4

(* An object of the graph is that of some definition.                        *)
LEMMA GraphMembers ==
  ASSUME NEW a
  PROVE  /\ \A x \in Graph(a) : \E k \in Kinds : \E h \in HandlesIn(a, k) : x = ObjectIn(a, k, h)
         /\ \A k \in Kinds : \A h \in HandlesIn(a, k) : ObjectIn(a, k, h) \in Graph(a)
BY DEF Graph

(* An object is known by its kind and identity.                              *)
LEMMA ObjectsDiffer ==
  ASSUME NEW a, UniqueIds(a), NEW j \in Kinds, NEW g \in HandlesIn(a, j),
         NEW k \in Kinds, NEW h \in HandlesIn(a, k)
  PROVE  /\ Abs!Key(ObjectIn(a, k, h)) = <<k, IdOf(a, k, h)>>
         /\ Abs!Key(ObjectIn(a, j, g)) = Abs!Key(ObjectIn(a, k, h)) => j = k /\ g = h
         /\ ObjectIn(a, j, g) = ObjectIn(a, k, h) => j = k /\ g = h
<1>1. \A i, n : Abs!Key(ObjectIn(a, i, n)) = <<i, IdOf(a, i, n)>>
  BY DEF Abs!Key, ObjectIn
<1>2. Abs!Key(ObjectIn(a, j, g)) = Abs!Key(ObjectIn(a, k, h)) => j = k /\ IdOf(a, j, g) = IdOf(a, k, h)
  BY <1>1
<1> QED
  BY <1>1, <1>2 DEF UniqueIds

(* Owners are in range.                                                      *)
LEMMA OwnersInMeans ==
  ASSUME NEW a, NEW k, NEW h, NEW p, NEW o
  PROVE  <<p, o>> \in OwnersIn(a, k, h) <=> Owns(a, p, o, k, h)
<1>1. Owns(a, p, o, k, h) => p \in Kinds /\ o \in Nat
  BY DEF Owns, Kinds, HandlesIn
<1> QED
  BY <1>1 DEF OwnersIn

(* The owner of an object is the identity of the one definition that lists   *)
(* it, or None.                                                              *)
LEMMA OwnerOfProps ==
  ASSUME NEW a, OneOwner(a), NEW k \in Kinds, NEW h \in HandlesIn(a, k)
  PROVE  /\ \A p, o : Owns(a, p, o, k, h) => OwnerOf(a, k, h) = <<p, IdOf(a, p, o)>>
         /\ (\A p, o : ~Owns(a, p, o, k, h)) => OwnerOf(a, k, h) = None
<1>1. ASSUME NEW p, NEW o, Owns(a, p, o, k, h)
      PROVE  OwnerOf(a, k, h) = <<p, IdOf(a, p, o)>>
  <2>1. <<p, o>> \in OwnersIn(a, k, h)
    BY <1>1, OwnersInMeans
  <2>2. \A x \in OwnersIn(a, k, h) : x = <<x[1], x[2]>> /\ Owns(a, x[1], x[2], k, h)
    BY DEF OwnersIn
  <2>3. \A x \in OwnersIn(a, k, h) : x = <<p, o>>
    BY <1>1, <2>2 DEF OneOwner
  <2>4. (CHOOSE x \in OwnersIn(a, k, h) : TRUE) = <<p, o>>
    BY <2>1, <2>3
  <2> DEFINE c == CHOOSE x \in OwnersIn(a, k, h) : TRUE
  <2>5. OwnerOf(a, k, h) = <<c[1], IdOf(a, c[1], c[2])>>
    BY <2>1 DEF OwnerOf
  <2>6. c = <<p, o>>
    BY <2>4
  <2> HIDE DEF c
  <2> QED
    BY <2>5, <2>6
<1>2. ASSUME \A p, o : ~Owns(a, p, o, k, h)
      PROVE  OwnerOf(a, k, h) = None
  BY <1>2 DEF OwnersIn, OwnerOf
<1> QED
  BY <1>1, <1>2

(* Names and None keep owners apart.                                         *)
LEMMA OwnerIsKey ==
  ASSUME NEW a \in [Kinds -> Seq(Def)], GraphOK(a), NEW k \in Kinds, NEW h \in HandlesIn(a, k),
         NEW p \in Kinds, NEW o \in HandlesIn(a, p)
  PROVE  ObjectIn(a, k, h).owner = Abs!Key(ObjectIn(a, p, o)) <=> Owns(a, p, o, k, h)
<1>1. /\ Abs!Key(ObjectIn(a, p, o)) = <<p, IdOf(a, p, o)>>
      /\ ObjectIn(a, k, h).owner = OwnerOf(a, k, h)
  BY DEF Abs!Key, ObjectIn
<1>2. Len(a[p]) \in Nat /\ a[p] \in Seq(Def)
  BY LenProperties
<1>3. o + 1 \in 1..Len(a[p])
  BY <1>2 DEF HandlesIn
<1>4. a[p][o + 1] \in Def
  BY <1>2, <1>3, ElementOfSeq
<1>5. <<p, IdOf(a, p, o)>> # None
  BY <1>4, NoOwnerAssumption DEF IdOf, Def
<1>6. CASE \A q, n : ~Owns(a, q, n, k, h)
  BY <1>1, <1>5, <1>6, OwnerOfProps DEF GraphOK
<1>7. ASSUME NEW q, NEW n, Owns(a, q, n, k, h)
      PROVE  ObjectIn(a, k, h).owner = Abs!Key(ObjectIn(a, p, o)) <=> Owns(a, p, o, k, h)
  <2>1. OwnerOf(a, k, h) = <<q, IdOf(a, q, n)>>
    BY <1>7, OwnerOfProps DEF GraphOK
  <2>2. q \in Kinds /\ n \in HandlesIn(a, q)
    BY <1>7 DEF Owns, Kinds
  <2>3. <<q, IdOf(a, q, n)>> = <<p, IdOf(a, p, o)>> => q = p /\ n = o
    BY <2>2 DEF GraphOK, UniqueIds
  <2>4. Owns(a, p, o, k, h) => q = p /\ n = o
    BY <1>7 DEF GraphOK, OneOwner
  <2> QED
    BY <1>1, <1>7, <2>1, <2>3, <2>4
<1> QED
  BY <1>6, <1>7

-------------------------------------------------------------------------------
(* The graph of ArenaRefinement is the graph of its arenas.                  *)

(* Owners are read from back pointers; the lists say the same.               *)
LEMMA OwnersAgree ==
  ASSUME TypeOK, ArenaOK(arena), OwnershipOK(arena), NEW k \in Kinds, NEW h \in Handles(k)
  PROVE  OwnersOf(k, h) = OwnersIn(arena, k, h)
<1>1. /\ \A j : HandlesIn(arena, j) = Handles(j)
      /\ \A j \in Kinds : \A n \in Handles(j) : n \in Nat
  BY AtType DEF HandlesIn, Handles
<1>2. ASSUME NEW j \in Kinds, NEW n \in Handles(j), NEW role \in OwnRoles, NEW t
      PROVE  /\ t \in Targets(j, n, role) <=> Holds(arena, j, n, role, t)
             /\ Holds(arena, j, n, role, t) => t \in Handles(TargetKind(role)) /\ t \in Nat
  <2>1. t \in Targets(j, n, role) <=> Holds(arena, j, n, role, t)
    BY OwnTargets
  <2>2. Holds(arena, j, n, role, t) => t \in Handles(TargetKind(role))
    BY <1>1, HeldInRange
  <2> QED
    BY <1>1, <2>1, <2>2, TargetKindType, OwnRolesProps
<1>3. ASSUME NEW p, NEW down, NEW up, IsPair(p, down, k, up), NEW o
      PROVE  o \in Targets(k, h, up) <=>
               o \in Nat /\ o \in HandlesIn(arena, p) /\ Holds(arena, p, o, ListRole(k), h)
  <2>1. p \in Kinds /\ up \in OwnRoles /\ TargetKind(up) = p /\ down = ListRole(k)
    BY <1>3, PairRoles DEF OwnRoles
  <2>2. o \in Targets(k, h, up) <=> Holds(arena, k, h, up, o)
    BY <1>2, <2>1
  <2>3. Holds(arena, k, h, up, o) => o \in Handles(p) /\ o \in Nat
    BY <1>2, <2>1
  <2>4. o \in HandlesIn(arena, p) => (Holds(arena, p, o, ListRole(k), h) <=> Holds(arena, k, h, up, o))
    BY <1>1, <1>3, <2>1 DEF OwnershipOK, Mirrored
  <2> QED
    BY <1>1, <2>2, <2>3, <2>4
<1>4. ASSUME NEW p, NEW down, NEW up, IsPair(p, down, k, up), k # "generic_param"
      PROVE  OwnersIn(arena, k, h) = {<<"type", t>> : t \in Targets(k, h, up)}
  <2>1. p = "type"
    BY <1>4 DEF IsPair
  <2>2. ASSUME NEW t
        PROVE  <<"type", t>> \in OwnersIn(arena, k, h) <=> t \in Targets(k, h, up)
    <3>1. t \in Targets(k, h, up) <=>
            t \in Nat /\ t \in HandlesIn(arena, "type") /\ Holds(arena, "type", t, ListRole(k), h)
      BY <1>3, <1>4, <2>1
    <3>2. t \in HandlesIn(arena, "type") => t \in Nat
      BY DEF HandlesIn
    <3> QED
      BY <3>1, <3>2, OwnersInMeans DEF Owns
  <2>3. \A x \in OwnersIn(arena, k, h) : x = <<"type", x[2]>>
    BY <1>4 DEF OwnersIn, Owns
  <2> QED
    BY <2>2, <2>3
<1> DEFINE ofType    == {<<"type", t>> : t \in Targets("type", h, "declaring_type")}
           ofMethod  == {<<"type", t>> : t \in Targets("method", h, "method_declaring_type")}
           ofGeneric == {<<"type", t>> : t \in Targets(k, h, "owner_type")}
                          \cup {<<"method", m>> : m \in Targets(k, h, "owner_method")}
           ofMember  == {<<"type", t>> : t \in {u \in Handles("type") :
                           h \in Targets("type", u, ListRole(k))}}
<1>5. OwnersOf(k, h) = CASE k = "type"          -> ofType
                         [] k = "method"        -> ofMethod
                         [] k = "generic_param" -> ofGeneric
                         [] k \in MemberKinds   -> ofMember
  BY DEF OwnersOf
<1> HIDE DEF ofType, ofMethod, ofGeneric, ofMember
<1>6. /\ k = "type" => OwnersOf(k, h) = ofType
      /\ k = "method" => OwnersOf(k, h) = ofMethod
      /\ k = "generic_param" => OwnersOf(k, h) = ofGeneric
      /\ k \in MemberKinds => OwnersOf(k, h) = ofMember
  BY <1>5 DEF MemberKinds
<1>7. CASE k = "type"
  <2>1. OwnersOf(k, h) = ofType
    BY <1>7, <1>6
  <2>2. OwnersIn(arena, k, h) = ofType
    BY <1>4, <1>7 DEF IsPair, ofType
  <2> QED
    BY <2>1, <2>2
<1>8. CASE k = "method"
  <2>1. OwnersOf(k, h) = ofMethod
    BY <1>8, <1>6
  <2>2. OwnersIn(arena, k, h) = ofMethod
    BY <1>4, <1>8 DEF IsPair, ofMethod
  <2> QED
    BY <2>1, <2>2
<1>9. CASE k = "generic_param"
  <2>1. OwnersOf(k, h) = ofGeneric
    BY <1>9, <1>6
  <2>2. /\ \A t : <<"type", t>> \in OwnersIn(arena, k, h) <=> t \in Targets(k, h, "owner_type")
        /\ \A m : <<"method", m>> \in OwnersIn(arena, k, h) <=> m \in Targets(k, h, "owner_method")
    <3>1. /\ IsPair("type", "generic_parameters", k, "owner_type")
          /\ IsPair("method", "generic_parameters", k, "owner_method")
      BY <1>9 DEF IsPair
    <3>2. ASSUME NEW p, NEW up, IsPair(p, "generic_parameters", k, up), p \in {"type", "method"}, NEW o
          PROVE  <<p, o>> \in OwnersIn(arena, k, h) <=> o \in Targets(k, h, up)
      <4>1. o \in Targets(k, h, up) <=>
              o \in Nat /\ o \in HandlesIn(arena, p) /\ Holds(arena, p, o, ListRole(k), h)
        BY <1>3, <3>2
      <4>2. o \in HandlesIn(arena, p) => o \in Nat
        BY DEF HandlesIn
      <4> QED
        BY <1>9, <3>2, <4>1, <4>2, OwnersInMeans DEF Owns
    <3> QED
      BY <3>1, <3>2
  <2>3. \A x \in OwnersIn(arena, k, h) : x = <<"type", x[2]>> \/ x = <<"method", x[2]>>
    BY DEF OwnersIn, Owns
  <2>4. OwnersIn(arena, k, h) = ofGeneric
    BY <2>2, <2>3 DEF ofGeneric
  <2> QED
    BY <2>1, <2>4
<1>10. CASE k \in MemberKinds
  <2>1. OwnersOf(k, h) = ofMember
    BY <1>10, <1>6
  <2>2. \A t \in Handles("type") : h \in Targets("type", t, ListRole(k)) <=> Holds(arena, "type", t, ListRole(k), h)
    BY <1>2, ListRoleInjective, ListedKindsAreKinds DEF OwnRoles
  <2>3. k # "generic_param" /\ "type" \in Kinds
    BY <1>10 DEF MemberKinds, Kinds
  <2>4. \A t : <<"type", t>> \in OwnersIn(arena, k, h) <=>
                t \in Handles("type") /\ h \in Targets("type", t, ListRole(k))
    BY <1>1, <2>2, <2>3, OwnersInMeans DEF Owns
  <2>5. \A x \in OwnersIn(arena, k, h) : x = <<"type", x[2]>>
    BY <2>3 DEF OwnersIn, Owns
  <2>6. OwnersIn(arena, k, h) = ofMember
    BY <2>4, <2>5 DEF ofMember
  <2> QED
    BY <2>1, <2>6
<1> QED
  BY <1>7, <1>8, <1>9, <1>10 DEF Kinds, MemberKinds

(* So the two graphs are one.                                                *)
LEMMA GraphMeans == RefinementInv => ObjectsBar = Graph(arena)
<1> SUFFICES ASSUME RefinementInv PROVE ObjectsBar = Graph(arena)
  OBVIOUS
<1>1. TypeOK /\ ArenaOK(arena) /\ OwnershipOK(arena)
  BY ArenaOKMeans DEF RefinementInv, OwnershipInv, IInv, HandlesInRange, RefsInRange
<1>2. \A k : HandlesIn(arena, k) = Handles(k)
  BY DEF HandlesIn, Handles
<1>3. ASSUME NEW k \in Kinds, NEW h \in Handles(k)
      PROVE  Object(k, h) = ObjectIn(arena, k, h)
  <2>1. \A j, n : At(j, n).id = IdOf(arena, j, n)
    BY DEF At, IdOf
  <2>2. \A r : Named(r) = NamedIn(arena, r)
    BY <2>1 DEF Named, NamedIn
  <2>3. {Named(r) : r \in {x \in At(k, h).refs : x.role \notin ListRoles \cup OwnerRoles \cup Untouched}}
          = ShownIn(arena, k, h)
    BY <2>2 DEF ShownIn, Shown, OwnRoles, At
  <2>4. OwnersOf(k, h) = OwnersIn(arena, k, h)
    BY <1>1, OwnersAgree
  <2>5. (IF OwnersOf(k, h) = {} THEN None
           ELSE LET o == CHOOSE x \in OwnersOf(k, h) : TRUE IN <<o[1], At(o[1], o[2]).id>>)
          = OwnerOf(arena, k, h)
    BY <2>1, <2>4 DEF OwnerOf
  <2> QED
    BY <2>1, <2>3, <2>5 DEF Object, ObjectIn
<1> QED
  BY <1>2, <1>3 DEF ObjectsBar, Graph

-------------------------------------------------------------------------------
(* Additions.                                                               *)

(* b is the arenas with one more definition of kind k, listed by the members *)
(* of os (one or none).                                                      *)
AddedTo(b, k, os) ==
  /\ b \in [Kinds -> Seq(Def)]
  /\ \A j \in Kinds \ {k} : Len(b[j]) = Len(arena[j])
  /\ Len(b[k]) = Len(arena[k]) + 1
  /\ \A j \in Kinds : \A h \in Handles(j) :
       /\ IdOf(b, j, h) = IdOf(arena, j, h)
       /\ \A r : r \in b[j][h + 1].refs <=>
            \/ r \in At(j, h).refs
            \/ <<j, h>> \in os /\ r = OneTo(ListRole(k), Len(arena[k]))
  /\ IdOf(b, k, Len(arena[k])) \in Names \ Ids(k)
  /\ \A r \in b[k][Len(arena[k]) + 1].refs : r.role \in OwnerRoles

MayOwn(k, os) ==
  /\ \A x \in os : /\ x \in {"type", "method"} \X Nat /\ x[2] \in Handles(x[1])
                   /\ x[1] = "method" => k = "generic_param"
  /\ \A x, y \in os : x = y

(* The added definition's owner lists it; the others keep theirs.            *)
LEMMA AddedOwners ==
  ASSUME TypeOK, ArenaOK(arena), NEW k \in Kinds, NEW b, NEW os, AddedTo(b, k, os), MayOwn(k, os),
         NEW j \in Kinds, NEW h \in HandlesIn(b, j), NEW p, NEW o
  PROVE  Owns(b, p, o, j, h) <=> \/ h \in Handles(j) /\ Owns(arena, p, o, j, h)
                                 \/ j = k /\ h = Len(arena[k]) /\ <<p, o>> \in os
<1> DEFINE len == Len(arena[k])
           x == OneTo(ListRole(k), len)
           y == OneTo(ListRole(j), h)
<1>1. /\ \A i \in Kinds : Len(arena[i]) \in Nat /\ HandlesIn(arena, i) = Handles(i)
      /\ \A i \in Kinds : \A n \in Handles(i) : n \in HandlesIn(b, i)
      /\ \A i \in Kinds : \A n \in HandlesIn(b, i) : n \in Handles(i) \/ (i = k /\ n = len)
      /\ len \notin Handles(k) /\ len \in HandlesIn(b, k)
  BY SMTT(30), AtType DEF AddedTo, HandlesIn, Handles
<1>2. p \in {"type", "method"} => p \in Kinds
  BY DEF Kinds
<1>3. y = x => j = k /\ h = len
  BY ListRoleInjective, OneToInjective
<1>4. ListRole(j) \in ListRoles /\ ListRole(j) \in OwnRoles /\ TargetKind(ListRole(j)) = j /\ y.role = ListRole(j)
  BY ListRoleInjective DEF OwnRoles, OneTo
<1>5. ASSUME Owns(b, p, o, j, h)
      PROVE  \/ h \in Handles(j) /\ Owns(arena, p, o, j, h)
             \/ j = k /\ h = len /\ <<p, o>> \in os
  <2>1. p \in Kinds /\ o \in HandlesIn(b, p) /\ y \in b[p][o + 1].refs
    BY <1>2, <1>5 DEF Owns, Holds
  <2>2. CASE o \in Handles(p)
    <3>1. \/ y \in At(p, o).refs
          \/ <<p, o>> \in os /\ y = x
      BY <2>1, <2>2 DEF AddedTo
    <3>2. CASE y \in At(p, o).refs
      <4>1. o \in HandlesIn(arena, p) /\ Holds(arena, p, o, ListRole(j), h)
        BY <1>1, <2>1, <2>2, <3>2 DEF Holds, At
      <4>2. h \in Handles(j)
        BY <1>1, <1>4, <2>1, <4>1, HeldInRange
      <4> QED
        BY <1>5, <4>1, <4>2 DEF Owns
    <3> QED
      BY <1>3, <3>1, <3>2
  <2>3. CASE o \notin Handles(p)
    <3>1. p = k /\ o = len
      BY <1>1, <2>1, <2>3
    <3>2. y.role \in OwnerRoles
      BY <2>1, <3>1 DEF AddedTo
    <3> QED
      BY <1>4, <3>2, OwnRolesProps
  <2> QED
    BY <2>2, <2>3
<1>6. ASSUME h \in Handles(j), Owns(arena, p, o, j, h)
      PROVE  Owns(b, p, o, j, h)
  <2>1. p \in Kinds /\ o \in Handles(p) /\ y \in At(p, o).refs
    BY <1>1, <1>2, <1>6 DEF Owns, Holds, At
  <2>2. y \in b[p][o + 1].refs /\ o \in HandlesIn(b, p)
    BY <1>1, <2>1 DEF AddedTo
  <2> QED
    BY <1>6, <2>2 DEF Owns, Holds
<1>7. ASSUME j = k, h = len, <<p, o>> \in os
      PROVE  Owns(b, p, o, j, h)
  <2>1. p \in {"type", "method"} /\ o \in Handles(p) /\ (p = "method" => k = "generic_param")
    BY <1>7 DEF MayOwn
  <2>2. x \in b[p][o + 1].refs /\ o \in HandlesIn(b, p)
    BY <1>1, <1>2, <1>7, <2>1 DEF AddedTo
  <2> QED
    BY <1>7, <2>1, <2>2 DEF Owns, Holds
<1> QED
  BY <1>5, <1>6, <1>7

(* Names are read in range, so they do not see what is added.                *)
LEMMA SameNames ==
  ASSUME TypeOK, ArenaOK(arena), NEW b,
         \A j \in Kinds : \A h \in Handles(j) : IdOf(b, j, h) = IdOf(arena, j, h),
         NEW k \in Kinds, NEW h \in Handles(k), NEW r \in At(k, h).refs, Shown(r)
  PROVE  NamedIn(b, r) = NamedIn(arena, r)
<1>1. SlotsOK(arena, k, h, r) /\ r \in Ref(Nat)
  BY AtType DEF ArenaOK, Handles, At, Def
<1>2. r.role \in Roles /\ TargetKind(r.role) \in Kinds
  BY <1>1, TargetKindType DEF Ref
<1>3. \A i \in DOMAIN r.to : r.to[i] \in Handles(TargetKind(r.role))
  BY <1>1 DEF SlotsOK, Shown, Handles
<1>4. \A i \in DOMAIN r.to : IdOf(b, TargetKind(r.role), r.to[i]) = IdOf(arena, TargetKind(r.role), r.to[i])
  BY <1>2, <1>3
<1> QED
  BY <1>4 DEF NamedIn

(* An addition adds one object and changes none.                             *)
LEMMA AddedObject ==
  ASSUME TypeOK, ArenaOK(arena), GraphOK(arena), NEW k \in Kinds,
         NEW b, NEW os, AddedTo(b, k, os), MayOwn(k, os), NEW owner,
         \/ os = {} /\ owner = None
         \/ \E x \in os : owner = <<x[1], IdOf(arena, x[1], x[2])>>
  PROVE  /\ GraphOK(b)
         /\ Graph(b) = Abs!Added(Graph(arena), k, IdOf(b, k, Len(arena[k])), owner)
<1> DEFINE len == Len(arena[k])
           new == [kind |-> k, id |-> IdOf(b, k, len), owner |-> owner, refs |-> {}]
<1>1. /\ \A i \in Kinds : Len(arena[i]) \in Nat /\ HandlesIn(arena, i) = Handles(i)
      /\ \A i \in Kinds : \A n \in Handles(i) : n \in HandlesIn(b, i)
      /\ \A i \in Kinds : \A n \in HandlesIn(b, i) : n \in Handles(i) \/ (i = k /\ n = len)
      /\ len \notin Handles(k) /\ len \in HandlesIn(b, k)
  BY AtType DEF AddedTo, HandlesIn, Handles
<1>2. /\ \A j \in Kinds : \A h \in Handles(j) : IdOf(b, j, h) = IdOf(arena, j, h)
      /\ \A h \in Handles(k) : IdOf(arena, k, h) # IdOf(b, k, len)
  BY DEF AddedTo, Ids, At, IdOf
<1>3. \A j \in Kinds : \A h \in HandlesIn(b, j) : \A p, o :
        Owns(b, p, o, j, h) <=> \/ h \in Handles(j) /\ Owns(arena, p, o, j, h)
                                \/ j = k /\ h = len /\ <<p, o>> \in os
  BY ZenonT(60), AddedOwners
<1>4. UniqueIds(b)
  BY <1>1, <1>2 DEF GraphOK, UniqueIds
<1>5. OneOwner(b)
  <2> SUFFICES ASSUME NEW j \in Kinds, NEW h \in HandlesIn(b, j), NEW p1, NEW o1, NEW p2, NEW o2,
                      Owns(b, p1, o1, j, h), Owns(b, p2, o2, j, h)
               PROVE  p1 = p2 /\ o1 = o2
    BY DEF OneOwner
  <2>1. CASE h \in Handles(j) /\ Owns(arena, p1, o1, j, h) /\ Owns(arena, p2, o2, j, h)
    BY <1>1, <2>1 DEF GraphOK, OneOwner
  <2>2. CASE <<p1, o1>> \in os /\ <<p2, o2>> \in os
    <3>1. <<p1, o1>> = <<p2, o2>>
      BY <2>2 DEF MayOwn
    <3> QED
      BY <3>1
  <2> QED
    BY <1>1, <1>3, <2>1, <2>2
<1>6. ASSUME NEW j \in Kinds, NEW h \in Handles(j)
      PROVE  ObjectIn(b, j, h) = ObjectIn(arena, j, h)
  <2>1. OwnerOf(b, j, h) = OwnerOf(arena, j, h)
    <3>1. \A p, o : Owns(b, p, o, j, h) <=> Owns(arena, p, o, j, h)
      BY <1>1, <1>3
    <3>2. ASSUME NEW p, NEW o, Owns(arena, p, o, j, h)
          PROVE  OwnerOf(b, j, h) = OwnerOf(arena, j, h)
      <4>1. /\ OwnerOf(b, j, h) = <<p, IdOf(b, p, o)>>
            /\ OwnerOf(arena, j, h) = <<p, IdOf(arena, p, o)>>
        BY <1>1, <1>5, <3>1, <3>2, OwnerOfProps DEF GraphOK
      <4>2. p \in Kinds /\ o \in Handles(p)
        BY <1>1, <3>2 DEF Owns, Kinds
      <4> QED
        BY <1>2, <4>1, <4>2
    <3>3. CASE \A p, o : ~Owns(arena, p, o, j, h)
      BY <1>1, <1>5, <3>1, <3>3, OwnerOfProps DEF GraphOK
    <3> QED
      BY <3>2, <3>3
  <2>2. \A r : Shown(r) => (r \in b[j][h + 1].refs <=> r \in At(j, h).refs)
    <3>1. ~Shown(OneTo(ListRole(k), len))
      BY ListRoleInjective DEF Shown, OneTo, OwnRoles
    <3>2. \A r : r \in b[j][h + 1].refs <=>
            r \in At(j, h).refs \/ (<<j, h>> \in os /\ r = OneTo(ListRole(k), len))
      BY DEF AddedTo
    <3> QED
      BY <3>1, <3>2
  <2>3. \A r \in At(j, h).refs : Shown(r) => NamedIn(b, r) = NamedIn(arena, r)
    BY <1>2, SameNames
  <2>4. ShownIn(b, j, h) = ShownIn(arena, j, h)
    <3>1. {x \in b[j][h + 1].refs : Shown(x)} = {x \in At(j, h).refs : Shown(x)}
      BY <2>2
    <3>2. arena[j][h + 1] = At(j, h)
      BY DEF At
    <3> QED
      BY <2>3, <3>1, <3>2 DEF ShownIn
  <2> QED
    BY <1>2, <2>1, <2>4 DEF ObjectIn
<1>7. ObjectIn(b, k, len) = new
  <2>1. OwnerOf(b, k, len) = owner
    <3>1. CASE os = {} /\ owner = None
      BY <1>1, <1>3, <1>5, <3>1, OwnerOfProps
    <3>2. ASSUME NEW x \in os, owner = <<x[1], IdOf(arena, x[1], x[2])>>
          PROVE  OwnerOf(b, k, len) = owner
      <4>1. x[1] \in Kinds /\ x[2] \in Handles(x[1]) /\ x = <<x[1], x[2]>>
        BY DEF MayOwn, Kinds
      <4>2. Owns(b, x[1], x[2], k, len)
        BY <1>1, <1>3, <4>1
      <4> QED
        BY <1>1, <1>2, <1>5, <3>2, <4>1, <4>2, OwnerOfProps
    <3> QED
      BY <3>1, <3>2
  <2>2. ShownIn(b, k, len) = {}
    BY DEF ShownIn, Shown, AddedTo, OwnRoles
  <2> QED
    BY <2>1, <2>2 DEF ObjectIn
<1> HIDE DEF new, len
<1>8. Abs!Added(Graph(arena), k, IdOf(b, k, Len(arena[k])), owner) = Graph(arena) \cup {new}
  BY DEF Abs!Added, new, len
<1>9. Graph(b) = Graph(arena) \cup {new}
  <2>1. ASSUME NEW x \in Graph(b)
        PROVE  x \in Graph(arena) \cup {new}
    <3>1. PICK j \in Kinds : \E h \in HandlesIn(b, j) : x = ObjectIn(b, j, h)
      BY GraphMembers
    <3> QED
      BY <1>1, <1>6, <1>7, <3>1, GraphMembers
  <2>2. new \in Graph(b)
    BY <1>1, <1>7, GraphMembers
  <2>3. ASSUME NEW x \in Graph(arena)
        PROVE  x \in Graph(b)
    <3>1. PICK j \in Kinds : \E h \in HandlesIn(arena, j) : x = ObjectIn(arena, j, h)
      BY GraphMembers
    <3> QED
      BY <1>1, <1>6, <3>1, GraphMembers
  <2> QED
    BY <2>1, <2>2, <2>3
<1> QED
  BY <1>4, <1>5, <1>8, <1>9 DEF GraphOK

(* The appended definition has a new identity.                               *)
LEMMA AppendedIdentity ==
  ASSUME TypeOK, NEW k \in Kinds, CanAdd(k), NEW refs \in SUBSET Ref(Nat),
         NEW b, Grows(Appended(k, refs), b)
  PROVE  /\ b \in [Kinds -> Seq(Def)]
         /\ \A j \in Kinds : \A h \in Handles(j) : IdOf(b, j, h) = IdOf(arena, j, h)
         /\ IdOf(b, k, Len(arena[k])) \in Names \ Ids(k)
<1> DEFINE a == Appended(k, refs)
           len == Len(arena[k])
<1>1. /\ Grows(arena, a) /\ Len(a[k]) = len + 1
      /\ \A j \in Kinds : Len(arena[j]) \in Nat
      /\ \A j \in Kinds : \A h \in Handles(j) : h + 1 \in 1..Len(arena[j])
  BY AppendedGrows, AtType
<1>2. a[k][len + 1].id = Fresh(k)
  <2>1. arena \in [Kinds -> Seq(Def)] /\ arena[k] \in Seq(Def)
    BY DEF TypeOK
  <2>2. a[k] = Append(arena[k], [id |-> Fresh(k), refs |-> refs])
    BY <2>1 DEF Appended
  <2> QED
    BY <2>1, <2>2
<1>3. Fresh(k) \in Names \ Ids(k)
  BY DEF CanAdd, Fresh
<1> HIDE DEF a
<1>4. len + 1 \in 1..Len(a[k])
  BY <1>1
<1>5. IdOf(b, k, len) = a[k][len + 1].id
  BY <1>4 DEF Grows, IdOf, a
<1>6. ASSUME NEW j \in Kinds, NEW h \in Handles(j)
      PROVE  IdOf(b, j, h) = IdOf(arena, j, h)
  <2>1. h + 1 \in 1..Len(arena[j]) /\ a[j][h + 1].id = arena[j][h + 1].id
    BY <1>1 DEF Grows
  <2>2. Len(arena[j]) \in Nat /\ Len(a[j]) \in Nat /\ Len(arena[j]) <= Len(a[j])
    BY <1>1 DEF Grows
  <2>3. h + 1 \in 1..Len(a[j])
    BY <2>1, <2>2
  <2>4. b[j][h + 1].id = a[j][h + 1].id
    BY <2>3 DEF Grows, a
  <2> QED
    BY <2>1, <2>4 DEF IdOf
<1> QED
  BY <1>2, <1>3, <1>5, <1>6 DEF Grows

(* A definition added to an owner.                                           *)
LEMMA RegisteredIsAdded ==
  ASSUME TypeOK, NEW k \in Kinds, NEW ok \in Kinds, CanAdd(k), NEW owner \in Handles(ok),
         NEW refs \in SUBSET Ref(Nat), \A r \in refs : r.role \in OwnerRoles,
         NEW b, b = Register(Appended(k, refs), ok, owner, ListRole(k), Len(arena[k]))
  PROVE  AddedTo(b, k, {<<ok, owner>>})
<1> DEFINE a == Appended(k, refs)
           len == Len(arena[k])
           x == OneTo(ListRole(k), len)
<1>1. /\ \A j \in Kinds \ {k} : Len(b[j]) = Len(arena[j])
      /\ Len(b[k]) = len + 1
      /\ \A j \in Kinds : \A h \in HandlesIn(b, j) : \A r :
              r \in b[j][h + 1].refs <=>
                \/ h \in Handles(j) /\ r \in At(j, h).refs
                \/ j = ok /\ h = owner /\ r = x
                \/ j = k /\ h = len /\ r \in refs
  BY AddedSlots
<1>2. /\ \A j \in Kinds : Len(arena[j]) \in Nat
      /\ owner \in Nat /\ owner + 1 \in 1..Len(arena[ok])
  BY AtType
<1>3. /\ Grows(arena, a) /\ Len(a[k]) = len + 1
      /\ a \in [Kinds -> Seq(Def)] /\ Len(arena[ok]) <= Len(a[ok]) /\ Len(a[ok]) \in Nat
  BY AppendedGrows DEF Grows
<1>4. x \in Ref(Nat)
  BY <1>2, ListRoleProps DEF OneTo, Ref
<1>5. b = AddSlot(a, ok, owner + 1, x)
  BY DEF Register, AddSlot
<1>6. owner + 1 \in 1..Len(a[ok])
  BY <1>2, <1>3
<1>7. Grows(a, b)
  BY <1>3, <1>4, <1>5, <1>6, RegisterGrows
<1>8. /\ b \in [Kinds -> Seq(Def)]
      /\ \A j \in Kinds : \A h \in Handles(j) : IdOf(b, j, h) = IdOf(arena, j, h)
      /\ IdOf(b, k, len) \in Names \ Ids(k)
  BY <1>7, AppendedIdentity
<1>9. /\ \A j \in Kinds : \A h \in Handles(j) : h \in HandlesIn(b, j)
      /\ len \in HandlesIn(b, k)
      /\ \A h \in Handles(k) : h # len
  BY <1>1, <1>2 DEF HandlesIn, Handles
<1> HIDE DEF x, len, a
<1>10. ASSUME NEW j \in Kinds, NEW h \in Handles(j), NEW r
       PROVE  r \in b[j][h + 1].refs <=> r \in At(j, h).refs \/ (<<j, h>> \in {<<ok, owner>>} /\ r = x)
  BY <1>1, <1>9
<1>11. \A r \in b[k][len + 1].refs : r.role \in OwnerRoles
  <2>1. len \notin Handles(ok) \/ k # ok
    BY <1>9
  <2> QED
    BY <1>1, <1>9, <2>1
<1> QED
  BY <1>1, <1>8, <1>10, <1>11 DEF AddedTo, x, len

(* A definition added to nothing.                                            *)
LEMMA AppendedIsAdded ==
  ASSUME TypeOK, NEW k \in Kinds, CanAdd(k), NEW b, b = Appended(k, {})
  PROVE  AddedTo(b, k, {})
<1> DEFINE len == Len(arena[k])
<1>1. /\ Grows(arena, b) /\ Len(b[k]) = len + 1 /\ b[k][len + 1].refs = {}
      /\ \A i \in 1..len : b[k][i] = arena[k][i]
      /\ \A j \in Kinds \ {k} : b[j] = arena[j]
  BY AppendedGrows
<1>2. Grows(b, b)
  BY <1>1 DEF Grows
<1>3. /\ b \in [Kinds -> Seq(Def)]
      /\ \A j \in Kinds : \A h \in Handles(j) : IdOf(b, j, h) = IdOf(arena, j, h)
      /\ IdOf(b, k, len) \in Names \ Ids(k)
  BY <1>2, AppendedIdentity
<1>4. ASSUME NEW j \in Kinds, NEW h \in Handles(j)
      PROVE  b[j][h + 1].refs = At(j, h).refs
  <2>1. h + 1 \in 1..Len(arena[j]) /\ At(j, h) = arena[j][h + 1]
    BY AtType
  <2> QED
    BY <1>1, <2>1
<1> HIDE DEF len
<1> QED
  BY <1>1, <1>3, <1>4 DEF AddedTo, len

(* The live identities of a kind are those of its definitions.               *)
LEMMA LiveIdentities ==
  ASSUME NEW a, NEW k \in Kinds
  PROVE  Abs!Live(Graph(a), k) = {IdOf(a, k, h) : h \in HandlesIn(a, k)}
<1>1. \A j, h : ObjectIn(a, j, h).kind = j /\ ObjectIn(a, j, h).id = IdOf(a, j, h)
  BY DEF ObjectIn
<1>2. ASSUME NEW n \in Abs!Live(Graph(a), k)
      PROVE  \E h \in HandlesIn(a, k) : n = IdOf(a, k, h)
  <2>1. PICK x \in Graph(a) : x.kind = k /\ n = x.id
    BY DEF Abs!Live
  <2>2. PICK j \in Kinds : \E h \in HandlesIn(a, j) : x = ObjectIn(a, j, h)
    BY GraphMembers
  <2> QED
    BY <1>1, <2>1, <2>2
<1>3. ASSUME NEW h \in HandlesIn(a, k)
      PROVE  IdOf(a, k, h) \in Abs!Live(Graph(a), k)
  BY <1>1, GraphMembers DEF Abs!Live
<1> QED
  BY <1>2, <1>3

(* What may own a definition of ArenaModel may own its object.               *)
LEMMA MayOwnObject ==
  ASSUME NEW k \in Kinds, NEW p \in {"type", "method"}, p = "method" => k = "generic_param",
         NEW o \in Handles(p)
  PROVE  <<p, IdOf(arena, p, o)>> \in Abs!Owners(Graph(arena), k)
<1>1. p \in Kinds /\ o \in HandlesIn(arena, p)
  BY DEF Kinds, HandlesIn, Handles
<1> DEFINE n == IdOf(arena, p, o)
           types == {<<"type", i>> : i \in Abs!Live(Graph(arena), "type")}
           methods == {<<"method", i>> : i \in Abs!Live(Graph(arena), "method")}
<1>2. n \in Abs!Live(Graph(arena), p)
  BY <1>1, LiveIdentities
<1>3. p = "type" => <<p, n>> \in types
  BY <1>2
<1>4. p = "method" => <<p, n>> \in methods
  BY <1>2
<1>5. Abs!Owners(Graph(arena), k) = CASE k = "type"          -> types \cup {None}
                                      [] k = "generic_param" -> types \cup methods
                                      [] OTHER               -> types
  BY DEF Abs!Owners
<1> HIDE DEF types, methods, n
<1> QED
  BY <1>3, <1>4, <1>5 DEF n

AddsObject(g, after) ==
  \E k \in Kinds : \E n \in Names \ Abs!Live(g, k) : \E owner \in Abs!Owners(g, k) :
    after = Abs!Added(g, k, n, owner)

(* Each add_* adds an object.                                                *)
LEMMA AddsRefine ==
  ASSUME RefinementInv,
         \/ \E parent \in {None} \cup 0..Len(arena["type"]) : AddType(parent)
         \/ \E owner \in Handles("type") : AddMethod(owner)
         \/ \E k \in MemberKinds : \E owner \in Handles("type") : AddMember(k, owner)
         \/ \E k \in {"type", "method"} : \E owner \in Handles(k) : AddGenericParameter(k, owner)
  PROVE  GraphOK(arena') /\ AddsObject(Graph(arena), Graph(arena'))
<1>1. TypeOK /\ ArenaOK(arena) /\ GraphOK(arena)
  BY ArenaOKMeans DEF RefinementInv, OwnershipInv, IInv, HandlesInRange, RefsInRange
<1>2. ASSUME NEW k \in Kinds, NEW os, NEW owner \in Abs!Owners(Graph(arena), k),
             AddedTo(arena', k, os), MayOwn(k, os),
             \/ os = {} /\ owner = None
             \/ \E x \in os : owner = <<x[1], IdOf(arena, x[1], x[2])>>
      PROVE  GraphOK(arena') /\ AddsObject(Graph(arena), Graph(arena'))
  <2> DEFINE n == IdOf(arena', k, Len(arena[k]))
  <2>1. GraphOK(arena') /\ Graph(arena') = Abs!Added(Graph(arena), k, n, owner)
    BY <1>1, <1>2, AddedObject
  <2>2. Abs!Live(Graph(arena), k) = Ids(k)
    BY LiveIdentities DEF Ids, At, IdOf, HandlesIn, Handles
  <2>3. n \in Names \ Abs!Live(Graph(arena), k)
    BY <1>2, <2>2 DEF AddedTo
  <2> HIDE DEF n
  <2> QED
    BY <2>1, <2>3 DEF AddsObject
<1>3. ASSUME NEW k \in Kinds, NEW p \in {"type", "method"}, p = "method" => k = "generic_param",
             NEW o \in Handles(p), CanAdd(k), NEW refs, \A r \in refs : \E role \in OwnerRoles : r = OneTo(role, o),
             arena' = Register(Appended(k, refs), p, o, ListRole(k), Len(arena[k]))
      PROVE  GraphOK(arena') /\ AddsObject(Graph(arena), Graph(arena'))
  <2>1. p \in Kinds /\ o \in Nat
    BY <1>1, AtType DEF Kinds
  <2>2. ASSUME NEW r \in refs
        PROVE  r \in Ref(Nat) /\ r.role \in OwnerRoles
    <3>1. PICK role \in OwnerRoles : r = OneTo(role, o)
      BY <1>3
    <3>2. role \in Roles
      BY OwnRolesProps DEF OwnRoles
    <3> QED
      BY <2>1, <3>1, <3>2 DEF OneTo, Ref
  <2>3. AddedTo(arena', k, {<<p, o>>})
    BY <1>1, <1>3, <2>1, <2>2, RegisteredIsAdded
  <2>4. MayOwn(k, {<<p, o>>})
    BY <1>3, <2>1 DEF MayOwn
  <2>5. <<p, IdOf(arena, p, o)>> \in Abs!Owners(Graph(arena), k)
    BY <1>3, MayOwnObject
  <2> QED
    BY <1>2, <2>3, <2>4, <2>5
<1>4. ASSUME NEW parent, AddType(parent)
      PROVE  GraphOK(arena') /\ AddsObject(Graph(arena), Graph(arena'))
  <2>1. CASE parent \in Handles("type")
    <3>1. arena' = Register(Appended("type", {OneTo("declaring_type", parent)}),
                            "type", parent, ListRole("type"), Len(arena["type"]))
      BY <1>4, <2>1 DEF AddType, ListRole
    <3> QED
      BY <1>3, <1>4, <2>1, <3>1, ListedKindsAreKinds DEF AddType, OwnerRoles
  <2>2. CASE parent \notin Handles("type")
    <3>1. arena' = Appended("type", {}) /\ CanAdd("type")
      BY <1>4, <2>2 DEF AddType
    <3>2. AddedTo(arena', "type", {}) /\ MayOwn("type", {})
      BY <1>1, <3>1, AppendedIsAdded, ListedKindsAreKinds DEF MayOwn
    <3>3. None \in Abs!Owners(Graph(arena), "type")
      BY DEF Abs!Owners
    <3> QED
      BY <1>2, <3>2, <3>3, ListedKindsAreKinds
  <2> QED
    BY <2>1, <2>2
<1>5. ASSUME NEW owner \in Handles("type"), AddMethod(owner)
      PROVE  GraphOK(arena') /\ AddsObject(Graph(arena), Graph(arena'))
  <2> DEFINE refs == {OneTo("method_declaring_type", owner)}
  <2>1. arena' = Register(Appended("method", refs),
                          "type", owner, ListRole("method"), Len(arena["method"]))
    BY <1>5 DEF AddMethod, ListRole
  <2>2. "method" \in Kinds /\ CanAdd("method") /\ "method_declaring_type" \in OwnerRoles
    BY <1>5 DEF AddMethod, Kinds, OwnerRoles
  <2>3. \A r \in refs : \E role \in OwnerRoles : r = OneTo(role, owner)
    BY <2>2
  <2> HIDE DEF refs
  <2> QED
    BY <1>3, <2>1, <2>2, <2>3
<1>6. ASSUME NEW k \in MemberKinds, NEW owner \in Handles("type"), AddMember(k, owner)
      PROVE  GraphOK(arena') /\ AddsObject(Graph(arena), Graph(arena'))
  <2>1. arena' = Register(Appended(k, {}), "type", owner, ListRole(k), Len(arena[k]))
    BY <1>6 DEF AddMember
  <2>2. k \in Kinds /\ CanAdd(k)
    BY <1>6 DEF AddMember, Kinds, MemberKinds
  <2> QED
    BY <1>3, <2>1, <2>2
<1>7. ASSUME NEW p \in {"type", "method"}, NEW owner \in Handles(p), AddGenericParameter(p, owner)
      PROVE  GraphOK(arena') /\ AddsObject(Graph(arena), Graph(arena'))
  <2> DEFINE refs == {OneTo(OwnerRole(p), owner)}
  <2>1. arena' = Register(Appended("generic_param", refs),
                          p, owner, ListRole("generic_param"), Len(arena["generic_param"]))
    BY <1>7 DEF AddGenericParameter, ListRole
  <2>2. "generic_param" \in Kinds /\ CanAdd("generic_param") /\ OwnerRole(p) \in OwnerRoles
    BY <1>7 DEF AddGenericParameter, Kinds, OwnerRoles, OwnerRole
  <2>3. \A r \in refs : \E role \in OwnerRoles : r = OneTo(role, owner)
    BY <2>2
  <2> HIDE DEF refs
  <2> QED
    BY <1>3, <2>1, <2>2, <2>3
<1> QED
  BY <1>4, <1>5, <1>6, <1>7

-------------------------------------------------------------------------------
(* Caller edits.                                                            *)

(* b is the arenas with slot x authored on definition <<k, h>>.              *)
AuthoredTo(b, k, h, x) ==
  /\ \A j \in Kinds : HandlesIn(b, j) = Handles(j)
  /\ \A j \in Kinds : \A n \in Handles(j) :
       /\ IdOf(b, j, n) = IdOf(arena, j, n)
       /\ \A r : r \in b[j][n + 1].refs <=> r \in At(j, n).refs \/ (j = k /\ n = h /\ r = x)

LEMMA AuthorRefAuthors ==
  ASSUME TypeOK, NEW k \in Kinds, NEW h \in Handles(k), NEW role \in Authored,
         NEW to \in TargetTuples(role), AuthorRef(k, h, role, to)
  PROVE  AuthoredTo(arena', k, h, [role |-> role, to |-> to])
<1> DEFINE x == [role |-> role, to |-> to]
           d == [arena[k][h + 1] EXCEPT !.refs = @ \cup {x}]
           s == [arena[k] EXCEPT ![h + 1] = d]
           b == arena'
<1>1. /\ \A j \in Kinds : Len(arena[j]) \in Nat
      /\ arena \in [Kinds -> Seq(Def)] /\ h + 1 \in 1..Len(arena[k]) /\ h \in Nat
      /\ \A j \in Kinds : \A n \in Handles(j) : n + 1 \in 1..Len(arena[j]) /\ At(j, n) = arena[j][n + 1]
      /\ \A j \in Kinds : \A n \in Handles(j) : n \in Nat
  BY AtType DEF TypeOK
<1>2. b = [arena EXCEPT ![k] = s]
  BY DEF AuthorRef
<1>3. arena[k] \in Seq(Def) /\ arena[k][h + 1] \in Def
  BY <1>1, ElementOfSeq
<1>4. d.refs = arena[k][h + 1].refs \cup {x} /\ d.id = arena[k][h + 1].id
  BY <1>3 DEF Def
<1>5. Len(s) = Len(arena[k])
      /\ \A n \in 1..Len(arena[k]) : s[n] = IF n = h + 1 THEN d ELSE arena[k][n]
  BY <1>1, <1>3
<1> HIDE DEF d, s, x, b
<1>6. b[k] = s /\ \A i \in Kinds \ {k} : b[i] = arena[i]
  BY <1>1, <1>2
<1>7. \A j \in Kinds : HandlesIn(b, j) = Handles(j)
  BY <1>5, <1>6 DEF HandlesIn, Handles
<1>8. ASSUME NEW j \in Kinds, NEW n \in Handles(j)
      PROVE  /\ IdOf(b, j, n) = IdOf(arena, j, n)
             /\ \A r : r \in b[j][n + 1].refs <=> r \in At(j, n).refs \/ (j = k /\ n = h /\ r = x)
  <2>1. n + 1 \in 1..Len(arena[j]) /\ At(j, n) = arena[j][n + 1] /\ n \in Nat
    BY <1>1
  <2>2. CASE j = k /\ n = h
    BY <1>4, <1>5, <1>6, <2>1, <2>2 DEF IdOf
  <2>3. CASE ~(j = k /\ n = h)
    <3>1. b[j][n + 1] = arena[j][n + 1]
      BY <1>1, <1>5, <1>6, <2>1, <2>3
    <3> QED
      BY <2>1, <2>3, <3>1 DEF IdOf
  <2> QED
    BY <2>2, <2>3
<1> QED
  BY <1>7, <1>8 DEF AuthoredTo, b, x

(* An authored slot changes the references of one object, if it is shown.    *)
LEMMA AuthoredObject ==
  ASSUME TypeOK, ArenaOK(arena), GraphOK(arena), NEW k \in Kinds, NEW h \in Handles(k),
         NEW b, NEW x, AuthoredTo(b, k, h, x), x.role \notin OwnRoles
  PROVE  /\ GraphOK(b)
         /\ ~Shown(x) => Graph(b) = Graph(arena)
         /\ Shown(x) => Graph(b) = (Graph(arena) \ {ObjectIn(arena, k, h)})
                          \cup {[ObjectIn(arena, k, h) EXCEPT !.refs = @ \cup {NamedIn(b, x)}]}
<1>1. /\ \A j \in Kinds : HandlesIn(b, j) = Handles(j) /\ HandlesIn(arena, j) = Handles(j)
      /\ \A j \in Kinds : \A n \in Handles(j) : IdOf(b, j, n) = IdOf(arena, j, n)
  BY DEF AuthoredTo, HandlesIn, Handles
<1>2. ASSUME NEW j \in Kinds, NEW n, NEW p, NEW o
      PROVE  Owns(b, p, o, j, n) <=> Owns(arena, p, o, j, n)
  <2>1. p \in {"type", "method"} => p \in Kinds
    BY DEF Kinds
  <2>2. OneTo(ListRole(j), n) # x
    BY ListRoleInjective DEF OneTo, OwnRoles
  <2>3. ASSUME p \in Kinds, o \in Handles(p)
        PROVE  Holds(b, p, o, ListRole(j), n) <=> Holds(arena, p, o, ListRole(j), n)
    BY <2>2, <2>3 DEF AuthoredTo, Holds, At
  <2> QED
    BY <1>1, <2>1, <2>3 DEF Owns
<1>3. GraphOK(b)
  BY <1>1, <1>2 DEF GraphOK, UniqueIds, OneOwner
<1>4. ASSUME NEW j \in Kinds, NEW n \in Handles(j)
      PROVE  OwnerOf(b, j, n) = OwnerOf(arena, j, n)
  <2>1. ASSUME NEW p, NEW o, Owns(arena, p, o, j, n)
        PROVE  OwnerOf(b, j, n) = OwnerOf(arena, j, n)
    <3>1. /\ OwnerOf(b, j, n) = <<p, IdOf(b, p, o)>>
          /\ OwnerOf(arena, j, n) = <<p, IdOf(arena, p, o)>>
      BY <1>1, <1>2, <1>3, <2>1, OwnerOfProps DEF GraphOK
    <3>2. p \in Kinds /\ o \in Handles(p)
      BY <1>1, <2>1 DEF Owns, Kinds
    <3> QED
      BY <1>1, <3>1, <3>2
  <2>2. CASE \A p, o : ~Owns(arena, p, o, j, n)
    BY <1>1, <1>2, <1>3, <2>2, OwnerOfProps DEF GraphOK
  <2> QED
    BY <2>1, <2>2
<1>5. ASSUME NEW j \in Kinds, NEW n \in Handles(j)
      PROVE  ShownIn(b, j, n) = ShownIn(arena, j, n)
                 \cup {NamedIn(b, r) : r \in {y \in {x} : j = k /\ n = h /\ Shown(y)}}
  <2>1. \A r : r \in b[j][n + 1].refs <=> r \in At(j, n).refs \/ (j = k /\ n = h /\ r = x)
    BY DEF AuthoredTo
  <2>2. \A r \in At(j, n).refs : Shown(r) => NamedIn(b, r) = NamedIn(arena, r)
    BY <1>1, SameNames
  <2>3. arena[j][n + 1] = At(j, n)
    BY DEF At
  <2> QED
    BY <2>1, <2>2, <2>3 DEF ShownIn
<1> DEFINE o == ObjectIn(arena, k, h)
           o2 == [o EXCEPT !.refs = @ \cup {NamedIn(b, x)}]
<1>6. ASSUME NEW j \in Kinds, NEW n \in Handles(j), ~(j = k /\ n = h /\ Shown(x))
      PROVE  ObjectIn(b, j, n) = ObjectIn(arena, j, n)
  <2>1. ShownIn(b, j, n) = ShownIn(arena, j, n)
    BY <1>5, <1>6
  <2> QED
    BY <1>1, <1>4, <2>1 DEF ObjectIn
<1>7. ASSUME Shown(x)
      PROVE  ObjectIn(b, k, h) = o2
  <2>1. ShownIn(b, k, h) = ShownIn(arena, k, h) \cup {NamedIn(b, x)}
    BY <1>5, <1>7
  <2> QED
    BY <1>1, <1>4, <2>1 DEF ObjectIn
<1>8. \A j \in Kinds : \A n \in Handles(j) : ObjectIn(arena, j, n) = o <=> j = k /\ n = h
  BY <1>1, ObjectsDiffer DEF GraphOK
<1> HIDE DEF o2
<1>9. ASSUME ~Shown(x)
      PROVE  Graph(b) = Graph(arena)
  <2>1. \A j \in Kinds : \A n \in Handles(j) : ObjectIn(b, j, n) = ObjectIn(arena, j, n)
    BY <1>6, <1>9
  <2>2. \A y \in Graph(b) : y \in Graph(arena)
    BY <1>1, <2>1, GraphMembers
  <2>3. \A y \in Graph(arena) : y \in Graph(b)
    BY <1>1, <2>1, GraphMembers
  <2> QED
    BY <2>2, <2>3
<1>10. ASSUME Shown(x)
       PROVE  Graph(b) = (Graph(arena) \ {o}) \cup {o2}
  <2> HIDE DEF o
  <2>1. ASSUME NEW y \in Graph(b)
        PROVE  y \in (Graph(arena) \ {o}) \cup {o2}
    <3>1. PICK j \in Kinds : \E n \in HandlesIn(b, j) : y = ObjectIn(b, j, n)
      BY GraphMembers
    <3>2. PICK n \in HandlesIn(b, j) : y = ObjectIn(b, j, n)
      BY <3>1
    <3>3. CASE j = k /\ n = h
      BY <1>7, <1>10, <3>2, <3>3
    <3>4. CASE ~(j = k /\ n = h)
      <4>1. y = ObjectIn(arena, j, n) /\ y # o
        BY <1>1, <1>6, <1>8, <3>2, <3>4
      <4> QED
        BY <1>1, <4>1, GraphMembers
    <3> QED
      BY <3>3, <3>4
  <2>2. o2 \in Graph(b)
    BY <1>1, <1>7, <1>10, GraphMembers
  <2>3. ASSUME NEW y \in Graph(arena), y # o
        PROVE  y \in Graph(b)
    <3>1. PICK j \in Kinds : \E n \in HandlesIn(arena, j) : y = ObjectIn(arena, j, n)
      BY GraphMembers
    <3>2. PICK n \in HandlesIn(arena, j) : y = ObjectIn(arena, j, n)
      BY <3>1
    <3>3. y = ObjectIn(b, j, n)
      BY <1>1, <1>6, <1>8, <2>3, <3>2
    <3> QED
      BY <1>1, <3>3, GraphMembers
  <2> QED
    BY <2>1, <2>2, <2>3
<1> QED
  BY <1>3, <1>9, <1>10 DEF o, o2

AddsReference(g, after) ==
  \E o \in g : \E role \in Abs!RolesOf(o.kind) : \E to \in Abs!TargetsOf(g, role) :
    after = Abs!Referred(g, o, role, to)

(* A caller's edit adds a reference, or changes nothing that is shown.       *)
LEMMA AuthorRefRefines ==
  ASSUME RefinementInv, NEW k \in Kinds, NEW h \in Handles(k), NEW role \in Authored,
         NEW to \in TargetTuples(role), AuthorRef(k, h, role, to)
  PROVE  /\ GraphOK(arena')
         /\ \/ Graph(arena') = Graph(arena)
            \/ AddsReference(Graph(arena), Graph(arena'))
<1> DEFINE x == [role |-> role, to |-> to]
           b == arena'
           o == ObjectIn(arena, k, h)
<1>1. TypeOK /\ ArenaOK(arena) /\ GraphOK(arena)
  BY ArenaOKMeans DEF RefinementInv, OwnershipInv, IInv, HandlesInRange, RefsInRange
<1>2. AuthoredTo(b, k, h, x) /\ x.role \notin OwnRoles
  BY <1>1, AuthorRefAuthors, AuthoredAssumption DEF OwnRoles
<1>3. /\ GraphOK(b)
      /\ ~Shown(x) => Graph(b) = Graph(arena)
      /\ Shown(x) => Graph(b) = (Graph(arena) \ {o}) \cup {[o EXCEPT !.refs = @ \cup {NamedIn(b, x)}]}
  <2> HIDE DEF b, x
  <2> QED
    BY <1>1, <1>2, AuthoredObject
<1>4. o \in Graph(arena) /\ o.kind = k
  BY GraphMembers DEF ObjectIn, HandlesIn, Handles
<1>5. role \in Abs!RolesOf(k)
  BY SameVocabulary DEF AuthorRef
<1>6. role \in Roles /\ TargetKind(role) \in Kinds
  BY AuthoredAssumption, TargetKindType
<1> DEFINE named == [i \in DOMAIN to |-> IdOf(b, TargetKind(role), to[i])]
<1>7. NamedIn(b, x) = [role |-> role, to |-> named]
  BY DEF NamedIn
<1>8. \A j \in Kinds : \A n \in Handles(j) : IdOf(b, j, n) \in Abs!Live(Graph(arena), j)
  BY <1>2, LiveIdentities DEF AuthoredTo, HandlesIn, Handles
<1>9. named \in Abs!TargetsOf(Graph(arena), role)
  <2> HIDE DEF b
  <2>1. CASE role = "overrides"
    <3>1. PICK m1 \in Handles("method"), m2 \in Handles("method") : to = <<m1, m2>>
      BY <2>1 DEF TargetTuples
    <3>2. TargetKind(role) = "method"
      BY <2>1, OwnershipTargets
    <3>3. named = <<IdOf(b, "method", m1), IdOf(b, "method", m2)>>
      BY <3>1, <3>2
    <3>4. named \in Abs!Live(Graph(arena), "method") \X Abs!Live(Graph(arena), "method")
      BY <1>6, <1>8, <3>2, <3>3
    <3> QED
      BY <2>1, <3>4 DEF Abs!TargetsOf
  <2>2. CASE role # "overrides"
    <3>1. PICK t \in Handles(TargetKind(role)) : to = <<t>>
      BY <2>2 DEF TargetTuples
    <3>2. named = <<IdOf(b, TargetKind(role), t)>>
      BY <3>1
    <3>3. Abs!TargetsOf(Graph(arena), role) = {<<n>> : n \in Abs!Live(Graph(arena), TargetKind(role))}
      BY <2>2, SameVocabulary DEF Abs!TargetsOf
    <3> QED
      BY <1>6, <1>8, <3>2, <3>3
  <2> QED
    BY <2>1, <2>2
<1>10. Abs!Referred(Graph(arena), o, role, named)
         = (Graph(arena) \ {o}) \cup {[o EXCEPT !.refs = @ \cup {NamedIn(b, x)}]}
  BY <1>7 DEF Abs!Referred
<1> HIDE DEF x, b, o, named
<1> QED
  BY <1>3, <1>4, <1>5, <1>9, <1>10 DEF AddsReference, b

-------------------------------------------------------------------------------
(* Removal: what compact() does to the graph.                               *)

Compacting(removed, maps, detached, b) ==
  /\ ~NothingIn(removed) /\ maps = ArenaMaps(removed)
  /\ TreeRemoval(detached, removed)
  /\ Compaction(b, maps, detached)

(* What an owner that dies owns dies with it.                                *)
OwnedDies(removed) ==
  \A k \in Kinds : \A h \in Handles(k) : \A p, o :
    Owns(arena, p, o, k, h) /\ o \in Dead(p, removed) => h \in Dead(k, removed)

DeadObjects(removed) ==
  UNION {{ObjectIn(arena, k, h) : h \in Handles(k) \cap Dead(k, removed)} : k \in Kinds}

Gone(removed) == {Abs!Key(x) : x \in DeadObjects(removed)}

(* The keys of the dead are those of the removed handles.                    *)
LEMMA GoneKeys ==
  ASSUME UniqueIds(arena), NEW removed, NEW k \in Kinds, NEW h \in Handles(k)
  PROVE  /\ <<k, IdOf(arena, k, h)>> \in Gone(removed) <=> h \in Dead(k, removed)
         /\ ObjectIn(arena, k, h) \in DeadObjects(removed) <=> h \in Dead(k, removed)
<1>1. \A j \in Kinds : HandlesIn(arena, j) = Handles(j)
  BY DEF HandlesIn, Handles
<1>2. \A x \in DeadObjects(removed) : \E j \in Kinds : \E n \in Handles(j) :
        n \in Dead(j, removed) /\ x = ObjectIn(arena, j, n)
  BY DEF DeadObjects
<1>3. \A j \in Kinds : \A n \in Handles(j) :
        n \in Dead(j, removed) => ObjectIn(arena, j, n) \in DeadObjects(removed)
  BY DEF DeadObjects
<1>4. \A x \in Gone(removed) : \E j \in Kinds : \E n \in Handles(j) :
        n \in Dead(j, removed) /\ x = Abs!Key(ObjectIn(arena, j, n))
  BY <1>2 DEF Gone
<1>5. \A j \in Kinds : \A n \in Handles(j) :
        n \in Dead(j, removed) => Abs!Key(ObjectIn(arena, j, n)) \in Gone(removed)
  BY <1>3 DEF Gone
<1> QED
  BY <1>1, <1>2, <1>3, <1>4, <1>5, ObjectsDiffer

(* Between survivors compaction keeps exactly the ownership.                 *)
LEMMA SurvivingOwners ==
  ASSUME TypeOK, ArenaOK(arena), OwnershipOK(arena), NEW removed, NEW maps, NEW detached, NEW b,
         Compacting(removed, maps, detached, b),
         NEW k \in Kinds, NEW h \in Kept(maps[k]), NEW p, NEW n
  PROVE  Owns(b, p, n, k, maps[k][h]) <=>
           \E o \in Kept(maps[p]) : n = maps[p][o] /\ Owns(arena, p, o, k, h)
<1>1. ListRole(k) \in OwnRoles /\ TargetKind(ListRole(k)) = k
  BY ListRoleInjective DEF OwnRoles
<1>2. ASSUME p \in Kinds, NEW o \in Kept(maps[p])
      PROVE  /\ o \in HandlesIn(arena, p) /\ maps[p][o] \in HandlesIn(b, p)
             /\ Holds(b, p, maps[p][o], ListRole(k), maps[k][h]) <=> Holds(arena, p, o, ListRole(k), h)
  <2>1. o \in Handles(p) /\ maps[p][o] \in 0..(Len(b[p]) - 1)
    BY <1>2 DEF Compacting, Compaction
  <2>2. \A t \in Kept(maps[TargetKind(ListRole(k))]) :
          Holds(b, p, maps[p][o], ListRole(k), maps[TargetKind(ListRole(k))][t])
            <=> Holds(arena, p, o, ListRole(k), t)
    BY <1>1, <1>2, SurvivingSlots DEF Compacting
  <2>3. Holds(b, p, maps[p][o], ListRole(k), maps[k][h]) <=> Holds(arena, p, o, ListRole(k), h)
    BY <1>1, <2>2
  <2> QED
    BY <2>1, <2>3 DEF HandlesIn, Handles
<1>3. p \in {"type", "method"} => p \in Kinds
  BY DEF Kinds
<1>4. p \in Kinds /\ n \in HandlesIn(b, p) => \E o \in Kept(maps[p]) : n = maps[p][o]
  BY DEF Compacting, Compaction, HandlesIn
<1>5. ASSUME Owns(b, p, n, k, maps[k][h])
      PROVE  \E o \in Kept(maps[p]) : n = maps[p][o] /\ Owns(arena, p, o, k, h)
  BY <1>2, <1>3, <1>4, <1>5 DEF Owns
<1>6. ASSUME NEW o \in Kept(maps[p]), n = maps[p][o], Owns(arena, p, o, k, h)
      PROVE  Owns(b, p, n, k, maps[k][h])
  BY <1>2, <1>3, <1>6 DEF Owns
<1> QED
  BY <1>5, <1>6

(* A slot is dead when it names a definition that is.                        *)
LEMMA AliveMeansSurvives ==
  ASSUME TypeOK, ArenaOK(arena), UniqueIds(arena), NEW removed, NEW maps, NEW detached, NEW b,
         Compacting(removed, maps, detached, b),
         NEW k \in Kinds, NEW h \in Handles(k), NEW r \in At(k, h).refs, Shown(r)
  PROVE  /\ Alive(maps, r) <=> Abs!Survives(Gone(removed), NamedIn(arena, r))
         /\ Alive(maps, r) => NamedIn(b, Moved(maps, r)) = NamedIn(arena, r)
         /\ Moved(maps, r).role = r.role
<1> DEFINE t == TargetKind(r.role)
<1>1. SlotsOK(arena, k, h, r) /\ r \in Ref(Nat)
  BY AtType DEF ArenaOK, Handles, At, Def
<1>2. t \in Kinds
  BY <1>1, TargetKindType DEF Ref
<1>3. \A i \in DOMAIN r.to : r.to[i] \in Handles(t)
  BY <1>1 DEF SlotsOK, Shown, Handles
<1>4. \A n \in Handles(t) : /\ n \in DOMAIN maps[t]
                            /\ maps[t][n] = None <=> n \in Dead(t, removed)
  BY <1>2, ArenaMapsProps DEF Compacting
<1>5. \A n \in Handles(t) : Get(maps[t], n) = maps[t][n]
  BY <1>4 DEF Get
<1>6. \A n \in Handles(t) : <<t, IdOf(arena, t, n)>> \in Gone(removed) <=> n \in Dead(t, removed)
  BY <1>2, GoneKeys
<1>7. /\ NamedIn(arena, r).role = r.role
      /\ DOMAIN NamedIn(arena, r).to = DOMAIN r.to
      /\ \A i \in DOMAIN r.to : NamedIn(arena, r).to[i] = IdOf(arena, t, r.to[i])
  BY DEF NamedIn
<1>8. Abs!TargetKind(r.role) = t
  BY SameVocabulary
<1> HIDE DEF t
<1>9. Alive(maps, r) <=> \A i \in DOMAIN r.to : r.to[i] \notin Dead(t, removed)
  BY <1>3, <1>4, <1>5 DEF Alive, t
<1>10. Abs!Survives(Gone(removed), NamedIn(arena, r)) <=> \A i \in DOMAIN r.to : r.to[i] \notin Dead(t, removed)
  BY <1>3, <1>6, <1>7, <1>8 DEF Abs!Survives
<1>11. ASSUME Alive(maps, r)
       PROVE  NamedIn(b, Moved(maps, r)) = NamedIn(arena, r)
  <2>1. \A i \in DOMAIN r.to : r.to[i] \in Kept(maps[t]) /\ Get(maps[t], r.to[i]) = maps[t][r.to[i]]
    BY <1>3, <1>4, <1>5, <1>9, <1>11 DEF Kept
  <2>2. \A n \in Kept(maps[t]) : IdOf(b, t, maps[t][n]) = IdOf(arena, t, n)
    BY <1>2 DEF Compacting, Compaction, IdOf, At
  <2>3. Moved(maps, r) = [role |-> r.role, to |-> [i \in DOMAIN r.to |-> Get(maps[t], r.to[i])]]
    BY DEF Moved, t
  <2>4. \A i \in DOMAIN r.to : IdOf(b, t, Get(maps[t], r.to[i])) = IdOf(arena, t, r.to[i])
    BY <2>1, <2>2
  <2> DEFINE moved == [i \in DOMAIN r.to |-> Get(maps[t], r.to[i])]
  <2>5. [i \in DOMAIN moved |-> IdOf(b, t, moved[i])] = [i \in DOMAIN r.to |-> IdOf(arena, t, r.to[i])]
    BY <2>4
  <2> HIDE DEF moved
  <2>6. NamedIn(b, Moved(maps, r)) = [role |-> r.role, to |-> [i \in DOMAIN moved |-> IdOf(b, t, moved[i])]]
    BY <2>3 DEF NamedIn, t, moved
  <2> QED
    BY <2>5, <2>6 DEF NamedIn, t
<1>12. Moved(maps, r).role = r.role
  BY DEF Moved
<1> QED
  BY <1>9, <1>10, <1>11, <1>12

(* A survivor keeps its references to survivors, the others are pruned.      *)
LEMMA SurvivingReferences ==
  ASSUME TypeOK, ArenaOK(arena), UniqueIds(arena), NEW removed, NEW maps, NEW detached, NEW b,
         Compacting(removed, maps, detached, b),
         NEW k \in Kinds, NEW h \in Kept(maps[k])
  PROVE  ShownIn(b, k, maps[k][h]) = Abs!Pruned(Gone(removed), ShownIn(arena, k, h))
<1> DEFINE D == detached[k][h + 1].refs
           gone == Gone(removed)
           Sentineled(r) == [role |-> r.role, to |-> <<>>]
<1>1. /\ h \in Handles(k) /\ D \subseteq At(k, h).refs
      /\ b[k][maps[k][h] + 1].refs = RemapRefs(maps, D)
  BY DEF Compacting, Compaction, TreeRemoval, GoodRemoval
<1>2. \A r \in At(k, h).refs : Shown(r) => r \in D
  <2>1. ASSUME NEW r \in At(k, h).refs, r \notin D
        PROVE  r.role \in ListRoles
    <3>1. PICK role \in ListRoles : \E t : r = OneTo(role, t)
      BY <1>1, <2>1 DEF Compacting, TreeRemoval
    <3> QED
      BY <3>1 DEF OneTo
  <2> QED
    BY <2>1 DEF Shown, OwnRoles
<1>3. arena[k][h + 1] = At(k, h)
  BY DEF At
<1>4. ASSUME NEW r \in At(k, h).refs, Shown(r)
      PROVE  /\ Alive(maps, r) <=> Abs!Survives(gone, NamedIn(arena, r))
             /\ Alive(maps, r) => NamedIn(b, Moved(maps, r)) = NamedIn(arena, r)
             /\ Moved(maps, r).role = r.role /\ NamedIn(arena, r).role = r.role
             /\ NamedIn(arena, r) \in ShownIn(arena, k, h)
             /\ r \in D /\ r.role \notin Untouched
  <2>1. NamedIn(arena, r).role = r.role
    BY DEF NamedIn
  <2>2. NamedIn(arena, r) \in ShownIn(arena, k, h)
    BY <1>3, <1>4 DEF ShownIn
  <2> QED
    BY <1>1, <1>2, <1>4, <2>1, <2>2, AliveMeansSurvives DEF Shown
<1>5. \A r : NamedIn(b, Sentineled(r)) = Sentineled(r) /\ Sentineled(r).role = r.role
  BY DEF NamedIn
<1>6. \A r : Shown(r) => r.role \notin IfMapped
  BY DEF Shown, IfMapped, OwnRoles, OwnerRoles
<1>7. ASSUME NEW y \in ShownIn(b, k, maps[k][h])
      PROVE  y \in Abs!Pruned(gone, ShownIn(arena, k, h))
  <2>1. PICK x \in RemapRefs(maps, D) : Shown(x) /\ y = NamedIn(b, x)
    BY <1>1, <1>7 DEF ShownIn
  <2>2. x.role \notin Untouched /\ x.role \notin IfMapped
    BY <1>6, <2>1 DEF Shown
  <2>3. \/ \E r \in D : Alive(maps, r) /\ x = Moved(maps, r)
        \/ \E r \in D : ~Alive(maps, r) /\ r.role \in Sentinel /\ x = Sentineled(r)
    BY <2>1, <2>2 DEF RemapRefs
  <2>4. ASSUME NEW r \in D, Alive(maps, r), x = Moved(maps, r)
        PROVE  y \in Abs!Pruned(gone, ShownIn(arena, k, h))
    <3>1. Shown(r)
      BY <2>1, <2>4 DEF Moved, Shown
    <3>2. y = NamedIn(arena, r) /\ Abs!Survives(gone, y) /\ y \in ShownIn(arena, k, h)
      BY <1>1, <1>4, <2>1, <2>4, <3>1
    <3> QED
      BY <3>2 DEF Abs!Pruned
  <2>5. ASSUME NEW r \in D, ~Alive(maps, r), r.role \in Sentinel, x = Sentineled(r)
        PROVE  y \in Abs!Pruned(gone, ShownIn(arena, k, h))
    <3>1. Shown(r)
      BY <1>5, <2>1, <2>5 DEF Shown
    <3> DEFINE z == NamedIn(arena, r)
    <3>2. z \in ShownIn(arena, k, h) /\ ~Abs!Survives(gone, z) /\ z.role = r.role
      BY <1>1, <1>4, <2>5, <3>1
    <3>3. y = [role |-> z.role, to |-> <<>>]
      BY <1>5, <2>1, <2>5, <3>2
    <3> HIDE DEF z
    <3> QED
      BY <2>5, <3>2, <3>3, SameVocabulary DEF Abs!Pruned
  <2> QED
    BY <2>3, <2>4, <2>5
<1>8. ASSUME NEW y \in Abs!Pruned(gone, ShownIn(arena, k, h))
      PROVE  y \in ShownIn(b, k, maps[k][h])
  <2>1. \A x \in RemapRefs(maps, D) : Shown(x) => NamedIn(b, x) \in ShownIn(b, k, maps[k][h])
    BY <1>1 DEF ShownIn
  <2>2. \A z \in ShownIn(arena, k, h) : \E r \in At(k, h).refs : Shown(r) /\ z = NamedIn(arena, r)
    BY <1>3 DEF ShownIn
  <2>3. \/ y \in ShownIn(arena, k, h) /\ Abs!Survives(gone, y)
        \/ \E z \in ShownIn(arena, k, h) : /\ ~Abs!Survives(gone, z) /\ z.role \in Sentinel
                                           /\ y = [role |-> z.role, to |-> <<>>]
    BY <1>8, SameVocabulary DEF Abs!Pruned
  <2>4. CASE y \in ShownIn(arena, k, h) /\ Abs!Survives(gone, y)
    <3>1. PICK r \in At(k, h).refs : Shown(r) /\ y = NamedIn(arena, r)
      BY <2>2, <2>4
    <3>2. Alive(maps, r) /\ NamedIn(b, Moved(maps, r)) = y /\ Shown(Moved(maps, r))
      BY <1>4, <2>4, <3>1 DEF Shown
    <3>3. Moved(maps, r) \in RemapRefs(maps, D)
      BY <1>4, <3>1, <3>2 DEF RemapRefs
    <3> QED
      BY <2>1, <3>2, <3>3
  <2>5. ASSUME NEW z \in ShownIn(arena, k, h), ~Abs!Survives(gone, z), z.role \in Sentinel,
               y = [role |-> z.role, to |-> <<>>]
        PROVE  y \in ShownIn(b, k, maps[k][h])
    <3>1. PICK r \in At(k, h).refs : Shown(r) /\ z = NamedIn(arena, r)
      BY <2>2
    <3>2. ~Alive(maps, r) /\ r.role \in Sentinel /\ y = Sentineled(r) /\ Shown(Sentineled(r))
      BY <1>4, <1>5, <2>5, <3>1 DEF Shown
    <3>3. Sentineled(r) \in RemapRefs(maps, D)
      BY <1>4, <3>1, <3>2 DEF RemapRefs
    <3> QED
      BY <1>5, <2>1, <3>2, <3>3
  <2> QED
    BY <2>3, <2>4, <2>5
<1> QED
  BY <1>7, <1>8

(* Compaction removes the dead objects and prunes the others.                *)
LEMMA CompactedGraph ==
  ASSUME TypeOK, ArenaOK(arena), OwnershipOK(arena), GraphOK(arena),
         NEW removed, NEW maps, NEW detached, NEW b,
         Compacting(removed, maps, detached, b), OwnedDies(removed)
  PROVE  GraphOK(b) /\ Graph(b) = Abs!Without(Graph(arena), DeadObjects(removed))
<1>1. \A k \in Kinds : HandlesIn(arena, k) = Handles(k)
  BY DEF HandlesIn, Handles
<1>2. ASSUME NEW k \in Kinds
      PROVE  /\ \A h \in Kept(maps[k]) : /\ h \in Handles(k) /\ h \notin Dead(k, removed)
                                         /\ maps[k][h] \in HandlesIn(b, k)
                                         /\ IdOf(b, k, maps[k][h]) = IdOf(arena, k, h)
             /\ \A h \in Handles(k) : h \notin Dead(k, removed) => h \in Kept(maps[k])
             /\ \A n \in HandlesIn(b, k) : \E h \in Kept(maps[k]) : n = maps[k][h]
             /\ \A g, h \in Kept(maps[k]) : maps[k][g] = maps[k][h] => g = h
  BY RemovalMaps DEF Compacting, Compaction, HandlesIn, IdOf, At
<1>3. \A k \in Kinds : \A h \in Kept(maps[k]) : \A p, n :
        Owns(b, p, n, k, maps[k][h]) <=> \E o \in Kept(maps[p]) : n = maps[p][o] /\ Owns(arena, p, o, k, h)
  BY SurvivingOwners
<1>4. UniqueIds(b)
  BY <1>1, <1>2 DEF GraphOK, UniqueIds
<1>5. OneOwner(b)
  <2> SUFFICES ASSUME NEW k \in Kinds, NEW n \in HandlesIn(b, k), NEW p1, NEW o1, NEW p2, NEW o2,
                      Owns(b, p1, o1, k, n), Owns(b, p2, o2, k, n)
               PROVE  p1 = p2 /\ o1 = o2
    BY DEF OneOwner
  <2>1. PICK h \in Kept(maps[k]) : n = maps[k][h]
    BY <1>2
  <2>2. PICK q1 \in Kept(maps[p1]) : o1 = maps[p1][q1] /\ Owns(arena, p1, q1, k, h)
    BY <1>3, <2>1
  <2>3. PICK q2 \in Kept(maps[p2]) : o2 = maps[p2][q2] /\ Owns(arena, p2, q2, k, h)
    BY <1>3, <2>1
  <2>4. p1 = p2 /\ q1 = q2
    BY <1>1, <1>2, <2>1, <2>2, <2>3 DEF GraphOK, OneOwner
  <2> QED
    BY <2>2, <2>3, <2>4
<1>6. ASSUME NEW k \in Kinds, NEW h \in Kept(maps[k])
      PROVE  OwnerOf(b, k, maps[k][h]) = OwnerOf(arena, k, h)
  <2>1. h \in Handles(k) /\ h \in HandlesIn(arena, k) /\ maps[k][h] \in HandlesIn(b, k)
        /\ h \notin Dead(k, removed)
    BY <1>1, <1>2
  <2>2. ASSUME NEW p, NEW o, Owns(arena, p, o, k, h)
        PROVE  OwnerOf(b, k, maps[k][h]) = OwnerOf(arena, k, h)
    <3>1. p \in Kinds /\ o \in Handles(p)
      BY <1>1, <2>2 DEF Owns, Kinds
    <3>2. o \in Kept(maps[p])
      BY <1>2, <2>1, <2>2, <3>1 DEF OwnedDies
    <3>3. Owns(b, p, maps[p][o], k, maps[k][h])
      BY <1>3, <2>2, <3>2
    <3>4. /\ OwnerOf(b, k, maps[k][h]) = <<p, IdOf(b, p, maps[p][o])>>
          /\ OwnerOf(arena, k, h) = <<p, IdOf(arena, p, o)>>
      BY <1>5, <2>1, <2>2, <3>3, OwnerOfProps DEF GraphOK
    <3> QED
      BY <1>2, <3>1, <3>2, <3>4
  <2>3. CASE \A p, o : ~Owns(arena, p, o, k, h)
    <3>1. \A p, n : ~Owns(b, p, n, k, maps[k][h])
      BY <1>3, <2>3
    <3>2. OwnerOf(b, k, maps[k][h]) = None /\ OwnerOf(arena, k, h) = None
      BY <1>5, <2>1, <2>3, <3>1, OwnerOfProps DEF GraphOK
    <3> QED
      BY <3>2
  <2> QED
    BY <2>2, <2>3
<1> DEFINE After(x) == [x EXCEPT !.refs = Abs!Pruned(Gone(removed), @)]
<1>7. ASSUME NEW k \in Kinds, NEW h \in Kept(maps[k])
      PROVE  ObjectIn(b, k, maps[k][h]) = After(ObjectIn(arena, k, h))
  <2>1. ShownIn(b, k, maps[k][h]) = Abs!Pruned(Gone(removed), ShownIn(arena, k, h))
    BY SurvivingReferences DEF GraphOK
  <2>2. IdOf(b, k, maps[k][h]) = IdOf(arena, k, h)
    BY <1>2
  <2> QED
    BY <1>6, <2>1, <2>2 DEF ObjectIn
<1> HIDE DEF After
<1>8. Abs!Without(Graph(arena), DeadObjects(removed)) = {After(x) : x \in Graph(arena) \ DeadObjects(removed)}
  BY DEF Abs!Without, Gone, After
<1>9. ASSUME NEW y \in Graph(b)
      PROVE  \E x \in Graph(arena) \ DeadObjects(removed) : y = After(x)
  <2>1. PICK k \in Kinds : \E n \in HandlesIn(b, k) : y = ObjectIn(b, k, n)
    BY GraphMembers
  <2>2. PICK h \in Kept(maps[k]) : y = ObjectIn(b, k, maps[k][h])
    BY <1>2, <2>1
  <2>3. h \in Handles(k) /\ ObjectIn(arena, k, h) \in Graph(arena)
    BY <1>1, <1>2, GraphMembers
  <2>4. ObjectIn(arena, k, h) \notin DeadObjects(removed)
    BY <1>2, <2>3, GoneKeys DEF GraphOK
  <2> QED
    BY <1>7, <2>2, <2>3, <2>4
<1>10. ASSUME NEW x \in Graph(arena) \ DeadObjects(removed)
       PROVE  After(x) \in Graph(b)
  <2>1. PICK k \in Kinds : \E h \in HandlesIn(arena, k) : x = ObjectIn(arena, k, h)
    BY GraphMembers
  <2>2. PICK h \in HandlesIn(arena, k) : x = ObjectIn(arena, k, h)
    BY <2>1
  <2>3. h \in Handles(k) /\ h \notin Dead(k, removed)
    BY <1>1, <2>2, GoneKeys DEF GraphOK
  <2>4. h \in Kept(maps[k]) /\ maps[k][h] \in HandlesIn(b, k)
    BY <1>2, <2>3
  <2> QED
    BY <1>7, <2>2, <2>4, GraphMembers
<1>11. Graph(b) = {After(x) : x \in Graph(arena) \ DeadObjects(removed)}
  BY <1>9, <1>10
<1> QED
  BY <1>4, <1>5, <1>8, <1>11 DEF GraphOK

-------------------------------------------------------------------------------
(* Removal: what dies is what the removed definition owns.                  *)

(* Nothing dies but what <<root, id>> owns, directly or not.                 *)
OnlyOwnedDies(removed, root, id) ==
  \A D :
    /\ id \in D[root]
    /\ \A k \in Kinds : \A h \in Handles(k) : \A p, o :
         Owns(arena, p, o, k, h) /\ o \in D[p] => h \in D[k]
    => \A k \in Kinds : \A h \in Handles(k) : h \in Dead(k, removed) => h \in D[k]

LEMMA DeadAreOwned ==
  ASSUME TypeOK, GraphOK(arena), NEW removed, NEW root \in Kinds, NEW id \in Handles(root),
         id \in Dead(root, removed), OwnedDies(removed), OnlyOwnedDies(removed, root, id)
  PROVE  Abs!OwnedBy(Graph(arena), ObjectIn(arena, root, id)) = DeadObjects(removed)
<1> DEFINE g == Graph(arena)
           o == ObjectIn(arena, root, id)
           dead == DeadObjects(removed)
<1>1. \A k \in Kinds : HandlesIn(arena, k) = Handles(k)
  BY DEF HandlesIn, Handles
<1>2. \A k \in Kinds : \A h \in Handles(k) : \A p \in Kinds : \A n \in Handles(p) :
        ObjectIn(arena, k, h).owner = Abs!Key(ObjectIn(arena, p, n)) <=> Owns(arena, p, n, k, h)
  BY <1>1, OwnerIsKey DEF TypeOK
<1>3. \A x \in g : \E k \in Kinds : \E h \in Handles(k) : x = ObjectIn(arena, k, h)
  BY <1>1, GraphMembers
<1>4. \A k \in Kinds : \A h \in Handles(k) :
        ObjectIn(arena, k, h) \in g /\ (ObjectIn(arena, k, h) \in dead <=> h \in Dead(k, removed))
  BY <1>1, GraphMembers, GoneKeys DEF GraphOK
<1>5. dead \subseteq g
  BY <1>1 DEF DeadObjects, Graph
<1>6. Abs!ClosedUnderOwning(g, dead)
  <2> SUFFICES ASSUME NEW x \in g, NEW y \in dead, x.owner = Abs!Key(y)
               PROVE  x \in dead
    BY DEF Abs!ClosedUnderOwning
  <2>1. PICK k \in Kinds : \E h \in Handles(k) : x = ObjectIn(arena, k, h)
    BY <1>3
  <2>2. PICK h \in Handles(k) : x = ObjectIn(arena, k, h)
    BY <2>1
  <2>3. PICK p \in Kinds : \E n \in Handles(p) : y = ObjectIn(arena, p, n)
    BY <1>3, <1>5
  <2>4. PICK n \in Handles(p) : y = ObjectIn(arena, p, n)
    BY <2>3
  <2>5. Owns(arena, p, n, k, h) /\ n \in Dead(p, removed)
    BY <1>2, <1>4, <2>2, <2>4
  <2> QED
    BY <1>4, <2>2, <2>5 DEF OwnedDies
<1>7. o \in dead
  BY <1>4
<1>8. ASSUME NEW S \in SUBSET g, o \in S, Abs!ClosedUnderOwning(g, S), NEW x \in dead
      PROVE  x \in S
  <2> DEFINE D == [k \in Kinds |-> {h \in Handles(k) : ObjectIn(arena, k, h) \in S}]
  <2>1. id \in D[root]
    BY <1>8
  <2>2. ASSUME NEW k \in Kinds, NEW h \in Handles(k), NEW p, NEW n,
               Owns(arena, p, n, k, h), n \in D[p]
        PROVE  h \in D[k]
    <3>1. p \in Kinds /\ n \in Handles(p)
      BY <1>1, <2>2 DEF Owns, Kinds
    <3>2. ObjectIn(arena, p, n) \in S
      BY <2>2, <3>1
    <3>3. ObjectIn(arena, k, h).owner = Abs!Key(ObjectIn(arena, p, n))
      BY <1>2, <2>2, <3>1
    <3>4. ObjectIn(arena, k, h) \in S
      BY <1>4, <1>8, <3>2, <3>3 DEF Abs!ClosedUnderOwning
    <3> QED
      BY <3>4
  <2>3. PICK k \in Kinds : \E h \in Handles(k) : x = ObjectIn(arena, k, h)
    BY <1>3, <1>5
  <2>4. PICK h \in Handles(k) : x = ObjectIn(arena, k, h)
    BY <2>3
  <2>5. h \in Dead(k, removed)
    BY <1>4, <2>4
  <2> HIDE DEF D
  <2>6. h \in D[k]
    BY <2>1, <2>2, <2>5 DEF OnlyOwnedDies
  <2> QED
    BY <2>4, <2>6 DEF D
<1> HIDE DEF g, o, dead
<1>9. Abs!OwnedBy(g, o) = {x \in g : \A S \in SUBSET g : (o \in S /\ Abs!ClosedUnderOwning(g, S)) => x \in S}
  BY DEF Abs!OwnedBy
<1>10. \A x \in Abs!OwnedBy(g, o) : x \in dead
  BY <1>5, <1>6, <1>7, <1>9
<1>11. \A x \in dead : x \in Abs!OwnedBy(g, o)
  BY <1>5, <1>8, <1>9
<1> QED
  BY <1>10, <1>11 DEF g, o, dead

RemovesObject(g, after) ==
  \E o \in g \ after : after = Abs!Without(g, Abs!OwnedBy(g, o))

(* A removal that removes what its root owns removes an object.              *)
LEMMA RemoveRefines ==
  ASSUME RefinementInv, NEW removed, NEW detached, TreeRemoval(detached, removed),
         Remove(detached, removed), ~NothingIn(removed), OwnedDies(removed),
         NEW root \in Kinds, NEW id \in Handles(root),
         id \in Dead(root, removed), OnlyOwnedDies(removed, root, id)
  PROVE  GraphOK(arena') /\ RemovesObject(Graph(arena), Graph(arena'))
<1> DEFINE maps == ArenaMaps(removed)
           o == ObjectIn(arena, root, id)
<1>1. TypeOK /\ ArenaOK(arena) /\ OwnershipOK(arena) /\ GraphOK(arena)
  BY ArenaOKMeans DEF RefinementInv, OwnershipInv, IInv, HandlesInRange, RefsInRange
<1>2. arena' = [k \in Kinds |-> CompactArena(detached[k], maps[k], maps)]
  BY DEF Remove
<1>3. Compacting(removed, maps, detached, arena')
  BY <1>1, <1>2, CompactedArenas DEF Compacting, TreeRemoval
<1> HIDE DEF maps
<1>4. GraphOK(arena') /\ Graph(arena') = Abs!Without(Graph(arena), DeadObjects(removed))
  BY <1>1, <1>3, CompactedGraph
<1>5. Abs!OwnedBy(Graph(arena), o) = DeadObjects(removed)
  BY <1>1, DeadAreOwned
<1>6. id \in HandlesIn(arena, root)
  BY DEF HandlesIn, Handles
<1>7. o \in Graph(arena)
  BY <1>6, GraphMembers
<1>8. o \notin Graph(arena')
  <2> SUFFICES ASSUME o \in Graph(arena') PROVE FALSE
    OBVIOUS
  <2>1. PICK x \in Graph(arena) \ DeadObjects(removed) :
          o = [x EXCEPT !.refs = Abs!Pruned(Gone(removed), @)]
    BY <1>4 DEF Abs!Without, Gone
  <2>2. PICK k \in Kinds : \E h \in HandlesIn(arena, k) : x = ObjectIn(arena, k, h)
    BY GraphMembers
  <2>3. PICK h \in HandlesIn(arena, k) : x = ObjectIn(arena, k, h)
    BY <2>2
  <2>4. Abs!Key(o) = Abs!Key(x)
    BY <2>1, <2>3 DEF Abs!Key, ObjectIn
  <2>5. x = o
    BY <1>1, <1>6, <2>3, <2>4, ObjectsDiffer DEF GraphOK
  <2> QED
    BY <1>1, <2>1, <2>5, GoneKeys DEF GraphOK
<1> HIDE DEF o
<1> QED
  BY <1>4, <1>5, <1>7, <1>8 DEF RemovesObject

(* A removal of a handle that is out of range removes nothing.               *)
LEMMA RemoveNothing ==
  ASSUME RefinementInv, NEW removed, NEW detached, TreeRemoval(detached, removed),
         Remove(detached, removed), ~NothingIn(removed),
         \A k \in Kinds : \A h \in Handles(k) : h \notin Dead(k, removed)
  PROVE  GraphOK(arena') /\ Graph(arena') = Graph(arena)
<1> DEFINE maps == ArenaMaps(removed)
<1>1. TypeOK /\ ArenaOK(arena) /\ OwnershipOK(arena) /\ GraphOK(arena)
  BY ArenaOKMeans DEF RefinementInv, OwnershipInv, IInv, HandlesInRange, RefsInRange
<1>2. arena' = [k \in Kinds |-> CompactArena(detached[k], maps[k], maps)]
  BY DEF Remove
<1>3. Compacting(removed, maps, detached, arena')
  BY <1>1, <1>2, CompactedArenas DEF Compacting, TreeRemoval
<1> HIDE DEF maps
<1>4. OwnedDies(removed)
  <2>1. ASSUME NEW k \in Kinds, NEW h \in Handles(k), NEW p, NEW o, Owns(arena, p, o, k, h)
        PROVE  o \notin Dead(p, removed)
    BY <2>1 DEF Owns, Kinds, HandlesIn, Handles
  <2> QED
    BY <2>1 DEF OwnedDies
<1>5. GraphOK(arena') /\ Graph(arena') = Abs!Without(Graph(arena), DeadObjects(removed))
  BY <1>1, <1>3, <1>4, CompactedGraph
<1>6. DeadObjects(removed) = {} /\ Gone(removed) = {}
  BY DEF DeadObjects, Gone
<1>7. \A refs : Abs!Pruned({}, refs) = refs
  BY DEF Abs!Pruned, Abs!Survives
<1>8. \A x \in Graph(arena) : [x EXCEPT !.refs = Abs!Pruned({}, @)] = x
  <2>1. ASSUME NEW x \in Graph(arena)
        PROVE  [x EXCEPT !.refs = Abs!Pruned({}, @)] = x
    <3>1. PICK k \in Kinds : \E h \in HandlesIn(arena, k) : x = ObjectIn(arena, k, h)
      BY GraphMembers
    <3>2. Abs!Pruned({}, x.refs) = x.refs
      BY <1>7
    <3> QED
      BY <3>1, <3>2 DEF ObjectIn
  <2> QED
    BY <2>1
<1>9. Abs!Without(Graph(arena), {}) = {[x EXCEPT !.refs = Abs!Pruned({}, @)] : x \in Graph(arena)}
  BY DEF Abs!Without
<1>10. Abs!Without(Graph(arena), {}) = Graph(arena)
  BY <1>8, <1>9
<1> QED
  BY <1>5, <1>6, <1>10

(* The nested subtree is closed, and is in every closed set with its root.   *)
LEMMA SubtreeProps ==
  ASSUME NEW id
  PROVE  /\ ClosedUnderNesting(Subtree(id))
         /\ \A S \in SUBSET Handles("type") :
              id \in S /\ ClosedUnderNesting(S) => Subtree(id) \subseteq S
<1>1. ASSUME NEW t \in Subtree(id), NEW u \in Targets("type", t, "nested_types") \cap Handles("type")
      PROVE  u \in Subtree(id)
  <2>1. ASSUME NEW S \in SUBSET Handles("type"), id \in S, ClosedUnderNesting(S)
        PROVE  u \in S
    <3>1. t \in S
      BY <2>1 DEF Subtree
    <3> QED
      BY <2>1, <3>1 DEF ClosedUnderNesting
  <2> QED
    BY <2>1 DEF Subtree
<1>2. ASSUME NEW S \in SUBSET Handles("type"), id \in S, ClosedUnderNesting(S)
      PROVE  Subtree(id) \subseteq S
  BY <1>2 DEF Subtree
<1> QED
  BY <1>1, <1>2 DEF ClosedUnderNesting

(* compact() removes the generic parameters of what was removed.             *)
LEMMA GenericParamsDie ==
  ASSUME TypeOK, ArenaOK(arena), OwnershipOK(arena), NEW removed, NEW h \in Handles("generic_param")
  PROVE  h \in Dead("generic_param", removed) <=>
           \E p \in {"type", "method"} : \E o \in removed[p] : Owns(arena, p, o, "generic_param", h)
<1>1. "generic_param" \in Kinds /\ "type" \in Kinds /\ "method" \in Kinds
  BY DEF Kinds
<1>2. ASSUME NEW p \in {"type", "method"}, NEW up, IsPair(p, "generic_parameters", "generic_param", up), NEW o
      PROVE  o \in Targets("generic_param", h, up) <=> Owns(arena, p, o, "generic_param", h)
  <2>1. up \in OwnRoles /\ TargetKind(up) = p /\ ListRole("generic_param") = "generic_parameters"
    BY <1>2, PairRoles DEF OwnRoles
  <2>2. o \in Targets("generic_param", h, up) <=> Holds(arena, "generic_param", h, up, o)
    BY <1>1, <2>1, OwnTargets
  <2>3. h \in HandlesIn(arena, "generic_param")
    BY DEF HandlesIn, Handles
  <2>4. Holds(arena, "generic_param", h, up, o) => o \in HandlesIn(arena, p)
    BY <1>1, <2>1, <2>3, HeldInRange
  <2>5. o \in HandlesIn(arena, p) =>
          (Holds(arena, p, o, "generic_parameters", h) <=> Holds(arena, "generic_param", h, up, o))
    BY <1>2, <2>3 DEF OwnershipOK, Mirrored
  <2> QED
    BY <2>1, <2>2, <2>4, <2>5 DEF Owns
<1>3. /\ \A o : o \in Targets("generic_param", h, "owner_type") <=> Owns(arena, "type", o, "generic_param", h)
      /\ \A o : o \in Targets("generic_param", h, "owner_method") <=> Owns(arena, "method", o, "generic_param", h)
  BY <1>2 DEF IsPair
<1>4. Dead("generic_param", removed) = DeadGenericParams(removed)
  BY DEF Dead
<1>5. h \in DeadGenericParams(removed) <=>
        \/ \E o \in removed["type"] : o \in Targets("generic_param", h, "owner_type")
        \/ \E o \in removed["method"] : o \in Targets("generic_param", h, "owner_method")
  BY DEF DeadGenericParams
<1> QED
  BY <1>3, <1>4, <1>5

(* remove_type removes what the type owns.                                   *)
LEMMA TypeRemovalIsOwned ==
  ASSUME RefinementInv, NEW id \in Handles("type"), NEW removed, removed = CollectTypeRemoval(id)
  PROVE  /\ id \in Dead("type", removed) /\ ~NothingIn(removed)
         /\ OwnedDies(removed) /\ OnlyOwnedDies(removed, "type", id)
<1>1. TypeOK /\ ArenaOK(arena) /\ OwnershipOK(arena) /\ GraphOK(arena)
  BY ArenaOKMeans DEF RefinementInv, OwnershipInv, IInv, HandlesInRange, RefsInRange
<1>2. /\ removed["type"] = Subtree(id) /\ Dead("type", removed) = Subtree(id)
      /\ \A k \in ListedKinds : /\ removed[k] = MembersOf(Subtree(id), k)
                                /\ Dead(k, removed) = MembersOf(Subtree(id), k)
  BY CollectedByKind DEF Dead, ListedKinds, MemberKinds
<1>3. id \in Subtree(id) /\ Subtree(id) \subseteq Handles("type")
  BY CollectedByKind DEF Subtree
<1>4. ListRole("type") = "nested_types" /\ \A k \in Kinds : ListRole(k) \in OwnRoles
  BY ListRoleInjective DEF ListRole, OwnRoles
<1>5. \A t \in Handles("type"), k \in Kinds : \A h :
        h \in Targets("type", t, ListRole(k)) <=> Owns(arena, "type", t, k, h)
  BY <1>1, <1>4, ListedKindsAreKinds, OwnTargets DEF Owns, HandlesIn, Handles
<1>6. Kinds = ListedKinds \cup {"type", "generic_param"}
  BY DEF Kinds, ListedKinds, MemberKinds
<1>7. OwnedDies(removed)
  <2> SUFFICES ASSUME NEW k \in Kinds, NEW h \in Handles(k), NEW p, NEW o,
                      Owns(arena, p, o, k, h), o \in Dead(p, removed)
               PROVE  h \in Dead(k, removed)
    BY DEF OwnedDies
  <2>1. p \in {"type", "method"} /\ (p = "method" => k = "generic_param") /\ Dead(p, removed) = removed[p]
    BY DEF Owns, Dead
  <2>2. CASE k = "generic_param"
    BY <1>1, <2>1, <2>2, GenericParamsDie
  <2>3. CASE k \in ListedKinds
    <3>1. p = "type" /\ o \in Subtree(id) /\ Holds(arena, "type", o, ListRole(k), h)
      BY <1>2, <2>1, <2>3 DEF Owns, ListedKinds, MemberKinds
    <3> QED
      BY <1>2, <2>3, <3>1, CollectedByKind
  <2>4. CASE k = "type"
    <3>1. p = "type" /\ o \in Subtree(id)
      BY <1>2, <2>1, <2>4
    <3>2. h \in Targets("type", o, "nested_types") \cap Handles("type")
      BY <1>3, <1>4, <1>5, <2>4, <3>1
    <3> QED
      BY <1>2, <2>4, <3>1, <3>2, SubtreeProps DEF ClosedUnderNesting
  <2> QED
    BY <1>6, <2>2, <2>3, <2>4
<1>8. OnlyOwnedDies(removed, "type", id)
  <2> SUFFICES ASSUME NEW D, id \in D["type"],
                      \A k \in Kinds : \A h \in Handles(k) : \A p, o :
                        Owns(arena, p, o, k, h) /\ o \in D[p] => h \in D[k],
                      NEW k \in Kinds, NEW h \in Handles(k), h \in Dead(k, removed)
               PROVE  h \in D[k]
    BY DEF OnlyOwnedDies
  <2> DEFINE T == {t \in Handles("type") : t \in D["type"]}
  <2>1. ASSUME NEW t \in T, NEW u \in Targets("type", t, "nested_types") \cap Handles("type")
        PROVE  u \in T
    <3>1. Owns(arena, "type", t, "type", u)
      BY <1>4, <1>5, ListedKindsAreKinds
    <3> QED
      BY <3>1, ListedKindsAreKinds
  <2>2. Subtree(id) \subseteq D["type"]
    <3>1. ClosedUnderNesting(T)
      BY <2>1 DEF ClosedUnderNesting
    <3> QED
      BY <3>1, SubtreeProps
  <2> HIDE DEF T
  <2>3. \A j \in ListedKinds : \A n \in Handles(j) : n \in MembersOf(Subtree(id), j) => n \in D[j]
    <3>1. ASSUME NEW j \in ListedKinds, NEW n \in Handles(j), n \in MembersOf(Subtree(id), j)
          PROVE  n \in D[j]
      <4>1. PICK t \in Subtree(id) : n \in Targets("type", t, ListRole(j))
        BY <3>1 DEF MembersOf
      <4>2. Owns(arena, "type", t, j, n)
        BY <1>3, <1>5, <4>1, ListedKindsAreKinds
      <4> QED
        BY <2>2, <4>2, ListedKindsAreKinds
    <3> QED
      BY <3>1
  <2>4. CASE k = "type"
    BY <1>2, <2>2, <2>4
  <2>5. CASE k \in ListedKinds
    BY <1>2, <2>3, <2>5
  <2>6. CASE k = "generic_param"
    <3>1. PICK p \in {"type", "method"} : \E o \in removed[p] : Owns(arena, p, o, "generic_param", h)
      BY <1>1, <2>6, GenericParamsDie
    <3>2. PICK o \in removed[p] : Owns(arena, p, o, "generic_param", h)
      BY <3>1
    <3>3. o \in Handles(p)
      BY <3>2 DEF Owns, HandlesIn, Handles
    <3>4. o \in D[p]
      BY <1>2, <2>2, <2>3, <3>3 DEF ListedKinds
    <3> QED
      BY <2>6, <3>2, <3>4
  <2> QED
    BY <1>6, <2>4, <2>5, <2>6
<1>9. ~NothingIn(removed)
  BY <1>2, <1>3, ListedKindsAreKinds DEF NothingIn
<1> QED
  BY <1>2, <1>3, <1>7, <1>8, <1>9

(* remove_method and the removals of the other members remove what those own. *)
LEMMA MemberRemovalIsOwned ==
  ASSUME RefinementInv, NEW root \in ListedKinds, NEW id, NEW removed, removed = Only(root, id)
  PROVE  /\ id \in Dead(root, removed) /\ ~NothingIn(removed)
         /\ OwnedDies(removed) /\ OnlyOwnedDies(removed, root, id)
         /\ id \notin Handles(root) => \A k \in Kinds : \A h \in Handles(k) : h \notin Dead(k, removed)
<1>1. TypeOK /\ ArenaOK(arena) /\ OwnershipOK(arena) /\ GraphOK(arena)
  BY ArenaOKMeans DEF RefinementInv, OwnershipInv, IInv, HandlesInRange, RefsInRange
<1>2. root \in Kinds /\ root # "type" /\ root # "generic_param"
  BY ListedKindsAreKinds DEF ListedKinds, MemberKinds
<1>3. /\ removed[root] = {id} /\ Dead(root, removed) = {id}
      /\ \A k \in Kinds : k # root => removed[k] = {}
      /\ \A k \in Kinds : k # root /\ k # "generic_param" => Dead(k, removed) = {}
  BY <1>2 DEF Only, Dead
<1>4. \A h \in Handles("generic_param") :
        h \in Dead("generic_param", removed) <=> root = "method" /\ Owns(arena, "method", id, "generic_param", h)
  <2>1. /\ removed["type"] = {}
        /\ root = "method" => removed["method"] = {id}
        /\ root # "method" => removed["method"] = {}
    BY <1>2, <1>3 DEF Kinds
  <2> QED
    BY <1>1, <2>1, GenericParamsDie
<1>5. OwnedDies(removed)
  <2> SUFFICES ASSUME NEW k \in Kinds, NEW h \in Handles(k), NEW p, NEW o,
                      Owns(arena, p, o, k, h), o \in Dead(p, removed)
               PROVE  h \in Dead(k, removed)
    BY DEF OwnedDies
  <2>1. p \in {"type", "method"} /\ p \in Kinds /\ (p = "method" => k = "generic_param")
    BY DEF Owns, Kinds
  <2>2. p = root /\ o = id
    BY <1>3, <2>1
  <2> QED
    BY <1>2, <1>4, <2>1, <2>2
<1>6. OnlyOwnedDies(removed, root, id)
  <2> SUFFICES ASSUME NEW D, id \in D[root],
                      \A k \in Kinds : \A h \in Handles(k) : \A p, o :
                        Owns(arena, p, o, k, h) /\ o \in D[p] => h \in D[k],
                      NEW k \in Kinds, NEW h \in Handles(k), h \in Dead(k, removed)
               PROVE  h \in D[k]
    BY DEF OnlyOwnedDies
  <2>1. CASE k = root
    BY <1>3, <2>1
  <2>2. CASE k = "generic_param"
    <3>1. root = "method" /\ Owns(arena, "method", id, k, h)
      BY <1>4, <2>2
    <3> QED
      BY <3>1
  <2> QED
    BY <1>3, <2>1, <2>2
<1>7. ASSUME id \notin Handles(root), NEW k \in Kinds, NEW h \in Handles(k)
      PROVE  h \notin Dead(k, removed)
  <2>1. CASE k = "generic_param"
    <3>1. ~(root = "method" /\ Owns(arena, "method", id, k, h))
      BY <1>7 DEF Owns, HandlesIn, Handles
    <3> QED
      BY <1>4, <2>1, <3>1
  <2>2. CASE k # "generic_param"
    BY <1>3, <1>7, <2>2
  <2> QED
    BY <2>1, <2>2
<1>8. ~NothingIn(removed)
  BY <1>2, <1>3 DEF NothingIn
<1> QED
  BY <1>3, <1>5, <1>6, <1>7, <1>8

(* Each remove_* removes an object, or nothing.                              *)
LEMMA RemovalsRefine ==
  ASSUME RefinementInv,
         \/ \E id : RemoveType(id)
         \/ \E id : RemoveMethod(id)
         \/ \E k \in MemberKinds : \E id : RemoveMember(k, id)
  PROVE  /\ GraphOK(arena')
         /\ \/ Graph(arena') = Graph(arena)
            \/ RemovesObject(Graph(arena), Graph(arena'))
<1> DEFINE Refined == /\ GraphOK(arena')
                      /\ \/ Graph(arena') = Graph(arena)
                         \/ RemovesObject(Graph(arena), Graph(arena'))
<1>1. TypeOK /\ GraphOK(arena)
  BY DEF RefinementInv, OwnershipInv, IInv
<1>2. ASSUME NEW id, RemoveType(id)
      PROVE  Refined
  <2> DEFINE removed == CollectTypeRemoval(id)
  <2>1. CASE id \in Handles("type")
    <3> DEFINE detached == Detach(Targets("type", id, "declaring_type"), "nested_types", id)
    <3>1. TreeRemoval(detached, removed)
      BY <1>1, <2>1, TypeRemovalIsTreeRemoval
    <3>2. Remove(detached, removed)
      BY <1>2, <2>1 DEF RemoveType
    <3>3. /\ id \in Dead("type", removed) /\ ~NothingIn(removed)
          /\ OwnedDies(removed) /\ OnlyOwnedDies(removed, "type", id)
      BY <2>1, TypeRemovalIsOwned
    <3> HIDE DEF removed, detached
    <3> QED
      BY <2>1, <3>1, <3>2, <3>3, RemoveRefines, ListedKindsAreKinds
  <2>2. CASE id \notin Handles("type")
    <3>1. Remove(arena, removed)
      BY <1>2, <2>2 DEF RemoveType
    <3>2. Subtree(id) = {}
      BY <2>2 DEF Subtree
    <3>3. NothingIn(removed)
      BY <3>2 DEF NothingIn, CollectTypeRemoval, MembersOf, Kinds
    <3>4. arena' = arena
      BY <3>1, <3>3 DEF Remove
    <3> QED
      BY <1>1, <3>4
  <2> QED
    BY <2>1, <2>2
<1>3. ASSUME NEW k \in ListedKinds, NEW id, NEW detached,
             TreeRemoval(detached, Only(k, id)), Remove(detached, Only(k, id))
      PROVE  Refined
  <2> DEFINE removed == Only(k, id)
  <2>1. /\ id \in Dead(k, removed) /\ ~NothingIn(removed)
        /\ OwnedDies(removed) /\ OnlyOwnedDies(removed, k, id)
        /\ id \notin Handles(k) => \A j \in Kinds : \A h \in Handles(j) : h \notin Dead(j, removed)
    BY MemberRemovalIsOwned
  <2>2. TreeRemoval(detached, removed) /\ Remove(detached, removed) /\ k \in Kinds
    BY <1>3, ListedKindsAreKinds
  <2> HIDE DEF removed
  <2>3. CASE id \in Handles(k)
    BY <2>1, <2>2, <2>3, RemoveRefines
  <2>4. CASE id \notin Handles(k)
    BY <2>1, <2>2, <2>4, RemoveNothing
  <2> QED
    BY <2>3, <2>4
<1>4. ASSUME NEW id, RemoveMethod(id)
      PROVE  Refined
  <2>1. "method" \in ListedKinds /\ ListRole("method") = "methods"
    BY DEF ListedKinds, ListRole
  <2>2. TreeRemoval(arena, Only("method", id))
        /\ TreeRemoval(Detach(Targets("method", id, "method_declaring_type"), "methods", id), Only("method", id))
    BY <1>1, <2>1, MemberRemovalIsTreeRemoval
  <2> HIDE DEF Refined
  <2> QED
    BY <1>3, <1>4, <2>1, <2>2 DEF RemoveMethod
<1>5. ASSUME NEW k \in MemberKinds, NEW id, RemoveMember(k, id)
      PROVE  Refined
  <2>1. k \in ListedKinds
    BY DEF ListedKinds
  <2>2. TreeRemoval(Detach(MemberOwner(k, id), ListRole(k), id), Only(k, id))
    BY <1>1, <2>1, MemberRemovalIsTreeRemoval
  <2> HIDE DEF Refined
  <2> QED
    BY <1>3, <1>5, <2>1, <2>2 DEF RemoveMember
<1> HIDE DEF Refined
<1>6. Refined
  BY <1>2, <1>4, <1>5
<1> QED
  BY <1>6 DEF Refined

-------------------------------------------------------------------------------
(* The refinement.                                                          *)

(* The empty module is the empty graph.                                      *)
LEMMA RefinementInit == Init => RefinementInv /\ Graph(arena) = {}
<1> SUFFICES ASSUME Init PROVE RefinementInv /\ Graph(arena) = {}
  OBVIOUS
<1>1. ASSUME NEW k \in Kinds
      PROVE  HandlesIn(arena, k) = {}
  <2>1. arena[k] = <<>> /\ Len(arena[k]) = 0
    BY DEF Init
  <2> QED
    BY <2>1 DEF HandlesIn
<1>2. GraphOK(arena)
  BY <1>1 DEF GraphOK, UniqueIds, OneOwner
<1>3. Graph(arena) = {}
  BY <1>1 DEF Graph
<1> QED
  BY <1>2, <1>3, OwnershipInit DEF RefinementInv

(* Every step of the arenas is a step of the graph, or none.                 *)
LEMMA RefinementStep ==
  ASSUME RefinementInv, [Next]_vars
  PROVE  /\ RefinementInv'
         /\ \/ Graph(arena') = Graph(arena)
            \/ AddsObject(Graph(arena), Graph(arena'))
            \/ AddsReference(Graph(arena), Graph(arena'))
            \/ RemovesObject(Graph(arena), Graph(arena'))
<1> DEFINE Refined == /\ GraphOK(arena')
                      /\ \/ Graph(arena') = Graph(arena)
                         \/ AddsObject(Graph(arena), Graph(arena'))
                         \/ AddsReference(Graph(arena), Graph(arena'))
                         \/ RemovesObject(Graph(arena), Graph(arena'))
<1>1. OwnershipInv'
  BY OwnershipStep DEF RefinementInv
<1>2. arena' = arena => Refined
  BY DEF RefinementInv
<1>3. Refined
  <2>1. CASE UNCHANGED vars
    BY <1>2, <2>1 DEF vars
  <2>2. CASE \E k \in Kinds : \E h \in Handles(k), role \in Authored :
               \E to \in TargetTuples(role) : AuthorRef(k, h, role, to)
    BY <2>2, AuthorRefRefines
  <2>3. CASE \/ \E parent \in {None} \cup 0..Len(arena["type"]) : AddType(parent)
             \/ \E owner \in Handles("type") : AddMethod(owner)
             \/ \E k \in MemberKinds : \E owner \in Handles("type") : AddMember(k, owner)
             \/ \E k \in {"type", "method"} : \E owner \in Handles(k) : AddGenericParameter(k, owner)
    BY <2>3, AddsRefine
  <2>4. CASE \E h \in Handles("method") :
               SetEntryPoint(h) \/ AddAssemblyAttribute(h) \/ RecordDebug(h) \/ RecordNative(h)
    BY <1>2, <2>4 DEF SetEntryPoint, AddAssemblyAttribute, RecordDebug, RecordNative
  <2>5. CASE \/ \E id : RemoveType(id)
             \/ \E id : RemoveMethod(id)
             \/ \E k \in MemberKinds : \E id : RemoveMember(k, id)
    BY <2>5, RemovalsRefine
  <2> HIDE DEF Refined
  <2> QED
    BY <2>1, <2>2, <2>3, <2>4, <2>5 DEF Next
<1> QED
  BY <1>1, <1>3 DEF Refined, RefinementInv

(* The invariant of the refinement is inductive: identities stay unique and  *)
(* nothing is ever owned twice.                                              *)
THEOREM RefinementInvariant == Spec => []RefinementInv
<1>1. Init => RefinementInv
  BY RefinementInit
<1>2. RefinementInv /\ [Next]_vars => RefinementInv'
  BY RefinementStep
<1> QED
  BY <1>1, <1>2, PTL DEF Spec

(* The arena model implements the object model: a caller that edits, adds    *)
(* and removes in any order cannot tell the compacting arenas of removal.rs  *)
(* from a graph of objects that refer to each other.                         *)
THEOREM ArenasImplementObjects == Spec => ImplementsObjectModel
<1>1. Init => Abs!OInit
  <2>1. Init => RefinementInv /\ Graph(arena) = {}
    BY RefinementInit
  <2> QED
    BY <2>1, GraphMeans DEF Abs!OInit
<1>2. RefinementInv => ObjectsBar = Graph(arena)
  BY GraphMeans
<1>3. RefinementInv' => (ObjectsBar = Graph(arena))'
  BY <1>2, PTL
<1>4. RefinementInv /\ RefinementInv' /\ [Next]_vars => [Abs!ONext]_ObjectsBar
  <2> SUFFICES ASSUME RefinementInv, RefinementInv', [Next]_vars
               PROVE  [Abs!ONext]_ObjectsBar
    OBVIOUS
  <2>1. ObjectsBar = Graph(arena) /\ ObjectsBar' = Graph(arena')
    BY <1>2, <1>3
  <2>2. \/ Graph(arena') = Graph(arena)
        \/ AddsObject(Graph(arena), Graph(arena'))
        \/ AddsReference(Graph(arena), Graph(arena'))
        \/ RemovesObject(Graph(arena), Graph(arena'))
    BY RefinementStep
  <2>3. \/ ObjectsBar' = ObjectsBar
        \/ AddsObject(ObjectsBar, ObjectsBar')
        \/ AddsReference(ObjectsBar, ObjectsBar')
        \/ RemovesObject(ObjectsBar, ObjectsBar')
    BY <2>1, <2>2
  <2>4. Abs!Kinds = Kinds
    BY SameVocabulary
  <2> QED
    BY <2>3, <2>4 DEF Abs!ONext, AddsObject, AddsReference, RemovesObject
<1> QED
  BY <1>1, <1>4, RefinementInvariant, PTL DEF Spec, ImplementsObjectModel, Abs!OSpec

===============================================================================
