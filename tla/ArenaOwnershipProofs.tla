-------------------------- MODULE ArenaOwnershipProofs --------------------------
(***************************************************************************)
(* The ownership tree of ArenaModel stays consistent, for arenas of any    *)
(* length: lists and back pointers agree and no definition is listed       *)
(* twice, whatever is added, edited and removed.                           *)
(***************************************************************************)
EXTENDS ArenaModelProofs

-------------------------------------------------------------------------------
(* Slots of the tree, of a given value of the arenas.                       *)

OwnRoles == ListRoles \cup OwnerRoles

HandlesIn(a, k) == 0..(Len(a[k]) - 1)

(* Definition <<k, h>> holds the handle t in a slot of the given role.       *)
Holds(a, k, h, role, t) == OneTo(role, t) \in a[k][h + 1].refs

(* A list, the kind of its members and the back pointer that mirrors it.     *)
IsPair(owner, down, member, up) ==
  \/ owner = "type" /\ down = "nested_types" /\ member = "type" /\ up = "declaring_type"
  \/ owner = "type" /\ down = "methods" /\ member = "method" /\ up = "method_declaring_type"
  \/ owner = "type" /\ down = "generic_parameters" /\ member = "generic_param" /\ up = "owner_type"
  \/ owner = "method" /\ down = "generic_parameters" /\ member = "generic_param" /\ up = "owner_method"

Mirrored(a, owner, down, member, up) ==
  \A t \in HandlesIn(a, owner), u \in HandlesIn(a, member) :
    Holds(a, owner, t, down, u) <=> Holds(a, member, u, up, t)

ListedKinds == MemberKinds \cup {"method"}

ListedOnce(a, k) ==
  \A h \in HandlesIn(a, k) : \E t \in HandlesIn(a, "type") : \A u \in HandlesIn(a, "type") :
    Holds(a, "type", u, ListRole(k), h) <=> u = t

(* The invariant.  A slot of the tree holds one handle: one with two would be *)
(* dropped with either of its targets.                                       *)
SingleSlots(a) ==
  \A k \in Kinds : \A h \in HandlesIn(a, k) : \A r \in a[k][h + 1].refs :
    r.role \in OwnRoles => Len(r.to) = 1

OwnershipOK(a) ==
  /\ SingleSlots(a)
  /\ \A owner, down, member, up :
       IsPair(owner, down, member, up) => Mirrored(a, owner, down, member, up)
  /\ \A k \in ListedKinds : ListedOnce(a, k)

OwnershipInv == IInv /\ OwnershipOK(arena)

-------------------------------------------------------------------------------
(* Roles.                                                                   *)

(* A slot with one handle is determined by its role and that handle.         *)
LEMMA OneToInjective ==
  ASSUME NEW r1, NEW t1, NEW r2, NEW t2
  PROVE  OneTo(r1, t1) = OneTo(r2, t2) <=> r1 = r2 /\ t1 = t2
<1>1. OneTo(r1, t1).role = r1 /\ OneTo(r1, t1).to[1] = t1
  BY DEF OneTo
<1>2. OneTo(r2, t2).role = r2 /\ OneTo(r2, t2).to[1] = t2
  BY DEF OneTo
<1> QED
  BY <1>1, <1>2

(* What the roles of a pair index, and that compact() neither skips them nor  *)
(* turns them into sentinels.                                                *)
LEMMA PairRoles ==
  ASSUME NEW owner, NEW down, NEW member, NEW up, IsPair(owner, down, member, up)
  PROVE  /\ owner \in Kinds /\ member \in Kinds
         /\ down \in ListRoles /\ down = ListRole(member) /\ TargetKind(down) = member
         /\ up \in OwnerRoles /\ TargetKind(up) = owner
BY ListRoleProps, OwnershipTargets DEF IsPair, Kinds, ListRoles, OwnerRoles, ListRole

(* Lists and back pointers are told apart by their roles.                    *)
LEMMA OwnRolesProps ==
  /\ ListRoles \cap OwnerRoles = {} /\ OwnRoles \subseteq Roles
  /\ \A role \in OwnRoles : role \notin Untouched /\ role \notin Sentinel
BY DEF OwnRoles, ListRoles, OwnerRoles, Roles, TypeRoles, MethodRoles, FieldRoles,
       Untouched, Sentinel

(* Every kind has its own list.                                              *)
LEMMA ListRoleInjective ==
  /\ \A k \in Kinds : ListRole(k) \in ListRoles /\ TargetKind(ListRole(k)) = k
  /\ \A j, k \in Kinds : ListRole(j) = ListRole(k) => j = k
<1>1. \A k \in Kinds : TargetKind(ListRole(k)) = k
  BY ListRoleProps
<1>2. \A k \in Kinds : ListRole(k) \in ListRoles
  BY DEF ListRole, ListRoles, Kinds
<1> QED
  BY <1>1, <1>2

(* Every listed kind is a kind.                                              *)
LEMMA ListedKindsAreKinds == ListedKinds \subseteq Kinds /\ "type" \in Kinds
BY DEF ListedKinds, MemberKinds, Kinds

(* A handle in a slot of the tree is in range.                               *)
LEMMA HeldInRange ==
  ASSUME NEW a, ArenaOK(a), NEW k \in Kinds, NEW h \in HandlesIn(a, k),
         NEW role \in OwnRoles, NEW t, Holds(a, k, h, role, t)
  PROVE  t \in HandlesIn(a, TargetKind(role))
<1> DEFINE r == OneTo(role, t)
<1>1. r.role = role /\ 1 \in DOMAIN r.to /\ r.to[1] = t
  BY DEF OneTo
<1>2. SlotsOK(a, k, h, r)
  BY DEF ArenaOK, Holds, HandlesIn
<1> HIDE DEF r
<1> QED
  BY <1>1, <1>2, OwnRolesProps DEF SlotsOK, HandlesIn

-------------------------------------------------------------------------------
(* Adding a definition.                                                     *)

(* The slots after a definition is appended and registered on its owner.     *)
LEMMA AddedSlots ==
  ASSUME TypeOK, NEW k \in Kinds, NEW ok \in Kinds, CanAdd(k), NEW owner \in Handles(ok),
         NEW refs \in SUBSET Ref(Nat),
         NEW b, b = Register(Appended(k, refs), ok, owner, ListRole(k), Len(arena[k]))
  PROVE  /\ \A j \in Kinds \ {k} : Len(b[j]) = Len(arena[j])
         /\ Len(b[k]) = Len(arena[k]) + 1
         /\ \A j \in Kinds : \A h \in HandlesIn(b, j) : \A r :
              r \in b[j][h + 1].refs <=>
                \/ h \in Handles(j) /\ r \in At(j, h).refs
                \/ j = ok /\ h = owner /\ r = OneTo(ListRole(k), Len(arena[k]))
                \/ j = k /\ h = Len(arena[k]) /\ r \in refs
<1> DEFINE a == Appended(k, refs)
           len == Len(arena[k])
           x == OneTo(ListRole(k), len)
<1>1. /\ \A j \in Kinds : Len(arena[j]) \in Nat
      /\ owner \in Nat /\ owner + 1 \in 1..Len(arena[ok])
  BY AtType
<1>2. /\ Grows(arena, a)
      /\ Len(a[k]) = len + 1 /\ a[k][len + 1].refs = refs
      /\ \A i \in 1..len : a[k][i] = arena[k][i]
      /\ \A j \in Kinds \ {k} : a[j] = arena[j]
  BY AppendedGrows
<1>3. a \in [Kinds -> Seq(Def)] /\ \A j \in Kinds : Len(a[j]) \in Nat /\ Len(arena[j]) <= Len(a[j])
  BY <1>2 DEF Grows
<1>4. x \in Ref(Nat)
  BY <1>1, ListRoleProps DEF OneTo, Ref
<1>5. owner + 1 \in 1..Len(a[ok])
  BY <1>1, <1>3
<1>6. b = AddSlot(a, ok, owner + 1, x)
  BY DEF Register, AddSlot
<1> HIDE DEF a, x, len
<1>7. /\ \A j \in Kinds : Len(b[j]) = Len(a[j])
      /\ b[ok][owner + 1].refs = a[ok][owner + 1].refs \cup {x}
      /\ \A j \in Kinds : \A n \in 1..Len(a[j]) : j # ok \/ n # owner + 1 => b[j][n] = a[j][n]
  BY <1>3, <1>4, <1>5, <1>6, RegisterGrows
<1>8. (\A j \in Kinds \ {k} : Len(b[j]) = Len(arena[j])) /\ Len(b[k]) = len + 1
  BY <1>2, <1>7
<1>9. ASSUME NEW j \in Kinds, NEW h \in HandlesIn(b, j)
      PROVE  /\ h \in Nat /\ h + 1 \in 1..Len(a[j])
             /\ h \in Handles(j) => a[j][h + 1].refs = At(j, h).refs
             /\ h \notin Handles(j) => j = k /\ h = len /\ a[j][h + 1].refs = refs
             /\ j = k /\ h = len => h \notin Handles(j)
  <2>1. h \in Nat /\ h + 1 \in 1..Len(a[j])
    BY <1>3, <1>7 DEF HandlesIn
  <2>2. CASE j = k
    <3>1. len = Len(arena[k]) /\ len \in Nat /\ Len(a[k]) = len + 1
      BY <1>1, <1>2 DEF len
    <3>2. h \in Handles(j) <=> h + 1 \in 1..len
      BY <2>1, <2>2, <3>1 DEF Handles
    <3>3. h \notin Handles(j) <=> h = len
      BY <2>1, <2>2, <3>1, <3>2
    <3> QED
      BY <1>2, <2>1, <2>2, <3>2, <3>3 DEF At
  <2>3. CASE j # k
    <3>1. a[j] = arena[j]
      BY <1>2, <2>3
    <3>2. h \in Handles(j)
      BY <1>1, <2>1, <3>1 DEF Handles
    <3> QED
      BY <2>1, <2>3, <3>1, <3>2 DEF At
  <2> QED
    BY <2>2, <2>3
<1>10. ASSUME NEW j \in Kinds, NEW h \in HandlesIn(b, j), NEW r
       PROVE  r \in b[j][h + 1].refs <=>
                \/ h \in Handles(j) /\ r \in At(j, h).refs
                \/ j = ok /\ h = owner /\ r = x
                \/ j = k /\ h = len /\ r \in refs
  <2>1. r \in b[j][h + 1].refs <=> r \in a[j][h + 1].refs \/ (j = ok /\ h = owner /\ r = x)
    <3>1. CASE j = ok /\ h = owner
      BY <1>7, <3>1
    <3>2. CASE ~(j = ok /\ h = owner)
      <4>1. j # ok \/ h + 1 # owner + 1
        BY <1>1, <1>9, <3>2
      <4> QED
        BY <1>7, <1>9, <3>2, <4>1
    <3> QED
      BY <3>1, <3>2
  <2> QED
    BY <1>9, <2>1
<1> QED
  BY <1>8, <1>10 DEF x, len

(* The owner a definition of kind k is given, and its back pointers.          *)
GoodOwner(k, ok, owner, refs) ==
  \/ k = "type" /\ ok = "type" /\ refs = {OneTo("declaring_type", owner)}
  \/ k = "method" /\ ok = "type" /\ refs = {OneTo("method_declaring_type", owner)}
  \/ k = "generic_param" /\ ok = "type" /\ refs = {OneTo("owner_type", owner)}
  \/ k = "generic_param" /\ ok = "method" /\ refs = {OneTo("owner_method", owner)}
  \/ k \in MemberKinds /\ ok = "type" /\ refs = {}

(* The back pointers are those that mirror the list it is registered in.      *)
LEMMA OwnerProps ==
  ASSUME NEW k, NEW ok, NEW owner, NEW refs, GoodOwner(k, ok, owner, refs)
  PROVE  /\ k \in Kinds /\ ok \in Kinds /\ GoodBack(k, ok, owner, refs)
         /\ k \in ListedKinds => ok = "type"
         /\ \A r \in refs : r.role \in OwnerRoles /\ Len(r.to) = 1
         /\ \A o, down, member, up : IsPair(o, down, member, up) =>
              \A t : member = k /\ OneTo(up, t) \in refs
                       <=> o = ok /\ t = owner /\ down = ListRole(k)
<1>1. k \in Kinds /\ ok \in Kinds /\ GoodBack(k, ok, owner, refs)
  BY DEF GoodOwner, GoodBack, Kinds, MemberKinds
<1>2. k \in ListedKinds => ok = "type"
  BY DEF GoodOwner, ListedKinds, MemberKinds
<1>3. \A role : OneTo(role, owner).role = role /\ Len(OneTo(role, owner).to) = 1
  BY DEF OneTo
<1>4. \A r \in refs : r.role \in OwnerRoles /\ Len(r.to) = 1
  BY <1>3 DEF GoodOwner, OwnerRoles
<1>5. ASSUME NEW o, NEW down, NEW member, NEW up, IsPair(o, down, member, up), NEW t
      PROVE  member = k /\ OneTo(up, t) \in refs <=> o = ok /\ t = owner /\ down = ListRole(k)
  <2>1. down = ListRole(member) /\ member \in Kinds
    BY <1>5, PairRoles
  <2>2. down = ListRole(k) <=> member = k
    BY <1>1, <2>1, ListRoleInjective
  <2>3. ASSUME member = k
        PROVE  OneTo(up, t) \in refs <=> o = ok /\ t = owner
    <3>1. \A role : OneTo(up, t) = OneTo(role, owner) <=> up = role /\ t = owner
      BY OneToInjective
    <3>2. IsPair(o, down, k, up)
      BY <1>5, <2>3
    <3> QED
      BY <3>1, <3>2 DEF GoodOwner, IsPair, MemberKinds
  <2> QED
    BY <2>2, <2>3
<1> QED
  BY <1>1, <1>2, <1>4, <1>5

(* Adding a definition under an owner keeps the tree consistent.             *)
LEMMA AddedOwnership ==
  ASSUME TypeOK, ArenaOK(arena), OwnershipOK(arena),
         NEW k, NEW ok, NEW owner, NEW refs, GoodOwner(k, ok, owner, refs),
         CanAdd(k), owner \in Handles(ok),
         NEW b, b = Register(Appended(k, refs), ok, owner, ListRole(k), Len(arena[k]))
  PROVE  OwnershipOK(b)
<1> DEFINE len == Len(arena[k])
<1>1. /\ k \in Kinds /\ ok \in Kinds /\ owner \in Nat
      /\ \A j \in Kinds : Len(arena[j]) \in Nat
  BY OwnerProps, AtType
<1>2. refs \in SUBSET Ref(Nat)
  <2>1. \A role \in OwnRoles : OneTo(role, owner) \in Ref(Nat)
    BY <1>1, OwnRolesProps DEF OneTo, Ref
  <2> QED
    BY <2>1 DEF GoodOwner, OwnRoles, OwnerRoles
<1>3. /\ \A j \in Kinds \ {k} : Len(b[j]) = Len(arena[j])
      /\ Len(b[k]) = len + 1
      /\ \A j \in Kinds : \A h \in HandlesIn(b, j) : \A r :
           r \in b[j][h + 1].refs <=>
             \/ h \in Handles(j) /\ r \in At(j, h).refs
             \/ j = ok /\ h = owner /\ r = OneTo(ListRole(k), len)
             \/ j = k /\ h = len /\ r \in refs
  BY <1>1, <1>2, AddedSlots
<1> HIDE DEF len
<1>4. \A j \in Kinds : \A h \in HandlesIn(b, j) : h \notin Handles(j) => j = k /\ h = len
  BY <1>1, <1>3 DEF HandlesIn, Handles, len
<1>5. /\ len \notin Handles(k) /\ len \in HandlesIn(b, k)
      /\ \A j \in Kinds : \A h \in Handles(j) : h \in HandlesIn(b, j) /\ h \in HandlesIn(arena, j)
  BY SMTT(30), <1>1, <1>3 DEF HandlesIn, Handles, len
<1>6. ASSUME NEW j \in Kinds, NEW h \in HandlesIn(b, j), NEW role \in OwnRoles, NEW t
      PROVE  /\ Holds(b, j, h, role, t) <=>
                  \/ h \in Handles(j) /\ Holds(arena, j, h, role, t)
                  \/ j = ok /\ h = owner /\ role = ListRole(k) /\ t = len
                  \/ j = k /\ h = len /\ OneTo(role, t) \in refs
             /\ h \in Handles(j) /\ Holds(arena, j, h, role, t) => t \in Handles(TargetKind(role))
  <2>1. OneTo(role, t) = OneTo(ListRole(k), len) <=> role = ListRole(k) /\ t = len
    BY OneToInjective
  <2>2. h \in Handles(j) /\ Holds(arena, j, h, role, t) => t \in HandlesIn(arena, TargetKind(role))
    BY <1>5, HeldInRange
  <2> QED
    BY <1>3, <2>1, <2>2 DEF Holds, At, HandlesIn, Handles
<1>7. SingleSlots(b)
  <2> SUFFICES ASSUME NEW j \in Kinds, NEW h \in HandlesIn(b, j), NEW r \in b[j][h + 1].refs,
                      r.role \in OwnRoles
               PROVE  Len(r.to) = 1
    BY DEF SingleSlots
  <2>1. CASE h \in Handles(j) /\ r \in At(j, h).refs
    BY <2>1 DEF OwnershipOK, SingleSlots, HandlesIn, Handles, At
  <2>2. CASE r = OneTo(ListRole(k), len)
    BY <2>2 DEF OneTo
  <2>3. CASE r \in refs
    BY <2>3, OwnerProps
  <2> QED
    BY <1>3, <2>1, <2>2, <2>3
<1>8. ASSUME NEW o, NEW down, NEW member, NEW up, IsPair(o, down, member, up)
      PROVE  Mirrored(b, o, down, member, up)
  <2>1. /\ o \in Kinds /\ member \in Kinds /\ down \in ListRoles /\ up \in OwnerRoles
        /\ TargetKind(down) = member /\ TargetKind(up) = o
        /\ down \in OwnRoles /\ up \in OwnRoles /\ up \notin ListRoles /\ down \notin OwnerRoles
    BY <1>8, PairRoles, OwnRolesProps DEF OwnRoles
  <2> SUFFICES ASSUME NEW t \in HandlesIn(b, o), NEW u \in HandlesIn(b, member)
               PROVE  Holds(b, o, t, down, u) <=> Holds(b, member, u, up, t)
    BY DEF Mirrored
  <2>2. Holds(b, o, t, down, u) <=>
          \/ t \in Handles(o) /\ u \in Handles(member) /\ Holds(arena, o, t, down, u)
          \/ o = ok /\ t = owner /\ down = ListRole(k) /\ u = len
    <3>1. OneTo(down, u) \notin refs
      BY <2>1, OwnerProps DEF OneTo
    <3> QED
      BY <1>6, <2>1, <3>1
  <2>3. Holds(b, member, u, up, t) <=>
          \/ t \in Handles(o) /\ u \in Handles(member) /\ Holds(arena, member, u, up, t)
          \/ member = k /\ u = len /\ OneTo(up, t) \in refs
    <3>1. up # ListRole(k)
      BY <1>1, <2>1, ListRoleInjective
    <3> QED
      BY <1>6, <2>1, <3>1
  <2>4. t \in Handles(o) /\ u \in Handles(member) =>
          (Holds(arena, o, t, down, u) <=> Holds(arena, member, u, up, t))
    BY <1>8 DEF OwnershipOK, Mirrored, HandlesIn, Handles
  <2>5. member = k /\ OneTo(up, t) \in refs <=> o = ok /\ t = owner /\ down = ListRole(k)
    BY <1>8, OwnerProps
  <2> QED
    BY <2>2, <2>3, <2>4, <2>5
<1>9. ASSUME NEW j \in ListedKinds
      PROVE  ListedOnce(b, j)
  <2>1. j \in Kinds /\ "type" \in Kinds /\ ListRole(j) \in OwnRoles /\ TargetKind(ListRole(j)) = j
        /\ (ListRole(j) = ListRole(k) => j = k)
    BY <1>1, <1>9, ListedKindsAreKinds, ListRoleInjective DEF OwnRoles
  <2>2. \A u : OneTo(ListRole(j), u) \notin refs
    BY <2>1, OwnerProps, OwnRolesProps, ListRoleInjective DEF OneTo
  <2> SUFFICES ASSUME NEW h \in HandlesIn(b, j)
               PROVE  \E t \in HandlesIn(b, "type") : \A u \in HandlesIn(b, "type") :
                        Holds(b, "type", u, ListRole(j), h) <=> u = t
    BY DEF ListedOnce
  <2>3. \A u \in HandlesIn(b, "type") : Holds(b, "type", u, ListRole(j), h) <=>
          \/ u \in Handles("type") /\ h \in Handles(j) /\ Holds(arena, "type", u, ListRole(j), h)
          \/ ok = "type" /\ u = owner /\ j = k /\ h = len
    BY <1>6, <2>1, <2>2
  <2>4. CASE h \in Handles(j)
    <3>1. PICK t \in Handles("type") : \A u \in Handles("type") :
            Holds(arena, "type", u, ListRole(j), h) <=> u = t
      BY <2>4 DEF OwnershipOK, ListedOnce, HandlesIn, Handles
    <3>2. ~(j = k /\ h = len)
      BY <1>5, <2>4
    <3> QED
      BY <1>5, <2>1, <2>3, <2>4, <3>1, <3>2
  <2>5. CASE h \notin Handles(j)
    <3>1. j = k /\ h = len /\ ok = "type"
      BY <1>4, <2>1, <2>5, OwnerProps
    <3>2. owner \in HandlesIn(b, "type")
      BY <1>5, <2>1, <3>1
    <3> QED
      BY <2>3, <2>5, <3>1, <3>2
  <2> QED
    BY <2>4, <2>5
<1> QED
  BY <1>7, <1>8, <1>9 DEF OwnershipOK

(* A step that leaves the slots of the tree as they are.                     *)
SameTree(b) ==
  /\ \A j \in Kinds : /\ HandlesIn(arena, j) \subseteq HandlesIn(b, j)
                      /\ j # "type" => HandlesIn(b, j) = HandlesIn(arena, j)
  /\ \A j \in Kinds : \A h \in HandlesIn(b, j) : \A r : r.role \in OwnRoles =>
       (r \in b[j][h + 1].refs <=> h \in HandlesIn(arena, j) /\ r \in arena[j][h + 1].refs)

(* It keeps the tree consistent.                                             *)
LEMMA SameTreeOwnership ==
  ASSUME ArenaOK(arena), OwnershipOK(arena), NEW b, SameTree(b)
  PROVE  OwnershipOK(b)
<1>1. ASSUME NEW j \in Kinds, NEW h \in HandlesIn(b, j), NEW role \in OwnRoles, NEW t
      PROVE  /\ Holds(b, j, h, role, t) <=> h \in HandlesIn(arena, j) /\ Holds(arena, j, h, role, t)
             /\ Holds(b, j, h, role, t) => t \in HandlesIn(arena, TargetKind(role))
  <2>1. OneTo(role, t).role \in OwnRoles
    BY DEF OneTo
  <2>2. Holds(b, j, h, role, t) <=> h \in HandlesIn(arena, j) /\ Holds(arena, j, h, role, t)
    BY <2>1 DEF SameTree, Holds
  <2> QED
    BY <2>2, HeldInRange
<1>2. SingleSlots(b)
  BY DEF OwnershipOK, SingleSlots, SameTree
<1>3. ASSUME NEW o, NEW down, NEW member, NEW up, IsPair(o, down, member, up)
      PROVE  Mirrored(b, o, down, member, up)
  <2>1. /\ o \in Kinds /\ member \in Kinds /\ down \in OwnRoles /\ up \in OwnRoles
        /\ TargetKind(down) = member /\ TargetKind(up) = o
    BY <1>3, PairRoles DEF OwnRoles
  <2> SUFFICES ASSUME NEW t \in HandlesIn(b, o), NEW u \in HandlesIn(b, member)
               PROVE  Holds(b, o, t, down, u) <=> Holds(b, member, u, up, t)
    BY DEF Mirrored
  <2>2. t \in HandlesIn(arena, o) /\ u \in HandlesIn(arena, member) =>
          (Holds(arena, o, t, down, u) <=> Holds(arena, member, u, up, t))
    BY <1>3 DEF OwnershipOK, Mirrored
  <2> QED
    BY <1>1, <2>1, <2>2
<1>4. ASSUME NEW j \in ListedKinds
      PROVE  ListedOnce(b, j)
  <2>1. j \in Kinds /\ j # "type" /\ "type" \in Kinds /\ ListRole(j) \in OwnRoles
    BY ListedKindsAreKinds, ListRoleInjective DEF OwnRoles, ListedKinds, MemberKinds
  <2> SUFFICES ASSUME NEW h \in HandlesIn(b, j)
               PROVE  \E t \in HandlesIn(b, "type") : \A u \in HandlesIn(b, "type") :
                        Holds(b, "type", u, ListRole(j), h) <=> u = t
    BY DEF ListedOnce
  <2>2. PICK t \in HandlesIn(arena, "type") : \A u \in HandlesIn(arena, "type") :
          Holds(arena, "type", u, ListRole(j), h) <=> u = t
    BY <2>1 DEF OwnershipOK, ListedOnce, SameTree
  <2>3. t \in HandlesIn(b, "type")
    BY <2>1 DEF SameTree
  <2> QED
    BY <1>1, <2>1, <2>2, <2>3
<1> QED
  BY <1>2, <1>3, <1>4 DEF OwnershipOK

(* The additions: add_* with an owner, and a top-level type.                 *)
LEMMA AddsKeepOwnership ==
  ASSUME OwnershipInv,
         \/ \E parent \in {None} \cup 0..Len(arena["type"]) : AddType(parent)
         \/ \E owner \in Handles("type") : AddMethod(owner)
         \/ \E k \in MemberKinds : \E owner \in Handles("type") : AddMember(k, owner)
         \/ \E k \in {"type", "method"} : \E owner \in Handles(k) : AddGenericParameter(k, owner)
  PROVE  OwnershipOK(arena')
<1>1. TypeOK /\ ArenaOK(arena) /\ OwnershipOK(arena)
  BY ArenaOKMeans DEF OwnershipInv, IInv, HandlesInRange, RefsInRange
<1>2. ASSUME NEW parent, AddType(parent)
      PROVE  OwnershipOK(arena')
  <2>1. CASE parent \in Handles("type")
    <3>1. arena' = Register(Appended("type", {OneTo("declaring_type", parent)}),
                            "type", parent, ListRole("type"), Len(arena["type"]))
      BY <1>2, <2>1 DEF AddType, ListRole
    <3>2. GoodOwner("type", "type", parent, {OneTo("declaring_type", parent)})
      BY DEF GoodOwner
    <3> QED
      BY <1>1, <1>2, <2>1, <3>1, <3>2, AddedOwnership DEF AddType
  <2>2. CASE parent \notin Handles("type")
    <3> DEFINE b == Appended("type", {})
               len == Len(arena["type"])
    <3>1. arena' = b /\ CanAdd("type")
      BY <1>2, <2>2 DEF AddType
    <3>2. /\ Grows(arena, b) /\ Len(b["type"]) = len + 1 /\ b["type"][len + 1].refs = {}
          /\ \A i \in 1..len : b["type"][i] = arena["type"][i]
          /\ \A j \in Kinds \ {"type"} : b[j] = arena[j]
      BY <1>1, <3>1, AppendedGrows, ListedKindsAreKinds
    <3>3. \A j \in Kinds : Len(arena[j]) \in Nat
      BY <1>1, AtType
    <3> HIDE DEF b, len
    <3>4. SameTree(b)
      <4>1. ASSUME NEW j \in Kinds, NEW h \in HandlesIn(b, j), NEW r
            PROVE  r \in b[j][h + 1].refs <=> h \in HandlesIn(arena, j) /\ r \in arena[j][h + 1].refs
        <5>1. CASE j # "type"
          BY <3>2, <4>1, <5>1 DEF HandlesIn
        <5>2. CASE j = "type"
          <6>1. len \in Nat /\ h \in 0..len /\ HandlesIn(arena, j) = 0..(len - 1)
            BY <3>2, <3>3, <4>1, <5>2 DEF HandlesIn, len
          <6>2. CASE h = len
            BY <3>2, <5>2, <6>1, <6>2
          <6>3. CASE h # len
            <7>1. h + 1 \in 1..len /\ h \in 0..(len - 1)
              BY <6>1, <6>3
            <7> QED
              BY <3>2, <5>2, <6>1, <7>1
          <6> QED
            BY <6>2, <6>3
        <5> QED
          BY <5>1, <5>2
      <4>2. ASSUME NEW j \in Kinds
            PROVE  /\ HandlesIn(arena, j) \subseteq HandlesIn(b, j)
                   /\ j # "type" => HandlesIn(b, j) = HandlesIn(arena, j)
        BY <3>2, <3>3 DEF HandlesIn, len
      <4> QED
        BY <4>1, <4>2 DEF SameTree
    <3> QED
      BY <1>1, <3>1, <3>4, SameTreeOwnership
  <2> QED
    BY <2>1, <2>2
<1>3. ASSUME NEW owner \in Handles("type"), AddMethod(owner)
      PROVE  OwnershipOK(arena')
  <2>1. arena' = Register(Appended("method", {OneTo("method_declaring_type", owner)}),
                          "type", owner, ListRole("method"), Len(arena["method"]))
    BY <1>3 DEF AddMethod, ListRole
  <2>2. GoodOwner("method", "type", owner, {OneTo("method_declaring_type", owner)})
    BY DEF GoodOwner
  <2> QED
    BY <1>1, <1>3, <2>1, <2>2, AddedOwnership DEF AddMethod
<1>4. ASSUME NEW k \in MemberKinds, NEW owner \in Handles("type"), AddMember(k, owner)
      PROVE  OwnershipOK(arena')
  <2>1. GoodOwner(k, "type", owner, {})
    BY DEF GoodOwner
  <2>2. arena' = Register(Appended(k, {}), "type", owner, ListRole(k), Len(arena[k]))
    BY <1>4 DEF AddMember
  <2> QED
    BY <1>1, <1>4, <2>1, <2>2, AddedOwnership DEF AddMember
<1>5. ASSUME NEW k \in {"type", "method"}, NEW owner \in Handles(k), AddGenericParameter(k, owner)
      PROVE  OwnershipOK(arena')
  <2>1. GoodOwner("generic_param", k, owner, {OneTo(OwnerRole(k), owner)})
    BY DEF GoodOwner, OwnerRole
  <2>2. arena' = Register(Appended("generic_param", {OneTo(OwnerRole(k), owner)}),
                          k, owner, ListRole("generic_param"), Len(arena["generic_param"]))
    BY <1>5 DEF AddGenericParameter, ListRole
  <2> QED
    BY <1>1, <1>5, <2>1, <2>2, AddedOwnership DEF AddGenericParameter
<1> QED
  BY <1>2, <1>3, <1>4, <1>5

(* Authored slots are no part of the tree.                                   *)
LEMMA AuthorRefKeepsOwnership ==
  ASSUME OwnershipInv, NEW k \in Kinds, NEW h \in Handles(k), NEW role \in Authored,
         NEW to \in TargetTuples(role), AuthorRef(k, h, role, to)
  PROVE  OwnershipOK(arena')
<1> DEFINE x == [role |-> role, to |-> to]
           b == arena'
<1>1. TypeOK /\ ArenaOK(arena) /\ OwnershipOK(arena)
  BY ArenaOKMeans DEF OwnershipInv, IInv, HandlesInRange, RefsInRange
<1>2. /\ \A j \in Kinds : Len(arena[j]) \in Nat
      /\ arena \in [Kinds -> Seq(Def)] /\ h + 1 \in 1..Len(arena[k]) /\ h \in Nat
  BY <1>1, AtType DEF TypeOK
<1>3. role \notin OwnRoles
  BY AuthoredAssumption DEF OwnRoles
<1>4. b = [arena EXCEPT ![k][h + 1].refs = @ \cup {x}]
  BY DEF AuthorRef
<1> HIDE DEF b
<1>5. ASSUME NEW j \in Kinds
      PROVE  /\ HandlesIn(b, j) = HandlesIn(arena, j)
             /\ \A n \in HandlesIn(b, j) : \A r : r.role \in OwnRoles =>
                  (r \in b[j][n + 1].refs <=> r \in arena[j][n + 1].refs)
  <2> DEFINE d == [arena[k][h + 1] EXCEPT !.refs = @ \cup {x}]
             s == [arena[k] EXCEPT ![h + 1] = d]
  <2>1. b = [arena EXCEPT ![k] = s]
    BY <1>4
  <2>2. arena[k] \in Seq(Def) /\ arena[k][h + 1] \in Def
    BY <1>2, ElementOfSeq
  <2>3. d.refs = arena[k][h + 1].refs \cup {x}
    BY <2>2 DEF Def
  <2>4. DOMAIN s = DOMAIN arena[k] /\ Len(s) = Len(arena[k])
        /\ \A n \in 1..Len(arena[k]) : s[n] = IF n = h + 1 THEN d ELSE arena[k][n]
    BY <1>2, <2>2
  <2> HIDE DEF d, s
  <2>5. b[k] = s /\ \A i \in Kinds \ {k} : b[i] = arena[i]
    BY <1>2, <2>1
  <2>6. HandlesIn(b, j) = HandlesIn(arena, j)
    BY <2>4, <2>5 DEF HandlesIn
  <2>7. ASSUME NEW n \in HandlesIn(b, j), NEW r, r.role \in OwnRoles
        PROVE  r \in b[j][n + 1].refs <=> r \in arena[j][n + 1].refs
    <3>1. n + 1 \in 1..Len(arena[j])
      BY <1>2, <2>6, <2>7 DEF HandlesIn
    <3>2. r # x
      BY <1>3, <2>7
    <3> HIDE DEF x
    <3> QED
      BY <2>3, <2>4, <2>5, <3>1, <3>2
  <2> QED
    BY <2>6, <2>7
<1>6. SameTree(b)
  BY <1>5 DEF SameTree
<1> QED
  BY <1>1, <1>6, SameTreeOwnership DEF b

-------------------------------------------------------------------------------
(* Removal.                                                                 *)

(* What a removal owes the tree: it detaches only list entries of what it     *)
(* removes, and removes the members of the types it removes.                 *)
TreeRemoval(detached, removed) ==
  /\ GoodRemoval(detached, removed)
  /\ \A k \in Kinds : \A h \in Handles(k) : \A r \in At(k, h).refs :
       r \notin detached[k][h + 1].refs =>
         \E role \in ListRoles \ {"generic_parameters"} :
           \E t \in removed[TargetKind(role)] : r = OneTo(role, t)
  /\ \A t \in Handles("type"), k \in ListedKinds : \A h \in Handles(k) :
       Holds(arena, "type", t, ListRole(k), h) /\ t \in removed["type"] => h \in removed[k]

(* The maps of a removal are one to one, and drop what is removed.           *)
LEMMA RemovalMaps ==
  ASSUME TypeOK, NEW removed, ~NothingIn(removed), NEW maps, maps = ArenaMaps(removed),
         NEW k \in Kinds
  PROVE  /\ \A h \in Kept(maps[k]) : h \in Handles(k) /\ h \notin Dead(k, removed)
         /\ \A h \in Handles(k) : h \notin Dead(k, removed) => h \in Kept(maps[k])
         /\ \A g, h \in Kept(maps[k]) : maps[k][g] = maps[k][h] => g = h
<1>1. /\ DOMAIN maps[k] = Handles(k)
      /\ \A h \in Handles(k) : maps[k][h] = None <=> h \in Dead(k, removed)
  BY ArenaMapsProps
<1>2. PICK new : IsArenaMap(maps[k], Len(arena[k]), new)
  BY ArenaMapsProps
<1>3. \A g, h \in Kept(maps[k]) : maps[k][g] = maps[k][h] => g = h
  BY <1>2 DEF IsArenaMap
<1> QED
  BY <1>1, <1>3 DEF Kept

(* Between survivors compaction keeps exactly the slots of the tree.         *)
LEMMA SurvivingSlots ==
  ASSUME TypeOK, ArenaOK(arena), OwnershipOK(arena), NEW removed, ~NothingIn(removed),
         NEW maps, maps = ArenaMaps(removed),
         NEW detached, TreeRemoval(detached, removed),
         NEW b, Compaction(b, maps, detached),
         NEW k \in Kinds, NEW h \in Kept(maps[k])
  PROVE  /\ \A x \in b[k][maps[k][h] + 1].refs : x.role \in OwnRoles => Len(x.to) = 1
         /\ \A role \in OwnRoles : \A t \in Kept(maps[TargetKind(role)]) :
              Holds(b, k, maps[k][h], role, maps[TargetKind(role)][t])
                <=> Holds(arena, k, h, role, t)
<1> DEFINE D == detached[k][h + 1].refs
<1>1. /\ h \in Handles(k) /\ D \subseteq At(k, h).refs
      /\ b[k][maps[k][h] + 1].refs = RemapRefs(maps, D)
  BY DEF Compaction, TreeRemoval, GoodRemoval
<1>2. ASSUME NEW r \in At(k, h).refs
      PROVE  /\ r \in Ref(Nat) /\ r.role \in Roles
             /\ r.role \in OwnRoles => \E s \in Nat : r.to = <<s>> /\ r = OneTo(r.role, s)
  <2>1. r \in Ref(Nat)
    BY <1>1, AtType DEF Def
  <2>2. r.role \in Roles /\ r.to \in Seq(Nat) /\ r = [role |-> r.role, to |-> r.to]
    BY <2>1 DEF Ref
  <2>3. r.role \in OwnRoles => Len(r.to) = 1
    BY <1>1 DEF OwnershipOK, SingleSlots, HandlesIn, Handles, At
  <2>4. ASSUME r.role \in OwnRoles
        PROVE  \E s \in Nat : r.to = <<s>> /\ r = OneTo(r.role, s)
    <3>1. Len(r.to) = 1
      BY <2>3, <2>4
    <3>2. r.to = <<r.to[1]>> /\ r.to[1] \in Nat
      BY <2>2, <3>1
    <3>3. r = OneTo(r.role, r.to[1])
      BY <2>2, <3>2 DEF OneTo
    <3> QED
      BY <3>2, <3>3
  <2> QED
    BY <2>1, <2>2, <2>4
<1>3. ASSUME NEW x \in RemapRefs(maps, D), x.role \in OwnRoles
      PROVE  \E s \in Kept(maps[TargetKind(x.role)]) :
               /\ OneTo(x.role, s) \in D
               /\ x.to = <<maps[TargetKind(x.role)][s]>>
  <2>1. x.role \notin Untouched /\ x.role \notin Sentinel
    BY <1>3, OwnRolesProps
  <2>2. ~(x \in D /\ ~Alive(maps, x) /\ x.role \in IfMapped)
    BY <1>1, BackPointersSurvive DEF TreeRemoval
  <2>3. PICK r \in D : Alive(maps, r) /\ x = Moved(maps, r)
    BY <2>1, <2>2 DEF RemapRefs
  <2>4. x.role = r.role
    BY <2>3 DEF Moved
  <2>5. PICK s \in Nat : r.to = <<s>> /\ r = OneTo(r.role, s)
    BY <1>1, <1>2, <1>3, <2>4
  <2>6. 1 \in DOMAIN r.to /\ r.to[1] = s
    BY <2>5
  <2>7. x.to = <<Get(maps[TargetKind(r.role)], s)>>
    BY <2>3, <2>5, MovedSingle
  <2>8. Get(maps[TargetKind(r.role)], s) # None
    BY <2>3, <2>6 DEF Alive
  <2> QED
    BY <2>3, <2>4, <2>5, <2>7, <2>8 DEF Get, Kept
<1>4. ASSUME NEW x \in b[k][maps[k][h] + 1].refs, x.role \in OwnRoles
      PROVE  Len(x.to) = 1
  <2>1. PICK s : x.to = <<maps[TargetKind(x.role)][s]>>
    BY <1>1, <1>3, <1>4
  <2> QED
    BY <2>1
<1>5. ASSUME NEW role \in OwnRoles, NEW t \in Kept(maps[TargetKind(role)])
      PROVE  Holds(b, k, maps[k][h], role, maps[TargetKind(role)][t])
               <=> Holds(arena, k, h, role, t)
  <2> DEFINE T == TargetKind(role)
             x == OneTo(role, maps[T][t])
             y == OneTo(role, t)
  <2>1. T \in Kinds /\ role \notin Untouched
    BY TargetKindType, OwnRolesProps
  <2>2. x.role = role /\ x.to = <<maps[T][t]>> /\ y.role = role /\ y.to = <<t>>
    BY DEF OneTo
  <2>3. ASSUME x \in RemapRefs(maps, D)
        PROVE  y \in At(k, h).refs
    <3>1. PICK s \in Kept(maps[T]) : OneTo(role, s) \in D /\ x.to = <<maps[T][s]>>
      BY <1>3, <2>2, <2>3
    <3>2. maps[T][s] = maps[T][t]
      BY <2>2, <3>1
    <3>3. s = t
      BY <2>1, <3>2, RemovalMaps
    <3> QED
      BY <1>1, <3>1, <3>3
  <2>4. ASSUME y \in At(k, h).refs
        PROVE  x \in RemapRefs(maps, D)
    <3>1. y \in D
      <4> SUFFICES ASSUME y \notin D PROVE FALSE
        OBVIOUS
      <4>1. PICK j \in ListRoles \ {"generic_parameters"} :
              \E s \in removed[TargetKind(j)] : y = OneTo(j, s)
        BY <1>1, <2>4 DEF TreeRemoval
      <4>2. j = role /\ t \in removed[T]
        BY <4>1, OneToInjective
      <4>3. T # "generic_param"
        <5>1. \E i \in Kinds : j = ListRole(i) /\ i # "generic_param"
          BY <4>1 DEF ListRoles, ListRole, Kinds
        <5> QED
          BY <4>2, <5>1, ListRoleInjective
      <4>4. t \in Dead(T, removed)
        BY <4>2, <4>3 DEF Dead
      <4> QED
        BY <2>1, <4>4, RemovalMaps
    <3>2. Get(maps[T], t) = maps[T][t] /\ maps[T][t] # None
      BY DEF Get, Kept
    <3>3. Alive(maps, y)
      BY <2>2, <3>2 DEF Alive
    <3>4. Moved(maps, y) = x
      <4>1. Moved(maps, y).to = <<maps[T][t]>>
        BY <2>2, <3>2, MovedSingle
      <4>2. Moved(maps, y) = [role |-> role, to |-> Moved(maps, y).to]
        BY <2>2 DEF Moved
      <4> QED
        BY <4>1, <4>2 DEF OneTo
    <3> HIDE DEF y, x
    <3> QED
      BY <2>1, <2>2, <3>1, <3>3, <3>4 DEF RemapRefs
  <2> QED
    BY <1>1, <2>3, <2>4 DEF Holds, At
<1> QED
  BY <1>4, <1>5

(* Compaction keeps the tree consistent.                                     *)
LEMMA CompactionKeepsOwnership ==
  ASSUME TypeOK, ArenaOK(arena), OwnershipOK(arena), NEW removed, ~NothingIn(removed),
         NEW maps, maps = ArenaMaps(removed),
         NEW detached, TreeRemoval(detached, removed),
         NEW b, Compaction(b, maps, detached)
  PROVE  OwnershipOK(b)
<1>1. ASSUME NEW k \in Kinds, NEW n \in HandlesIn(b, k)
      PROVE  \E h \in Kept(maps[k]) : /\ maps[k][h] = n /\ h \in HandlesIn(arena, k)
                                      /\ h \in Handles(k) /\ h \notin Dead(k, removed)
  <2>1. PICK h \in Kept(maps[k]) : maps[k][h] = n
    BY DEF Compaction, HandlesIn
  <2>2. h \in Handles(k) /\ h \notin Dead(k, removed)
    BY RemovalMaps
  <2> QED
    BY <2>1, <2>2 DEF HandlesIn, Handles
<1>2. \A k \in Kinds : \A h \in Kept(maps[k]) : maps[k][h] \in HandlesIn(b, k)
  BY DEF Compaction, HandlesIn
<1>3. SingleSlots(b)
  <2> SUFFICES ASSUME NEW k \in Kinds, NEW n \in HandlesIn(b, k), NEW x \in b[k][n + 1].refs,
                      x.role \in OwnRoles
               PROVE  Len(x.to) = 1
    BY DEF SingleSlots
  <2>1. PICK h \in Kept(maps[k]) : maps[k][h] = n
    BY <1>1
  <2> QED
    BY <2>1, SurvivingSlots
<1>4. ASSUME NEW o, NEW down, NEW member, NEW up, IsPair(o, down, member, up)
      PROVE  Mirrored(b, o, down, member, up)
  <2>1. /\ o \in Kinds /\ member \in Kinds /\ down \in OwnRoles /\ up \in OwnRoles
        /\ TargetKind(down) = member /\ TargetKind(up) = o
    BY <1>4, PairRoles DEF OwnRoles
  <2> SUFFICES ASSUME NEW t2 \in HandlesIn(b, o), NEW u2 \in HandlesIn(b, member)
               PROVE  Holds(b, o, t2, down, u2) <=> Holds(b, member, u2, up, t2)
    BY DEF Mirrored
  <2>2. PICK t \in Kept(maps[o]) : maps[o][t] = t2 /\ t \in HandlesIn(arena, o)
    BY <1>1, <2>1
  <2>3. PICK u \in Kept(maps[member]) : maps[member][u] = u2 /\ u \in HandlesIn(arena, member)
    BY <1>1, <2>1
  <2>4. Holds(b, o, t2, down, u2) <=> Holds(arena, o, t, down, u)
    BY <2>1, <2>2, <2>3, SurvivingSlots
  <2>5. Holds(b, member, u2, up, t2) <=> Holds(arena, member, u, up, t)
    BY <2>1, <2>2, <2>3, SurvivingSlots
  <2> QED
    BY <1>4, <2>2, <2>3, <2>4, <2>5 DEF OwnershipOK, Mirrored
<1>5. ASSUME NEW k \in ListedKinds
      PROVE  ListedOnce(b, k)
  <2>1. /\ k \in Kinds /\ "type" \in Kinds /\ k # "generic_param"
        /\ ListRole(k) \in OwnRoles /\ TargetKind(ListRole(k)) = k
    BY <1>5, ListedKindsAreKinds, ListRoleInjective DEF OwnRoles, ListedKinds, MemberKinds
  <2> SUFFICES ASSUME NEW h2 \in HandlesIn(b, k)
               PROVE  \E t \in HandlesIn(b, "type") : \A u \in HandlesIn(b, "type") :
                        Holds(b, "type", u, ListRole(k), h2) <=> u = t
    BY DEF ListedOnce
  <2>2. PICK h \in Kept(maps[k]) : /\ maps[k][h] = h2 /\ h \in HandlesIn(arena, k)
                                   /\ h \in Handles(k) /\ h \notin Dead(k, removed)
    BY <1>1, <2>1
  <2>3. PICK t \in HandlesIn(arena, "type") : \A u \in HandlesIn(arena, "type") :
          Holds(arena, "type", u, ListRole(k), h) <=> u = t
    BY <2>2 DEF OwnershipOK, ListedOnce
  <2>4. t \in Handles("type") /\ t \notin removed["type"]
    BY <2>1, <2>2, <2>3 DEF TreeRemoval, Dead, HandlesIn, Handles
  <2>5. t \in Kept(maps["type"])
    BY <2>1, <2>4, RemovalMaps DEF Dead
  <2>6. maps["type"][t] \in HandlesIn(b, "type")
    BY <1>2, <2>1, <2>5
  <2>7. ASSUME NEW u2 \in HandlesIn(b, "type")
        PROVE  Holds(b, "type", u2, ListRole(k), h2) <=> u2 = maps["type"][t]
    <3>1. PICK u \in Kept(maps["type"]) : maps["type"][u] = u2 /\ u \in HandlesIn(arena, "type")
      BY <1>1, <2>1
    <3>2. Holds(b, "type", u2, ListRole(k), h2) <=> Holds(arena, "type", u, ListRole(k), h)
      BY <2>1, <2>2, <3>1, SurvivingSlots
    <3>3. u2 = maps["type"][t] <=> u = t
      BY <2>1, <2>5, <3>1, RemovalMaps
    <3> QED
      BY <2>3, <3>1, <3>2, <3>3
  <2> QED
    BY <2>6, <2>7
<1> QED
  BY <1>3, <1>4, <1>5 DEF OwnershipOK

(* Every removal that calls compact() as it expects keeps the tree.          *)
LEMMA RemoveKeepsOwnership ==
  ASSUME OwnershipInv, NEW removed, NEW detached, TreeRemoval(detached, removed),
         Remove(detached, removed)
  PROVE  OwnershipOK(arena')
<1>1. TypeOK /\ ArenaOK(arena) /\ OwnershipOK(arena)
  BY ArenaOKMeans DEF OwnershipInv, IInv, HandlesInRange, RefsInRange
<1>2. GoodRemoval(detached, removed)
  BY DEF TreeRemoval
<1>3. CASE NothingIn(removed)
  <2>1. arena' = detached
    BY <1>3 DEF Remove
  <2>2. \A role \in ListRoles \ {"generic_parameters"} : removed[TargetKind(role)] = {}
    BY <1>3, OwnRolesProps, TargetKindType DEF NothingIn, OwnRoles
  <2>3. ASSUME NEW k \in Kinds, NEW h \in Handles(k)
        PROVE  detached[k][h + 1].refs = At(k, h).refs
    <3>1. detached[k][h + 1].refs \subseteq At(k, h).refs
      BY <1>2 DEF GoodRemoval
    <3>2. \A r \in At(k, h).refs : r \in detached[k][h + 1].refs
      BY <2>2 DEF TreeRemoval
    <3> QED
      BY <3>1, <3>2
  <2>4. \A k \in Kinds : Len(detached[k]) = Len(arena[k])
    BY <1>2 DEF GoodRemoval
  <2>5. SameTree(detached)
    BY <2>3, <2>4 DEF SameTree, HandlesIn, Handles, At
  <2> QED
    BY <1>1, <2>1, <2>5, SameTreeOwnership
<1>4. CASE ~NothingIn(removed)
  <2> DEFINE maps == ArenaMaps(removed)
  <2>1. arena' = [k \in Kinds |-> CompactArena(detached[k], maps[k], maps)]
    BY <1>4 DEF Remove
  <2>2. Compaction(arena', maps, detached)
    BY <1>1, <1>2, <1>4, <2>1, CompactedArenas
  <2> QED
    BY <1>1, <1>4, <2>2, CompactionKeepsOwnership
<1> QED
  BY <1>3, <1>4

(* Detaching takes at most the one entry out of a list.                      *)
LEMMA DetachSlots ==
  ASSUME TypeOK, NEW owners, NEW role, NEW x, NEW k \in Kinds, NEW h \in Handles(k),
         NEW r \in At(k, h).refs, r \notin Detach(owners, role, x)[k][h + 1].refs
  PROVE  r = OneTo(role, x)
<1> DEFINE old == arena["type"]
           new == [i \in DOMAIN old |->
                     IF i - 1 \in owners
                       THEN [id |-> old[i].id, refs |-> old[i].refs \ {OneTo(role, x)}]
                       ELSE old[i]]
<1>1. Detach(owners, role, x) = [arena EXCEPT !["type"] = new]
  BY DEF Detach
<1>2. arena \in [Kinds -> Seq(Def)] /\ old \in Seq(Def) /\ DOMAIN old = 1..Len(old)
  BY LenProperties, ListedKindsAreKinds DEF TypeOK
<1>3. h + 1 \in 1..Len(arena[k]) /\ At(k, h) = arena[k][h + 1]
  BY AtType
<1>4. CASE k # "type"
  BY <1>1, <1>2, <1>3, <1>4
<1>5. CASE k = "type"
  <2>1. h + 1 \in DOMAIN old /\ Detach(owners, role, x)[k][h + 1] = new[h + 1]
    BY <1>1, <1>2, <1>3, <1>5
  <2>2. r \in old[h + 1].refs /\ r \notin new[h + 1].refs
    BY <1>3, <1>5, <2>1
  <2>3. new[h + 1].refs = IF (h + 1) - 1 \in owners THEN old[h + 1].refs \ {OneTo(role, x)}
                                                    ELSE old[h + 1].refs
    BY <2>1
  <2> QED
    BY <2>2, <2>3
<1> QED
  BY <1>4, <1>5

(* compact() gets what it expects when the members of removed types are      *)
(* removed and only entries of removed definitions are detached.             *)
LEMMA RemovalIsTreeRemoval ==
  ASSUME TypeOK, NEW removed, MembersRemoved(removed),
         \A t \in Handles("type"), k \in ListedKinds : \A h \in Handles(k) :
           Holds(arena, "type", t, ListRole(k), h) /\ t \in removed["type"] => h \in removed[k]
  PROVE  /\ TreeRemoval(arena, removed)
         /\ \A owners, role, x :
              role \in ListRoles \ {"generic_parameters"} /\ x \in removed[TargetKind(role)]
                => TreeRemoval(Detach(owners, role, x), removed)
<1>1. TreeRemoval(arena, removed)
  BY NotDetachingIsGood DEF TreeRemoval, At
<1>2. ASSUME NEW owners, NEW role \in ListRoles \ {"generic_parameters"},
             NEW x \in removed[TargetKind(role)]
      PROVE  TreeRemoval(Detach(owners, role, x), removed)
  <2>1. GoodRemoval(Detach(owners, role, x), removed)
    BY <1>2, DetachIsGood, OwnershipTargets
  <2>2. \A k \in Kinds : \A h \in Handles(k) : \A r \in At(k, h).refs :
          r \notin Detach(owners, role, x)[k][h + 1].refs => r = OneTo(role, x)
    BY DetachSlots
  <2> QED
    BY <2>1, <2>2 DEF TreeRemoval
<1> QED
  BY <1>1, <1>2

(* What remove_type collects, by kind.                                       *)
LEMMA CollectedByKind ==
  ASSUME NEW id
  PROVE  /\ CollectTypeRemoval(id)["type"] = Subtree(id)
         /\ \A k \in ListedKinds : CollectTypeRemoval(id)[k] = MembersOf(Subtree(id), k)
         /\ id \in Handles("type") => id \in Subtree(id)
         /\ \A t \in Subtree(id), k \in ListedKinds : \A h :
              Holds(arena, "type", t, ListRole(k), h) => h \in MembersOf(Subtree(id), k)
<1>1. /\ CollectTypeRemoval(id)["type"] = Subtree(id)
      /\ \A k \in ListedKinds : CollectTypeRemoval(id)[k] = MembersOf(Subtree(id), k)
  BY DEF CollectTypeRemoval, Kinds, ListedKinds, MemberKinds
<1>2. id \in Handles("type") => id \in Subtree(id)
  BY DEF Subtree
<1>3. ASSUME NEW t \in Subtree(id), NEW k \in ListedKinds, NEW h,
             Holds(arena, "type", t, ListRole(k), h)
      PROVE  h \in MembersOf(Subtree(id), k)
  <2>1. h \in Targets("type", t, ListRole(k))
    BY <1>3 DEF Holds, Targets, OneTo, At
  <2> QED
    BY <2>1 DEF MembersOf
<1> QED
  BY <1>1, <1>2, <1>3

(* remove_type calls it so.                                                  *)
LEMMA TypeRemovalIsTreeRemoval ==
  ASSUME TypeOK, NEW id
  PROVE  /\ TreeRemoval(arena, CollectTypeRemoval(id))
         /\ id \in Handles("type") =>
              TreeRemoval(Detach(Targets("type", id, "declaring_type"), "nested_types", id),
                          CollectTypeRemoval(id))
<1> DEFINE removed == CollectTypeRemoval(id)
<1>1. \A t \in Handles("type"), k \in ListedKinds : \A h \in Handles(k) :
        Holds(arena, "type", t, ListRole(k), h) /\ t \in removed["type"] => h \in removed[k]
  BY CollectedByKind
<1>2. MembersRemoved(removed)
  BY CollectedMembers
<1>3. id \in Handles("type") => id \in removed["type"]
  BY CollectedByKind
<1> HIDE DEF removed
<1>4. TargetKind("nested_types") = "type" /\ "nested_types" \in ListRoles \ {"generic_parameters"}
  BY OwnershipTargets DEF ListRoles
<1>5. /\ TreeRemoval(arena, removed)
      /\ id \in Handles("type") =>
           TreeRemoval(Detach(Targets("type", id, "declaring_type"), "nested_types", id), removed)
  BY <1>1, <1>2, <1>3, <1>4, RemovalIsTreeRemoval
<1> QED
  BY <1>5 DEF removed

(* So do remove_method and the removals of the other members.                *)
LEMMA MemberRemovalIsTreeRemoval ==
  ASSUME TypeOK, NEW k \in ListedKinds, NEW id
  PROVE  /\ TreeRemoval(arena, Only(k, id))
         /\ \A owners : TreeRemoval(Detach(owners, ListRole(k), id), Only(k, id))
<1>1. k \in Kinds /\ k # "type" /\ k # "generic_param"
  BY ListedKindsAreKinds DEF ListedKinds, MemberKinds
<1>2. Only(k, id)[k] = {id} /\ Only(k, id)["type"] = {}
  BY <1>1, ListedKindsAreKinds DEF Only
<1>3. MembersRemoved(Only(k, id))
  BY <1>2 DEF MembersRemoved
<1>4. ListRole(k) \in ListRoles \ {"generic_parameters"} /\ TargetKind(ListRole(k)) = k
  BY <1>1, ListRoleInjective DEF ListRole, Kinds
<1> QED
  BY <1>2, <1>3, <1>4, RemovalIsTreeRemoval

(* Each removal keeps the tree.                                              *)
LEMMA RemovalsKeepOwnership ==
  ASSUME OwnershipInv,
         \/ \E id : RemoveType(id)
         \/ \E id : RemoveMethod(id)
         \/ \E k \in MemberKinds : \E id : RemoveMember(k, id)
  PROVE  OwnershipOK(arena')
<1>1. TypeOK
  BY DEF OwnershipInv, IInv
<1>2. ASSUME NEW id, RemoveType(id)
      PROVE  OwnershipOK(arena')
  BY <1>1, <1>2, TypeRemovalIsTreeRemoval, RemoveKeepsOwnership DEF RemoveType
<1>3. ASSUME NEW id, RemoveMethod(id)
      PROVE  OwnershipOK(arena')
  <2>1. "method" \in ListedKinds /\ ListRole("method") = "methods"
    BY DEF ListedKinds, ListRole
  <2> QED
    BY <1>1, <1>3, <2>1, MemberRemovalIsTreeRemoval, RemoveKeepsOwnership DEF RemoveMethod
<1>4. ASSUME NEW k \in MemberKinds, NEW id, RemoveMember(k, id)
      PROVE  OwnershipOK(arena')
  BY <1>1, <1>4, MemberRemovalIsTreeRemoval, RemoveKeepsOwnership DEF RemoveMember, ListedKinds
<1> QED
  BY <1>2, <1>3, <1>4

-------------------------------------------------------------------------------
(* The invariant is inductive.                                              *)

(* The empty module satisfies it.                                            *)
LEMMA OwnershipInit == Init => OwnershipInv
<1> SUFFICES ASSUME Init PROVE OwnershipOK(arena)
  BY InitIInv DEF OwnershipInv
<1>1. ASSUME NEW k \in Kinds
      PROVE  HandlesIn(arena, k) = {}
  <2>1. arena[k] = <<>> /\ Len(arena[k]) = 0
    BY DEF Init
  <2> QED
    BY <2>1 DEF HandlesIn
<1>2. \A owner, down, member, up : IsPair(owner, down, member, up) => owner \in Kinds
  BY PairRoles
<1> QED
  BY <1>1, <1>2, ListedKindsAreKinds DEF OwnershipOK, SingleSlots, Mirrored, ListedOnce

(* Every step keeps it.                                                      *)
LEMMA OwnershipStep ==
  ASSUME OwnershipInv, [Next]_vars
  PROVE  OwnershipInv'
<1>1. IInv'
  BY NextStep DEF OwnershipInv
<1>2. OwnershipOK(arena')
  <2>1. CASE UNCHANGED vars
    BY <2>1 DEF OwnershipInv, vars
  <2>2. CASE \E k \in Kinds : \E h \in Handles(k), role \in Authored :
               \E to \in TargetTuples(role) : AuthorRef(k, h, role, to)
    BY <2>2, AuthorRefKeepsOwnership
  <2>3. CASE \/ \E parent \in {None} \cup 0..Len(arena["type"]) : AddType(parent)
             \/ \E owner \in Handles("type") : AddMethod(owner)
             \/ \E k \in MemberKinds : \E owner \in Handles("type") : AddMember(k, owner)
             \/ \E k \in {"type", "method"} : \E owner \in Handles(k) : AddGenericParameter(k, owner)
    BY <2>3, AddsKeepOwnership
  <2>4. CASE \E h \in Handles("method") :
               SetEntryPoint(h) \/ AddAssemblyAttribute(h) \/ RecordDebug(h) \/ RecordNative(h)
    <3>1. arena' = arena
      BY <2>4 DEF SetEntryPoint, AddAssemblyAttribute, RecordDebug, RecordNative
    <3> QED
      BY <3>1 DEF OwnershipInv
  <2>5. CASE \/ \E id : RemoveType(id)
             \/ \E id : RemoveMethod(id)
             \/ \E k \in MemberKinds : \E id : RemoveMember(k, id)
    BY <2>5, RemovalsKeepOwnership
  <2> QED
    BY <2>1, <2>2, <2>3, <2>4, <2>5 DEF Next
<1> QED
  BY <1>1, <1>2 DEF OwnershipInv

(* The targets of a slot of the tree are the handles it holds singly.        *)
LEMMA OwnTargets ==
  ASSUME TypeOK, OwnershipOK(arena), NEW k \in Kinds, NEW h \in Handles(k),
         NEW role \in OwnRoles, NEW t
  PROVE  t \in Targets(k, h, role) <=> Holds(arena, k, h, role, t)
<1>1. ASSUME Holds(arena, k, h, role, t)
      PROVE  t \in Targets(k, h, role)
  BY <1>1 DEF Holds, Targets, OneTo, At
<1>2. ASSUME t \in Targets(k, h, role)
      PROVE  Holds(arena, k, h, role, t)
  <2>1. PICK r \in At(k, h).refs : r.role = role /\ \E i \in DOMAIN r.to : r.to[i] = t
    BY <1>2 DEF Targets
  <2>2. r \in Ref(Nat)
    BY AtType DEF Def
  <2>3. Len(r.to) = 1
    BY <2>1 DEF OwnershipOK, SingleSlots, HandlesIn, Handles, At
  <2>4. r.to \in Seq(Nat) /\ r = [role |-> r.role, to |-> r.to]
    BY <2>2 DEF Ref
  <2>5. r.to = <<t>>
    BY <2>1, <2>3, <2>4
  <2> QED
    BY <2>1, <2>4, <2>5 DEF Holds, OneTo, At
<1> QED
  BY <1>1, <1>2

(* The invariant says what the run checks.                                   *)
LEMMA OwnershipMeans == OwnershipInv => OwnershipConsistent
<1> SUFFICES ASSUME OwnershipInv PROVE OwnershipConsistent
  OBVIOUS
<1>1. TypeOK /\ OwnershipOK(arena) /\ \A k : HandlesIn(arena, k) = Handles(k)
  BY DEF OwnershipInv, IInv, HandlesIn, Handles
<1>2. ASSUME NEW owner, NEW down, NEW member, NEW up, IsPair(owner, down, member, up),
             NEW t \in Handles(owner), NEW u \in Handles(member)
      PROVE  u \in Targets(owner, t, down) <=> t \in Targets(member, u, up)
  <2>1. owner \in Kinds /\ member \in Kinds /\ down \in OwnRoles /\ up \in OwnRoles
    BY <1>2, PairRoles DEF OwnRoles
  <2>2. Holds(arena, owner, t, down, u) <=> Holds(arena, member, u, up, t)
    BY <1>1, <1>2 DEF OwnershipOK, Mirrored
  <2> QED
    BY <1>1, <2>1, <2>2, OwnTargets
<1>3. ASSUME NEW k \in ListedKinds, NEW h \in Handles(k)
      PROVE  \E t \in Handles("type") : \A u \in Handles("type") :
               h \in Targets("type", u, ListRole(k)) <=> u = t
  <2>1. k \in Kinds /\ "type" \in Kinds /\ ListRole(k) \in OwnRoles
    BY ListedKindsAreKinds, ListRoleInjective DEF OwnRoles
  <2>2. PICK t \in Handles("type") : \A u \in Handles("type") :
          Holds(arena, "type", u, ListRole(k), h) <=> u = t
    BY <1>1 DEF OwnershipOK, ListedOnce
  <2> QED
    BY <1>1, <2>1, <2>2, OwnTargets
<1>4. /\ IsPair("type", "nested_types", "type", "declaring_type")
      /\ IsPair("type", "methods", "method", "method_declaring_type")
      /\ IsPair("type", "generic_parameters", "generic_param", "owner_type")
      /\ IsPair("method", "generic_parameters", "generic_param", "owner_method")
  BY DEF IsPair
<1> QED
  BY <1>2, <1>3, <1>4 DEF OwnershipConsistent, ListedKinds

(* Lists and back pointers of the ownership tree agree, and nothing is listed *)
(* twice, after any sequence of additions, edits and removals.               *)
THEOREM OwnershipStaysConsistent == Spec => []OwnershipConsistent
<1>1. Init => OwnershipInv
  BY OwnershipInit
<1>2. OwnershipInv /\ [Next]_vars => OwnershipInv'
  BY OwnershipStep
<1>3. OwnershipInv => OwnershipConsistent
  BY OwnershipMeans
<1> QED
  BY <1>1, <1>2, <1>3, PTL DEF Spec
===============================================================================
