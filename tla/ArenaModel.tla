------------------------------ MODULE ArenaModel ------------------------------
(***************************************************************************)
(* The arena-based object model of a .NET module and its facade state:     *)
(* the add_* operations of module_def.rs, the removals of                  *)
(* model/removal.rs (eager compaction with remapping of every handle) and  *)
(* the assembly-level fixup of assembly.rs.                                *)
(*                                                                         *)
(* A handle is a zero-based index into its arena; arenas are TLA+          *)
(* sequences, so handle h denotes arena[k][h+1].  Every definition carries *)
(* an `id', the identity a reader sees (its name); no operation looks at   *)
(* it, the properties compare definitions by it.  Member lists and slots   *)
(* are sets: no operation depends on their order.                          *)
(***************************************************************************)
EXTENDS MetadataRoles, FiniteSets

CONSTANTS
  Names,      \* identities of definitions, unique within a kind
  None,       \* Option::None
  MaxLen,     \* bound: the longest arena of each kind
  MaxRefs,    \* bound: authored slots in the whole module
  MaxRecords, \* bound: entries in the tables keyed by method; 0 also leaves
              \* the entry point unset
  Authored    \* the roles callers author in this instance

ASSUME NoneAssumption == None \notin Nat
ASSUME BoundsAssumption == MaxLen \in [Kinds -> Nat] /\ MaxRefs \in Nat /\ MaxRecords \in Nat
ASSUME AuthoredAssumption == Authored \subseteq Roles \ (ListRoles \cup OwnerRoles)

VARIABLES
  arena,        \* Module.{types, methods, fields, properties, events, generic_parameters}
  debug,        \* Module.debug.{points, scopes}: <<MethodDef rid, method it was recorded for>>
  native_rvas,  \* Module.native_method_rvas: <<handle, method it was recorded for>>
  entry_point,  \* AssemblyDefinition.entry_point
  asm_cas       \* AssemblyDefinition.name.custom_attributes: <<ctor handle, its method>>

vars == <<arena, debug, native_rvas, entry_point, asm_cas>>

Def == [id : Names, refs : SUBSET Ref(Nat)]

Handles(k) == 0..(Len(arena[k]) - 1)
At(k, h)   == arena[k][h + 1]
Ids(k)     == {At(k, h).id : h \in Handles(k)}

OneTo(role, h) == [role |-> role, to |-> <<h>>]

(* One definition with no reference yet.                                    *)
Fresh(k) == CHOOSE n \in Names : n \notin Ids(k)
CanAdd(k) == Len(arena[k]) < MaxLen[k] /\ \E n \in Names : n \notin Ids(k)

Init ==
  /\ arena = [k \in Kinds |-> <<>>]
  /\ debug = {}
  /\ native_rvas = {}
  /\ entry_point = None
  /\ asm_cas = {}

-------------------------------------------------------------------------------
(* Adding definitions: append to the arena, register on the owner.          *)

SideState == <<debug, native_rvas, entry_point, asm_cas>>

(* list (of ownerKind's definition `owner') gains handle h.                  *)
Register(a, ownerKind, owner, role, h) ==
  [a EXCEPT ![ownerKind][owner + 1].refs = @ \cup {OneTo(role, h)}]

Appended(k, refs) ==
  [arena EXCEPT ![k] = Append(@, [id |-> Fresh(k), refs |-> refs])]

(* add_type: an out-of-range parent is dropped, not kept.                    *)
AddType(parent) ==
  /\ CanAdd("type")
  /\ arena' = IF parent \in Handles("type")
                THEN Register(Appended("type", {OneTo("declaring_type", parent)}),
                              "type", parent, "nested_types", Len(arena["type"]))
                ELSE Appended("type", {})
  /\ UNCHANGED SideState

AddMethod(owner) ==
  /\ CanAdd("method")
  /\ arena' = Register(Appended("method", {OneTo("method_declaring_type", owner)}),
                       "type", owner, "methods", Len(arena["method"]))
  /\ UNCHANGED SideState

(* add_field, add_property, add_event: no back pointer to the owner.         *)
AddMember(k, owner) ==
  /\ CanAdd(k)
  /\ arena' = Register(Appended(k, {}), "type", owner, ListRole(k), Len(arena[k]))
  /\ UNCHANGED SideState

OwnerRole(ownerKind) == IF ownerKind = "type" THEN "owner_type" ELSE "owner_method"

AddGenericParameter(ownerKind, owner) ==
  /\ CanAdd("generic_param")
  /\ arena' = Register(Appended("generic_param", {OneTo(OwnerRole(ownerKind), owner)}),
                       ownerKind, owner, "generic_parameters",
                       Len(arena["generic_param"]))
  /\ UNCHANGED SideState

-------------------------------------------------------------------------------
(* Caller edits: the fields of the definitions are public.                  *)

AuthoredSlots ==
  UNION {UNION {{<<k, h, r>> : r \in {x \in At(k, h).refs : x.role \in Authored}} :
                  h \in Handles(k)} : k \in Kinds}

MayRecord ==
  Cardinality(debug) + Cardinality(native_rvas) + Cardinality(asm_cas) < MaxRecords

(* One more slot of role `role' on definition <<k, h>>, naming live targets. *)
AuthorRef(k, h, role, to) ==
  /\ role \in RolesOf(k) \cap Authored
  /\ Cardinality(AuthoredSlots) < MaxRefs
  /\ arena' = [arena EXCEPT ![k][h + 1].refs = @ \cup {[role |-> role, to |-> to]}]
  /\ UNCHANGED SideState

SetEntryPoint(h) ==
  /\ MaxRecords > 0
  /\ entry_point' = h
  /\ UNCHANGED <<arena, debug, native_rvas, asm_cas>>

AddAssemblyAttribute(ctor) ==
  /\ MayRecord
  /\ asm_cas' = asm_cas \cup {<<ctor, At("method", ctor).id>>}
  /\ UNCHANGED <<arena, debug, native_rvas, entry_point>>

(* Sequence points and scopes are keyed by rid, one past the handle.         *)
RecordDebug(h) ==
  /\ MayRecord
  /\ debug' = debug \cup {<<h + 1, At("method", h).id>>}
  /\ UNCHANGED <<arena, native_rvas, entry_point, asm_cas>>

RecordNative(h) ==
  /\ MayRecord
  /\ native_rvas' = native_rvas \cup {<<h, At("method", h).id>>}
  /\ UNCHANGED <<arena, debug, entry_point, asm_cas>>

-------------------------------------------------------------------------------
(* ArenaMap: the old-slot to new-slot map of one arena.                     *)

Build(len, removed) ==
  LET keep == (0..(len - 1)) \ removed
  IN  [old \in 0..(len - 1) |->
         IF old \in keep THEN Cardinality({j \in keep : j < old}) ELSE None]

Get(map, old) == IF old \in DOMAIN map THEN map[old] ELSE None

-------------------------------------------------------------------------------
(* Remapping one definition's slots.                                        *)

Alive(maps, r) ==
  \A i \in DOMAIN r.to : Get(maps[TargetKind(r.role)], r.to[i]) # None

(* Mutant: a slot whose target survived keeps its old handle.                *)
MovedNowhere(maps, r) == r

Moved(maps, r) ==
  [role |-> r.role,
   to   |-> [i \in DOMAIN r.to |-> Get(maps[TargetKind(r.role)], r.to[i])]]

(* Mutant: dead slots are all dropped, none becomes a sentinel.              *)
RemapRefsNoSentinel(maps, refs) ==
  LET visited == {r \in refs : r.role \notin Untouched}
  IN  (refs \ visited)
        \cup {Moved(maps, r) : r \in {x \in visited : Alive(maps, x)}}
        \cup {r \in visited : r.role \in IfMapped /\ ~Alive(maps, r)}

RemapRefs(maps, refs) ==
  LET visited == {r \in refs : r.role \notin Untouched}
      dead    == {r \in visited : ~Alive(maps, r)}
  IN  (refs \ visited)
        \cup {Moved(maps, r) : r \in visited \ dead}
        \cup {[role |-> r.role, to |-> <<>>] : r \in {d \in dead : d.role \in Sentinel}}
        \cup {r \in dead : r.role \in IfMapped}

(* The arena without its removed slots, every survivor remapped.             *)
CompactArena(defs, map, maps) ==
  LET kept == {h \in DOMAIN map : map[h] # None}
      OldAt(new) == CHOOSE h \in kept : map[h] = new
  IN  [i \in 1..Cardinality(kept) |->
         [id   |-> defs[OldAt(i - 1) + 1].id,
          refs |-> RemapRefs(maps, defs[OldAt(i - 1) + 1].refs)]]

(* Mutants: the rid is looked up as a handle; the new handle is not made a   *)
(* rid again.                                                                *)
RemapDebugByRid(d, methods) ==
  {<<Get(methods, p[1]) + 1, p[2]>> : p \in {q \in d : Get(methods, q[1]) # None}}

RemapDebugToHandle(d, methods) ==
  {<<Get(methods, p[1] - 1), p[2]>> : p \in {q \in d : Get(methods, q[1] - 1) # None}}

RemapDebug(d, methods) ==
  {<<Get(methods, p[1] - 1) + 1, p[2]>> : p \in {q \in d : Get(methods, q[1] - 1) # None}}

-------------------------------------------------------------------------------
(* compact(): generic parameters die with their owner; when nothing is      *)
(* removed the maps handed to the facade are empty.                         *)

Targets(k, h, role) == UNION {{r.to[i] : i \in DOMAIN r.to} :
                                r \in {x \in At(k, h).refs : x.role = role}}

(* Mutant: only the parameters of removed types die.                         *)
DeadGenericParamsOfTypes(removed) ==
  {g \in Handles("generic_param") :
     Targets("generic_param", g, "owner_type") \cap removed["type"] # {}}

DeadGenericParams(removed) ==
  {g \in Handles("generic_param") :
     \/ Targets("generic_param", g, "owner_type") \cap removed["type"] # {}
     \/ Targets("generic_param", g, "owner_method") \cap removed["method"] # {}}

NothingIn(removed) == \A k \in Kinds : removed[k] = {}

ArenaMaps(removed) ==
  IF NothingIn(removed)
    THEN [k \in Kinds |-> <<>>]
    ELSE [k \in Kinds |->
            Build(Len(arena[k]),
                  IF k = "generic_param" THEN DeadGenericParams(removed)
                                         ELSE removed[k])]

(* Mutant: a dead entry point is cleared only when it is out of range.       *)
FixupEntryPointByRange(methods) ==
  entry_point' = CASE entry_point = None -> None
                   [] entry_point # None /\ Get(methods, entry_point) # None ->
                        Get(methods, entry_point)
                   [] OTHER -> IF entry_point < Len(arena'["method"]) THEN entry_point
                                                                      ELSE None

(* fixup_after_removal: entry point and assembly attributes.                 *)
FixupEntryPoint(methods) ==
  entry_point' = IF entry_point = None THEN None ELSE Get(methods, entry_point)

FixupAssemblyAttributes(methods, len) ==
  LET Fixed(ca) == IF Get(methods, ca[1]) # None THEN <<Get(methods, ca[1]), ca[2]>>
                                                 ELSE ca
  IN  asm_cas' = {c \in {Fixed(ca) : ca \in asm_cas} : c[1] < len}

(* AssemblyDefinition::remove_*: detach, compact, fix the facade up.         *)
Remove(detached, removed) ==
  LET maps == ArenaMaps(removed)
  IN  /\ arena' = IF NothingIn(removed) THEN detached
                     ELSE [k \in Kinds |-> CompactArena(detached[k], maps[k], maps)]
      /\ debug' = IF NothingIn(removed) THEN debug ELSE RemapDebug(debug, maps["method"])
      /\ FixupEntryPoint(maps["method"])
      /\ FixupAssemblyAttributes(maps["method"], Len(arena'["method"]))
      /\ UNCHANGED native_rvas

(* The owner's list without handle h.                                        *)
Detach(owners, role, h) ==
  [arena EXCEPT !["type"] =
     [i \in DOMAIN @ |->
        IF i - 1 \in owners
          THEN [id |-> @[i].id, refs |-> @[i].refs \ {OneTo(role, h)}]
          ELSE @[i]]]

(* collect_type_removal: the nested subtree, as the least set of types that  *)
(* holds the root and is closed under nested_types.                          *)
ClosedUnderNesting(S) ==
  \A t \in S : Targets("type", t, "nested_types") \cap Handles("type") \subseteq S

Subtree(root) ==
  {t \in Handles("type") :
     /\ root \in Handles("type")
     /\ \A S \in SUBSET Handles("type") :
          (root \in S /\ ClosedUnderNesting(S)) => t \in S}

MembersOf(types, k) == UNION {Targets("type", t, ListRole(k)) : t \in types}

(* Mutant: the properties of the subtree stay behind.                        *)
CollectTypeRemovalNoProperties(root) ==
  LET types == Subtree(root)
  IN  [k \in Kinds |-> CASE k = "type" -> types
                         [] k \in {"method", "field", "event"} -> MembersOf(types, k)
                         [] k \in {"property", "generic_param"} -> {}]

CollectTypeRemoval(root) ==
  LET types == Subtree(root)
  IN  [k \in Kinds |-> CASE k = "type" -> types
                         [] k \in {"method", "field", "property", "event"} -> MembersOf(types, k)
                         [] k = "generic_param" -> {}]

RemoveType(id) ==
  Remove(IF id \in Handles("type")
           THEN Detach(Targets("type", id, "declaring_type"), "nested_types", id)
           ELSE arena,
         CollectTypeRemoval(id))

Only(k, id) == [j \in Kinds |-> IF j = k THEN {id} ELSE {}]

RemoveMethod(id) ==
  Remove(IF id \in Handles("method")
           THEN Detach(Targets("method", id, "method_declaring_type"), "methods", id)
           ELSE arena,
         Only("method", id))

(* member_owner: the first type that lists the member.                       *)
MemberOwner(k, id) ==
  {t \in Handles("type") :
     /\ id \in Targets("type", t, ListRole(k))
     /\ \A u \in Handles("type") : id \in Targets("type", u, ListRole(k)) => t <= u}

RemoveMember(k, id) ==
  Remove(Detach(MemberOwner(k, id), ListRole(k), id), Only(k, id))

-------------------------------------------------------------------------------

(* The targets a caller may put in a slot: an override names a body and a    *)
(* declaration, every other slot one definition.                             *)
TargetTuples(role) ==
  IF role = "overrides" THEN Handles("method") \X Handles("method")
                        ELSE {<<t>> : t \in Handles(TargetKind(role))}

MemberKinds == {"field", "property", "event"}

Next ==
  \/ \E parent \in {None} \cup 0..Len(arena["type"]) : AddType(parent)
  \/ \E owner \in Handles("type") : AddMethod(owner)
  \/ \E k \in MemberKinds : \E owner \in Handles("type") : AddMember(k, owner)
  \/ \E k \in {"type", "method"} : \E owner \in Handles(k) : AddGenericParameter(k, owner)
  \/ \E k \in Kinds : \E h \in Handles(k), role \in Authored :
       \E to \in TargetTuples(role) : AuthorRef(k, h, role, to)
  \/ \E h \in Handles("method") : SetEntryPoint(h)
  \/ \E h \in Handles("method") : AddAssemblyAttribute(h)
  \/ \E h \in Handles("method") : RecordDebug(h)
  \/ \E h \in Handles("method") : RecordNative(h)
  \/ \E id \in 0..Len(arena["type"]) : RemoveType(id)
  \/ \E id \in 0..Len(arena["method"]) : RemoveMethod(id)
  \/ \E k \in MemberKinds : \E id \in 0..Len(arena[k]) : RemoveMember(k, id)

Spec == Init /\ [][Next]_vars

-------------------------------------------------------------------------------
(* Type correctness: arenas of definitions whose slots hold tuples of        *)
(* handles; the facade's handles are numbers (or None for the entry point).  *)
TypeOK ==
  /\ arena \in [Kinds -> Seq(Def)]
  /\ debug \subseteq (Nat \ {0}) \X Names
  /\ native_rvas \subseteq Nat \X Names
  /\ entry_point \in Nat \cup {None}
  /\ asm_cas \subseteq Nat \X Names

InRange(r) == \A i \in DOMAIN r.to : r.to[i] \in Handles(TargetKind(r.role))

(* removal.rs: "every surviving handle in the model is remapped to the       *)
(* slot's new position".  No sequence of additions, edits and removals       *)
(* leaves a slot that compact() visits, or the entry point, with a handle    *)
(* past the end of its arena.                                                *)
HandlesInRange ==
  /\ \A k \in Kinds : \A h \in Handles(k) :
       \A r \in At(k, h).refs : r.role \notin Untouched => InRange(r)
  /\ entry_point # None => entry_point \in Handles("method")

(* The two directions of the ownership tree agree: a method or nested type   *)
(* points back at exactly the type that lists it, a generic parameter at the *)
(* definition that lists it, and no definition is listed twice.  remove_type *)
(* walks the lists, compact() trusts the back pointers.                      *)
OwnershipConsistent ==
  /\ \A t, u \in Handles("type") :
       u \in Targets("type", t, "nested_types") <=> t \in Targets("type", u, "declaring_type")
  /\ \A t \in Handles("type"), m \in Handles("method") :
       m \in Targets("type", t, "methods") <=> t \in Targets("method", m, "method_declaring_type")
  /\ \A g \in Handles("generic_param") :
       /\ \A t \in Handles("type") : g \in Targets("type", t, "generic_parameters")
                                       <=> t \in Targets("generic_param", g, "owner_type")
       /\ \A m \in Handles("method") : g \in Targets("method", m, "generic_parameters")
                                         <=> m \in Targets("generic_param", g, "owner_method")
  /\ \A k \in MemberKinds \cup {"method"} : \A h \in Handles(k) :
       \E t \in Handles("type") : \A u \in Handles("type") :
         h \in Targets("type", u, ListRole(k)) <=> u = t

(* Sequence points stay with the method they were recorded for, whatever is  *)
(* removed around it: the rid key is remapped with the method's handle.      *)
DebugFollowsMethod ==
  \A p \in debug : p[1] - 1 \in Handles("method") /\ At("method", p[1] - 1).id = p[2]

(* A removal never makes the entry point denote another method: it follows   *)
(* its method or is cleared.                                                 *)
RemovalStep == \E k \in Kinds : Len(arena'[k]) < Len(arena[k])

EntryPointNeverRetargets ==
  [][RemovalStep /\ entry_point' # None
       => /\ entry_point # None
          /\ At("method", entry_point)'.id = At("method", entry_point).id]_vars

-------------------------------------------------------------------------------
(* A statement of the source that the code does not keep.                   *)

(* removal.rs:7 "every surviving handle in the model is remapped": applied   *)
(* to the local variables of a surviving body.                               *)
LocalsInRange ==
  \A m \in Handles("method") : \A r \in At("method", m).refs :
    r.role = "locals" => InRange(r)

===============================================================================
