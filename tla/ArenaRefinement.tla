--------------------------- MODULE ArenaRefinement ----------------------------
(***************************************************************************)
(* The arena model implements the object model: replacing every handle by  *)
(* the identity of the definition it denotes turns each behaviour of       *)
(* ArenaModel into a behaviour of ObjectModel.                             *)
(***************************************************************************)
EXTENDS ArenaModel

(* No owner is told from every owner.                                        *)
ASSUME NoOwnerAssumption == None \notin Kinds \X Names

(* The owner of a definition, read from its back pointer or, for fields,     *)
(* properties and events, from the list it is in.                            *)
OwnersOf(k, h) ==
  CASE k = "type"          -> {<<"type", t>> : t \in Targets("type", h, "declaring_type")}
    [] k = "method"        -> {<<"type", t>> : t \in Targets("method", h, "method_declaring_type")}
    [] k = "generic_param" -> {<<"type", t>> : t \in Targets(k, h, "owner_type")}
                                \cup {<<"method", m>> : m \in Targets(k, h, "owner_method")}
    [] k \in MemberKinds   -> {<<"type", t>> : t \in {u \in Handles("type") :
                                 h \in Targets("type", u, ListRole(k))}}

Named(ref) ==
  [role |-> ref.role,
   to   |-> [i \in DOMAIN ref.to |-> At(TargetKind(ref.role), ref.to[i]).id]]

Object(k, h) ==
  [kind  |-> k,
   id    |-> At(k, h).id,
   owner |-> IF OwnersOf(k, h) = {} THEN None
               ELSE LET o == CHOOSE x \in OwnersOf(k, h) : TRUE
                    IN  <<o[1], At(o[1], o[2]).id>>,
   refs  |-> {Named(r) : r \in {x \in At(k, h).refs :
                 x.role \notin ListRoles \cup OwnerRoles \cup Untouched}}]

ObjectsBar == UNION {{Object(k, h) : h \in Handles(k)} : k \in Kinds}

Abs == INSTANCE ObjectModel WITH objs <- ObjectsBar

(* Removal by compaction is removal of objects: exactly the owned subtree    *)
(* goes, and every handle a survivor keeps still denotes the definition it   *)
(* denoted before.  A caller that edits, adds and removes in any order       *)
(* cannot tell the arenas from Cecil's object graph.                         *)
ImplementsObjectModel == Abs!OSpec
===============================================================================
