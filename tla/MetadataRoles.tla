---------------------------- MODULE MetadataRoles ----------------------------
(***************************************************************************)
(* The six definition arenas of crate::module_def::Module and the handle   *)
(* slots of the definitions that live in them (model/types.rs).  A slot is *)
(* named by its ROLE; the role fixes which arena the handle indexes and    *)
(* what a removal (model/removal.rs) does with it.                         *)
(***************************************************************************)
EXTENDS Integers, Sequences

Kinds == {"type", "method", "field", "property", "event", "generic_param"}

(* Handle slots by the arena they index.  TypeDesc trees count as their     *)
(* Def leaves, so a base type, an interface, a signature, a catch type or   *)
(* an operand contributes one slot per TypeDesc::Def in it.                 *)
TypeRoles   == {"declaring_type", "nested_types", "base_type",
                "method_declaring_type", "signature", "operand_type",
                "locals", "owner_type", "constraint"}
MethodRoles == {"methods", "overrides", "operand_method", "accessor",
                "custom_attribute", "owner_method"}
FieldRoles  == {"fields", "operand_field"}

Roles == TypeRoles \cup MethodRoles \cup FieldRoles
           \cup {"properties", "events", "generic_parameters"}

TargetKind(role) ==
  CASE role \in TypeRoles            -> "type"
    [] role \in MethodRoles          -> "method"
    [] role \in FieldRoles           -> "field"
    [] role = "properties"           -> "property"
    [] role = "events"               -> "event"
    [] role = "generic_parameters"   -> "generic_param"

(* The slots each kind of definition carries besides the ones the add_*     *)
(* operations maintain: what a caller may author on it.                     *)
RolesOf(kind) ==
  CASE kind = "type"          -> {"base_type", "custom_attribute"}
    [] kind = "method"        -> {"signature", "operand_type", "operand_method",
                                  "operand_field", "locals", "overrides",
                                  "custom_attribute"}
    [] kind = "field"         -> {"signature", "custom_attribute"}
    [] kind = "property"      -> {"signature", "accessor", "custom_attribute"}
    [] kind = "event"         -> {"signature", "accessor", "custom_attribute"}
    [] kind = "generic_param" -> {"constraint", "custom_attribute"}

(* The member list of a type (or method) that holds handles of `kind'.      *)
ListRole(kind) ==
  CASE kind = "type"          -> "nested_types"
    [] kind = "method"        -> "methods"
    [] kind = "field"         -> "fields"
    [] kind = "property"      -> "properties"
    [] kind = "event"         -> "events"
    [] kind = "generic_param" -> "generic_parameters"

ListRoles == {"nested_types", "methods", "fields", "properties", "events",
              "generic_parameters"}

(* Back pointers to the owner: they and the lists are the ownership tree.   *)
OwnerRoles == {"declaring_type", "method_declaring_type", "owner_type",
               "owner_method"}

(* What compact() does with a slot whose target was removed:                *)
(*   Sentinel   the slot stays and holds a wire-legal sentinel              *)
(*              (TypeDesc::Internal("<removed>"), the nil token);           *)
(*   IfMapped   the handle is rewritten only when the target survived;      *)
(*   Untouched  compact() never visits the slot;                            *)
(*   otherwise  the slot is dropped.                                        *)
(* The list is of slots that definitions hold.  compact() never visits the   *)
(* module's own attributes either (Module.custom_attributes,                *)
(* module_def.rs:28), whose constructors are handles as well: no definition *)
(* holds them, they are not a slot of this model, and nothing said of it     *)
(* here covers them.                                                        *)
Sentinel  == {"base_type", "signature", "operand_type", "operand_method",
              "operand_field", "constraint"}
IfMapped  == {"method_declaring_type", "owner_type", "owner_method"}
Untouched == {"locals"}

(* A slot: its role and the handles it holds.  An override holds two (body  *)
(* and declaration), every other slot one, a sentinel none.                 *)
Ref(Target) == [role : Roles, to : Seq(Target)]
==============================================================================
