----------------------------- MODULE MetadataRows -----------------------------
(***************************************************************************)
(* The vocabulary the reader and the writer of metadata tables share: the  *)
(* tables, coded cells and the side tables whose rows hang off a parent.   *)
(*                                                                         *)
(* A file is a record of tables, each a sequence of rows addressed by row  *)
(* id (rid).  A module is a record of arenas, each a sequence; a handle is *)
(* written as its position, one more than the index the program keeps, so  *)
(* that the handle of a definition and the rid it is read from coincide.   *)
(* Names stand for whole definitions: their attributes and signatures are  *)
(* carried along and never looked at.                                      *)
(***************************************************************************)
EXTENDS Naturals, Sequences, FiniteSets, SequencesExt, FiniteSetsExt, TLC

CONSTANT Refused    \* Result::Err of reading or writing

Nil == <<"nil", 0>>   \* the cell 0 of a coded column

MemberKinds == {"Property", "Event"}
Single == [Property |-> {"GETTER", "SETTER"}, Event |-> {"ADD_ON", "REMOVE_ON", "FIRE"}]

(* The coded-index groups, tables in tag order.                             *)
Group ==
  [CustomAttribute |-> <<"MethodDef", "Field", "TypeRef", "TypeDef", "Param",
     "InterfaceImpl", "MemberRef", "Module", "DeclSecurity", "Property", "Event",
     "StandAloneSig", "ModuleRef", "TypeSpec", "Assembly", "AssemblyRef", "File",
     "ExportedType", "ManifestResource", "GenericParam", "GenericParamConstraint",
     "MethodSpec">>,
   Constant     |-> <<"Field", "Param", "Property">>,
   FieldMarshal |-> <<"Field", "Param">>,
   DeclSecurity |-> <<"TypeDef", "MethodDef", "Assembly">>,
   ImplMap      |-> <<"Field", "MethodDef">>,
   ClassLayout  |-> <<"TypeDef">>,
   FieldLayout  |-> <<"Field">>,
   FieldRva     |-> <<"Field">>,
   Semantics    |-> <<"Event", "Property">>,
   GenericOwner |-> <<"TypeDef", "MethodDef">>]

(* The side tables: rows [parent, value]; a definition keeps several values *)
(* of the first two kinds and the last one read of the others.              *)
SideKinds == {"CustomAttribute", "DeclSecurity", "Constant", "FieldMarshal",
              "ImplMap", "ClassLayout", "FieldLayout", "FieldRva"}
Listed == {"CustomAttribute", "DeclSecurity"}

(* The number a coded cell is stored and sorted as.                         *)
CellNumber(group, cell) ==
  cell[2] * 32 + (CHOOSE i \in DOMAIN Group[group] : Group[group][i] = cell[1])

(* rows in increasing order of key[i], equal keys in their own order.       *)
StableSort(rows, key) ==
  LET order == SetToSortSeq(DOMAIN rows,
                 LAMBDA i, j : key[i] < key[j] \/ (key[i] = key[j] /\ i < j))
  IN [n \in DOMAIN order |-> rows[order[n]]]

(* The exclusive end of the i-th run of a *List column.                     *)
RunEnd(starts, i, count) == IF i < Len(starts) THEN starts[i + 1] ELSE count + 1

Column(rows, name) == [i \in DOMAIN rows |-> rows[i][name]]
=============================================================================
