--------------------------- MODULE MetadataRoundTrip ---------------------------
(***************************************************************************)
(* A file is read into the object model, the model is edited through the   *)
(* add_* operations and its public lists, written to tables and read back. *)
(* What a module says, apart from where its arenas keep it, is its View.   *)
(***************************************************************************)
EXTENDS ModuleReader, TableEmission

CONSTANTS
  SourceFiles,   \* files a program may open
  MaxEdits       \* bound: edits between reading and writing

ASSUME EditsAssumption == MaxEdits \in Nat

VARIABLES
  phase,      \* "file", "module", "written", "reread" or "refused"
  original,   \* the file opened
  tolerant,   \* ReadOptions: malformed rows are recorded, not refused
  module,     \* the object model in memory
  edits,      \* how many edits it has had
  before,     \* the module written
  file        \* the file written

vars == <<phase, original, tolerant, module, edits, before, file>>

Init ==
  /\ phase = "file"
  /\ original \in SourceFiles
  /\ tolerant \in BOOLEAN
  /\ module = Refused /\ edits = 0 /\ before = Refused /\ file = Refused

Outcome(answer, next) == IF answer = Refused THEN "refused" ELSE next

Read ==
  /\ phase = "file"
  /\ \E m \in {ReadModule(original, tolerant)} :
       module' = m /\ phase' = Outcome(m, "module")
  /\ UNCHANGED <<original, tolerant, edits, before, file>>

-------------------------------------------------------------------------------
(* Edits.                                                                   *)
FreshName == "new" \o ToString(edits)

Edit(m) ==
  /\ phase = "module" /\ edits < MaxEdits
  /\ module' = m /\ edits' = edits + 1
  /\ UNCHANGED <<phase, original, tolerant, before, file>>

AddType(parent) ==
  LET plain == [parent |-> parent, nested |-> <<>>, fields |-> <<>>, methods |-> <<>>,
                Property |-> <<>>, Event |-> <<>>, gparams |-> <<>>, ifaces |-> <<>>]
      id    == Len(module.types) + 1
      types == Append(module.types, plain)
  IN Edit([module EXCEPT !.types =
             IF parent = 0 THEN types ELSE [types EXCEPT ![parent].nested = Append(@, id)]])

AddMethod(owner) ==
  Edit([module EXCEPT
    !.methods = Append(@, [name |-> FreshName, owner |-> owner, gparams |-> <<>>,
                           params |-> [s \in 0..1 |-> IF s = 1 THEN FreshName ELSE ""],
                           overrides |-> <<>>]),
    !.types[owner].methods = Append(@, Len(module.methods) + 1)])

AddField(owner) ==
  Edit([module EXCEPT !.fields = Append(@, FreshName),
                      !.types[owner].fields = Append(@, Len(module.fields) + 1)])

(* add_property and add_event, with a method as first accessor.             *)
AddMember(k, owner, method) ==
  Edit([module EXCEPT
    !.members[k] = Append(@, [name |-> FreshName, others |-> <<>>,
      accessors |-> [r \in Single[k] |-> IF r \in {"GETTER", "ADD_ON"} THEN method ELSE 0]]),
    !.types[owner][k] = Append(@, Len(module.members[k]) + 1)])

AddGenericParameter(owner, position) ==
  LET id == Len(module.gparams) + 1
      added == [module EXCEPT !.gparams =
                  Append(@, [name |-> FreshName, position |-> position, owner |-> owner,
                             constraints |-> <<FreshName>>])]
  IN Edit(IF owner[1] = "TypeDef"
            THEN [added EXCEPT !.types[owner[2]].gparams = Append(@, id)]
            ELSE [added EXCEPT !.methods[owner[2]].gparams = Append(@, id)])

(* A caller reorders a type's public method list.                           *)
ReorderMethods(i) ==
  /\ Len(module.types[i].methods) > 1
  /\ Edit([module EXCEPT !.types[i].methods = Reverse(@)])

EditModule ==
  /\ phase = "module"
  /\ \/ \E parent \in 0..Len(module.types) : AddType(parent)
     \/ \E i \in DOMAIN module.types :
          \/ AddMethod(i)
          \/ AddField(i)
          \/ ReorderMethods(i)
          \/ \E k \in MemberKinds, h \in DOMAIN module.methods : AddMember(k, i, h)
          \/ \E p \in {0, Len(module.types[i].gparams)} : AddGenericParameter(<<"TypeDef", i>>, p)
     \/ \E h \in DOMAIN module.methods :
          \E p \in {0, Len(module.methods[h].gparams)} : AddGenericParameter(<<"MethodDef", h>>, p)

-------------------------------------------------------------------------------
Write ==
  /\ phase = "module"
  /\ before' = module
  /\ \E t \in {WriteModule(module)} : file' = t /\ phase' = Outcome(t, "written")
  /\ UNCHANGED <<original, tolerant, module, edits>>

(* The written file is opened again, strictly.                              *)
Reread ==
  /\ phase = "written"
  /\ module' = ReadModule(file, FALSE)
  /\ phase' = "reread"
  /\ UNCHANGED <<original, tolerant, edits, before, file>>

Next == Read \/ EditModule \/ Write \/ Reread

Spec == Init /\ [][Next]_vars

-------------------------------------------------------------------------------
(* What a module says.                                                      *)

SlotName(m, slot) ==
  CASE slot[1] = "Field" -> <<"Field", m.fields[slot[2]]>>
    [] slot[1] = "MethodDef" -> <<"MethodDef", m.methods[slot[2]].name>>
    [] slot[1] = "Param" -> <<"Param", m.methods[slot[2]].name, slot[3]>>
    [] slot[1] \in MemberKinds -> <<slot[1], m.members[slot[1]][slot[2]].name>>
    [] slot[1] = "GenericParam" -> <<"GenericParam", m.gparams[slot[2]].name>>
    [] slot[1] = "GenericParamConstraint" ->
         <<"GenericParamConstraint", m.gparams[slot[2]].name, slot[3]>>
    [] OTHER -> slot

MethodName(m, h) == IF h = 0 THEN "" ELSE m.methods[h].name

Positioned(m, list) ==
  LET sorted == StableSort(list, [n \in DOMAIN list |-> m.gparams[list[n]].position])
  IN [n \in DOMAIN sorted |-> m.gparams[sorted[n]].name]

TypeView(m, i) ==
  LET ty == m.types[i]
      names(arena, list) == [n \in DOMAIN list |-> arena[list[n]].name]
  IN [parent |-> ty.parent, nested |-> Range(ty.nested), ifaces |-> ty.ifaces,
      fields |-> [n \in DOMAIN ty.fields |-> m.fields[ty.fields[n]]],
      methods |-> names(m.methods, ty.methods),
      Property |-> names(m.members["Property"], ty.Property),
      Event |-> names(m.members["Event"], ty.Event),
      gparams |-> Positioned(m, ty.gparams)]

MethodView(m, h) ==
  [name |-> m.methods[h].name, owner |-> m.methods[h].owner, params |-> m.methods[h].params,
   gparams |-> Positioned(m, m.methods[h].gparams),
   overrides |-> [n \in DOMAIN m.methods[h].overrides |-> SlotName(m, m.methods[h].overrides[n])]]

MemberView(m, k, h) ==
  LET member == m.members[k][h] IN
  [name |-> member.name,
   accessors |-> [r \in Single[k] |-> MethodName(m, member.accessors[r])],
   others |-> [n \in DOMAIN member.others |-> MethodName(m, member.others[n])]]

GenericView(m, g) ==
  [name |-> m.gparams[g].name, position |-> m.gparams[g].position,
   constraints |-> m.gparams[g].constraints, owner |-> SlotName(m, m.gparams[g].owner)]

View(m) ==
  [types   |-> [i \in DOMAIN m.types |-> TypeView(m, i)],
   methods |-> {MethodView(m, h) : h \in DOMAIN m.methods},
   members |-> [k \in MemberKinds |-> {MemberView(m, k, h) : h \in DOMAIN m.members[k]}],
   gparams |-> {GenericView(m, g) : g \in DOMAIN m.gparams},
   side    |-> [k \in SideKinds |->
                  {<<SlotName(m, s), m.side[k][s]>> : s \in DOMAIN m.side[k]}],
   manifest |-> <<m.assembly, m.refs, m.exported, m.resources>>]

-------------------------------------------------------------------------------
(* Properties.                                                              *)

TypeOK ==
  /\ phase \in {"file", "module", "written", "reread", "refused"}
  /\ tolerant \in BOOLEAN /\ edits \in 0..MaxEdits
  /\ phase = "file" => module = Refused /\ file = Refused
  /\ phase = "written" => before # Refused /\ file # Refused
  /\ module # Refused =>
       /\ \A i \in DOMAIN module.types :
            /\ Range(module.types[i].methods) \subseteq DOMAIN module.methods
            /\ Range(module.types[i].fields) \subseteq DOMAIN module.fields
       /\ \A k \in SideKinds : \A slot \in DOMAIN module.side[k] :
            slot[1] = "Param" => slot[3] \in DOMAIN module.methods[slot[2]].params

(* Whatever a strict read produces, and whatever legal edits make of it,    *)
(* the writer accepts; and whatever the writer produces, even from a        *)
(* tolerant read, the strict reader accepts.                                *)
WriterAcceptsReader ==
  /\ phase = "refused" /\ before # Refused => tolerant
  /\ phase = "reread" => module # Refused

(* Enclosing types of type i, outwards; 0 past the root.                     *)
Chain(parents, i) ==
  LET up[n \in 0..(Len(parents) + 1)] ==
        IF n = 0 THEN i ELSE LET last == up[n - 1] IN IF last = 0 THEN 0 ELSE parents[last]
  IN [n \in 0..(Len(parents) + 1) |-> up[n]]
OnCycle(parents, i) == \E n \in 1..(Len(parents) + 1) : Chain(parents, i)[n] = i
Depth(parents, i) == Cardinality({n \in 0..(Len(parents) + 1) : Chain(parents, i)[n] # 0})

(* Writing and reading back changes where definitions live, never what the  *)
(* module says, unless an edit nested types deeper than the reader follows. *)
RoundTrip ==
  phase = "reread" /\ module # Refused
    /\ (\A i \in DOMAIN before.types : Depth(Column(before.types, "parent"), i) =< MaxNesting)
  => View(module) = View(before)

(* Writing a module just written and read back produces the same tables     *)
(* (linked resources add a File row each time).                             *)
WriteStable ==
  phase = "reread" /\ module # Refused
    /\ (\A i \in DOMAIN before.types : Depth(Column(before.types, "parent"), i) =< MaxNesting)
  =>
    \E again \in {WriteModule(module)} :
      again # Refused /\ [again EXCEPT !.files = <<>>, !.resources = <<>>]
                         = [file EXCEPT !.files = <<>>, !.resources = <<>>]

(* A source token, sent through the map the IL and the symbols are encoded  *)
(* with, denotes in the file written the definition it denoted in memory.   *)
TokensFollow ==
  phase = "written" =>
    \E rows \in {DefinitionRows(before)} :
      /\ \A h \in DOMAIN before.methods :
           file.methods[TokenOf(rows, <<"MethodDef", h>>)[2]].name = before.methods[h].name
      /\ \A h \in DOMAIN before.fields :
           file.fields[TokenOf(rows, <<"Field", h>>)[2]] = before.fields[h]
      /\ \A k \in MemberKinds : \A h \in DOMAIN before.members[k] :
           file.members[k][TokenOf(rows, <<k, h>>)[2]] = before.members[k][h].name
      /\ \A g \in DOMAIN before.gparams :
           file.gparams[TokenOf(rows, <<"GenericParam", g>>)[2]].name = before.gparams[g].name

(* The tables ECMA-335 requires sorted are sorted.                          *)
SortedBy(rows, key) == \A i, j \in DOMAIN rows : i < j => key[i] =< key[j]
TablesSorted ==
  phase = "written" =>
    /\ \A k \in SideKinds :
         SortedBy(file.side[k], [n \in DOMAIN file.side[k] |-> CellNumber(k, file.side[k][n].parent)])
    /\ SortedBy(file.semantics, [n \in DOMAIN file.semantics |->
                                   CellNumber("Semantics", file.semantics[n].assoc)])
    /\ SortedBy(file.gparams, [n \in DOMAIN file.gparams |->
          CellNumber("GenericOwner", file.gparams[n].owner) * 100 + file.gparams[n].number])
    /\ \A rows \in {Column(file.nested, "nested"), Column(file.ifaces, "class"),
                    Column(file.impls, "class"), Column(file.constraints, "owner")} :
         SortedBy(rows, rows)

(* File indexes of exported types survive the rows synthesized for linked   *)
(* resources, and every linked resource finds its own file's name.          *)
ManifestIndexesHold ==
  phase = "written" =>
    /\ \A r \in DOMAIN before.exported : before.exported[r].impl[1] = "File" =>
         file.files[before.exported[r].impl[2]] = before.files[before.exported[r].impl[2]]
    /\ \A r \in DOMAIN before.resources : before.resources[r].link[1] = "File" =>
         file.files[file.resources[r].impl[2]] = before.resources[r].link[2]

(* However damaged the file, no definition has two owners after a read.     *)
OwnedOnce ==
  module # Refused =>
    \A list \in {"fields", "methods", "Property", "Event"} :
      LET all == TypeLists(module, list) IN \A i, j \in DOMAIN all : i # j => all[i] # all[j]

(* Nesting read from any NestedClass table is a forest no deeper than the   *)
(* limit, and no edge is cut for nothing: with any one of them back there   *)
(* would be a cycle again or a chain past the limit (module_reader.rs:391). *)
NestingSound ==
  phase = "module" /\ edits = 0 =>
    \E declared \in {DeclaredParents(original)}, kept \in {Column(module.types, "parent")} :
      /\ \A i \in DOMAIN kept : ~OnCycle(kept, i) /\ Depth(kept, i) =< MaxNesting
      /\ \A i \in DOMAIN kept : kept[i] # declared[i] =>
           /\ kept[i] = 0
           /\ \E back \in {[kept EXCEPT ![i] = declared[i]]} :
                OnCycle(back, i) \/ \E j \in DOMAIN back : Depth(back, j) > MaxNesting

(* The file written: its tables are sorted, the indexes of its manifest     *)
(* hold, and the token of a definition denotes that definition.             *)
WrittenFileHolds == TablesSorted /\ ManifestIndexesHold /\ TokensFollow

(* Whatever the file, a read leaves every definition with one owner at most *)
(* and every type in a forest of nesting.                                   *)
OwnershipSound == OwnedOnce /\ NestingSound
=============================================================================
