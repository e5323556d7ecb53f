---------------------------- MODULE TableEmission ----------------------------
(***************************************************************************)
(* write/definition_rows.rs and write/emit_metadata.rs: the row every      *)
(* definition gets, the map from source tokens to the rows written, and    *)
(* the tables themselves.                                                  *)
(***************************************************************************)
EXTENDS MetadataRows

-------------------------------------------------------------------------------
(* Row allocation: owner-list order, each member owned exactly once.        *)

(* Mutant: rows keep arena order.                                           *)
ArenaRows(count, handles) ==
  IF Len(handles) = count /\ Range(handles) = 1..count THEN [h \in 1..count |-> h] ELSE Refused

(* The row of each of count handles, given the handles in row order.        *)
OwnedRows(count, handles) ==
  IF Len(handles) = count /\ Range(handles) = 1..count
    THEN [h \in 1..count |-> CHOOSE i \in 1..count : handles[i] = h]
    ELSE Refused

TypeLists(m, list) == FlattenSeq(Column(m.types, list))

(* A definition's rows in the side table k.                                 *)
Side(m, k, slot) == IF slot \in DOMAIN m.side[k] THEN m.side[k][slot] ELSE <<>>

(* A parameter the writer has something to say about.                       *)
RequiresParameterRow(m, h, s) ==
  \/ m.methods[h].params[s] # ""
  \/ \E k \in {"Constant", "FieldMarshal", "CustomAttribute"} :
       Side(m, k, <<"Param", h, s>>) # <<>>

Arity(m, h) == Cardinality(DOMAIN m.methods[h].params) - 1

(* The sequence numbers of method h that get a Param row, in row order.     *)
ParamSequence(m, h) ==
  SetToSortSeq({s \in 0..Arity(m, h) : RequiresParameterRow(m, h, s)}, <)

(* The first of `lens[h]' consecutive rows, were the lists in order.         *)
Starts(lens) == [h \in 1..(Len(lens) + 1) |->
  FoldLeft(LAMBDA sum, i : sum + lens[i], 0, [i \in 1..(h - 1) |-> i])]

(* The rows of grouped children: source order follows the arena, written    *)
(* order follows `order'.                                                   *)
ChildRows(lens, order) ==
  LET starts == Starts(lens)
      kids(h) == [i \in 1..lens[h] |-> starts[h] + i]
  IN OwnedRows(starts[Len(lens) + 1],
               FlattenSeq([n \in DOMAIN order |-> kids(order[n])]))

OwnerKey(m, methodRows, g) ==
  LET owner == m.gparams[g].owner
  IN CellNumber("GenericOwner",
       IF owner[1] = "MethodDef" THEN <<"MethodDef", methodRows[owner[2]]>> ELSE owner)
     * 100 + m.gparams[g].position

(* GenericParam order: by owner, then position, then arena order.           *)
GenericOrder(m, methodRows) ==
  StableSort([g \in DOMAIN m.gparams |-> g],
             [g \in DOMAIN m.gparams |-> OwnerKey(m, methodRows, g)])

OwnersInRange(m) ==
  \A g \in DOMAIN m.gparams :
    LET owner == m.gparams[g].owner IN
    owner[2] \in IF owner[1] = "TypeDef" THEN DOMAIN m.types ELSE DOMAIN m.methods

DeclaringTypesAgree(m) ==
  \A i \in DOMAIN m.types : \A h \in Range(m.types[i].methods) : m.methods[h].owner = i

(* DefinitionRows::new; a name of a table whose rows move.                   *)
DefinitionRows(m) ==
  LET fields     == OwnedRows(Len(m.fields), TypeLists(m, "fields"))
      methods    == OwnedRows(Len(m.methods), TypeLists(m, "methods"))
      members(k) == OwnedRows(Len(m.members[k]), TypeLists(m, k))
  IN IF fields = Refused \/ methods = Refused \/ ~DeclaringTypesAgree(m)
        \/ (\E k \in MemberKinds : members(k) = Refused) \/ ~OwnersInRange(m)
       THEN Refused
     ELSE
     LET order == GenericOrder(m, methods)
     IN [Field |-> fields, MethodDef |-> methods,
         Property |-> members("Property"), Event |-> members("Event"),
         Param |-> ChildRows([h \in DOMAIN m.methods |-> Len(ParamSequence(m, h))],
                             TypeLists(m, "methods")),
         GenericParam |-> OwnedRows(Len(m.gparams), order),
         GenericParamConstraint |->
           ChildRows([g \in DOMAIN m.gparams |-> Len(m.gparams[g].constraints)], order)]

(* The row a source token denotes in the file written; tables without       *)
(* moving rows pass through, and so does a nil token.                       *)
TokenOf(rows, token) ==
  IF token[2] = 0 \/ token[1] \notin DOMAIN rows THEN token
  ELSE IF token[2] \in DOMAIN rows[token[1]]
    THEN <<token[1], rows[token[1]][token[2]]>> ELSE Refused

-------------------------------------------------------------------------------
(* The order definitions are visited in, and the rows their slots become.   *)

MethodSlots(m, h) ==
  [n \in DOMAIN ParamSequence(m, h) |-> <<"Param", h, ParamSequence(m, h)[n]>>]
  \o <<<<"MethodDef", h>>>>

TypeSlots(m, i) ==
  LET ty == m.types[i]
      each(table, list) == [n \in DOMAIN list |-> <<table, list[n]>>]
  IN [n \in DOMAIN ty.ifaces |-> <<"InterfaceImpl", i, n>>]
     \o each("Field", ty.fields)
     \o FlattenSeq([n \in DOMAIN ty.methods |-> MethodSlots(m, ty.methods[n])])
     \o each("Property", ty.Property) \o each("Event", ty.Event)
     \o <<<<"TypeDef", i>>>>

GenericSlots(m, g) ==
  [n \in DOMAIN m.gparams[g].constraints |-> <<"GenericParamConstraint", g, n>>]
  \o <<<<"GenericParam", g>>>>

Slots(m, rows) ==
  LET order == GenericOrder(m, rows.MethodDef)
  IN <<<<"Module", 1>>>>
     \o FlattenSeq([i \in DOMAIN m.types |-> TypeSlots(m, i)])
     \o FlattenSeq([n \in DOMAIN order |-> GenericSlots(m, order[n])])
     \o (IF m.assembly THEN <<<<"Assembly", 1>>>> ELSE <<>>)
     \o [r \in DOMAIN m.refs |-> <<"AssemblyRef", r>>]

(* Mutant: a parent cell keeps the arena handle.                            *)
HandleCell(slots, rows, n) ==
  LET slot == slots[n]
      place == Cardinality({q \in 1..n : slots[q][1] = slot[1]})
  IN IF slot[1] \in {"InterfaceImpl", "Param", "GenericParamConstraint"}
       THEN <<slot[1], place>> ELSE slot

(* The rid of a slot: its definition's row, or its place among the rows of  *)
(* an unnamed table, counted in writing order.                              *)
SlotCell(slots, rows, n) ==
  LET slot == slots[n]
      place == Cardinality({q \in 1..n : slots[q][1] = slot[1]})
  IN IF slot[1] \in {"InterfaceImpl", "Param", "GenericParamConstraint"}
       THEN <<slot[1], place>> ELSE TokenOf(rows, slot)

(* Mutant: rows stay in visiting order.                                     *)
UnsortedRows(m, slots, rows, k) ==
  LET of(n) == [v \in DOMAIN Side(m, k, slots[n]) |->
                  [parent |-> SlotCell(slots, rows, n), value |-> Side(m, k, slots[n])[v]]]
  IN FlattenSeq([n \in DOMAIN slots |-> of(n)])

(* A side table: rows buffered in visiting order, then stably sorted by     *)
(* their parent cell (SortedTables::flush).                                 *)
SideRows(m, slots, rows, k) ==
  LET of(n) == [v \in DOMAIN Side(m, k, slots[n]) |->
                  [parent |-> SlotCell(slots, rows, n), value |-> Side(m, k, slots[n])[v]]]
      buffered == FlattenSeq([n \in DOMAIN slots |-> of(n)])
  IN StableSort(buffered,
       [n \in DOMAIN buffered |-> CellNumber(k, buffered[n].parent)])

-------------------------------------------------------------------------------
(* Tables.                                                                  *)

(* The first row of each type's run: the count of members written before.   *)
ListStarts(m, list) ==
  LET starts == Starts([i \in DOMAIN m.types |-> Len(m.types[i][list])])
  IN [i \in DOMAIN m.types |-> starts[i] + 1]

MethodTable(m) ==
  LET order == TypeLists(m, "methods")
      starts == Starts([n \in DOMAIN order |-> Len(ParamSequence(m, order[n]))])
  IN [n \in DOMAIN order |->
        [name |-> m.methods[order[n]].name, arity |-> Arity(m, order[n]),
         paramList |-> starts[n] + 1]]

ParamTable(m) ==
  LET order == TypeLists(m, "methods")
      of(h) == [n \in DOMAIN ParamSequence(m, h) |->
                  LET s == ParamSequence(m, h)[n]
                  IN [seq |-> s, name |-> m.methods[h].params[s]]]
  IN FlattenSeq([n \in DOMAIN order |-> of(order[n])])

(* One PropertyMap or EventMap row per type that has any.                   *)
MapTable(m, k) ==
  LET owners == SetToSortSeq({i \in DOMAIN m.types : m.types[i][k] # <<>>}, <)
  IN [n \in DOMAIN owners |-> [parent |-> owners[n], list |-> ListStarts(m, k)[owners[n]]]]

(* Accessor rows of one property or event, singles before the others.       *)
AccessorRows(m, rows, k, h) ==
  LET member == m.members[k][h]
      roles  == IF k = "Property" THEN <<"GETTER", "SETTER">>
                                  ELSE <<"ADD_ON", "REMOVE_ON", "FIRE">>
      set    == SelectSeq(roles, LAMBDA role : member.accessors[role] # 0)
      row(role, method) ==
        [sem |-> role, method |-> rows.MethodDef[method], assoc |-> <<k, rows[k][h]>>]
  IN [n \in DOMAIN set |-> row(set[n], member.accessors[set[n]])]
     \o [n \in DOMAIN member.others |-> row("OTHER", member.others[n])]

SemanticsTable(m, rows) ==
  LET of(i, k) == FlattenSeq([n \in DOMAIN m.types[i][k] |->
                    AccessorRows(m, rows, k, m.types[i][k][n])])
      buffered == FlattenSeq([i \in DOMAIN m.types |-> of(i, "Property") \o of(i, "Event")])
  IN StableSort(buffered,
       [n \in DOMAIN buffered |-> CellNumber("Semantics", buffered[n].assoc)])

NestedTable(m) ==
  LET inner == SetToSortSeq({i \in DOMAIN m.types : m.types[i].parent # 0}, <)
  IN [n \in DOMAIN inner |-> [nested |-> inner[n], enclosing |-> m.types[inner[n]].parent]]

(* MethodImpl rows follow the method lists; their bodies are the methods.   *)
ImplTable(m, rows) ==
  LET of(i, h) == [n \in DOMAIN m.methods[h].overrides |->
                     [class |-> i, body |-> TokenOf(rows, <<"MethodDef", h>>),
                      decl |-> TokenOf(rows, m.methods[h].overrides[n])]]
  IN FlattenSeq([i \in DOMAIN m.types |->
       FlattenSeq([n \in DOMAIN m.types[i].methods |-> of(i, m.types[i].methods[n])])])

(* Linked resources get a File row of their own after the preserved ones.   *)
LinkedFiles(m) ==
  LET linked == SelectSeq(m.resources, LAMBDA r : r.link[1] = "File")
  IN [n \in DOMAIN linked |-> linked[n].link[2]]

(* Mutant: linked resources are numbered as if no file was preserved.       *)
ImplementationFromOne(m, r) ==
  LET link == m.resources[r].link
      before == Cardinality({q \in 1..r : m.resources[q].link[1] = "File"})
  IN CASE link = Nil              -> Nil
       [] link[1] = "File"        -> <<"File", before>>
       [] link[1] = "AssemblyRef" ->
            <<"AssemblyRef", Min({q \in DOMAIN m.refs : m.refs[q] = link[2]})>>

Implementation(m, r) ==
  LET link == m.resources[r].link
      before == Cardinality({q \in 1..r : m.resources[q].link[1] = "File"})
  IN CASE link = Nil              -> Nil
       [] link[1] = "File"        -> <<"File", Len(m.files) + before>>
       [] link[1] = "AssemblyRef" ->
            <<"AssemblyRef", Min({q \in DOMAIN m.refs : m.refs[q] = link[2]})>>

UnlistedReference(m) ==
  \E r \in DOMAIN m.resources :
    m.resources[r].link[1] = "AssemblyRef" /\ m.resources[r].link[2] \notin Range(m.refs)

(* emit_metadata_with                                                       *)
WriteModule(m) ==
  LET rows == DefinitionRows(m) IN
  IF rows = Refused THEN Refused
  ELSE IF UnlistedReference(m) THEN Refused
  ELSE
  LET slots  == Slots(m, rows)
      order  == GenericOrder(m, rows.MethodDef)
      ownerCell(o) == TokenOf(rows, o)
      fieldLists == ListStarts(m, "fields")
      methodLists == ListStarts(m, "methods")
      named(arena, list) == [n \in DOMAIN list |-> arena[list[n]].name]
  IN [types |-> [i \in DOMAIN m.types |->
                   [fieldList |-> fieldLists[i], methodList |-> methodLists[i]]],
      fields  |-> [n \in DOMAIN TypeLists(m, "fields") |-> m.fields[TypeLists(m, "fields")[n]]],
      methods |-> MethodTable(m),
      params  |-> ParamTable(m),
      nested  |-> NestedTable(m),
      maps    |-> [k \in MemberKinds |-> MapTable(m, k)],
      members |-> [k \in MemberKinds |-> named(m.members[k], TypeLists(m, k))],
      semantics |-> SemanticsTable(m, rows),
      gparams |-> [n \in DOMAIN order |->
                     [number |-> m.gparams[order[n]].position, name |-> m.gparams[order[n]].name,
                      owner |-> ownerCell(m.gparams[order[n]].owner)]],
      constraints |-> FlattenSeq([n \in DOMAIN order |->
                        [c \in DOMAIN m.gparams[order[n]].constraints |->
                           [owner |-> n, type |-> m.gparams[order[n]].constraints[c]]]]),
      ifaces  |-> FlattenSeq([i \in DOMAIN m.types |->
                    [n \in DOMAIN m.types[i].ifaces |->
                       [class |-> i, type |-> m.types[i].ifaces[n]]]]),
      impls   |-> ImplTable(m, rows),
      side    |-> [k \in SideKinds |-> SideRows(m, slots, rows, k)],
      assembly |-> m.assembly,
      refs    |-> m.refs,
      files   |-> m.files \o LinkedFiles(m),
      exported  |-> m.exported,
      resources |-> [r \in DOMAIN m.resources |->
                       [name |-> m.resources[r].name, impl |-> Implementation(m, r)]]]
=============================================================================
