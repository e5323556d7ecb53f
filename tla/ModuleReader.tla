----------------------------- MODULE ModuleReader -----------------------------
(***************************************************************************)
(* read/module_reader.rs: metadata tables into the object model, strictly  *)
(* or tolerating malformed rows.                                           *)
(***************************************************************************)
EXTENDS MetadataRows

CONSTANT MaxNesting    \* 64 in the code

ASSUME NestingAssumption == MaxNesting \in Nat \ {0}

Skip == <<"skip">>   \* a parent the object model has no slot for
Bad  == <<"bad">>    \* a parent outside its table

Before(rows, bad) == IF bad = {} THEN rows ELSE SubSeq(rows, 1, Min(bad) - 1)

-------------------------------------------------------------------------------
(* Runs of members.                                                         *)

(* Mutant: the first run may start anywhere.                                *)
ValidStartsAnyFirst(starts, count) ==
  /\ count > 0 => starts # <<>>
  /\ \A i \in DOMAIN starts :
       starts[i] \in IF i = 1 THEN 1..(count + 1) ELSE starts[i - 1]..(count + 1)

(* The runs own each of count rows exactly once.                            *)
ValidStarts(starts, count) ==
  /\ count > 0 => starts # <<>>
  /\ \A i \in DOMAIN starts :
       starts[i] \in IF i = 1 THEN {1} ELSE starts[i - 1]..(count + 1)

(* The first owner whose run contains row r, 0 when none does.              *)
Claimant(starts, count, r) ==
  LET runs == {i \in DOMAIN starts : starts[i] =< r /\ r < RunEnd(starts, i, count)}
  IN IF runs = {} THEN 0 ELSE Min(runs)

(* Mutant: a run takes its rows whoever claimed them before.                *)
ClaimedTwice(starts, count, i) ==
  SetToSortSeq({r \in 1..count : starts[i] =< r /\ r < RunEnd(starts, i, count)}, <)

Claimed(starts, count, i) ==
  SetToSortSeq({r \in 1..count : Claimant(starts, count, r) = i}, <)

FieldStarts(t) == Column(t.types, "fieldList")
MethodStarts(t) == Column(t.types, "methodList")
BadRanges(t) == ~ValidStarts(FieldStarts(t), Len(t.fields))
                \/ ~ValidStarts(MethodStarts(t), Len(t.methods))

(* Mutant: sequence numbers are not held against the signature.             *)
ParamSlotUnchecked(t, p) ==
  LET m == Claimant(Column(t.methods, "paramList"), Len(t.params), p)
  IN IF m = 0 THEN Skip ELSE <<"Param", m, t.params[p].seq>>

(* Mutant: the last parameter is taken for one past the arity.              *)
ParamSlotShort(t, p) ==
  LET m == Claimant(Column(t.methods, "paramList"), Len(t.params), p)
  IN IF m = 0 \/ t.params[p].seq >= t.methods[m].arity THEN Skip
     ELSE <<"Param", m, t.params[p].seq>>

(* A Param row's slot: its method's parameter of that sequence number, 0    *)
(* the return parameter; beyond the signature's arity the row is skipped.   *)
ParamSlot(t, p) ==
  LET m == Claimant(Column(t.methods, "paramList"), Len(t.params), p)
  IN IF m = 0 \/ t.params[p].seq > t.methods[m].arity THEN Skip
     ELSE <<"Param", m, t.params[p].seq>>

ReadParams(t, m) ==
  [s \in 0..t.methods[m].arity |->
     LET rows == {p \in DOMAIN t.params : ParamSlot(t, p) = <<"Param", m, s>>}
     IN IF rows = {} THEN "" ELSE t.params[Max(rows)].name]

-------------------------------------------------------------------------------
(* NestedClass: the edges that close a cycle or nest too deep are cut.      *)

BadNesting(t) == \E r \in DOMAIN t.nested :
  t.nested[r].nested \notin DOMAIN t.types \/ t.nested[r].enclosing \notin DOMAIN t.types

DeclaredParents(t) ==
  [i \in DOMAIN t.types |->
     LET rows == {r \in DOMAIN t.nested : t.nested[r].nested = i}
     IN IF rows = {} THEN 0 ELSE t.nested[Max(rows)].enclosing]

(* Mutant: an edge that closes a cycle is cut on both of its sides.         *)
ClimbCuttingTwice(parents, finished, start) ==
  FoldLeft(LAMBDA w, n :
      IF w.done \/ finished[w.at] THEN [w EXCEPT !.done = TRUE]
      ELSE LET path == Append(w.path, w.at)
               up   == w.parents[w.at]
           IN CASE up = 0 -> [w EXCEPT !.path = path, !.done = TRUE]
                [] up # 0 /\ (up \in Range(path) \/ Len(path) >= MaxNesting) ->
                     [w EXCEPT !.path = path, !.parents = [@ EXCEPT ![w.at] = 0, ![up] = 0], !.done = TRUE]
                [] OTHER -> [w EXCEPT !.path = path, !.at = up],
    [path |-> <<>>, at |-> start, parents |-> parents, done |-> FALSE],
    [n \in 1..(Len(parents) + 1) |-> n])

(* From one type outwards until a root, a finished type or a cut.           *)
Climb(parents, finished, start) ==
  FoldLeft(LAMBDA w, n :
      IF w.done \/ finished[w.at] THEN [w EXCEPT !.done = TRUE]
      ELSE LET path == Append(w.path, w.at)
               up   == w.parents[w.at]
           IN CASE up = 0 -> [w EXCEPT !.path = path, !.done = TRUE]
                [] up # 0 /\ (up \in Range(path) \/ Len(path) >= MaxNesting) ->
                     [w EXCEPT !.path = path, !.parents[w.at] = 0, !.done = TRUE]
                [] OTHER -> [w EXCEPT !.path = path, !.at = up],
    [path |-> <<>>, at |-> start, parents |-> parents, done |-> FALSE],
    [n \in 1..(Len(parents) + 1) |-> n])

(* Mutant: no height limit on the way back.                                 *)
SettleUnbounded(parents, heights, path) ==
  FoldRight(LAMBDA slot, s :
      IF s.parents[slot] = 0 THEN s
      ELSE [s EXCEPT !.heights[slot] = s.heights[s.parents[slot]] + 1],
    path, [parents |-> parents, heights |-> heights])

(* Back down the path: heights, cutting where they reach the limit.         *)
Settle(parents, heights, path) ==
  FoldRight(LAMBDA slot, s :
      IF s.parents[slot] = 0 THEN s
      ELSE LET height == s.heights[s.parents[slot]] + 1
           IN IF height >= MaxNesting THEN [s EXCEPT !.parents[slot] = 0]
              ELSE [s EXCEPT !.heights[slot] = height],
    path, [parents |-> parents, heights |-> heights])

NestingParents(t) ==
  FoldLeft(LAMBDA s, start :
      LET walk    == Climb(s.parents, s.finished, start)
          settled == Settle(walk.parents, s.heights, walk.path)
      IN [parents  |-> settled.parents,
          heights  |-> settled.heights,
          finished |-> [i \in DOMAIN s.finished |-> s.finished[i] \/ i \in Range(walk.path)]],
    [parents  |-> DeclaredParents(t),
     heights  |-> [i \in DOMAIN t.types |-> 0],
     finished |-> [i \in DOMAIN t.types |-> FALSE]],
    [i \in DOMAIN t.types |-> i]).parents

-------------------------------------------------------------------------------
(* Properties, events and their accessors.                                  *)

BadMap(t, k) ==
  LET map == t.maps[k]
      count == Len(t.members[k])
  IN IF map = <<>> THEN count # 0
     ELSE \/ \E i \in DOMAIN map : map[i].parent \notin DOMAIN t.types
          \/ \E i, j \in DOMAIN map : i # j /\ map[i].parent = map[j].parent
          \/ ~ValidStarts(Column(map, "list"), count)

(* Events are read first; a bad map ends the whole pass.                    *)
MapRead(t, k) == ~BadMap(t, "Event") /\ (k = "Property" => ~BadMap(t, "Property"))
MemberCount(t, k) == IF MapRead(t, k) THEN Len(t.members[k]) ELSE 0

ReadMembersOf(t, k, type) ==
  LET at == {j \in DOMAIN t.maps[k] : t.maps[k][j].parent = type}
  IN IF ~MapRead(t, k) \/ at = {} THEN <<>>
     ELSE Claimed(Column(t.maps[k], "list"), Len(t.members[k]), Min(at))

BadSemantics(t) ==
  {r \in DOMAIN t.semantics :
     LET row == t.semantics[r] IN
     \/ row.method \notin DOMAIN t.methods
     \/ row.assoc[1] \notin MemberKinds
     \/ row.assoc[2] \notin 1..MemberCount(t, row.assoc[1])}

ReadMember(t, k, h) ==
  LET mine == SelectSeq(IF MapRead(t, "Property") THEN Before(t.semantics, BadSemantics(t))
                                                  ELSE <<>>,
                        LAMBDA row : row.assoc = <<k, h>>)
      with(role) == SelectSeq(mine, LAMBDA row : row.sem = role)
  IN [name      |-> t.members[k][h],
      accessors |-> [role \in Single[k] |->
                       IF with(role) = <<>> THEN 0 ELSE Last(with(role)).method],
      others    |-> Column(with("OTHER"), "method")]

-------------------------------------------------------------------------------
(* Generic parameters, interfaces, overrides: grouped by owner in row order.*)

BadOwner(t, cell) ==
  CASE cell[1] = "TypeDef"   -> cell[2] \notin DOMAIN t.types
    [] cell[1] = "MethodDef" -> cell[2] \notin DOMAIN t.methods
    [] OTHER                 -> TRUE

OwnedBy(rows, column, owner) ==
  SetToSortSeq({r \in DOMAIN rows : rows[r][column] = owner}, <)

(* The list slot row r of an owner-grouped table is read into.              *)
GroupedSlot(table, rows, column, r) ==
  <<table, rows[r][column],
    Cardinality({q \in 1..r : rows[q][column] = rows[r][column]})>>

ReadGenericParam(t, g) ==
  [name |-> t.gparams[g].name, position |-> t.gparams[g].number, owner |-> t.gparams[g].owner,
   constraints |-> [n \in DOMAIN OwnedBy(t.constraints, "owner", g) |->
                      t.constraints[OwnedBy(t.constraints, "owner", g)[n]].type]]

(* MethodImpl rows whose body is a MemberRef have no method to hang off.    *)
BadImpls(t) ==
  {r \in DOMAIN t.impls : \E c \in {"body", "decl"} :
     t.impls[r][c][1] = "MethodDef" /\ t.impls[r][c][2] \notin DOMAIN t.methods}

Overrides(t, m) ==
  Column(SelectSeq(Before(t.impls, BadImpls(t)), LAMBDA row : row.body = <<"MethodDef", m>>),
         "decl")

-------------------------------------------------------------------------------
(* Side tables: the slot a parent cell denotes.                             *)

ArenaLen(t, table) ==
  CASE table = "TypeDef"      -> Len(t.types)
    [] table = "Field"        -> Len(t.fields)
    [] table = "MethodDef"    -> Len(t.methods)
    [] table \in MemberKinds  -> MemberCount(t, table)
    [] table = "GenericParam" -> Len(t.gparams)
    [] table = "AssemblyRef"  -> Len(t.refs)
    [] table = "Module"       -> 1
    [] table = "Assembly"     -> IF t.assembly THEN 1 ELSE 0

SideSlot(t, k, cell) ==
  LET inTable(rows) == cell[2] \in DOMAIN rows
  IN CASE cell[1] \notin Range(Group[k])       -> Bad
       [] k = "ImplMap" /\ cell[1] = "Field"   -> Skip
       [] cell[1] \in {"TypeDef", "Field", "MethodDef", "Property", "Event",
                       "GenericParam", "AssemblyRef", "Module", "Assembly"} ->
            CASE k = "DeclSecurity" /\ cell[1] = "Assembly" /\ t.assembly -> <<"Assembly", 1>>
              [] cell[2] \in 1..ArenaLen(t, cell[1]) -> cell
              [] OTHER -> Bad
       [] cell[1] = "Param" ->
            IF inTable(t.params) THEN ParamSlot(t, cell[2]) ELSE Bad
       [] cell[1] = "InterfaceImpl" ->
            IF inTable(t.ifaces) THEN GroupedSlot("InterfaceImpl", t.ifaces, "class", cell[2])
                                 ELSE Bad
       [] cell[1] = "GenericParamConstraint" ->
            IF inTable(t.constraints)
              THEN GroupedSlot("GenericParamConstraint", t.constraints, "owner", cell[2])
              ELSE Bad
       [] OTHER -> Skip

BadSide(t, k) == {r \in DOMAIN t.side[k] : SideSlot(t, k, t.side[k][r].parent) = Bad}

ReadSide(t, k) ==
  LET rows == Before(t.side[k], BadSide(t, k))
      slot(r) == SideSlot(t, k, rows[r].parent)
      of(s) == SelectSeq(rows, LAMBDA row : SideSlot(t, k, row.parent) = s)
  IN [s \in {slot(r) : r \in DOMAIN rows} \ {Skip} |->
        IF k \in Listed THEN Column(of(s), "value") ELSE <<Last(of(s)).value>>]

-------------------------------------------------------------------------------
(* Files, exported types, manifest resources: one pass, in that order.      *)

BadImplementation(t, cell, tables) ==
  \/ cell[1] \notin tables
  \/ cell[1] = "File" /\ cell[2] \notin DOMAIN t.files
  \/ cell[1] = "AssemblyRef" /\ cell[2] \notin DOMAIN t.refs
  \/ cell[1] = "ExportedType" /\ cell[2] \notin DOMAIN t.exported

BadExported(t) == {r \in DOMAIN t.exported :
  BadImplementation(t, t.exported[r].impl, {"File", "AssemblyRef", "ExportedType"})}
BadResources(t) == {r \in DOMAIN t.resources :
  t.resources[r].impl # Nil
  /\ BadImplementation(t, t.resources[r].impl, {"File", "AssemblyRef"})}

(* A linked resource keeps its file's name, an assembly-linked one its      *)
(* assembly reference: neither keeps a row id.                              *)
ReadResource(t, row) ==
  [name |-> row.name,
   link |-> CASE row.impl = Nil              -> Nil
              [] row.impl[1] = "File"        -> <<"File", t.files[row.impl[2]]>>
              [] row.impl[1] = "AssemblyRef" -> <<"AssemblyRef", t.refs[row.impl[2]]>>]

ReadResources(t) ==
  LET rows == IF BadExported(t) = {} THEN Before(t.resources, BadResources(t)) ELSE <<>>
  IN [r \in DOMAIN rows |-> ReadResource(t, rows[r])]

-------------------------------------------------------------------------------
(* Errors no mode survives, and those a tolerant reader records.            *)
Unreadable(t) ==
  \/ BadNesting(t)
  \/ \E g \in DOMAIN t.gparams : BadOwner(t, t.gparams[g].owner)
  \/ \E c \in DOMAIN t.constraints : t.constraints[c].owner \notin DOMAIN t.gparams
  \/ \E r \in DOMAIN t.ifaces : t.ifaces[r].class \notin DOMAIN t.types
  \/ \E k \in {"ClassLayout", "FieldLayout", "FieldRva"} : BadSide(t, k) # {}

Malformed(t) ==
  \/ BadRanges(t)
  \/ BadMap(t, "Event") \/ BadMap(t, "Property") \/ BadSemantics(t) # {}
  \/ \E k \in SideKinds : BadSide(t, k) # {}
  \/ BadImpls(t) # {} \/ BadExported(t) # {} \/ BadResources(t) # {}

ReadModule(t, tolerant) ==
  IF Unreadable(t) \/ (Malformed(t) /\ ~tolerant) THEN Refused
  ELSE
  LET parents == NestingParents(t)
      starts  == MethodStarts(t)
  IN [types |-> [i \in DOMAIN t.types |->
        [parent   |-> parents[i],
         nested   |-> SetToSortSeq({j \in DOMAIN parents : parents[j] = i}, <),
         fields   |-> Claimed(FieldStarts(t), Len(t.fields), i),
         methods  |-> Claimed(starts, Len(t.methods), i),
         Property |-> ReadMembersOf(t, "Property", i),
         Event    |-> ReadMembersOf(t, "Event", i),
         gparams  |-> OwnedBy(t.gparams, "owner", <<"TypeDef", i>>),
         ifaces   |-> [n \in DOMAIN OwnedBy(t.ifaces, "class", i) |->
                         t.ifaces[OwnedBy(t.ifaces, "class", i)[n]].type]]],
      fields  |-> t.fields,
      methods |-> [m \in DOMAIN t.methods |->
        [name      |-> t.methods[m].name,
         owner     |-> Max({1, Claimant(starts, Len(t.methods), m)}),
         params    |-> ReadParams(t, m),
         gparams   |-> OwnedBy(t.gparams, "owner", <<"MethodDef", m>>),
         overrides |-> Overrides(t, m)]],
      members |-> [k \in MemberKinds |->
                     [h \in 1..MemberCount(t, k) |-> ReadMember(t, k, h)]],
      gparams |-> [g \in DOMAIN t.gparams |-> ReadGenericParam(t, g)],
      side    |-> [k \in SideKinds |-> ReadSide(t, k)],
      assembly |-> t.assembly,
      refs    |-> t.refs,
      files   |-> t.files,
      exported  |-> Before(t.exported, BadExported(t)),
      resources |-> ReadResources(t)]
=============================================================================
