------------------------------ MODULE References ------------------------------
(***************************************************************************)
(* References to types and members, from rows to descriptors and back:     *)
(* ReadContext resolves TypeRef, TypeSpec, MemberRef and MethodSpec rows   *)
(* on demand, in the order they happen to be met, and remembers what it    *)
(* found; TokenMap gives each descriptor a row again, equal ones the same. *)
(*                                                                         *)
(* A type is [wraps, leaf]: so many arrays, pointers or instantiations     *)
(* around a primitive or a named type.  In a signature the named type is   *)
(* <<marker, cell>>, in a descriptor <<"Def", handle>> or <<"External", e>>*)
(* with e = [name, nesting (outermost first), scope].                      *)
(***************************************************************************)
EXTENDS Workbench

CONSTANTS
  MaxTdorDepth,  \* levels of nesting a reader follows (64)
  MaxAsked,      \* bound: rows asked for before writing
  ReferenceFiles,\* the files read
  AskedDepths    \* depths of the signatures in which rows are met

External(name, nesting, scope) == [name |-> name, nesting |-> nesting, scope |-> scope]
Plain(leaf) == [wraps |-> 0, leaf |-> leaf]
Wrapped(n, type) == [type EXCEPT !.wraps = n + @]
IsExternal(type) == type # Failed /\ type.wraps = 0 /\ type.leaf[1] = "External"

-----------------------------------------------------------------------------
(* Reading.  A result is [answer, memo]: what was read and what the context *)
(* remembers after it, also when it failed.                                 *)

Answer(answer, memo) == [answer |-> answer, memo |-> memo]

Fresh(t) == [refs   |-> [r \in DOMAIN t.typeRefs |-> Missing],
             specs  |-> [r \in DOMAIN t.typeSpecs |-> Missing],
             calls  |-> [r \in DOMAIN t.methodSpecs |-> Missing],
             values |-> {}]

(* The scope a cell outside the TypeRef table stands for; the nil cell is   *)
(* the module itself.                                                       *)
ScopeOf(t, cell) ==
  CASE cell[1] = "nil" \/ cell = <<"Module", 1>> -> <<"ThisModule">>
    [] cell[1] = "Module"      -> <<"OtherModule", t.modules[cell[2]]>>
    [] cell[1] = "ModuleRef"   -> <<"OtherModule", t.moduleRefs[cell[2]]>>
    [] cell[1] = "AssemblyRef" -> <<"Assembly", t.assemblyRefs[cell[2]]>>

(* A mutation: an answer is remembered one slot early.                      *)
RememberedEarly(result, table, r) ==
  IF result.answer = Failed \/ r = 1 THEN result
  ELSE [result EXCEPT !.memo = [@ EXCEPT ![table] = [@ EXCEPT ![r - 1] = result.answer]]]

Remembered(result, table, r) ==
  IF result.answer = Failed THEN result
  ELSE [result EXCEPT !.memo = [@ EXCEPT ![table] = [@ EXCEPT ![r] = result.answer]]]

(* A mutation: a reference cut short claims to be one into the module.      *)
DegradedHere(t, r) == External(t.typeRefs[r].name, <<>>, <<"ThisModule">>)

Degraded(t, r) == External(t.typeRefs[r].name, <<>>, <<"Moduleless">>)

Nested(name, parent) == External(name, Append(parent.nesting, parent.name), parent.scope)

Inside_(row, parent, r) ==
  IF parent.answer = Failed THEN parent
  ELSE Remembered(Answer(Nested(row.name, parent.answer), parent.memo), "refs", r)

(* A mutation: the row at which reading stops is remembered as cut short.   *)
RECURSIVE RememberedAnyway(_, _, _, _, _)
RememberedAnyway(t, memo, r, depth, visited) ==
  IF r \notin DOMAIN t.typeRefs THEN Answer(Failed, memo)
  ELSE IF r \notin visited /\ memo.refs[r] # Missing THEN Answer(memo.refs[r], memo)
  ELSE IF r \in visited \/ depth > MaxTdorDepth THEN Remembered(Answer(Degraded(t, r), memo), "refs", r)
  ELSE IF t.typeRefs[r].scope[1] = "TypeRef"
  THEN Inside_(t.typeRefs[r], RememberedAnyway(t, memo, t.typeRefs[r].scope[2], depth + 1, visited \cup {r}), r)
  ELSE Remembered(Answer(External(t.typeRefs[r].name, <<>>, ScopeOf(t, t.typeRefs[r].scope)), memo), "refs", r)

RECURSIVE TypeRefExternal(_, _, _, _, _)
TypeRefExternal(t, memo, r, depth, visited) ==
  IF r \notin DOMAIN t.typeRefs THEN Answer(Failed, memo)
  ELSE IF r \notin visited /\ memo.refs[r] # Missing THEN Answer(memo.refs[r], memo)
  ELSE IF r \in visited \/ depth > MaxTdorDepth THEN Answer(Degraded(t, r), memo)
  ELSE IF t.typeRefs[r].scope[1] = "TypeRef"
  THEN Inside_(t.typeRefs[r], TypeRefExternal(t, memo, t.typeRefs[r].scope[2], depth + 1, visited \cup {r}), r)
  ELSE Remembered(Answer(External(t.typeRefs[r].name, <<>>, ScopeOf(t, t.typeRefs[r].scope)), memo), "refs", r)

(* A VALUETYPE marker before an external type is kept for the writer.       *)
Observed(result, marker) ==
  IF marker = "value" /\ IsExternal(result.answer)
  THEN [result EXCEPT !.memo.values = @ \cup {result.answer.leaf[2]}] ELSE result

ExternalAnswer(e) ==
  IF e.answer = Failed THEN e ELSE Answer(Plain(<<"External", e.answer>>), e.memo)
Around_(wraps, inner) ==
  IF inner.answer = Failed THEN inner ELSE Answer(Wrapped(wraps, inner.answer), inner.memo)

(* A cell, and the type of a signature or of the blob of a TypeSpec row.    *)
RECURSIVE TdorType(_, _, _, _, _), ReadElement(_, _, _, _, _)
TdorType(t, memo, cell, depth, stack) ==
  CASE cell[1] = "nil" -> Answer(Failed, memo)
    [] cell[1] = "TypeDef" ->
         Answer(IF cell[2] \in DOMAIN t.types THEN Plain(<<"Def", cell[2]>>) ELSE Failed, memo)
    [] cell[1] = "TypeRef" -> ExternalAnswer(TypeRefExternal(t, memo, cell[2], depth, {}))
    [] cell[1] = "TypeSpec" ->
         IF cell[2] \notin DOMAIN t.typeSpecs THEN Answer(Failed, memo)
         ELSE IF memo.specs[cell[2]] # Missing THEN Answer(memo.specs[cell[2]], memo)
         ELSE IF depth > MaxTdorDepth \/ Len(stack) >= MaxTdorDepth \/ cell[2] \in Range(stack)
         THEN Answer(Failed, memo)
         ELSE Remembered(ReadElement(t, memo, t.typeSpecs[cell[2]], depth, Append(stack, cell[2])),
                         "specs", cell[2])
ReadElement(t, memo, e, depth, stack) ==
  IF depth + e.wraps > MaxTdorDepth THEN Answer(Failed, memo)
  ELSE IF e.leaf[1] = "i4" THEN Answer(e, memo)
  ELSE Around_(e.wraps, Observed(TdorType(t, memo, e.leaf[2], depth + e.wraps, stack), e.leaf[1]))

(* The type whose run of methods holds method m.                            *)
DeclaringType(t, m) ==
  {i \in DOMAIN t.types : /\ m >= t.types[i].methodList
                          /\ m < IF i < Len(t.types) THEN t.types[i + 1].methodList ELSE t.methods + 1}

ParentType(t, memo, cell) ==
  CASE cell[1] = "MethodDef" ->
         Answer(IF DeclaringType(t, cell[2]) = {} THEN Failed
                ELSE Plain(<<"Def", Min(DeclaringType(t, cell[2]))>>), memo)
    [] cell[1] = "ModuleRef" ->
         LET name == t.moduleRefs[cell[2]]
         IN  Answer(Plain(<<"External", External(name, <<>>, <<"OtherModule", name>>)>>), memo)
    [] cell[1] \in {"TypeDef", "TypeRef", "TypeSpec", "nil"} ->
         TdorType(t, memo, cell, IF cell[1] = "TypeDef" THEN 0 ELSE 1, <<>>)

WithSignature(row, parent, sig) ==
  IF sig.answer = Failed THEN sig
  ELSE Answer([kind |-> row.kind, parent |-> parent, name |-> row.name, type |-> sig.answer], sig.memo)
WithParent(t, row, parent) ==
  IF parent.answer = Failed THEN parent
  ELSE WithSignature(row, parent.answer,
         ReadElement(t, parent.memo, row.type, IF row.kind = "field" THEN 0 ELSE 1, <<>>))
MemberRefRow(t, memo, r) ==
  WithParent(t, t.memberRefs[r], ParentType(t, memo, t.memberRefs[r].parent))

DefMethod(i) == [kind |-> "def", method |-> i]

BaseMethod(t, memo, cell) ==
  IF cell[1] = "MemberRef" THEN MemberRefRow(t, memo, cell[2])
  ELSE Answer(IF cell[2] \in 1..t.methods THEN DefMethod(cell[2]) ELSE Failed, memo)
WithArgument(method, argument, r) ==
  IF argument.answer = Failed THEN argument
  ELSE Remembered(Answer([kind |-> "spec", method |-> method, argument |-> argument.answer], argument.memo), "calls", r)
WithBase(t, row, base, r) ==
  IF base.answer = Failed THEN base
  ELSE IF base.answer.kind = "field" THEN Answer(Failed, base.memo)
  ELSE WithArgument(base.answer, ReadElement(t, base.memo, row.argument, 0, <<>>), r)
MethodSpecRef(t, memo, r) ==
  IF memo.calls[r] # Missing THEN Answer(memo.calls[r], memo)
  ELSE WithBase(t, t.methodSpecs[r], BaseMethod(t, memo, t.methodSpecs[r].method), r)

(* A row of one of the four tables, met at some depth of a signature.       *)
ResolveRow(t, memo, cell, depth) ==
  CASE cell[1] = "MemberRef"  -> MemberRefRow(t, memo, cell[2])
    [] cell[1] = "MethodSpec" -> MethodSpecRef(t, memo, cell[2])
    [] cell[1] \in {"TypeDef", "TypeRef", "TypeSpec"} -> TdorType(t, memo, cell, depth, <<>>)

-----------------------------------------------------------------------------
(* Writing.  rows holds the tables under construction; a result is          *)
(* [cell, rows].                                                            *)

Given(cell, rows) == [cell |-> cell, rows |-> rows]
NoRows == [typeRefs |-> <<>>, typeSpecs |-> <<>>, memberRefs |-> <<>>, methodSpecs |-> <<>>]

Position(s, x) == CHOOSE i \in DOMAIN s : s[i] = x /\ \A j \in 1..(i - 1) : s[j] # x

(* A mutation: a row is taken for one of the same name.                     *)
InternedByName(rows, table, row, tag) ==
  IF table = "typeRefs" /\ row.name \in {rows[table][i].name : i \in DOMAIN rows[table]}
  THEN Given(<<tag, CHOOSE i \in DOMAIN rows[table] : rows[table][i].name = row.name>>, rows)
  ELSE Given(<<tag, Len(rows[table]) + 1>>, [rows EXCEPT ![table] = Append(@, row)])

(* A mutation: type specifications are not looked up before they are added. *)
InternedAnew(rows, table, row, tag) ==
  IF table # "typeSpecs" /\ row \in Range(rows[table])
  THEN Given(<<tag, Position(rows[table], row)>>, rows)
  ELSE Given(<<tag, Len(rows[table]) + 1>>, [rows EXCEPT ![table] = Append(@, row)])

(* The row a table already has for this content, or a new one at its end.   *)
Interned(rows, table, row, tag) ==
  IF row \in Range(rows[table]) THEN Given(<<tag, Position(rows[table], row)>>, rows)
  ELSE Given(<<tag, Len(rows[table]) + 1>>, [rows EXCEPT ![table] = Append(@, row)])

(* A mutation: the modules are searched among the assemblies' rows.         *)
ScopeCellOfModule(t, scope) ==
  CASE scope[1] = "ThisModule"  -> <<"Module", 1>>
    [] scope[1] = "Moduleless"  -> <<"nil", 0>>
    [] scope[1] \in {"OtherModule", "Assembly"} ->
         IF scope[2] \notin Range(t.assemblyRefs) THEN Failed
         ELSE <<"AssemblyRef", Position(t.assemblyRefs, scope[2])>>

ScopeCell(t, scope) ==
  CASE scope[1] = "ThisModule"  -> <<"Module", 1>>
    [] scope[1] = "Moduleless"  -> <<"nil", 0>>
    [] scope[1] = "OtherModule" -> IF scope[2] \notin Range(t.moduleRefs) THEN Failed
                                   ELSE <<"ModuleRef", Position(t.moduleRefs, scope[2])>>
    [] scope[1] = "Assembly"    -> IF scope[2] \notin Range(t.assemblyRefs) THEN Failed
                                   ELSE <<"AssemblyRef", Position(t.assemblyRefs, scope[2])>>

InternExternal(t, rows, e) ==
  IF ScopeCell(t, e.scope) = Failed THEN Given(Failed, rows)
  ELSE FoldLeft(LAMBDA outer, name :
                  Interned(outer.rows, "typeRefs", [name |-> name, scope |-> outer.cell], "TypeRef"),
                Given(ScopeCell(t, e.scope), rows), Append(e.nesting, e.name))

(* Value types by definition: the chain of bases ends in System.ValueType.  *)
RECURSIVE DefIsValueType(_, _, _)
DefIsValueType(t, i, hops) ==
  /\ hops =< Len(t.types) + 1
  /\ ~t.types[i].interface
  /\ \/ t.types[i].base = <<"System.ValueType">>
     \/ t.types[i].base[1] = "Def" /\ DefIsValueType(t, t.types[i].base[2], hops + 1)

(* A mutation: the markers observed while reading are not looked up.        *)
IsValueTypeByName(t, values, leaf) ==
  IF leaf[1] = "Def" THEN DefIsValueType(t, leaf[2], 1) ELSE leaf[2].name \in t.wellKnown

IsValueType(t, values, leaf) ==
  IF leaf[1] = "Def" THEN DefIsValueType(t, leaf[2], 1)
  ELSE leaf[2] \in values \/ leaf[2].name \in t.wellKnown

NamedCell(t, rows, leaf) ==
  IF leaf[1] = "Def" THEN Given(<<"TypeDef", leaf[2]>>, rows) ELSE InternExternal(t, rows, leaf[2])

(* The bytes of a type: children inline, named types by their cell.         *)
Marked(type, marker, named) ==
  IF named.cell = Failed THEN named
  ELSE Given([wraps |-> type.wraps, leaf |-> <<marker, named.cell>>], named.rows)
WriteElement(t, values, rows, type) ==
  IF type.leaf[1] = "i4" THEN Given(type, rows)
  ELSE Marked(type, IF IsValueType(t, values, type.leaf) THEN "value" ELSE "class", NamedCell(t, rows, type.leaf))

SpecRow(blob) ==
  IF blob.cell = Failed THEN blob ELSE Interned(blob.rows, "typeSpecs", blob.cell, "TypeSpec")
TdorCell(t, values, rows, type) ==
  IF type.wraps = 0 /\ type.leaf[1] # "i4" THEN NamedCell(t, rows, type.leaf)
  ELSE SpecRow(WriteElement(t, values, rows, type))

(* A row of two cells, interned one after the other.                        *)
MemberRow(m, parent, sig) ==
  IF parent = Failed \/ sig.cell = Failed THEN Given(Failed, sig.rows)
  ELSE Interned(sig.rows, "memberRefs",
         [parent |-> parent, name |-> m.name, kind |-> m.kind, type |-> sig.cell], "MemberRef")
ParentInterned(t, values, m, parent) == MemberRow(m, parent.cell, WriteElement(t, values, parent.rows, m.type))
MemberRefToken(t, values, rows, m) == ParentInterned(t, values, m, TdorCell(t, values, rows, m.parent))

SpecifiedRow(method, arg) ==
  IF method = Failed \/ arg.cell = Failed THEN Given(Failed, arg.rows)
  ELSE Interned(arg.rows, "methodSpecs", [method |-> method, argument |-> arg.cell], "MethodSpec")
MethodInterned(t, values, spec, method) ==
  SpecifiedRow(method.cell, WriteElement(t, values, method.rows, spec.argument))
MethodSpecToken(t, values, rows, spec) ==
  MethodInterned(t, values, spec,
    IF spec.method.kind = "def" THEN Given(<<"MethodDef", spec.method.method>>, rows)
    ELSE MemberRefToken(t, values, rows, spec.method))

(* The token of whatever a row was resolved to.                             *)
TokenFor(t, values, rows, answer) ==
  IF "wraps" \in DOMAIN answer THEN TdorCell(t, values, rows, answer)
  ELSE IF answer.kind = "spec" THEN MethodSpecToken(t, values, rows, answer)
  ELSE MemberRefToken(t, values, rows, answer)

-----------------------------------------------------------------------------
(* Rows are asked for in any order, then descriptors are given tokens in    *)
(* any order.                                                               *)

ReferencesInit ==
  /\ unit = "references"
  /\ \E t \in ReferenceFiles :
       state = [phase |-> "reading", file |-> t, memo |-> Fresh(t), asked |-> {},
                rows |-> NoRows, tokens |-> {}]

Cells(t) == {"TypeRef"} \X DOMAIN t.typeRefs \cup {"TypeSpec"} \X DOMAIN t.typeSpecs
            \cup {"MemberRef"} \X DOMAIN t.memberRefs \cup {"MethodSpec"} \X DOMAIN t.methodSpecs

Ask(cell, depth) ==
  /\ state.phase = "reading"
  /\ Cardinality(state.asked) < MaxAsked
  /\ \E result \in {ResolveRow(state.file, state.memo, cell, depth)} :
       state' = [state EXCEPT !.memo = result.memo,
                   !.asked = @ \cup {[cell |-> cell, depth |-> depth, answer |-> result.answer]}]

StartWriting ==
  /\ state.phase = "reading" /\ state.asked # {}
  /\ state' = [state EXCEPT !.phase = "writing"]

Intern(answer) ==
  /\ state.phase = "writing"
  /\ answer # Failed /\ answer \notin {k.answer : k \in state.tokens}
  /\ \E result \in {TokenFor(state.file, state.memo.values, state.rows, answer)} :
       state' = [state EXCEPT !.rows = result.rows,
                   !.tokens = @ \cup {[answer |-> answer, cell |-> result.cell]}]

ReferencesNext ==
  /\ unit = "references" /\ UNCHANGED unit
  /\ \/ \E cell \in Cells(state.file), depth \in AskedDepths : Ask(cell, depth)
     \/ StartWriting
     \/ \E a \in state.asked : Intern(a.answer)

-----------------------------------------------------------------------------
(* What rows denote, without memory, guards or budgets.                     *)

RECURSIVE Unrolled(_, _, _)
Unrolled(t, r, n) ==
  IF n = 0 THEN <<>>
  ELSE IF t.typeRefs[r].scope[1] = "TypeRef"
  THEN <<r>> \o Unrolled(t, t.typeRefs[r].scope[2], n - 1) ELSE <<r>>

Names(t, path) == [i \in DOMAIN path |-> t.typeRefs[path[i]].name]
Onward(t, r) == Unrolled(t, r, Len(t.typeRefs) + 1)
Ends(t, r) == Len(Onward(t, r)) =< Len(t.typeRefs)

DenotedRef(t, r) ==
  LET path == Onward(t, r)
  IN  External(t.typeRefs[r].name, Reverse(Tail(Names(t, path))), ScopeOf(t, t.typeRefs[Last(path)].scope))

(* The type inside all the specifications an element leads through, if they *)
(* end.                                                                     *)
Inner(e, inner) == IF inner = Missing THEN Missing ELSE Wrapped(e.wraps, inner)
RECURSIVE Innermost(_, _, _)
Innermost(t, e, fuel) ==
  IF e.leaf[1] = "i4" \/ e.leaf[2][1] # "TypeSpec" THEN e
  ELSE IF fuel = 0 THEN Missing
  ELSE Inner(e, Innermost(t, t.typeSpecs[e.leaf[2][2]], fuel - 1))
InnermostOf(t, e) == Innermost(t, e, Len(t.typeSpecs))

(* The rows of TypeRef on the way to the scope of an element.               *)
ScopePath(t, e) ==
  LET i == InnermostOf(t, e)
  IN  IF i = Missing \/ i.leaf[1] = "i4" THEN <<>>
      ELSE IF i.leaf[2][1] = "TypeRef" THEN Onward(t, i.leaf[2][2]) ELSE <<>>

DenotedType(t, e) ==
  LET i == InnermostOf(t, e)
  IN  CASE i = Missing -> Missing
        [] i # Missing /\ i.leaf[1] = "i4" -> i
        [] i # Missing /\ i.leaf[1] # "i4" ->
             IF i.leaf[2][1] = "TypeDef" THEN Wrapped(i.wraps, Plain(<<"Def", i.leaf[2][2]>>))
             ELSE IF ~Ends(t, i.leaf[2][2]) THEN Missing
             ELSE Wrapped(i.wraps, Plain(<<"External", DenotedRef(t, i.leaf[2][2])>>))

(* Read at that depth, the element and its scope are within the limit.      *)
InReach(t, e, depth) ==
  /\ DenotedType(t, e) # Missing
  /\ depth + InnermostOf(t, e).wraps + (IF ScopePath(t, e) = <<>> THEN 0 ELSE Len(ScopePath(t, e)) - 1)
       =< MaxTdorDepth

Exact(t, type, e) == type # Failed /\ type = DenotedType(t, e)

(* The row's own name, the names its scope cells lead through, as far as it *)
(* goes, and the whole of them when there is a scope.                       *)
OwnIdentity(t, type, e) ==
  \/ Exact(t, type, e)
  \/ /\ type # Failed /\ type.leaf[1] = "External" /\ ScopePath(t, e) # <<>>
     /\ type.wraps = InnermostOf(t, e).wraps
     /\ type.leaf[2].scope = <<"Moduleless">>
     /\ LET x == type.leaf[2]
        IN  Append(x.nesting, x.name) =
              Reverse(Names(t, Unrolled(t, Head(ScopePath(t, e)), Len(x.nesting) + 1)))

(* The elements a row is read from, each with its depth.                    *)
AsElement(cell) == [wraps |-> 0, leaf |-> <<"class", cell>>]
IsTypeCell(cell) == cell[1] \in {"TypeDef", "TypeRef", "TypeSpec"}
Met(t, cell, depth) ==
  LET member(row) == {<<row.type, IF row.kind = "field" THEN 0 ELSE 1>>}
                       \cup IF IsTypeCell(row.parent) THEN {<<AsElement(row.parent), 1>>} ELSE {}
  IN  CASE IsTypeCell(cell) -> {<<AsElement(cell), depth>>}
        [] cell[1] = "MemberRef" -> member(t.memberRefs[cell[2]])
        [] cell[1] = "MethodSpec" ->
             LET row == t.methodSpecs[cell[2]]
             IN  {<<row.argument, 0>>}
                   \cup IF row.method[1] = "MemberRef" THEN member(t.memberRefs[row.method[2]]) ELSE {}

(* Rows that name a parent, and instantiate methods.                        *)
WellFormed(t, cell) ==
  /\ cell[1] = "MemberRef" => t.memberRefs[cell[2]].parent[1] # "nil"
  /\ cell[1] = "MethodSpec" /\ t.methodSpecs[cell[2]].method[1] = "MemberRef" =>
       LET row == t.memberRefs[t.methodSpecs[cell[2]].method[2]]
       IN  row.kind = "method" /\ row.parent[1] # "nil"

(* Every type of an answer stands in that relation to its element.          *)
MemberIs(t, m, row, Right(_, _, _)) ==
  /\ m # Failed /\ m.kind = row.kind /\ m.name = row.name /\ Right(t, m.type, row.type)
  /\ IsTypeCell(row.parent) => Right(t, m.parent, AsElement(row.parent))

AnswerIs(t, cell, answer, Right(_, _, _)) ==
  CASE IsTypeCell(cell) -> Right(t, answer, AsElement(cell))
    [] cell[1] = "MemberRef" -> MemberIs(t, answer, t.memberRefs[cell[2]], Right)
    [] cell[1] = "MethodSpec" ->
         LET row == t.methodSpecs[cell[2]]
         IN  /\ answer # Failed /\ Right(t, answer.argument, row.argument)
             /\ row.method[1] = "MemberRef" => MemberIs(t, answer.method, t.memberRefs[row.method[2]], Right)

(* What a context that remembers nothing answers.                           *)
Alone(a) == ResolveRow(state.file, Fresh(state.file), a.cell, a.depth)

(* Rows the context remembers without a scope.                              *)
CutShort ==
  {r \in DOMAIN state.memo.refs :
     state.memo.refs[r] # Missing /\ state.memo.refs[r].scope = <<"Moduleless">>}

Readable(a) ==
  /\ WellFormed(state.file, a.cell)
  /\ \A p \in Met(state.file, a.cell, a.depth) : InReach(state.file, p[1], p[2])
MeetsCutShort(a) ==
  \E p \in Met(state.file, a.cell, a.depth) : CutShort \cap Range(ScopePath(state.file, p[1])) # {}

-----------------------------------------------------------------------------
(* In whatever order and at whatever depth rows are met, whatever else was  *)
(* met before, deeper than the reader follows, cyclic or unreadable: what   *)
(* is within the depth a reader follows is resolved exactly, and leaves the *)
(* record of value types it leaves on its own (context.rs:562), unless its  *)
(* scope goes through a row that is remembered without one.  The code does  *)
(* remember such rows (context.rs:663): those on the way of another row     *)
(* asked for that was too deep or had no end, and those nested in one of    *)
(* them, whoever asked; no others, never the row itself at which reading    *)
(* stopped, and never one in the place of an exact answer.                  *)
ReferencesDenoted ==
  unit = "references" =>
    /\ \A a \in state.asked : Readable(a) /\ ~MeetsCutShort(a) =>
         /\ AnswerIs(state.file, a.cell, a.answer, Exact)
         /\ Alone(a).memo.values \subseteq state.memo.values
    /\ \A r \in CutShort : state.memo.refs[r].nesting # <<>>
    /\ \A r \in CutShort : \E a \in state.asked : \E p \in Met(state.file, a.cell, a.depth) :
         /\ ~InReach(state.file, p[1], p[2])
         /\ CutShort \cap Range(ScopePath(state.file, p[1])) \cap Range(Onward(state.file, r)) # {}
    /\ (\A a \in state.asked : Readable(a) /\ ~MeetsCutShort(a)) =>
         state.memo.values = UNION {Alone(a).memo.values : a \in state.asked}

(* Whatever was asked for before, a type read is the row's own identity,    *)
(* its nesting is where the scope cells lead, and one with a scope is whole,*)
(* alone or in the members and specifications that hold it.                 *)
DegradedKeepsIdentity ==
  unit = "references" => \A a \in state.asked :
    a.answer # Failed => AnswerIs(state.file, a.cell, a.answer, OwnIdentity)

-----------------------------------------------------------------------------
Written == [state.file EXCEPT !.typeRefs = state.rows.typeRefs, !.typeSpecs = state.rows.typeSpecs,
                              !.memberRefs = state.rows.memberRefs, !.methodSpecs = state.rows.methodSpecs]

(* A reference without a module is written with the nil scope, which reads  *)
(* as the module itself.                                                    *)
SettledType(type) ==
  IF type.leaf[1] = "External" /\ type.leaf[2].scope = <<"Moduleless">>
  THEN [type EXCEPT !.leaf[2].scope = <<"ThisModule">>] ELSE type
SettledMember(m) == [m EXCEPT !.parent = SettledType(@), !.type = SettledType(@)]
Settled(answer) ==
  IF "wraps" \in DOMAIN answer THEN SettledType(answer)
  ELSE IF answer.kind # "spec" THEN SettledMember(answer)
  ELSE [answer EXCEPT !.argument = SettledType(@),
                      !.method = IF @.kind = "def" THEN @ ELSE SettledMember(@)]

(* The types an answer holds, with the depth at which reading meets them.   *)
TypesOfMember(m) == {<<m.parent, 1>>, <<m.type, 1>>}
TypesIn(answer) ==
  IF "wraps" \in DOMAIN answer THEN {<<answer, 0>>}
  ELSE IF answer.kind # "spec" THEN TypesOfMember(answer)
  ELSE {<<answer.argument, 0>>} \cup (IF answer.method.kind = "def" THEN {} ELSE TypesOfMember(answer.method))

(* Shallow enough to be read again: reading inlines rows into one another   *)
(* from memory and so accepts deeper types than it does from one blob.      *)
Shallow(answer) == \A p \in TypesIn(answer) :
  p[2] + p[1].wraps + (IF p[1].leaf[1] = "External" THEN Len(p[1].leaf[2].nesting) ELSE 0)
    =< MaxTdorDepth

(* Reading the rows written gives back what each token was asked for, and   *)
(* two things have one token exactly when they are one.                     *)
TokensReadBack ==
  unit = "references" => \A k \in state.tokens : k.cell # Failed =>
    /\ Shallow(k.answer) =>
         ResolveRow(Written, Fresh(Written), k.cell, 0).answer = Settled(k.answer)
    /\ \A l \in state.tokens : l.cell = k.cell => l.answer = k.answer

(* What was read can be written, but for a reference into a second row of   *)
(* the Module table: no ModuleRef stands for it.                            *)
Writable(type) ==
  type.leaf[1] = "External" /\ type.leaf[2].scope[1] = "OtherModule" =>
    type.leaf[2].scope[2] \in Range(state.file.moduleRefs)
ReadIsWritable ==
  unit = "references" => \A k \in state.tokens :
    k.cell = Failed <=> \E p \in TypesIn(k.answer) : ~Writable(p[1])

(* Rows are written once, and a nested type after the type around it.       *)
RowsWrittenOnce ==
  unit = "references" =>
    /\ \A table \in DOMAIN state.rows : IsInjective(state.rows[table])
    /\ \A r \in DOMAIN state.rows.typeRefs : LET scope == state.rows.typeRefs[r].scope
         IN scope[1] = "TypeRef" => scope[2] < r

(* A member whose type the file marks as a value type is written so.        *)
MarkersKept ==
  unit = "references" => \A k \in state.tokens, a \in state.asked :
    /\ k.answer = a.answer /\ a.cell[1] = "MemberRef" /\ k.cell # Failed
    /\ state.file.memberRefs[a.cell[2]].type.leaf[1] = "value"
    /\ a.answer.type.leaf[1] = "External" /\ a.answer.type.wraps = state.file.memberRefs[a.cell[2]].type.wraps
    => state.rows.memberRefs[k.cell[2]].type.leaf[1] = "value"
=============================================================================
