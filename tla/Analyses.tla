------------------------------- MODULE Analyses -------------------------------
(***************************************************************************)
(* What the analyses of a module answer: who uses what (xref.rs), the      *)
(* members no code can reach, the call graph and its strongly connected    *)
(* components (callgraph.rs), the differences between two assemblies       *)
(* (diff.rs).                                                              *)
(*                                                                         *)
(* A type descriptor is the sequence of the types it names, outermost      *)
(* first: t > 0 is a definition, t < 0 an external type.  A member         *)
(* reference [def, parent, name, shape, sig, args] is a definition, or     *)
(* names a member of its parent, which may be a definition made generic.   *)
(***************************************************************************)
EXTENDS Workbench

CONSTANTS
  UsageModules, \* [types, fields, methods, policy, extra]; a method has a shape
  FullNames,    \* the full name of each type, external ones too
  OuterOf,      \* the outer types of each external type, outermost first
  CallModules,  \* for each method, the methods its body names, in order
  Compared      \* pairs of assemblies [name, version, key, refs, resources, types]

Types == DOMAIN state.module.types
FieldIds == DOMAIN state.module.fields
MethodIds == DOMAIN state.module.methods

(* Recorded so far: users[entity], a sequence of [kind, site], and          *)
(* uses[owner], a sequence of [kind, entity].                               *)
Listed(f, x) == IF x \in DOMAIN f THEN f[x] ELSE <<>>
Pushed(f, x, one) == (x :> Append(Listed(f, x), one)) @@ f

(* A mutation: an owner's use of an entity is listed once.                  *)
RecordOnce(index, entity, kind, site, owner) ==
  [users |-> Pushed(index.users, entity, [kind |-> kind, site |-> site]),
   uses  |-> IF owner = Missing \/ \E i \in DOMAIN Listed(index.uses, owner) : index.uses[owner][i].entity = entity
             THEN index.uses ELSE Pushed(index.uses, owner, [kind |-> kind, entity |-> entity])]

Record(index, entity, kind, site, owner) ==
  [users |-> Pushed(index.users, entity, [kind |-> kind, site |-> site]),
   uses  |-> IF owner = Missing THEN index.uses
             ELSE Pushed(index.uses, owner, [kind |-> kind, entity |-> entity])]

TypeEntity(t) == IF t > 0 THEN <<"type", t>> ELSE <<"external", FullNames[t]>>

(* Every type a descriptor names, with the outer types of external ones.    *)
Leaves_(desc) == FlattenSeq([i \in DOMAIN desc |-> IF desc[i] > 0 THEN <<desc[i]>>
                                                   ELSE Append(OuterOf[desc[i]], desc[i])])
Walk(index, desc, kind, site, owner) ==
  FoldLeft(LAMBDA acc, t : Record(acc, TypeEntity(t), kind, site, owner), index, Leaves_(desc))

MemberKey(what, ref) == <<what, FullNames[ref.parent[1]], ref.name>>

RecordMethodRef(index, ref, kind, site, owner) ==
  LET args == Walk(index, ref.args, "operand", site, owner)
      key  == Record(args, MemberKey("external method", ref), kind, site, owner)
  IN  IF ref.def # 0 THEN Record(args, <<"method", ref.def>>, kind, site, owner)
      ELSE Walk(Walk(key, ref.parent, kind, site, owner), ref.sig, "signature", site, owner)

RecordFieldRef(index, ref, kind, site, owner) ==
  LET key == Record(index, MemberKey("external field", ref), kind, site, owner)
  IN  IF ref.def # 0 THEN Record(index, <<"field", ref.def>>, kind, site, owner)
      ELSE Walk(Walk(key, ref.parent, kind, site, owner), ref.sig, "signature", site, owner)

RecordInstruction(index, m, i) ==
  LET ins   == state.module.methods[m].body[i]
      site  == <<"instruction", m, i>>
      owner == <<"method", m>>
  IN  CASE ins.op \in {"call", "newobj"} ->
             RecordMethodRef(index, ins.ref, IF ins.op = "newobj" THEN "new" ELSE "call", site, owner)
        [] ins.op \in {"ldfld", "stfld", "ldflda"} ->
             RecordFieldRef(index, ins.ref, CASE ins.op = "stfld" -> "store" [] ins.op = "ldflda" -> "address"
                                              [] OTHER -> "load", site, owner)
        [] OTHER -> Walk(index, ins.ref.sig, "operand", site, owner)

-----------------------------------------------------------------------------
UsagesInit ==
  /\ unit = "usages"
  /\ \E mod \in UsageModules :
       state = [module |-> mod, phase |-> "heads", next |-> 1,
                index |-> [users |-> <<>>, uses |-> <<>>], dead |-> Missing]

(* The heads of the types and the signatures of the fields.                 *)
FieldOwner(f) ==
  LET owners == {t \in Types : f \in Range(state.module.types[t].fields)}
  IN  IF owners = {} THEN Missing ELSE <<"type", Max(owners)>>

WalkHeads ==
  LET Head_(acc, t) == Walk(acc, state.module.types[t].base, "base", <<"head", t>>, <<"type", t>>)
      Field_(acc, f) == Walk(acc, state.module.fields[f].type, "signature", <<"field", f>>, FieldOwner(f))
      heads == FoldLeft(Head_, state.index, [t \in Types |-> t])
  IN  /\ state.phase = "heads"
      /\ state' = [state EXCEPT !.phase = "methods", !.index = FoldLeft(Field_, heads, [f \in FieldIds |-> f])]

WalkMethod ==
  LET m == state.next
      sig == Walk(state.index, state.module.methods[m].sig, "signature", <<"method", m>>, <<"method", m>>)
  IN  /\ state.phase = "methods" /\ m \in MethodIds
      /\ state' = [state EXCEPT !.next = m + 1, !.index =
                     FoldLeft(LAMBDA acc, i : RecordInstruction(acc, m, i), sig,
                              [i \in DOMAIN state.module.methods[m].body |-> i])]

(* External references that spell a member of this module: the last type of *)
(* a name; a field by its name, a method when no other has its name.        *)
Spelled(name) == {t \in Types : FullNames[t] = name}
FieldCandidates(t, name) ==
  {f \in Range(state.module.types[t].fields) : state.module.fields[f].name = name}
MethodCandidates(t, name) ==
  {m \in Range(state.module.types[t].methods) : state.module.methods[m].name = name}

(* A mutation: of several methods of a name, the first is taken.            *)
LocalOfFirst(key) ==
  IF Spelled(key[2]) = {} THEN Missing
  ELSE LET t  == Max(Spelled(key[2]))
           ms == IF key[1] = "external method" THEN MethodCandidates(t, key[3]) ELSE {}
           fs == IF key[1] = "external field" THEN FieldCandidates(t, key[3]) ELSE {}
       IN  IF ms # {} THEN <<"method", Min(ms)>> ELSE IF fs # {} THEN <<"field", Max(fs)>> ELSE Missing

LocalOf(key) ==
  IF Spelled(key[2]) = {} THEN Missing
  ELSE LET t  == Max(Spelled(key[2]))
           ms == IF key[1] = "external method" THEN MethodCandidates(t, key[3]) ELSE {}
           fs == IF key[1] = "external field" THEN FieldCandidates(t, key[3]) ELSE {}
       IN  IF Cardinality(ms) = 1 THEN <<"method", Min(ms)>>
           ELSE IF fs # {} THEN <<"field", Max(fs)>> ELSE Missing

ResolveExternals ==
  LET keys   == {k \in DOMAIN state.index.users : k[1] \in {"external method", "external field"}}
      locals == {k \in keys : LocalOf(k) # Missing}
  IN  /\ state.phase = "methods" /\ state.next > Len(state.module.methods)
      /\ state' = [state EXCEPT !.phase = "built", !.index.users =
                     FoldLeft(LAMBDA acc, k : (LocalOf(k) :> (Listed(acc, LocalOf(k)) \o acc[k])) @@ acc,
                              @, SetToSeq(locals))]

-----------------------------------------------------------------------------
(* Dead members: calls are those of the index, direct or resolved.          *)
CallsOf(m) ==
  {callee \in MethodIds : \E i \in DOMAIN Listed(state.index.users, <<"method", callee>>) :
     LET u == state.index.users[<<"method", callee>>][i]
     IN  u.kind \in {"call", "new"} /\ u.site[1] = "instruction" /\ u.site[2] = m}

Closure(roots, Next_(_)) ==
  LET live[i \in 0..Len(state.module.methods)] ==
        IF i = 0 THEN roots
        ELSE LET old == live[i - 1] IN old \cup UNION {Next_(m) : m \in old}
  IN  live[Len(state.module.methods)]

(* A mutation: accesses in dead bodies do not count.                        *)
DeadFieldsStrictly(live) ==
  {f \in FieldIds : \A i \in DOMAIN Listed(state.index.users, <<"field", f>>) :
     state.index.users[<<"field", f>>][i].site[2] \notin live}

DeadFields(live) ==
  {f \in FieldIds : ~state.module.fields[f].constant /\ Listed(state.index.users, <<"field", f>>) = <<>>}

(* Methods that may be called from outside: the policy says for which of a   *)
(* method's traits (virtual, accessor, entry point, static constructor,     *)
(* P/Invoke, visible); those with overrides always.                         *)
Roots ==
  {m \in MethodIds : state.module.methods[m].traits \cap (state.module.policy \cup {"overrides"}) # {}}
    \cup state.module.extra

ReportDead ==
  LET live == Closure(Roots, CallsOf)
      methods == MethodIds \ live
      fields  == DeadFields(live)
      types   == {t \in Types : Listed(state.index.users, <<"type", t>>) = <<>>
                    /\ Range(state.module.types[t].methods) \subseteq methods
                    /\ Range(state.module.types[t].fields) \subseteq fields}
  IN  /\ state.phase = "built"
      /\ state' = [state EXCEPT !.phase = "reported",
                     !.dead = [methods |-> methods, fields |-> fields, types |-> types]]

UsagesNext ==
  unit = "usages" /\ UNCHANGED unit /\ (WalkHeads \/ WalkMethod \/ ResolveExternals \/ ReportDead)

-----------------------------------------------------------------------------
(* What a reference to a method denotes: a definition, or of the type its   *)
(* parent spells the methods of its name and shape, which is the number of  *)
(* parameters and whether there is a `this' (xref.rs:209).                  *)
SpelledMethods(ref) ==
  IF Spelled(FullNames[ref.parent[1]]) = {} THEN {}
  ELSE MethodCandidates(Max(Spelled(FullNames[ref.parent[1]])), ref.name)
Denoted_(ref) ==
  IF ref.def # 0 THEN {ref.def} ELSE {m \in SpelledMethods(ref) : state.module.methods[m].shape = ref.shape}

(* The code does not compare shapes.  It skips a name that several methods  *)
(* of the type have ("when overloads still collide the reference is         *)
(* skipped", xref.rs:211), also when their shapes tell them apart, and      *)
(* takes the only method of a name whatever its shape.  So it may miss what *)
(* a reference denotes, by overloading, and may take a method for what is   *)
(* not there.                                                               *)
Overloaded(ref) == ref.def = 0 /\ Cardinality(SpelledMethods(ref)) > 1
ByItself(ref) == IF Overloaded(ref) THEN {} ELSE Denoted_(ref)
AtMost(ref) == IF Overloaded(ref) \/ ref.def # 0 THEN Denoted_(ref) ELSE SpelledMethods(ref)

Instructions == UNION {{<<m, i>> : i \in DOMAIN state.module.methods[m].body} : m \in MethodIds}
Ins(at) == state.module.methods[at[1]].body[at[2]]
CallSites(m, Of(_)) == {at \in Instructions : Ins(at).op \in {"call", "newobj"} /\ m \in Of(Ins(at).ref)}
AsUser(at) == <<IF Ins(at).op = "newobj" THEN "new" ELSE "call", <<"instruction">> \o at>>

(* The users of a method are the instructions that call or construct it,    *)
(* each once and with its kind, whether they name it directly or through a  *)
(* generic instance of its type.  An overload named through an instance may *)
(* lack the user, but another method never has it in its place; the only    *)
(* method of a name may have the users of another shape.                    *)
CallersExact ==
  unit = "usages" /\ state.phase = "reported" =>
    \A m \in MethodIds :
      LET users == Listed(state.index.users, <<"method", m>>)
          found == {<<users[i].kind, users[i].site>> : i \in DOMAIN users}
      IN  /\ {AsUser(at) : at \in CallSites(m, ByItself)} \subseteq found
          /\ found \subseteq {AsUser(at) : at \in CallSites(m, AtMost)}
          /\ Len(users) = Cardinality(found)

(* Every use an owner makes is recorded with the used entity, and the other *)
(* way round; what the second pass adds to a definition its users made of   *)
(* the spelling that denotes it.                                            *)
OwnerOfSite(site) ==
  CASE site[1] = "head" -> <<"type", site[2]>>
    [] site[1] = "field" -> FieldOwner(site[2])
    [] OTHER -> <<"method", site[2]>>
UsesOf(owner, entity) ==
  Len(SelectSeq(Listed(state.index.uses, owner), LAMBDA u :
    u.entity = entity \/ (u.entity[1] \in {"external method", "external field"} /\ LocalOf(u.entity) = entity)))
DirectionsMirror ==
  unit = "usages" /\ state.phase = "reported" =>
    \A entity \in DOMAIN state.index.users, owner \in DOMAIN state.index.uses :
      UsesOf(owner, entity)
        = Len(SelectSeq(state.index.users[entity], LAMBDA u : OwnerOfSite(u.site) = owner))

(* No method is reported dead that a root can reach, no field that any body *)
(* touches, and no type that is named anywhere or has a live member; and    *)
(* every method no root can reach is: "false negatives are possible [...];  *)
(* false positives are not" (callgraph.rs:238).  Against that sentence the  *)
(* code does report overloads that are called through an instance of their  *)
(* type and in no other way: this says nothing of those, and of all others  *)
(* that they are not reported.                                              *)
Reachable(Of(_)) ==
  Closure(Roots, LAMBDA m : {n \in MethodIds : \E at \in CallSites(n, Of) : at[1] = m})
DeadExact ==
  unit = "usages" /\ state.phase = "reported" =>
    /\ state.dead.methods \cap Reachable(ByItself) = {}
    /\ MethodIds \ Reachable(AtMost) \subseteq state.dead.methods
    /\ \A f \in state.dead.fields : ~\E at \in Instructions :
         Ins(at).op \in {"ldfld", "stfld", "ldflda"}
           /\ (Ins(at).ref.def = f \/ (Ins(at).ref.def = 0 /\ Ins(at).ref.name = state.module.fields[f].name
                 /\ \E t \in Spelled(FullNames[Ins(at).ref.parent[1]]) : FieldOwner(f) = <<"type", t>>))
    /\ \A t \in state.dead.types : Range(state.module.types[t].methods) \subseteq state.dead.methods

-----------------------------------------------------------------------------
(* Tarjan's algorithm with frames instead of recursion, one step per turn   *)
(* of its inner loop.                                                       *)

(* The methods a body names, once each, in the order they are met.          *)
Callees(body) ==
  FoldLeft(LAMBDA met, m : IF m \in Range(met) THEN met ELSE Append(met, m), <<>>, body)

Calling == {m \in DOMAIN state.edges : state.edges[m] # <<>>}
Nodes == Calling \cup UNION {Range(state.edges[m]) : m \in Calling}
Callers(m) == {n \in DOMAIN state.edges : m \in Range(state.edges[n])}
LeastOf(a, b) == IF a < b THEN a ELSE b

Top == state.frames[Len(state.frames)]

CallGraphsInit ==
  /\ unit = "calls"
  /\ \E bodies \in CallModules :
       state = [edges |-> [m \in DOMAIN bodies |-> Callees(bodies[m])],
                index |-> <<>>, lowlink |-> <<>>, stack |-> <<>>, next |-> 0,
                frames |-> <<>>, components |-> <<>>]

(* v gets the next index and goes on the stack.                             *)
Visited(s, v) ==
  [s EXCEPT !.index = (v :> s.next) @@ @, !.lowlink = (v :> s.next) @@ @, !.next = @ + 1,
            !.stack = Append(@, v), !.frames = Append(@, <<v, 1>>)]

VisitRoot ==
  LET left == Nodes \ DOMAIN state.index
  IN  /\ state.frames = <<>> /\ left # {}
      /\ state' = Visited(state, Min(left))

(* A mutation: a node that left the stack still lowers the link.            *)
LoweredByAny(s, v, w) == [s EXCEPT !.lowlink[v] = LeastOf(@, s.index[w])]

Lowered(s, v, w) ==
  IF w \in Range(s.stack) THEN [s EXCEPT !.lowlink[v] = LeastOf(@, s.index[w])] ELSE s

Advance ==
  LET v == Top[1]
      w == state.edges[v][Top[2]]
      here == [state EXCEPT !.frames[Len(state.frames)] = <<v, Top[2] + 1>>]
  IN  /\ state.frames # <<>> /\ Top[2] =< Len(state.edges[v])
      /\ state' = IF w \notin DOMAIN state.index THEN Visited(here, w) ELSE Lowered(here, v, w)

(* The stack down to v is a component, last on the stack first.             *)
Closed(s, v) ==
  LET at == CHOOSE i \in DOMAIN s.stack : s.stack[i] = v
  IN  IF s.lowlink[v] # s.index[v] THEN s
      ELSE [s EXCEPT !.stack = SubSeq(@, 1, at - 1),
                     !.components = Append(@, Reverse(SubSeq(s.stack, at, Len(s.stack))))]

Return ==
  LET v == Top[1]
      below == Front(state.frames)
      here == [state EXCEPT !.frames = below]
  IN  /\ state.frames # <<>> /\ Top[2] > Len(state.edges[v])
      /\ state' = Closed(IF below = <<>> THEN here
                         ELSE [here EXCEPT !.lowlink[Last(below)[1]] = LeastOf(@, state.lowlink[v])], v)

CallGraphsNext == unit = "calls" /\ UNCHANGED unit /\ (VisitRoot \/ Advance \/ Return)

ComponentsFound == state.frames = <<>> /\ Nodes \subseteq DOMAIN state.index
Recursive(m) ==
  \E c \in Range(state.components) : m \in Range(c) /\ (Len(c) > 1 \/ m \in Range(state.edges[m]))

-----------------------------------------------------------------------------
(* The methods that n calls reach, n included.                              *)
ReachedFrom(n) ==
  LET step(set) == set \cup UNION {Range(state.edges[m]) : m \in set}
      after[i \in 0..Cardinality(DOMAIN state.edges)] == IF i = 0 THEN {n} ELSE LET old == after[i - 1] IN step(old)
  IN  after[Cardinality(DOMAIN state.edges)]

(* The components are the classes of methods that reach each other, every   *)
(* method that calls or is called in exactly one; callees come before their *)
(* callers; and a method is recursive when a call of it can lead back.      *)
ComponentsExact ==
  unit = "calls" /\ ComponentsFound =>
    LET reach == [n \in Nodes |-> ReachedFrom(n)]
        of    == [n \in Nodes |-> {m \in Nodes : m \in reach[n] /\ n \in reach[m]}]
        parts == [i \in DOMAIN state.components |-> Range(state.components[i])]
    IN  /\ Range(parts) = Range(of)
        /\ FoldLeft(LAMBDA n, c : n + Len(c), 0, state.components) = Cardinality(Nodes)
        /\ \A i, j \in DOMAIN parts : i < j =>
             \A m \in parts[i], n \in parts[j] : n \notin reach[m]
        /\ \A m \in Nodes : Recursive(m) <=> \E c \in Range(state.edges[m]) : m \in reach[c]

-----------------------------------------------------------------------------
(* The differences between two assemblies: identities, rosters aligned by  *)
(* name, methods by name and number of parameters, bodies by their         *)
(* instructions.  A parameter, a return type and an operand is a number:   *)
(* d > 0 is the handle of a definition of its own module, d =< 0 anything  *)
(* else.                                                                   *)

Added(set, what) == {<<"added">> \o what \o <<x>> : x \in set}
Removed(set, what) == {<<"removed">> \o what \o <<x>> : x \in set}
Rosters(left, right, what) == Added(right \ left, what) \cup Removed(left \ right, what)

(* The last of several things with one key is the one compared.             *)
ByKey(things, Key(_)) ==
  FoldLeft(LAMBDA acc, x : (Key(x) :> x) @@ acc, <<>>, things)
NameOf(x) == x.name
Overload(method) == <<method.name, Len(method.params)>>

DiffIdentity(left, right) ==
  {<<"identity", f>> : f \in {g \in {"name", "version", "key"} : left[g] # right[g]}}

(* References are aligned by name; a resource has only a name.              *)
DiffRefs(left, right) ==
  LET l == ByKey(left.refs, NameOf)
      r == ByKey(right.refs, NameOf)
  IN  Rosters(DOMAIN l, DOMAIN r, <<"assemblyref">>)
        \cup {<<"modified", "assemblyref", n>> : n \in {m \in (DOMAIN l) \cap (DOMAIN r) : l[m].version # r[m].version}}
DiffResources(left, right) == Rosters(Range(left.resources), Range(right.resources), <<"resource">>)

(* A change of signature hides the body; otherwise the bodies are compared. *)
DiffMethod(type, key, l, r) ==
  IF <<l.params, l.return>> # <<r.params, r.return>> THEN {<<"signature", type, key>>}
  ELSE IF (l.body = Missing) # (r.body = Missing) THEN {<<"presence", type, key>>}
  ELSE IF l.body # r.body THEN {<<"body", type, key>>} ELSE {}

(* A mutation: methods are aligned by name alone.                           *)
AlignedByName(methods) == ByKey(methods, NameOf)

Aligned(methods) == ByKey(methods, Overload)

(* A mutation: the fields of the right side are not looked for on the left. *)
DiffFieldsRemoved(type, left, right) == Removed(left \ right, <<"field", type>>)

DiffFields(type, left, right) == Rosters(left, right, <<"field", type>>)

DiffType(type, l, r) ==
  LET lm == Aligned(l.methods)
      rm == Aligned(r.methods)
  IN  (IF l.attributes # r.attributes THEN {<<"attributes", type>>} ELSE {})
      \cup Rosters(DOMAIN lm, DOMAIN rm, <<"method", type>>)
      \cup UNION {DiffMethod(type, k, lm[k], rm[k]) : k \in (DOMAIN lm) \cap (DOMAIN rm)}
      \cup DiffFields(type, Range(l.fields), Range(r.fields))

Diff(left, right) ==
  LET l == ByKey(left.types, NameOf)
      r == ByKey(right.types, NameOf)
  IN  DiffIdentity(left, right) \cup DiffRefs(left, right) \cup DiffResources(left, right)
        \cup Rosters(DOMAIN l, DOMAIN r, <<"type">>)
        \cup UNION {DiffType(n, l[n], r[n]) : n \in (DOMAIN l) \cap (DOMAIN r)}

DifferencesInit ==
  /\ unit = "diff"
  /\ \E pair \in Compared : state = [left |-> pair[1], right |-> pair[2], report |-> Missing]

Compare ==
  /\ state.report = Missing
  /\ state' = [state EXCEPT !.report = Diff(state.left, state.right)]

DifferencesNext == unit = "diff" /\ UNCHANGED unit /\ Compare

-----------------------------------------------------------------------------
(* Comparing the other way round reports the same differences, with what    *)
(* was added removed.                                                       *)
Mirrored(entry) ==
  CASE entry[1] = "added" -> <<"removed">> \o Tail(entry)
    [] entry[1] = "removed" -> <<"added">> \o Tail(entry)
    [] OTHER -> entry
DiffMirrors ==
  unit = "diff" /\ state.report # Missing =>
    Diff(state.right, state.left) = {Mirrored(e) : e \in state.report}

(* Assemblies with the same content in another order have no differences,   *)
(* and assemblies without differences have the same content: as far as      *)
(* their types name no definition of their module, which is compared by its *)
(* handle, and no type has two methods of one name and one number of        *)
(* parameters, of which only the last is compared.                          *)
NamesNoHandle(a) ==
  \A t \in Range(a.types) : \A m \in Range(t.methods) :
    /\ \A p \in Range(Append(m.params, m.return)) : p =< 0
    /\ m.body # Missing => \A x \in Range(m.body) : x =< 0
NoOverloads(a) ==
  \A t \in Range(a.types) : \A i, j \in DOMAIN t.methods :
    Overload(t.methods[i]) = Overload(t.methods[j]) => i = j
Content(a) ==
  [a EXCEPT !.refs = Range(@), !.resources = Range(@),
     !.types = {[t EXCEPT !.methods = Range(@), !.fields = Range(@)] : t \in Range(@)}]
DiffExact ==
  unit = "diff" /\ state.report # Missing /\ NoOverloads(state.left) /\ NoOverloads(state.right) =>
    /\ state.report = {} => Content(state.left) = Content(state.right)
    /\ Content(state.left) = Content(state.right) /\ NamesNoHandle(state.left) => state.report = {}
===============================================================================
