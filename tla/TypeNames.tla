------------------------------ MODULE TypeNames ------------------------------
(***************************************************************************)
(* Names of types as programs write them (type_parser.rs): namespace, name *)
(* and nested names, generic arguments, pointers, arrays, an assembly; and *)
(* references of one module made valid in another (importer.rs), with the  *)
(* arguments of generic instances put in the place of their parameters     *)
(* (substitution.rs).                                                      *)
(*                                                                         *)
(* A character is its code.  A type is a tree [op, data, kids]: "external" *)
(* has <<namespace, name, scope>> and, inside a type, that type; "instance"*)
(* its definition and arguments; "array" <<sizes, lower bounds>>.          *)
(***************************************************************************)
EXTENDS Workbench

CONSTANTS
  WrittenNames,   \* strings the parser is given
  NamedTypes,     \* types whose names it is given
  KnownScopes,    \* simple names, in lower case, of the assembly references
  ImportPairs,    \* [source, target, identity]
  Imported,       \* the references that are imported
  ImportCalls     \* calls in a behaviour

SPACE == 32
DOT == 46
COMMA == 44
OPEN == 91
CLOSE == 93
PLUS == 43
STAR == 42
AMP == 38
BACKSLASH == 92
ARITY == 96
COLON == 58
DELIMITERS == {PLUS, COMMA, OPEN, CLOSE, STAR, AMP}
IsDigit(c) == c \in 48..57
Moduleless == <<"moduleless">>

Type(op, data, kids) == [op |-> op, data |-> data, kids |-> kids]
At_(s, p) == IF p =< Len(s) THEN s[p] ELSE 0
Found(value, next) == [value |-> value, next |-> next]
NotFound == Found(Failed, 0)

RECURSIVE SkipSpace(_, _), Part(_, _, _), Until(_, _, _)
SkipSpace(s, p) == IF At_(s, p) = SPACE THEN SkipSpace(s, p + 1) ELSE p

(* Up to the next delimiter; a backslash lets any character in.             *)
Part(s, p, text) ==
  IF p > Len(s) \/ At_(s, p) \in DELIMITERS THEN Found(text, p)
  ELSE IF s[p] # BACKSLASH THEN Part(s, p + 1, Append(text, s[p]))
  ELSE IF p = Len(s) THEN Found(Append(text, BACKSLASH), p + 1)
  ELSE Part(s, p + 2, Append(text, s[p + 1]))

(* The first position from p on that holds one of the stops, or the end.    *)
Until(s, p, stops) == IF p > Len(s) \/ At_(s, p) \in stops THEN p ELSE Until(s, p + 1, stops)

Trim(s) ==
  LET ink == {i \in DOMAIN s : s[i] # SPACE}
  IN  IF ink = {} THEN <<>> ELSE SubSeq(s, Min(ink), Max(ink))
Last_(s, c) == LET at == {i \in DOMAIN s : s[i] = c} IN IF at = {} THEN 0 ELSE Max(at)
Digits(s) == s # <<>> /\ \A i \in DOMAIN s : IsDigit(s[i])
Value(s) == FoldLeft(LAMBDA acc, c : 10 * acc + (c - 48), 0, s)

(* The number after the last backquote, 0 without one.                      *)
Arity(name) ==
  LET suffix == SubSeq(name, Last_(name, ARITY) + 1, Len(name))
  IN  IF Last_(name, ARITY) = 0 \/ ~Digits(suffix) THEN 0 ELSE Value(suffix)

RECURSIVE NestedNames(_, _, _)
NestedNames(s, p, names) ==
  IF At_(s, p) # PLUS THEN Found(names, p)
  ELSE LET part == Part(s, p + 1, <<>>)
       IN  NestedNames(s, part.next, Append(names, Trim(part.value)))

-----------------------------------------------------------------------------
(* [] [*] [,] [0...] [0:5] [5]                                              *)

Number(s) ==
  IF Digits(s) THEN Value(s)
  ELSE IF s # <<>> /\ Digits(Tail(s)) /\ Head(s) \in {PLUS, 45}
  THEN (IF Head(s) = PLUS THEN 1 ELSE -1) * Value(Tail(s)) ELSE Failed
Optional(s) == IF s = <<>> THEN Missing ELSE Number(s)

(* <<lower bound, size>>; three dots after a number make it a lower bound.  *)
Dimension(token) ==
  LET colon == Min({i \in DOMAIN token : token[i] = COLON} \cup {Len(token) + 1})
      dots  == Len(token) - 2
  IN  IF token = <<>> THEN <<Missing, Missing>>
      ELSE IF colon =< Len(token)
      THEN <<Optional(Trim(SubSeq(token, 1, colon - 1))), Optional(Trim(SubSeq(token, colon + 1, Len(token))))>>
      ELSE IF dots > 0 /\ SubSeq(token, dots, Len(token)) = <<DOT, DOT, DOT>>
      THEN <<Number(Trim(SubSeq(token, 1, dots - 1))), Missing>>
      ELSE <<Missing, Number(token)>>

RECURSIVE Dimensions(_, _, _)
Dimensions(s, p, dims) ==
  LET stop == Until(s, p, {COMMA, CLOSE})
      all  == Append(dims, Dimension(Trim(SubSeq(s, p, stop - 1))))
  IN  IF At_(s, stop) = COMMA THEN Dimensions(s, stop + 1, all)
      ELSE IF stop > Len(s) \/ \E d \in Range(all) : Failed \in Range(d) THEN NotFound
      ELSE Found(Type("array", <<SelectSeq([i \in DOMAIN all |-> all[i][2]], LAMBDA x : x # Missing),
                                 SelectSeq([i \in DOMAIN all |-> all[i][1]], LAMBDA x : x # Missing)>>, <<>>),
                 stop + 1)

Spec_(s, p) ==
  CASE s[p] = STAR -> Found(Type("ptr", <<>>, <<>>), p + 1)
    [] s[p] = AMP  -> Found(Type("byref", <<>>, <<>>), p + 1)
    [] s[p] = OPEN /\ At_(s, p + 1) = CLOSE -> Found(Type("szarray", <<>>, <<>>), p + 2)
    [] s[p] = OPEN /\ At_(s, p + 1) = STAR ->
         IF At_(s, p + 2) = CLOSE THEN Found(Type("array", <<<<>>, <<>>>>, <<>>), p + 3) ELSE NotFound
    [] s[p] = OPEN /\ At_(s, p + 1) \notin {CLOSE, STAR} -> Dimensions(s, p + 1, <<>>)

RECURSIVE Specs_(_, _, _)
Specs_(s, p, specs) ==
  IF At_(s, p) \notin {STAR, AMP, OPEN} THEN Found(specs, p)
  ELSE LET one == Spec_(s, p)
       IN  IF one.value = Failed THEN NotFound ELSE Specs_(s, one.next, Append(specs, one.value))

-----------------------------------------------------------------------------
(* A mutation: the assembly is compared with regard to case.                *)
ResolveScopeExact(assembly, default) ==
  IF assembly = <<>> THEN default
  ELSE LET simple == Trim(SubSeq(assembly, 1, Until(assembly, 1, {COMMA}) - 1))
       IN  IF simple \in KnownScopes THEN <<"assembly", simple>> ELSE Moduleless

Lower(s) == [i \in DOMAIN s |-> IF s[i] \in 65..90 THEN s[i] + 32 ELSE s[i]]
ResolveScope(assembly, default) ==
  IF assembly = <<>> THEN default
  ELSE LET simple == Lower(Trim(SubSeq(assembly, 1, Until(assembly, 1, {COMMA}) - 1)))
       IN  IF simple \in KnownScopes THEN <<"assembly", simple>> ELSE Moduleless

(* The name, with each nested name inside the one before it, instantiated,  *)
(* and wrapped by the specs, the first innermost.                           *)
BuildType(fullName, nested, arguments, specs, scope) ==
  LET dot   == Last_(fullName, DOT)
      root  == Type("external", <<SubSeq(fullName, 1, dot - 1), SubSeq(fullName, dot + 1, Len(fullName)), scope>>, <<>>)
      named == FoldLeft(LAMBDA outer, name : Type("external", <<<<>>, name, scope>>, <<outer>>), root, nested)
      whole == IF arguments = Missing THEN named ELSE Type("instance", <<>>, <<named>> \o arguments)
  IN  FoldLeft(LAMBDA inner, spec : [spec EXCEPT !.kids = <<inner>>], whole, specs)

RECURSIVE ParseType(_, _, _, _), ParseArguments(_, _, _, _, _)

(* The stages of a type: name, nested names, arguments, specs, assembly.    *)
EndAssembly(s, from) == Until(s, from, {OPEN, CLOSE})
InAssembly(s, p) == Trim(SubSeq(s, SkipSpace(s, p), EndAssembly(s, p) - 1))
WithSpecs(s, name, nested, arguments, specs, qualified, default) ==
  IF specs.value = Failed THEN NotFound
  ELSE IF qualified /\ At_(s, specs.next) = COMMA
  THEN Found(BuildType(name, nested, arguments, specs.value, ResolveScope(InAssembly(s, specs.next + 1), default)),
             EndAssembly(s, specs.next + 1))
  ELSE Found(BuildType(name, nested, arguments, specs.value, default), specs.next)
WithArguments(s, name, nested, arguments, qualified, default) ==
  IF arguments.value = Failed THEN NotFound
  ELSE WithSpecs(s, name, nested, arguments.value, Specs_(s, arguments.next, <<>>), qualified, default)
StartOfArguments(s, p, arity) ==
  IF arity > 0 THEN [at |-> SkipSpace(s, p), arity |-> arity]
  ELSE [at |-> IF At_(s, p) = OPEN /\ At_(s, p + 1) = OPEN THEN p ELSE 0, arity |-> Missing]
GivenArguments(s, given, next, default) ==
  IF given.at = 0 THEN Found(Missing, next) ELSE ParseArguments(s, given.at, given.arity, default, <<>>)
WithNested(s, name, nested, qualified, default) ==
  WithArguments(s, name, nested.value,
    GivenArguments(s, StartOfArguments(s, nested.next, FoldLeft(LAMBDA acc, n : acc + Arity(n), Arity(name), nested.value)), nested.next, default),
    qualified, default)
WithName(s, name, next, qualified, default) ==
  IF name = <<>> \/ SPACE \in Range(name) THEN NotFound
  ELSE WithNested(s, name, NestedNames(s, next, <<>>), qualified, default)
Started(s, part, qualified, default) == WithName(s, Trim(part.value), part.next, qualified, default)
ParseType(s, p, qualified, default) == Started(s, Part(s, SkipSpace(s, p), <<>>), qualified, default)

(* After an argument, with or without brackets of its own, comes the next   *)
(* one or the end; at p is the bracket or the comma before the next.        *)
Onwards(s, all, after, arity, default) ==
  IF arity # Missing /\ Len(all) < arity THEN
    IF At_(s, after) = COMMA THEN ParseArguments(s, after, arity, default, all) ELSE NotFound
  ELSE IF arity = Missing /\ At_(s, after) = COMMA THEN ParseArguments(s, after, arity, default, all)
  ELSE IF At_(s, after) = CLOSE THEN Found(all, after + 1) ELSE NotFound
OneMore(s, one, bracketed, arity, default, arguments) ==
  IF one.value = Failed THEN NotFound
  ELSE IF bracketed /\ At_(s, one.next) # CLOSE THEN NotFound
  ELSE Onwards(s, Append(arguments, one.value), SkipSpace(s, IF bracketed THEN one.next + 1 ELSE one.next), arity, default)
ArgumentAt(s, at, arity, default, arguments) ==
  OneMore(s, ParseType(s, IF At_(s, at) = OPEN THEN at + 1 ELSE at, At_(s, at) = OPEN, default), At_(s, at) = OPEN,
          arity, default, arguments)
ParseArguments(s, p, arity, default, arguments) ==
  IF arguments = <<>> /\ At_(s, p) # OPEN THEN NotFound
  ELSE ArgumentAt(s, SkipSpace(s, p + 1), arity, default, arguments)

(* Nothing may be left over.                                                *)
Whole(s, type) == IF type.next = Len(s) + 1 THEN type.value ELSE Failed
ParseTypeName(string, default) ==
  IF Trim(string) = <<>> THEN Failed ELSE Whole(Trim(string), ParseType(Trim(string), 1, TRUE, default))

-----------------------------------------------------------------------------
TypeNamesInit ==
  /\ unit = "names"
  /\ \/ \E s \in WrittenNames : state = [name |-> s, type |-> Missing, parsed |-> Missing]
     \/ \E t \in NamedTypes : state = [name |-> t.name, type |-> t.type, parsed |-> Missing]

ParseName ==
  /\ state.parsed = Missing
  /\ state' = [state EXCEPT !.parsed = ParseTypeName(state.name, Moduleless)]

TypeNamesNext == unit = "names" /\ UNCHANGED unit /\ ParseName

-----------------------------------------------------------------------------
(* The grammar, by what it derives: names a type goes by.                   *)
Escaped(name) ==
  FlattenSeq([i \in DOMAIN name |-> IF name[i] \in DELIMITERS \cup {BACKSLASH} THEN <<BACKSLASH, name[i]>> ELSE <<name[i]>>])
Joined(parts, separator) ==
  FlattenSeq([i \in DOMAIN parts |-> IF i = 1 THEN parts[i] ELSE <<separator>> \o parts[i]])
RECURSIVE Numeral(_)
Numeral(n) ==
  IF n < 0 THEN <<45>> \o Numeral(-n)
  ELSE IF n < 10 THEN <<48 + n>> ELSE Numeral(n \div 10) \o <<48 + (n % 10)>>
Bounds(t) ==
  LET rank == Max({1, Len(t.data[1]), Len(t.data[2])})
      dim(i) == IF i =< Len(t.data[2])
                THEN Numeral(t.data[2][i]) \o (IF i =< Len(t.data[1]) THEN <<COLON>> \o Numeral(t.data[1][i]) ELSE <<DOT, DOT, DOT>>)
                ELSE IF i =< Len(t.data[1]) THEN Numeral(t.data[1][i]) ELSE <<>>
  IN  IF t.data = <<<<>>, <<>>>> THEN <<STAR>> ELSE Joined([i \in 1..rank |-> dim(i)], COMMA)

RECURSIVE NameOfType(_), QualifiedName(_), ScopeOfType(_)
NameOfType(t) ==
  CASE t.op = "external" /\ t.kids = <<>> ->
         (IF t.data[1] = <<>> THEN <<>> ELSE Escaped(t.data[1]) \o <<DOT>>) \o Escaped(t.data[2])
    [] t.op = "external" /\ t.kids # <<>> -> NameOfType(t.kids[1]) \o <<PLUS>> \o Escaped(t.data[2])
    [] t.op = "instance" ->
         NameOfType(t.kids[1]) \o <<OPEN>>
           \o Joined([i \in 1..(Len(t.kids) - 1) |-> <<OPEN>> \o QualifiedName(t.kids[i + 1]) \o <<CLOSE>>], COMMA)
           \o <<CLOSE>>
    [] t.op = "ptr" -> NameOfType(t.kids[1]) \o <<STAR>>
    [] t.op = "byref" -> NameOfType(t.kids[1]) \o <<AMP>>
    [] t.op = "szarray" -> NameOfType(t.kids[1]) \o <<OPEN, CLOSE>>
    [] t.op = "array" -> NameOfType(t.kids[1]) \o <<OPEN>> \o Bounds(t) \o <<CLOSE>>
ScopeOfType(t) == IF t.op = "external" THEN t.data[3] ELSE ScopeOfType(t.kids[1])
QualifiedName(t) ==
  NameOfType(t) \o (IF ScopeOfType(t) = Moduleless THEN <<>> ELSE <<COMMA, SPACE>> \o ScopeOfType(t)[2])

(* A lone dot is accepted, as a type without a name.                        *)
RECURSIVE HasName(_)
HasName(t) == (t.op = "external" => t.data[2] # <<>>) /\ \A i \in DOMAIN t.kids : HasName(t.kids[i])

(* A name parses as the type it names, however deep its arguments, its      *)
(* nesting and its arrays, whatever the case of its assembly's name; and    *)
(* whatever string is accepted, it parses as the type whose name its own    *)
(* type's name is again: nothing was left out.                              *)
NamesReadBack ==
  unit = "names" /\ state.parsed # Missing =>
    IF state.type # Missing THEN state.parsed = state.type
    ELSE IF state.parsed = Failed THEN TRUE
    ELSE HasName(state.parsed) => ParseTypeName(QualifiedName(state.parsed), Moduleless) = state.parsed

-----------------------------------------------------------------------------
(* Importing.  Here "def" has a handle, "var" and "mvar" a position, and an *)
(* external type holds its ancestors, outermost first.  A member reference  *)
(* is "method" or "field" with its name: its parent, then the types of its  *)
(* signature.  A module is [name, types, members, refs]: a type [ns, name,  *)
(* outer], a member [owner, name, sig].                                     *)

Identity(ref) == [name |-> ref.name, version |-> ref.version, key |-> ref.key]
Result(value, refs) == [value |-> value, refs |-> refs]
ThisModule == <<"this">>
First_(positions) == IF positions = {} THEN 0 ELSE Min(positions)

RECURSIVE ChainFrom(_, _, _)
ChainFrom(module, i, hops) ==
  (IF module.types[i].outer # 0 /\ hops =< Len(module.types)
   THEN ChainFrom(module, module.types[i].outer, hops + 1) ELSE <<>>)
    \o <<<<module.types[i].ns, module.types[i].name>>>>
DeclaringChain(module, i) == ChainFrom(module, i, 0)

(* The first type of the target with the same chain of names.               *)
FindMatching(world, i) ==
  First_({k \in DOMAIN world.target.types : DeclaringChain(world.target, k) = DeclaringChain(world.source, i)})

(* A mutation: any version of the assembly will do.                         *)
MatchOrAppendByName(refs, ref) ==
  IF \E k \in DOMAIN refs : refs[k].name = ref.name
  THEN Result(<<"assembly", refs[CHOOSE k \in DOMAIN refs : refs[k].name = ref.name]>>, refs)
  ELSE Result(<<"assembly", ref>>, Append(refs, ref))

Matched(refs, ref, k) ==
  IF k = 0 THEN Result(<<"assembly", ref>>, Append(refs, ref)) ELSE Result(<<"assembly", refs[k]>>, refs)

(* The target's own reference to an assembly, added when there is none.     *)
MatchOrAppend(refs, ref) ==
  Matched(refs, ref, First_({k \in DOMAIN refs : Identity(refs[k]) = Identity(ref)}))

NamedScope(refs, k) == IF k = 0 THEN Moduleless ELSE <<"assembly", refs[k]>>
SourceLocalScope(world, refs) ==
  IF world.identity # Missing THEN MatchOrAppend(refs, world.identity)
  ELSE Result(NamedScope(refs, First_({k \in DOMAIN refs : refs[k].name = world.source.name})), refs)

Rescoped(world, refs, scope) ==
  IF scope = ThisModule THEN SourceLocalScope(world, refs)
  ELSE IF scope[1] = "assembly" THEN MatchOrAppend(refs, scope[2]) ELSE Result(scope, refs)

(* Ancestors first, then the type; they all end in the type's scope.        *)
RescopeAncestors(world, refs, ancestors) ==
  FoldLeft(LAMBDA acc, a : Rescoped(world, acc, a.data[3]).refs, refs, ancestors)
WithScope(type, scoped) ==
  Result([type EXCEPT !.data = [@ EXCEPT ![3] = scoped.value],
                      !.kids = [k \in DOMAIN @ |-> [@[k] EXCEPT !.data = [@ EXCEPT ![3] = scoped.value]]]],
         scoped.refs)
RebuildExternal(world, refs, type) ==
  WithScope(type, Rescoped(world, RescopeAncestors(world, refs, type.kids), type.data[3]))

(* A definition of the source: the target's of the same name, or a          *)
(* reference to it by its chain.                                            *)
ByChain(chain, scoped) ==
  LET link(k) == Type("external", <<chain[k][1], chain[k][2], scoped.value>>, <<>>)
  IN  Result([link(Len(chain)) EXCEPT !.kids = [k \in 1..(Len(chain) - 1) |-> link(k)]], scoped.refs)
ImportDef(world, refs, i) ==
  IF FindMatching(world, i) # 0 THEN Result(Type("def", <<FindMatching(world, i)>>, <<>>), refs)
  ELSE ByChain(DeclaringChain(world.source, i), SourceLocalScope(world, refs))

RECURSIVE ImportType(_, _, _)
ImportAll(world, refs, types) ==
  FoldLeft(LAMBDA acc, t : LET one == ImportType(world, acc.refs, t)
                           IN  Result(Append(acc.value, one.value), one.refs),
           Result(<<>>, refs), types)
WithKids(type, kids) == Result([type EXCEPT !.kids = kids.value], kids.refs)
ImportType(world, refs, type) ==
  CASE type.op = "def" -> ImportDef(world, refs, type.data[1])
    [] type.op = "external" -> RebuildExternal(world, refs, type)
    [] type.op \notin {"def", "external"} -> WithKids(type, ImportAll(world, refs, type.kids))

(* A member definition becomes a reference with its parent and signature;   *)
(* a field's owner is searched for, a method knows its own.                 *)
OwnerOfField(world, id) ==
  First_({i \in DOMAIN world.source.types : id \in world.source.types[i].fields})
ParentOf(world, ref) ==
  IF ref.op = "methodDef" THEN Type("def", <<world.source.members[ref.data[1]].owner>>, <<>>)
  ELSE IF OwnerOfField(world, ref.data[1]) # 0 THEN Type("def", <<OwnerOfField(world, ref.data[1])>>, <<>>)
  ELSE Type("external", <<<<>>, <<>>, ThisModule>>, <<>>)
ImportReference(world, refs, ref) ==
  IF ref.op \in {"methodDef", "fieldDef"}
  THEN ImportType(world, refs,
         Type("member", <<world.source.members[ref.data[1]].name>>,
              <<ParentOf(world, ref)>> \o world.source.members[ref.data[1]].sig))
  ELSE ImportType(world, refs, ref)

-----------------------------------------------------------------------------
(* Parameters of the definition that have an argument are replaced.         *)

(* A mutation: an argument that is a parameter is replaced again.           *)
SubstituteAgain(type, positions, arguments) ==
  IF type.data[1] \notin positions \/ type.data[1] >= Len(arguments) THEN type
  ELSE IF arguments[type.data[1] + 1].op = "var" /\ arguments[type.data[1] + 1].data[1] < Len(arguments)
  THEN arguments[arguments[type.data[1] + 1].data[1] + 1] ELSE arguments[type.data[1] + 1]

Argument_(type, positions, arguments) ==
  IF type.data[1] \in positions /\ type.data[1] < Len(arguments) THEN arguments[type.data[1] + 1] ELSE type

RECURSIVE Substitute(_, _, _)
Substitute(type, positions, arguments) ==
  IF type.op = "var" THEN Argument_(type, positions, arguments)
  ELSE IF type.op \in {"def", "external"} THEN type
  ELSE [type EXCEPT !.kids = [k \in DOMAIN @ |-> Substitute(@[k], positions, arguments)]]

-----------------------------------------------------------------------------
ImportsInit ==
  /\ unit = "imports"
  /\ \E w \in ImportPairs : state = [world |-> w, refs |-> w.target.refs, done |-> <<>>]

Import(ref) ==
  /\ Len(state.done) < ImportCalls
  /\ \E result \in {ImportReference(state.world, state.refs, ref)} :
       state' = [state EXCEPT !.refs = result.refs, !.done = Append(@, <<ref, result.value>>)]

ImportsNext == unit = "imports" /\ UNCHANGED unit /\ \E ref \in Imported : Import(ref)

-----------------------------------------------------------------------------
(* What a reference denotes: the assembly it leads to and the path of names *)
(* in it.  A name the target defines is the target's; without an identity   *)
(* the source is known by its name.                                         *)
Path(type) == Append([k \in DOMAIN type.kids |-> <<type.kids[k].data[1], type.kids[k].data[2]>>],
                     <<type.data[1], type.data[2]>>)
SourceItself(world) ==
  IF world.identity # Missing THEN Identity(world.identity)
  ELSE IF \E r \in Range(state.refs) : r.name = world.source.name THEN world.source.name ELSE Moduleless
ScopeItself(world, scope, home) ==
  IF scope = ThisModule THEN home
  ELSE IF scope[1] # "assembly" THEN scope
  ELSE IF world.identity = Missing /\ scope[2].name = world.source.name THEN scope[2].name ELSE Identity(scope[2])

RECURSIVE Denotes(_, _, _, _)
Denotes(world, type, module, home) ==
  CASE type.op = "def" ->
         LET chain == DeclaringChain(module, type.data[1])
         IN  IF \E k \in DOMAIN world.target.types : DeclaringChain(world.target, k) = chain
             THEN <<"target", chain>> ELSE <<home, chain>>
    [] type.op = "external" -> <<ScopeItself(world, type.data[3], home), Path(type)>>
    [] type.op \notin {"def", "external"} ->
         <<type.op, type.data, [k \in DOMAIN type.kids |-> Denotes(world, type.kids[k], module, home)]>>

(* To substitute twice is to substitute in the arguments, once.             *)
Ground_ == <<Type("def", <<1>>, <<>>), Type("def", <<2>>, <<>>), Type("def", <<3>>, <<>>)>>
Twice_(type, by) ==
  Substitute(Substitute(type, 0..2, <<by, type, type>>), 0..2, Ground_)
    = Substitute(type, 0..2, <<Substitute(by, 0..2, Ground_), Substitute(type, 0..2, Ground_), Substitute(type, 0..2, Ground_)>>)

(* An imported reference denotes in the target what it denoted in the       *)
(* source; the assemblies it needs are there, once each and after those     *)
(* that were there; and it is the same to import an instance of a generic   *)
(* type and to instantiate the imported one with the imported arguments.    *)
Scopes_(type) == IF type.op = "external" THEN {type.data[3]} ELSE {}
RECURSIVE AllScopes(_)
AllScopes(type) == Scopes_(type) \cup UNION {AllScopes(type.kids[k]) : k \in DOMAIN type.kids}
Alone_(type) == ImportType(state.world, state.refs, type).value
ImportsKept ==
  unit = "imports" =>
    /\ state.world.target.refs = SubSeq(state.refs, 1, Len(state.world.target.refs))
    /\ \A i, j \in DOMAIN state.refs : Identity(state.refs[i]) = Identity(state.refs[j]) =>
         i = j \/ {i, j} \subseteq DOMAIN state.world.target.refs
    /\ \A d \in Range(state.done) :
         /\ \A s \in AllScopes(d[2]) : s # ThisModule /\ (s[1] = "assembly" => s[2] \in Range(state.refs))
         /\ d[1].op \notin {"methodDef", "fieldDef"} /\ state.world.identity # Missing =>
              Denotes(state.world, d[2], state.world.target, "target")
                = Denotes(state.world, d[1], state.world.source, SourceItself(state.world))
    /\ \A d, e \in Range(state.done) :
         {d[1].op, e[1].op} \cap {"methodDef", "fieldDef"} = {} =>
           /\ Alone_(Substitute(d[1], {0, 2}, <<e[1], e[1]>>)) = Substitute(d[2], {0, 2}, <<e[2], e[2]>>)
           /\ Twice_(d[1], e[1])
=============================================================================
