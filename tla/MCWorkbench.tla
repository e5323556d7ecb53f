----------------------------- MODULE MCWorkbench -----------------------------
(* Inputs for the parts of the workbench, and their composition: one part is
   at work in a behaviour. *)
EXTENDS References, Signatures, IlBodies, Analyses,
        TypeNames, Attributes, MsfFiles, CodeViewSymbols, NativePdbFiles,
        MdbFiles, PortablePdbFiles, ModuleSymbols, Marshalling, PermissionSets,
        MetadataFiles, ImageFiles

(* Files of references. *)
TypeRef(name, scope) == [name |-> name, scope |-> scope]
In(marker, table, r) == <<marker, <<table, r>>>>
Element(wraps, leaf) == [wraps |-> wraps, leaf |-> leaf]
Member(parent, name, kind, type) == [parent |-> parent, name |-> name, kind |-> kind, type |-> type]
TypeDef(methodList, interface, base) ==
  [methodList |-> methodList, interface |-> interface, base |-> base]
Asm(i) == <<"AssemblyRef", i>>
Inside(r) == <<"TypeRef", r>>

EmptyFile ==
  [modules |-> <<"M", "N">>, moduleRefs |-> <<"R">>, assemblyRefs |-> <<"A", "B", "A">>,
   types |-> <<TypeDef(1, FALSE, <<"none">>), TypeDef(2, FALSE, <<"System.ValueType">>)>>,
   methods |-> 2, wellKnown |-> {"Int32"},
   typeRefs |-> <<>>, typeSpecs |-> <<>>, memberRefs |-> <<>>, methodSpecs |-> <<>>]

(* Chains of scopes, some cyclic, some longer than the reader follows. *)
Scopes == {Asm(1), Asm(3), <<"nil", 0>>, Inside(1), Inside(2), Inside(3), Inside(4)}
Chains == {[EmptyFile EXCEPT !.typeRefs = <<TypeRef("a", p), TypeRef("b", q), TypeRef("a", r),
                                            TypeRef("c", s)>>] :
             p, q \in Scopes, r \in {Asm(2), Inside(2), Inside(4)}, s \in {Asm(1), Inside(3), <<"Module", 2>>}}

(* Specifications that name each other, and members that name them. *)
Three == <<TypeRef("a", Asm(1)), TypeRef("Int32", Inside(1)), TypeRef("b", <<"ModuleRef", 1>>)>>
ElementLeaves == {<<"i4">>, In("class", "TypeRef", 2), In("value", "TypeRef", 1), In("class", "TypeRef", 1),
           In("value", "TypeDef", 2), In("class", "TypeSpec", 1), In("class", "TypeSpec", 2)}
Specs == {[EmptyFile EXCEPT !.typeRefs = Three,
             !.typeSpecs = <<Element(w1, l1), Element(w2, l2)>>] :
            w1 \in 0..2, w2 \in 0..1, l1 \in ElementLeaves, l2 \in ElementLeaves}
Members == {[EmptyFile EXCEPT !.typeRefs = Three,
               !.typeSpecs = <<Element(1, l), Element(0, In("class", "TypeSpec", 1))>>,
               !.memberRefs = <<Member(p, "m", "method", Element(0, In("class", "TypeRef", 1))),
                                Member(p, "m", k, Element(w, In("value", "TypeRef", 1)))>>,
               !.methodSpecs = <<[method |-> <<"MemberRef", 2>>, argument |-> Element(0, l)],
                                 [method |-> <<"MethodDef", 2>>, argument |-> Element(1, l)]>>] :
              p \in {<<"MethodDef", 2>>, <<"TypeDef", 1>>, <<"TypeRef", 3>>, <<"ModuleRef", 1>>,
                     <<"TypeSpec", 2>>, <<"nil", 0>>},
              k \in {"field", "method"}, w \in 0..2, l \in {<<"i4">>, In("value", "TypeRef", 1)}}
MCReferenceFiles == Chains \cup Specs \cup Members

-----------------------------------------------------------------------------
(* Blobs of signatures: every short string of some bytes. *)
Strings(bytes, n) == UNION {[1..k -> bytes] : k \in 1..n}
Blobs(kind, prefixes, bytes, n) ==
  {[kind |-> kind, bytes |-> p \o b] : p \in prefixes, b \in Strings(bytes, n)}
MCSignatureBlobs ==
  Blobs("type", {<<>>}, {8, 17, 18, 19, 21, 29, 32, 65, 69, 4, 1}, 3)
    \cup Blobs("type", {<<20, 8>>, <<20, 29, 8>>}, {0, 1, 2}, 5)
    \cup Blobs("type", {<<21, 17>>, <<21, 18, 4>>, <<21, 18, 5, 2>>}, {1, 4, 8, 18, 29}, 3)
    \cup Blobs("type", {<<27>>}, {0, 1, 5, 8, 65}, 4)
    \cup Blobs("method", {<<c>> : c \in {0, 5, 6, 16, 32, 37, 48, 64}}, {1, 2, 8, 65}, 4)
    \cup Blobs("method", {<<5, 2>>, <<101, 3, 1>>}, {8, 65, 29}, 4)
    \cup Blobs("locals", {<<7>>}, {0, 1, 2, 8, 69}, 4)
    \cup Blobs("property", {<<8>>, <<40>>, <<104>>, <<72>>, <<9>>}, {0, 1, 8, 65}, 3)
    \cup Blobs("field", {<<6>>, <<7>>}, {8, 18, 4, 32}, 3)

-----------------------------------------------------------------------------
(* Images of bodies: the opcodes used, and an assembler of their streams.   *)
MCShapes ==
  (0 :> "none" @@ 17 :> "var1" @@ 31 :> "i1" @@ 33 :> "i8" @@ 43 :> "br1" @@ 56 :> "br4"
   @@ 69 :> "switch" @@ 40 :> "method" @@ 41 :> "sig" @@ 123 :> "field" @@ 141 :> "type"
   @@ 208 :> "tok" @@ 65025 :> "none" @@ 65036 :> "var2")
BodyRows ==
  (1 :> <<"type", "garbage", "type">> @@ 2 :> <<"type", "type">> @@ 4 :> <<"field", "field">>
   @@ 6 :> <<"method", "method", "method">> @@ 10 :> <<"field", "method", "garbage">>
   @@ 17 :> <<"method", "locals", "others">> @@ 27 :> <<"type">> @@ 43 :> <<"method">>)
BodyOrder == (4 :> <<2, 1>> @@ 6 :> <<3, 1, 2>>)
BodyFile(images, rvas, authored) ==
  LET At(i) == FoldLeft(LAMBDA n, j : n + Align4(Len(images[j])), 1, [j \in 1..(i - 1) |-> j])
  IN  [stream |-> FlattenSeq([i \in DOMAIN images |->
                    images[i] \o Zeros(Align4(Len(images[i])) - Len(images[i]))]),
       methods |-> [m \in DOMAIN rvas |-> IF rvas[m] = 0 THEN 0 ELSE At(rvas[m])],
       authored |-> authored, rows |-> BodyRows, order |-> BodyOrder]
Tiny(code) == <<4 * Len(code) + 2>> \o code
Fat(dwords, flags, stack, code, locals) ==
  <<3 + flags, 16 * dwords>> \o Wide(stack, 2) \o Wide(Len(code), 4) \o Wide(locals, 4)
    \o Zeros(4 * dwords - 12) \o code
Guarded(code, sections) ==
  LET body == Fat(3, 8, 1, code, 0) IN body \o Zeros(Align4(Len(body)) - Len(body)) \o sections
FatSection(flags, extra, clauses) ==
  <<65 + flags>> \o Wide(24 * Len(clauses) + extra, 3) \o FlattenSeq([k \in DOMAIN clauses |->
    FlattenSeq([f \in 1..6 |-> Wide(clauses[k][f], 4)])])
SmallSection(flags, extra, clauses) ==
  <<1 + flags, 12 * Len(clauses) + extra, 0, 0>> \o FlattenSeq([k \in DOMAIN clauses |->
    LET c == clauses[k] IN Wide(c[1], 2) \o Wide(c[2], 2) \o <<c[3]>> \o Wide(c[4], 2) \o <<c[5]>> \o Wide(c[6], 4)])

Branches == <<43, 0, 0, 43, 251, 56, -10, 0, 0, 0, 254, 1>>
Switches == <<0, 69, 2, 0, 0, 0, -14, 0, 0, 0, 1, 0, 0, 0, 0, 17, 255>>
TokensMet == {101, 102, 103, 201, 203, 401, 402, 403, 601, 602, 1001, 1002, 1003, 1701, 1702, 1704, 2701, 4301, 9901}
TokenFiles ==
  {BodyFile(<<Tiny(<<op>> \o Wide(t, 4) \o <<208>> \o Wide(u, 4))>>, <<1>>, <<>>) :
     op \in {40, 41, 123, 141, 208}, t \in TokensMet, u \in {103, 1002, 402}}
ClauseFiles ==
  {BodyFile(<<Guarded(Zeros(n), FatSection(0, 4, <<<<kind, a, b, c, d, e>>>>))>>, <<1>>, <<>>) :
     n \in {4, 5}, kind \in {0, 1, 2}, a \in {0, 65536}, b \in {255, 256}, c \in {65535, 65536},
     d \in {255, 256}, e \in {0, 103, 65536}}
  \cup {BodyFile(<<Guarded(<<0>>, s)>>, <<1>>, <<>>) :
     s \in {FatSection(128, 4, <<<<2, 0, 1, 1, 1, 0>>>>) \o SmallSection(0, 0, <<<<4, 0, 1, 2, 1, 0>>>>),
             SmallSection(128, 4, <<<<0, 3, 1, 4, 1, 103>>, <<2, 0, 1, 2, 1, 0>>>>) \o FatSection(0, 0, <<<<1, 0, 1, 1, 1, 7>>>>),
             SmallSection(0, 3, <<<<2, 0, 1, 1, 1, 0>>>>), SmallSection(0, 4, <<<<3, 0, 1, 1, 1, 0>>>>),
             SmallSection(0, 4, [k \in 1..20 |-> <<2, 20 - k, 1, 30 + k, 1, 0>>]),
             FatSection(0, 4, [k \in 1..21 |-> <<2, k % 3, 1, 30 - k, 1, 0>>])}}
Pieces == <<Tiny(Branches), Tiny(Zeros(63)), Fat(3, 0, 8, Zeros(64), 0), Fat(4, 16, 9, Switches, 1702),
            Fat(3, 0, 3, <<>>, 1703), Fat(3, 0, 3, <<0>>, 1701), <<7>>,
            Guarded(Switches, SmallSection(0, 4, <<<<0, 0, 1, 1, 1, 2701>>>>)), Tiny(<<>>)>>
LayoutFiles ==
  {BodyFile([i \in 1..3 |-> Pieces[p[i]]], r, a) :
     p \in [1..3 -> {1, 4, 5, 7, 8}] \cup [1..3 -> {2, 3, 6, 9}],
     r \in {<<3, 1, 2, 1>>, <<2, 3, 1, 1>>, <<1, 0, 3, 1>>, <<1, 1, 3, 2>>},
     a \in {<<>>, <<Body(8, FALSE, "none", <<Instr(0, "none", <<>>)>>, <<>>)>>}}
MCBodyFiles == TokenFiles \cup ClauseFiles \cup LayoutFiles

-----------------------------------------------------------------------------
(* Bodies of four methods; two of them name up to two methods.              *)
CalledUpTo(n) == UNION {[1..k -> 1..4] : k \in 0..n}
MCCallModules == {<<a, b, c, d>> : a, c \in CalledUpTo(2), b, d \in CalledUpTo(1)}

-----------------------------------------------------------------------------
(* Modules that use themselves directly, through generic instances of their *)
(* own types, and through an external type of the same full name; the first *)
(* type has one or two methods m, which differ in shape.                    *)
MCFullNames == (1 :> "A" @@ 2 :> "B" @@ -1 :> "X" @@ -2 :> "X/Y" @@ -3 :> "A")
MCOuterOf == (-1 :> <<>> @@ -2 :> <<-1>> @@ -3 :> <<>>)
ToDef(d) == [def |-> d, parent |-> <<1>>, name |-> "", shape |-> 0, sig |-> <<>>, args |-> <<>>]
Spelling(parent, name, shape) ==
  [def |-> 0, parent |-> parent, name |-> name, shape |-> shape, sig |-> <<-1>>, args |-> <<2>>]
Use(op, ref) == [op |-> op, ref |-> ref]
Uses ==
  {Use("call", ToDef(2)), Use("newobj", ToDef(3)), Use("call", Spelling(<<1, 2>>, "n", 0)),
   Use("call", Spelling(<<1, 2>>, "m", 0)), Use("call", Spelling(<<-3>>, "m", 0)),
   Use("ldfld", ToDef(1)), Use("stfld", Spelling(<<1, -2>>, "f", 0)),
   Use("ldflda", Spelling(<<2>>, "f", 0)), Use("box", [ToDef(0) EXCEPT !.sig = <<2, -2>>])}
MCUsageModules ==
  {[types |-> <<[base |-> base, methods |-> <<1, 2>>, fields |-> <<1>>],
                [base |-> <<>>, methods |-> <<3>>, fields |-> <<2>>]>>,
    fields |-> <<[name |-> "f", type |-> <<2>>, constant |-> FALSE],
                 [name |-> "f", type |-> <<-2>>, constant |-> base = <<>>]>>,
    methods |-> <<[name |-> "m", shape |-> 1, sig |-> <<-1, 1>>, body |-> b1, traits |-> {"visible"}],
                  [name |-> second, shape |-> 0, sig |-> <<>>, body |-> b2, traits |-> {}],
                  [name |-> "n", shape |-> 0, sig |-> <<>>, body |-> b3, traits |-> {"virtual"}]>>,
    policy |-> policy, extra |-> {}] :
     base \in {<<>>, <<2, -2>>}, second \in {"m", "n"}, policy \in {{"visible"}, {"virtual"}},
     b1 \in {<<u, v>> : u, v \in Uses}, b2 \in {<<u>> : u \in Uses}, b3 \in {<<>>, <<Use("call", ToDef(1))>>}}

-----------------------------------------------------------------------------
(* Pairs of assemblies, one member apart or reordered.                      *)
DiffMethods ==
  {[name |-> n, params |-> p, return |-> 0, body |-> b] :
     n \in {"m", "n"}, p \in {<<>>, <<-1>>, <<2>>}, b \in {Missing, <<>>, <<-3, 1>>}}
DiffType1(methods, fields, attributes) ==
  [name |-> "A", methods |-> methods, fields |-> fields, attributes |-> attributes]
DiffBase ==
  [name |-> "a", version |-> 1, key |-> 1, resources |-> <<"r">>,
   refs |-> <<[name |-> "x", version |-> 1], [name |-> "y", version |-> 1]>>, types |-> <<>>]
Small(m, n) ==
  {[DiffBase EXCEPT !.types = <<DiffType1(<<m, n>>, <<"f", "g">>, 0), [DiffType1(<<>>, <<>>, 1) EXCEPT !.name = "B"]>>],
   [DiffBase EXCEPT !.types = <<[DiffType1(<<>>, <<>>, 1) EXCEPT !.name = "B"], DiffType1(<<n, m>>, <<"g", "f">>, 0)>>],
   [DiffBase EXCEPT !.types = <<DiffType1(<<n>>, <<"g">>, 1)>>, !.key = 2,
      !.refs = <<[name |-> "y", version |-> 2], [name |-> "x", version |-> 1]>>],
   [DiffBase EXCEPT !.types = <<DiffType1(<<m>>, <<"g">>, 0)>>, !.version = 2, !.resources = <<"s">>, !.refs = <<>>]}
MCCompared ==
  UNION {Small(m, n) \X Small(m, o) : m \in DiffMethods, n \in {k \in DiffMethods : k.name = "n"},
                                      o \in {k \in DiffMethods : k.body # Missing}}

-----------------------------------------------------------------------------
(* Strings of the characters of names, and the names of some types.         *)
MCKnownScopes == {<<97>>}
NameTails == Strings({65, COMMA, OPEN, CLOSE, 49, COLON, DOT, SPACE}, 3)
MCWrittenNames ==
  Strings({65, 49, DOT, PLUS, COMMA, OPEN, CLOSE, STAR, ARITY, BACKSLASH, SPACE}, 3)
    \cup {p \o t : p \in {<<65, OPEN>>, <<65, ARITY, 49, OPEN>>, <<65, OPEN, OPEN, 65>>, <<65, OPEN, 49>>},
                   t \in NameTails}
NamedRoots(scope) ==
  {Type("external", <<ns, n, scope>>, <<>>) : ns \in {<<>>, <<78, DOT, 77>>}, n \in {<<66>>, <<66, PLUS, COMMA>>}}
NestedIn(outers, names) ==
  {Type("external", <<<<>>, n, o.data[3]>>, <<o>>) : o \in outers, n \in names}
Heads(scope) == NamedRoots(scope) \cup NestedIn(NamedRoots(scope), {<<67>>})
                  \cup NestedIn(NestedIn(NamedRoots(scope), {<<67>>}), {<<68, BACKSLASH>>})
Open1(scope) ==
  {Type("external", <<<<78>>, <<71, ARITY, 49>>, scope>>, <<>>)}
    \cup NestedIn({Type("external", <<<<>>, <<71>>, scope>>, <<>>)}, {<<72, ARITY, 49>>})
SpecOf(types) ==
  {Type(op, <<>>, <<t>>) : op \in {"ptr", "byref", "szarray"}, t \in types}
    \cup {Type("array", d, <<t>>) : d \in {<<<<>>, <<>>>>, <<<<5, 3>>, <<-1>>>>, <<<<2>>, <<0, 1>>>>}, t \in types}
Arguments_ == Heads(<<"assembly", <<97>>>>) \cup SpecOf(NamedRoots(Moduleless))
Instances(args) ==
  {Type("instance", <<>>, <<d, a>>) : d \in Open1(Moduleless), a \in args}
    \cup {Type("instance", <<>>, <<d, a, b>>) : d \in NamedRoots(Moduleless), a \in args, b \in {Type("external", <<<<>>, <<69>>, Moduleless>>, <<>>)}}
TypesNamed == Heads(Moduleless) \cup SpecOf(Heads(<<"assembly", <<97>>>>)) \cup Instances(Arguments_)
                \cup SpecOf(SpecOf(NamedRoots(Moduleless))) \cup SpecOf(Instances(SpecOf(NamedRoots(<<"assembly", <<97>>>>))))
MCNamedTypes ==
  {[name |-> QualifiedName(t), type |-> t] : t \in TypesNamed}
    \cup {[name |-> NameOfType(t) \o <<COMMA, SPACE, 65, COMMA, SPACE, 86>>, type |-> t] : t \in Heads(<<"assembly", <<97>>>>)}

-----------------------------------------------------------------------------
(* Two modules that share some names, and references of the first.          *)
AsmRef(name, version, hash) == [name |-> name, version |-> version, key |-> 0, hash |-> hash]
TypeRow(ns, name, outer, fields) == [ns |-> ns, name |-> name, outer |-> outer, fields |-> fields]
ImportSource ==
  [name |-> "s", refs |-> <<>>,
   types |-> <<TypeRow("n", "A", 0, {}), TypeRow("", "B", 1, {2}), TypeRow("n", "B", 0, {}), TypeRow("", "C", 2, {})>>,
   members |-> <<[owner |-> 2, name |-> "m", sig |-> <<Type("def", <<4>>, <<>>), Type("var", <<0>>, <<>>)>>],
                 [owner |-> 2, name |-> "f", sig |-> <<Type("def", <<3>>, <<>>)>>],
                 [owner |-> 0, name |-> "g", sig |-> <<Type("def", <<1>>, <<>>)>>]>>]
ImportTypes == {<<>>, <<TypeRow("n", "B", 0, {}), TypeRow("n", "A", 0, {}), TypeRow("", "B", 2, {})>>,
                <<TypeRow("", "B", 0, {}), TypeRow("", "C", 1, {}), TypeRow("n", "B", 0, {}), TypeRow("", "B", 3, {}), TypeRow("n", "B", 0, {})>>}
MCImportPairs ==
  {[source |-> ImportSource, identity |-> id,
    target |-> [name |-> "t", types |-> types, members |-> <<>>, refs |-> refs]] :
     id \in {Missing, AsmRef("s", 1, 0)}, types \in ImportTypes,
     refs \in {<<AsmRef("x", 2, 1)>>, <<AsmRef("s", 2, 1), AsmRef("x", 1, 1)>>, <<AsmRef("s", 1, 1), AsmRef("s", 1, 2)>>}}
ImportScopes == {ThisModule, Moduleless, <<"assembly", AsmRef("x", 1, 3)>>, <<"assembly", AsmRef("x", 2, 3)>>}
ImportLeaves ==
  {Type("def", <<i>>, <<>>) : i \in 1..4} \cup {Type("var", <<p>>, <<>>) : p \in {0, 2}}
    \cup {Type("external", <<"n", "E", s>>, <<>>) : s \in ImportScopes}
    \cup {Type("external", <<"", "F", s>>, <<Type("external", <<"n", "E", s>>, <<>>)>>) : s \in ImportScopes}
MCImported ==
  ImportLeaves \cup {Type("methodDef", <<1>>, <<>>), Type("fieldDef", <<2>>, <<>>), Type("fieldDef", <<3>>, <<>>)}
    \cup {Type("member", <<"m">>, <<a, b>>) : a \in {Type("def", <<2>>, <<>>), Type("external", <<"n", "E", ThisModule>>, <<>>)},
                                             b \in {Type("def", <<4>>, <<>>)} \cup {t \in ImportLeaves : t.kids # <<>>}}
    \cup {Type("instance", <<>>, <<a, Type("var", <<1>>, <<>>), b>>) : a \in {Type("def", <<1>>, <<>>)}, b \in ImportLeaves}

-----------------------------------------------------------------------------
(* Attribute blobs of both forms: pairs of tags and a value after them.     *)
AttrPayloads(code) ==
  IF code = 2 THEN {<<0>>, <<1>>, <<2>>} ELSE IF code = 3 THEN {<<65, 0>>, <<0, 216>>} ELSE {[i \in 1..PrimWidth(code) |-> 200], [i \in 1..PrimWidth(code) |-> i]}
AttrEnums == {1000, 1001, 1002, 1010, 1011}
MCEnumWidths == (1001 :> 4) @@ (1002 :> 10)
AttrLeaves ==
  UNION {{<<<<c>>, v>> : v \in AttrPayloads(c)} : c \in {2, 3, 4, 9}} \cup {<<<<TEXT>>, <<7>>>>, <<<<TEXT>>, <<NULL>>>>}
    \cup {<<<<TYPE>>, <<n>>>> : n \in {NULL, 1000, 1010, 1011, 1020, 1030}}
    \cup UNION {{<<<<ENUM, n>>, v>> : v \in AttrPayloads(EnumCode(n))} : n \in AttrEnums} \cup {<<<<ENUM, 1020>>, <<0, 0, 0, 0>>>>}
AttrFew == {<<<<8>>, <<1, 2, 3, 4>>>>, <<<<TYPE>>, <<1000>>>>, <<<<ENUM, 1001>>, <<5>>>>}
AttrArrays(leaves) ==
  {<<<<SZARRAY>> \o t[1], <<2>> \o t[2] \o t[2]>> : t \in leaves} \cup {<<<<SZARRAY>> \o t[1], <<n>>>> : t \in leaves, n \in {0, 1, NULL}}
AttrObjects(leaves) == {<<<<OBJECT>>, <<NULL>>>>} \cup {<<<<OBJECT>>, t[1] \o t[2]>> : t \in leaves}
AttrNested ==
  AttrArrays(AttrArrays(AttrFew)) \cup AttrObjects(AttrArrays(AttrFew) \cup AttrObjects(AttrFew)) \cup AttrArrays(AttrObjects(AttrFew))
    \cup {<<<<SZARRAY, OBJECT>>, <<2, 8, 1, 2, 3, 4, NULL>>>>, <<<<SZARRAY, OBJECT>>, <<2, NULL, TYPE, 1000>>>>,
          <<<<SZARRAY, SZARRAY, 4>>, <<2, 0, 1, 5>>>>, <<<<SZARRAY, SZARRAY, 4>>, <<2, 1, 5, 0>>>>}
AttrPairs == AttrLeaves \cup AttrArrays(AttrLeaves) \cup AttrObjects(AttrLeaves) \cup AttrNested
RECURSIVE AttrParam(_)
AttrParam(fpt) ==
  IF fpt[1] = SZARRAY THEN [op |-> "szarray", kids |-> <<AttrParam(Tail(fpt))>>]
  ELSE IF fpt[1] = ENUM THEN [op |-> "instance", kids |-> <<[op |-> "named", name |-> fpt[2]]>>] ELSE [op |-> "named", name |-> fpt[1]]
AttrCells(fixed, named) == <<1>> \o FlattenSeq(fixed) \o <<Len(named)>> \o FlattenSeq(named)
AttrNamed(kind, t) == <<kind>> \o t[1] \o <<2000>> \o t[2]
AttrBlob(form, params, cells) == [form |-> form, params |-> params, cells |-> cells]
AttrVoid == [op |-> "szarray", kids |-> <<[op |-> "void"]>>]
(* Self-described: a tag before every value.                                *)
SelfLeaves ==
  {<<c>> \o v : c \in {2, 3, 6}, v \in UNION {AttrPayloads(x) : x \in {2, 3}}} \cup {<<TEXT, 7>>, <<TYPE, NULL>>, <<TYPE, 1010>>, <<ENUM, 1000, 1, 2, 3, 4>>, <<NULL>>, <<ENUM, 0, 1, 2, 3, 4>>, <<TYPE, 0>>, <<99>>}
SelfPairs ==
  SelfLeaves \cup {<<OBJECT>> \o t : t \in SelfLeaves} \cup {<<SZARRAY, 2>> \o t \o u : t, u \in SelfLeaves} \cup {<<SZARRAY, 0>>, <<OBJECT, OBJECT, NULL>>}
MCAttributeBlobs ==
  {AttrBlob("real", <<AttrParam(t[1])>>, AttrCells(<<t[2]>>, <<>>)) : t \in AttrPairs}
    \cup {AttrBlob("real", <<>>, AttrCells(<<>>, <<AttrNamed(k, t)>>)) : t \in AttrPairs, k \in {FIELD, PROPERTY}}
    \cup {AttrBlob("real", <<AttrParam(t[1]), AttrParam(<<8>>)>>, AttrCells(<<t[2], <<1, 2, 3, 4>>>>, <<AttrNamed(FIELD, u), AttrNamed(PROPERTY, t)>>) \o end) :
            t, u \in AttrFew \cup AttrObjects(AttrFew), end \in {<<>>, <<0>>}}
    \cup {AttrBlob("real", <<AttrVoid>>, <<1, 0, 0>>), AttrBlob("real", <<AttrParam(<<8>>)>>, <<1, 1, 2, 3>>), AttrBlob("real", <<>>, <<1, 1, 99>>)}
    \cup {AttrBlob("self", <<>>, <<1, 1>> \o t \o <<0>>) : t \in SelfPairs}
    \cup {AttrBlob("self", <<>>, <<1, 0, 1, k, t[1], 2000>> \o Tail(t)) : t \in SelfPairs, k \in {FIELD, PROPERTY, 82}}
    \cup {AttrBlob("self", <<>>, c) : c \in {<<1>>, <<1, 0>>, <<2, 0, 0>>, <<1, 0, 2, FIELD, 8, 2000, 1, 2, 3, 4, PROPERTY, TYPE, 2001, 1000>>}}
MCSlashOf == 1010 :> 1011

-----------------------------------------------------------------------------
(* Streams around the sizes of pages and of the directory, and files that  *)
(* others laid out: fragmented, shared, dangling and truncated.             *)
StreamOf(n) == [i \in 1..n |-> i]
MsfStreams == {Missing, <<>>} \cup {StreamOf(n) : n \in {1, 4, 5, 9}}
MCStreamLists ==
  {<<>>} \cup UNION {[1..k -> MsfStreams] : k \in 1..2} \cup {<<StreamOf(4), s, t>> : s, t \in MsfStreams}
    \cup {<<StreamOf(n), StreamOf(3)>> : n \in {16, 33, 37, 60}}
(* Page p of a given file holds p * 10 + 1, ..., the directory is in page 2 *)
(* and its list in page 1.                                                  *)
MsfPages(dir, n) ==
  [p \in 0..(n - 1) |-> IF p = 1 THEN <<2, 3, 9, 0>> ELSE IF p \in {2, 3} THEN [i \in 1..4 |-> IF (p - 2) * 4 + i \in DOMAIN dir THEN dir[(p - 2) * 4 + i] ELSE 0]
                        ELSE [i \in 1..4 |-> p * 10 + i]]
MsfFile(dir, size, pages, roots) == [super |-> [pages |-> pages, size |-> size, roots |-> roots], pages |-> MsfPages(dir, 7)]
MsfDirectories ==
  {<<1, a, p, q>> : a \in {0, 2, 7, 4095, 99}, p \in {4, 6, 8}, q \in {5, 6}}
    \cup {<<2, 6, 8, 4, 6, 6, 4>>, <<2, 28, 1, 4, 4, 4, 4>>, <<3, 0, 4095, 4, 5>>, <<3, 1>>, <<3, 8, 8, 8, 6, 4>>, <<0>>}
MCGivenFiles ==
  {MsfFile(d, Len(d), 7, <<1>>) : d \in MsfDirectories}
    \cup {MsfFile(<<1, 4, 4>>, size, pages, roots) : size \in {0, 3, 17, 20, 40}, pages \in {0, 4, 7, 8}, roots \in {<<>>, <<1>>, <<1, 1>>}}

-----------------------------------------------------------------------------
(* Symbols of a module: a procedure with blocks and members in it, others   *)
(* around it, and C13 subsections that speak of them.                       *)
MCSignedLimits == <<4, 8, 16>>
MCUnsignedLimits == <<8, 16, 32>>
CvProc(token, name, segment, offset, length) ==
  [op |-> "proc", managed |-> token # 0, token |-> token, name |-> name, segment |-> segment, offset |-> offset, length |-> length]
CvBlock(segment, offset, length) == [op |-> "block", segment |-> segment, offset |-> offset, length |-> length]
CvLocal(kind) == [op |-> "local", kind |-> kind, name |-> 1, index |-> 2, type |-> 3, flags |-> 4]
CvConstant(leaf, value) == [op |-> "constant", name |-> 1, type |-> 3, leaf |-> leaf, value |-> value]
CvImport(n) == [op |-> "import", name |-> n]
CvOpens == [op |-> "opens"]
CvEnd == [op |-> "end"]
CvMembers ==
  {<<CvLocal(k)>> : k \in {"slot", "slotFlags", "local", "frame"}}
    \cup {<<CvConstant(leaf, 5), CvImport(2), CvLocal("slot")>> :
            leaf \in {<<"signed", 2>>, <<"unsigned", 3>>, <<"float", 1>>, <<"string", 2>>, <<"raw", 4>>, <<"unknown", 0>>}}
CvOne == <<CvProc(1, 7, 1, 10, 20)>>
CvBodies ==
  CvMembers \cup {<<b>> \o m \o <<CvEnd>> : b \in {CvBlock(1, 10, 20), CvBlock(1, 9, 2), CvBlock(2, 12, 2), CvBlock(1, 12, 19), CvOpens}, m \in {<<>>, <<CvImport(3)>>}}
    \cup {<<CvBlock(1, 12, 8), CvOpens, CvImport(1), CvBlock(9, 90, 90), CvEnd, CvEnd, b, CvEnd, CvEnd, CvImport(4)>> : b \in {CvBlock(1, 12, 2), CvBlock(1, 15, 6), CvImport(5)}}
    \cup {<<CvBlock(1, 12, 2), CvEnd, CvBlock(1, 14, 2), CvLocal("slot"), CvEnd>>}
CvRecords ==
  {CvOne \o b \o <<CvEnd>> : b \in CvBodies} \cup {<<>>, CvOne, <<CvEnd, CvImport(1)>>, <<CvOpens, CvBlock(1, 1, 1), CvEnd, CvEnd>>, CvOne \o CvOne \o <<CvEnd, CvEnd>>}
    \cup {<<CvProc(t, 7, 1, 10, 20), CvEnd>> : t \in {0, 3, -1}}
(* Two procedures, at one address or side by side.                          *)
CvPairs ==
  {<<CvProc(t, 7, s, 10, 20), CvEnd, CvProc(0, 8, 1, o, n), CvEnd>> : t \in {0, 2}, s \in {0, 1}, o \in {10, 40}, n \in {0, 5, 20}}
CvStrings(table) == [kind |-> "strings", table |-> table]
CvFile(n, sum) == [name |-> n, sum |-> sum]
CvFiles(files) == [kind |-> "files", files |-> files]
CvLine(delta, start) == [delta |-> delta, start |-> start, end |-> start + 1, statement |-> TRUE, columns |-> 3]
CvLines(offset, length, columns, blocks) ==
  [kind |-> "lines", offset |-> offset, segment |-> 1, length |-> length, columns |-> columns, blocks |-> blocks]
CvBlocks == {<<[file |-> 1, lines |-> <<CvLine(0, 9), CvLine(3, 5)>>]>>, <<[file |-> 3, lines |-> <<>>]>>,
             <<[file |-> 1, lines |-> <<CvLine(4, 9)>>], [file |-> 2, lines |-> <<CvLine(0, 5), CvLine(4, 6)>>]>>,
             <<[file |-> 2, lines |-> <<CvLine(4, 1)>>], [file |-> 1, lines |-> <<CvLine(4, 2), CvLine(19, 3)>>]>>}
CvTables == {<<>>, <<CvStrings(<<5, 4>>)>>}
CvChecks == <<CvFiles(<<CvFile(1, 0), CvFile(2, 1), CvFile(1, 2)>>)>>
CvC13 ==
  {t \o CvChecks \o <<CvLines(o, n, c, b)>> : t \in CvTables, o \in {10, 15}, n \in {0, 15, 20}, c \in {TRUE}, b \in CvBlocks}
    \cup {<<CvLines(o, 5, FALSE, b), CvLines(10, 0, TRUE, b)>> \o CvChecks \o <<CvFiles(<<CvFile(k, 7)>>)>> : o \in {10, 12, 40}, b \in CvBlocks, k \in {2, 3}}
CvModule(stream, symbols, c13) == [stream |-> stream, symbols |-> symbols, c13 |-> c13]
CvDbg(sections, omap, original) == [sections |-> sections, omap |-> omap, original |-> original]
CvPublic(kind, segment, offset) == [kind |-> kind, name |-> 6, segment |-> segment, offset |-> offset]
CvFileOf(modules, dbg, tokens, symrec, inline) ==
  [modules |-> modules, dbg |-> dbg, tokens |-> tokens, symrec |-> symrec, inline |-> inline, names |-> <<4, 5>>]
CvPlain(modules) == CvFileOf(modules, CvDbg(<<50>>, Missing, Missing), Missing, <<>>, <<>>)
CvDbgs ==
  {CvDbg(<<50>>, o, original) : o \in {Missing, <<>>, <<<<20, 70>>, <<65, 0>>>>, <<<<20, 70>>, <<62, 95>>>>, <<<<20, 1>>, <<20, 2>>>>}, original \in {Missing, <<5, 60>>}}
CvSymrecs == {Missing, Failed, <<>>, <<CvPublic("public", 1, 3), CvPublic("other", 1, 4), CvPublic("public", 3, 5)>>}
MCSymbolFiles ==
  {CvPlain(<<CvModule("kept", r, <<>>)>>) : r \in CvRecords}
    \cup {CvPlain(<<CvModule("kept", r, c)>>) : r \in CvPairs, c \in {x \in CvC13 : Len(x) = 2}}
    \cup {CvPlain(<<CvModule("kept", CvOne \o <<CvEnd>>, c)>>) : c \in CvC13}
    \cup {CvFileOf(<<CvModule("none", <<>>, <<>>), CvModule("kept", <<CvProc(0, 7, 1, 15, 20), CvEnd, CvProc(2, 7, 2, 3, 2), CvEnd>>, CvChecks \o <<CvLines(15, 9, TRUE, b)>>)>>, d, t, s, <<>>) :
            b \in {<<[file |-> 1, lines |-> <<CvLine(0, 9), CvLine(3, 5)>>]>>}, d \in CvDbgs, t \in {Missing, <<0, 0, 5>>, <<0, 0>>, <<0, 0, 0>>}, s \in CvSymrecs}
    \cup {CvFileOf(<<CvModule(k, <<>>, <<>>)>>, CvDbg(<<50>>, Missing, Missing), Missing, s, <<i, <<CvPublic("public", 1, 9)>>>>) :
            k \in {"none", "gone", "tokens"}, s \in CvSymrecs, i \in CvSymrecs}
(* Functions to write: scopes in any order and of any shape, lines of two   *)
(* files, documents that share a name, constants of every form.             *)
CvScope(parent, offset, length) == [ScopeOf_(parent, offset, length) EXCEPT !.imports = <<offset>>]
CvFunction(token, name, module, offset, lines, scopes) ==
  [token |-> token, name |-> name, module |-> module, segment |-> 1, offset |-> offset, length |-> 8, rva |-> Missing, lines |-> lines, scopes |-> scopes]
CvSrc(offset, start, end, file) == [offset |-> offset, start |-> start, end |-> end, statement |-> FALSE, columns |-> 2, file |-> file, rva |-> Missing]
CvScopes ==
  {<<>>} \cup {<<CvScope(r, 0, n)>> : r \in {0, 1}, n \in {8, 7}}
    \cup {<<CvScope(0, 0, 8), CvScope(p, o, 2), CvScope(q, 4, n), CvScope(1, 0, 8)>> : p \in {1, 2, 3, 4}, q \in {0, 1, 2, 4}, o \in {4, 5}, n \in {3, 5}}
    \cup {<<CvScope(0, 0, 8), CvScope(3, 4, 2), CvScope(2, 4, 2)>>, <<CvScope(0, 0, 8), CvScope(3, 4, 2), CvScope(4, 4, 2), CvScope(1, 4, 2)>>}
CvLineLists ==
  {<<>>} \cup {<<CvSrc(o, s, e, f)>> : o \in {0, 8}, s \in {48}, e \in {47, 48, 53, 54}, f \in {4, 9}}
    \cup {<<CvSrc(3, 1, 1, f), CvSrc(3, 2, 2, 4), CvSrc(o, 3, 4, 5)>> : f \in {4, 5}, o \in {1, 3}} \cup {<<CvSrc(1, 51, 51, 4)>>}
CvDocuments == <<[name |-> 5, sum |-> 0], [name |-> 4, sum |-> 1], [name |-> 5, sum |-> 1], [name |-> 4, sum |-> 1]>>
CvValues ==
  {[name |-> 1, type |-> 2, form |-> f, width |-> 0, value |-> v] : f \in {"signed", "unsigned", "float", "string"}, v \in {0, 3, 4, 15}}
    \cup {[name |-> 1, type |-> 2, form |-> "signed", width |-> 0, value |-> v] : v \in {-16, -4, -5}} \cup {[name |-> 1, type |-> 2, form |-> "raw", width |-> 6, value |-> 9]}
CvGiven(functions) == [functions |-> functions, documents |-> CvDocuments]
MCFunctionLists ==
  {CvGiven(<<CvFunction(t, 7, 1, 2, <<>>, s)>>) : t \in {0, 1}, s \in CvScopes}
    \cup {CvGiven(<<CvFunction(1, 7, 1, 2, <<>>, <<[CvScope(0, 0, 8) EXCEPT !.constants = <<v>>]>>)>>) : v \in CvValues}
    \cup {CvGiven(<<CvFunction(t, n, m, o, l, <<>>), CvFunction(1, 8, 1, 10, k, <<>>)>>) :
            t \in {0, 1}, n \in {7, 9}, m \in {1, 2}, o \in {10, 92}, l \in CvLineLists, k \in {<<>>, <<CvSrc(3, 1, 1, 5), CvSrc(3, 2, 2, 4), CvSrc(1, 3, 4, 5)>>}}
    \cup {CvGiven(<<[CvFunction(0, 7, 1, 10, l, <<>>) EXCEPT !.length = n], CvFunction(0, 8, 1, 10, l, <<>>)>>) : n \in {0, 2, 9}, l \in CvLineLists}
    \cup {CvGiven(<<>>)}

-----------------------------------------------------------------------------
(* Whole files: streams of debug data present or not, a module to pass     *)
(* over, procedures whose types are ids, named streams that collide.        *)
MCUpperOf == (500 :> 501)
MCHashOf == [n \in 1..600 |-> IF n < 5 THEN 4097 ELSE IF n >= 500 THEN 7 ELSE n % 3]
PdbTypes(ids) == [kind |-> "types", from |-> 20, to |-> 25, ids |-> ids]
PdbData(data) == [kind |-> "data", data |-> data]
PdbProcedure(token, name, offset, type) ==
  <<[CvProc(token, name, 1, offset, 8) EXCEPT !.op = "proc"], [CvLocal("slot") EXCEPT !.type = type], CvEnd>>
PdbModule(token, offset, type, id, c13) ==
  [kind |-> "module", types |-> <<[id |-> id, type |-> 21], [id |-> FALSE, type |-> 22]>>, symbols |-> PdbProcedure(token, 4, offset, type) \o PdbProcedure(0, 3, offset + 8, 3),
   c13 |-> c13]
PdbC13 == CvChecks \o <<CvLines(12, 8, TRUE, <<[file |-> 1, lines |-> <<CvLine(0, 9), CvLine(3, 5)>>]>>)>>
PdbPublic(short, segment) == [kind |-> "public", short |-> short, name |-> 2, segment |-> segment, offset |-> 3]
PdbOptional(omap, tokens) == [omap |-> omap, sections |-> 9, tokens |-> tokens, original |-> IF omap = None_ THEN None_ ELSE 9]
PdbDbi(streams, names, optional, symrec) ==
  [kind |-> "dbi", modules |-> [i \in DOMAIN streams |-> [stream |-> streams[i], name |-> names[i]]], psi |-> 8, gsi |-> None_, symrec |-> symrec, optional |-> optional]
PdbStreams(named, types, dbi, ids, module, symbols) ==
  <<Missing, InfoStream(0, named), types, dbi, ids, NamesStream(<<4, 5>>), module, PdbModule(0, 40, 22, FALSE, <<>>), symbols, PdbData(<<50>>),
    PdbData(<<<<20, 70>>>>), PdbData(<<0, 5, 3>>)>>
PdbRecords == [kind |-> "symbols", records |-> <<PdbPublic(FALSE, 0), PdbPublic(TRUE, 1), PdbPublic(FALSE, 1)>>]
PdbPlainDbi == PdbDbi(<<6, 7>>, <<8, 9>>, PdbOptional(10, 11), 8)
MCPdbFiles ==
  {PdbStreams(500 :> 5, PdbTypes(<<>>), PdbDbi(s, n, PdbOptional(o, t), 8), PdbTypes(21 :> 23), PdbModule(1, 12, 21, TRUE, PdbC13), PdbRecords) :
      s \in {<<6, 7>>, <<6, -1>>}, n \in {<<8, 9>>, <<8, 700>>}, o \in {10, None_}, t \in {11, 13, None_}}
    \cup {PdbStreams(n, t, PdbPlainDbi, i, m, r) :
            n \in {(500 :> 5) @@ (502 :> 9), (501 :> 5), (500 :> 13), <<>>}, t \in {Missing, PdbTypes(<<>>)}, i \in {Missing, PdbTypes(21 :> 23)},
            m \in {PdbModule(0, 12, 3, TRUE, <<CvStrings(<<5, 4>>)>> \o PdbC13)}, r \in {PdbRecords, Missing}}
    \cup {PdbStreams(500 :> 5, PdbTypes(<<>>), d, PdbTypes(<<>>), Missing, Missing) : d \in {Missing, PdbPlainDbi, PdbDbi(<<>>, <<>>, NoOptional, None_)}}
PdbFunction(module, token, name, offset, type) ==
  CvFunction(token, name, module, offset, IF type = 3 THEN <<CvSrc(3, 1, 1, 6)>> ELSE <<>>,
             <<[ScopeOf_(0, 0, 8) EXCEPT !.constants = <<[name |-> 1, type |-> type, form |-> "signed", width |-> 0, value |-> 1]>>]>>)
MCBuiltFunctions == {PdbFunction(3, 0, 5, 70, 3), PdbFunction(1, 2, 4, 12, 45), PdbFunction(2, 0, 3, 20, 22)}
MCBuiltPublics == {PdbPublic(FALSE, 1), [PdbPublic(FALSE, 1) EXCEPT !.name = 5], PdbPublic(FALSE, 0)}
MCBuiltSections == {<<30>>}
MCBuiltDocuments == {CvFile(6, 1), CvFile(5, 2)}

-----------------------------------------------------------------------------
(* Symbols of MDB files.  A special opcode steps a line back or none and    *)
(* up to two addresses.                                                     *)
MCLineBase == -1
PointsAt(token, points) == [op |-> "points", token |-> token, unit |-> 1, points |-> points]
MdbPoint(offset, row, file) == [offset |-> offset, row |-> row, file |-> file]
MdbPointLists ==
  {<<MdbPoint(a, r, 1), MdbPoint(b, s, f)>> : a \in {-1, 0, 3, 6}, b \in {2, 3, 5, 7}, r \in {0, 1, 3}, s \in {-1, 1, 2}, f \in {1, 2}}
MCMdbCalls ==
  {<<[op |-> "source", path |-> "a"], [op |-> "source", path |-> "b"], [op |-> "source", path |-> "a"],
     [op |-> "unit", files |-> <<2, 1>>], PointsAt(2, ps), PointsAt(1, <<MdbPoint(4, 2, 1)>>),
     [op |-> "local", token |-> 2, name |-> "x"], [op |-> "local", token |-> 3, name |-> "y"],
     PointsAt(2, <<MdbPoint(3, 2, 0)>>)>> : ps \in MdbPointLists}
MdbGroup(doc, points) == [document |-> doc, points |-> points]
MCMdbDebugs ==
  {[documents |-> docs, points |-> (2 :> <<MdbGroup(d, <<<<4, 1>>, <<0, 2>>>>), MdbGroup(1, <<<<a, 3>>, <<9, 1>>>>)>>) @@ (1 :> gs)] :
     docs \in {<<>>, <<"a", "b", "a">>}, d \in {0, 2, 3}, a \in {-2, 0, 4}, gs \in {<<>>, <<MdbGroup(1, <<<<1, 16707566>>>>)>>}}
MdbMethod(token, u, program) ==
  [token |-> token, unit |-> u, program |-> program, locals |-> <<>>, columns |-> FALSE, ends |-> FALSE]
MdbFile(params, methods) ==
  [sources |-> <<"a", "b">>, units |-> <<[primary |-> 2, includes |-> <<>>], [primary |-> 0, includes |-> <<1>>]>>,
   methods |-> methods, counts |-> <<2, 2, Len(methods)>>, parameters |-> params]
Standard_ == [base |-> -1, range |-> 2, first |-> 9]
MdbPrograms ==
  {<<2, 4, 1, 13, 0, 1, 1>>, <<8, 0, 1, 64, 1, 0, 2, 65, 7, 10, 0, 1, 1>>, <<3, 5, 0, 1, 1>>, <<4, 2, 9, 0, 3, 1, 7, 7>>,
   <<3, -4, 1, 0, 1, 1>>, <<0, 1, 1>>, <<10>>, <<5, 0, 1, 1>>, <<0, 0>>, <<0, 1, 2>>, <<4, -1, 0, 1, 1>>, <<0, 2, 1>>}
MCMdbRawFiles ==
  {MdbFile(Standard_, <<MdbMethod(1, u, p), MdbMethod(2, 1, Missing)>>) : u \in {0, 1, 2, 4}, p \in MdbPrograms}
  \cup {[MdbFile(Standard_, <<MdbMethod(1, 1, <<9, 0, 1, 1>>)>>) EXCEPT !.counts = c] : c \in {<<-1, 2, 1>>, <<2, 1, 1>>, <<2, 2, 0>>}}
  \cup {[MdbFile(Standard_, <<MdbMethod(1, u, <<9, 0, 1, 1>>)>>) EXCEPT !.units[1].primary = p] : u \in {-1, 1}, p \in {-1, 2}}
  \cup {MdbFile([Standard_ EXCEPT !.first = f], <<MdbMethod(1, 1, <<3, 2, 8, 9, 0, 1, 1>>)>>) : f \in {0, 4, 8, 16}}
  \cup {MdbFile(Standard_, <<[MdbMethod(1, 1, <<9, 10, 0, 1, 1>> \o more) EXCEPT !.columns = c, !.ends = e]>>) :
          c \in BOOLEAN, e \in BOOLEAN, more \in {<<>>, <<5>>, <<5, 6>>, <<2, 3, 16777215>>, <<5, 2, 3, 16777215>>}}

-----------------------------------------------------------------------------
(* Portable PDBs.  1 and 2 are separators of names, 9 the hidden line.      *)
PpPoint(offset, line, column, endLine, endColumn) ==
  [offset |-> offset, line |-> line, column |-> column, endLine |-> endLine, endColumn |-> endColumn]
PpHidden(offset, column) == PpPoint(offset, 9, column, 9, column)
PpDocument(name, hash) == [op |-> "document", name |-> name, hash |-> hash]
PpDocuments == <<PpDocument(<<1, 5, 2, 4>>, 1), PpDocument(<<4, 2, 2, 5, 1>>, 2), PpDocument(<<1, 5, 2, 4>>, 3), PpDocument(<<7>>, 4)>>
PpScope(method, start, length, variables, constants) ==
  [op |-> "scope", method |-> <<0, method>>, import |-> start % 2, variables |-> variables, constants |-> constants,
   start |-> start, length |-> length]
PpInfo(table, rid, kind) == [op |-> "info", parent |-> <<table, rid>>, kind |-> kind]
PpFirst == {PpPoint(0, 3, 1, 3, 4), PpPoint(0, 31, 31, 31, 32), PpPoint(2, 3, 4, 5, 1), PpHidden(1, 4), PpHidden(0, 0)}
PpSecond ==
  {PpPoint(3, 3, 1, 3, 4), PpPoint(3, 20, 2, 20, 18), PpPoint(3, 3, 1, 3, 1), PpHidden(3, 2), PpPoint(2, 4, 1, 6, 0), PpPoint(40, 2, 1, 3, 1)}
PpThird == {PpPoint(4, 2, 2, 3, 1), PpPoint(5, 9, 1, 9, 2), PpPoint(5, 8, 40, 9, 2)}
PpCallsOf(points) ==
  PpDocuments \o
  <<[op |-> "points", method |-> <<0, 2>>, document |-> 2, points |-> <<PpPoint(1, 1, 1, 1, 2)>>],
    [op |-> "points", method |-> <<0, 2>>, document |-> 1, points |-> points],
    [op |-> "points", method |-> <<3, 2>>, document |-> 1, points |-> points],
    [op |-> "signature", method |-> <<0, 3>>, rid |-> 7],
    [op |-> "pairs", method |-> <<0, 3>>, pairs |-> [i \in DOMAIN points |-> [document |-> 1 + (i % 3), point |-> points[1 + Len(points) - i]]]]>>
PpScopes ==
  {<<PpScope(1, 0, 9, <<"x">>, <<>>), PpScope(1, 2, 3, <<"y", "z">>, <<"k">>), PpScope(m, s, l, <<"w">>, c)>> :
     m \in {1, 2}, s \in {0, 2, 4}, l \in {3, 9, -1}, c \in {<<>>, <<"q">>}}
PpOrders == {<<1, 2, 3>>, <<3, 2, 1>>, <<2, 3, 1>>}
PpScopeCalls(scopes, order, rid, counts, entry) ==
  <<[op |-> "register", method |-> <<0, 2>>], [op |-> "register", method |-> <<0, 0>>], [op |-> "import", parent |-> 0],
    scopes[order[1]], scopes[order[2]], scopes[order[3]], [op |-> "scope", method |-> <<3, 1>>, import |-> 0, variables |-> <<"n">>,
      constants |-> <<>>, start |-> 0, length |-> 1],
    PpInfo(24, 4, 1), PpInfo(25, 1, 2), PpInfo(23, rid, 3), PpInfo(0, 2, 4), PpInfo(23, 1, 5), PpInfo(24, 2, 6)>> \o counts
    \o <<[op |-> "entry", method |-> entry]>>
PpCounts == [op |-> "counts", counts |-> <<<<0, 3>>, <<3, 1>>>>]
MCPortableCalls ==
  {PpCallsOf(<<a, b, c>>) : a \in PpFirst, b \in PpSecond, c \in PpThird}
  \cup {PpScopeCalls(s, o, 3, <<>>, <<0, 2>>) : s \in PpScopes, o \in PpOrders}
  \cup {PpScopeCalls(<<PpScope(1, 0, 9, <<"x">>, <<>>), PpScope(1, 2, 3, <<"y", "z">>, <<"k">>), PpScope(2, 0, 3, <<"w">>, <<>>)>>, o, r, c, e) :
          o \in PpOrders, r \in {2, 4}, c \in {<<>>, <<PpCounts>>, <<PpCounts, [op |-> "counts", counts |-> <<<<23, 1>>>>]>>,
            <<[op |-> "counts", counts |-> <<<<0, 1>>, <<0, 5>>>>]>>, <<[op |-> "counts", counts |-> <<<<0, 1>>>>]>>}, e \in {<<0, 0>>, <<0, 1>>, <<3, 1>>}}
PpDocumentRow(separator, parts) == [name |-> [separator |-> separator, parts |-> parts], hash |-> 0]
PpScopeRow(method, import, v, c) == [method |-> method, import |-> import, variables |-> v, constants |-> c, start |-> 0, length |-> 4]
PpFile(document, cells, scopes) ==
  [documents |-> <<PpDocumentRow(0, <<<<4>>>>), PpDocumentRow(1, <<<<>>, <<4>>>>)>>,
   methods |-> <<[document |-> document, cells |-> cells], [document |-> 1, cells |-> <<>>]>>,
   scopes |-> scopes, variables |-> <<"x", "y">>, constants |-> <<"k">>, imports |-> <<0>>, infos |-> <<[cell |-> 33, kind |-> 1]>>,
   entry |-> <<0, 1>>, counts |-> <<>>, machines |-> <<[method |-> 2, kickoff |-> 1], [method |-> 2, kickoff |-> 2]>>]
PpCells ==
  {<<0, 4, 0, 2, 3, 3, 0, 2, 5, 1, -3, 0, 1>>, <<0, 0, 0, 0, 0, 2, 1, 0, 0>>, <<2, 0, 0, 2, 4, 4, 3, 2, -4, 1, 1>>, <<0, 1, 0>>,
   <<0, 1, 0, 2, 3, 3, 0, 3>>, <<0, 1, 0, 2, 3, 3, 2, 0, 2, -4, 0>>, <<0, 1, 1, -4, 3, 3>>, <<0>>, <<0, 3, 0, 0, 1, 0, 0>>, <<0, 0, 0, 2, 1, 1, 1, 0, 2, 0, 0, 0>>}
MCPortableRawFiles ==
  {PpFile(d, c, <<PpScopeRow(1, 0, 1, 1), PpScopeRow(2, 1, 2, 1), PpScopeRow(1, 0, 3, 2)>>) : d \in 0..3, c \in PpCells}
  \cup {PpFile(1, <<>>, <<PpScopeRow(1, i, v, 1), PpScopeRow(1, 0, w, k), PpScopeRow(1, 0, 2, 0)>>) :
          i \in 0..2, v \in 0..2, w \in 1..4, k \in {1, 2, 4}}

-----------------------------------------------------------------------------
(* Modules whose rows are not in the order of their methods, of native code *)
(* or loaded from a native PDB, with a method of no instructions, with      *)
(* points that some formats cannot hold; older files beside the image.      *)
SymbolMethod(name, length, signature) == [name |-> name, length |-> length, locals |-> signature, signature |-> signature]
SymbolPoint(offset, line, column, endLine, endColumn) ==
  [offset |-> offset, line |-> line, column |-> column, endLine |-> endLine, endColumn |-> endColumn]
PointGroup(document, points) == [document |-> document, points |-> points]
SymbolScope(method, start, length) ==
  [method |-> <<0, method>>, import |-> 0, start |-> start, length |-> length, variables |-> <<>>, constants |-> <<>>]
PlainDebug(points) ==
  [documents |-> <<CvFile(5, 0), CvFile(6, 1)>>, points |-> points, scopes |-> 1 :> <<SymbolScope(1, 2, 3), SymbolScope(1, 0, 8)>>,
   infos |-> <<[parent |-> <<0, 2>>, kind |-> 1], [parent |-> <<3, 1>>, kind |-> 2]>>]
TwoDocuments ==
  <<PointGroup(0, <<SymbolPoint(0, 3, 1, 3, 4), SymbolPoint(5, 9, 0, 9, 0)>>), PointGroup(1, <<SymbolPoint(2, 4, 2, 6, 1)>>)>>
PlainPoints == (1 :> TwoDocuments) @@ (3 :> <<PointGroup(1, <<SymbolPoint(1, 7, 1, 7, 2)>>)>>)
OldEntries == <<DebugEntry(16, Missing), DebugEntry(EmbeddedEntry, [kind |-> "portable", file |-> FinalizePortable(NewPortable)])>>
SymbolModule(types, debug) ==
  [methods |-> <<SymbolMethod(11, 8, 1), SymbolMethod(12, 0, 0), SymbolMethod(13, 4, 0)>>, types |-> types, mixed |-> FALSE, signed |-> FALSE,
   entry |-> 1, entries |-> OldEntries, debug |-> debug, native |-> Missing]
MovedModule == SymbolModule(<<<<3>>, <<1, 2>>>>, PlainDebug(PlainPoints))
MixedModule(signed) == [SymbolModule(<<<<3>>, <<1, 2>>>>, PlainDebug(PlainPoints)) EXCEPT !.mixed = TRUE, !.signed = signed]
NativePoints == 1 :> <<PointGroup(0, <<SymbolPoint(0, 3, 0, 3, 0), SymbolPoint(0, 4, 0, 4, 0), SymbolPoint(5, 5, 1, 5, 1)>>)>>
FromNative ==
  AttachNative(SymbolModule(<<<<3>>, <<1, 2>>>>, Missing),
               PdbStreams(500 :> 5, PdbTypes(<<>>), PdbDbi(<<6, 7>>, <<8, 9>>, PdbOptional(None_, None_), 8), PdbTypes(<<>>),
                          PdbModule(1, 12, 41, TRUE, PdbC13), PdbRecords))
MCSymbolModules ==
  {MovedModule, FromNative, MixedModule(FALSE), MixedModule(TRUE), SymbolModule(<<<<3>>, <<1>>>>, PlainDebug(PlainPoints)),
   SymbolModule(<<<<1, 2, 3>>>>, Missing), SymbolModule(<<<<1, 2, 3>>>>, PlainDebug(4 :> TwoDocuments)),
   SymbolModule(<<<<2, 1, 3>>>>, PlainDebug(2 :> <<PointGroup(2, <<SymbolPoint(0, 3, 1, 3, 4)>>)>>)),
   [FromNative EXCEPT !.debug = PlainDebug(NativePoints), !.native.original = Missing]}
OldSymbols(kind, file) == [kind |-> kind, file |-> file]
MCOldFiles ==
  {<<Missing, Missing, Missing, Missing>>,
   <<Missing, OldSymbols("portable", FinalizePortable(NewPortable)), Missing, OldSymbols("mdb", FinalizeMdb(NewMdbWriter))>>,
   <<OldSymbols("portable", FinalizePortable(NewPortable)), Missing, Missing, Missing>>}
MCAddedMethod == SymbolMethod(14, 2, 2)

-----------------------------------------------------------------------------
(* Native types: blobs that begin with a tag and go on with any bytes, and   *)
(* types inside types, with counts at every size of a compressed integer.    *)
PairsOf(first) == [i \in 1..16 |-> first + i]
MCGuidTexts ==
  (2001 :> [digits |-> PairsOf(0), canonical |-> FALSE] @@ 2002 :> [digits |-> Grouped_(PairsOf(0)), canonical |-> TRUE]
   @@ 2003 :> [digits |-> PairsOf(0), canonical |-> TRUE] @@ 2004 :> [digits |-> [i \in 1..16 |-> 0], canonical |-> TRUE]
   @@ 2005 :> [digits |-> [i \in 1..15 |-> i], canonical |-> FALSE])
MCMarshalBlobs ==
  {<<tag>> \o b : tag \in {23, 28, 29, 30, 42}, b \in {<<>>} \cup Strings({0, 1, 2, 23, 28, 29, 30, 42, 129, 193}, 3)}
    \cup {<<tag>> \o b : tag \in {30, 42}, b \in [1..4 -> {0, 1, 23, 28, 42, 129}]}
    \cup {<<tag>> \o b : tag \in {23, 28}, b \in {193, 255} \X {0, 128} \X {1, 64} \X {0, 255}}
    \cup {<<tag>> : tag \in 0..110}
    \cup {<<44, g, a, b, c>> : g \in {0, 255, 5, 1001} \cup (2001..2005), a \in {0, 255, 1001}, b, c \in {255, 1002}}
InnerNatives ==
  {Native(2), Native(42)} \cup {[Native(23) EXCEPT !.counts = <<n>>] : n \in {0, 2, 300}}
    \cup {[Native(28) EXCEPT !.counts = <<n>>] : n \in {0, -1, 64, -65, 8191, -8193, 268435455, -268435456}}
    \cup {[Native(29) EXCEPT !.variant = v, !.desc = d] : v \in {Missing, 0, 3, 15, 200}, d \in {Missing, 1, 130}}
    \cup {[Native(44) EXCEPT !.guid = g, !.texts = <<1001, 0, 1002>>] : g \in {PairsOf(0), [i \in 1..16 |-> 0]}}
CompressedCounts == {0, 1, 127, 128, 16383, 16384, 1073741823, 1073741824}
MCNativeTypes ==
  InnerNatives
    \cup {[Native(30) EXCEPT !.counts = <<n>>, !.inner = e] : n \in CompressedCounts, e \in {<<>>} \cup {<<i>> : i \in InnerNatives}}
    \cup {[Native(42) EXCEPT !.counts = <<p, n, m>>, !.inner = e] :
            p, n \in {0, 1, 16384}, m \in {0, 128}, e \in {<<>>} \cup {<<i>> : i \in InnerNatives}}
    \cup {[Native(42) EXCEPT !.counts = <<p, 0, m>>,
             !.inner = <<[Native(t) EXCEPT !.counts = IF t = 30 THEN <<n>> ELSE <<n, q, 0>>, !.inner = <<i>>]>>] :
            p, m, n, q \in {0, 1}, t \in {30, 42}, i \in InnerNatives}

-----------------------------------------------------------------------------
(* Permission sets: up to two permissions with up to two arguments of every  *)
(* kind of value, cut short, too long, or as XML.                            *)
MCShownAs == (<<2, <<0>>>> :> 400 @@ <<2, <<1>>>> :> 401 @@ <<8, <<7, 0, 0, 0>>>> :> 407 @@ <<5, <<7>>>> :> 407)
SecurityValues ==
  {<<14, 500, 300>>, <<14, 501, 255>>, <<14, 503, 300>>, <<14, 504, 0>>, <<14, CLASSNAME, 301>>, <<14, VERSION, 300>>,
   <<2, 500, 1>>, <<8, 500, 7, 0, 0, 0>>, <<85, 501, 900, 7, 0, 0, 0>>, <<81, 500, 14, 300>>, <<80, 500, 3>>, <<29, 500, 0>>}
SecurityArguments == {<<>>} \cup {<<k>> \o v : k \in {83, 84}, v \in SecurityValues}
PermissionBlob(class, args) ==
  <<class, 9, Cardinality({i \in DOMAIN args : args[i] # <<>>})>> \o FlattenSeq(args)
BinarySets ==
  {<<46, 1>> \o PermissionBlob(c, <<a, b>>) : c \in {600, 255}, a, b \in SecurityArguments}
    \cup {<<46, n>> \o PermissionBlob(600, <<a>>) \o PermissionBlob(601, <<b>>) :
            n \in 1..3, a, b \in {<<>>} \cup {<<84>> \o v : v \in SecurityValues}}
Attribute_(names) == [i \in DOMAIN names |-> <<names[i], 310 + i>>]
LegacyNames == <<CLASSNAME, VERSION, 500, 502, 503>>
Numbered(numbers) == Attribute_([i \in DOMAIN numbers |-> LegacyNames[numbers[i]]])
LegacyElement(x, y, z) == Numbered(SelectSeq(<<x, y, z>>, LAMBDA n : n # 0))
MCLegacyTexts ==
  [t \in 1000..1999 |->
     IF t % 10 > 5 \/ (t \div 10) % 10 > 5 \/ (t \div 100) % 10 > 5 THEN Failed
     ELSE <<LegacyElement(t % 10, (t \div 10) % 10, (t \div 100) % 10)>>]
    @@ (999 :> <<>> @@ 998 :> <<Attribute_(<<VERSION, CLASSNAME>>), Attribute_(<<500, CLASSNAME, 504>>)>>)
MCPermissionBlobs ==
  BinarySets \cup {<<>>, <<46>>, <<46, 0>>, <<46, 1, 600>>, <<0, 0>>, <<0>>}
    \cup {<<t>> \o p : t \in DOMAIN MCLegacyTexts, p \in {<<>>, <<0>>, <<0, 0>>}}
MCEscapedName == (504 :> 505 @@ 505 :> 506 @@ 506 :> 507)

-----------------------------------------------------------------------------
(* Metadata: heaps and tables about to outgrow their indices, with the names  *)
(* of columns as the schemas have them, and symbols of a file with more rows. *)
MCTableOrder ==
  <<"TypeDef", "Field", "MethodDef", "Param", "Document", "MethodDebugInformation", "LocalScope", "LocalVariable">>
MCColumns ==
  ("TypeDef" :> <<<<"u32">>, <<"string">>, <<"string">>, <<"coded", "TypeDefOrRef">>, <<"simple", "Field">>, <<"simple", "MethodDef">>>>
   @@ "Field" :> <<<<"u16">>, <<"string">>, <<"blob">>>>
   @@ "MethodDef" :> <<<<"u32">>, <<"u16">>, <<"u16">>, <<"string">>, <<"blob">>, <<"simple", "Param">>>>
   @@ "Param" :> <<<<"u16">>, <<"u16">>, <<"string">>>>
   @@ "Document" :> <<<<"blob">>, <<"guid">>, <<"blob">>, <<"guid">>>>
   @@ "MethodDebugInformation" :> <<<<"simple", "Document">>, <<"blob">>>>
   @@ "LocalScope" :> <<<<"simple", "MethodDef">>, <<"simple", "LocalVariable">>, <<"u32">>, <<"u32">>>>
   @@ "LocalVariable" :> <<<<"u16">>, <<"u16">>, <<"string">>>>)
MCCodedGroups == ("TypeDefOrRef" :> [tables |-> <<"TypeDef", "TypeRef", "TypeSpec">>, first |-> 0, bits |-> 2])
LettersOf(n) == [i \in 1..n |-> 64 + i]
TimesRow(n, table, cells) == [i \in 1..n |-> <<"row", table, cells>>]
MCSeeds ==
  {<<>>}
    \cup {<<<<"strings", LettersOf(n)>>, <<"blobs", LettersOf(n)>>>> : n \in {4, 5}}
    \cup {TimesRow(n, "Field", <<1, 0, 0>>) : n \in {6, 7}}
    \cup {<<<<"row", "TypeDef", <<0, 0, 0, 4, 1, 1>>>>>>}
    \cup {<<<<"pdb", <<<<"MethodDef", n>>, <<"Missing", 1>>, <<"TypeDef", 1>>, <<"LocalVariable", n>>>>>>>> : n \in {7, 8}}
    \cup {[i \in 1..3 |-> <<"guids", <<i, 2 * i>>>>]}
    \cup {<<<<"strings", <<97, 98>>>>, <<"strings", LettersOf(6)>>>>
            \o <<<<"row", "Param", <<1, 2, 1>>>>, <<"row", "Param", <<1, 2, 2>>>>>> \o TimesRow(2, "Param", <<1, 2, 4>>)}
MCMetadataCalls ==
  {<<"strings", <<>>>>, <<"strings", <<97>>>>, <<"strings", <<98>>>>, <<"blobs", <<>>>>, <<"blobs", <<97>>>>, <<"guids", <<1, 3>>>>, <<"user", <<233, 97>>>>}

-----------------------------------------------------------------------------
(* Images: parts of every residue modulo their alignment, debug entries with  *)
(* and without data, resources whose leaves have one way to them or two, and  *)
(* files of other producers with an overlay, memory no file backs, and        *)
(* headers with and without room.                                             *)
CellRun(tag, n) == [i \in 1..n |-> 10 * tag + (i % 7)]
PeEntry(kind, size, pointer, data) == [kind |-> kind, size |-> size, address |-> 0, pointer |-> pointer, data |-> data]
ResourceTree(second) ==
  [i \in 1..92 |->
     CASE i = 15 -> 1 [] i = 21 -> TopBit + 24 [] i = 39 -> 2 [] i = 45 -> 56 [] i = 53 -> second
       [] i = 57 -> 36864 + 88 [] i = 73 -> 36864 + 90 [] i \in 89..92 -> i
       [] i \notin {15, 21, 39, 45, 53, 57, 73} \cup (89..92) -> 0]
PlainJob ==
  [arch |-> "AMD64", code |-> CellRun(1, 5), resources |-> CellRun(2, 13), data |-> CellRun(3, 5), strongname |-> 8,
   metadata |-> CellRun(4, 12), rsrc |-> Missing, entries |-> <<PeEntry(2, 3, 0, CellRun(5, 3))>>, token |-> 6, read |-> 0]
MCImageJobs ==
  {[PlainJob EXCEPT !.arch = a, !.code = CellRun(1, c), !.resources = CellRun(2, r), !.data = CellRun(3, d), !.strongname = s] :
     a \in {"I386", "AMD64"}, c \in {2, 5}, r \in {0, 13}, d \in {0, 5}, s \in {0, 8}}
    \cup {[PlainJob EXCEPT !.arch = a, !.rsrc = r, !.entries = e, !.token = t, !.read = 5, !.strongname = 0] :
            a \in {"I386", "AMD64"}, t \in {0, 6},
            r \in {[rva |-> 36864, cells |-> ResourceTree(72)], [rva |-> 36864, cells |-> ResourceTree(56)]},
            e \in {<<>>, <<PeEntry(16, 0, 0, <<>>), PeEntry(2, 3, 0, CellRun(5, 3)), PeEntry(19, 2, 0, CellRun(6, 2))>>,
                   <<PeEntry(13, 4, 1100, <<>>)>>}}
ForeignFile(table, image, len, pieces) ==
  [head |-> [sections |-> <<[name |-> ".text", va |-> 4096, vsize |-> 200, raw |-> 512, at |-> 1024],
                            [name |-> ".data", va |-> 8192, vsize |-> 9000, raw |-> 512, at |-> 1536]>>,
             cli |-> <<4100, 72>>, debug |-> <<4300, 28>>, rsrc |-> <<0, 0>>, import |-> <<0, 0>>, iat |-> <<0, 0>>,
             reloc |-> <<0, 0>>, entry |-> 4096, image |-> image, headers |-> 1024, table |-> table,
             sectionAlignment |-> 4096, fileAlignment |-> 512],
   len |-> len,
   pieces |-> <<Piece(1028, FieldCells(72, 8 :> 4180 @@ 12 :> 8 @@ 20 :> 7)), Piece(1108, CellRun(4, 8)),
                Piece(1228, EntryCells(2, 3, 0, 1600)), Piece(1600, CellRun(5, 3))>> \o pieces]
MCOriginalImages ==
  {ForeignFile(500, 20480, 2048, <<>>), ForeignFile(500, 28672, 2085, <<Piece(2048, CellRun(8, 37))>>),
   ForeignFile(1000, 20480, 2048, <<>>), ForeignFile(500, 20480, 2048, <<Piece(530, <<1>>)>>)}
MCAddedPayloads == {CellRun(9, 5), CellRun(9, 513)}
MCAddedSymbols == {<<PeEntry(2, 5, 0, CellRun(7, 5))>>, <<PeEntry(19, 0, 0, CellRun(7, 1)), PeEntry(17, 0, 0, CellRun(8, 3))>>}
MCImagePatches ==
  {[metadata |-> CellRun(11, 12), token |-> 0], [metadata |-> CellRun(11, 8), token |-> 9], [metadata |-> Missing, token |-> 9]}

-----------------------------------------------------------------------------
(* References read from rows denote what the rows say, whatever was asked   *)
(* before, with the markers signatures gave them.                           *)
ReferencesKept == ReferencesDenoted /\ DegradedKeepsIdentity /\ MarkersKept

(* References written get one row each, and the tokens handed out read back *)
(* as what they were handed out for.                                        *)
TokensKept == TokensReadBack /\ RowsWrittenOnce /\ ReadIsWritable

(* Bodies belong to the methods of their RVA, can be written after they are *)
(* read, and read back.                                                     *)
BodiesKept == BodiesFollowRva /\ ReadBodiesAreWritable /\ BodiesReadBack

(* Every blob codec: what is written reads back, byte for byte where the    *)
(* source promises it.                                                      *)
BlobsKept == SignaturesReadBack /\ SignatureBytesKept /\ ArgumentsKept /\ MarshalKept /\ SecurityKept

(* A name written reads as the type it was written for, and a reference    *)
(* imported denotes what it denoted in its own module.                      *)
NamesKept == NamesReadBack /\ ImportsKept

(* Debug symbols: what a file holds reads back, what was read can be        *)
(* written, and other readers find what the indexes say.                    *)
SymbolsKept == MsfKept /\ CodeViewKept /\ NativePdbKept /\ MdbKept /\ PortableKept /\ ModuleKept

(* What a file is made of reads back from it, the tables under their rows   *)
(* and everything the headers point to under its address.                   *)
ImagesKept == MetadataKept /\ ImageFilesKept

(* Every analysis answers what its definition over the module says.         *)
AnalysesExact ==
  CallersExact /\ DirectionsMirror /\ DeadExact /\ ComponentsExact /\ DiffMirrors /\ DiffExact

-----------------------------------------------------------------------------
Init == ReferencesInit \/ SignaturesInit \/ BodiesInit \/ CallGraphsInit \/ UsagesInit \/ DifferencesInit \/ TypeNamesInit \/ ImportsInit \/ ArgumentsInit \/ MsfInit \/ CodeViewInit \/ NativePdbInit \/ MdbInit \/ PortableInit \/ ModuleSymbolsInit \/ MarshalInit \/ PermissionInit \/ MetadataInit \/ ImageInit
Next == ReferencesNext \/ SignaturesNext \/ BodiesNext \/ CallGraphsNext \/ UsagesNext \/ DifferencesNext \/ TypeNamesNext \/ ImportsNext \/ ArgumentsNext \/ MsfNext \/ CodeViewNext \/ NativePdbNext \/ MdbNext \/ PortableNext \/ ModuleSymbolsNext \/ MarshalNext \/ PermissionNext \/ MetadataNext \/ ImageNext
Spec == Init /\ [][Next]_vars
=============================================================================
