------------------------- MODULE MCMetadataRoundTrip -------------------------
(* Small files for TLC: one family of files per group of tables, well-formed *)
(* and damaged.                                                              *)
EXTENDS MetadataRoundTrip

Numbered(prefix, n) == [i \in 1..n |-> prefix \o ToString(i)]

Empty ==
  [types |-> <<>>, fields |-> <<>>, methods |-> <<>>, params |-> <<>>, nested |-> <<>>,
   maps |-> [k \in MemberKinds |-> <<>>], members |-> [k \in MemberKinds |-> <<>>],
   semantics |-> <<>>, gparams |-> <<>>, constraints |-> <<>>, ifaces |-> <<>>,
   impls |-> <<>>, side |-> [k \in SideKinds |-> <<>>], assembly |-> TRUE,
   refs |-> <<"mscorlib">>, files |-> <<>>, exported |-> <<>>, resources |-> <<>>]

Type(f, m)   == [fieldList |-> f, methodList |-> m]
Method(i, n, p) == [name |-> "m" \o ToString(i), arity |-> n, paramList |-> p]

(* Two types, the second with two methods; a property and an event.          *)
Plain ==
  [Empty EXCEPT
    !.types = <<Type(1, 1), Type(2, 2)>>,
    !.fields = Numbered("f", 2),
    !.methods = <<Method(1, 1, 1), Method(2, 1, 2), Method(3, 0, 3)>>,
    !.params = <<[seq |-> 1, name |-> "x"], [seq |-> 0, name |-> "y"]>>,
    !.maps = [Property |-> <<[parent |-> 2, list |-> 1]>>, Event |-> <<[parent |-> 1, list |-> 1]>>],
    !.members = [Property |-> <<"P">>, Event |-> <<"E">>],
    !.semantics = <<[sem |-> "ADD_ON", method |-> 1, assoc |-> <<"Event", 1>>],
                    [sem |-> "GETTER", method |-> 2, assoc |-> <<"Property", 1>>],
                    [sem |-> "OTHER", method |-> 3, assoc |-> <<"Property", 1>>]>>]

(* FieldList and MethodList runs, overlapping, unordered, out of range.      *)
Ranges ==
  {[Plain EXCEPT !.types = <<Type(a, 1), Type(b, c), Type(d, e)>>] :
     a \in 1..2, b \in 0..4, c \in 0..3, d \in {1, 3}, e \in {1, 4}}

(* NestedClass rows over four types, cyclic and too deep.                    *)
Nestings ==
  {[Empty EXCEPT
     !.types = [i \in 1..4 |-> Type(1, 1)],
     !.nested = LET inner == SetToSortSeq({i \in 1..4 : up[i] # 0}, <)
                IN [n \in DOMAIN inner |-> [nested |-> inner[n], enclosing |-> up[inner[n]]]]] :
     up \in [1..4 -> 0..4]}
  \cup {[Empty EXCEPT !.types = <<Type(1, 1)>>, !.nested = <<[nested |-> 1, enclosing |-> 2]>>]}

(* Param rows: return values, gaps, repeats, sequence past the arity, runs.  *)
Params ==
  {[Plain EXCEPT !.params = <<[seq |-> a, name |-> "x"], [seq |-> b, name |-> "y"],
                              [seq |-> 2, name |-> "z"]>>,
                 !.methods = <<Method(1, 1, c), Method(2, 2, d), Method(3, 1, 4)>>,
                 !.side["Constant"] = <<[parent |-> <<"Param", e>>, value |-> "k"]>>] :
     a \in 0..1, b \in 0..2, c \in 1..2, d \in 1..3, e \in 1..4}

(* GenericParam rows in any order of owner and number.                       *)
Generics ==
  {[Plain EXCEPT
     !.gparams = <<[number |-> a, owner |-> o, name |-> "T"], [number |-> b, owner |-> p, name |-> "U"],
                   [number |-> 0, owner |-> <<"TypeDef", 2>>, name |-> "V"]>>,
     !.constraints = <<[owner |-> c, type |-> "I"], [owner |-> 1, type |-> "J"]>>,
     !.side["CustomAttribute"] =
       <<[parent |-> <<"GenericParamConstraint", 2>>, value |-> "a"],
         [parent |-> <<"GenericParam", 2>>, value |-> "b"],
         [parent |-> <<"GenericParam", 1>>, value |-> "c"]>>] :
     a, b \in 0..1, o, p \in {<<"TypeDef", 1>>, <<"TypeDef", 2>>, <<"MethodDef", 1>>, <<"MethodDef", 3>>},
     c \in 1..3}

(* PropertyMap and EventMap rows and accessors.                              *)
Members ==
  {[Plain EXCEPT
     !.maps = [Property |-> <<[parent |-> a, list |-> 1], [parent |-> b, list |-> c]>>,
               Event |-> IF d = 0 THEN <<>> ELSE <<[parent |-> d, list |-> 1]>>],
     !.members = [Property |-> <<"P", "Q">>, Event |-> <<"E">>],
     !.semantics = <<[sem |-> "SETTER", method |-> e, assoc |-> <<"Property", 2>>],
                     [sem |-> "OTHER", method |-> 1, assoc |-> <<"Property", 1>>],
                     [sem |-> "FIRE", method |-> 2, assoc |-> <<"Event", f>>],
                     [sem |-> "OTHER", method |-> 3, assoc |-> <<"Property", 1>>]>>] :
     a \in 1..2, b \in 1..3, c \in 1..3, d \in 0..2, e \in {1, 4}, f \in 1..2}

(* Parents of the side tables, unsorted, unmodelled and out of range.        *)
Parents == {<<"MethodDef", 3>>, <<"Field", 1>>, <<"TypeDef", 2>>, <<"Param", 1>>, <<"Param", 2>>,
            <<"Event", 1>>, <<"Module", 1>>, <<"Assembly", 1>>, <<"AssemblyRef", 1>>,
            <<"InterfaceImpl", 2>>, <<"TypeRef", 1>>, <<"Property", 2>>}
Sides ==
  {[Plain EXCEPT
     !.ifaces = <<[class |-> 2, type |-> "I"], [class |-> 1, type |-> "J"]>>,
     !.side["CustomAttribute"] = <<[parent |-> a, value |-> "a"], [parent |-> b, value |-> "b"],
                                   [parent |-> a, value |-> "c"]>>,
     !.side["ImplMap"] = <<[parent |-> <<"MethodDef", 2>>, value |-> "d"],
                           [parent |-> <<"Field", 1>>, value |-> "e"]>>,
     !.side["DeclSecurity"] = <<[parent |-> <<"Assembly", 9>>, value |-> "s"],
                                [parent |-> <<"MethodDef", 1>>, value |-> "t"]>>,
     !.side["FieldRva"] = <<[parent |-> <<"Field", 2>>, value |-> "r"],
                            [parent |-> <<"Field", 2>>, value |-> "q"]>>] : a, b \in Parents}
  \cup {[Plain EXCEPT !.side["ClassLayout"] = <<[parent |-> <<"TypeDef", i>>, value |-> "l"]>>,
                      !.assembly = FALSE,
                      !.side["DeclSecurity"] = <<[parent |-> <<"Assembly", 1>>, value |-> "s"]>>] :
          i \in 2..3}

(* MethodImpl rows and the manifest tables.                                  *)
Manifests ==
  {[Plain EXCEPT
     !.impls = <<[class |-> 1, body |-> a, decl |-> <<"MethodDef", 2>>],
                 [class |-> 2, body |-> <<"MethodDef", 3>>, decl |-> <<"MemberRef", 1>>]>>,
     !.files = <<"lib.netmodule", "data.bin">>,
     !.exported = <<[name |-> "X", impl |-> b]>>,
     !.resources = <<[name |-> "r1", impl |-> c], [name |-> "r2", impl |-> Nil],
                     [name |-> "r3", impl |-> <<"File", 2>>]>>] :
     a \in {<<"MethodDef", 1>>, <<"MethodDef", 4>>, <<"MemberRef", 1>>},
     b \in {<<"File", 2>>, <<"AssemblyRef", 1>>, <<"ExportedType", 1>>, <<"ExportedType", 2>>},
     c \in {<<"File", 1>>, <<"File", 3>>, <<"AssemblyRef", 1>>, <<"AssemblyRef", 2>>}}

Files == Ranges \cup Nestings \cup Params \cup Generics \cup Members \cup Sides \cup Manifests

(* Well-formed Param tables in which some rows carry no name, constant,      *)
(* marshalling or attribute.                                                 *)
UnnamedParams ==
  {[Plain EXCEPT !.params = <<[seq |-> 0, name |-> a], [seq |-> 1, name |-> b],
                              [seq |-> 2, name |-> c]>>,
                 !.methods = <<Method(1, 1, 1), Method(2, d, e), Method(3, 1, 4)>>] :
     a, b, c \in {"", "x"}, d \in 2..3, e \in {1, 4}}
=============================================================================
