------------------------- MODULE MCWinRtProjections -------------------------
(* Module files for the projection engine, built from the choices that lead
   it down different paths. *)
EXTENDS WinRtProjections

Ext(ns, n, scope) == [id |-> <<ns, n>>, scope |-> scope]

Type(ns, n, prefix, flags, base, ifaces, attrs, methods, fields) ==
    [id |-> <<ns, n>>, prefix |-> prefix, flags |-> flags, base |-> base, ifaces |-> ifaces,
     attrs |-> attrs, methods |-> methods, fields |-> fields, nested |-> FALSE]

Method(owner, n, access, overrides) ==
    [owner |-> owner, name |-> n, access |-> access, flags |-> {}, overrides |-> overrides,
     treatAsPublic |-> n = "Composed"]

Iterable == Ext("WFC", "IIterable", "winmd")
Vector == Ext("WFC", "IVector", "winmd")
Usage(readable) ==
    [ctor |-> Ext("WFM", "AttributeUsageAttribute", "winmd"),
     blob |-> [readable |-> readable, targets |-> {"class"}, multiple |-> <<>>]]
Mark(ns, n) == [ctor |-> Ext(ns, n, "winmd"),
                blob |-> [readable |-> TRUE, targets |-> {}, multiple |-> <<>>]]

(* The class, with the interfaces it implements and its base. *)
Class(base, ifaces) ==
    Type("App", "Widget", "", {"winrt", "public"}, base, ifaces,
         <<Mark("WUX", "TreatAsAbstract")>>, <<1, 2>>, <<>>)

(* IIterable is defined here and implements IVector, and back when cyclic. *)
Interface(n, ifaces, k) ==
    Type("WFC", n, "", {"winrt", "public", "interface"}, NoExt, ifaces, <<>>, <<k>>, <<>>)

(* An attribute of the metadata namespace, with a usage record. *)
Attribute(n, readable) ==
    Type("WFM", n, "", {"winrt", "public"}, Ext("System", "Attribute", "mscorlib"), <<>>,
         <<Usage(TRUE), Mark("WFM", "AllowMultipleAttribute"), Usage(readable)>>, <<>>, <<>>)

Fixture(kind, corlib, base, ifaces, cyclic, attribute, readable, loose) ==
    [kind |-> kind,
     refs |-> (IF corlib THEN <<[name |-> "mscorlib", version |-> "255.0"]>> ELSE <<>>)
              \o <<[name |-> "System.Runtime", version |-> "8.0"]>>,
     types |-> <<Class(base, ifaces),
                 Interface("IIterable", <<Vector>>, 3),
                 Interface("IVector", IF cyclic THEN <<Iterable>> ELSE <<>>, 4),
                 Attribute(attribute, readable),
                 Type("App", "Color", "", {"winrt", "public"}, Ext("System", "Enum", "mscorlib"),
                      <<>>, <<>>, <<>>, <<1, 2>>),
                 Type("App", "Impl", "<CLR>", {"special"}, NoExt, <<>>, <<>>, <<>>, <<>>)>>,
     methods |-> <<Method(1, "First", "public", [k \in DOMAIN ifaces |->
                                                  [parent |-> ifaces[k], name |-> "First"]]),
                   Method(1, "Composed", "private", <<>>),
                   Method(2, "First", "public", <<>>),
                   Method(3, "GetAt", "public", <<>>)>>,
     fields |-> <<[access |-> "private", value |-> TRUE], [access |-> "public", value |-> FALSE]>>,
     loose |-> loose]

Object == Ext("System", "Object", "mscorlib")
Bases == {Object, Ext("System", "MulticastDelegate", "mscorlib"),
          Ext("System", "Attribute", "mscorlib")}

Files ==
    {Fixture(kind, TRUE, base, ifaces, TRUE, "VersionAttribute", TRUE, <<Iterable>>) :
        kind \in {"windows", "managed"}, base \in Bases,
        ifaces \in {<<Ext("App", "IOther", "winmd")>>, <<Vector, Iterable>>}}
    \cup
    {Fixture("windows", TRUE, Object, <<Vector>>, FALSE, n, readable, loose) :
        n \in {"VersionAttribute", "OtherAttribute"}, readable \in BOOLEAN,
        loose \in {<<Ext("WUI", "Color", "winmd")>>,
                   <<Iterable, Ext("SCG", "IEnumerable", "mscorlib")>>}}
    \cup {Fixture("ecma", TRUE, Object, <<Iterable>>, TRUE, "VersionAttribute", TRUE, <<>>),
          Fixture("managed", FALSE, Object, <<Iterable>>, TRUE, "VersionAttribute", TRUE, <<>>)}

(* Two threads read two files, or the same file. *)
CONSTANTS t1, t2, g1, g2
Plain == Fixture("managed", FALSE, Object, <<Iterable>>, TRUE, "VersionAttribute", TRUE, <<>>)
Apart == {<<(t1 :> g1) @@ (t2 :> g2), (t1 :> f) @@ (t2 :> Plain)>> : f \in Files}
Small == LET f == Fixture("windows", TRUE, Object, <<Vector>>, FALSE, "OtherAttribute", TRUE, <<>>)
         IN  [f EXCEPT !.types = <<f.types[5]>>, !.methods = <<>>]
Shared == {<<(t1 :> g1) @@ (t2 :> g1), (t1 :> Small) @@ (t2 :> Small)>>}
MCLoads == Apart \cup Shared
=============================================================================
