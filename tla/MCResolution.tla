---------------------------- MODULE MCResolution ----------------------------
(* Assemblies for the resolution engine: App, the primary module, derives
   from types of Lib, Lib from types of Core and of App. *)
EXTENDS ResolutionAnswers, TLC

Member(n, params) == [name |-> n, params |-> params, vararg |-> FALSE]
VarArg(n, params) == [name |-> n, params |-> params, vararg |-> TRUE]

Def(k) == [scope |-> "def", id |-> k, path |-> <<>>, name |-> None, version |-> 0]
This(path) == [scope |-> "this", id |-> None, path |-> path, name |-> None, version |-> 0]
From(n, v, path) == [scope |-> "assembly", id |-> None, path |-> path, name |-> n, version |-> v]
Net(path) == [scope |-> "module", id |-> None, path |-> path, name |-> "net", version |-> 0]
Anywhere(path) == [scope |-> "none", id |-> None, path |-> path, name |-> None, version |-> 0]

Type(path, base, members) ==
    [path |-> path, interface |-> FALSE, base |-> base, members |-> members]
Interface(path) == [path |-> path, interface |-> TRUE, base |-> None, members |-> <<>>]
Module(n, types) == [name |-> n, types |-> types, forwards |-> {}]
File(v, m) == [version |-> v, module |-> m]

(* Core 10 has the roots; Core 21 also forwards Moved to Lib. *)
Core10 == Module("Core", <<
    Type(<<"System.Object">>, None, <<Member("f", <<>>)>>),
    Type(<<"System.ValueType">>, Def(1), <<>>),
    Type(<<"Base">>, Def(2), <<Member("f", <<"i4">>), VarArg("v", <<"i4">>)>>),
    Interface(<<"IBase">>)>>)
Core21 == [Core10 EXCEPT !.forwards = {[path |-> <<"Moved">>, to |-> From("Lib", 10, <<"Moved">>)]}]

(* Lib's Mid derives from Core's Base, its Wide overloads what Base has. *)
Lib(version) == Module("Lib", <<
    Type(<<"Mid">>, From("Core", version, <<"Base">>), <<Member("g", <<>>)>>),
    Type(<<"Mid", "Wide">>, Def(1), <<Member("f", <<"i8">>)>>),
    Type(<<"Lost">>, From("Gone", 10, <<"Base">>), <<>>),
    Type(<<"Moved">>, Def(1), <<>>)>>)

(* App: Leaf derives from Lib, Loop from itself by way of Pool, Heir from what
   Core may forward. *)
App == Module("App", <<
    Type(<<"Leaf">>, From("Lib", 10, <<"Mid", "Wide">>), <<>>),
    Type(<<"Loop">>, Def(3), <<>>),
    Type(<<"Pool">>, This(<<"Loop">>), <<Member("f", <<>>)>>),
    Type(<<"Heir">>, From("Core", 10, <<"Moved">>), <<>>)>>)
Netmodule == Module("net", <<Type(<<"Part">>, From("Core", 10, <<"System.Object">>), <<Member("g", <<>>)>>)>>)

Nothing == [n \in {"Core", "Lib", "Gone"} |-> None]
Both(core, lib) == [Nothing EXCEPT !["Core"] = core, !["Lib"] = lib]

World(satellites, disk) == [primary |-> App, satellites |-> satellites, disk |-> disk]

MCWorlds == {
    World(<<Netmodule>>, <<Both(File(10, Core10), File(10, Lib(10)))>>),
    World(<<>>, <<Both(File(10, Core10), None), Both(File(21, Core21), File(10, Lib(10)))>>),
    World(<<>>, <<Both(File(9, Core10), File(10, Lib(21))), Both(File(12, Core21), None)>>),
    World(<<Netmodule>>, <<Both(File(None, Core10), File(10, Lib(10))), Both(File(None, None), None)>>),
    World(<<>>, <<Nothing, Both(File(10, Core10), File(10, None))>>)}

Query(kind, ref, wanted) == [kind |-> kind, ref |-> ref, member |-> wanted]
Call(n, params, start) ==
    [name |-> n, params |-> params, vararg |-> start # None, start |-> start]

MCQueries == {
    Query("type", From("Core", 10, <<"Moved">>), None),
    Query("type", Net(<<"Part">>), None),
    Query("type", Anywhere(<<"Base">>), None),
    Query("member", Def(1), Call("f", <<"i4">>, None)),
    Query("member", Def(1), Call("v", <<"i4", "i8">>, 1)),
    Query("member", Def(4), Call("g", <<>>, None)),
    Query("member", This(<<"Loop">>), Call("g", <<>>, None)),
    Query("valuetype", From("Lib", 10, <<"Mid">>), None),
    Query("valuetype", From("Lib", 10, <<"Lost">>), None),
    Query("valuetype", From("Core", 10, <<"IBase">>), None)}

(* The winner of one pass over versions, against the pass itself. *)
ASSUME PassAssumption ==
    \A v \in [1..3 -> 0..3], floor \in 0..3 :
        LET pass[k \in 1..3] ==
                IF k = 1 THEN 1
                ELSE IF TakesOver(v[k], v[pass[k - 1]], floor) THEN k ELSE pass[k - 1]
        IN  \A j \in 1..3 : Withstands(pass[3], v[pass[3]], j, v[j], floor)
=============================================================================
