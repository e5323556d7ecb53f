-------------------------- MODULE WinRtProjections --------------------------
(***************************************************************************)
(* The Windows Runtime projection engine of cecil-rs (winrt.rs).  A module *)
(* is rewritten in place between its Windows Metadata spelling and its CLR *)
(* spelling; what is needed to go back is kept in one process-wide store,  *)
(* a mutex around a map keyed by the module's guid (its MVID).             *)
(*                                                                         *)
(* Each thread owns one module (the functions take &mut Module) and all    *)
(* share the store.  An apply takes the lock twice, to look and, several   *)
(* passes later, to insert; a remove takes it once.  Every pass of a call  *)
(* is an action.  Identities stand for (namespace, name) pairs, a type     *)
(* reference is an identity and a scope, and everything else that mentions *)
(* types (signatures, operands, constraints, marshalling) is the sequence  *)
(* "loose" of the references it mentions.                                  *)
(***************************************************************************)
EXTENDS Integers, Sequences, SequencesExt, FiniteSets, TLC

CONSTANTS
    Threads,     \* each has one module in memory
    Guids,
    Loads,       \* what is read: pairs of the guid and the module of each thread
    MaxCalls     \* calls made on a module after it is read (bound)

ASSUME BoundAssumption == MaxCalls \in Nat \ {0}
ASSUME FiniteAssumption == IsFiniteSet(Threads) /\ IsFiniteSet(Guids)

IsSequence(s) == s \in Seq(Range(s))

(* What a module is: type i lists methods of the module, a method has the
   type that declares it as its owner. *)
IsType(ty, m) ==
    /\ DOMAIN ty = {"id", "prefix", "flags", "base", "ifaces", "attrs", "methods", "fields", "nested"}
    /\ IsSequence(ty.attrs) /\ \A j \in DOMAIN ty.attrs : DOMAIN ty.attrs[j] = {"ctor", "blob"}
    /\ IsSequence(ty.methods) /\ Range(ty.methods) \subseteq DOMAIN m.methods
    /\ IsSequence(ty.ifaces)

IsMethod(meth, m) ==
    /\ DOMAIN meth = {"owner", "name", "access", "flags", "overrides", "treatAsPublic"}
    /\ meth.owner \in DOMAIN m.types
    /\ IsSequence(meth.overrides)
    /\ \A j \in DOMAIN meth.overrides : DOMAIN meth.overrides[j] = {"parent", "name"}

IsField(f) == f = [access |-> f.access, value |-> f.value]

IsModule(m) ==
    /\ DOMAIN m = {"kind", "refs", "types", "methods", "fields", "loose"}
    /\ IsSequence(m.types) /\ \A i \in DOMAIN m.types : IsType(m.types[i], m)
    /\ IsSequence(m.methods) /\ \A k \in DOMAIN m.methods : IsMethod(m.methods[k], m)
    /\ IsSequence(m.fields) /\ \A f \in DOMAIN m.fields : IsField(m.fields[f])
    /\ IsSequence(m.refs) /\ \A k \in DOMAIN m.refs : DOMAIN m.refs[k] = {"name", "version"}
    /\ IsSequence(m.loose)

(* One guid is one file. *)
ASSUME LoadsAssumption ==
    \A l \in Loads :
        /\ l[1] \in [Threads -> Guids]
        /\ l[2] = [t \in Threads |-> l[2][t]] /\ \A t \in Threads : IsModule(l[2][t])
        /\ \A a, b \in Threads : l[1][a] = l[1][b] => l[2][a] = l[2][b]

VARIABLES
    mods,        \* thread -> its module
    guid,        \* thread -> its module's guid
    store,       \* guid -> record, of the guids that have one
    pc,          \* thread -> the pass it is in, "idle" between calls
    rec,         \* thread -> the record it builds or uses, of those that have one
    work,        \* thread -> what its pass over the types keeps between steps
    calls,       \* thread -> number of calls since the module was read
    log,         \* thread -> outcomes of those calls that did something (history)
    disk         \* thread -> its module as read (history)

vars == <<mods, guid, store, pc, rec, work, calls, log, disk>>

(* A map with one entry set, and with one taken out. *)
With(f, x, v) == [y \in DOMAIN f \cup {x} |-> IF y = x THEN v ELSE f[y]]
Without(f, x) == [y \in DOMAIN f \ {x} |-> f[y]]

(* The elements of s at some positions, in order: what retain keeps. *)
Picked(s, at) ==
    [n \in 1..Cardinality(at) |-> s[CHOOSE k \in at : Cardinality({j \in at : j <= k}) = n]]

----------------------------------------------------------------------------
(* The table of well-known types, by WinRT name. *)

NoExt == [id |-> <<"", "">>, scope |-> "none"]

Projection ==
    [n \in {"IIterable", "IVector", "Color", "AttributeUsageAttribute"} |->
        CASE n = "IIterable" -> [winrt |-> "WFC", clr |-> <<"SCG", "IEnumerable">>, attribute |-> FALSE]
          [] n = "IVector"   -> [winrt |-> "WFC", clr |-> <<"SCG", "IList">>, attribute |-> FALSE]
          [] n = "Color"     -> [winrt |-> "WUI", clr |-> <<"WUI", "Color">>, attribute |-> FALSE]
          [] OTHER           -> [winrt |-> "WFM", clr |-> <<"System", n>>, attribute |-> TRUE]]

VirtualNames == <<"System.Runtime", "System.Runtime.WindowsRuntime">>

(* How a reference projects: the table first, then the two special bases. *)
Treatment(e) ==
    IF e.id[2] \in DOMAIN Projection /\ Projection[e.id[2]].winrt = e.id[1]
    THEN "UseProjectionInfo"
    ELSE IF e.id \in {<<"System", "MulticastDelegate">>, <<"System", "Attribute">>}
         THEN "System" ELSE "None"

Projected(e) ==
    CASE Treatment(e) = "None" -> e
      [] Treatment(e) = "System" -> [e EXCEPT !.scope = "System.Runtime"]
      [] OTHER -> [id |-> Projection[e.id[2]].clr,
                   scope |-> IF e.id[2] = "Color" THEN "System.Runtime.WindowsRuntime"
                                                  ELSE "System.Runtime"]

(* The references of a module, in the order for_each_external visits them:
   types with the methods they list, then what the rest mentions. *)
Externals(m) ==
    LET ofMethod(k) == [j \in 1..Len(m.methods[k].overrides) |-> m.methods[k].overrides[j].parent]
        ofType(i) == LET t == m.types[i] IN
            <<t.base>> \o t.ifaces \o [j \in 1..Len(t.attrs) |-> t.attrs[j].ctor]
                \o FlattenSeq([j \in 1..Len(t.methods) |-> ofMethod(t.methods[j])])
    IN  FlattenSeq([i \in 1..Len(m.types) |-> ofType(i)]) \o m.loose

(* What is read is records, and no type implements one that keeps its name
   when it is projected: the types the table does not rename are structures. *)
IsRecord(r) == r = [f \in DOMAIN r |-> r[f]]

IsFile(m) ==
    /\ \A i \in DOMAIN m.types : LET ty == m.types[i] IN
          /\ IsRecord(ty) /\ \A j \in DOMAIN ty.attrs : IsRecord(ty.attrs[j])
          /\ \A k \in DOMAIN ty.ifaces : LET e == ty.ifaces[k] IN
                Treatment(e) = "UseProjectionInfo" => Projected(e).id # e.id
    /\ \A k \in DOMAIN m.methods :
          /\ IsRecord(m.methods[k])
          /\ \A j \in DOMAIN m.methods[k].overrides : IsRecord(m.methods[k].overrides[j])
    /\ \A k \in DOMAIN m.refs : IsRecord(m.refs[k])
    /\ \A e \in Range(Externals(m)) : DOMAIN e = {"id", "scope"}

ASSUME FilesAssumption == \A l \in Loads : \A t \in Threads : IsFile(l[2][t])

ListedMethods(m) == UNION {Range(m.types[i].methods) : i \in 1..Len(m.types)}

(* A method whose overrides name what R makes of the interfaces they named. *)
Reparented(meth, R(_)) ==
    [meth EXCEPT !.overrides =
        [j \in DOMAIN @ |-> [meth.overrides[j] EXCEPT !.parent = R(meth.overrides[j].parent)]]]

(* Every reference the walk reaches, replaced through R; methods no type
   lists are not reached. *)
Rewritten(m, R(_)) ==
    LET all(s) == [j \in DOMAIN s |-> R(s[j])]
        attribute(a) == [a EXCEPT !.ctor = R(a.ctor)]
        type(ty) == [ty EXCEPT !.base = R(ty.base), !.ifaces = all(ty.ifaces),
                               !.attrs = [j \in DOMAIN ty.attrs |-> attribute(ty.attrs[j])]]
    IN  [m EXCEPT
          !.types = [i \in DOMAIN m.types |-> type(m.types[i])],
          !.methods = [k \in DOMAIN m.methods |->
             IF k \in ListedMethods(m) THEN Reparented(m.methods[k], R) ELSE m.methods[k]],
          !.loose = all(m.loose)]

(* The inverse map: the original of each projected reference, under the
   identity it has afterwards; the last one visited stays. *)
ReferenceRecords(m) ==
    LET es == Externals(m)
        treated == {k \in DOMAIN es : Treatment(es[k]) # "None"}
        last(id) == es[Max({k \in treated : Projected(es[k]).id = id})]
    IN  [id \in {Projected(es[k]).id : k \in treated} |->
            [orig |-> last(id), treatment |-> Treatment(last(id))]]

Restored(e, refs) == IF e.id \in DOMAIN refs THEN refs[e.id].orig ELSE e

IsRedirected(e, refs) ==
    e.id \in DOMAIN refs /\ refs[e.id].treatment = "UseProjectionInfo"

----------------------------------------------------------------------------
(* Type definitions. *)

EmptyRecord(version, serial) ==
    [version |-> version, serial |-> serial, refs |-> <<>>, types |-> <<>>,
     methods |-> <<>>, fields |-> <<>>, attrs |-> <<>>, added |-> {}]

HasAttribute(t, id) == \E j \in DOMAIN t.attrs : t.attrs[j].ctor.id = id

IsClrImplementation(t) ==
    "public" \notin t.flags /\ "special" \in t.flags /\ t.prefix = "<CLR>"

NeedsPrefix(t) ==
    /\ "public" \in t.flags /\ "interface" \notin t.flags
    /\ t.base # NoExt
    /\ t.base.id \notin {<<"System", n>> : n \in {"Attribute", "MulticastDelegate", "ValueType"}}

WellKnownTreatment(t) ==
    IF t.prefix # "" \/ t.id[2] \notin DOMAIN Projection THEN {}
    ELSE LET row == Projection[t.id[2]]
             kind == IF row.attribute THEN "RedirectToClrAttribute" ELSE "RedirectToClrType"
         IN  IF t.id[1] = row.clr[1] THEN {kind}
             ELSE IF t.id[1] = row.winrt THEN {kind, "Internal"} ELSE {}

(* The treatment of a type as a set: its kind and the modifiers.  The kind
   "Redirect" is what the interface test of an ordinary class decides. *)
TypeTreatment(m, t, refs) ==
    LET kind ==
          IF "winrt" \in t.flags /\ m.kind = "windows"
          THEN IF WellKnownTreatment(t) # {} THEN WellKnownTreatment(t)
               ELSE IF t.base.id = <<"System", "Attribute">> THEN {"NormalAttribute"}
               ELSE IF \E j \in DOMAIN t.ifaces : IsRedirected(t.ifaces[j], refs)
                    THEN {"Redirect"} ELSE {"NormalType"}
          ELSE IF "winrt" \in t.flags
          THEN IF NeedsPrefix(t) THEN {"Prefix"} ELSE {}
          ELSE IF m.kind = "managed" /\ IsClrImplementation(t) THEN {"Unmangle"} ELSE {}
        composable == /\ kind \cap {"Prefix", "NormalType"} # {}
                      /\ "interface" \notin t.flags
                      /\ HasAttribute(t, <<"WUX", "TreatAsAbstract">>)
    IN  kind \cup (IF composable THEN {"Abstract"} ELSE {})

(* The edit a treatment makes to the type's own flags and name. *)
EditedType(t, treatment) ==
    LET kind(k) == k \in treatment
        add == (IF kind("NormalType") \/ kind("Redirect") THEN {"winrt", "import"} ELSE {})
               \cup (IF kind("NormalAttribute") THEN {"winrt", "sealed"} ELSE {})
               \cup (IF kind("Unmangle") THEN {"public"} ELSE {})
               \cup (IF kind("Prefix") \/ kind("RedirectToClrType") THEN {"import"} ELSE {})
               \cup (IF kind("Abstract") THEN {"abstract"} ELSE {})
        drop == (IF kind("Unmangle") THEN {"special"} ELSE {})
                \cup (IF treatment \cap {"Prefix", "RedirectToClrType",
                                         "RedirectToClrAttribute", "Internal"} # {}
                      THEN {"public"} ELSE {})
    IN  [t EXCEPT !.flags = (@ \ drop) \cup add,
                  !.prefix = IF kind("Unmangle") THEN "" ELSE IF kind("Prefix") THEN "<WinRT>" ELSE @]

(* Mutant of Resolved: without the second attempt, by the original name. *)
ResolvedAsIs(m, e, refs) ==
    LET named == {i \in 1..Len(m.types) : m.types[i].id = e.id /\ m.types[i].prefix = ""}
    IN  IF named = {} THEN 0 ELSE CHOOSE i \in named : \A j \in named : i <= j

(* The local definition a reference names, as it is or as it was before it
   was projected; 0 when there is none. *)
Resolved(m, e, refs) ==
    LET named(x) == {i \in 1..Len(m.types) : m.types[i].id = x.id /\ m.types[i].prefix = ""}
        found == IF named(e) # {} THEN named(e) ELSE named(Restored(e, refs))
    IN  IF found = {} THEN 0 ELSE CHOOSE i \in found : \A j \in found : i <= j

RedirectedInterfaces(t, refs) ==
    Picked(t.ifaces, {k \in DOMAIN t.ifaces : IsRedirected(t.ifaces[k], refs)})

(* One method per method of an interface of the closure, implementing it. *)
GeneratedMethods(m, owner, e, refs) ==
    LET d == Resolved(m, e, refs)
        name(j) == m.methods[m.types[d].methods[j]].name
    IN  IF d = 0 \/ "interface" \in m.types[owner].flags THEN <<>>
        ELSE [j \in 1..Len(m.types[d].methods) |->
                [owner |-> owner, name |-> name(j), access |-> "public",
                 flags |-> {"virtual", "final", "newslot", "runtime"}, treatAsPublic |-> FALSE,
                 overrides |-> <<[parent |-> e, name |-> name(j)]>>]]

(* Overrides of the methods type i lists whose declaring interface is "from"
   are made to name "to". *)
Rewired(m, i, from, to) ==
    LET swap(e) == IF e = from THEN to ELSE e
    IN  [m EXCEPT !.methods = [k \in DOMAIN @ |->
            IF k \in Range(m.types[i].methods)
            THEN Reparented(m.methods[k], swap) ELSE m.methods[k]]]

TypeRecord(t, treatment, pairs, added) ==
    [flags |-> t.flags, prefix |-> t.prefix, treatment |-> treatment,
     pairs |-> pairs, added |-> added]

(* What removal does to one recorded type before it takes its pairs back. *)
UnprojectedType(ty, r) ==
    LET own == Picked(ty.methods, {k \in DOMAIN ty.methods : ty.methods[k] \notin r.added})
    IN  [ty EXCEPT !.flags = r.flags, !.prefix = r.prefix,
                   !.methods = IF "Redirect" \in r.treatment THEN own ELSE @]

(* A sequence without the first, or the last, element that passes a test. *)
WithoutFirst(s, Test(_)) ==
    LET hits == {k \in DOMAIN s : Test(s[k])} IN IF hits = {} THEN s ELSE RemoveAt(s, Min(hits))
WithoutLast(s, Test(_)) ==
    LET hits == {k \in DOMAIN s : Test(s[k])} IN IF hits = {} THEN s ELSE RemoveAt(s, Max(hits))

----------------------------------------------------------------------------
(* Methods, fields and attribute records. *)

ImplementsRedirected(o, refs) ==
    /\ o.parent # NoExt
    /\ \E p \in DOMAIN refs : /\ refs[p].treatment = "UseProjectionInfo"
                              /\ refs[p].orig.id = o.parent.id

MethodTreatment(m, k, refs) ==
    LET meth == m.methods[k]
        t == m.types[meth.owner]
        fromAttributes == IF meth.treatAsPublic THEN {"public", "abstract"} ELSE {}
        onlyRedirected ==
            /\ meth.overrides # <<>>
            /\ \A j \in DOMAIN meth.overrides : ImplementsRedirected(meth.overrides[j], refs)
    IN  IF "winrt" \notin t.flags \/ IsClrImplementation(t) \/ t.nested THEN {}
        ELSE IF "interface" \in t.flags THEN {"runtime", "internalcall"}
        ELSE IF m.kind = "managed" /\ meth.access # "public" THEN {}
        ELSE IF t.base.id = <<"System", "MulticastDelegate">> THEN {"runtime", "public"}
        ELSE IF t.base.id = <<"System", "Attribute">> THEN {"runtime", "internalcall"}
        ELSE IF onlyRedirected THEN {"runtime", "internalcall", "private"}
        ELSE fromAttributes

EditedMethod(meth, treatment) ==
    [meth EXCEPT !.access = IF "public" \in treatment THEN "public"
                            ELSE IF "private" \in treatment THEN "private" ELSE @,
                 !.flags = @ \cup (treatment \cap {"abstract", "runtime", "internalcall"})]

(* The value__ fields of the enums. *)
EnumFields(m) ==
    IF m.kind # "windows" THEN {}
    ELSE {f \in UNION {Range(m.types[i].fields) :
                        i \in {x \in 1..Len(m.types) : m.types[x].base.id = <<"System", "Enum">>}} :
            m.fields[f].value}

(* AttributeUsage records, in order, up to the first one whose blob cannot
   be parsed. *)
UsageRecords(m) ==
    LET ofType(i) == SelectSeq([j \in 1..Len(m.types[i].attrs) |-> <<i, j>>],
                        LAMBDA x : m.types[i].attrs[x[2]].ctor.id = <<"System", "AttributeUsageAttribute">>)
    IN  FlattenSeq([i \in 1..Len(m.types) |-> ofType(i)])

BlobAt(m, x) == m.types[x[1]].attrs[x[2]].blob

PatchedBlob(t, blob) ==
    LET special == t.prefix = "" /\ t.id \in {<<"WFM", "VersionAttribute">>, <<"WFM", "DeprecatedAttribute">>}
        many == special \/ HasAttribute(t, <<"WFM", "AllowMultipleAttribute">>)
    IN  [blob EXCEPT !.targets = IF special THEN @ \cup {"ctor", "property"} ELSE @,
                     !.multiple = Append(@, many)]

SetBlobs(m, blobs) ==
    LET attribute(i, j) ==
            IF <<i, j>> \in DOMAIN blobs
            THEN [m.types[i].attrs[j] EXCEPT !.blob = blobs[<<i, j>>]] ELSE m.types[i].attrs[j]
    IN  [m EXCEPT !.types = [i \in DOMAIN m.types |->
            [m.types[i] EXCEPT !.attrs = [j \in DOMAIN @ |-> attribute(i, j)]]]]

----------------------------------------------------------------------------
AtRest == [at |-> 1, stack |-> <<>>, closure |-> <<>>, generated |-> <<>>, pairs |-> <<>>]

Init ==
    /\ \E l \in Loads : guid = l[1] /\ disk = l[2]
    /\ mods = disk
    /\ store = <<>>
    /\ pc = [t \in Threads |-> "idle"]
    /\ rec = <<>>
    /\ work = [t \in Threads |-> AtRest]
    /\ calls = [t \in Threads |-> 0]
    /\ log = [t \in Threads |-> <<>>]

Calls(t) == pc[t] = "idle" /\ calls[t] < MaxCalls

(* A call that did nothing returns; one that did something is also noted. *)
Declines(t) ==
    /\ pc' = [pc EXCEPT ![t] = "idle"]
    /\ calls' = [calls EXCEPT ![t] = @ + 1]
    /\ UNCHANGED log
Returns(t, outcome) ==
    /\ pc' = [pc EXCEPT ![t] = "idle"]
    /\ calls' = [calls EXCEPT ![t] = @ + 1]
    /\ log' = [log EXCEPT ![t] = Append(@, outcome)]

Goto(t, label) == pc' = [pc EXCEPT ![t] = label] /\ UNCHANGED <<calls, log>>

(* A name no record now in the store or with a thread has (history). *)
FreshSerial ==
    CHOOSE n \in 0..Cardinality(Guids) + Cardinality(Threads) :
        \A r \in Range(store) \cup Range(rec) : r.serial # n

(* apply_projections: the look into the store, under the lock. *)
CheckNotApplied(t) ==
    /\ Calls(t)
    /\ IF mods[t].kind = "ecma" \/ guid[t] \in DOMAIN store
       THEN Declines(t) ELSE Goto(t, "virtual")
    /\ UNCHANGED <<mods, guid, store, rec, work, disk>>

AddVirtualReferences(t) ==
    LET refs == mods[t].refs
        hits == {k \in DOMAIN refs : refs[k].name = "mscorlib"}
        added == [v \in DOMAIN VirtualNames |-> [name |-> VirtualNames[v], version |-> "4.0"]]
    IN  /\ pc[t] = "virtual"
        /\ IF hits = {}
           THEN Declines(t) /\ UNCHANGED <<mods, rec, work>>
           ELSE /\ mods' = [mods EXCEPT ![t].refs = [refs EXCEPT ![Min(hits)].version = "4.0"] \o added]
                /\ rec' = With(rec, t, EmptyRecord(refs[Min(hits)].version, FreshSerial))
                /\ work' = [work EXCEPT ![t] = AtRest]
                /\ Goto(t, "references")
        /\ UNCHANGED <<guid, store, disk>>

ProjectTypeReferences(t) ==
    /\ pc[t] = "references"
    /\ rec' = [rec EXCEPT ![t].refs = ReferenceRecords(mods[t])]
    /\ mods' = [mods EXCEPT ![t] = Rewritten(mods[t], Projected)]
    /\ Goto(t, "types")
    /\ UNCHANGED <<guid, store, work, disk>>

(* One type; a class that implements a projected interface goes on to
   collect the closure of its interfaces. *)
ProjectTypeDefinition(t) ==
    LET i == work[t].at
        ty == mods[t].types[i]
        treatment == TypeTreatment(mods[t], ty, rec[t].refs)
    IN  /\ pc[t] = "types" /\ i <= Len(mods[t].types)
        /\ IF "Redirect" \in treatment
           THEN /\ work' = [work EXCEPT ![t] = [AtRest EXCEPT
                              !.at = i, !.stack = RedirectedInterfaces(ty, rec[t].refs)]]
                /\ Goto(t, "closure")
                /\ UNCHANGED <<mods, rec>>
           ELSE /\ work' = [work EXCEPT ![t].at = i + 1]
                /\ mods' = [mods EXCEPT ![t].types[i] = EditedType(ty, treatment)]
                /\ rec' = IF treatment = {} THEN rec
                          ELSE [rec EXCEPT ![t].types = With(@, i, TypeRecord(ty, treatment, <<>>, {}))]
                /\ UNCHANGED <<pc, calls, log>>
        /\ UNCHANGED <<guid, store, disk>>

(* Mutant of CollectInterface: only interfaces without a definition here are
   remembered. *)
CollectInterfaceForgetful(t) ==
    LET e == Head(work[t].stack)
        d == Resolved(mods[t], e, rec[t].refs)
    IN  /\ pc[t] = "closure" /\ work[t].stack # <<>>
        /\ work' = [work EXCEPT
                      ![t].closure = IF d = 0 THEN Append(@, e) ELSE @,
                      ![t].stack = (IF d = 0 THEN <<>> ELSE mods[t].types[d].ifaces) \o Tail(@)]
        /\ UNCHANGED <<mods, guid, store, pc, rec, calls, log, disk>>

(* collect_implemented_interfaces, depth first: an interface is added once,
   with the methods that implement it, and what its local definition
   implements is visited next. *)
CollectInterface(t) ==
    LET e == Head(work[t].stack)
        d == Resolved(mods[t], e, rec[t].refs)
        implementing == GeneratedMethods(mods[t], work[t].at, e, rec[t].refs)
    IN  /\ pc[t] = "closure" /\ work[t].stack # <<>>
        /\ work' =
             IF e \in Range(work[t].closure)
             THEN [work EXCEPT ![t].stack = Tail(@)]
             ELSE [work EXCEPT
                    ![t].closure = Append(@, e),
                    ![t].generated = @ \o implementing,
                    ![t].stack = (IF d = 0 THEN <<>> ELSE mods[t].types[d].ifaces) \o Tail(@)]
        /\ UNCHANGED <<mods, guid, store, pc, rec, calls, log, disk>>

(* The redirect arm: the type is recorded and gets duplicates of the
   original interfaces. *)
RedirectType(t) ==
    LET i == work[t].at
        ty == mods[t].types[i]
        redirected == RedirectedInterfaces(ty, rec[t].refs)
        original(k) == Restored(redirected[k], rec[t].refs)
        pairs == [k \in DOMAIN redirected |-> <<redirected[k], original(k)>>]
    IN  /\ pc[t] = "closure" /\ work[t].stack = <<>>
        /\ mods' = [mods EXCEPT ![t].types[i] =
                      [EditedType(ty, {"Redirect"}) EXCEPT
                          !.ifaces = @ \o [k \in DOMAIN redirected |-> original(k)]]]
        /\ rec' = [rec EXCEPT ![t].types = With(@, i, TypeRecord(ty, {"Redirect"}, pairs, {}))]
        /\ work' = [work EXCEPT ![t].pairs = pairs]
        /\ Goto(t, "rewire")
        /\ UNCHANGED <<guid, store, disk>>

(* One pair: overrides of the projected interface name the duplicate. *)
RewirePair(t) ==
    /\ pc[t] = "rewire" /\ work[t].pairs # <<>>
    /\ LET pair == Head(work[t].pairs)
       IN  mods' = [mods EXCEPT ![t] = Rewired(mods[t], work[t].at, pair[1], pair[2])]
    /\ work' = [work EXCEPT ![t].pairs = Tail(@)]
    /\ UNCHANGED <<guid, store, pc, rec, calls, log, disk>>

AppendGenerated(t) ==
    LET i == work[t].at
        n == Len(mods[t].methods)
        handles == [k \in DOMAIN work[t].generated |-> n + k]
        r == rec[t].types[i]
    IN  /\ pc[t] = "rewire" /\ work[t].pairs = <<>>
        /\ mods' = [mods EXCEPT ![t].methods = @ \o work[t].generated,
                                ![t].types[i].methods = @ \o handles]
        /\ rec' = [rec EXCEPT
              ![t].types = With(@, i, [r EXCEPT !.added = Range(handles)]),
              ![t].added = @ \cup Range(handles)]
        /\ work' = [work EXCEPT ![t] = [AtRest EXCEPT !.at = i + 1]]
        /\ Goto(t, "types")
        /\ UNCHANGED <<guid, store, disk>>

(* Mutant of ProjectFields: the fields are edited and not recorded. *)
ProjectFieldsUnrecorded(t) ==
    /\ pc[t] = "types" /\ work[t].at > Len(mods[t].types)
    /\ mods' = [mods EXCEPT ![t].fields =
          [f \in DOMAIN @ |-> IF f \in EnumFields(mods[t]) THEN [@[f] EXCEPT !.access = "public"] ELSE @[f]]]
    /\ Goto(t, "methods")
    /\ UNCHANGED <<guid, store, rec, work, disk>>

ProjectFields(t) ==
    LET fs == EnumFields(mods[t])
        old == mods[t].fields
    IN  /\ pc[t] = "types" /\ work[t].at > Len(mods[t].types)
        /\ rec' = [rec EXCEPT ![t].fields = [f \in fs |-> old[f].access]]
        /\ mods' = [mods EXCEPT ![t].fields =
             [f \in DOMAIN old |-> IF f \in fs THEN [old[f] EXCEPT !.access = "public"] ELSE old[f]]]
        /\ Goto(t, "methods")
        /\ UNCHANGED <<guid, store, work, disk>>

ProjectMethods(t) ==
    LET m == mods[t]
        treatment(k) == IF k \in rec[t].added THEN {} ELSE MethodTreatment(m, k, rec[t].refs)
        treated == {k \in DOMAIN m.methods : treatment(k) # {}}
    IN  /\ pc[t] = "methods"
        /\ mods' = [mods EXCEPT ![t].methods =
                      [k \in DOMAIN m.methods |-> EditedMethod(m.methods[k], treatment(k))]]
        /\ rec' = [rec EXCEPT ![t].methods =
                     [k \in treated |-> [access |-> m.methods[k].access, flags |-> m.methods[k].flags]]]
        /\ Goto(t, "attributes")
        /\ UNCHANGED <<guid, store, work, disk>>

(* The records before the first unreadable blob are patched; on one the
   call fails, and nothing is undone. *)
ProjectAttributeRecords(t) ==
    LET m == mods[t]
        all == UsageRecords(m)
        bad == {k \in DOMAIN all : ~BlobAt(m, all[k]).readable}
        done == {all[k] : k \in {x \in DOMAIN all : \A y \in bad : x < y}}
    IN  /\ pc[t] = "attributes"
        /\ mods' = [mods EXCEPT ![t] =
                      SetBlobs(m, [x \in done |-> PatchedBlob(m.types[x[1]], BlobAt(m, x))])]
        /\ IF bad = {}
           THEN /\ rec' = [rec EXCEPT ![t].attrs = [x \in done |-> BlobAt(m, x)]]
                /\ Goto(t, "insert")
           ELSE /\ rec' = Without(rec, t)
                /\ Returns(t, "failed")
        /\ UNCHANGED <<guid, store, work, disk>>

(* Mutant of InsertRecord: the thread keeps what it inserted. *)
InsertRecordKept(t) ==
    /\ pc[t] = "insert"
    /\ store' = With(store, guid[t], rec[t])
    /\ Returns(t, "applied")
    /\ UNCHANGED <<mods, guid, rec, work, disk>>

(* The second time apply_projections takes the lock. *)
InsertRecord(t) ==
    /\ pc[t] = "insert"
    /\ store' = With(store, guid[t], rec[t])
    /\ rec' = Without(rec, t)
    /\ Returns(t, "applied")
    /\ UNCHANGED <<mods, guid, work, disk>>

(* Mutant of TakeRecord: the record is copied and not removed. *)
TakeRecordCopied(t) ==
    /\ Calls(t)
    /\ IF guid[t] \in DOMAIN store
       THEN rec' = With(rec, t, store[guid[t]]) /\ Goto(t, "restore")
       ELSE Declines(t) /\ UNCHANGED rec
    /\ UNCHANGED <<mods, guid, store, work, disk>>

(* remove_projections: the record leaves the store under the lock. *)
TakeRecord(t) ==
    /\ Calls(t)
    /\ IF guid[t] \in DOMAIN store
       THEN /\ rec' = With(rec, t, store[guid[t]])
            /\ store' = Without(store, guid[t])
            /\ Goto(t, "restore")
       ELSE Declines(t) /\ UNCHANGED <<store, rec>>
    /\ UNCHANGED <<mods, guid, work, disk>>

RestoreMembers(t) ==
    LET r == rec[t]
        m == SetBlobs(mods[t], r.attrs)
        field(f) == IF f \in DOMAIN r.fields THEN [m.fields[f] EXCEPT !.access = r.fields[f]]
                    ELSE m.fields[f]
        method(k) == IF k \in DOMAIN r.methods
                     THEN [m.methods[k] EXCEPT !.access = r.methods[k].access,
                                               !.flags = r.methods[k].flags]
                     ELSE m.methods[k]
    IN  /\ pc[t] = "restore"
        /\ mods' = [mods EXCEPT ![t] = [m EXCEPT !.fields = [f \in DOMAIN m.fields |-> field(f)],
                                                 !.methods = [k \in DOMAIN m.methods |-> method(k)]]]
        /\ work' = [work EXCEPT ![t] = AtRest]
        /\ Goto(t, "untypes")
        /\ UNCHANGED <<guid, store, rec, disk>>

(* One type; of a redirected one the pairs follow, the last one first. *)
RestoreType(t) ==
    LET i == work[t].at
        r == rec[t].types[i]
    IN  /\ pc[t] = "untypes" /\ i <= Len(mods[t].types)
        /\ mods' = IF i \in DOMAIN rec[t].types
                   THEN [mods EXCEPT ![t].types[i] = UnprojectedType(mods[t].types[i], r)] ELSE mods
        /\ IF i \in DOMAIN rec[t].types /\ "Redirect" \in r.treatment
           THEN /\ work' = [work EXCEPT ![t].pairs = Reverse(r.pairs)]
                /\ Goto(t, "unwire")
           ELSE /\ work' = [work EXCEPT ![t].at = i + 1]
                /\ UNCHANGED <<pc, calls, log>>
        /\ UNCHANGED <<guid, store, rec, disk>>

(* One pair: overrides of the duplicate name the projected interface again,
   and the duplicate goes. *)
UnwirePair(t) ==
    LET i == work[t].at
        pair == Head(work[t].pairs)
        duplicate(e) == e = pair[2]
        m == Rewired(mods[t], i, pair[2], pair[1])
    IN  /\ pc[t] = "unwire" /\ work[t].pairs # <<>>
        /\ mods' = [mods EXCEPT ![t] =
                      [m EXCEPT !.types[i].ifaces = WithoutFirst(mods[t].types[i].ifaces, duplicate)]]
        /\ work' = [work EXCEPT ![t].pairs = Tail(@)]
        /\ UNCHANGED <<guid, store, pc, rec, calls, log, disk>>

TypeRestored(t) ==
    /\ pc[t] = "unwire" /\ work[t].pairs = <<>>
    /\ work' = [work EXCEPT ![t].at = @ + 1]
    /\ Goto(t, "untypes")
    /\ UNCHANGED <<mods, guid, store, rec, disk>>

RestoreTypeReferences(t) ==
    LET original(e) == Restored(e, rec[t].refs)
    IN  /\ pc[t] = "untypes" /\ work[t].at > Len(mods[t].types)
        /\ mods' = [mods EXCEPT ![t] = Rewritten(mods[t], original)]
        /\ Goto(t, "unvirtual")
        /\ UNCHANGED <<guid, store, rec, work, disk>>

(* The assembly references of a module with the version of mscorlib put back
   and the virtual ones removed, the last one first. *)
WithVersion(refs, version) ==
    LET hits == {k \in DOMAIN refs : refs[k].name = "mscorlib"}
    IN  IF hits = {} THEN refs ELSE [refs EXCEPT ![Min(hits)].version = version]

(* Mutant of RemoveVirtualReferences: matching by name from the front. *)
RemoveVirtualFromFront(t) ==
    LET first(r) == r.name = VirtualNames[1]
        second(r) == r.name = VirtualNames[2]
    IN  /\ pc[t] = "unvirtual"
        /\ mods' = [mods EXCEPT ![t].refs =
              WithoutFirst(WithoutFirst(WithVersion(@, rec[t].version), second), first)]
        /\ rec' = Without(rec, t)
        /\ work' = [work EXCEPT ![t] = AtRest]
        /\ Returns(t, "removed")
        /\ UNCHANGED <<guid, store, disk>>

RemoveVirtualReferences(t) ==
    LET first(r) == r.name = VirtualNames[1]
        second(r) == r.name = VirtualNames[2]
    IN  /\ pc[t] = "unvirtual"
        /\ mods' = [mods EXCEPT ![t].refs =
              WithoutLast(WithoutLast(WithVersion(@, rec[t].version), second), first)]
        /\ rec' = Without(rec, t)
        /\ work' = [work EXCEPT ![t] = AtRest]
        /\ Returns(t, "removed")
        /\ UNCHANGED <<guid, store, disk>>

----------------------------------------------------------------------------
(* The program around the engine. *)

(* The module is dropped, as it is, and its file read again. *)
Reread(t) ==
    /\ pc[t] = "idle" /\ calls[t] # 0
    /\ mods' = [mods EXCEPT ![t] = disk[t]]
    /\ calls' = [calls EXCEPT ![t] = 0]
    /\ log' = [log EXCEPT ![t] = <<>>]
    /\ UNCHANGED <<guid, store, pc, rec, work, disk>>

(* After a failure the caller replaces the blobs that cannot be read. *)
Repair(t) ==
    LET bad == {x \in Range(UsageRecords(mods[t])) : ~BlobAt(mods[t], x).readable}
    IN  /\ pc[t] = "idle" /\ log[t] # <<>> /\ Last(log[t]) = "failed"
        /\ bad # {}
        /\ mods' = [mods EXCEPT ![t] =
             SetBlobs(mods[t], [x \in bad |-> [BlobAt(mods[t], x) EXCEPT !.readable = TRUE]])]
        /\ UNCHANGED <<guid, store, pc, rec, work, calls, log, disk>>

Continue(t) ==
    \/ AddVirtualReferences(t) \/ ProjectTypeReferences(t)
    \/ ProjectTypeDefinition(t) \/ CollectInterface(t) \/ RedirectType(t)
    \/ RewirePair(t) \/ AppendGenerated(t)
    \/ ProjectFields(t) \/ ProjectMethods(t) \/ ProjectAttributeRecords(t)
    \/ InsertRecord(t)
    \/ RestoreMembers(t) \/ RestoreType(t) \/ UnwirePair(t) \/ TypeRestored(t)
    \/ RestoreTypeReferences(t)
    \/ RemoveVirtualReferences(t)

Next == \E t \in Threads :
    CheckNotApplied(t) \/ TakeRecord(t) \/ Reread(t) \/ Repair(t) \/ Continue(t)

(* A call that has been made goes on: no pass waits for anything but the
   lock, which no pass holds when it ends.  This is weak fairness of
   Continue(t), which is enabled exactly while a call is under way and always
   moves pc[t] or work[t]. *)
Fairness(t) == []<>(pc[t] = "idle") \/ []<><<TRUE>>_<<pc[t], work[t]>>

Spec == Init /\ [][Next]_vars /\ \A t \in Threads : Fairness(t)

----------------------------------------------------------------------------
(* Properties. *)

Passes == {"references", "types", "closure", "rewire", "methods", "attributes", "insert",
           "restore", "untypes", "unwire", "unvirtual"}

(* No pass adds or removes a type, a field or an attribute, and none removes a
   method. *)
SameShape(now, was) ==
    /\ DOMAIN now.types = DOMAIN was.types /\ DOMAIN now.fields = DOMAIN was.fields
    /\ DOMAIN was.methods \subseteq DOMAIN now.methods
    /\ \A i \in DOMAIN was.types : DOMAIN now.types[i].attrs = DOMAIN was.types[i].attrs

RecordFields == {"version", "serial", "refs", "types", "methods", "fields", "attrs", "added"}

WorkOK(t) ==
    /\ DOMAIN work[t] = DOMAIN AtRest
    /\ work[t].at \in 1..Len(mods[t].types) + 1
    /\ pc[t] \in {"closure", "rewire", "unwire"} => work[t].at \in DOMAIN mods[t].types
    /\ IsSequence(work[t].generated)
    /\ \A k \in DOMAIN work[t].generated : IsMethod(work[t].generated[k], mods[t])

TypeOK ==
    /\ guid \in [Threads -> Guids]
    /\ pc \in [Threads -> Passes \cup {"idle", "virtual"}]
    /\ calls \in [Threads -> 0..MaxCalls]
    /\ \A t \in Threads : pc[t] # "idle" => calls[t] < MaxCalls
    /\ disk = [t \in Threads |-> disk[t]] /\ \A t \in Threads : IsModule(disk[t])
    /\ DOMAIN mods = Threads /\ \A t \in Threads : IsModule(mods[t]) /\ SameShape(mods[t], disk[t])
    /\ DOMAIN store \subseteq Guids
    /\ DOMAIN rec = {t \in Threads : pc[t] \in Passes}
    /\ \A r \in Range(store) \cup Range(rec) : DOMAIN r = RecordFields
    /\ DOMAIN work = Threads /\ \A t \in Threads : WorkOK(t)

Sole(t) == \A u \in Threads \ {t} : guid[u] # guid[t]

(* What the writer would serialize: a method no type lists is not. *)
Listed(m) == [m EXCEPT !.methods = [k \in ListedMethods(m) |-> m.methods[k]]]

(* Two references a module distinguishes that have one identity once it is
   projected. *)
Collides(m) == \E a, b \in Range(Externals(m)) :
    /\ a # b
    /\ Projected(a).id = Projected(b).id
    /\ Treatment(a) # "None"

(* The calls on this module that did something were successful applies, each
   undone in turn; calls refused, at any time, do not count. *)
Alternates(t) == \A k \in DOMAIN log[t] :
    log[t][k] = IF k % 2 = 1 THEN "applied" ELSE "removed"
IsPlain(t) == pc[t] = "idle" /\ Alternates(t) /\ Len(log[t]) % 2 = 0
IsProjected(t) == pc[t] = "idle" /\ Alternates(t) /\ Len(log[t]) % 2 = 1

(* remove_projections undoes apply_projections: whatever passes the module
   went through, in whatever interleaving with the calls on other modules,
   and with calls refused in between, what the writer would serialize is
   what was read.  It is said of modules whose references stay apart when
   projected and whose guid is their own, as the module's comment requires. *)
RemoveRestores == \A t \in Threads :
    IsPlain(t) /\ Sole(t) /\ ~Collides(disk[t]) => Listed(mods[t]) = Listed(disk[t])

(* Every definition a projected module shows differently from its file is in
   the record the store holds for it, so that is_projected_type, _method and
   _field answer for it and removal can find it. *)
EditsAreRecorded == \A t \in Threads :
    IsProjected(t) /\ Sole(t) =>
        LET r == store[guid[t]]
            now == mods[t]
            was == disk[t]
            shown(x) == [f |-> x.flags, p |-> x.prefix]
        IN  /\ guid[t] \in DOMAIN store
            /\ \A i \in DOMAIN now.types :
                  /\ (shown(now.types[i]) # shown(was.types[i])
                        \/ now.types[i].methods # was.types[i].methods) => i \in DOMAIN r.types
                  /\ \A j \in DOMAIN now.types[i].attrs :
                        now.types[i].attrs[j].blob # was.types[i].attrs[j].blob
                          => <<i, j>> \in DOMAIN r.attrs
            /\ \A k \in DOMAIN was.methods :
                  (now.methods[k].flags # was.methods[k].flags
                     \/ now.methods[k].access # was.methods[k].access) => k \in DOMAIN r.methods
            /\ \A f \in DOMAIN now.fields : now.fields[f] # was.fields[f] => f \in DOMAIN r.fields

(* The interfaces type i of a module on disk reaches through those it
   implements that will be projected: the least set closed under what the
   interfaces defined in the module implement themselves. *)
Reached(m, i) ==
    LET all == UNION {Range(m.types[d].ifaces) : d \in DOMAIN m.types}
        supers(e) == UNION {Range(m.types[d].ifaces) :
                              d \in {x \in DOMAIN m.types : m.types[x].id = e.id}}
        first == {e \in Range(m.types[i].ifaces) : Treatment(e) = "UseProjectionInfo"}
        closed == {S \in SUBSET all : first \subseteq S /\ \A e \in S : supers(e) \subseteq S}
    IN  {e \in all : \A S \in closed : e \in S}

(* A class that implements projected interfaces gets, for every method of
   every interface it reaches that is defined in the module, exactly one
   method that overrides it; the closure may be cyclic. *)
RedirectionComplete == \A t \in Threads :
    IsProjected(t) /\ Sole(t) =>
        \A i \in DOMAIN store[guid[t]].types :
            LET r == store[guid[t]].types[i]
                m == disk[t]
                implementing(e, n) == {k \in r.added :
                    mods[t].methods[k].overrides = <<[parent |-> Projected(e), name |-> n]>>}
            IN  "Redirect" \in r.treatment /\ "interface" \notin r.flags =>
                  \A e \in Reached(m, i) :
                    \A d \in {x \in DOMAIN m.types : m.types[x].id = e.id} :
                      \A k \in Range(m.types[d].methods) :
                        Cardinality(implementing(e, m.methods[k].name)) = 1

(* A record is in one place: in the store or with one thread.  Two removes
   that run at once, of modules with one guid even, never undo one record
   twice. *)
RecordHasOneOwner ==
    /\ \A g, h \in DOMAIN store : store[g].serial = store[h].serial => g = h
    /\ \A t, u \in DOMAIN rec : rec[t].serial = rec[u].serial => t = u
    /\ \A g \in DOMAIN store, t \in DOMAIN rec : store[g].serial # rec[t].serial

(* Every call returns, with Ok or with an error. *)
CallsReturn == \A t \in Threads : pc[t] # "idle" ~> pc[t] = "idle"

(* The records of projected modules: one for each, in one place, naming every
   definition that is shown differently from the file. *)
RecordsSound == EditsAreRecorded /\ RecordHasOneOwner
=============================================================================
