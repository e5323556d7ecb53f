----------------------------- MODULE Resolution -----------------------------
(***************************************************************************)
(* Resolution of type, method and field references across assemblies       *)
(* (resolution.rs) and the location of assemblies on disk (resolver.rs).   *)
(*                                                                         *)
(* A ResolutionEngine answers one question at a time about a primary       *)
(* module.  It keeps the modules it has read, with the reference each was  *)
(* read for, and reads another when a reference names an assembly none of  *)
(* them was read for.  A question about a member or about value types      *)
(* walks up a chain of base types, a step at a time here, through as many  *)
(* modules as it takes.  Between two questions files may come and go.      *)
(*                                                                         *)
(* A module is a name, a sequence of types and the types it forwards; a    *)
(* type has a path (its name inside its declaring types), members and a    *)
(* base reference.  A reference stands for what is left of a descriptor    *)
(* when arrays, pointers, generic instantiations and modifiers are         *)
(* stripped.                                                               *)
(***************************************************************************)
EXTENDS Integers, Sequences, SequencesExt, FiniteSets

CONSTANTS
    Worlds,       \* [primary, satellites, disk] the engine may be started in
    Queries,      \* the questions asked
    MaxQuestions, \* questions an engine is asked (bound)
    MaxChanges,   \* files that appear or disappear meanwhile (bound)
    None, Error   \* the answers "not found" and "the call failed"

ASSUME QuestionsAssumption == MaxQuestions \in Nat /\ MaxChanges \in Nat

(* No answer is taken for "not found": a definition is a pair of indices.   *)
ASSUME NoneAssumption == None \notin Nat /\ None \notin Nat \X Nat

Scopes == {"def", "this", "module", "none", "assembly"}

(* What the reader makes of files: references with one of the scopes, and a
   version where they name an assembly; sequences of types. *)
IsSequence(s) == s \in Seq(Range(s))
IsReference(ref) == ref.scope \in Scopes /\ (ref.scope = "assembly" => ref.version \in Nat)
IsModule(m) ==
    /\ IsSequence(m.types)
    /\ \A i \in DOMAIN m.types :
          /\ IsSequence(m.types[i].members)
          /\ m.types[i].base = None \/ IsReference(m.types[i].base)
IsFile(f) ==
    /\ f.module = None \/ IsModule(f.module)
    /\ f.version = None \/ f.version \in Nat
IsWorld(w) ==
    /\ w = [primary |-> w.primary, satellites |-> w.satellites, disk |-> w.disk]
    /\ IsModule(w.primary)
    /\ IsSequence(w.satellites) /\ \A i \in DOMAIN w.satellites : IsModule(w.satellites[i])
    /\ IsSequence(w.disk)
    /\ \A d, e \in DOMAIN w.disk : DOMAIN w.disk[d] = DOMAIN w.disk[e]
    /\ \A d \in DOMAIN w.disk :
          /\ w.disk[d] = [name \in DOMAIN w.disk[d] |-> w.disk[d][name]]
          /\ \A name \in DOMAIN w.disk[d] : w.disk[d][name] = None \/ IsFile(w.disk[d][name])

ASSUME InputsAssumption ==
    /\ \A w \in Worlds : IsWorld(w)
    /\ \A q \in Queries : q.kind \in {"type", "member", "valuetype"} /\ IsReference(q.ref)

VARIABLES
    world,        \* the primary module and the files, directory by directory
    cache,        \* the modules read: sequence of [name, version, module]
    op,           \* the question being answered, or None
    answers,      \* the answers so far: sequence of [query, answer]
    changes       \* changes made to the files (bound counter)

vars == <<world, cache, op, answers, changes>>

----------------------------------------------------------------------------
(* The best of several versions: one pass, in which a later one takes over
   from the winner so far (prefer_version, and the same in pick_highest). *)
TakesOver(candidate, incumbent, floor) ==
    IF (candidate >= floor) # (incumbent >= floor) THEN candidate >= floor
    ELSE candidate > incumbent

(* The k-th, of version v, is kept when the pass also meets the j-th. *)
Withstands(k, v, j, w, floor) ==
    /\ j < k => TakesOver(v, w, floor)
    /\ j > k => ~TakesOver(w, v, floor)

(* Assemblies on disk.  A version is ten times major.minor plus the rest. *)
Floor(version) == version - (version % 10)

(* The directories that have a file of the name, and those where its version
   is known. *)
Candidates(disk, name) ==
    {d \in DOMAIN disk : name \in DOMAIN disk[d] /\ disk[d][name] # None}
Versioned(disk, name) == {d \in Candidates(disk, name) : disk[d][name].version # None}

PickHighest(disk, ref) ==
    LET version(d) == disk[d][ref.name].version
    IN  CHOOSE k \in Versioned(disk, ref.name) : \A j \in Versioned(disk, ref.name) :
            Withstands(k, version(k), j, version(j), Floor(ref.version))

(* The file for a reference: the best of those with a version, or the first
   of the others; None when there is none. *)
Locate(disk, ref) ==
    IF Versioned(disk, ref.name) # {} THEN disk[PickHighest(disk, ref)][ref.name]
    ELSE IF Candidates(disk, ref.name) # {} THEN disk[Min(Candidates(disk, ref.name))][ref.name]
    ELSE None

----------------------------------------------------------------------------
(* The engine's module space: 0 is the primary module. *)

ModuleAt(w, c, index) == IF index = 0 THEN w.primary ELSE c[index].module

TypeAt(w, c, def) == ModuleAt(w, c, def[1]).types[def[2]]

(* find_external_in_module *)
FindIn(m, path) ==
    LET hits == {i \in DOMAIN m.types : m.types[i].path = path}
    IN  IF hits = {} THEN None ELSE Min(hits)

(* The definition of a path in one module. *)
Lookup(w, c, index, path) ==
    LET id == FindIn(ModuleAt(w, c, index), path)
    IN  IF id = None THEN None ELSE <<index, id>>

(* A mutation: a cached module serves the version it was read for only. *)
CachedForVersion(c, ref) == {i \in DOMAIN c : c[i].name = ref.name /\ c[i].version = ref.version}

CachedFor(c, ref) == {i \in DOMAIN c : c[i].name = ref.name}

BestCached(c, ref) ==
    CHOOSE k \in CachedFor(c, ref) : \A j \in CachedFor(c, ref) :
        Withstands(k, c[k].version, j, c[j].version, ref.version)

(* A mutation: the loader is asked first, and its answer decides. *)
LoadedOrCached(w, c, ref) ==
    LET file == Locate(w.disk, ref)
        fails == file = None \/ file.module = None
        cached == CachedFor(c, ref) # {}
    IN  [cache |-> IF fails \/ cached THEN c
                   ELSE Append(c, [name |-> ref.name, version |-> ref.version, module |-> file.module]),
         index |-> IF fails THEN None ELSE IF cached THEN BestCached(c, ref) ELSE Len(c) + 1,
         failed |-> file # None /\ file.module = None]

(* ensure_loaded: the cached module for the reference, or the one on disk,
   which is then cached; a file that cannot be read is an error. *)
EnsureLoaded(w, c, ref) ==
    LET file == Locate(w.disk, ref)
    IN  IF CachedFor(c, ref) # {}
        THEN [cache |-> c, index |-> BestCached(c, ref), failed |-> FALSE]
        ELSE IF file = None
        THEN [cache |-> c, index |-> None, failed |-> FALSE]
        ELSE IF file.module = None
        THEN [cache |-> c, index |-> None, failed |-> TRUE]
        ELSE [cache |-> Append(c, [name |-> ref.name, version |-> ref.version,
                                   module |-> file.module]),
              index |-> Len(c) + 1, failed |-> FALSE]

(* The first module of several that defines the path. *)
Probe(w, c, indices, path) ==
    LET hits == {i \in indices : FindIn(ModuleAt(w, c, i), path) # None}
    IN  IF hits = {} THEN None
        ELSE Lookup(w, c, Min(hits), path)

(* A mutation: a definition met in another module is looked up in the
   primary one. *)
ResolvedInPrimary(w, c, context, ref) ==
    LET loaded == EnsureLoaded(w, c, ref)
        def == IF ref.scope = "def"
               THEN IF ref.id \in DOMAIN w.primary.types THEN <<0, ref.id>> ELSE None
               ELSE IF ref.scope = "assembly" /\ loaded.index # None
               THEN Lookup(w, loaded.cache, loaded.index, ref.path)
               ELSE None
    IN  IF ref.scope = "assembly"
        THEN [cache |-> loaded.cache, def |-> def, failed |-> loaded.failed]
        ELSE [cache |-> c, def |-> def, failed |-> FALSE]

(* resolve_external and resolve_in_context: a reference found in the module
   at "context"; external ones do not depend on the context. *)
Resolve(w, c, context, ref) ==
    LET here(d) == [cache |-> c, def |-> d, failed |-> FALSE]
        loaded == EnsureLoaded(w, c, ref)
    IN  CASE ref.scope = "def" ->
               here(IF ref.id \in DOMAIN ModuleAt(w, c, context).types THEN <<context, ref.id>>
                    ELSE IF ref.id \in DOMAIN w.primary.types THEN <<0, ref.id>> ELSE None)
          [] ref.scope = "this" -> here(Lookup(w, c, 0, ref.path))
          [] ref.scope = "module" ->
               here(Probe(w, c, {i \in DOMAIN c : c[i].module.name = ref.name}, ref.path))
          [] ref.scope = "none" -> here(Probe(w, c, {0} \cup DOMAIN c, ref.path))
          [] ref.scope = "assembly" ->
               [cache |-> loaded.cache, failed |-> loaded.failed,
                def |-> IF loaded.index = None THEN None
                        ELSE Lookup(w, loaded.cache, loaded.index, ref.path)]

----------------------------------------------------------------------------
(* Members. *)

(* method_matches and the field test: names, then types position by
   position; a call to a variable-argument method passes more than the
   method declares, from the position after its last parameter on. *)
Matches(m, wanted) ==
    /\ m.name = wanted.name
    /\ m.vararg = wanted.vararg
    /\ IF m.vararg
       THEN /\ Len(m.params) < Len(wanted.params)
            /\ wanted.start = Len(m.params)
            /\ SubSeq(wanted.params, 1, Len(m.params)) = m.params
       ELSE m.params = wanted.params

MemberIn(type, wanted) ==
    LET hits == {k \in DOMAIN type.members : Matches(type.members[k], wanted)}
    IN  IF hits = {} THEN None ELSE Min(hits)

ValueRoots == {<<"System.ValueType">>, <<"System.Enum">>}
ObjectRoot == <<"System.Object">>

(* What the name of a base says of value types before and, for a base that
   is a definition, after it is resolved; None when it says nothing. *)
Verdict(path) == IF path \in ValueRoots THEN "value"
                 ELSE IF path = ObjectRoot THEN "reference" ELSE None

----------------------------------------------------------------------------
Init ==
    /\ world \in Worlds
    /\ cache = [i \in DOMAIN world.satellites |->
                  [name |-> world.satellites[i].name, version |-> 0,
                   module |-> world.satellites[i]]]
    /\ op = None
    /\ answers = <<>>
    /\ changes = 0

Answer(a) ==
    /\ answers' = Append(answers, [query |-> op.query, answer |-> a])
    /\ op' = None

(* A question; its reference is resolved next, in the primary module. *)
Ask(q) ==
    /\ op = None /\ Len(answers) < MaxQuestions
    /\ op' = [query |-> q, at |-> None]
    /\ UNCHANGED <<world, cache, answers, changes>>

(* A mutation: the module read for the reference is not kept. *)
ResolveForgetting ==
    /\ op # None /\ op.at = None
    /\ \E r \in {Resolve(world, cache, 0, op.query.ref)} :
          IF r.failed \/ r.def = None \/ op.query.kind = "type" THEN Answer(None)
          ELSE op' = [op EXCEPT !.at = r.def] /\ UNCHANGED answers
    /\ UNCHANGED <<world, cache, changes>>

(* The outcome of the first resolution: the answer to a question about a
   type, the start of the walk for the others. *)
ResolveReference ==
    /\ op # None /\ op.at = None
    /\ \E r \in {Resolve(world, cache, 0, op.query.ref)} :
          /\ cache' = r.cache
          /\ IF r.failed THEN Answer(Error)
             ELSE IF r.def = None
             THEN Answer(IF op.query.kind = "valuetype" THEN Error ELSE None)
             ELSE IF op.query.kind = "type" THEN Answer(r.def)
             ELSE op' = [op EXCEPT !.at = r.def] /\ UNCHANGED answers
    /\ UNCHANGED <<world, changes>>

Current == TypeAt(world, cache, op.at)

(* walk_methods and walk_fields: the member here, or on to the base. *)
WalkMembers ==
    /\ op # None /\ op.at # None /\ op.query.kind = "member"
    /\ \E type \in {Current} :
          IF MemberIn(type, op.query.member) # None
          THEN Answer(Append(op.at, MemberIn(type, op.query.member))) /\ UNCHANGED cache
          ELSE IF type.base = None
          THEN Answer(None) /\ UNCHANGED cache
          ELSE \E r \in {Resolve(world, cache, op.at[1], type.base)} :
                  /\ cache' = r.cache
                  /\ IF r.failed THEN Answer(Error)
                     ELSE IF r.def = None THEN Answer(None)
                     ELSE op' = [op EXCEPT !.at = r.def] /\ UNCHANGED answers
    /\ UNCHANGED <<world, changes>>

(* A mutation: the walk goes on with the type it came from. *)
WalkInPlace ==
    /\ op # None /\ op.at # None /\ op.query.kind = "valuetype"
    /\ IF Current.interface \/ Current.base = None THEN Answer("reference")
       ELSE UNCHANGED <<op, answers>>
    /\ UNCHANGED <<world, cache, changes>>

(* is_value_type_def *)
WalkValueType ==
    /\ op # None /\ op.at # None /\ op.query.kind = "valuetype"
    /\ \E type \in {Current} :
          IF type.interface \/ type.base = None
          THEN Answer("reference") /\ UNCHANGED cache
          ELSE IF type.base.scope # "def" /\ Verdict(type.base.path) # None
          THEN Answer(Verdict(type.base.path)) /\ UNCHANGED cache
          ELSE \E r \in {Resolve(world, cache, op.at[1], type.base)} :
                  /\ cache' = r.cache
                  /\ IF r.failed \/ r.def = None THEN Answer(Error)
                     ELSE LET path == TypeAt(world, r.cache, r.def).path
                          IN  IF Verdict(path) # None THEN Answer(Verdict(path))
                              ELSE op' = [op EXCEPT !.at = r.def] /\ UNCHANGED answers
    /\ UNCHANGED <<world, changes>>

(* A file appears in a directory, or disappears. *)
ChangeFile(d, name, file) ==
    /\ changes < MaxChanges
    /\ world.disk[d][name] # file
    /\ world' = [world EXCEPT !.disk[d][name] = file]
    /\ changes' = changes + 1
    /\ UNCHANGED <<cache, op, answers>>

Work == ResolveReference \/ WalkMembers \/ WalkValueType

Change == \E d \in DOMAIN world.disk : \E name \in DOMAIN world.disk[d] :
             \E file \in {None} \cup {world.disk[e][name] : e \in DOMAIN world.disk} :
                ChangeFile(d, name, file)

Next == (\E q \in Queries : Ask(q)) \/ Work \/ Change

(* An engine that was asked goes on until it answers. *)
Spec == Init /\ [][Next]_vars /\ WF_vars(Work)

----------------------------------------------------------------------------
(* Properties. *)

TypeOK ==
    /\ op = None \/ op.query \in Queries
    /\ op # None /\ op.at # None =>
          /\ op.at[1] \in 0..Len(cache)
          /\ op.at[2] \in DOMAIN ModuleAt(world, cache, op.at[1]).types
    /\ Len(answers) <= MaxQuestions
    /\ changes <= MaxChanges

(* A definition, once found, is what the same question finds from then on,
   whatever happens to the files and whatever else was read in between. *)
FoundStaysFound ==
    \A j, k \in DOMAIN answers :
        /\ j < k
        /\ answers[j].query = answers[k].query
        /\ answers[j].answer \notin {None, Error}
        => answers[k].answer = answers[j].answer

(* No assembly is in the module space twice because it was referenced under
   several versions or from several modules: two definitions of one type
   would differ by their handles. *)
CachedOnce == \A i, j \in DOMAIN cache :
    i # j /\ i > Len(world.satellites) => cache[i].name # cache[j].name

(* A definition has one handle: the assembly it is in is in the space once,
   and the question that found it finds it again. *)
OneDefinition == CachedOnce /\ FoundStaysFound
=============================================================================
