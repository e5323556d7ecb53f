-------------------------- MODULE ResolutionAnswers --------------------------
(***************************************************************************)
(* What an engine of Resolution should answer, said of the files alone:    *)
(* no cache, no order of questions, no walk.                               *)
(***************************************************************************)
EXTENDS Resolution

(* The definition a reference denotes, said without an engine: every
   assembly name is the file the documented rule selects, and every
   definition is known by its module and its path. *)
SelectedFile(disk, name, version) ==
    LET found == {d \in DOMAIN disk : disk[d][name] # None}
        known == {d \in found : disk[d][name].version # None}
        floor == {d \in known : disk[d][name].version >= Floor(version)}
        from == IF floor # {} THEN floor ELSE IF known # {} THEN known ELSE found
        wins(d) == \A e \in from :
            \/ known # {} /\ disk[d][name].version > disk[e][name].version
            \/ (known = {} \/ disk[d][name].version = disk[e][name].version) /\ d <= e
    IN  IF found = {} THEN None ELSE disk[CHOOSE d \in from : wins(d)][name].module

Satellite(w, name, path) ==
    {w.satellites[i] : i \in {x \in DOMAIN w.satellites :
        w.satellites[x].name = name /\ FindIn(w.satellites[x], path) # None}}

(* The module a reference in module m speaks of; what a reference without a
   scope finds depends on what was read, and is not said here. *)
Spoken(w, m, ref) ==
    CASE ref.scope = "this" -> w.primary
      [] ref.scope = "module" ->
           IF Satellite(w, ref.name, ref.path) = {} THEN None
           ELSE CHOOSE n \in Satellite(w, ref.name, ref.path) : TRUE
      [] ref.scope = "assembly" -> SelectedFile(w.disk, ref.name, ref.version)
      [] OTHER -> None

(* The ExportedType rows of a module that stand for the outermost type of a
   path: they are asked when the module has no such type itself. *)
ForwardersOf(n, path) ==
    {f \in n.forwards : f.path = <<Head(path)>> /\ FindIn(n, f.path) = None}

(* The modules the forwarders of a module lead to for a path: one at most.   *)
ForwardedTo(w, n, path) ==
    {SelectedFile(w.disk, f.to.name, f.to.version) : f \in ForwardersOf(n, path)}

(* The pair <module, type> a path denotes in a module, or None: the module's
   own type, or the one in the assembly it is forwarded to, and on. *)
Owned(w, start, path) ==
    LET RECURSIVE at(_, _)
        at(n, passed) ==
            IF n = None \/ n \in passed THEN None
            ELSE IF FindIn(n, path) # None THEN <<n, n.types[FindIn(n, path)]>>
            ELSE IF ForwardersOf(n, path) = {} THEN None
            ELSE at(CHOOSE next \in ForwardedTo(w, n, path) : TRUE, passed \cup {n})
    IN  at(start, {})

(* The pair a reference in module m denotes: resolution.rs:13 says that types
   match "incl. the `ExportedType` fallback of `GetType`". *)
Denoted(w, m, ref) ==
    IF ref.scope = "def" THEN <<m, m.types[ref.id]>>
    ELSE Owned(w, Spoken(w, m, ref), ref.path)

Forwarded(w, m, ref) ==
    LET n == Spoken(w, m, ref)
    IN  ref.scope # "def" /\ n # None /\ ForwardersOf(n, ref.path) # {}

Files(w) == UNION {{w.disk[d][n] : n \in DOMAIN w.disk[d]} : d \in DOMAIN w.disk} \ {None}

(* The type a pair of Denoted derives from, or None. *)
BaseOf(w, t) == IF t[2].base = None THEN None ELSE Denoted(w, t[1], t[2].base)

(* The chain of bases from a definition up to the end, a type that is not
   found, or a type already met. *)
Chain(w, start) ==
    LET RECURSIVE up(_, _)
        up(seen, t) == IF t = None \/ t \in Range(seen) THEN seen
                       ELSE up(Append(seen, t), BaseOf(w, t))
    IN  up(<<>>, start)

Cyclic(w, start) ==
    LET c == Chain(w, start) IN c # <<>> /\ BaseOf(w, Last(c)) # None

(* The answer to a question about the type with chain c. *)
ExpectedAbove(q, c) ==
    LET having == {k \in DOMAIN c : MemberIn(c[k][2], q.member) # None}
        nearest == CHOOSE k \in having : \A j \in having : k <= j
        \* the first type of the chain whose own kind or whose base decides
        root(k) == c[k][2].interface \/ c[k][2].base = None
                     \/ (k < Len(c) /\ Verdict(c[k + 1][2].path) # None)
                     \/ (c[k][2].base # None /\ c[k][2].base.scope # "def"
                           /\ Verdict(c[k][2].base.path) # None)
        deciding == {k \in DOMAIN c : root(k)}
        first == CHOOSE k \in deciding : \A j \in deciding : k <= j
    IN  CASE q.kind = "type" -> IF c = <<>> THEN None ELSE c[1]
          [] q.kind = "member" ->
               IF having = {} THEN None
               ELSE <<c[nearest][1], c[nearest][2], MemberIn(c[nearest][2], q.member)>>
          [] q.kind = "valuetype" ->
               IF deciding = {} THEN Error
               ELSE IF c[first][2].interface \/ c[first][2].base = None THEN "reference"
               ELSE IF c[first][2].base.scope # "def" /\ Verdict(c[first][2].base.path) # None
               THEN Verdict(c[first][2].base.path)
               ELSE Verdict(c[first + 1][2].path)
Expected(w, q) == ExpectedAbove(q, Chain(w, Denoted(w, w.primary, q.ref)))

(* The question leads to a type by way of a forwarder: it names one, or a type
   of the chain has one for its base. *)
ThroughForwarder(w, q) ==
    \/ Forwarded(w, w.primary, q.ref)
    \/ \E t \in Range(Chain(w, Denoted(w, w.primary, q.ref))) :
          t[2].base # None /\ Forwarded(w, t[1], t[2].base)

(* An answer of the engine in those terms. *)
Shown(q, a) ==
    IF a \in {None, Error} \/ q.kind = "valuetype" THEN a
    ELSE LET m == ModuleAt(world, cache, a[1])
         IN  IF Len(a) = 2 THEN <<m, m.types[a[2]]>> ELSE <<m, m.types[a[2]], a[3]>>

(* The references by which the modules of the world name an assembly agree
   on its version, and every candidate file can be read. *)
Refs(m) == {m.types[i].base : i \in DOMAIN m.types} \ {None}
Mentions(w) == {q.ref : q \in Queries} \cup Refs(w.primary)
                 \cup UNION {Refs(w.satellites[i]) : i \in DOMAIN w.satellites}
                 \cup UNION {IF f.module = None THEN {}
                              ELSE Refs(f.module) \cup {e.to : e \in f.module.forwards} : f \in Files(w)}
Consistent(w) ==
    /\ \A f \in Files(w) : f.module # None
    /\ \A a, b \in Mentions(w) :
          a.scope = "assembly" /\ b.scope = "assembly" /\ a.name = b.name => a.version = b.version

(* However many questions were asked before and whatever they made the
   engine read, an answer is what the files say: the nearest base that has a
   matching member, the first base that settles value types.  It is said of
   files that do not change, and of worlds that name each assembly with one
   version: the cache is keyed by name alone.
   One exception, in which the code does not do what its doc says:
   find_external_in_module "Falls back to the module's `ExportedType` rows for
   top-level names" (resolution.rs:617) and in fact reads no such row
   (resolution.rs:629).  By way of a forwarder nothing may be found; it is
   still never another definition than the one forwarded to. *)
AnswersAreDenoted ==
    changes = 0 /\ Consistent(world) =>
        \A k \in DOMAIN answers :
            LET q == answers[k].query
                shown == Shown(q, answers[k].answer)
            IN  q.ref.scope # "none" =>
                    \/ shown = Expected(world, q)
                    \/ ThroughForwarder(world, q) /\ shown \in {None, Error}

(* Every question is answered when no chain of bases is a cycle. *)
QuestionsAnswered ==
    op # None /\ ~Cyclic(world, Denoted(world, world.primary, op.query.ref)) ~> op = None
=============================================================================
