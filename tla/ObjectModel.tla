----------------------------- MODULE ObjectModel ------------------------------
(***************************************************************************)
(* What the arena model promises, stated without handles: a graph of named *)
(* definitions, each with an owner and references to other definitions.    *)
(* Removing a definition removes exactly what it owns, directly or not;    *)
(* the survivors keep every reference to a survivor, and a reference to a  *)
(* removed definition becomes a sentinel or disappears, as its role says.  *)
(* ArenaModel implements this specification (ArenaRefinement).             *)
(***************************************************************************)
EXTENDS MetadataRoles

CONSTANTS Names, None

VARIABLE objs    \* the graph: a set of objects [kind, id, owner, refs]

(* Objects are told apart by <<kind, id>>; an owner is such a pair or None.   *)
Key(o)     == <<o.kind, o.id>>
Live(g, k) == {o.id : o \in {x \in g : x.kind = k}}

(* What may own a definition: a type nests in a type or in nothing.          *)
Owners(g, k) ==
  LET OfKind(j) == {<<j, n>> : n \in Live(g, j)}
  IN  CASE k = "type"          -> OfKind("type") \cup {None}
        [] k = "generic_param" -> OfKind("type") \cup OfKind("method")
        [] OTHER               -> OfKind("type")

OInit == objs = {}

(* A new definition, with an owner and no reference.                         *)
Added(g, k, n, owner) ==
  g \cup {[kind |-> k, id |-> n, owner |-> owner, refs |-> {}]}

(* A new reference from o to live definitions.                               *)
Referred(g, o, role, to) ==
  (g \ {o}) \cup {[o EXCEPT !.refs = @ \cup {[role |-> role, to |-> to]}]}

TargetsOf(g, role) ==
  IF role = "overrides" THEN Live(g, "method") \X Live(g, "method")
                        ELSE {<<n>> : n \in Live(g, TargetKind(role))}

(* Everything o owns, directly or not: the least set of objects that holds o *)
(* and with an object everything that object owns.                           *)
ClosedUnderOwning(g, S) ==
  \A x \in g : (\E y \in S : x.owner = Key(y)) => x \in S

OwnedBy(g, o) ==
  {x \in g : \A S \in SUBSET g : (o \in S /\ ClosedUnderOwning(g, S)) => x \in S}

Survives(gone, r) == \A i \in DOMAIN r.to : <<TargetKind(r.role), r.to[i]>> \notin gone

Pruned(gone, refs) ==
  {r \in refs : Survives(gone, r)} \cup
  {[role |-> r.role, to |-> <<>>] :
     r \in {x \in refs : ~Survives(gone, x) /\ x.role \in Sentinel}}

Without(g, removed) ==
  LET gone == {Key(x) : x \in removed}
  IN  {[x EXCEPT !.refs = Pruned(gone, @)] : x \in g \ removed}

ONext ==
  \E g \in {objs}, after \in {objs'} :
      \/ \E k \in Kinds : \E n \in Names \ Live(g, k) : \E owner \in Owners(g, k) :
           after = Added(g, k, n, owner)
      \/ \E o \in g : \E role \in RolesOf(o.kind) : \E to \in TargetsOf(g, role) :
           after = Referred(g, o, role, to)
      \/ \E o \in g \ after : after = Without(g, OwnedBy(g, o))

OSpec == OInit /\ [][ONext]_objs
===============================================================================
