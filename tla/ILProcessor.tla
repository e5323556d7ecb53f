----------------------------- MODULE ILProcessor ------------------------------
(***************************************************************************)
(* What a body editor promises, stated without byte offsets: a list of     *)
(* instructions whose branches name instructions, and protected regions    *)
(* that cover runs of instructions.  An edit renames positions; every      *)
(* reference to an instruction that is still there follows it.  Branches   *)
(* and regions that denote nothing (Lost) are unconstrained.               *)
(***************************************************************************)
EXTENDS Integers, Sequences, FiniteSetsExt

CONSTANT Lost

VARIABLE body    \* [prog, clauses]: prog is a sequence of instructions [op, to],
                 \* `to' a sequence of positions; clauses a sequence of exception
                 \* clauses [try, handler, filter]: two runs [first, last] and the
                 \* position a filter starts at

(* An edit of p is described by the new positions of each old one: none when *)
(* it is removed, two when it is split.                                      *)
Same(p)         == [j \in DOMAIN p |-> {j}]
Inserting(p, i) == [j \in DOMAIN p |-> {IF j >= i THEN j + 1 ELSE j}]
Removing(p, R)  == [j \in DOMAIN p |->
                      IF j \in R THEN {} ELSE {j - Cardinality({k \in R : k < j})}]
Splitting(p, S) == [j \in DOMAIN p |->
                      LET new == j + Cardinality({k \in S : k < j})
                      IN  IF j \in S THEN {new, new + 1} ELSE {new}]

Exists(t, moved) == t # Lost /\ moved[t] # {}

(* The instructions the caller did not rewrite keep their opcode, and their  *)
(* branches follow.                                                          *)
InstructionsFollow(old, new, moved, rewritten) ==
  \A j \in DOMAIN old \ rewritten : moved[j] # {} =>
    LET was == old[j]
        is  == new[Min(moved[j])]
    IN  /\ is.op = was.op
        /\ Len(is.to) = Len(was.to)
        /\ \A n \in DOMAIN is.to : Exists(was.to[n], moved) => is.to[n] = Min(moved[was.to[n]])

(* A region covers what is left of its run, and whatever is inserted strictly*)
(* inside it; a filter follows its first instruction.                        *)
RunFollows(run, new, moved) ==
  run.first # Lost =>
    LET left == UNION {moved[j] : j \in run.first .. run.last}
    IN  left # {} => new = [first |-> Min(left), last |-> Max(left)]

ClausesFollow(old, new, moved) ==
  /\ Len(new) = Len(old)
  /\ \A c \in DOMAIN old :
       /\ RunFollows(old[c].try, new[c].try, moved)
       /\ RunFollows(old[c].handler, new[c].handler, moved)
       /\ Exists(old[c].filter, moved) => new[c].filter = Min(moved[old[c].filter])

Edit(old, new, moved, rewritten) ==
  /\ InstructionsFollow(old.prog, new.prog, moved, rewritten)
  /\ ClausesFollow(old.clauses, new.clauses, moved)

(* Narrowing turns wide loads into a load and a conversion.                  *)
Narrowed(old, new) ==
  LET wide  == {j \in DOMAIN old.prog : old.prog[j].op = "ldc_i8"}
      moved == Splitting(old.prog, wide)
  IN  /\ Len(new.prog) = Len(old.prog) + Cardinality(wide)
      /\ Edit(old, new, moved, wide)
      /\ \A j \in wide : /\ new.prog[Min(moved[j])].op = "ldc_i4"
                         /\ new.prog[Max(moved[j])].op = "conv_i8"

OInit == body = [prog |-> <<>>, clauses |-> <<>>]

ONext ==
  \E old \in {body}, new \in {body'} :
  LET p   == old.prog
      len == Len(new.prog)
  IN  \* one instruction more
      \/ len = Len(p) + 1 /\ \E i \in 1..len : Edit(old, new, Inserting(p, i), {})
      \* another encoding, or one instruction replaced
      \/ len = Len(p) /\ \E R \in {{}} \cup {{i} : i \in DOMAIN p} : Edit(old, new, Same(p), R)
      \* a run of instructions removed
      \/ /\ len < Len(p)
         /\ \E i \in 1..(len + 1) : Edit(old, new, Removing(p, i..(i + Len(p) - len - 1)), {})
      \/ Narrowed(old, new)
      \* a body authored, a clause added, the clauses dropped, by the caller
      \/ p = <<>> /\ Len(new.clauses) = Len(old.clauses)
      \/ new.prog = p /\ \E c \in {new.clauses[n] : n \in DOMAIN new.clauses} :
                           new.clauses = Append(old.clauses, c)
      \/ new.prog = p /\ new.clauses = <<>>

OSpec == OInit /\ [][ONext]_body
===============================================================================
