-------------------------- MODULE BodyEditRefinement --------------------------
(***************************************************************************)
(* BodyEdit implements ILProcessor: reading every offset as the position   *)
(* of the instruction that starts there turns each behaviour of the        *)
(* offset-based editor into one of the reference-based editor.             *)
(***************************************************************************)
EXTENDS BodyEdit

(* The layout that targets and clauses refer to: the stored offsets, and for *)
(* a fresh body those its author had in mind; the code end is the captured   *)
(* one while opcodes are being rewritten.                                    *)
CurrentLayout ==
  IF ~Numbered(code) THEN NewOffsets(code)
    ELSE IF rewritten = {} THEN Snapshot(code)
    ELSE Append([k \in DOMAIN code |-> code[k].off], layout[Len(layout)])

Lost == 0
Position(offsets, t) ==
  LET k == IndexIn(offsets, t) IN IF k = Len(offsets) THEN Lost ELSE k

ReadInstruction(offsets, i) ==
  [op |-> LongForm(i.op), to |-> [n \in DOMAIN i.to |-> Position(offsets, i.to[n])]]

ReadRun(offsets, r) ==
  IF r.len > 0 /\ Position(offsets, r.off) # Lost /\ IndexIn(offsets, r.off + r.len) # 0
    THEN [first |-> Position(offsets, r.off), last |-> IndexIn(offsets, r.off + r.len) - 1]
    ELSE [first |-> Lost, last |-> Lost]

ReadClause(offsets, c) ==
  [try |-> ReadRun(offsets, c.try), handler |-> ReadRun(offsets, c.handler),
   filter |-> IF c.filter = None THEN Lost ELSE Position(offsets, c.filter)]

Reading(offsets, c, clauses) ==
  [prog    |-> [k \in DOMAIN c |-> ReadInstruction(offsets, c[k])],
   clauses |-> [k \in DOMAIN clauses |-> ReadClause(offsets, clauses[k])]]

Abs == INSTANCE ILProcessor WITH body <- Reading(CurrentLayout, code, eh)

(* Editing by offsets is editing by references: through any sequence of      *)
(* insertions, replacements, removals, macro passes and relocations, every   *)
(* branch and every clause boundary keeps denoting the instruction it        *)
(* denoted, as long as that instruction is in the body.                      *)
ImplementsILProcessor == Abs!OSpec
===============================================================================
