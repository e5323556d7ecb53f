------------------------------- MODULE IlBodies -------------------------------
(***************************************************************************)
(* Method bodies: decoded from the RVAs of a module's methods              *)
(* (read/instructions.rs, cecil-cil body.rs and exceptions.rs) and encoded *)
(* one after another into the code stream of the image that is written     *)
(* (write/emit_il.rs, assembly.rs).                                        *)
(*                                                                         *)
(* A stream is a sequence of cells, one per byte; a number of several bytes *)
(* is in the first of its cells and the others are zero.  An opcode of two *)
(* bytes is 65024 plus the second.                                         *)
(***************************************************************************)
EXTENDS Workbench

CONSTANTS
  Shapes,      \* the shape of the operand of each opcode
  BodyFiles    \* [stream, methods, authored, rows]: the modules read

TypeRefs == 1
TypeDefs == 2
Fields == 4
Methods == 6
MemberRefs == 10
Sites == 17                       \* StandAloneSig
TypeSpecs == 27
MethodSpecs == 43
Tokens == {"type", "method", "field", "tok"}
TokenAt(table, row) == 100 * table + row
Table(token) == token \div 100
Row(token) == token % 100

Wide(v, n) == <<v>> \o [i \in 1..(n - 1) |-> 0]
Align4(n) == n + ((4 - (n % 4)) % 4)
Zeros(n) == [i \in 1..n |-> 0]

-----------------------------------------------------------------------------
(* What a token stands for, by the shape its opcode wants; a token of the   *)
(* wrong shape or of no row stays a token.                                  *)
ResolvesAs(rows, token, shape) ==
  LET row == Row(token)
      Wants(s) == shape \in {"tok", s}
  IN  CASE Table(token) \in {TypeRefs, TypeDefs, TypeSpecs} /\ row \in DOMAIN rows[Table(token)] ->
             IF Wants("type") /\ rows[Table(token)][row] # "garbage" THEN "type" ELSE "token"
        [] Table(token) \in {Methods, Fields, MethodSpecs, MemberRefs} /\ row \in DOMAIN rows[Table(token)] ->
             LET is == CASE Table(token) = Fields -> "field"
                         [] Table(token) = MemberRefs -> rows[MemberRefs][row]
                         [] OTHER -> "method"
             IN  IF is # "garbage" /\ Wants(is) THEN is ELSE "token"
        [] OTHER -> "token"

(* A mutation: an opcode takes a row of any shape.                          *)
ResolvesAsAny(rows, token, shape) ==
  IF Table(token) \in {Methods, Fields} /\ Row(token) \in DOMAIN rows[Table(token)]
  THEN IF Table(token) = Methods THEN "method" ELSE "field"
  ELSE ResolvesAs(rows, token, shape)

Resolve(rows, token, shape) == ResolvesAs(rows, token, shape)

(* calli: the signature of a row that parses as a method's.                 *)
SiteAs(rows, token) ==
  IF Table(token) = Sites /\ Row(token) \in DOMAIN rows[Sites] /\ rows[Sites][Row(token)] = "method"
  THEN "site" ELSE "token"

-----------------------------------------------------------------------------
(* Decoding code.                                                          *)

OpSize(op) == IF op < 256 THEN 1 ELSE 2
Width(shape) ==
  CASE shape = "none" -> 0
    [] shape \in {"i1", "var1", "br1"} -> 1
    [] shape = "var2" -> 2
    [] shape = "i8" -> 8
    [] OTHER -> 4
FixedSize(op) == OpSize(op) + Width(Shapes[op])
Signed(byte) == IF byte > 127 THEN byte - 256 ELSE byte
Instr(op, kind, args) == [op |-> op, kind |-> kind, args |-> args]
Size(instr) == FixedSize(instr.op) + IF Shapes[instr.op] = "switch" THEN 4 * Len(instr.args) ELSE 0

(* The instruction at offset o of code s, and the offset after it.          *)
Decoded(rows, s, o) ==
  LET op    == IF s[o + 1] = 254 THEN IF o + 2 > Len(s) THEN 0 - 1 ELSE 65024 + s[o + 2] ELSE s[o + 1]
      next  == o + FixedSize(op)
      value == s[o + OpSize(op) + 1]
      shape == Shapes[op]
      end   == IF shape = "switch" THEN next + 4 * value ELSE next
  IN  IF op \notin DOMAIN Shapes THEN Failed
      ELSE IF next > Len(s) THEN Failed
      ELSE IF shape = "switch" /\ (value < 0 \/ end > Len(s)) THEN Failed
      ELSE [next |-> end, instr |->
        CASE shape = "none" -> Instr(op, shape, <<>>)
          [] shape = "br1" -> Instr(op, shape, <<next + Signed(value)>>)
          [] shape = "br4" -> Instr(op, shape, <<next + value>>)
          [] shape = "switch" -> Instr(op, shape, [i \in 1..value |-> end + s[next + 4 * i - 3]])
          [] shape \in Tokens -> Instr(op, Resolve(rows, value, shape), <<value>>)
          [] shape = "sig" -> Instr(op, SiteAs(rows, value), <<value>>)
          [] OTHER -> Instr(op, shape, <<value>>)]

RECURSIVE ReadCode(_, _, _)
ReadCode(rows, s, o) ==
  IF o = Len(s) THEN <<>>
  ELSE LET one  == Decoded(rows, s, o)
           rest == ReadCode(rows, s, one.next)
       IN  IF one = Failed THEN Failed ELSE IF rest = Failed THEN Failed ELSE <<one.instr>> \o rest

-----------------------------------------------------------------------------
(* Decoding exception sections, which may be chained.                       *)

Clause(kind, try, length, handler, hlength, extra) ==
  [kind |-> kind, try |-> <<try, length>>, handler |-> <<handler, hlength>>, extra |-> extra]
ClauseSize(fat) == IF fat THEN 24 ELSE 12

ReadClause(s, at, fat) ==
  LET f(n) == s[at + n + 1]
      kind == f(0) % 8
      extra == IF kind < 2 THEN (IF fat THEN f(20) ELSE f(8)) ELSE 0
  IN  IF fat THEN Clause(kind, f(4), f(8), f(12), f(16), extra)
      ELSE Clause(kind, f(2), f(4), f(5), f(7), extra)

(* The size of a section counts its four bytes of header, or does not.      *)
SectionSize(given, unit_) ==
  IF given < 4 THEN Failed
  ELSE IF (given - 4) % unit_ = 0 THEN given
  ELSE IF given % unit_ = 0 THEN given + 4
  ELSE Failed

RECURSIVE ReadSections(_, _)
ReadSections(s, start) ==
  IF start + 4 > Len(s) THEN Failed
  ELSE LET flags == s[start + 1]
           fat   == (flags \div 64) % 2 = 1
           size  == SectionSize(s[start + 2], ClauseSize(fat))
       IN  IF flags % 2 = 0 \/ size = Failed THEN Failed
           ELSE IF start + size > Len(s) THEN Failed
           ELSE LET here == [k \in 1..((size - 4) \div ClauseSize(fat)) |->
                               ReadClause(s, start + 4 + (k - 1) * ClauseSize(fat), fat)]
                    more == IF flags < 128 THEN <<>> ELSE ReadSections(s, Align4(start + size))
                IN  IF more = Failed \/ \E k \in DOMAIN here : here[k].kind \notin {0, 1, 2, 4}
                    THEN Failed ELSE here \o more

(* A catch must name a type that resolves.                                  *)
Catches(rows, clauses) ==
  \A k \in DOMAIN clauses :
    clauses[k].kind = 0 => ResolvesAs(rows, clauses[k].extra, "type") = "type"

-----------------------------------------------------------------------------
(* Decoding a body at the start of s.                                       *)

Body(maxStack, init, locals, code, clauses) ==
  [maxStack |-> maxStack, init |-> init, locals |-> locals, code |-> code, clauses |-> clauses]

LocalsOf(rows, token) ==
  IF token = 0 THEN "none"
  ELSE IF Table(token) # Sites \/ Row(token) \notin DOMAIN rows[Sites] THEN Failed
  ELSE IF rows[Sites][Row(token)] \in {"locals", "others"} THEN rows[Sites][Row(token)] ELSE Failed

HeaderLen(s) ==
  IF s = <<>> THEN Failed
  ELSE IF s[1] % 4 = 2 THEN 1
  ELSE IF s[1] % 4 # 3 \/ Len(s) < 2 THEN Failed
  ELSE IF s[2] \div 16 < 3 \/ 4 * (s[2] \div 16) > Len(s) THEN Failed ELSE 4 * (s[2] \div 16)

ReadBody(rows, s) ==
  LET header == HeaderLen(s)
      fat    == header # 1
      size   == IF fat THEN s[5] ELSE s[1] \div 4
      code   == ReadCode(rows, SubSeq(s, header + 1, header + size), 0)
      locals == IF fat THEN LocalsOf(rows, s[9]) ELSE "none"
      more   == fat /\ (s[1] \div 8) % 2 = 1
      start  == Align4(header + size)
      clauses == IF more THEN ReadSections(SubSeq(s, start + 1, Len(s)), 0) ELSE <<>>
  IN  IF header = Failed THEN Failed
      ELSE IF header + size > Len(s) THEN Failed
      ELSE IF code = Failed \/ locals = Failed THEN Failed
      ELSE IF more /\ start > Len(s) THEN Failed
      ELSE IF clauses = Failed THEN Failed
      ELSE IF ~Catches(rows, clauses) THEN Failed
      ELSE Body(IF fat THEN s[3] ELSE 8, fat /\ (s[1] \div 16) % 2 = 1, locals, code, clauses)

-----------------------------------------------------------------------------
(* The bodies of a module, in the order of its methods.  Methods at one RVA *)
(* share what was decoded there; the RVAs that came in ascending order are  *)
(* searched, the others looked up.                                          *)

NoOwners == [ordered |-> <<>>, reordered |-> {}]
LastOrdered(owners) == owners.ordered[Len(owners.ordered)][1]
Ascending(owners, rva) == IF owners.ordered = <<>> THEN TRUE ELSE rva > LastOrdered(owners)

(* A mutation: only the ordered ones are asked.                             *)
OwnerInOrder(owners, rva) ==
  IF Ascending(owners, rva) THEN Missing
  ELSE LET hits == {o \in Range(owners.ordered) : o[1] >= rva}
       IN  (CHOOSE h \in hits : \A other \in hits : h[1] =< other[1])[2]

OwnerOf(owners, rva) ==
  LET hits == {o \in Range(owners.ordered) \cup owners.reordered : o[1] = rva}
  IN  IF Ascending(owners, rva) \/ hits = {} THEN Missing ELSE (CHOOSE o \in hits : TRUE)[2]

Owning(owners, rva, method) ==
  IF Ascending(owners, rva) THEN [owners EXCEPT !.ordered = Append(@, <<rva, method>>)]
  ELSE [owners EXCEPT !.reordered = @ \cup {<<rva, method>>}]

Image(file, rva) == SubSeq(file.stream, rva, Len(file.stream))

(* The next method.  A body that fails is left out (the reader recovers).   *)
ReadMethodBody ==
  LET m     == state.next
      rva   == state.file.methods[m]
      owner == OwnerOf(state.owners, rva)
      body  == IF owner # Missing THEN state.bodies[owner] ELSE ReadBody(state.file.rows, Image(state.file, rva))
  IN  /\ state.phase = "reading" /\ m \in DOMAIN state.file.methods
      /\ IF rva = 0 \/ state.bodies[m] # Missing THEN state' = [state EXCEPT !.next = m + 1]
         ELSE state' = [state EXCEPT !.next = m + 1,
                          !.bodies[m] = IF body = Failed THEN Missing ELSE body,
                          !.owners = IF owner # Missing \/ body = Failed THEN @ ELSE Owning(@, rva, m)]

-----------------------------------------------------------------------------
(* Encoding.  The tables of the new file hold what the operands written so  *)
(* far name; definitions are renumbered.                                    *)

Interning == {TypeRefs, TypeSpecs, MemberRefs, MethodSpecs}
NoTables == [t \in Interning \cup {Sites} |-> <<>>]

(* The row of a thing, appended when it has none.                           *)
Interned_(tables, table, thing) ==
  IF thing \in Range(tables[table]) THEN tables ELSE [tables EXCEPT ![table] = Append(@, thing)]
TokenIn(tables, table, thing) ==
  TokenAt(table, CHOOSE r \in DOMAIN tables[table] : tables[table][r] = thing)

Renumbered(file, token) ==
  IF Table(token) \in {Fields, Methods} /\ Row(token) \in DOMAIN file.rows[Table(token)]
  THEN TokenAt(Table(token), file.order[Table(token)][Row(token)]) ELSE token

(* The table an operand is interned in and its thing there, or none.        *)
Place(file, instr) ==
  LET token == instr.args[1]
      site  == Table(token) = Sites /\ Row(token) \in DOMAIN file.rows[Sites]
  IN  CASE instr.kind \in {"type", "method", "field"} /\ Table(token) \in Interning -> <<Table(token), token>>
        [] Shapes[instr.op] = "sig" /\ site -> <<Sites, file.rows[Sites][Row(token)]>>
        [] OTHER -> <<>>

(* Whether the operand is one the opcode can carry.                         *)
Fits(instr) ==
  LET shape == Shapes[instr.op]
  IN  \/ instr.kind = shape
      \/ instr.kind = "token" /\ shape \in Tokens \cup {"sig"}
      \/ instr.kind \in {"type", "method", "field"} /\ shape = "tok"
      \/ instr.kind \in {"site", "method"} /\ shape = "sig"

(* A mutation: the displacements of a switch count from its targets.        *)
SwitchFromTable(instr, o) ==
  LET base == o + FixedSize(instr.op)
  IN  Wide(Len(instr.args), 4) \o FlattenSeq([i \in DOMAIN instr.args |-> Wide(instr.args[i] - base, 4)])

SwitchTable(instr, o) ==
  LET base == o + Size(instr)
  IN  Wide(Len(instr.args), 4) \o FlattenSeq([i \in DOMAIN instr.args |-> Wide(instr.args[i] - base, 4)])

Encoded(file, tables, instr, o) ==
  LET shape == Shapes[instr.op]
      place == Place(file, instr)
      next  == o + FixedSize(instr.op)
      operand ==
        CASE shape = "none" -> <<>>
          [] shape = "switch" -> SwitchTable(instr, o)
          [] shape = "br1" -> <<(instr.args[1] - next) % 256>>
          [] shape = "br4" -> Wide(instr.args[1] - next, 4)
          [] shape \in Tokens \cup {"sig"} ->
               Wide(IF place = <<>> THEN Renumbered(file, instr.args[1])
                    ELSE TokenIn(Interned_(tables, place[1], place[2]), place[1], place[2]), 4)
          [] OTHER -> Wide(instr.args[1], Width(shape))
  IN  [tables |-> IF shape \in Tokens \cup {"sig"} /\ place # <<>> THEN Interned_(tables, place[1], place[2]) ELSE tables,
       cells |-> (IF instr.op < 256 THEN <<instr.op>> ELSE <<254, instr.op - 65024>>) \o operand]

EncodedCode(file, tables, code) ==
  FoldLeft(LAMBDA acc, instr :
             LET one == Encoded(file, acc.tables, instr, Len(acc.cells))
             IN  [tables |-> one.tables, cells |-> acc.cells \o one.cells],
           [tables |-> tables, cells |-> <<>>], code)

(* Clauses in the order of their try blocks, then of their handlers.        *)
Sorted(clauses) ==
  LET Before(i, j) == LET a == <<clauses[i].try[1], clauses[i].handler[1], i>>
                          b == <<clauses[j].try[1], clauses[j].handler[1], j>>
                      IN  \E k \in 1..3 : a[k] < b[k] /\ \A l \in 1..(k - 1) : a[l] = b[l]
      order == SortSeq([k \in DOMAIN clauses |-> k], Before)
  IN  [k \in DOMAIN clauses |-> clauses[order[k]]]

NeedsFat(clauses) ==
  Len(clauses) >= 21 \/ \E k \in DOMAIN clauses :
    \/ \E block \in {clauses[k].try, clauses[k].handler} :
         block[1] \notin 0..65535 \/ block[2] \notin 0..255
    \/ clauses[k].kind = 1 /\ clauses[k].extra \notin 0..65535

(* A small field keeps the low bits of what it is given.                    *)
ClauseCells(c, extra, fat) ==
  IF fat THEN Wide(c.kind, 4) \o Wide(c.try[1], 4) \o Wide(c.try[2], 4) \o Wide(c.handler[1], 4)
              \o Wide(c.handler[2], 4) \o Wide(extra, 4)
  ELSE Wide(c.kind, 2) \o Wide(c.try[1] % 65536, 2) \o <<c.try[2] % 256>>
         \o Wide(c.handler[1] % 65536, 2) \o <<c.handler[2] % 256>> \o Wide(extra, 4)

EncodedClauses(file, tables, clauses) ==
  LET fat == NeedsFat(clauses)
      all == FoldLeft(LAMBDA acc, c :
               LET place == IF c.kind = 0 /\ Table(c.extra) \in Interning THEN <<Table(c.extra), c.extra>> ELSE <<>>
                   after == IF place = <<>> THEN acc.tables ELSE Interned_(acc.tables, place[1], place[2])
                   extra == IF place = <<>> THEN c.extra ELSE TokenIn(after, place[1], place[2])
               IN  [tables |-> after, cells |-> acc.cells \o ClauseCells(c, extra, fat)],
               [tables |-> tables, cells |-> <<>>], Sorted(clauses))
  IN  [all EXCEPT !.cells = (IF fat THEN <<65>> \o Wide(4 + 24 * Len(clauses), 3)
                             ELSE <<1, 4 + 12 * Len(clauses), 0, 0>>) \o @]

RequiresFat(body) ==
  \/ FoldLeft(LAMBDA n, instr : n + Size(instr), 0, body.code) >= 64
  \/ body.init \/ body.locals # "none" \/ body.clauses # <<>> \/ body.maxStack > 8

(* A body appended to the code stream: nothing for an empty one.            *)
Emitted(file, out, body) ==
  LET fat     == RequiresFat(body)
      tables0 == IF body.locals = "none" THEN out.tables ELSE Interned_(out.tables, Sites, body.locals)
      code    == EncodedCode(file, tables0, body.code)
      clauses == EncodedClauses(file, code.tables, body.clauses)
      more    == IF body.clauses # <<>> THEN 8 ELSE 0
      header  == IF fat THEN <<3 + more + (IF body.init THEN 16 ELSE 0), 48>> \o Wide(body.maxStack, 2)
                               \o Wide(Len(code.cells), 4)
                               \o Wide(IF body.locals = "none" THEN 0 ELSE TokenIn(tables0, Sites, body.locals), 4)
                 ELSE <<4 * Len(code.cells) + 2>>
      cells   == header \o code.cells
  IN  IF body.code = <<>> /\ body.locals = "none" THEN out
      ELSE [tables |-> IF body.clauses = <<>> THEN code.tables ELSE clauses.tables,
            cells |-> out.cells \o cells
              \o (IF body.clauses = <<>> THEN <<>>
                  ELSE Zeros(Align4(Len(out.cells) + Len(cells)) - Len(out.cells) - Len(cells)) \o clauses.cells)]

(* Every body starts aligned, and its method gets the position it starts at *)
(* even when nothing was written there.                                     *)
WriteMethodBody ==
  LET m    == state.next
      body == state.bodies[m]
      padded == [state.out EXCEPT !.cells = @ \o Zeros(Align4(Len(@)) - Len(@))]
  IN  /\ state.phase = "writing" /\ m \in DOMAIN state.bodies
      /\ IF body = Missing THEN state' = [state EXCEPT !.next = m + 1]
         ELSE IF \E i \in DOMAIN body.code : ~Fits(body.code[i])
         THEN state' = [state EXCEPT !.phase = "refused"]
         ELSE state' = [state EXCEPT !.next = m + 1, !.rvas[m] = Len(padded.cells) + 1,
                          !.out = Emitted(state.file, padded, body)]

BeginWriting ==
  /\ state.phase = "reading" /\ state.next > Len(state.bodies)
  /\ state' = [state EXCEPT !.phase = "writing", !.next = 1]

BodiesWritten ==
  /\ state.phase = "writing" /\ state.next > Len(state.bodies)
  /\ state' = [state EXCEPT !.phase = "written"]

BodiesInit ==
  /\ unit = "bodies"
  /\ \E f \in BodyFiles :
       state = [phase |-> "reading", file |-> f, next |-> 1, owners |-> NoOwners,
                bodies |-> [m \in DOMAIN f.methods |-> IF m \in DOMAIN f.authored THEN f.authored[m] ELSE Missing],
                out |-> [tables |-> NoTables, cells |-> <<>>], rvas |-> [m \in DOMAIN f.methods |-> 0]]

BodiesNext ==
  unit = "bodies" /\ UNCHANGED unit
    /\ (ReadMethodBody \/ BeginWriting \/ WriteMethodBody \/ BodiesWritten)

-----------------------------------------------------------------------------
(* Each method has the body at its own RVA, whatever the order of the RVAs  *)
(* and whoever was read there before; a body authored before the deferred   *)
(* ones were loaded is kept and given to nobody.                            *)
BodiesFollowRva ==
  unit = "bodies" /\ state.phase = "written" =>
    \A m \in DOMAIN state.bodies :
      LET rva  == state.file.methods[m]
          read == ReadBody(state.file.rows, Image(state.file, rva))
      IN  state.bodies[m] = IF m \in DOMAIN state.file.authored THEN state.file.authored[m]
                            ELSE IF rva = 0 \/ read = Failed THEN Missing ELSE read

(* The writer refuses nothing the reader produced: the operands the reader  *)
(* resolves are operands their opcodes can carry.                           *)
ReadBodiesAreWritable == unit = "bodies" => state.phase # "refused"

(* The rows of the new file, and what a token of the new file denotes in    *)
(* the old one.                                                             *)
NewRows ==
  [t \in DOMAIN state.file.rows |->
     LET old == state.file.rows[t]
     IN  CASE t = Sites -> state.out.tables[Sites]
           [] t \in Interning -> [r \in DOMAIN state.out.tables[t] |-> old[Row(state.out.tables[t][r])]]
           [] OTHER -> old]
Denoted(token) ==
  LET t == Table(token)
  IN  CASE t \in Interning /\ Row(token) \in DOMAIN state.out.tables[t] -> state.out.tables[t][Row(token)]
        [] t \in {Fields, Methods} /\ Row(token) \in DOMAIN state.file.rows[t] ->
             TokenAt(t, CHOOSE r \in DOMAIN state.file.rows[t] : state.file.order[t][r] = Row(token))
        [] OTHER -> token

(* A body read from the new image: its operands as the old file names them. *)
(* A raw token that names no definition keeps its number, and so names      *)
(* whatever the new file has there.                                         *)
Known(instr) == instr.kind # "token" \/ Table(instr.args[1]) \in {Fields, Methods}
SameInstr(old, new) ==
  /\ old.op = new.op
  /\ IF Shapes[old.op] = "sig" THEN old.kind = "site" => new.kind = "site"
     ELSE IF Shapes[old.op] \in Tokens
     THEN Known(old) => new.kind = old.kind /\ Denoted(new.args[1]) = old.args[1]
     ELSE new = old
SameBody(old, new) ==
  /\ new # Failed
  /\ [new EXCEPT !.code = <<>>, !.clauses = <<>>] = [old EXCEPT !.code = <<>>, !.clauses = <<>>]
  /\ Len(new.code) = Len(old.code) /\ \A i \in DOMAIN old.code : SameInstr(old.code[i], new.code[i])
  /\ [k \in DOMAIN new.clauses |-> IF new.clauses[k].kind = 0 THEN [new.clauses[k] EXCEPT !.extra = Denoted(@)]
                                   ELSE new.clauses[k]] = Sorted(old.clauses)

(* What was written reads back: every body that is not empty, from its own  *)
(* position in the stream, with its clauses in the writer's order.          *)
BodiesReadBack ==
  unit = "bodies" /\ state.phase = "written" =>
    \A m \in DOMAIN state.bodies :
      LET body == state.bodies[m]
      IN  IF body = Missing THEN state.rvas[m] = 0
          ELSE (body.code # <<>> \/ body.locals # "none") =>
               SameBody(body, ReadBody(NewRows, SubSeq(state.out.cells, state.rvas[m], Len(state.out.cells))))
=============================================================================
