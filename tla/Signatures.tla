------------------------------ MODULE Signatures ------------------------------
(***************************************************************************)
(* Signature blobs (signature.rs): types, method, field, property and      *)
(* local variable signatures, read from bytes and written back.            *)
(*                                                                         *)
(* A type is a tree [op, nums, kids]: the element code, its numbers and    *)
(* the types inside it.  A compressed number is one byte here; module      *)
(* Marshalling has their encoding.  A named type is its cell; which cells  *)
(* are value types the context knows.                                      *)
(***************************************************************************)
EXTENDS Workbench

CONSTANTS
  MaxSigDepth,     \* levels of nesting the reader accepts (64)
  SignatureBlobs,  \* [kind, bytes] the reader is given
  ValueCells       \* the cells of value types

VALUETYPE == 17
CLASS == 18
ARRAY == 20
GENERICINST == 21
FNPTR == 27
SENTINEL == 65
PINNED == 69
Primitives == 1..14 \cup {24, 25, 28}
Leaves == Primitives \cup {22, SENTINEL}        \* and TYPEDBYREF
Around == {15, 16, 29, PINNED}                  \* PTR, BYREF, SZARRAY
Variables == {19, 30}                           \* VAR, MVAR
Modifiers == {31, 32}                           \* CMOD_REQD, CMOD_OPT
Conventions == {0, 1, 2, 3, 4, 5, 9}
VARARG == 5
METHOD == 256                                   \* a method signature as a tree

Tree(op, nums, kids) == [op |-> op, nums |-> nums, kids |-> kids]
Bit(byte, value) == (byte \div value) % 2
Flag(b) == IF b THEN 1 ELSE 0

-----------------------------------------------------------------------------
(* Reading from position p on: what was read and the position after it.    *)

Got(type, next) == [type |-> type, next |-> next]
Stop == Got(Failed, 0)
Several(types, next, vararg) == [types |-> types, next |-> next, vararg |-> vararg]

(* n numbers from p on, or as many as there are.                           *)
Numbers(s, p, n) == SubSeq(s, p, p + n - 1)

RECURSIVE ReadType(_, _, _), ReadTypes(_, _, _, _, _), ReadMethod(_, _, _)
ReadType(s, p, depth) ==
  IF depth > MaxSigDepth \/ p > Len(s) THEN Stop
  ELSE LET op   == s[p]
           one  == ReadType(s, p + 1, depth + 1)
           cell == IF p < Len(s) /\ s[p + 1] # 0 THEN s[p + 1] ELSE Failed
       IN CASE op \in Leaves -> Got(Tree(op, <<>>, <<>>), p + 1)
            [] op \in {CLASS, VALUETYPE} ->
                 IF cell = Failed THEN Stop ELSE Got(Tree(CLASS, <<cell>>, <<>>), p + 2)
            [] op \in Variables ->
                 IF p = Len(s) THEN Stop ELSE Got(Tree(op, <<s[p + 1]>>, <<>>), p + 2)
            [] op \in Around ->
                 IF one.type = Failed THEN Stop ELSE Got(Tree(op, <<>>, <<one.type>>), one.next)
            [] op \in Modifiers ->
                 LET type == ReadType(s, p + 2, depth + 1)
                 IN  IF cell = Failed \/ type.type = Failed THEN Stop
                     ELSE Got(Tree(op, <<cell>>, <<type.type>>), type.next)
            [] op = GENERICINST ->
                 IF p + 3 > Len(s) \/ cell \notin {CLASS, VALUETYPE} THEN Stop
                 ELSE LET args == ReadTypes(s, Several(<<>>, p + 4, Missing), s[p + 3], depth + 1, Missing)
                      IN  IF s[p + 2] = 0 \/ args.types = Failed THEN Stop
                          ELSE Got(Tree(op, <<s[p + 2]>>, args.types), args.next)
            [] op = ARRAY ->
                 LET elem == ReadType(s, p + 1, depth + 2)
                     q    == elem.next
                 IN  IF elem.type = Failed \/ q + 1 > Len(s) THEN Stop
                     ELSE LET end == q + 2 + s[q + 1]     \* of the sizes
                          IN  IF end > Len(s) \/ end + s[end] > Len(s) THEN Stop
                              ELSE IF s[q] = 0 \/ s[q + 1] > s[q] \/ s[end] > s[q] THEN Stop
                              ELSE Got(Tree(op, <<s[q + 1]>> \o Numbers(s, q + 2, s[q + 1])
                                                  \o Numbers(s, end + 1, s[end]), <<elem.type>>),
                                       end + 1 + s[end])
            [] op = FNPTR ->
                 LET sig == ReadMethod(s, p + 1, depth + 1)
                 IN  IF sig.type = Failed THEN Stop ELSE Got(Tree(op, <<>>, <<sig.type>>), sig.next)
            [] OTHER -> Stop

(* n types after those of acc; in a parameter list a sentinel before one is *)
(* where the variable arguments begin.                                      *)
ReadTypes(s, acc, n, depth, convention) ==
  IF n = 0 THEN acc
  ELSE LET sentinel == convention # Missing /\ acc.next =< Len(s) /\ s[acc.next] = SENTINEL
           type     == ReadType(s, acc.next + Flag(sentinel), depth)
       IN  IF type.type = Failed \/ (sentinel /\ (convention # VARARG \/ acc.vararg # Missing))
           THEN Several(Failed, 0, Missing)
           ELSE ReadTypes(s, Several(Append(acc.types, type.type), type.next,
                                     IF sentinel THEN Len(acc.types) ELSE acc.vararg),
                          n - 1, depth, convention)

(* Numbers of a method: this, explicit this, convention, arity, and how many *)
(* parameters come before the variable arguments.                            *)
ReadMethod(s, p, depth) ==
  IF p > Len(s) \/ Bit(s[p], 64) > Bit(s[p], 32) \/ s[p] % 16 \notin Conventions THEN Stop
  ELSE LET q      == p + 1 + Bit(s[p], 16)
           return == ReadType(s, q + 1, depth + 1)
       IN  IF q > Len(s) \/ return.type = Failed THEN Stop
           ELSE LET params == ReadTypes(s, Several(<<>>, return.next, Missing), s[q], depth + 1, s[p] % 16)
                IN  IF params.types = Failed THEN Stop
                    ELSE Got(Tree(METHOD, <<Bit(s[p], 32), Bit(s[p], 64), s[p] % 16,
                                            IF Bit(s[p], 16) = 1 THEN s[p + 1] ELSE 0,
                                            IF params.vararg = Missing THEN Len(params.types)
                                            ELSE params.vararg>>,
                                  <<return.type>> \o params.types), params.next)

(* Locals: a PINNED before a local is a flag of the local.                  *)
RECURSIVE ReadLocals(_, _, _)
ReadLocals(s, acc, n) ==
  IF n = 0 THEN Got(Tree(7, acc.nums, acc.types), acc.next)
  ELSE LET pinned == acc.next =< Len(s) /\ s[acc.next] = PINNED
           type   == ReadType(s, acc.next + Flag(pinned), 0)
       IN  IF type.type = Failed THEN Stop
           ELSE ReadLocals(s, [types |-> Append(acc.types, type.type), next |-> type.next,
                               nums |-> Append(acc.nums, Flag(pinned))], n - 1)

ReadBlob(kind, s) ==
  CASE kind = "type"   -> ReadType(s, 1, 0)
    [] kind = "method" -> ReadMethod(s, 1, 0)
    [] kind = "field"  -> IF s = <<>> \/ s[1] # 6 THEN Stop ELSE ReadType(s, 2, 0)
    [] kind = "locals" -> IF Len(s) < 2 \/ s[1] # 7 THEN Stop
                          ELSE ReadLocals(s, [types |-> <<>>, next |-> 3, nums |-> <<>>], s[2])
    [] kind = "property" ->
         IF Len(s) < 2 \/ s[1] - 32 * Bit(s[1], 32) - 64 * Bit(s[1], 64) # 8 THEN Stop
         ELSE LET all == ReadTypes(s, Several(<<>>, 3, Missing), s[2] + 1, 0, Missing)
              IN  IF all.types = Failed THEN Stop
                  ELSE Got(Tree(8, <<Bit(s[1], 32)>>, all.types), all.next)

-----------------------------------------------------------------------------
(* Writing.  The rank of an array is not kept: it is the number of bounds.  *)

Sizes(t) == SubSeq(t.nums, 2, 1 + t.nums[1])
Lobounds(t) == SubSeq(t.nums, 2 + t.nums[1], Len(t.nums))
Rank(t) == Max({Len(Sizes(t)), Len(Lobounds(t))})
Marker(cell) == IF cell \in ValueCells THEN VALUETYPE ELSE CLASS

RECURSIVE HasRanks(_)
HasRanks(t) ==
  /\ t.op = ARRAY => Rank(t) > 0
  /\ \A i \in DOMAIN t.kids : HasRanks(t.kids[i])

RECURSIVE WriteType(_)
(* A mutation: the sentinel is written before the parameters it divides.    *)
WriteMethodSentinelFirst(t) ==
  LET generic == t.nums[4] > 0
      params  == Tail(t.kids)
      fixed   == t.nums[5]
  IN  <<t.nums[3] + 32 * t.nums[1] + 64 * t.nums[2] + 16 * Flag(generic)>>
      \o (IF generic THEN <<t.nums[4]>> ELSE <<>>) \o <<Len(params)>> \o WriteType(Head(t.kids))
      \o (IF fixed < Len(params) THEN <<SENTINEL>> ELSE <<>>)
      \o FlattenSeq([i \in DOMAIN params |-> WriteType(params[i])])

WriteMethod(t) ==
  LET generic == t.nums[4] > 0
      params  == Tail(t.kids)
  IN  <<t.nums[3] + 32 * t.nums[1] + 64 * t.nums[2] + 16 * Flag(generic)>>
      \o (IF generic THEN <<t.nums[4]>> ELSE <<>>) \o <<Len(params)>> \o WriteType(Head(t.kids))
      \o FlattenSeq([i \in DOMAIN params |->
           (IF t.nums[3] = VARARG /\ i = t.nums[5] + 1 THEN <<SENTINEL>> ELSE <<>>)
             \o WriteType(params[i])])

(* A mutation: an array is written with as many lower bounds as sizes.      *)
WriteArraySizes(t) ==
  <<ARRAY>> \o WriteType(t.kids[1]) \o <<Rank(t), Len(Sizes(t))>> \o Sizes(t)
    \o <<Len(Sizes(t))>> \o Sizes(t)

WriteArray(t) ==
  <<ARRAY>> \o WriteType(t.kids[1]) \o <<Rank(t), Len(Sizes(t))>> \o Sizes(t)
    \o <<Len(Lobounds(t))>> \o Lobounds(t)

WriteType(t) ==
  LET kids == FlattenSeq([i \in DOMAIN t.kids |-> WriteType(t.kids[i])])
  IN  CASE t.op = CLASS       -> <<Marker(t.nums[1]), t.nums[1]>>
        [] t.op = GENERICINST -> <<t.op, Marker(t.nums[1]), t.nums[1], Len(t.kids)>> \o kids
        [] t.op = ARRAY       -> WriteArray(t)
        [] t.op = FNPTR       -> <<t.op>> \o WriteMethod(t.kids[1])
        [] t.op \in Leaves \cup Around \cup Variables \cup Modifiers -> <<t.op>> \o t.nums \o kids

WriteBlob(kind, t) ==
  CASE kind = "type"     -> WriteType(t)
    [] kind = "method"   -> WriteMethod(t)
    [] kind = "field"    -> <<6>> \o WriteType(t)
    [] kind = "property" ->
         <<8 + 32 * t.nums[1], Len(t.kids) - 1>> \o FlattenSeq([i \in DOMAIN t.kids |-> WriteType(t.kids[i])])
    [] kind = "locals"   ->
         <<7, Len(t.kids)>> \o FlattenSeq([i \in DOMAIN t.kids |->
            (IF t.nums[i] = 1 THEN <<PINNED>> ELSE <<>>) \o WriteType(t.kids[i])])

-----------------------------------------------------------------------------
SignaturesInit ==
  /\ unit = "signatures"
  /\ \E b \in SignatureBlobs : state = [phase |-> "given", blob |-> b, read |-> Stop, written |-> <<>>]

ReadSignature ==
  /\ state.phase = "given"
  /\ state' = [state EXCEPT !.phase = "read", !.read = ReadBlob(state.blob.kind, state.blob.bytes)]

WriteSignature ==
  /\ state.phase = "read" /\ state.read.type # Failed /\ HasRanks(state.read.type)
  /\ state' = [state EXCEPT !.phase = "written", !.written = WriteBlob(state.blob.kind, state.read.type)]

SignaturesNext == unit = "signatures" /\ UNCHANGED unit /\ (ReadSignature \/ WriteSignature)

-----------------------------------------------------------------------------
(* What the reader accepts and the writer writes reads back as the same     *)
(* signature, to the last byte: signatures written one after another in one *)
(* blob stay apart.                                                         *)
SignaturesReadBack ==
  unit = "signatures" /\ state.phase = "written" =>
    ReadBlob(state.blob.kind, state.written) = Got(state.read.type, Len(state.written) + 1)

(* And no byte of it is lost or moved: a marker follows the context, the    *)
(* rank of an array its bounds, a property has no explicit-this flag, and   *)
(* a generic flag before an arity of zero is dropped.                       *)
Arityless(s) == \E i \in 1..(Len(s) - 1) : s[i] \in {16, 48} /\ s[i + 1] = 0
SignatureBytesKept ==
  unit = "signatures" /\ state.phase = "written" /\ ~Arityless(state.blob.bytes) =>
    LET given == state.blob.bytes
        new   == state.written
    IN  /\ Len(new) = state.read.next - 1
        /\ \A i \in DOMAIN new : new[i] # given[i] =>
              \/ {new[i], given[i]} = {CLASS, VALUETYPE}
              \/ ARRAY \in Range(given) /\ new[i] < given[i]
              \/ i = 1 /\ state.blob.kind = "property"
=============================================================================
