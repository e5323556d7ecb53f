------------------------------ MODULE Attributes ------------------------------
(***************************************************************************)
(* Custom attribute arguments (custom_attribute.rs): the form of real      *)
(* images, where the constructor's parameters say what the fixed arguments *)
(* are, and the form that describes itself.                                *)
(*                                                                         *)
(* A blob is a sequence of cells: a byte of a primitive is one, and so is  *)
(* a count, a tag or a whole string.  The name of a type is a cell; names  *)
(* 2 to 14, 80 and 81 are those of System that have the tag as their code. *)
(* A shape (Fpt) is the chain of tags that stands for it on the wire.  A   *)
(* value is [k, v, kids]: its tag, its cells and the values inside it.     *)
(***************************************************************************)
EXTENDS Workbench

CONSTANTS
  AttributeBlobs,   \* [params, cells, form]: a blob in one of the two forms
  EnumWidths,       \* [name -> code] of the enums the caller can look at
  NestedTypeNames,      \* names of nested types
  Unparsable,       \* names that do not parse
  Unnameable,       \* names of types with no name of their own: arrays, instances
  SlashOf           \* [NestedTypeNames -> name]: the same spelt with a slash

TEXT == 14
OBJECT == 81
TYPE == 80
ENUM == 85
SZARRAY == 29
NULL == 255
FIELD == 83
PROPERTY == 84
PrimCodes == 2..13
PrimWidth(code) == IF code \in {2, 4, 5} THEN 1 ELSE IF code \in {3, 6, 7} THEN 2 ELSE IF code \in {8, 9, 12} THEN 4 ELSE 8

Arg(k, v, kids) == [k |-> k, v |-> v, kids |-> kids]
NullObj == Arg(NULL, <<>>, <<>>)
Taken(value, next) == [value |-> value, next |-> next]
Bad == Taken(Failed, 0)


Parsed(name) == IF name \in Unparsable THEN Failed ELSE name
(* The name a type is written by: nested names are joined with a slash,     *)
(* which reads as a part of one name.                                       *)
WireName(name) ==
  IF name \in Unnameable THEN Failed ELSE IF name \in NestedTypeNames THEN SlashOf[name] ELSE name

-----------------------------------------------------------------------------
(* The shape of a parameter.  Anything that is not a name of System is an   *)
(* enum; a generic instance is its definition.                              *)
RECURSIVE FptOfParam(_)
FptOfParam(type) ==
  CASE type.op = "szarray" -> <<SZARRAY>> \o FptOfParam(type.kids[1])
    [] type.op = "instance" -> FptOfParam(type.kids[1])
    [] type.op = "named" -> IF type.name \in PrimCodes \cup {TEXT, TYPE, OBJECT} THEN <<type.name>> ELSE <<ENUM, type.name>>
    [] type.op = "void" -> <<NULL>>

EnumCode(name) == IF name \in DOMAIN EnumWidths THEN EnumWidths[name] ELSE 8

-----------------------------------------------------------------------------
(* Reading.  A boolean is true only as one, and a surrogate is no char.     *)

Normal(code, cells) ==
  IF code = 2 THEN IF cells = <<1>> THEN <<1>> ELSE <<0>>
  ELSE IF code = 3 /\ cells[2] \in 216..223 THEN <<253, 255>> ELSE cells
ReadPrimitive(b, at, code) ==
  IF at + PrimWidth(code) - 1 > Len(b) THEN Bad
  ELSE Taken(Arg(code, Normal(code, SubSeq(b, at, at + PrimWidth(code) - 1)), <<>>), at + PrimWidth(code))
ReadString(b, at) == IF at > Len(b) THEN Bad ELSE Taken(Arg(TEXT, <<b[at]>>, <<>>), at + 1)
ReadTypeValue(b, at) ==
  IF at > Len(b) THEN Bad
  ELSE IF b[at] # NULL /\ Parsed(b[at]) = Failed THEN Bad ELSE Taken(Arg(TYPE, <<b[at]>>, <<>>), at + 1)
EnumOf(name, payload) == IF payload.value = Failed THEN Bad ELSE Taken(Arg(ENUM, <<name>>, <<payload.value>>), payload.next)
ReadEnum(b, at, name) == EnumOf(name, ReadPrimitive(b, at, EnumCode(name)))

(* The chain of tags from a position on: an object's inner tag belongs to   *)
(* its value.                                                               *)
RECURSIVE ReadFpt(_, _)
OfElement(fpt) == IF fpt.value = Failed THEN Bad ELSE Taken(<<SZARRAY>> \o fpt.value, fpt.next)
ReadFpt(b, at) ==
  IF at > Len(b) THEN Bad
  ELSE IF b[at] \in PrimCodes \cup {TEXT, TYPE, OBJECT} THEN Taken(<<b[at]>>, at + 1)
  ELSE IF b[at] = SZARRAY THEN OfElement(ReadFpt(b, at + 1))
  ELSE IF b[at] = ENUM /\ at < Len(b) THEN
    (IF b[at + 1] = NULL \/ Parsed(b[at + 1]) = Failed THEN Bad ELSE Taken(<<ENUM, b[at + 1]>>, at + 2))
  ELSE Bad

RECURSIVE ReadValue(_, _, _), ReadItems(_, _, _, _, _), ReadTagged(_, _)
Boxed(inner) == IF inner.value = Failed THEN Bad ELSE Taken(Arg(OBJECT, <<>>, <<inner.value>>), inner.next)
ItemsFrom(b, item, left, fpt, items) ==
  IF item.value = Failed THEN Bad ELSE ReadItems(b, item.next, left, fpt, Append(items, item.value))
ReadItems(b, at, left, fpt, items) ==
  IF left = 0 THEN Taken(Arg(SZARRAY, <<>>, items), at)
  ELSE ItemsFrom(b, ReadValue(b, at, fpt), left - 1, fpt, items)
ReadArray(b, at, fpt) ==
  IF at > Len(b) \/ b[at] = NULL \/ b[at] > Len(b) - at THEN Bad ELSE ReadItems(b, at + 1, b[at], fpt, <<>>)

(* A value of a known shape.                                                *)
ReadValue(b, at, fpt) ==
  CASE fpt[1] \in PrimCodes -> ReadPrimitive(b, at, fpt[1])
    [] fpt[1] = TEXT -> ReadString(b, at)
    [] fpt[1] = TYPE -> ReadTypeValue(b, at)
    [] fpt[1] = OBJECT -> IF at > Len(b) THEN Bad ELSE IF b[at] = NULL THEN Taken(NullObj, at + 1) ELSE Boxed(ReadTagged(b, at))
    [] fpt[1] = SZARRAY -> ReadArray(b, at, Tail(fpt))
    [] fpt[1] = ENUM -> ReadEnum(b, at, fpt[2])

(* A value that says what it is.                                            *)
AfterTag(b, fpt) == IF fpt.value = Failed THEN Bad ELSE ReadValue(b, fpt.next, fpt.value)
ReadTagged(b, at) ==
  IF at > Len(b) THEN Bad ELSE IF b[at] = NULL THEN Taken(NullObj, at + 1) ELSE AfterTag(b, ReadFpt(b, at))

(* Named arguments: kind, tags, name, value; the kind is not kept.          *)
NameAndValue(b, fpt) ==
  IF fpt.value = Failed THEN Bad
  ELSE IF fpt.next > Len(b) THEN Bad
  ELSE IF b[fpt.next] = NULL THEN Bad ELSE ReadValue(b, fpt.next + 1, fpt.value)
Named_(b, fpt, value) == IF value.value = Failed THEN Bad ELSE Taken(<<b[fpt.next], value.value>>, value.next)
NamedFrom(b, fpt) == Named_(b, fpt, NameAndValue(b, fpt))
ReadNamed(b, at) == IF at > Len(b) THEN Bad ELSE IF b[at] \notin {FIELD, PROPERTY} THEN Bad ELSE NamedFrom(b, ReadFpt(b, at + 1))

(* n readings one after another.  Each takes a cell or fails, so that a     *)
(* count of more than the cells that are left fails in the end.             *)
Next_(acc, one) == IF one.value = Failed THEN Bad ELSE Taken(Append(acc.value, one.value), one.next)
ReadFixed(b, params) ==
  FoldLeft(LAMBDA acc, p : IF acc.value = Failed \/ NULL \in Range(FptOfParam(p)) THEN Bad
                           ELSE Next_(acc, ReadValue(b, acc.next, FptOfParam(p))),
           Taken(<<>>, 2), params)
ReadAllNamed(b, at, n) ==
  IF n > Len(b) - at + 1 THEN Bad
  ELSE FoldLeft(LAMBDA acc, i : IF acc.value = Failed THEN Bad ELSE Next_(acc, ReadNamed(b, acc.next)),
                Taken(<<>>, at), [i \in 1..n |-> i])
WholeBlob(b, fixed, named) ==
  IF named.value = Failed THEN Failed
  ELSE IF named.next # Len(b) + 1 THEN Failed ELSE [fixed |-> fixed.value, named |-> named.value]
WithNamed(b, fixed) ==
  IF fixed.value = Failed THEN Failed
  ELSE IF fixed.next > Len(b) THEN Failed ELSE WholeBlob(b, fixed, ReadAllNamed(b, fixed.next + 1, b[fixed.next]))
DecodeFor(b, params) == IF b = <<>> THEN Failed ELSE IF b[1] # 1 THEN Failed ELSE WithNamed(b, ReadFixed(b, params))

-----------------------------------------------------------------------------
(* Writing.  The tags of an array are those of its first element, or of an  *)
(* object when it has none; a null reference has none.                      *)

Concat(parts) == IF Failed \in Range(parts) THEN Failed ELSE FlattenSeq(parts)

RECURSIVE FptOfArg(_)
FptOfArg(arg) ==
  CASE arg.k = NULL -> Failed
    [] arg.k = ENUM -> <<ENUM, arg.v[1]>>
    [] arg.k = SZARRAY -> Concat(<<<<SZARRAY>>, IF arg.kids = <<>> THEN <<OBJECT>> ELSE FptOfArg(arg.kids[1])>>)
    [] arg.k \notin {NULL, ENUM, SZARRAY} -> <<arg.k>>

Cell(name) == IF name = Failed THEN Failed ELSE <<name>>
WriteFpt(fpt) ==
  IF Len(fpt) > 1 /\ fpt[Len(fpt) - 1] = ENUM
  THEN Concat(<<SubSeq(fpt, 1, Len(fpt) - 1), Cell(WireName(fpt[Len(fpt)]))>>) ELSE fpt

WritePrimitive(code, arg) == IF arg.k = code THEN arg.v ELSE Failed
(* A mutation: an enum is written as an integer, whatever it is over.       *)
WriteEnumAsInt(name, arg) == WritePrimitive(8, IF arg.k = ENUM THEN arg.kids[1] ELSE arg)
WriteEnum(name, arg) == WritePrimitive(EnumCode(name), IF arg.k = ENUM THEN arg.kids[1] ELSE arg)

RECURSIVE WriteValue(_, _)
TagsAndValue(fpt, name, arg) ==
  IF fpt = Failed THEN Failed ELSE Concat(<<WriteFpt(fpt), name, WriteValue(fpt, arg)>>)
WriteValue(fpt, arg) ==
  CASE fpt[1] \in PrimCodes -> WritePrimitive(fpt[1], arg)
    [] fpt[1] = ENUM -> WriteEnum(fpt[2], arg)
    [] fpt[1] = TEXT -> IF arg.k = TEXT THEN arg.v ELSE Failed
    [] fpt[1] = TYPE -> IF arg.k = NULL THEN <<NULL>> ELSE IF arg.k = TYPE THEN Cell(WireName(arg.v[1])) ELSE Failed
    [] fpt[1] = OBJECT -> IF arg.k = NULL THEN <<NULL>>
                          ELSE IF arg.k = OBJECT THEN TagsAndValue(FptOfArg(arg.kids[1]), <<>>, arg.kids[1]) ELSE Failed
    [] fpt[1] = SZARRAY -> IF arg.k # SZARRAY THEN Failed
                           ELSE Concat(<<<<Len(arg.kids)>>>> \o [i \in DOMAIN arg.kids |-> WriteValue(Tail(fpt), arg.kids[i])])

WriteNamed(named) == Concat(<<<<FIELD>>, TagsAndValue(FptOfArg(named[2]), <<named[1]>>, named[2])>>)
EncodeFor(args, params) ==
  IF Len(args.fixed) # Len(params) THEN Failed
  ELSE Concat(<<<<1>>>> \o [i \in DOMAIN params |-> WriteValue(FptOfParam(params[i]), args.fixed[i])]
                \o <<<<Len(args.named)>>>> \o [i \in DOMAIN args.named |-> WriteNamed(args.named[i])])

-----------------------------------------------------------------------------
(* The form that describes itself: every value has its tag, also in an      *)
(* array, a type is a cell and an enum an integer.                          *)

RECURSIVE ReadElement_(_, _), ReadElements(_, _, _, _)
ElementsFrom(b, item, left, items) ==
  IF item.value = Failed THEN Bad ELSE ReadElements(b, item.next, left, Append(items, item.value))
ReadElements(b, at, left, items) ==
  IF left = 0 THEN Taken(Arg(SZARRAY, <<>>, items), at) ELSE ElementsFrom(b, ReadElement_(b, at), left - 1, items)
(* The caller's resolver knows every cell but the nil one.                  *)
ReadTypeCell(b, at) == IF at > Len(b) THEN Bad ELSE IF b[at] = 0 THEN Bad ELSE Taken(Arg(TYPE, <<b[at]>>, <<>>), at + 1)
ReadAfterTag(b, at, tag) ==
  CASE tag \in PrimCodes -> ReadPrimitive(b, at, tag)
    [] tag = TEXT -> ReadString(b, at)
    [] tag = TYPE -> ReadTypeCell(b, at)
    [] tag = OBJECT -> Boxed(ReadElement_(b, at))
    [] tag = SZARRAY -> IF at > Len(b) THEN Bad ELSE IF b[at] = NULL \/ b[at] > Len(b) - at THEN Bad ELSE ReadElements(b, at + 1, b[at], <<>>)
    [] tag = ENUM -> IF at > Len(b) THEN Bad ELSE IF b[at] = 0 THEN Bad ELSE EnumOf(b[at], ReadPrimitive(b, at + 1, 8))
    [] tag = NULL -> Taken(NullObj, at)
    [] tag \notin PrimCodes \cup {TEXT, TYPE, OBJECT, SZARRAY, ENUM, NULL} -> Bad
ReadElement_(b, at) == IF at > Len(b) THEN Bad ELSE ReadAfterTag(b, at + 1, b[at])

KindAndName(b, at, value) == IF value.value = Failed THEN Bad ELSE Taken(<<b[at], b[at + 2], value.value>>, value.next)
ReadNamedKind(b, at) ==
  IF at + 2 > Len(b) THEN Bad
  ELSE IF b[at] \notin {FIELD, PROPERTY} \/ b[at + 2] = NULL THEN Bad
  ELSE KindAndName(b, at, ReadAfterTag(b, at + 3, b[at + 1]))
ReadSeveral(b, at, n, Read(_, _)) ==
  IF n > Len(b) - at + 1 THEN Bad
  ELSE FoldLeft(LAMBDA acc, i : IF acc.value = Failed THEN Bad ELSE Next_(acc, Read(b, acc.next)), Taken(<<>>, at), [i \in 1..n |-> i])
WithKinds(b, fixed) ==
  IF fixed.value = Failed THEN Failed
  ELSE IF fixed.next > Len(b) THEN Failed
  ELSE WholeBlob(b, fixed, ReadSeveral(b, fixed.next + 1, b[fixed.next], ReadNamedKind))
DecodeKinds(b) ==
  IF Len(b) < 2 THEN Failed ELSE IF b[1] # 1 THEN Failed ELSE WithKinds(b, ReadSeveral(b, 3, b[2], ReadElement_))

Forget(args) == IF args = Failed THEN Failed ELSE [args EXCEPT !.named = [i \in DOMAIN @ |-> Tail(@[i])]]
DecodeSelf(b) == Forget(DecodeKinds(b))
OfKind(b, kind) ==
  IF DecodeKinds(b) = Failed THEN Failed ELSE SelectSeq(DecodeKinds(b).named, LAMBDA n : n[1] = kind)

(* An integer of four bytes; a wider enum has none.                         *)
Extended(arg) ==
  IF arg.k \in {4, 6} /\ arg.v[Len(arg.v)] > 127 THEN [i \in 1..4 |-> IF i > Len(arg.v) THEN 255 ELSE arg.v[i]]
  ELSE [i \in 1..4 |-> IF i > Len(arg.v) THEN 0 ELSE arg.v[i]]
EnumPayload(arg) == IF arg.k \notin 2..9 \/ (arg.k = 9 /\ arg.v[4] > 127) THEN Failed ELSE Extended(arg)

RECURSIVE WriteSelf(_)
Tagged(arg) == Concat(<<<<arg.k>>, WriteSelf(arg)>>)
WriteSelf(arg) ==
  CASE arg.k = OBJECT -> Tagged(arg.kids[1])
    [] arg.k = ENUM -> Concat(<<arg.v, EnumPayload(arg.kids[1])>>)
    [] arg.k = SZARRAY -> Concat(<<<<Len(arg.kids)>>>> \o [i \in DOMAIN arg.kids |-> Tagged(arg.kids[i])])
    [] arg.k \notin {OBJECT, ENUM, SZARRAY} -> arg.v
NamedSelf(named) == Concat(<<<<FIELD, named[2].k, named[1]>>, WriteSelf(named[2])>>)
EncodeSelf(args) ==
  Concat(<<<<1, Len(args.fixed)>>>> \o [i \in DOMAIN args.fixed |-> Tagged(args.fixed[i])]
           \o <<<<Len(args.named)>>>> \o [i \in DOMAIN args.named |-> NamedSelf(args.named[i])])

-----------------------------------------------------------------------------
ArgumentsInit ==
  /\ unit = "arguments"
  /\ \E b \in AttributeBlobs : state = [blob |-> b, args |-> Failed, real |-> Failed, self |-> Failed, phase |-> "given"]

ReadArguments ==
  /\ state.phase = "given"
  /\ state' = [state EXCEPT !.phase = "read",
                 !.args = IF state.blob.form = "real" THEN DecodeFor(state.blob.cells, state.blob.params)
                          ELSE DecodeSelf(state.blob.cells)]

WriteArguments ==
  /\ state.phase = "read" /\ state.args # Failed
  /\ state' = [state EXCEPT !.phase = "written", !.self = EncodeSelf(state.args),
                             !.real = EncodeFor(state.args, state.blob.params)]

ArgumentsNext == unit = "arguments" /\ UNCHANGED unit /\ (ReadArguments \/ WriteArguments)

-----------------------------------------------------------------------------
RECURSIVE ValuesIn(_)
ValuesIn(arg) == {arg} \cup UNION {ValuesIn(arg.kids[i]) : i \in DOMAIN arg.kids}
Values(args) == UNION ({ValuesIn(a) : a \in Range(args.fixed)} \cup {ValuesIn(n[2]) : n \in Range(args.named)})
NamesOf(values) == {a.v[1] : a \in {v \in values : v.k \in {TYPE, ENUM}}}
RECURSIVE AsInt(_)
AsInt(arg) ==
  IF arg.k = ENUM THEN [arg EXCEPT !.kids = <<Arg(8, EnumPayload(arg.kids[1]), <<>>)>>]
  ELSE [arg EXCEPT !.kids = [i \in DOMAIN @ |-> AsInt(@[i])]]
AsInts(args) ==
  [fixed |-> [i \in DOMAIN args.fixed |-> AsInt(args.fixed[i])],
   named |-> [i \in DOMAIN args.named |-> <<args.named[i][1], AsInt(args.named[i][2])>>]]

(* Arguments read from a real blob and written for the same parameters read *)
(* again as the same, nested types apart; only values that describe         *)
(* themselves can fail to be written, on a null in the place of a type or   *)
(* an array of unlike elements; and no other byte changes than the kind of  *)
(* a property, a boolean and a surrogate.  In the form that describes       *)
(* itself everything reads back, an enum as an integer.                     *)
ArgumentsKept ==
  unit = "arguments" /\ state.phase = "written" =>
    LET values == Values(state.args)
        plain  == NamesOf(values) \cap (NestedTypeNames \cup Unnameable) = {}
    IN  /\ state.real # Failed /\ plain /\ state.blob.form = "real" => DecodeFor(state.real, state.blob.params) = state.args
        /\ state.real = Failed /\ plain /\ state.blob.form = "real" =>
             /\ NullObj \in values \/ Arg(SZARRAY, <<>>, <<>>) \in values
             /\ state.args.named # <<>> \/ \E a \in values : a.k = OBJECT
        /\ state.real # Failed /\ plain /\ state.blob.form = "real" /\ Arg(SZARRAY, <<>>, <<>>) \notin values =>
             /\ Len(state.real) = Len(state.blob.cells)
             /\ \A i \in DOMAIN state.real :
                  state.real[i] # state.blob.cells[i] => state.blob.cells[i] = PROPERTY \/ state.real[i] \in {0, 253, 255}
        /\ state.self # Failed =>
             /\ DecodeSelf(state.self) = AsInts(state.args)
             /\ OfKind(state.self, PROPERTY) = <<>>
        /\ state.blob.form = "self" =>
             /\ state.self # Failed
             /\ {<<n[2], n[3]>> : n \in Range(OfKind(state.blob.cells, FIELD)) \cup Range(OfKind(state.blob.cells, PROPERTY))}
                  = Range(state.args.named)
=============================================================================
