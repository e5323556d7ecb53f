----------------------------- MODULE Marshalling -----------------------------
(***************************************************************************)
(* How a field is marshalled (marshal.rs): a native type as the bytes of a *)
(* FieldMarshal blob, with the compressed integers of io.rs.               *)
(*                                                                         *)
(* A blob is a sequence of bytes; a text is one cell of at least 1000, and *)
(* an empty one the byte 0.  Every payload of a native type is optional,   *)
(* so what a payload does not write, what follows may be taken for.        *)
(***************************************************************************)
EXTENDS Attributes

CONSTANTS
  MarshalBlobs,   \* blobs to read
  NativeTypes_,   \* native types to write
  TypeCells,      \* the cells the caller can resolve to types
  GuidTexts       \* [text -> [digits, canonical]]: the byte pairs of a GUID's spelling

FIXEDSYSSTRING == 23
INTF == 28
SAFEARRAY == 29
FIXEDARRAY == 30
NATIVEARRAY == 42
CUSTOMMARSHALER == 44
SimpleNatives ==
  (2..12) \cup {15} \cup (19..22) \cup (25..27) \cup (31..32) \cup (34..38) \cup {40, 43, 45, 80, 102}
Variants == (0..14) \cup (16..29) \cup {36} \cup (64..70) \cup {72}

-----------------------------------------------------------------------------
(* Compressed integers: seven, fourteen or thirty bits, most significant    *)
(* byte first; the two top bits of a larger number are lost.                *)
FourBytes(v) == <<192 + ((v \div 16777216) % 64), (v \div 65536) % 256, (v \div 256) % 256, v % 256>>
TwoBytes(v) == <<128 + (v \div 256), v % 256>>
WriteUnsigned(v) == IF v < 128 THEN <<v>> ELSE IF v < 16384 THEN TwoBytes(v) ELSE FourBytes(v)
ReadUnsigned(b, at) ==
  IF at > Len(b) THEN Bad
  ELSE IF b[at] < 128 THEN Taken(b[at], at + 1)
  ELSE IF b[at] < 192
  THEN (IF at + 1 > Len(b) THEN Bad ELSE Taken((b[at] - 128) * 256 + b[at + 1], at + 2))
  ELSE IF at + 3 > Len(b) THEN Bad
  ELSE Taken(((b[at] - 192) * 256 + b[at + 1]) * 65536 + b[at + 2] * 256 + b[at + 3], at + 4)

(* A signed one has its sign in the lowest bit and a bias for each size.    *)
SignBit(v, range) == 2 * (v % range) + (IF v < 0 THEN 1 ELSE 0)
WriteSigned(v) ==
  IF v \in (-64)..63 THEN <<SignBit(v, 64)>>
  ELSE IF v \in (-8192)..8191 THEN TwoBytes(SignBit(v, 8192))
  ELSE FourBytes(SignBit(v, 268435456))
Unbiased(first, u) ==
  IF u % 2 = 0 THEN (u \div 2)
  ELSE (u \div 2) - (IF first < 128 THEN 64 ELSE IF first < 192 THEN 8192 ELSE 268435456)
ReadSigned(b, at) ==
  IF ReadUnsigned(b, at).value = Failed THEN Bad
  ELSE Taken(Unbiased(b[at], ReadUnsigned(b, at).value), ReadUnsigned(b, at).next)

-----------------------------------------------------------------------------
(* A GUID's text has the bytes of its first three groups reversed.          *)
Grouped_(g) == <<g[4], g[3], g[2], g[1], g[6], g[5], g[8], g[7]>> \o SubSeq(g, 9, 16)
GuidFromString(text) ==
  IF text \notin DOMAIN GuidTexts THEN Failed
  ELSE IF Len(GuidTexts[text].digits) # 16 THEN Failed ELSE Grouped_(GuidTexts[text].digits)
GuidToString(g) ==
  CHOOSE text \in DOMAIN GuidTexts : GuidTexts[text] = [digits |-> Grouped_(g), canonical |-> TRUE]
NoGuid == [i \in 1..16 |-> 0]

(* A native type: its tag, counts, the one inside it, the variant and the   *)
(* type of a safe array, and the GUID and texts of a custom marshaler.      *)
Native(tag) ==
  [tag |-> tag, counts |-> <<>>, inner |-> <<>>, variant |-> Missing, desc |-> Missing,
   guid |-> <<>>, texts |-> <<>>]

(* Reading: a count is zero, a type or a variant absent, where the blob     *)
(* ends.                                                                    *)
OptCompressed(b, at) == IF at > Len(b) THEN Taken(0, at) ELSE ReadUnsigned(b, at)
OptCounts(b, at, n) ==
  FoldLeft(LAMBDA acc, i : IF acc.value = Failed THEN Bad ELSE Next_(acc, OptCompressed(b, acc.next)),
           Taken(<<>>, at), [i \in 1..n |-> i])
WithCounts(native, counts) ==
  IF counts.value = Failed THEN Bad ELSE Taken([native EXCEPT !.counts = counts.value], counts.next)

KnownType(native, cell) ==
  IF cell.value = Failed THEN Bad
  ELSE IF cell.value \notin TypeCells THEN Bad ELSE Taken([native EXCEPT !.desc = cell.value], cell.next)
OptTdor(b, at, native) == IF at > Len(b) THEN Taken(native, at) ELSE KnownType(native, ReadUnsigned(b, at))
SafeArrayAt(b, at) ==
  IF at > Len(b) THEN Taken(Native(SAFEARRAY), at)
  ELSE IF b[at] = 0 THEN OptTdor(b, at + 1, Native(SAFEARRAY))
  ELSE IF b[at] \notin Variants THEN Bad
  ELSE OptTdor(b, at + 1, [Native(SAFEARRAY) EXCEPT !.variant = b[at]])

(* Four texts; a null one is empty, and an empty GUID is the one of zeros.  *)
TextAt(b, at) ==
  IF at > Len(b) THEN Bad
  ELSE IF b[at] = NULL THEN Taken(0, at + 1) ELSE IF b[at] \in 1..999 THEN Bad ELSE Taken(b[at], at + 1)
WithGuid(texts, guid, next) ==
  IF guid = Failed THEN Bad
  ELSE Taken([Native(CUSTOMMARSHALER) EXCEPT !.guid = guid, !.texts = Tail(texts)], next)
CustomAt(texts) ==
  IF texts.value = Failed THEN Bad
  ELSE WithGuid(texts.value, IF texts.value[1] = 0 THEN NoGuid ELSE GuidFromString(texts.value[1]), texts.next)
FourTexts(b, at) ==
  FoldLeft(LAMBDA acc, i : IF acc.value = Failed THEN Bad ELSE Next_(acc, TextAt(b, acc.next)),
           Taken(<<>>, at), <<1, 2, 3, 4>>)

RECURSIVE ParseNative(_, _)
Holding(native, inner) ==
  IF inner.value = Failed THEN Bad ELSE Taken([native EXCEPT !.inner = <<inner.value>>], inner.next)
OptNative(b, native) ==
  IF native.value = Failed THEN Bad
  ELSE IF native.next > Len(b) THEN native ELSE Holding(native.value, ParseNative(b, native.next))
(* A mutation: the counts come before the type of the elements.             *)
ArrayAtSwapped(b, at) ==
  IF at > Len(b) THEN Taken(Native(NATIVEARRAY), at) ELSE OptNative(b, WithCounts(Native(NATIVEARRAY), OptCounts(b, at, 3)))
CountsAfter(b, held) == IF held.value = Failed THEN Bad ELSE WithCounts(held.value, OptCounts(b, held.next, 3))
ArrayAt(b, at) ==
  IF at > Len(b) THEN Taken(Native(NATIVEARRAY), at) ELSE CountsAfter(b, OptNative(b, Taken(Native(NATIVEARRAY), at)))
AfterNativeTag(b, at, tag) ==
  CASE tag \in SimpleNatives -> Taken(Native(tag), at)
    [] tag = FIXEDSYSSTRING -> WithCounts(Native(tag), OptCounts(b, at, 1))
    [] tag = FIXEDARRAY -> OptNative(b, WithCounts(Native(tag), OptCounts(b, at, 1)))
    [] tag = INTF -> WithCounts(Native(tag), IF at > Len(b) THEN Taken(<<0>>, at) ELSE Next_(Taken(<<>>, at), ReadSigned(b, at)))
    [] tag = SAFEARRAY -> SafeArrayAt(b, at)
    [] tag = NATIVEARRAY -> ArrayAt(b, at)
    [] tag = CUSTOMMARSHALER -> CustomAt(FourTexts(b, at))
    [] OTHER -> Bad
ParseNative(b, at) == IF at > Len(b) THEN Bad ELSE AfterNativeTag(b, at + 1, b[at])

WholeSpec(b, native) == IF native.value = Failed \/ native.next # Len(b) + 1 THEN Failed ELSE native.value
ParseMarshal(b) == WholeSpec(b, ParseNative(b, 1))

-----------------------------------------------------------------------------
(* Writing: zeros at the end are left out.  An array has to say of what,    *)
(* unless it says nothing; not every variant has a byte.                    *)

(* A mutation: all is left out from the first zero on.                      *)
SignificantToFirstZero(counts) ==
  SubSeq(counts, 1, IF \A i \in DOMAIN counts : counts[i] # 0 THEN Len(counts)
                    ELSE Min({i \in DOMAIN counts : counts[i] = 0}) - 1)
Significant(counts) ==
  SubSeq(counts, 1, IF \A i \in DOMAIN counts : counts[i] = 0 THEN 0
                    ELSE Max({i \in DOMAIN counts : counts[i] # 0}))
WriteCounts(counts) == FlattenSeq([i \in DOMAIN Significant(counts) |-> WriteUnsigned(counts[i])])

WriteVariant(native) ==
  IF native.variant = Missing THEN (IF native.desc = Missing THEN <<>> ELSE <<0>>)
  ELSE IF native.variant \notin Variants THEN Failed ELSE <<native.variant>>
WriteDesc(native) == IF native.desc = Missing THEN <<>> ELSE WriteUnsigned(native.desc)
WriteGuid(guid) == IF guid = NoGuid THEN 0 ELSE GuidToString(guid)

RECURSIVE WriteNative(_)
WriteInner(native) == IF native.inner = <<>> THEN <<>> ELSE WriteNative(native.inner[1])
Payload(native) ==
  CASE native.tag = FIXEDSYSSTRING -> WriteCounts(native.counts)
    [] native.tag = FIXEDARRAY -> Concat(<<WriteCounts(native.counts), WriteInner(native)>>)
    [] native.tag = INTF -> IF native.counts[1] = 0 THEN <<>> ELSE WriteSigned(native.counts[1])
    [] native.tag = SAFEARRAY -> Concat(<<WriteVariant(native), WriteDesc(native)>>)
    [] native.tag = NATIVEARRAY -> IF native.counts = <<>> THEN <<>>
                             ELSE IF native.inner = <<>> THEN Failed
                             ELSE Concat(<<WriteInner(native), WriteCounts(native.counts)>>)
    [] native.tag = CUSTOMMARSHALER -> <<WriteGuid(native.guid)>> \o native.texts
    [] OTHER -> <<>>
WriteNative(native) == Concat(<<<<native.tag>>, Payload(native)>>)

-----------------------------------------------------------------------------
MarshalInit ==
  /\ unit = "marshal"
  /\ \/ \E b \in MarshalBlobs : state = [blob |-> b, native |-> Missing, written |-> <<>>, phase |-> "given"]
     \/ \E n \in NativeTypes_ : state = [blob |-> <<>>, native |-> n, written |-> <<>>, phase |-> "read"]

ReadMarshal ==
  /\ state.phase = "given"
  /\ state' = [state EXCEPT !.phase = "read", !.native = ParseMarshal(state.blob)]
WriteMarshal ==
  /\ state.phase = "read" /\ state.native # Failed
  /\ state' = [state EXCEPT !.phase = "written", !.written = WriteNative(state.native)]

MarshalNext == unit = "marshal" /\ UNCHANGED unit /\ (ReadMarshal \/ WriteMarshal)

-----------------------------------------------------------------------------
RECURSIVE Open(_), Definite(_)
(* Whether what is written could have gone on, so that what follows is      *)
(* taken for it; and whether nothing follows such a thing, at any level.    *)
Open(native) ==
  CASE native.tag \in {FIXEDSYSSTRING, INTF} -> native.counts[1] = 0
    [] native.tag = FIXEDARRAY -> IF native.inner = <<>> THEN TRUE ELSE Open(native.inner[1])
    [] native.tag = SAFEARRAY -> native.desc = Missing
    [] native.tag = NATIVEARRAY -> IF native.counts = <<>> THEN TRUE ELSE native.counts[3] = 0
    [] OTHER -> FALSE
Definite(native) ==
  /\ native.tag = FIXEDARRAY /\ native.inner # <<>> => native.counts[1] # 0
  /\ native.tag = NATIVEARRAY /\ native.inner # <<>> => WriteCounts(native.counts) = <<>> \/ ~Open(native.inner[1])
  /\ native.inner # <<>> => Definite(native.inner[1])
RECURSIVE InRange(_)
InRange(native) ==
  /\ \A i \in DOMAIN native.counts :
       native.counts[i] \in (IF native.tag = INTF THEN (-268435456)..268435455 ELSE 0..1073741823)
  /\ native.inner # <<>> => InRange(native.inner[1])
(* A variant that is there and none is none.                                *)
RECURSIVE Plainly(_)
Plainly(native) ==
  [native EXCEPT !.variant = IF @ = 0 THEN Missing ELSE @,
                 !.inner = IF @ = <<>> THEN @ ELSE <<Plainly(@[1])>>]

(* A native type reads back as it was written ("Inverse of                  *)
(* parse_marshal_spec", marshal.rs:55), a count beyond thirty bits or a     *)
(* signed one beyond twenty-nine apart, and apart from the native types     *)
(* that are not Definite: where an optional payload is left out before      *)
(* something that is taken for it, the size of an array before its element  *)
(* or that of an element before the counts, the inverse fails, and of these *)
(* nothing is said here.  What was read can be written, in no more bytes    *)
(* when it is definite.                                                     *)
MarshalKept ==
  unit = "marshal" /\ state.phase = "written" =>
    /\ state.blob # <<>> => state.written # Failed
    /\ state.written # Failed /\ InRange(state.native) =>
         (Definite(state.native) => ParseMarshal(state.written) = Plainly(state.native))
    /\ state.blob # <<>> /\ Definite(state.native) => Len(state.written) <= Len(state.blob)
=============================================================================
