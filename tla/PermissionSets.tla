---------------------------- MODULE PermissionSets ----------------------------
(***************************************************************************)
(* The permission set of a security declaration (security.rs): XML in      *)
(* UTF-16, or a dot, a count, and for each permission its class, the       *)
(* length of what follows, and named arguments as in an attribute.         *)
(*                                                                         *)
(* A blob is a sequence of cells as in Attributes.  XML is the sequence of *)
(* its permissions, each the sequence of its attributes, <<name, text>>;   *)
(* a text is escaped and unescaped in between, a name is only escaped.     *)
(***************************************************************************)
EXTENDS Attributes

CONSTANTS
  PermissionBlobs,
  LegacyTexts,      \* [text -> XML, or Failed when it is no UTF-16]
  EscapedName,      \* [name -> name]: names with a character XML reserves, escaped
  BrokenNames,      \* names the scanner stops at: with a blank or an equals sign
  ShownAs           \* [<<code, cells>> -> text]: how numbers and booleans print

MARKER == 46
CLASSNAME == 901
VERSION == 902
ONE == 903

EscapeXml(name) == IF name \in DOMAIN EscapedName THEN EscapedName[name] ELSE name

-----------------------------------------------------------------------------
(* Decoding.  Values without a text of their own refuse the whole blob.     *)
RenderInteger(arg) == IF arg.k = 8 THEN ShownAs[<<8, arg.v>>] ELSE Failed
RenderValue(arg) ==
  CASE arg.k = TEXT -> IF arg.v = <<NULL>> THEN 0 ELSE arg.v[1]
    [] arg.k \in PrimCodes -> ShownAs[<<arg.k, arg.v>>]
    [] arg.k = ENUM -> RenderInteger(arg.kids[1])
    [] arg.k = NULL -> 0
    [] OTHER -> Failed

Rendered(class, named, next) ==
  IF \E i \in DOMAIN named : RenderValue(named[i][3]) = Failed THEN Bad
  ELSE Taken(<<<<CLASSNAME, class>>, <<VERSION, ONE>>>>
               \o [i \in DOMAIN named |-> <<EscapeXml(named[i][2]), RenderValue(named[i][3])>>], next)
PermissionOf(class, named) == IF named.value = Failed THEN Bad ELSE Rendered(class, named.value, named.next)
ReadPermission(b, at) ==
  IF at + 2 > Len(b) THEN Bad
  ELSE IF b[at] = NULL THEN Bad
  ELSE PermissionOf(b[at], ReadSeveral(b, at + 3, b[at + 2], ReadNamedKind))

WholeSet(b, set) == IF set.value = Failed \/ set.next # Len(b) + 1 THEN Failed ELSE set.value
DecodeBinary(b) == IF Len(b) < 2 THEN Failed ELSE WholeSet(b, ReadSeveral(b, 3, b[2], ReadPermission))

(* Padding is dropped from the end; half a character is refused.            *)
Padding(b) == {i \in DOMAIN b : \A j \in i..Len(b) : b[j] = 0}
DecodeLegacy(b) ==
  IF Cardinality(Padding(b)) % 2 # 0 THEN Failed ELSE IF Padding(b) = DOMAIN b THEN <<>> ELSE LegacyTexts[b[1]]
DecodeSecurityXml(b) ==
  IF b = <<>> THEN Failed ELSE IF b[1] = MARKER THEN DecodeBinary(b) ELSE DecodeLegacy(b)

-----------------------------------------------------------------------------
(* Encoding.  The last class is the class; the version is implied.          *)
ClassesOf(element) == SelectSeq(element, LAMBDA a : a[1] = CLASSNAME)
(* A mutation: the version is written as one of the properties.             *)
PropsOfWithVersion(element) == SelectSeq(element, LAMBDA a : a[1] # CLASSNAME)
PropsOf(element) == SelectSeq(element, LAMBDA a : a[1] \notin {CLASSNAME, VERSION})
Arguments(props) == FlattenSeq([i \in DOMAIN props |-> <<PROPERTY, TEXT, props[i][1], props[i][2]>>])
(* A mutation: the declared length leaves out the count.                    *)
DeclaredLenOfArguments(props) == Len(Arguments(props))
DeclaredLen(props) == 1 + Len(Arguments(props))
WritePermission(class, props) == <<class, DeclaredLen(props), Len(props)>> \o Arguments(props)
ParseIpermission(element) ==
  IF (\E i \in DOMAIN element : element[i][1] \in BrokenNames) \/ ClassesOf(element) = <<>> THEN Failed
  ELSE WritePermission(Last(ClassesOf(element))[2], PropsOf(element))
EncodeSecurityXml(xml) ==
  IF xml = <<>> THEN Failed ELSE Concat(<<<<MARKER, Len(xml)>>>> \o [i \in DOMAIN xml |-> ParseIpermission(xml[i])])

-----------------------------------------------------------------------------
PermissionInit ==
  /\ unit = "permissions"
  /\ \E b \in PermissionBlobs : state = [blob |-> b, xml |-> Missing, written |-> <<>>, phase |-> "given"]

DecodeSet ==
  /\ state.phase = "given"
  /\ state' = [state EXCEPT !.phase = "read", !.xml = DecodeSecurityXml(state.blob)]
EncodeSet ==
  /\ state.phase = "read" /\ state.xml # Failed
  /\ state' = [state EXCEPT !.phase = "written", !.written = EncodeSecurityXml(state.xml)]

PermissionNext == unit = "permissions" /\ UNCHANGED unit /\ (DecodeSet \/ EncodeSet)

-----------------------------------------------------------------------------
(* The same permission with its class and version first.                    *)
CanonicalElement(element) ==
  <<<<CLASSNAME, Last(ClassesOf(element))[2]>>, <<VERSION, ONE>>>>
    \o SelectSeq([i \in DOMAIN element |-> <<EscapeXml(element[i][1]), element[i][2]>>],
                 LAMBDA a : a[1] \notin {CLASSNAME, VERSION})
AttributeNames(xml) == UNION {{a[1] : a \in Range(e)} : e \in Range(xml)}
(* Where declared lengths lead a reader that skips the arguments.           *)
SkippedTo(b) == FoldLeft(LAMBDA at, i : IF at + 1 > Len(b) THEN 0 ELSE at + 2 + b[at + 1], 3, [i \in 1..b[2] |-> i])

(* A permission set that was decoded from the binary form encodes, unless   *)
(* it is empty or a name breaks the scanner; what encodes decodes again as  *)
(* the same permissions in the same order with their class and version      *)
(* first, and encodes once more to the same bytes where no name is escaped; *)
(* and the declared lengths lead from each permission to the next.  A       *)
(* property called class or version is taken for the permission's own.      *)
SecurityKept ==
  unit = "permissions" /\ state.phase = "written" =>
    /\ state.blob[1] = MARKER =>
         (state.written = Failed) = (state.xml = <<>> \/ AttributeNames(state.xml) \cap BrokenNames # {})
    /\ state.written # Failed =>
         LET again == DecodeSecurityXml(state.written)
         IN  /\ again = [i \in DOMAIN state.xml |-> CanonicalElement(state.xml[i])]
             /\ AttributeNames(state.xml) \cap DOMAIN EscapedName = {} => EncodeSecurityXml(again) = state.written
             /\ SkippedTo(state.written) = Len(state.written) + 1
=============================================================================
