----------------------------- MODULE ValueCodec ------------------------------
(***************************************************************************)
(* How a PreferencesValue is written and read back: as an element of the    *)
(* XML file (preferences_xml_utils.cpp, with base64_helper.cpp for bytes)   *)
(* and as a blob of the database (preferences_value_parcel.cpp).            *)
(*                                                                          *)
(* A value is a type and its data.  A character is a number, 0 the one that *)
(* ends a C string; a float or double counts ten-millionths; a byte of a    *)
(* blob is the first byte of a field, with its value, or a Rest byte.       *)
(*                                                                          *)
(* External: libxml.  It escapes what has a meaning in XML and reads it back*)
(* as it was; it parses no file with a character of Refused in it.          *)
(***************************************************************************)
EXTENDS Integers, SequencesExt

CONSTANTS Values,     \* the values that are put
          UINT64,     \* number of uint64_t values; a small one stands for 2^64
          UINT32,     \* number of uint32_t values, the sizes of blobs
          INT32,      \* number of int values; divides UINT64
          Refused,    \* characters XML does not allow (controls, invalid UTF-8)
          Infinity,   \* a double without a decimal form
          Rest        \* a byte of a blob that begins no field

ASSUME WidthsAssumption ==
    /\ INT32 \in Nat \ {0} /\ UINT64 \in Nat \ {0} /\ UINT64 % INT32 = 0
    /\ UINT32 \in Nat \ {0}
    /\ Infinity \notin Int

ASSUME RefusedAssumption == Refused \subseteq Nat \ {0}

VARIABLES original,   \* what the caller has put
          value,      \* what the cache holds
          element,    \* what the XML file holds: Unsaved if there is no file
          blob,       \* what the database holds
          blobOf,     \* history: the value blob was made from
          readsInf    \* operator>> of the C++ library reads "inf"

vars == <<original, value, element, blob, blobOf, readsInf>>

Absent == [type |-> "absent", data |-> <<>>]
NoElement == [tag |-> "none", text |-> <<>>, children |-> <<>>]
Unsaved == [tag |-> "unsaved", text |-> <<>>, children |-> <<>>]

Strings == {"string", "object"}
Reals == {"float", "double"}
Primitives == {"int", "int64_t", "float", "double", "bool"}
Arrays == {"stringArray", "boolArray", "doubleArray", "intArray", "int64Array"}

\* The alternatives of PreferencesValue (preferences_value.h), and what each holds.
Types == Strings \cup Primitives \cup Arrays \cup {"uint8Array", "BigInt", "monostate"}

Bools == {"true", "false"}
RealNumbers == Int \cup {Infinity}

DataOf(type) ==
    CASE type \in {"int", "int64_t"} -> Int
      [] type \in Reals -> RealNumbers
      [] type = "bool" -> Bools
      [] type \in Strings -> Seq(Nat)
      [] type = "stringArray" -> Seq(Seq(Nat))
      [] type = "boolArray" -> Seq(Bools)
      [] type = "doubleArray" -> Seq(RealNumbers)
      [] type \in {"intArray", "int64Array"} -> Seq(Int)
      [] type = "uint8Array" -> Seq(0..255)
      [] type = "BigInt" ->
           [words : Seq(0 .. UINT64 - 1), sign : {n \in Int : -INT32 <= 2 * n /\ 2 * n < INT32}]
      [] OTHER -> {0}

IsValue(v) ==
    /\ v = [type |-> v.type, data |-> v.data]
    /\ v.type \in Types /\ v.data \in DataOf(v.type)

ASSUME ValuesAssumption == \A v \in Values : IsValue(v)

-----------------------------------------------------------------------------
(* Base64Helper.  A character is its index in base64Encoder. *)

Pad == 64
Digit(c) == c \in 0..63

\* Mutant: a unit of two bytes takes its last digit from the wrong bits.
EncodeUnitWrongBits(b) ==
    CASE Len(b) = 3 -> <<b[1] \div 4, (b[1] % 4) * 16 + b[2] \div 16,
                         (b[2] % 16) * 4 + b[3] \div 64, b[3] % 64>>
      [] Len(b) = 2 -> <<b[1] \div 4, (b[1] % 4) * 16 + b[2] \div 16, b[2] % 16, Pad>>
      [] Len(b) = 1 -> <<b[1] \div 4, (b[1] % 4) * 16, Pad, Pad>>

EncodeUnit(b) ==
    CASE Len(b) = 3 -> <<b[1] \div 4, (b[1] % 4) * 16 + b[2] \div 16,
                         (b[2] % 16) * 4 + b[3] \div 64, b[3] % 64>>
      [] Len(b) = 2 -> <<b[1] \div 4, (b[1] % 4) * 16 + b[2] \div 16,
                         (b[2] % 16) * 4, Pad>>
      [] Len(b) = 1 -> <<b[1] \div 4, (b[1] % 4) * 16, Pad, Pad>>

\* The input in units of n, the last one possibly shorter.
Units(s, n) ==
    [i \in 1 .. (Len(s) + n - 1) \div n |->
        SubSeq(s, n * (i - 1) + 1, IF n * i < Len(s) THEN n * i ELSE Len(s))]

Encode(input) ==
    FlattenSeq([i \in DOMAIN Units(input, 3) |-> EncodeUnit(Units(input, 3)[i])])

Invalid(u) ==
    \/ ~Digit(u[1]) \/ ~Digit(u[2])
    \/ u[3] # Pad /\ (~Digit(u[3]) \/ (u[4] # Pad /\ ~Digit(u[4])))

DecodeUnit(u) ==
    <<u[1] * 4 + u[2] \div 16>>
    \o (IF u[3] = Pad THEN <<>>
        ELSE <<((u[2] % 16) * 16) + u[3] \div 4>>
             \o (IF u[4] = Pad THEN <<>> ELSE <<((u[3] % 4) * 64) + u[4]>>))

\* The first unit with padding ends the loop; a text that is refused reads as no
\* bytes.
Decode(input) ==
    LET units == Units(input, 4)
        stop == SelectInSeq(units, LAMBDA u : u[3] = Pad \/ u[4] = Pad)
        read == IF stop = 0 THEN units ELSE SubSeq(units, 1, stop)
    IN IF Len(input) % 4 # 0 \/ (\E i \in DOMAIN read : Invalid(read[i]))
       THEN <<>> ELSE FlattenSeq([i \in DOMAIN read |-> DecodeUnit(read[i])])

-----------------------------------------------------------------------------
(* The XML element. *)

\* std::to_string of a float or double: six decimals.
Millionths(d) == IF d < 0 THEN -((5 - d) \div 10) ELSE (d + 5) \div 10

\* c_str: libxml stops at the first 0.
CString(s) == LET n == SelectInSeq(s, LAMBDA c : c = 0)
              IN IF n = 0 THEN s ELSE SubSeq(s, 1, n - 1)

Text(type, data) ==
    CASE type \in Strings -> CString(data)
      [] type = "uint8Array" -> Encode(data)
      [] type \in Reals -> IF data = Infinity THEN <<Infinity>>
                            ELSE <<Millionths(data)>>
      [] type = "uint64_t" -> <<data % UINT64>>
      [] OTHER -> <<data>>

Leaf(tag, text) == [tag |-> tag, text |-> text, children |-> <<>>]

ChildTag ==
    [stringArray |-> "string", boolArray |-> "bool", doubleArray |-> "double",
     intArray |-> "int", int64Array |-> "int64", BigInt |-> "uint64_t"]

Children(tag, items) ==
    [i \in DOMAIN items |-> Leaf(tag, Text(tag, items[i]))]

\* Mutant: int64_t has the tag that children of its arrays have.
TypeTagInt64(type) == IF type = "int64_t" THEN "int64" ELSE type

\* ValueVisitor::typeTag, and the type GetTypeName gives that name to.
TypeTag(type) == IF type = "int64_t" THEN "long" ELSE type
TypeNamed(tag) == IF tag = "long" THEN "int64_t" ELSE tag

\* ValueVisitor and WriteXmlElement.  The sign of a BigInt is its last child; a
\* monostate is left out of the file.
WriteXmlElement(v) ==
    CASE v.type \in Strings \cup Primitives \cup {"uint8Array"} ->
           Leaf(TypeTag(v.type), Text(v.type, v.data))
      [] v.type \in Arrays ->
           [tag |-> TypeTag(v.type), text |-> <<>>,
            children |-> Children(ChildTag[v.type], v.data)]
      [] v.type = "BigInt" ->
           [tag |-> v.type, text |-> <<>>,
            children |-> Children("uint64_t", Append(v.data.words, v.data.sign))]
      [] OTHER -> NoElement

\* xmlReadFile without XML_PARSE_RECOVER: a file is parsed if it is well-formed.
Allowed(text) == \A i \in DOMAIN text : text[i] \notin Refused

WellFormed(e) ==
    /\ e.tag \in Strings => Allowed(e.text)
    /\ \A i \in DOMAIN e.children :
          e.children[i].tag \in Strings => Allowed(e.children[i].text)

\* static_cast<int> of a uint64_t.
ToInt(w) == LET low == w % INT32 IN IF 2 * low >= INT32 THEN low - INT32 ELSE low

\* operator>> of a float or double.  The "inf" of an infinity is read by libc++,
\* and as 0 by libstdc++.
ReadReal(x) ==
    IF x # Infinity THEN x * 10 ELSE IF readsInf THEN Infinity ELSE 0

\* Convert2PrefValue of one element.
Converted(e) ==
    CASE e.tag \in Strings -> e.text
      [] e.tag = "uint8Array" -> Decode(e.text)
      [] e.tag \in Reals -> ReadReal(e.text[1])
      [] OTHER -> e.text[1]

ConvertedChildren(e) == [i \in DOMAIN e.children |-> Converted(e.children[i])]

BigIntOf(words) ==
    IF words = <<>> THEN [words |-> <<>>, sign |-> 0]
    ELSE [words |-> SubSeq(words, 1, Len(words) - 1), sign |-> ToInt(words[Len(words)])]

\* ParseNodeElement and ReadXmlElement: an element whose tag names no type of
\* the variant is left out.
ReadXmlElement(e) ==
    CASE TypeNamed(e.tag) \in Strings \cup Primitives \cup {"uint8Array"} ->
           [type |-> TypeNamed(e.tag), data |-> Converted(e)]
      [] e.tag \in Arrays -> [type |-> e.tag, data |-> ConvertedChildren(e)]
      [] e.tag = "BigInt" -> [type |-> e.tag, data |-> BigIntOf(ConvertedChildren(e))]
      [] OTHER -> Absent

-----------------------------------------------------------------------------
(* PreferencesValueParcel. *)

SizeT == 8
Width == [int |-> 4, int64_t |-> 8, float |-> 4, double |-> 8, bool |-> 1]
ItemWidth == [boolArray |-> 1, doubleArray |-> 8, uint8Array |-> 1]

Field(x, n) == <<x>> \o [i \in 1 .. n - 1 |-> Rest]
Fields(items, n) == FlattenSeq([i \in DOMAIN items |-> Field(items[i], n)])
Sized(s) == Field(Len(s), SizeT) \o s

\* Arrays of int and int64_t and a monostate have no type index.
Supported(v) ==
    v.type \in Primitives \cup Strings \cup DOMAIN ItemWidth \cup {"stringArray", "BigInt"}

\* Mutant: the sign of a BigInt is not counted.
BigIntSizeNoSign(words) == 1 + SizeT + Len(words) * 8

BigIntSize(words) == 1 + SizeT + 8 + Len(words) * 8

\* The loop of CalSize over the strings of an array.
StringArraySize(strs) ==
    LET size[i \in 0 .. Len(strs)] ==
            IF i = 0 THEN 1 + SizeT ELSE size[i - 1] + SizeT + Len(strs[i])
    IN size[Len(strs)]

BlobSize(v) ==
    CASE v.type \in Primitives -> 1 + Width[v.type]
      [] v.type \in Strings -> 1 + SizeT + Len(v.data)
      [] v.type \in DOMAIN ItemWidth -> 1 + SizeT + Len(v.data) * ItemWidth[v.type]
      [] v.type = "stringArray" -> StringArraySize(v.data)
      [] v.type = "BigInt" -> BigIntSize(v.data.words)
      [] OTHER -> 0

\* The size is a uint32_t.
CalSize(v) == BlobSize(v) % UINT32

\* What MarshallingPreferenceValue writes into the buffer, from its start.
Marshalled(v) ==
    <<v.type>> \o
    CASE v.type \in Primitives -> Field(v.data, Width[v.type])
      [] v.type \in Strings -> Sized(v.data)
      [] v.type \in DOMAIN ItemWidth ->
           Field(Len(v.data), SizeT) \o Fields(v.data, ItemWidth[v.type])
      [] v.type = "stringArray" ->
           Field(Len(v.data), SizeT)
           \o FlattenSeq([i \in DOMAIN v.data |-> Sized(v.data[i])])
      [] v.type = "BigInt" ->
           Field(Len(v.data.words), SizeT) \o Field(v.data.sign, 8)
           \o Fields(v.data.words, 8)

\* Bound: blobs whose size CalSize can say.  What is written into the smaller buffer of
\* a larger one is not modelled.
Sizable(v) == Len(Marshalled(v)) < UINT32

\* n items of width w from address a on (0 is the type).
Items(data, a, n, w) == [i \in 1..n |-> data[a + (i - 1) * w + 1]]

\* The loop of UnmarshallingStringArrayValue, one string further.
NextString(data, r) ==
    LET n == data[r.at + 1]
    IN [at |-> r.at + SizeT + n,
        strs |-> Append(r.strs, SubSeq(data, r.at + SizeT + 1, r.at + SizeT + n))]

UnmarshallingStringArrayValue(data) ==
    LET read[i \in 0 .. data[2]] ==
            IF i = 0 THEN [at |-> 1 + SizeT, strs |-> <<>>] ELSE NextString(data, read[i - 1])
    IN read[data[2]].strs

\* Mutant: the words are read where the sign is.
UnmarshallingVecAtSign(data) ==
    [words |-> Items(data, 1 + SizeT, data[2], 8), sign |-> data[1 + SizeT + 1]]

UnmarshallingVecBigInt(data) ==
    [words |-> Items(data, 1 + SizeT + 8, data[2], 8), sign |-> data[1 + SizeT + 1]]

UnmarshallingPreferenceValue(data) ==
    LET type == data[1]
        first == 1 + SizeT
    IN [type |-> type,
        data |->
          CASE type \in Primitives -> data[2]
            [] type \in Strings -> SubSeq(data, first + 1, first + data[2])
            [] type \in DOMAIN ItemWidth -> Items(data, first, data[2], ItemWidth[type])
            [] type = "stringArray" -> UnmarshallingStringArrayValue(data)
            [] type = "BigInt" -> UnmarshallingVecBigInt(data)]

-----------------------------------------------------------------------------

Init ==
    /\ original \in Values
    /\ value = original
    /\ element = Unsaved /\ blob = <<>> /\ blobOf = Absent
    /\ readsInf \in BOOLEAN

\* WriteSettingXml.  When libxml refuses to write a text, and WriteSettingXml returns
\* false, nothing changes.
SaveXml ==
    /\ element' = WriteXmlElement(value)
    /\ UNCHANGED <<original, value, blob, blobOf>>

\* ReadSettingXml.  A file without the element has no value for the key; XmlReadFile
\* moves a file that is not well-formed to .broken, and the load finds nothing.
LoadXml ==
    /\ element # Unsaved
    /\ \/ /\ WellFormed(element)
          /\ value' = ReadXmlElement(element)
          /\ UNCHANGED element
       \/ /\ ~WellFormed(element)
          /\ value' = Absent
          /\ element' = Unsaved
    /\ UNCHANGED <<original, blob, blobOf>>

\* PreferencesEnhanceImpl::Put and Get; a value without a type index is refused.
PutBlob ==
    /\ Supported(value) /\ Sizable(value)
    /\ blob' = Marshalled(value) /\ blobOf' = value
    /\ UNCHANGED <<original, value, element>>

GetBlob ==
    /\ blob # <<>>
    /\ value' = UnmarshallingPreferenceValue(blob)
    /\ UNCHANGED <<original, element, blob, blobOf>>

Next ==
    /\ SaveXml \/ LoadXml \/ PutBlob \/ GetBlob
    /\ UNCHANGED readsInf

Spec == Init /\ [][Next]_vars

-----------------------------------------------------------------------------
(* Properties. *)

\* What the file loses with the whole of the value: a monostate, which has no element,
\* and a text that makes the file unreadable.
Lost(v) ==
    \/ v.type = "monostate"
    \/ v.type \in Strings /\ ~Allowed(CString(v.data))
    \/ v.type = "stringArray" /\ \E i \in DOMAIN v.data : ~Allowed(CString(v.data[i]))

\* What it makes of the others: strings up to a 0 character, reals to six decimals,
\* an infinity if the library reads it.
KeptReal(d) ==
    IF d # Infinity THEN Millionths(d) * 10 ELSE IF readsInf THEN d ELSE 0

Reduced(v) ==
    CASE v.type \in Strings -> [v EXCEPT !.data = CString(@)]
      [] v.type = "stringArray" ->
           [v EXCEPT !.data = [i \in DOMAIN @ |-> CString(@[i])]]
      [] v.type \in Reals -> [v EXCEPT !.data = KeptReal(@)]
      [] v.type = "doubleArray" ->
           [v EXCEPT !.data = [i \in DOMAIN @ |-> KeptReal(@[i])]]
      [] OTHER -> v

Kept(v) == IF Lost(v) THEN Absent ELSE Reduced(v)

\* However often a value is saved and loaded, it keeps its type: no element is
\* written under a tag the reader does not know.  No value is lost, but for a
\* monostate and a text with a character XML does not allow before its first 0
\* (preferences_xml_utils.cpp:52-180, 227-321, 427, 811).
TypeKept == value.type = original.type \/ (value = Absent /\ Lost(original))

\* Saving and loading, through the file and through the database in any order,
\* changes a value at most once: to what the file can keep, which is nothing of the
\* values it loses.  Empty arrays, bytes of any length and the sign of a BigInt come
\* back (preferences_xml_utils.cpp:323-406, 802-842, base64_helper.cpp:56-116).
XmlKeeps == value \in {original, Kept(original)}

\* A blob is read back exactly, its strings with 0 characters and its doubles
\* included (preferences_value_parcel.cpp:222-656).
BlobExact == blob # <<>> => UnmarshallingPreferenceValue(blob) = blobOf

\* The buffer of CalSize bytes is filled and not overrun: MarshallingString...
\* and the array functions give memcpy_s their own size as its bound
\* (preferences_value_parcel.cpp:56-102, 207, 256).
BlobFits == Supported(value) /\ Sizable(value) => Len(Marshalled(value)) = CalSize(value)
=============================================================================
