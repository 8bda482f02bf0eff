------------------------------ MODULE Messages ------------------------------
(***************************************************************************)
(* Messages and their bytes: src/protocol/Messages.h and the templates and *)
(* packMessage of src/protocol/Codec.cc.  A message is its type and, for   *)
(* each field of the type, a sequence of structs: one struct of one value  *)
(* for a plain field, any number for an array.  A string is a sequence of  *)
(* bytes other than 0.  Names of fields, which only the C++ code needs to  *)
(* find them, are left out.                                                *)
(***************************************************************************)
EXTENDS Integers, SequencesExt

Radix == 256
Byte == 0..(Radix - 1)

LenBytes == 2             \* messageLen is a uint16_t
HeaderLen == 1 + LenBytes

MSG_LOGIN          == 16
MSG_LOGIN_RESP     == 17
MSG_UDP_HANDSHAKE  == 18
MSG_NEW_ROOM       == 32
MSG_ROOM_INFO      == 33
MSG_JOIN_ROOM      == 34
MSG_JOIN_ROOM_RESP == 35
MSG_QUIT_ROOM      == 36
MSG_GAME_ON        == 48
MSG_UPDATE_BLOCKS  == 49
MSG_UPDATE_OBJECTS == 50
MSG_UPDATE_SCORES  == 51
MSG_GAME_OFF       == 52
MSG_CONTROL        == 64

\* The number of bytes of a value; a string has as many as it takes.
Width == [uint8_t |-> 1, uint32_t |-> 4, uint64_t |-> 8]

Field(kind) == [array |-> FALSE, elem |-> <<kind>>]
Array(kinds) == [array |-> TRUE, elem |-> kinds]

\* messages_ of Codec; operator[] answers a template without fields for a type
\* that is not there.
Template(type) ==
    CASE type = MSG_LOGIN -> <<Field("string")>>
      [] type = MSG_LOGIN_RESP ->
             <<Field("string"), Field("uint32_t"), Field("uint32_t")>>
      [] type = MSG_UDP_HANDSHAKE -> <<Field("uint32_t"), Field("string")>>
      [] type = MSG_NEW_ROOM -> <<Field("string"), Field("uint8_t")>>
      [] type = MSG_ROOM_INFO ->
             <<Array(<<"uint8_t", "string", "uint8_t", "uint8_t">>)>>
      [] type = MSG_JOIN_ROOM -> <<Field("uint8_t")>>
      [] type = MSG_JOIN_ROOM_RESP -> <<Field("uint8_t"), Field("uint8_t")>>
      [] type = MSG_QUIT_ROOM -> <<Field("string")>>
      [] type = MSG_GAME_ON -> <<Array(<<"uint8_t", "string">>)>>
      [] type = MSG_UPDATE_BLOCKS ->
             <<Array(<<"uint8_t", "uint64_t", "uint64_t">>)>>
      [] type = MSG_UPDATE_OBJECTS ->
             <<Array(<<"uint8_t", "uint64_t", "uint64_t", "uint64_t">>),
               Array(<<"uint64_t", "uint64_t">>)>>
      [] type = MSG_UPDATE_SCORES -> <<Array(<<"uint8_t", "uint32_t">>)>>
      [] type = MSG_GAME_OFF -> <<Field("string")>>
      [] type = MSG_CONTROL -> <<Field("uint8_t"), Field("uint8_t")>>
      [] OTHER -> <<>>

----------------------------------------------------------------------------
(* toByteArray and size. *)

Shifted(n) == LET shift[k \in Nat] == IF k = 0 THEN n ELSE shift[k - 1] \div Radix
              IN  shift

\* Mutated form of Digits: a digit is not cut off to a byte.
DigitsUncut(n, width) == [i \in 1..width |-> Shifted(n)[width - i]]

\* hostToNetwork: the most significant byte first; what is too large is cut off.
Digits(n, width) == [i \in 1..width |-> Shifted(n)[width - i] % Radix]

ValueBytes(kind, v) ==
    IF kind = "string" THEN v \o <<0>> ELSE Digits(v, Width[kind])

StructBytes(kinds, v) ==
    FlattenSeq([i \in DOMAIN kinds |-> ValueBytes(kinds[i], v[i])])

FieldBytes(field, v) ==
    (IF field.array THEN <<Len(v) % Radix>> ELSE <<>>)
    \o FlattenSeq([i \in DOMAIN v |-> StructBytes(field.elem, v[i])])

Body(m) ==
    LET fields == Template(m.type)
    IN  FlattenSeq([i \in DOMAIN fields |-> FieldBytes(fields[i], m.fields[i])])

Plus(m, n) == m + n
Sum(s) == FoldLeft(Plus, 0, s)

\* Mutated form of ValueSize: the 0 at the end of a string is not counted.
ValueSizeBare(kind, v) == IF kind = "string" THEN Len(v) ELSE Width[kind]

ValueSize(kind, v) == IF kind = "string" THEN Len(v) + 1 ELSE Width[kind]

StructSize(kinds, v) == Sum([i \in DOMAIN kinds |-> ValueSize(kinds[i], v[i])])

FieldSize(field, v) ==
    (IF field.array THEN 1 ELSE 0)
    + Sum([i \in DOMAIN v |-> StructSize(field.elem, v[i])])

MessageSize(m) ==
    LET fields == Template(m.type)
    IN  Sum([i \in DOMAIN fields |-> FieldSize(fields[i], m.fields[i])])

Header(m) == <<m.type>> \o Digits(MessageSize(m), LenBytes)

PackMessage(m) == Header(m) \o Body(m)

\* A message as the types of C++ have it: a number is cut off nowhere, a string
\* ends where its 0 is, and a field holds what its template says.
Fits(kind, v) ==
    IF kind = "string" THEN v \in Seq(Byte \ {0})
                       ELSE v \in Nat /\ Shifted(v)[Width[kind]] = 0

FitsStruct(kinds, v) ==
    /\ v = [i \in DOMAIN kinds |-> v[i]]
    /\ \A i \in DOMAIN kinds : Fits(kinds[i], v[i])

FitsField(field, v) ==
    \E count \in IF field.array THEN Byte ELSE {1} :
        /\ v = [i \in 1..count |-> v[i]]
        /\ \A i \in 1..count : FitsStruct(field.elem, v[i])

\* The length in the header takes two bytes.
IsMessage(m) ==
    /\ m = [type |-> m.type, fields |-> m.fields]
    /\ m.type \in Byte
    /\ m.fields = [i \in DOMAIN Template(m.type) |-> m.fields[i]]
    /\ \A i \in DOMAIN m.fields : FitsField(Template(m.type)[i], m.fields[i])
    /\ MessageSize(m) < Radix * Radix

----------------------------------------------------------------------------
(* getHeader and fill.  fill takes what it reads off the buffer: `read` is  *)
(* what has been read so far and what is left.                              *)

Drop(s, n) == SubSeq(s, n + 1, Len(s))

\* The first n bytes; beyond the end is whatever the buffer holds, taken to be 0.
Peek(s, n) == [i \in 1..n |-> IF i <= Len(s) THEN s[i] ELSE 0]

AddByte(n, byte) == n * Radix + byte
Number(bytes) == FoldLeft(AddByte, 0, bytes)

MessageType(bytes) == bytes[1]
MessageLen(bytes) == Number(SubSeq(bytes, 2, HeaderLen))

Nothing(bytes) == [values |-> <<>>, rest |-> bytes]

Add(read, values, rest) == [values |-> Append(read.values, values), rest |-> rest]

FillValue(read, kind) ==
    IF kind = "string"
    THEN LET end == SelectInSeq(Append(read.rest, 0), LAMBDA b : b = 0)
         IN  Add(read, SubSeq(read.rest, 1, end - 1), Drop(read.rest, end))
    ELSE Add(read, Number(Peek(read.rest, Width[kind])),
             Drop(read.rest, Width[kind]))

FillStruct(read, kinds) ==
    LET struct == FoldLeft(FillValue, Nothing(read.rest), kinds)
    IN  Add(read, struct.values, struct.rest)

FillField(read, field) ==
    LET count == IF field.array THEN Peek(read.rest, 1)[1] ELSE 1
        start == IF field.array THEN Drop(read.rest, 1) ELSE read.rest
        structs == FoldLeft(FillStruct, Nothing(start),
                            [i \in 1..count |-> field.elem])
    IN  Add(read, structs.values, structs.rest)

Fill(type, bytes) == FoldLeft(FillField, Nothing(bytes), Template(type))
=============================================================================
