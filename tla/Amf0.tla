-------------------------------- MODULE Amf0 --------------------------------
(***************************************************************************)
(* AMF0 values and their encoding (rtmp/src/amf0.cpp) over octets of any   *)
(* range that holds the markers.  A value has the fields of the class; a   *)
(* number or a time zone is its bit pattern and a string is its octets.    *)
(***************************************************************************)
EXTENDS Integers, SequencesExt

CONSTANTS
    ByteRange,          \* 256 in the code
    U16, U32, F64,      \* octets of a short length, a long length and a number:
                        \* 2, 4 and 8 in the code
    kMaxDepth

ASSUME Amf0Assumption ==
    /\ ByteRange \in Nat /\ ByteRange > 12 /\ kMaxDepth \in Nat
    /\ U16 \in Nat \ {0} /\ U32 \in Nat /\ U32 > U16 /\ F64 \in Nat \ {0}

Null == [type |-> "Null", number |-> 0, tz |-> 0, boolean |-> FALSE,
         string |-> <<>>, keys |-> <<>>, values |-> <<>>]
Undefined   == [Null EXCEPT !.type = "Undefined"]
Number(n)   == [Null EXCEPT !.type = "Number", !.number = n]
Boolean(b)  == [Null EXCEPT !.type = "Boolean", !.boolean = b]
String(s)   == [Null EXCEPT !.type = "String", !.string = s]
Date(n, tz) == [Null EXCEPT !.type = "Date", !.number = n, !.tz = tz]
Empty(type) == [Null EXCEPT !.type = type]

\* set(): a key that is there keeps its place and gets the new value.
Set(v, key, value) ==
    IF Contains(v.keys, key)
    THEN [v EXCEPT !.values[SelectInSeq(v.keys, LAMBDA k : k = key)] = value]
    ELSE [v EXCEPT !.keys = Append(@, key), !.values = Append(@, value)]

Push(v, value) == [v EXCEPT !.values = Append(@, value)]

Marker == [Number |-> 0, Boolean |-> 1, String |-> 2, Object |-> 3, Null |-> 5,
           Undefined |-> 6, EcmaArray |-> 8, ObjectEnd |-> 9, StrictArray |-> 10,
           Date |-> 11, LongString |-> 12]

ShortMax == ByteRange ^ U16 - 1

-----------------------------------------------------------------------------
(* Encoding.                                                               *)

\* put_u16(), put_u32(), put_f64(): big-endian, cut to n octets.
Put(n, v) == [i \in 1..n |-> (v \div ByteRange ^ (n - i)) % ByteRange]

\* The marker, the length and the octets of a string.
PutString(s) ==
    (IF Len(s) > ShortMax THEN <<Marker.LongString>> \o Put(U32, Len(s))
                          ELSE <<Marker.String>> \o Put(U16, Len(s))) \o s

RECURSIVE amf0_encode(_)

\* put_properties(): names and values, and an empty name with the end marker.
put_properties(v) ==
    FoldLeft(LAMBDA out, i : out \o Put(U16, Len(v.keys[i])) \o v.keys[i]
                             \o amf0_encode(v.values[i]),
             <<>>, [i \in DOMAIN v.keys |-> i])
    \o Put(U16, 0) \o <<Marker.ObjectEnd>>

amf0_encode(v) ==
    LET marked == <<Marker[v.type]>>
    IN  CASE v.type = "Number"      -> marked \o Put(F64, v.number)
          [] v.type = "Boolean"     -> marked \o <<IF v.boolean THEN 1 ELSE 0>>
          [] v.type = "String"      -> PutString(v.string)
          [] v.type = "Object"      -> marked \o put_properties(v)
          [] v.type = "EcmaArray"   -> marked \o Put(U32, Len(v.keys)) \o put_properties(v)
          [] v.type = "StrictArray" -> FoldLeft(LAMBDA out, e : out \o amf0_encode(e),
                                                marked \o Put(U32, Len(v.values)), v.values)
          [] v.type = "Date"        -> marked \o Put(F64, v.number) \o Put(U16, v.tz)
          [] OTHER                  -> marked

EncodeAll(values) == FoldLeft(LAMBDA out, v : out \o amf0_encode(v), <<>>, values)

-----------------------------------------------------------------------------
(* Decoding.  A reader is the octets that are left; a result is a reader    *)
(* and a value, or Failure.                                                 *)

Failure == [ok |-> FALSE, rest |-> <<>>, value |-> Null]
Ok(rest, value) == [ok |-> TRUE, rest |-> rest, value |-> value]

Drop(r, n) == SubSeq(r, n + 1, Len(r))
Get(r, n)  == FoldLeft(LAMBDA v, b : (v * ByteRange) + b, 0, SubSeq(r, 1, n))

\* A length of n octets and as many octets of string.
ReadString(r, n) ==
    LET len == Get(r, n)
    IN  IF Len(r) < n \/ Len(r) < n + len THEN Failure
        ELSE Ok(Drop(r, n + len), String(SubSeq(r, n + 1, n + len)))

RECURSIVE decode_value(_, _)

\* Mutant of decode_properties: an empty name is a name, and only the end marker
\* behind it ends the object.
RECURSIVE decode_properties_any(_, _, _)
decode_properties_any(r, out, depth) ==
    LET name  == ReadString(r, U16)
        value == decode_value(name.rest, depth)
    IN  IF Len(r) > U16 /\ Get(r, U16) = 0 /\ r[U16 + 1] = Marker.ObjectEnd
        THEN Ok(Drop(r, U16 + 1), out)
        ELSE IF ~name.ok \/ ~value.ok THEN Failure
        ELSE decode_properties_any(value.rest, Set(out, name.value.string, value.value), depth)

\* Names and values up to an empty name, which the end marker must follow.
RECURSIVE decode_properties(_, _, _)
decode_properties(r, out, depth) ==
    LET name  == ReadString(r, U16)
        value == decode_value(name.rest, depth)
    IN  IF Len(r) >= U16 /\ Get(r, U16) = 0
        THEN IF Len(r) > U16 /\ r[U16 + 1] = Marker.ObjectEnd
             THEN Ok(Drop(r, U16 + 1), out) ELSE Failure
        ELSE IF ~name.ok \/ ~value.ok THEN Failure
        ELSE decode_properties(value.rest, Set(out, name.value.string, value.value), depth)

\* The elements of a strict array, as many as its count says.
RECURSIVE decode_elements(_, _, _, _)
decode_elements(r, out, count, depth) ==
    LET value == decode_value(r, depth)
    IN  IF count = 0 THEN Ok(r, out)
        ELSE IF ~value.ok THEN Failure
        ELSE decode_elements(value.rest, Push(out, value.value), count - 1, depth)

\* The count of an ECMA array is read and not used.
decode_value(data, depth) ==
    LET r    == Tail(data)
        m    == data[1]
        need(n, result) == IF Len(r) < n THEN Failure ELSE result
    IN  IF depth > kMaxDepth \/ data = <<>> THEN Failure
        ELSE CASE m = Marker.Number      -> need(F64, Ok(Drop(r, F64), Number(Get(r, F64))))
               [] m = Marker.Boolean     -> need(1, Ok(Tail(r), Boolean(r[1] # 0)))
               [] m = Marker.String      -> ReadString(r, U16)
               [] m = Marker.LongString  -> ReadString(r, U32)
               [] m = Marker.Object      -> decode_properties(r, Empty("Object"), depth + 1)
               [] m = Marker.EcmaArray   -> need(U32, decode_properties(Drop(r, U32),
                                                        Empty("EcmaArray"), depth + 1))
               [] m = Marker.StrictArray -> need(U32, decode_elements(Drop(r, U32),
                                                        Empty("StrictArray"), Get(r, U32), depth + 1))
               [] m = Marker.Null        -> Ok(r, Null)
               [] m = Marker.Undefined   -> Ok(r, Undefined)
               [] m = Marker.Date        -> need(F64 + U16, Ok(Drop(r, F64 + U16),
                                                Date(Get(r, F64), Get(Drop(r, F64), U16))))
               [] OTHER                  -> Failure

\* amf0_decode_all(): [ok, values].
RECURSIVE decode_from(_, _)
decode_from(data, values) ==
    LET v == decode_value(data, 0)
    IN  IF data = <<>> THEN [ok |-> TRUE, values |-> values]
        ELSE IF ~v.ok THEN [ok |-> FALSE, values |-> <<>>]
        ELSE decode_from(v.rest, Append(values, v.value))

amf0_decode_all(data) == decode_from(data, <<>>)
=============================================================================
