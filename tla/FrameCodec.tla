------------------------------ MODULE FrameCodec ------------------------------
(***************************************************************************)
(* The RoQR frame codec (core/src/varint.cpp, core/src/frame.cpp) over     *)
(* bytes of any range divisible by four: the two highest bits of a         *)
(* varint's first byte say whether it has 1, 2, 4 or 8 bytes.              *)
(***************************************************************************)
EXTENDS Integers, SequencesExt

CONSTANTS
    ByteRange,      \* 256 in the code
    MaxPayload      \* FrameDecoder's max_payload_

ASSUME CodecAssumption ==
    ByteRange \in Nat \ {0} /\ ByteRange % 4 = 0 /\ MaxPayload \in Nat

Quarter == ByteRange \div 4

\* What is below this fits a varint of n bytes.
Limit(n) == Quarter * ByteRange ^ (n - 1)

varint_size(v) ==
    IF v < Limit(1) THEN 1 ELSE IF v < Limit(2) THEN 2
    ELSE IF v < Limit(4) THEN 4 ELSE IF v < Limit(8) THEN 8 ELSE 0

Prefix == [n \in {1, 2, 4, 8} |-> CASE n = 1 -> 0 [] n = 2 -> 1 [] n = 4 -> 2 [] n = 8 -> 3]

\* Big-endian, with the length prefix; nothing if the value is too large.
varint_encode(v) ==
    LET n == varint_size(v)
    IN  [i \in 1..n |-> ((v \div ByteRange ^ (n - i)) % ByteRange)
                        + IF i = 1 THEN Prefix[n] * Quarter ELSE 0]

\* <<value, bytes consumed>>, or <<>> if data is too short.
varint_decode(data) ==
    LET len   == 2 ^ (data[1] \div Quarter)
        value == FoldLeft(LAMBDA v, b : (v * ByteRange) + b, data[1] % Quarter,
                          SubSeq(data, 2, len))
    IN  IF data = <<>> \/ Len(data) < len THEN <<>> ELSE <<value, len>>

-----------------------------------------------------------------------------

\* A frame without its payload, in the order of the wire; the message type is a
\* byte and the others are varints.
Fields == <<"flow_id", "timestamp", "message_type", "message_stream_id",
            "chunk_stream_id">>

Fits(f) == \A k \in {1, 2, 4, 5} : varint_size(f[Fields[k]]) # 0

\* frame_encode(): what is appended, nothing if the frame is refused.  The
\* length is a parameter for peers that get it wrong.
EncodeWithLength(f, length) ==
    varint_encode(f.flow_id) \o varint_encode(f.timestamp) \o <<f.message_type>>
    \o varint_encode(f.message_stream_id) \o varint_encode(f.chunk_stream_id)
    \o varint_encode(length) \o f.payload

frame_encode(f) ==
    IF f.payload = <<>> \/ ~Fits(f) THEN <<>>
    ELSE EncodeWithLength(f, Len(f.payload))

\* parse_header(): the values read, in order, and the bytes consumed; `ok` is
\* false as soon as data is too short.
parse_header(data) ==
    LET rest(h) == SubSeq(data, h.consumed + 1, Len(data))
        read(h, n, v) == [h EXCEPT !.consumed = @ + n, !.values = Append(@, v)]
        take(h, i) ==
            IF ~h.ok THEN h
            ELSE IF i = 3 THEN IF rest(h) = <<>> THEN [h EXCEPT !.ok = FALSE]
                               ELSE read(h, 1, rest(h)[1])
            ELSE LET r == varint_decode(rest(h))
                 IN  IF r = <<>> THEN [h EXCEPT !.ok = FALSE] ELSE read(h, r[2], r[1])
    IN  FoldLeft(take, [ok |-> TRUE, consumed |-> 0, values |-> <<>>], <<1, 2, 3, 4, 5, 6>>)

\* header_to_frame(), with the payload that follows.
header_to_frame(h, data) ==
    [flow_id |-> h.values[1], timestamp |-> h.values[2], message_type |-> h.values[3],
     message_stream_id |-> h.values[4], chunk_stream_id |-> h.values[5],
     payload |-> SubSeq(data, h.consumed + 1, h.consumed + h.values[6])]

\* Mutant of datagram_decode: bytes behind the frame are ignored.
datagram_decode_prefix(data) ==
    LET h == parse_header(data)
    IN  IF h.ok /\ h.values[6] # 0 /\ Len(data) - h.consumed >= h.values[6]
        THEN {header_to_frame(h, data)} ELSE {}

\* datagram_decode(): the frame, or none if the datagram is malformed.
datagram_decode(data) ==
    LET h == parse_header(data)
    IN  IF h.ok /\ h.values[6] # 0 /\ Len(data) - h.consumed = h.values[6]
        THEN {header_to_frame(h, data)} ELSE {}

-----------------------------------------------------------------------------
(* FrameDecoder: buffer_ and malformed_.  Its callers take all of ready_    *)
(* after every feed().                                                      *)

NewDecoder == [buffer |-> <<>>, malformed |-> FALSE, ready |-> <<>>]

\* Mutant of BadLength: one octet more than the limit is let through.
BadLengthOffByOne(n) == n = 0 \/ n > MaxPayload + 1

BadLength(n) == n = 0 \/ n > MaxPayload

\* parse(): as many frames as the buffer holds.
RECURSIVE parse(_)
parse(d) ==
    LET h   == parse_header(d.buffer)
        end == h.consumed + h.values[6]
    IN  IF ~h.ok THEN d
        ELSE IF BadLength(h.values[6])
        THEN [d EXCEPT !.malformed = TRUE, !.buffer = <<>>]
        ELSE IF Len(d.buffer) < end THEN d
        ELSE parse([d EXCEPT
                      !.ready = Append(@, header_to_frame(h, d.buffer)),
                      !.buffer = SubSeq(@, end + 1, Len(@))])

\* feed(): a malformed decoder takes no more data.
feed(d, data) ==
    IF d.malformed THEN d ELSE parse([d EXCEPT !.buffer = @ \o data])
=============================================================================
