------------------------------ MODULE Commands ------------------------------
(***************************************************************************)
(* RTMP commands (gateway/src/rtmp_commands.cpp), and the bridge between   *)
(* RTMP messages and RoQR frames (gateway/src/bridge.cpp).  The words the   *)
(* code writes into commands are one octet each.                           *)
(***************************************************************************)
EXTENDS Amf0

CONSTANTS
    MaxPayload,         \* of a FrameDecoder
    kTypeCommandAmf0    \* 20 in the code

ASSUME CommandAssumption == kTypeCommandAmf0 \in 0..(ByteRange - 1)

Codec == INSTANCE FrameCodec

Words == <<"connect", "createStream", "publish", "play", "_result", "onStatus",
           "app", "tcUrl", "type", "nonprivate", "live", "level", "status", "code",
           "description">>
Text(word) == <<SelectInSeq(Words, LAMBDA w : w = word)>>

-----------------------------------------------------------------------------
(* The bridge.                                                             *)

to_frame(m, flow) ==
    [flow_id |-> flow, timestamp |-> m.timestamp, message_type |-> m.type,
     message_stream_id |-> m.message_stream_id, chunk_stream_id |-> m.chunk_stream_id,
     payload |-> m.payload]

kU32Max == ByteRange ^ U32 - 1

\* to_rtmp(): the message, or none if a field is too wide for it.
to_rtmp(f) ==
    IF \E k \in {"timestamp", "message_stream_id", "chunk_stream_id"} : f[k] > kU32Max
    THEN {}
    ELSE {[timestamp |-> f.timestamp, type |-> f.message_type,
           message_stream_id |-> f.message_stream_id,
           chunk_stream_id |-> f.chunk_stream_id, payload |-> f.payload]}

-----------------------------------------------------------------------------
(* Commands.                                                               *)

command_message(values, message_stream_id) ==
    [timestamp |-> 0, type |-> kTypeCommandAmf0, message_stream_id |-> message_stream_id,
     chunk_stream_id |-> 3, payload |-> EncodeAll(values)]

\* An object of strings, set in the order of the pairs.
ObjectOf(pairs) ==
    FoldLeft(LAMBDA o, p : Set(o, Text(p[1]), String(p[2])), Empty("Object"), pairs)

status_info(code, desc) ==
    ObjectOf(<<<<"level", Text("status")>>, <<"code", code>>, <<"description", desc>>>>)

connect_values(txn, app, tc_url) ==
    <<String(Text("connect")), Number(txn),
      ObjectOf(<<<<"app", app>>, <<"tcUrl", tc_url>>, <<"type", Text("nonprivate")>>>>)>>

create_stream_values(txn) == <<String(Text("createStream")), Number(txn), Null>>

publish_values(txn, name) ==
    <<String(Text("publish")), Number(txn), Null, String(name), String(Text("live"))>>

play_values(txn, name) == <<String(Text("play")), Number(txn), Null, String(name)>>

result_object_values(txn, props, info) ==
    <<String(Text("_result")), Number(txn), props, info>>

result_stream_id_values(txn, id) ==
    <<String(Text("_result")), Number(txn), Null, Number(id)>>

on_status_values(code, desc) ==
    <<String(Text("onStatus")), Number(0), Null, status_info(code, desc)>>

\* parse_command(): the command, or none.
parse_command(m) ==
    LET d == amf0_decode_all(m.payload)
        v == d.values
    IN  IF m.type # kTypeCommandAmf0 \/ ~d.ok \/ Len(v) < 2 THEN {}
        ELSE IF v[1].type # "String" \/ v[2].type # "Number" THEN {}
        ELSE {[name |-> v[1].string, transaction_id |-> v[2].number, args |-> Drop(v, 2)]}

\* The relay's command_stream_name(): the first string among the arguments.
command_stream_name(cmd) ==
    LET names == SelectSeq(cmd.args, LAMBDA a : a.type = "String")
    IN  IF names = <<>> THEN <<>> ELSE names[1].string
=============================================================================
