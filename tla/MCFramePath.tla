------------------------------ MODULE MCFramePath ------------------------------
(* Instances of FramePath for TLC: bytes of three bits, so that values from 2  *)
(* on need two bytes, from 16 four and from 1024 eight.                        *)
EXTENDS FramePath

MCFrame(flow, stamp, type, stream, chunk, data) ==
    [flow_id |-> flow, timestamp |-> stamp, message_type |-> type,
     message_stream_id |-> stream, chunk_stream_id |-> chunk, payload |-> data]

MCFrames == {MCFrame(0, 1, 7, 0, 1, <<5>>), MCFrame(2, 16, 0, 1, 0, <<7, 0>>)}

Symmetric == Permutations(Sids)
=============================================================================
