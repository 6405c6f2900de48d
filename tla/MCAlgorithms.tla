---------------------------- MODULE MCAlgorithms ----------------------------
(* Inputs of Algorithms for TLC.  With octets of 16 values, a short length is  *)
(* one octet, so 16 octets are too long for a name and make a long string.     *)
EXTENDS Algorithms

MCLong == [i \in 1..16 |-> 9]
MCLeaves == {Number(9), Boolean(TRUE), String(<<>>), String(MCLong), Undefined, Date(3, 15)}
MCKeys == {<<>>, <<9>>, <<5>>, MCLong}
MCStrings == {<<>>, <<1>>, MCLong}

MCMessage(stamp, type, stream, chunk, data) ==
    [timestamp |-> stamp, type |-> type, message_stream_id |-> stream,
     chunk_stream_id |-> chunk, payload |-> data]
MCMessages == {MCMessage(0, 9, 0, 2, <<0>>), MCMessage(3, 9, 4, 63, <<0, 15>>),
               MCMessage(64, 8, 255, 255, <<15>>), MCMessage(255, 8, 1, 4, <<>>)}
=============================================================================
