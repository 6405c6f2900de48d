----------------------------- MODULE ChunkWriter -----------------------------
(***************************************************************************)
(* rtmp::ChunkWriter (rtmp/src/chunk_writer.cpp): the chunks a message is  *)
(* written as.  A message has csid, timestamp, type, msid, length and, for *)
(* a control message, a value.                                             *)
(***************************************************************************)
EXTENDS ChunkFormat

CONSTANT kMaxWritten    \* 0xFFFFFF, the longest message that is written

ASSUME WriterAssumption == kMaxWritten \in Nat

\* write() returns false, and writes nothing, for any other message.
Writes(m) == m.csid \in Csids /\ m.length <= kMaxWritten

\* write(): a fmt0 chunk, then fmt3 chunks, each with the extended timestamp.
Chunks(m, size) ==
    LET count == IF m.length = 0 THEN 1 ELSE (m.length + size - 1) \div size
    IN  [i \in 1..count |->
           [fmt |-> IF i = 1 THEN 0 ELSE 3, csid |-> m.csid,
            field |-> IF m.timestamp >= Ext THEN Ext ELSE m.timestamp,
            ext |-> m.timestamp, has_ext |-> m.timestamp >= Ext,
            length |-> m.length, type |-> m.type, msid |-> m.msid,
            octets |-> IF i < count THEN size ELSE m.length - (count - 1) * size,
            of |-> m]]

\* set_chunk_size() does nothing for other sizes; 0 stands for each of them.
Settable(size) == size # 0

\* The message set_chunk_size() writes, in chunks of the old size.
ChunkSizeMessage(size) ==
    [csid |-> 2, timestamp |-> 0, type |-> "set_chunk_size", msid |-> 0,
     length |-> ControlLength, value |-> size]
=============================================================================
