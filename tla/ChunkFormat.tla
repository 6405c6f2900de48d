----------------------------- MODULE ChunkFormat -----------------------------
(* What the two ends of an RTMP chunk stream share (rtmp/message.hpp). *)
EXTENDS Integers, Sequences, FiniteSets

CONSTANTS
    Csids,              \* chunk stream IDs
    Ext,                \* 0xFFFFFF: the timestamp field that announces 4 octets more
    StampRange,         \* 2^32, the range of timestamps
    kDefaultChunkSize,
    ControlLength       \* 4, the octets a control message needs to be read

ASSUME FormatAssumption ==
    /\ Csids \subseteq Nat
    /\ StampRange \in Nat /\ Ext \in 1..StampRange
    /\ kDefaultChunkSize \in Nat \ {0} /\ ControlLength \in Nat \ {0}
=============================================================================
