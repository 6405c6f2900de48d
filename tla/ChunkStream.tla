----------------------------- MODULE ChunkStream -----------------------------
(***************************************************************************)
(* A chunk stream from a sender to a ChunkReader.  The sender is           *)
(*   "writer": a ChunkWriter, one whole message after another;             *)
(*   "peer":   an RTMP peer, which interleaves the chunks of messages on   *)
(*             different chunk streams, compresses headers, changes the    *)
(*             chunk size and aborts messages; or                          *)
(*   "any":    one that sends any chunks at all.                           *)
(* The sender waits for the reader, which changes nothing: it learns       *)
(* nothing from it.                                                        *)
(***************************************************************************)
EXTENDS ChunkReader, ChunkWriter

CONSTANTS
    Lengths,        \* lengths of media messages
    AnyLengths,     \* lengths that "any" declares besides, and write() may be given
    Stamps,         \* timestamps
    Sizes,          \* chunk sizes that are set
    Msids,          \* message stream IDs
    MessageBound,   \* bound: messages that are sent
    ChunkBound      \* bound: chunks of "any"

\* Chunk stream 2 is the one for control messages; Lengths are those that the
\* reader allows.
ASSUME StreamAssumption ==
    /\ 2 \in Csids
    /\ Lengths \subseteq 0..kMaxMessageSize /\ AnyLengths \subseteq Nat
    /\ ControlLength <= kMaxMessageSize /\ kMaxMessageSize <= kMaxOutstanding
    /\ Stamps \subseteq 0..(StampRange - 1) /\ 0 \in Stamps
    /\ Sizes \subseteq Nat \ {0}
    /\ MessageBound \in Nat /\ ChunkBound \in Nat

VARIABLES
    sender,         \* which of the three
    wire,           \* chunks that were sent and not yet fed
    size,           \* the sender's chunk size
    peer,           \* of the peer, by chunk stream: its latest header, and what is left
    begun,          \* history: messages begun, or chunks of "any"
    sent            \* history: messages completed, in order

vars == <<readerVars, sender, wire, size, peer, begun, sent>>

Idle == [header |-> <<>>, left |-> 0]

Init ==
    /\ ReaderInit /\ sender \in {"writer", "peer", "any"}
    /\ wire = <<>> /\ size = kDefaultChunkSize
    /\ peer = [c \in Csids |-> Idle]
    /\ begun = 0 /\ sent = <<>>

Media ==
    [csid : Csids, timestamp : Stamps, type : {"media"}, msid : Msids,
     length : Lengths, value : {0}]

\* Where the budget is concerned, one timestamp will do for "any".
AnyMedia ==
    [csid : Csids, timestamp : {0}, type : {"media"}, msid : {0},
     length : Lengths \cup AnyLengths, value : {0}]

\* What write() may be given besides Media: messages on no chunk stream, and
\* messages longer than the reader allows, which write() writes up to kMaxWritten.
Outsize ==
    {m \in [csid : Csids \cup {0}, timestamp : {0}, type : {"media"}, msid : {0},
            length : Lengths \cup AnyLengths, value : {0}] :
        m.csid \notin Csids \/ m.length > kMaxMessageSize}

AbortMessage(target) ==
    [csid |-> 2, timestamp |-> 0, type |-> "abort", msid |-> 0,
     length |-> ControlLength, value |-> target]

Control == {AbortMessage(c) : c \in Csids}
               \cup {ChunkSizeMessage(n) : n \in Sizes}

Sends(who) ==
    /\ sender = who /\ wire = <<>> /\ pending = <<>> /\ ~failed
    /\ UNCHANGED sender

Begins(bound) == begun < bound /\ begun' = begun + 1

-----------------------------------------------------------------------------

\* ChunkWriter::write(), of a message that is not a control message.
Write(m) ==
    /\ Sends("writer") /\ Begins(MessageBound)
    /\ IF Writes(m) THEN wire' = Chunks(m, size) /\ sent' = Append(sent, m)
                    ELSE UNCHANGED <<wire, sent>>
    /\ UNCHANGED <<readerVars, size, peer>>

\* ChunkWriter::set_chunk_size().
SetChunkSize(n) ==
    /\ Sends("writer") /\ Begins(MessageBound)
    /\ IF Settable(n)
       THEN /\ wire' = Chunks(ChunkSizeMessage(n), size)
            /\ sent' = Append(sent, ChunkSizeMessage(n))
            /\ size' = n
       ELSE UNCHANGED <<wire, sent, size>>
    /\ UNCHANGED <<readerVars, peer>>

\* What the peer's state becomes once a chunk is sent, and the message with it
\* if it is the last one.
PeerSends(ch, left) ==
    LET m == ch.of
        now == [peer EXCEPT ![ch.csid] = [header |-> <<ch>>, left |-> left]]
    IN  /\ wire' = <<ch>>
        /\ sent' = IF left = 0 THEN Append(sent, m) ELSE sent
        /\ size' = IF left = 0 /\ m.type = "set_chunk_size" THEN m.value ELSE size
        /\ peer' = IF left = 0 /\ m.type = "abort" THEN [now EXCEPT ![m.value] = Idle]
                                                  ELSE now
        /\ UNCHANGED readerVars

\* What the peer has begun and not completed, as <<chunk stream, position>>.
Unfinished ==
    UNION {{c} \X (1..peer[c].header[1].of.length) : c \in {d \in Csids : peer[d].left > 0}}

\* The peer begins a message with the header of the fmt, if it may use it and the
\* reader has the room for it.
PeerBegin(m, fmt) ==
    LET last  == peer[m.csid].header[1]
        delta == (m.timestamp - last.of.timestamp) % StampRange
        stamp == IF fmt = 0 THEN m.timestamp ELSE delta
        first == Smaller(m.length, size)
    IN  /\ Sends("peer") /\ Begins(MessageBound)
        /\ peer[m.csid].left = 0
        /\ Cardinality(Unfinished) + m.length <= kMaxOutstanding
        /\ fmt > 0 => peer[m.csid].header # <<>> /\ m.msid = last.of.msid
        /\ fmt > 1 => m.type = last.of.type /\ m.length = last.of.length
        /\ fmt > 2 => delta = last.delta
        /\ PeerSends(
             [fmt |-> fmt, csid |-> m.csid,
              field |-> IF fmt = 3 THEN last.field ELSE Smaller(stamp, Ext),
              ext |-> IF fmt = 3 THEN last.ext ELSE stamp,
              has_ext |-> IF fmt = 3 THEN last.has_ext ELSE stamp >= Ext,
              length |-> m.length, type |-> m.type, msid |-> m.msid,
              octets |-> first, of |-> m,
              delta |-> IF fmt = 0 THEN 0 ELSE delta],
             m.length - first)

PeerContinue(c) ==
    LET last == peer[c].header[1]
        more == Smaller(peer[c].left, size)
    IN  /\ Sends("peer") /\ peer[c].left > 0
        /\ PeerSends([last EXCEPT !.fmt = 3, !.octets = more], peer[c].left - more)
        /\ UNCHANGED begun

\* Any chunk, with the message its octets are of.
SendAny(m, fmt) ==
    /\ Sends("any") /\ Begins(ChunkBound)
    /\ wire' = <<[fmt |-> fmt, csid |-> m.csid, field |-> 0, ext |-> 0,
                  length |-> m.length, type |-> m.type, msid |-> m.msid, of |-> m]>>
    /\ UNCHANGED <<readerVars, size, peer, sent>>

FeedHeader ==
    /\ wire # <<>>
    /\ Header(Head(wire))
    /\ wire' = Tail(wire)
    /\ UNCHANGED <<sender, size, peer, begun, sent>>

FeedBody == Body /\ UNCHANGED <<sender, wire, size, peer, begun, sent>>

Next ==
    \/ FeedHeader \/ FeedBody
    \/ \E n \in Sizes \cup {0} : SetChunkSize(n)
    \/ \E c \in Csids : PeerContinue(c)
    \/ \E m \in Media \cup Outsize : Write(m)
    \/ \E m \in Media \cup Control, fmt \in 0..3 : PeerBegin(m, fmt)
    \/ \E m \in AnyMedia \cup Control \cup {ChunkSizeMessage(0)}, fmt \in 0..3 :
          SendAny(m, fmt)

Spec == Init /\ [][Next]_vars

-----------------------------------------------------------------------------

\* A message as next() is to give it.
Delivered(m) ==
    [csid |-> m.csid, timestamp |-> m.timestamp, type |-> m.type, msid |-> m.msid,
     payload |-> [j \in 1..m.length |-> m]]

\* The last message that was written is longer than the reader allows.
Overlong == sent # <<>> /\ sent[Len(sent)].length > kMaxMessageSize

\* The reader takes each chunk as long as it was sent, extended timestamp and
\* body, so it never loses its place; and once all is fed, next() has given
\* exactly the messages that were completed, in that order, each with its own
\* header, timestamp and octets, and no chunk was refused.  Only a message that is
\* longer than kMaxMessageSize is refused, always, with all before it delivered.
DecodedAsSent ==
    LET all == [i \in DOMAIN sent |-> Delivered(sent[i])]
    IN  sender # "any" =>
          /\ pending # <<>> => /\ Take(pending[1]) = pending[1].octets
                               /\ Extended(pending[1]) = pending[1].has_ext
          /\ failed \/ (wire = <<>> /\ pending = <<>>) =>
                IF Overlong THEN failed /\ all = Append(ready, Delivered(sent[Len(sent)]))
                            ELSE ~failed /\ ready = all
=============================================================================
