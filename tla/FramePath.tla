------------------------------ MODULE FramePath ------------------------------
(***************************************************************************)
(* The receiving end of a QUIC connection, up to where whole frames are    *)
(* handed on: the stream callbacks of quic::Client                         *)
(* (quic/src/client.cpp) and relayd::Server (tools/relayd/src/server.cpp)  *)
(* with one FrameDecoder per stream.  The peer and picoquic are external:  *)
(* the bytes of a stream arrive in order, cut anywhere.                    *)
(***************************************************************************)
EXTENDS FrameCodec

CONSTANTS
    Sids,           \* streams
    Frames,         \* frames a peer writes on streams
    BadLengths,     \* payload lengths that the decoder must refuse
    WriteBound,     \* bound: frames a peer writes on streams
    StopBound       \* bound: STOP_SENDINGs

ASSUME PathAssumption ==
    /\ \A n \in BadLengths : n = 0 \/ n > MaxPayload
    /\ WriteBound \in Nat /\ StopBound \in Nat

VARIABLES
    role,           \* "client" or "relay"
    decoders,       \* the map decoders: NewDecoder stands for an absent one
    failed,         \* fail_connection(FrameEncodingError) was called
    given,          \* by stream: frames handed on
    wire,           \* by stream: bytes on the way
    over,           \* streams that have ended or were reset
    \* history, by stream: what was written ([frame, bad, head, end]: where
    \* its header and where it ends), bytes that arrived; whether a
    \* STOP_SENDING fell into a frame; STOP_SENDINGs
    written, arrived, cut, stops

decoderVars == <<decoders, failed, given>>
vars == <<role, decoderVars, wire, over, written, arrived, cut, stops>>

Init ==
    /\ role \in {"client", "relay"}
    /\ decoders = [s \in Sids |-> NewDecoder] /\ failed = FALSE
    /\ given = [s \in Sids |-> <<>>]
    /\ wire = [s \in Sids |-> <<>>] /\ over = {}
    /\ written = [s \in Sids |-> <<>>] /\ arrived = [s \in Sids |-> 0]
    /\ cut = [s \in Sids |-> FALSE] /\ stops = 0

-----------------------------------------------------------------------------
(* The peer.                                                               *)

Writes == FoldFunction(LAMBDA w, n : n + Len(w), 0, written)

\* The peer writes a frame, with its own length or (bad) another one.
PeerWrites(s, f, length) ==
    LET bytes == EncodeWithLength(f, length)
        start == arrived[s] + Len(wire[s])
    IN  /\ s \notin over /\ Writes < WriteBound
        /\ wire' = [wire EXCEPT ![s] = @ \o bytes]
        /\ written' = [written EXCEPT ![s] = Append(@,
                [frame |-> f, bad |-> length # Len(f.payload),
                 head  |-> start + Len(bytes) - Len(f.payload),
                 end   |-> start + Len(bytes)])]
        /\ UNCHANGED <<role, decoderVars, over, arrived, cut, stops>>

-----------------------------------------------------------------------------
(* Callbacks.                                                              *)

\* picoquic_callback_stream_data and, with the last bytes, stream_fin: the
\* decoder is found or made, fed and emptied.  The client closes the connection
\* if it is malformed; the relay does not look.
OnStreamData(s, n, fin) ==
    LET d == feed(decoders[s], SubSeq(wire[s], 1, n))
    IN  /\ s \notin over /\ ~failed
        /\ IF fin THEN n = Len(wire[s]) ELSE n > 0
        /\ wire' = [wire EXCEPT ![s] = SubSeq(@, n + 1, Len(@))]
        /\ arrived' = [arrived EXCEPT ![s] = @ + n]
        /\ given' = [given EXCEPT ![s] = @ \o d.ready]
        /\ failed' = (role = "client" /\ d.malformed)
        /\ decoders' = [decoders EXCEPT ![s] = IF fin THEN NewDecoder
                                               ELSE [d EXCEPT !.ready = <<>>]]
        /\ over' = IF fin THEN over \cup {s} ELSE over
        /\ UNCHANGED <<role, written, cut, stops>>

\* picoquic_callback_stream_reset: what is on the way is lost.
OnReset(s) ==
    /\ s \notin over /\ ~failed
    /\ decoders' = [decoders EXCEPT ![s] = NewDecoder]
    /\ wire' = [wire EXCEPT ![s] = <<>>]
    /\ over' = over \cup {s}
    /\ UNCHANGED <<role, failed, given, written, arrived, cut, stops>>

\* picoquic_callback_stop_sending is about the other direction of the stream,
\* and drops the decoder all the same.
OnStopSending(s) ==
    /\ s \notin over /\ ~failed
    /\ stops < StopBound /\ stops' = stops + 1
    /\ decoders' = [decoders EXCEPT ![s] = NewDecoder]
    /\ cut' = [cut EXCEPT ![s] = @ \/ decoders[s].buffer # <<>> \/ decoders[s].malformed]
    /\ UNCHANGED <<role, failed, given, wire, over, written, arrived>>

-----------------------------------------------------------------------------

Next ==
    \/ \E s \in Sids :
        \/ \E f \in Frames : \E n \in BadLengths \cup {Len(f.payload)} :
              PeerWrites(s, f, n)
        \/ \E n \in 0..Len(wire[s]), fin \in BOOLEAN : OnStreamData(s, n, fin)
        \/ OnReset(s) \/ OnStopSending(s)

Spec == Init /\ [][Next]_vars

-----------------------------------------------------------------------------
(* Properties.                                                             *)

\* What has arrived of a stream up to and including its first bad frame.
SoFar(s) == SelectSeq(written[s], LAMBDA w : (IF w.bad THEN w.head ELSE w.end) <= arrived[s])
Good(s)  == LET bad == {i \in DOMAIN SoFar(s) : SoFar(s)[i].bad}
            IN  IF bad = {} THEN SoFar(s)
                ELSE SubSeq(SoFar(s), 1, (CHOOSE i \in bad : \A j \in bad : i <= j) - 1)

\* However its bytes are cut into callbacks, a stream yields exactly the frames
\* whose last byte has arrived, each as it was written and in order, and none
\* from a frame with a bad length on; and the client closes the connection
\* exactly when the length field of a bad frame has arrived, before any of its
\* payload is needed.  A STOP_SENDING in the middle of a frame is the exception.
FramesExact ==
    /\ \A s \in Sids : ~cut[s] =>
        /\ Len(given[s]) = Len(Good(s))
        /\ \A i \in DOMAIN given[s] : given[s][i] = Good(s)[i].frame
    /\ role = "client" /\ (\A s \in Sids : ~cut[s]) =>
        (failed <=> \E s \in Sids : \E i \in DOMAIN SoFar(s) : SoFar(s)[i].bad)
=============================================================================
