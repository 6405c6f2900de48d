----------------------------- MODULE Algorithms -----------------------------
(***************************************************************************)
(* The functions that the gateways and the relay compute with, each fed    *)
(* with growing inputs and compared with a definition of what it is for.   *)
(* A behaviour is about one of them, its subject.                          *)
(***************************************************************************)
EXTENDS Commands, Classify, Backoff, Timeline

CONSTANTS
    Subjects,           \* the subjects explored
    Leaves, Keys,       \* AMF0 values and property names to build values from
    Octets,             \* octets of arbitrary AMF0 payloads
    Messages,           \* RTMP messages for the bridge
    Strings,            \* strings an application puts into a command
    FirstOctets, MediaOctets,   \* of media payloads: the first one, the others
    BuildBound,         \* bound: calls that build a value
    OctetBound,         \* bound: octets of an arbitrary payload
    MediaBound,         \* bound: octets of a media payload
    FrameBound,         \* bound: frames of a timeline
    AttemptBound        \* bound: failed attempts

VARIABLES
    subject,
    value,              \* an AMF0 value an application builds
    octets,             \* a payload that arrives
    message,            \* an RTMP message on its way
    policy,             \* initial_backoff and max_backoff
    steps               \* calls so far

inputs == <<value, octets, message, policy>>
vars == <<subject, inputs, timelineVars, steps>>

\* A command, what it was built from, and the message that carries it.
Built(values, sid) == [values |-> values, rtmp |-> command_message(values, sid)]

BuiltCommands ==
    {Built(connect_values(1, a, u), 0) : a \in Strings, u \in Strings}
    \cup {Built(create_stream_values(2), 0), Built(result_stream_id_values(2, 1), 0)}
    \cup {Built(publish_values(3, n), 1) : n \in Strings}
    \cup {Built(play_values(3, n), 1) : n \in Strings}
    \cup {Built(on_status_values(c, d), 1) : c \in Strings, d \in Strings}
    \cup {Built(result_object_values(1, status_info(c, c), Null), 0) : c \in Strings}

Init ==
    /\ subject \in Subjects
    /\ value \in IF subject = "value" THEN Leaves \cup {Empty("Object")} ELSE {Null}
    /\ octets = <<>>
    /\ message \in IF subject = "message"
                   THEN BuiltCommands \cup {[values |-> <<>>, rtmp |-> m] : m \in Messages}
                   ELSE {<<>>}
    /\ policy \in IF subject = "backoff"
                  THEN [initial : 0..(DelayRange - 1), max : 0..(DelayRange - 1)]
                  ELSE {<<>>}
    /\ TimelineInit /\ steps = 0

\* An application puts the value into an object or an array, or adds to it.
Build(k, leaf) ==
    /\ subject = "value" /\ steps < BuildBound /\ steps' = steps + 1
    /\ value' \in {Set(Empty("Object"), k, value), Set(Empty("EcmaArray"), k, value),
                   Push(Empty("StrictArray"), value)}
                  \cup (IF value.type \in {"Object", "EcmaArray"}
                        THEN {Set(value, k, leaf)} ELSE {})
                  \cup (IF value.type = "StrictArray" THEN {Push(value, leaf)} ELSE {})
    /\ UNCHANGED <<subject, octets, message, policy, timelineVars>>

\* An octet more arrives.
Arrive(b) ==
    /\ \/ subject = "octets" /\ b \in Octets /\ steps < OctetBound
       \/ subject = "media" /\ steps < MediaBound
          /\ b \in IF steps = 0 THEN FirstOctets ELSE MediaOctets
    /\ octets' = Append(octets, b) /\ steps' = steps + 1
    /\ UNCHANGED <<subject, value, message, policy, timelineVars>>

\* A video frame reaches the gap tracker.
VideoFrame(ts, cls) ==
    /\ subject = "gap" /\ steps < FrameBound /\ steps' = steps + 1
    /\ TrackFrame(ts, cls)
    /\ UNCHANGED <<subject, inputs>>

\* An attempt fails.
FailedAttempt ==
    /\ subject = "backoff" /\ steps < AttemptBound /\ steps' = steps + 1
    /\ UNCHANGED <<subject, inputs, timelineVars>>

Next ==
    \/ \E k \in Keys, leaf \in Leaves : Build(k, leaf)
    \/ \E b \in Octets \cup FirstOctets \cup MediaOctets : Arrive(b)
    \/ \E ts \in Timestamps, cls \in VideoClasses : VideoFrame(ts, cls)
    \/ FailedAttempt

Spec == Init /\ [][Next]_vars

-----------------------------------------------------------------------------
(* AMF0.                                                                   *)

\* What AMF0 can carry: names of 1 to ShortMax octets, nested up to kMaxDepth.
RECURSIVE Carried(_, _)
Carried(v, depth) ==
    /\ depth <= kMaxDepth
    /\ \A i \in DOMAIN v.keys : Len(v.keys[i]) \in 1..ShortMax
    /\ \A i \in DOMAIN v.values : Carried(v.values[i], depth + 1)

Decoded(values) == [ok |-> TRUE, values |-> values]

\* A value that AMF0 can carry is decoded as it was encoded, and no part of its
\* encoding is taken for a whole; any other one does not come back as itself.
\* And whatever octets decode at all, the values they decode to are ones that
\* can be carried: they are written and read back unchanged.
Amf0Faithful ==
    /\ subject = "value" =>
        LET wire == amf0_encode(value)
        IN  IF Carried(value, 0)
            THEN /\ amf0_decode_all(wire) = Decoded(<<value>>)
                 /\ \A n \in 1..(Len(wire) - 1) : ~amf0_decode_all(SubSeq(wire, 1, n)).ok
            ELSE amf0_decode_all(wire) # Decoded(<<value>>)
    /\ subject = "octets" =>
        LET d == amf0_decode_all(octets)
        IN  d.ok => amf0_decode_all(EncodeAll(d.values)) = d

-----------------------------------------------------------------------------
(* Commands and messages across the connection.                            *)

FrameOf(m) == Codec!frame_encode(to_frame(m, 0))

\* A message with a payload crosses the connection unchanged, from one end's
\* to_frame() to the other's to_rtmp(), as a datagram of exactly its frame or on
\* a stream; a frame with a field that is too wide for RTMP crosses as well, but
\* to_rtmp() refuses it; and a command is parsed as it was built, with the stream
\* name in it, whatever strings the application chose.
MessageCrosses ==
    subject = "message" =>
        LET m    == message.rtmp
            wire == FrameOf(m)
            sent == message.values
            read == Codec!feed(Codec!NewDecoder, wire).ready
            wide(k) == [to_frame(m, 0) EXCEPT ![k] = kU32Max + 1]
        IN  IF m.payload = <<>> THEN wire = <<>>
            ELSE /\ UNION {to_rtmp(f) : f \in Codec!datagram_decode(wire)} = {m}
                 /\ Len(read) = 1 /\ to_rtmp(read[1]) = {m}
                 /\ \A n \in 0..(Len(wire) - 1) : Codec!datagram_decode(SubSeq(wire, 1, n)) = {}
                 /\ \A b \in {0, 1} : Codec!datagram_decode(Append(wire, b)) = {}
                 /\ \A k \in {"timestamp", "message_stream_id", "chunk_stream_id"} :
                        /\ Codec!datagram_decode(Codec!frame_encode(wide(k))) = {wide(k)}
                        /\ to_rtmp(wide(k)) = {}
                 /\ sent # <<>> => parse_command(m) =
                        {[name |-> sent[1].string, transaction_id |-> sent[2].number,
                          args |-> SubSeq(sent, 3, Len(sent))]}
                 /\ sent # <<>> /\ sent[1].string \in {Text("publish"), Text("play")} =>
                        {command_stream_name(c) : c \in parse_command(m)} = {sent[4].string}

-----------------------------------------------------------------------------
(* The classifier.                                                         *)

\* One whole ModEx block, with the octet that holds the next packet type.
IsModEx(b) ==
    \/ b # <<>> /\ b[1] < 255 /\ Len(b) = b[1] + 3
    \/ Len(b) > 3 /\ b[1] = 255 /\ Len(b) = (256 * b[2]) + b[3] + 5

\* Where the packet type of an E-RTMP payload can stand: behind whole blocks
\* only, each announced by a 7.
PacketTypeAt(p, c) ==
    /\ Low(p[c]) # 7
    /\ \E s \in SUBSET (1..c) :
        /\ {1, c} \subseteq s
        /\ \A a \in s \ {c} :
            /\ Low(p[a]) = 7
            /\ \E b \in s : b > a /\ (\A x \in s : x <= a \/ x >= b)
                                  /\ IsModEx(SubSeq(p, a + 1, b))

EnhancedCoded(p, types) ==
    \E c \in DOMAIN p : PacketTypeAt(p, c) /\ Low(p[c]) \in types /\ Len(p) >= c + FourccOctets

\* A coded frame, which a player can do without.
IsCodedVideo(p) ==
    IF p[1] >= 128 THEN EnhancedCoded(p, {1, 3})
    ELSE FrameType(p[1]) # 5 /\ (Low(p[1]) = 7 => Len(p) > 1 /\ p[2] \notin {0, 2})
IsCodedAudio(p) ==
    IF High(p[1]) = 9 THEN EnhancedCoded(p, {1})
    ELSE High(p[1]) = 10 => Len(p) > 1 /\ p[2] # 0

\* Only whole coded frames of audio or video are sent in a way that may lose
\* them: sequence headers, metadata, control frames, multitrack messages and
\* whatever is cut short or unknown go on a stream; so do the messages that the
\* egress gateway and the relay keep for later players.
LossOnlyOfCoded ==
    subject = "media" =>
        /\ mode_for(9, octets) = "Auto" <=> octets # <<>> /\ IsCodedVideo(octets)
        /\ mode_for(8, octets) = "Auto" <=> octets # <<>> /\ IsCodedAudio(octets)
        /\ \A type \in {1, 4, 8, 9, 15, 18, 20, 22} : mode_for(type, octets) = "Auto" =>
              /\ ~is_init(type, octets)
              /\ classify(type, octets).cls \in {"Keyframe", "Coded"}

-----------------------------------------------------------------------------
(* The backoff.  The gap tracker's property is GapExact of Timeline.        *)

\* Reaching n doublings, a delay below max_backoff is doubled past the type.
Overflows(initial, max, n) ==
    \E i \in 0..(n - 1) : initial * 2 ^ i < max /\ initial * 2 ^ (i + 1) >= DelayRange

\* The delay before attempt n is initial_backoff * 2^(n-1) or max_backoff, the
\* smaller one, for every number of attempts and every max_backoff of at most half
\* of what the type holds.  With a larger max_backoff it is so for MaxExponent
\* doublings, unless one of them overflows.
BackoffExact ==
    subject = "backoff" /\ steps > 0 =>
        LET delay == compute_backoff(policy.initial, policy.max, steps)
            exact(n) == {Least(policy.initial * 2 ^ n, policy.max)}
            capped == Least(steps - 1, MaxExponent)
        IN  /\ policy.max <= DelayRange \div 2 => delay = exact(steps - 1)
            /\ Overflows(policy.initial, policy.max, capped) \/ delay = exact(capped)
=============================================================================
