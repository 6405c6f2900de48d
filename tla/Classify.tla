------------------------------ MODULE Classify ------------------------------
(***************************************************************************)
(* The media classifier (rtmp/src/classify.cpp) over payloads of octets,   *)
(* and what the gateways and the relay decide by it.                       *)
(***************************************************************************)
EXTENDS Integers, SequencesExt

CONSTANT FourccOctets   \* 4 in the code

ASSUME FourccAssumption == FourccOctets \in Nat

Info == [cls |-> "Unknown", enhanced |-> FALSE, multitrack |-> FALSE,
         force_stream |-> FALSE, fourcc |-> <<>>, codec |-> 0]

unknown_reliable == [Info EXCEPT !.force_stream = TRUE]
unknown_reliable_enhanced == [unknown_reliable EXCEPT !.enhanced = TRUE]

Low(b)  == b % 16
High(b) == b \div 16
FrameType(b) == High(b) % 8

-----------------------------------------------------------------------------

\* Mutant of ModExSize: the size is the octet, not one more.
ModExSizeShort(p, pos) ==
    IF p[pos + 1] = 255 THEN (p[pos + 2] * 256) + p[pos + 3] ELSE p[pos + 1]

\* The size of the ModEx block at pos: in one octet or, behind 255, in two.
ModExSize(p, pos) ==
    IF p[pos + 1] = 255 THEN (p[pos + 2] * 256) + p[pos + 3] + 1 ELSE p[pos + 1] + 1

\* skip_modex(): <<packet type, position behind the blocks>>, or <<>> if the
\* payload ends in a block.
RECURSIVE skip_modex(_, _, _)
skip_modex(p, pos, packet_type) ==
    LET head == IF p[pos + 1] = 255 THEN 3 ELSE 1
        at   == pos + head + ModExSize(p, pos)
    IN  IF packet_type # 7 THEN <<packet_type, pos>>
        ELSE IF pos >= Len(p) \/ pos + head > Len(p) \/ at + 1 > Len(p) THEN <<>>
        ELSE skip_modex(p, at + 1, Low(p[at + 1]))

\* read_fourcc(): the octets at pos, none if there are too few.
read_fourcc(p, pos) ==
    IF pos + FourccOctets > Len(p) THEN <<>> ELSE SubSeq(p, pos + 1, pos + FourccOctets)

\* What the enhanced classifiers share: ModEx blocks, a conservative answer for
\* packet type `multi`, and a class per packet type, Unknown for any other.
Enhanced(p, multi, class) ==
    LET m    == skip_modex(p, 1, Low(p[1]))
        type == m[1]
        many == [Info EXCEPT !.enhanced = TRUE, !.multitrack = TRUE,
                             !.force_stream = TRUE, !.cls = "Coded"]
    IN  IF m = <<>> THEN unknown_reliable_enhanced
        ELSE IF type = multi
        THEN IF m[2] < Len(p) /\ High(p[m[2] + 1]) # 2
             THEN [many EXCEPT !.fourcc = read_fourcc(p, m[2] + 1)] ELSE many
        ELSE IF m[2] + FourccOctets > Len(p) \/ class[type] = "Unknown"
        THEN unknown_reliable_enhanced
        ELSE [Info EXCEPT !.enhanced = TRUE, !.fourcc = read_fourcc(p, m[2]),
                          !.cls = class[type]]

classify_video_enhanced(p) ==
    Enhanced(p, 6, [type \in 0..15 |->
        CASE type \in {0, 5} -> "SequenceHeader"
          [] type \in {1, 3} -> IF FrameType(p[1]) = 1 THEN "Keyframe" ELSE "Coded"
          [] type = 2        -> "Control"
          [] type = 4        -> "Metadata"
          [] OTHER           -> "Unknown"])

classify_audio_enhanced(p) ==
    Enhanced(p, 5, [type \in 0..15 |->
        CASE type \in {0, 4} -> "SequenceHeader"
          [] type = 1        -> "Coded"
          [] type = 2        -> "Control"
          [] OTHER           -> "Unknown"])

classify_video(p) ==
    LET coded == IF FrameType(p[1]) = 1 THEN "Keyframe" ELSE "Coded"
        As(cls) == [Info EXCEPT !.codec = Low(p[1]), !.cls = cls]
    IN  IF p = <<>> THEN unknown_reliable
        ELSE IF p[1] >= 128 THEN classify_video_enhanced(p)
        ELSE IF FrameType(p[1]) = 5 THEN As("Control")
        ELSE IF Low(p[1]) # 7 THEN As(coded)
        ELSE IF Len(p) < 2 THEN unknown_reliable
        ELSE As(CASE p[2] = 0 -> "SequenceHeader" [] p[2] = 2 -> "Control"
                  [] OTHER -> coded)

classify_audio(p) ==
    LET As(cls) == [Info EXCEPT !.codec = High(p[1]), !.cls = cls]
    IN  IF p = <<>> THEN unknown_reliable
        ELSE IF High(p[1]) = 9 THEN classify_audio_enhanced(p)
        ELSE IF High(p[1]) # 10 THEN As("Coded")
        ELSE IF Len(p) < 2 THEN unknown_reliable
        ELSE As(IF p[2] = 0 THEN "SequenceHeader" ELSE "Coded")

classify(type, p) ==
    CASE type = 8                  -> classify_audio(p)
      [] type = 9                  -> classify_video(p)
      [] type \in {15, 18}         -> [Info EXCEPT !.cls = "Metadata"]
      [] type \in 1..6             -> [Info EXCEPT !.cls = "Control"]
      [] type = 22                 -> [Info EXCEPT !.cls = "Coded"]
      [] OTHER                     -> unknown_reliable

-----------------------------------------------------------------------------

\* The delivery mode the ingest gateway asks for.
mode_for(type, p) ==
    LET info == IF type = 9 THEN classify_video(p) ELSE classify_audio(p)
    IN  IF \/ type \notin {8, 9} \/ info.force_stream
           \/ info.cls \in {"SequenceHeader", "Metadata", "Control"}
        THEN "Stream" ELSE "Auto"

\* What the egress gateway and the relay keep for later players.
is_init(type, p) ==
    \/ type \in {15, 18}
    \/ type = 8 /\ classify_audio(p).cls = "SequenceHeader"
    \/ type = 9 /\ classify_video(p).cls = "SequenceHeader"
=============================================================================
