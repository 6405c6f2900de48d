------------------------------- MODULE Timeline -------------------------------
(***************************************************************************)
(* The gap tracker over a whole video timeline: what accept() says of each *)
(* frame, beside the rule that gap.hpp states for it.                      *)
(***************************************************************************)
EXTENDS GapTracker

VARIABLE timeline   \* history of the gap tracker: [ts, cls, accepted]

timelineVars == <<gapVars, timeline>>

TimelineInit == GapInit /\ timeline = <<>>

\* A video frame reaches the gap tracker.
TrackFrame(ts, cls) ==
    /\ Track(ts, cls)
    /\ timeline' = Append(timeline, [ts |-> ts, cls |-> cls, accepted |-> Accepts(ts, cls)])

TimelineSpec ==
    /\ TimelineInit
    /\ [][\E ts \in Timestamps, cls \in VideoClasses : TrackFrame(ts, cls)]_timelineVars

-----------------------------------------------------------------------------
(* Properties.                                                             *)

\* The rule that gap.hpp states, over the whole history: frame n lies
\* after a gap when some frame m up to it broke the timeline and none from m on
\* lets the decoder recover.
BrokenAt(n) ==
    \E m \in 2..n :
        /\ \/ timeline[m].ts < timeline[m - 1].ts
           \/ timeline[m].ts - timeline[m - 1].ts > JumpThreshold
        /\ \A k \in m..n : ~Recovers(timeline[k].cls)

\* accept() lets exactly the frames through that do not lie after a gap, also
\* when a timestamp is near the end of its range.
GapExact == \A n \in DOMAIN timeline : timeline[n].accepted <=> ~BrokenAt(n)
=============================================================================
