------------------------------ MODULE GapTracker ------------------------------
(***************************************************************************)
(* GapTracker (gateway/include/roqr/gateway/gap.hpp): continuity of one    *)
(* video timeline.  After a suspected gap, frames are dropped until one    *)
(* that the decoder can start from.                                        *)
(***************************************************************************)
EXTENDS Integers, Sequences

CONSTANTS
    Timestamps,     \* timestamps that occur, all below TimestampRange
    TimestampRange, \* 2^32 for the code's uint32_t
    JumpThreshold   \* kJumpThreshold

ASSUME TimestampAssumption ==
    /\ TimestampRange \in Nat /\ JumpThreshold \in Nat
    /\ Timestamps \subseteq 0..(TimestampRange - 1)

VARIABLES
    have,           \* have_
    last_ts,        \* last_ts_
    discontinuous   \* discontinuous_

gapVars == <<have, last_ts, discontinuous>>

GapInit == have = FALSE /\ last_ts = 0 /\ discontinuous = FALSE

VideoClasses == {"Keyframe", "SequenceHeader", "Inter"}
Recovers(cls) == cls \in {"Keyframe", "SequenceHeader"}

-----------------------------------------------------------------------------

\* Mutant of Jumped: the sum is computed in the width of a timestamp.
JumpedNarrow(ts) == ts > (last_ts + JumpThreshold) % TimestampRange

\* The sum is computed in 64 bits and does not wrap.
Jumped(ts) == ts > last_ts + JumpThreshold

\* discontinuous_ as accept() finds it, after it has looked at the timestamp.
GapAt(ts) == discontinuous \/ (have /\ (ts < last_ts \/ Jumped(ts)))

\* What accept() returns.
Accepts(ts, cls) == ~GapAt(ts) \/ Recovers(cls)

\* What accept() changes.
Track(ts, cls) ==
    /\ have' = TRUE
    /\ last_ts' = ts
    /\ discontinuous' = (GapAt(ts) /\ ~Recovers(cls))
=============================================================================
