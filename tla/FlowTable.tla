------------------------------ MODULE FlowTable -------------------------------
(***************************************************************************)
(* FlowTable (core/src/flow_table.cpp): the life of every Flow ID and the  *)
(* bounded buffer of frames whose flow is not bound yet.                   *)
(*                                                                         *)
(* The code keeps the buffered frames of all flows in one deque; only the  *)
(* order within one flow, the total number of frames and the total number  *)
(* of octets can be observed, so unknown[f] is the deque's subsequence for *)
(* flow f and the totals are sums over the flows.                          *)
(***************************************************************************)
EXTENDS Integers, Sequences, FiniteSets

CONSTANTS
    Flows,        \* Flow IDs that are used
    Flow0,        \* the default RTMP session flow, ID 0
    Sizes,        \* payload sizes
    MaxFrames,    \* FlowTableLimits::max_unknown_frames
    MaxOctets     \* FlowTableLimits::max_unknown_octets

ASSUME FlowAssumption == Flow0 \in Flows
ASSUME LimitAssumption ==
    MaxFrames \in Nat /\ MaxOctets \in Nat /\ Sizes \subseteq Nat

VARIABLES
    states,         \* states_, "Unknown" where the map has no entry
    unknown,        \* unknown_, by flow
    unknown_octets  \* unknown_octets_

tableVars == <<states, unknown, unknown_octets>>

FlowStates == {"Unknown", "Active", "Retired"}

TableInit ==
    /\ states = [f \in Flows |-> IF f = Flow0 THEN "Active" ELSE "Unknown"]
    /\ unknown = [f \in Flows |-> <<>>]
    /\ unknown_octets = 0

\* What is buffered, all flows together: the frames, as <<flow, position>>, and
\* the octets of their payloads, as <<frame, position>>.  unknown_.size() counts
\* the frames, and unknown_octets_ is meant to count the octets.
BufferedFrames == UNION {{f} \X DOMAIN unknown[f] : f \in Flows}
OctetsOf(f) == UNION {{<<f, i>>} \X (1..unknown[f][i].size) : i \in DOMAIN unknown[f]}
BufferedOctets == UNION {OctetsOf(f) : f \in Flows}

-----------------------------------------------------------------------------

\* take_buffered(): the caller gets unknown[f], in arrival order.
TakeBuffered(f) ==
    /\ unknown' = [unknown EXCEPT ![f] = <<>>]
    /\ unknown_octets' = unknown_octets - Cardinality(OctetsOf(f))

\* activate() returns false, and changes nothing, for a retired flow.
CanActivate(f) == states[f] # "Retired"

Activate(f) ==
    states' = IF CanActivate(f) THEN [states EXCEPT ![f] = "Active"]
                                ELSE states

\* retire() also drops what is buffered for the flow.
Retire(f) ==
    /\ states' = [states EXCEPT ![f] = "Retired"]
    /\ TakeBuffered(f)

\* Mutant of HasRoom: one frame too many.
HasRoomOffByOne(frame) ==
    /\ Cardinality(BufferedFrames) <= MaxFrames
    /\ frame.size <= MaxOctets - unknown_octets

\* buffer_unknown() refuses a frame that breaks either limit.
HasRoom(frame) ==
    /\ Cardinality(BufferedFrames) < MaxFrames
    /\ frame.size <= MaxOctets - unknown_octets

BufferUnknown(f, frame) ==
    /\ unknown' = IF HasRoom(frame) THEN [unknown EXCEPT ![f] = Append(@, frame)]
                                    ELSE unknown
    /\ unknown_octets' = IF HasRoom(frame) THEN unknown_octets + frame.size
                                           ELSE unknown_octets

-----------------------------------------------------------------------------
(* Properties.                                                             *)

\* The octet counter is exactly what is buffered, and both limits hold, over
\* all flows together: the unsigned subtractions in buffer_unknown() and
\* take_buffered() never wrap.
BufferAccounting ==
    /\ unknown_octets = Cardinality(BufferedOctets)
    /\ unknown_octets \in 0..MaxOctets
    /\ Cardinality(BufferedFrames) <= MaxFrames
=============================================================================
