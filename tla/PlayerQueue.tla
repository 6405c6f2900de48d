------------------------------ MODULE PlayerQueue ------------------------------
(***************************************************************************)
(* PlayerQueue (gateway/src/player_queue.cpp): the bounded queue between   *)
(* the egress gateway's network thread and its writer thread.  Every       *)
(* method is one critical section of mutex_.                               *)
(***************************************************************************)
EXTENDS Integers, Sequences, FiniteSetsExt, Functions

CONSTANT
    MaxMessages     \* max_

ASSUME QueueAssumption == MaxMessages \in Nat \ {0}

VARIABLES
    queue,          \* queue_: entries with a field kind, "Init" or "Coded"
    dropped,        \* dropped_
    queue_closed    \* closed_

playerQueueVars == <<queue, dropped, queue_closed>>

PlayerQueueInit == queue = <<>> /\ dropped = 0 /\ queue_closed = FALSE

IsCoded(entry) == entry.kind = "Coded"
HasCoded(q)    == \E i \in DOMAIN q : IsCoded(q[i])
FirstCoded(q)  == Min({i \in DOMAIN q : IsCoded(q[i])})

-----------------------------------------------------------------------------

\* Mutant of Evict: the oldest entry goes, whatever it is.
EvictFront(q) == Tail(q)

\* The oldest coded entry makes room.
Evict(q) ==
    SubSeq(q, 1, FirstCoded(q) - 1) \o SubSeq(q, FirstCoded(q) + 1, Len(q))

\* Mutant of Push: the new entry takes the slot of the evicted one.
PushIntoSlot(entry) ==
    /\ UNCHANGED queue_closed
    /\ IF queue_closed THEN UNCHANGED <<queue, dropped>>
       ELSE IF Len(queue) < MaxMessages
       THEN queue' = Append(queue, entry) /\ UNCHANGED dropped
       ELSE /\ dropped' = dropped + 1
            /\ queue' = IF HasCoded(queue)
                        THEN [queue EXCEPT ![FirstCoded(queue)] = entry]
                        ELSE queue

\* push().
Push(entry) ==
    /\ UNCHANGED queue_closed
    /\ IF queue_closed THEN UNCHANGED <<queue, dropped>>
       ELSE IF Len(queue) < MaxMessages
       THEN queue' = Append(queue, entry) /\ UNCHANGED dropped
       ELSE /\ dropped' = dropped + 1
            /\ queue' = IF HasCoded(queue) THEN Append(Evict(queue), entry)
                                           ELSE queue

\* pop(), once there is something to return: the caller gets Head(queue).
Pop ==
    /\ queue # <<>>
    /\ queue' = Tail(queue)
    /\ UNCHANGED <<dropped, queue_closed>>

\* pop() returns nullopt.
Drained == queue = <<>> /\ queue_closed

CloseQueue == queue_closed' = TRUE /\ UNCHANGED <<queue, dropped>>

\* clear() is a flush, which `dropped` does not count.
Clear == queue' = <<>> /\ UNCHANGED <<dropped, queue_closed>>
=============================================================================
