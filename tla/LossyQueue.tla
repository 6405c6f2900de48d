------------------------------ MODULE LossyQueue ------------------------------
(***************************************************************************)
(* What PlayerQueue promises the two threads that share it: a bounded FIFO *)
(* that never holds up the one that fills it.  When it is full it loses    *)
(* the coded entry that has waited longest, and never an Init entry it     *)
(* holds; every loss is counted; what it holds is handed out in the order  *)
(* it came, or thrown away as a whole.  Once closed it takes nothing.      *)
(***************************************************************************)
EXTENDS Naturals, Sequences

CONSTANTS
    Entries,        \* records with a field kind, "Init" or "Coded"
    Bound           \* how many it holds

VARIABLES
    items, lost, closed

lossyVars == <<items, lost, closed>>

Init == items = <<>> /\ lost = 0 /\ closed = FALSE

\* The queue without what is at position i.
Without(i) == SubSeq(items, 1, i - 1) \o SubSeq(items, i + 1, Len(items))

OldestCoded(i) ==
    /\ i \in DOMAIN items /\ items[i].kind = "Coded"
    /\ \A j \in 1..(i - 1) : items[j].kind = "Init"

Enter(e) ==
    /\ Len(items) < Bound
    /\ items' = Append(items, e)
    /\ UNCHANGED lost

Displace(e) ==
    /\ Len(items) = Bound
    /\ \E i \in DOMAIN items : OldestCoded(i) /\ items' = Append(Without(i), e)
    /\ lost' = lost + 1

Refuse ==
    /\ Len(items) = Bound /\ \A i \in DOMAIN items : items[i].kind = "Init"
    /\ lost' = lost + 1
    /\ UNCHANGED items

Offer(e) == ~closed /\ (Enter(e) \/ Displace(e) \/ Refuse) /\ UNCHANGED closed

HandOut == items # <<>> /\ items' = Tail(items) /\ UNCHANGED <<lost, closed>>

Flush == items' = <<>> /\ UNCHANGED <<lost, closed>>

Close == closed' = TRUE /\ UNCHANGED <<items, lost>>

Next == (\E e \in Entries : Offer(e)) \/ HandOut \/ Flush \/ Close

Spec == Init /\ [][Next]_lossyVars
=============================================================================
