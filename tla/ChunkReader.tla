----------------------------- MODULE ChunkReader -----------------------------
(***************************************************************************)
(* rtmp::ChunkReader (rtmp/src/chunk_reader.cpp).  A chunk is taken in two *)
(* steps, for what parse() does when its header has been buffered and when *)
(* its body has; with less than a header buffered parse() changes nothing. *)
(* An octet of payload is the message it belongs to.                       *)
(***************************************************************************)
EXTENDS ChunkFormat

CONSTANTS
    kMaxMessageSize,    \* the longest message that is assembled
    kMaxOutstanding     \* the most that all messages being assembled may hold

ASSUME ReaderAssumption == kMaxMessageSize \in Nat /\ kMaxOutstanding \in Nat

VARIABLES
    streams,            \* streams_, by chunk stream
    chunk_size, assembling_bytes, failed,
    ready,              \* all that was put in ready_; next() takes it in order
    pending             \* the chunk in buffer_ whose body is not complete, if any

readerVars == <<streams, chunk_size, assembling_bytes, failed, ready, pending>>

\* CsidState as it is created.
Fresh == [timestamp |-> 0, delta |-> 0, length |-> 0, type |-> "none", msid |-> 0,
          extended |-> FALSE, have_header |-> FALSE, assembling |-> <<>>,
          remaining |-> 0]

ReaderInit ==
    /\ streams = [c \in Csids |-> Fresh]
    /\ chunk_size = kDefaultChunkSize
    /\ assembling_bytes = 0 /\ failed = FALSE
    /\ ready = <<>> /\ pending = <<>>

-----------------------------------------------------------------------------
(* What the reader makes of a chunk's header.  A chunk has fmt and csid;   *)
(* field, length, type and msid as far as its fmt has them; ext, used when *)
(* there is an extended timestamp; and its body, octets of the message of. *)

Smaller(a, b) == IF a < b THEN a ELSE b

StartingNew(ch) == streams[ch.csid].remaining = 0

Extended(ch) == IF ch.fmt <= 2 THEN ch.field = Ext ELSE streams[ch.csid].extended

Stamp(ch) == IF Extended(ch) THEN ch.ext ELSE ch.field

NewLength(ch) == IF ch.fmt <= 1 THEN ch.length ELSE streams[ch.csid].length

ProspectiveRemaining(ch) ==
    IF StartingNew(ch) THEN NewLength(ch) ELSE streams[ch.csid].remaining

Take(ch) == Smaller(ProspectiveRemaining(ch), chunk_size)

\* Mutant of Refused: the aggregate cap is checked against what has started.
RefusedOffByOne(ch) ==
    \/ ch.fmt = 3 /\ ~streams[ch.csid].have_header
    \/ /\ StartingNew(ch)
       /\ \/ ProspectiveRemaining(ch) > kMaxMessageSize
          \/ assembling_bytes >= kMaxOutstanding

Refused(ch) ==
    \/ ch.fmt = 3 /\ ~streams[ch.csid].have_header
    \/ /\ StartingNew(ch)
       /\ \/ ProspectiveRemaining(ch) > kMaxMessageSize
          \/ assembling_bytes + ProspectiveRemaining(ch) > kMaxOutstanding

\* The header is buffered: the chunk is refused, or its body awaited.
Header(ch) ==
    /\ ~failed /\ pending = <<>>
    /\ IF Refused(ch) THEN failed' = TRUE /\ UNCHANGED pending
                      ELSE pending' = <<ch>> /\ UNCHANGED failed
    /\ UNCHANGED <<streams, chunk_size, assembling_bytes, ready>>

-----------------------------------------------------------------------------
(* The body is buffered.                                                   *)

Plus(a, b) == (a + b) % StampRange

\* Mutant of AddsDelta: a continuation that starts a message adds no delta.
AddsDeltaInHeader(ch) == ch.fmt \in {1, 2}

\* A fmt3 chunk that starts a message applies the stored delta again.
AddsDelta(ch) == ch.fmt \in {1, 2} \/ (ch.fmt = 3 /\ StartingNew(ch))

\* The chunk stream with the header committed and the body added.
Commit(ch) ==
    LET st    == streams[ch.csid]
        delta == CASE ch.fmt = 0 -> 0 [] ch.fmt \in {1, 2} -> Stamp(ch)
                   [] ch.fmt = 3 -> st.delta
    IN  [st EXCEPT
           !.delta = delta,
           !.timestamp = CASE ch.fmt = 0 -> Stamp(ch)
                           [] AddsDelta(ch) -> Plus(@, delta)
                           [] OTHER -> @,
           !.length = NewLength(ch),
           !.type = IF ch.fmt <= 1 THEN ch.type ELSE @,
           !.msid = IF ch.fmt = 0 THEN ch.msid ELSE @,
           !.extended = Extended(ch),
           !.have_header = TRUE,
           !.assembling = (IF StartingNew(ch) THEN <<>> ELSE @)
                             \o [i \in 1..Take(ch) |-> ch.of],
           !.remaining = ProspectiveRemaining(ch) - Take(ch)]

Message(csid, st) ==
    [csid |-> csid, timestamp |-> st.timestamp, type |-> st.type, msid |-> st.msid,
     payload |-> st.assembling]

Done(st) == [st EXCEPT !.assembling = <<>>]

\* The budget that an incomplete message holds.
Committed(st) == Len(st.assembling) + st.remaining

Dropped(st) == [st EXCEPT !.assembling = <<>>, !.remaining = 0, !.have_header = FALSE]

Less(a, b) == a - Smaller(a, b)

\* finalize(), with the budget held when it is called.  The value 0 stands for
\* every chunk size that is not accepted.
Finalize(csid, st, held) ==
    LET m     == Message(csid, st)
        freed == Less(held, Len(m.payload))
        after == [streams EXCEPT ![csid] = Done(st)]
        control(type) == m.type = type /\ Len(m.payload) >= ControlLength
        value == m.payload[1].value
    IN  IF control("set_chunk_size") /\ value = 0
        THEN /\ failed' = TRUE
             /\ streams' = after /\ assembling_bytes' = freed
             /\ UNCHANGED <<chunk_size, ready>>
        ELSE /\ chunk_size' = IF control("set_chunk_size") THEN value ELSE chunk_size
             /\ IF control("abort") /\ value \in Csids
                THEN /\ streams' = [after EXCEPT ![value] = Dropped(@)]
                     /\ assembling_bytes' = Less(freed, Committed(after[value]))
                ELSE streams' = after /\ assembling_bytes' = freed
             /\ ready' = Append(ready, m)
             /\ UNCHANGED failed

Body ==
    /\ ~failed /\ pending # <<>>
    /\ LET ch   == pending[1]
           st   == Commit(ch)
           held == assembling_bytes
                     + IF StartingNew(ch) THEN ProspectiveRemaining(ch) ELSE 0
       IN  IF st.remaining = 0 THEN Finalize(ch.csid, st, held)
           ELSE /\ streams' = [streams EXCEPT ![ch.csid] = st]
                /\ assembling_bytes' = held
                /\ UNCHANGED <<chunk_size, failed, ready>>
    /\ pending' = <<>>

-----------------------------------------------------------------------------
(* Properties.                                                             *)

\* The octets of incomplete messages, here or still to come, as <<chunk stream,
\* position>>.
Outstanding == UNION {{c} \X (1..Committed(streams[c])) : c \in Csids}

\* assembling_bytes_ is what the incomplete messages hold, no more and no
\* less, whatever chunks arrive, aborts and header changes amid a message
\* included; and it never passes kMaxOutstanding.
BudgetExact ==
    /\ assembling_bytes = Cardinality(Outstanding)
    /\ assembling_bytes <= kMaxOutstanding
=============================================================================
