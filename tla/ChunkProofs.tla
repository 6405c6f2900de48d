----------------------------- MODULE ChunkProofs -----------------------------
(***************************************************************************)
(* Proofs about ChunkStream, for any chunk streams, lengths, timestamps,   *)
(* chunk sizes and limits: the reader's budget against any sender at all   *)
(* (BudgetInv), and that what a writer or a peer sends is decoded as it    *)
(* was sent (WriterInv, LongInv, PeerInv).                                 *)
(***************************************************************************)
EXTENDS ChunkStream, FiniteSetTheorems, SequenceTheorems, TLAPS

\* The provers to try, with time enough for the larger steps.
USE ZenonT(60), SMTT(60)

Types == {"media", "abort", "set_chunk_size"}

\* All messages, whoever sends them.
Messages ==
    [csid : Csids, timestamp : 0..(StampRange - 1), type : Types,
     msid : Msids \cup {0}, length : Nat, value : Nat]

\* Messages that a writer writes and the reader refuses.
Long == {m \in AnyMedia : m.length > kMaxMessageSize}

\* The messages that may be completed.
Sendable(who) == IF who = "writer" THEN Media \cup Control \cup Long ELSE Media \cup Control

\* What the reader looks at in a chunk.
Readable(ch) ==
    /\ ch.fmt \in 0..3 /\ ch.csid \in Csids /\ ch.field \in Nat /\ ch.ext \in Nat
    /\ ch.length \in Nat /\ ch.type \in Types /\ ch.msid \in Msids \cup {0}
    /\ ch.of \in Messages

StreamStates ==
    [timestamp : Nat, delta : Nat, length : Nat, type : Types \cup {"none"},
     msid : Msids \cup {0}, extended : BOOLEAN, have_header : BOOLEAN,
     assembling : Seq(Messages), remaining : Nat]

ReaderTypes ==
    /\ streams \in [Csids -> StreamStates]
    /\ chunk_size \in Nat \ {0} /\ assembling_bytes \in Nat /\ failed \in BOOLEAN
    /\ pending = <<>> \/ (Len(pending) = 1 /\ Readable(pending[1]))

\* The chunks of the three senders.
AnyChunks ==
    [fmt : 0..3, csid : Csids, field : Nat, ext : Nat, length : Nat, type : Types,
     msid : Msids \cup {0}, of : Messages]

WriterChunks ==
    [fmt : {0, 3}, csid : Csids, field : Nat, ext : Nat, has_ext : BOOLEAN, length : Nat,
     type : Types, msid : Msids \cup {0}, octets : Nat, of : Sendable("writer")]

PeerChunks ==
    [fmt : 0..3, csid : Csids, field : Nat, ext : Nat, has_ext : BOOLEAN, length : Nat,
     type : Types, msid : Msids \cup {0}, octets : Nat, of : Media \cup Control, delta : Nat]

ChunksOf(who) ==
    CASE who = "any" -> AnyChunks [] who = "writer" -> WriterChunks [] who = "peer" -> PeerChunks

PeerStates == [header : {<<>>} \cup {<<ch>> : ch \in PeerChunks}, left : Nat]

SenderTypes ==
    /\ sender \in {"writer", "peer", "any"}
    /\ wire \in Seq(ChunksOf(sender)) /\ pending \in Seq(ChunksOf(sender))
    /\ size \in Nat \ {0} /\ sent \in Seq(Sendable(sender))
    /\ peer \in [Csids -> PeerStates]
    /\ \A c \in Csids : peer[c].left > 0 => peer[c].header # <<>>

-----------------------------------------------------------------------------
(* Numbers and sequences.                                                  *)

\* A timestamp in range is its own remainder.
LEMMA InRange ==
    ASSUME NEW R \in Nat, NEW x \in 0..(R - 1) PROVE x % R = x
  BY SMTT(60)

\* Adding the difference of two timestamps to the first gives the second, also
\* when it wraps.
LEMMA DeltaAdds ==
    ASSUME NEW R \in Nat, NEW x \in 0..(R - 1), NEW y \in 0..(R - 1)
    PROVE  (x + ((y - x) % R)) % R = y
<1>1. CASE y >= x
  <2>1. (y - x) % R = y - x
    BY <1>1, InRange, SMTT(60)
  <2>2. QED
    BY <2>1, InRange, SMTT(60)
<1>2. CASE y < x
  <2>1. (y - x) % R = y - x + R
    BY <1>2, SMTT(60)
  <2>2. (x + (y - x + R)) % R = y
    BY <1>2, SMTT(60)
  <2>3. QED
    BY <2>1, <2>2
<1>3. QED
  BY <1>1, <1>2, SMTT(60)

\* Octets of one message follow octets of the same message.
LEMMA Longer ==
    ASSUME NEW m, NEW a \in Nat, NEW b \in Nat
    PROVE  [i \in 1..a |-> m] \o [i \in 1..b |-> m] = [i \in 1..(a + b) |-> m]
  BY SMTT(60)

-----------------------------------------------------------------------------
(* The stream state that a chunk leaves.                                   *)

LEMMA TakeBounds ==
    ASSUME ReaderTypes, NEW ch, Readable(ch)
    PROVE  /\ ProspectiveRemaining(ch) \in Nat /\ Take(ch) \in Nat
           /\ Take(ch) <= ProspectiveRemaining(ch)
           /\ Extended(ch) \in BOOLEAN /\ Stamp(ch) \in Nat /\ NewLength(ch) \in Nat
<1>1. streams[ch.csid] \in StreamStates
  BY DEF ReaderTypes, Readable
<1>2. Extended(ch) \in BOOLEAN /\ Stamp(ch) \in Nat
  BY <1>1 DEF Extended, Stamp, Readable, StreamStates
<1>3. NewLength(ch) \in Nat /\ ProspectiveRemaining(ch) \in Nat
  BY <1>1 DEF NewLength, ProspectiveRemaining, Readable, StreamStates
<1>4. chunk_size \in Nat
  BY DEF ReaderTypes
<1>5. QED
  BY <1>2, <1>3, <1>4, SMTT(60) DEF Take, Smaller

\* The parts of Commit(ch), one by one.
CommitsTo(ch, st, after) ==
    /\ after.delta = IF ch.fmt = 0 THEN 0 ELSE IF ch.fmt = 3 THEN st.delta ELSE Stamp(ch)
    /\ after.timestamp = IF ch.fmt = 0 THEN Stamp(ch)
                         ELSE IF AddsDelta(ch) THEN Plus(st.timestamp, after.delta)
                         ELSE st.timestamp
    /\ after.length = NewLength(ch)
    /\ after.type = IF ch.fmt <= 1 THEN ch.type ELSE st.type
    /\ after.msid = IF ch.fmt = 0 THEN ch.msid ELSE st.msid
    /\ after.extended = Extended(ch) /\ after.have_header = TRUE
    /\ after.assembling = (IF StartingNew(ch) THEN <<>> ELSE st.assembling)
                             \o [i \in 1..Take(ch) |-> ch.of]
    /\ after.remaining = ProspectiveRemaining(ch) - Take(ch)

LEMMA CommitParts ==
    ASSUME ReaderTypes, NEW ch, Readable(ch), NEW st, st = streams[ch.csid],
           NEW after, after = Commit(ch)
    PROVE  CommitsTo(ch, st, after) /\ after \in StreamStates
<1>1. st \in StreamStates /\ ch.fmt \in 0..3 /\ ch.of \in Messages /\ ch.type \in Types
      /\ ch.msid \in Msids \cup {0}
  BY DEF ReaderTypes, Readable
<1>2. PICK d : d = CASE ch.fmt = 0 -> 0 [] ch.fmt \in {1, 2} -> Stamp(ch) [] ch.fmt = 3 -> st.delta
  OBVIOUS
<1>3. d = IF ch.fmt = 0 THEN 0 ELSE IF ch.fmt = 3 THEN st.delta ELSE Stamp(ch)
  BY <1>1, <1>2, SMTT(60)
<1>4. PICK t : t = CASE ch.fmt = 0 -> Stamp(ch) [] AddsDelta(ch) -> Plus(st.timestamp, d)
                     [] OTHER -> st.timestamp
  OBVIOUS
<1>5. t = IF ch.fmt = 0 THEN Stamp(ch)
          ELSE IF AddsDelta(ch) THEN Plus(st.timestamp, d) ELSE st.timestamp
  <2>1. ch.fmt = 0 => ~AddsDelta(ch)
    BY SMTT(60) DEF AddsDelta
  <2>2. QED
    BY <1>4, <2>1
<1>6. PICK a : a = (IF StartingNew(ch) THEN <<>> ELSE st.assembling)
                      \o [i \in 1..Take(ch) |-> ch.of]
  OBVIOUS
<1>7. after = [st EXCEPT
           !.delta = d, !.timestamp = t, !.length = NewLength(ch),
           !.type = IF ch.fmt <= 1 THEN ch.type ELSE @,
           !.msid = IF ch.fmt = 0 THEN ch.msid ELSE @,
           !.extended = Extended(ch), !.have_header = TRUE, !.assembling = a,
           !.remaining = ProspectiveRemaining(ch) - Take(ch)]
  BY <1>2, <1>4, <1>6 DEF Commit
<1>8. /\ d \in Nat /\ t \in Nat /\ a \in Seq(Messages)
      /\ ProspectiveRemaining(ch) - Take(ch) \in Nat
  <2>1. d \in Nat
    BY <1>1, <1>3, TakeBounds DEF StreamStates
  <2>2. st.timestamp \in Nat /\ StampRange \in Nat \ {0}
    BY <1>1, FormatAssumption, SMTT(60) DEF StreamStates
  <2>3. t \in Nat
    BY <1>5, <2>1, <2>2, TakeBounds, SMTT(60) DEF Plus
  <2>4. /\ (IF StartingNew(ch) THEN <<>> ELSE st.assembling) \in Seq(Messages)
        /\ [i \in 1..Take(ch) |-> ch.of] \in Seq(Messages)
    BY <1>1, TakeBounds, SMTT(60) DEF StreamStates
  <2>5. a \in Seq(Messages)
    BY <1>6, <2>4, SMTT(60)
  <2>6. QED
    BY <2>1, <2>3, <2>5, TakeBounds, SMTT(60)
<1>9. PICK l, y, i, e, r : /\ l = NewLength(ch) /\ y = (IF ch.fmt <= 1 THEN ch.type ELSE st.type)
                           /\ i = (IF ch.fmt = 0 THEN ch.msid ELSE st.msid)
                           /\ e = Extended(ch) /\ r = ProspectiveRemaining(ch) - Take(ch)
  OBVIOUS
<1>10. l \in Nat /\ y \in Types \cup {"none"} /\ i \in Msids \cup {0} /\ e \in BOOLEAN /\ r \in Nat
  BY <1>1, <1>8, <1>9, TakeBounds DEF StreamStates
<1>11. after = [timestamp |-> t, delta |-> d, length |-> l, type |-> y, msid |-> i,
                extended |-> e, have_header |-> TRUE, assembling |-> a, remaining |-> r]
  BY <1>1, <1>7, <1>9 DEF StreamStates
<1>12. /\ after.delta = d /\ after.timestamp = t /\ after.length = l /\ after.type = y
       /\ after.msid = i /\ after.extended = e /\ after.have_header = TRUE
       /\ after.assembling = a /\ after.remaining = r /\ after \in StreamStates
  BY <1>8, <1>10, <1>11, SMTT(60) DEF StreamStates
<1>13. after.timestamp = IF ch.fmt = 0 THEN Stamp(ch)
                         ELSE IF AddsDelta(ch) THEN Plus(st.timestamp, after.delta)
                         ELSE st.timestamp
  BY <1>5, <1>12
<1>14. after.delta = IF ch.fmt = 0 THEN 0 ELSE IF ch.fmt = 3 THEN st.delta ELSE Stamp(ch)
  BY <1>3, <1>12
<1>15. /\ after.length = NewLength(ch)
       /\ after.type = IF ch.fmt <= 1 THEN ch.type ELSE st.type
       /\ after.msid = IF ch.fmt = 0 THEN ch.msid ELSE st.msid
       /\ after.extended = Extended(ch)
       /\ after.remaining = ProspectiveRemaining(ch) - Take(ch)
  BY <1>9, <1>12
<1>16. after.assembling = (IF StartingNew(ch) THEN <<>> ELSE st.assembling)
                             \o [j \in 1..Take(ch) |-> ch.of]
  BY <1>6, <1>12
<1>17. QED
  BY <1>12, <1>13, <1>14, <1>15, <1>16 DEF CommitsTo

\* What Body makes of a chunk, with the stream state st it leaves and the budget
\* held: the message goes on, or it is complete and is a chunk size that is not
\* accepted, an abort, or anything else.
Continued(ch, st, held) ==
    /\ st.remaining # 0 /\ streams' = [streams EXCEPT ![ch.csid] = st]
    /\ assembling_bytes' = held /\ UNCHANGED <<chunk_size, failed, ready>>

Completed(ch, st, after) ==
    /\ st.remaining = 0 /\ after = [streams EXCEPT ![ch.csid] = Done(st)]

Controls(st, type) == st.type = type /\ Len(st.assembling) >= ControlLength

BadSize(st, after, freed, value) ==
    /\ Controls(st, "set_chunk_size") /\ value = 0
    /\ streams' = after /\ assembling_bytes' = freed
    /\ failed' = TRUE /\ UNCHANGED <<chunk_size, ready>>

Aborted(ch, st, after, freed, value) ==
    /\ Controls(st, "abort") /\ value \in Csids
    /\ streams' = [after EXCEPT ![value] = Dropped(@)]
    /\ assembling_bytes' = Less(freed, Committed(after[value]))
    /\ ready' = Append(ready, Message(ch.csid, st))
    /\ UNCHANGED <<chunk_size, failed>>

Given(ch, st, after, freed, value) ==
    /\ ~(Controls(st, "abort") /\ value \in Csids)
    /\ streams' = after /\ assembling_bytes' = freed
    /\ IF Controls(st, "set_chunk_size") THEN chunk_size' = value /\ value # 0
                                         ELSE chunk_size' = chunk_size
    /\ ready' = Append(ready, Message(ch.csid, st))
    /\ UNCHANGED failed

\* What Body starts from, with names for its parts.
BodyOf(ch, st, held, after, freed, value) ==
    /\ ch = pending[1] /\ st = Commit(ch)
    /\ held = assembling_bytes + IF StartingNew(ch) THEN ProspectiveRemaining(ch) ELSE 0
    /\ after = [streams EXCEPT ![ch.csid] = Done(st)]
    /\ freed = Less(held, Len(st.assembling))
    /\ value = st.assembling[1].value

LEMMA BodyCases ==
    ASSUME Body, NEW ch, NEW st, NEW held, NEW after, NEW freed, NEW value,
           BodyOf(ch, st, held, after, freed, value)
    PROVE  /\ pending # <<>> /\ ~failed /\ pending' = <<>>
           /\ \/ Continued(ch, st, held)
              \/ /\ Completed(ch, st, after)
                 /\ \/ BadSize(st, after, freed, value)
                    \/ Aborted(ch, st, after, freed, value)
                    \/ Given(ch, st, after, freed, value)
<1>1. /\ Message(ch.csid, st).payload = st.assembling
      /\ Message(ch.csid, st).type = st.type
  BY DEF Message
<1>2. /\ pending # <<>> /\ ~failed /\ pending' = <<>>
      /\ IF st.remaining = 0 THEN Finalize(ch.csid, st, held)
         ELSE /\ streams' = [streams EXCEPT ![ch.csid] = st]
              /\ assembling_bytes' = held
              /\ UNCHANGED <<chunk_size, failed, ready>>
  BY DEF Body, BodyOf
<1>3. CASE st.remaining # 0
  BY <1>2, <1>3 DEF Continued
<1>4. CASE st.remaining = 0
  <2>1. Finalize(ch.csid, st, held)
    BY <1>2, <1>4
  <2>2. Completed(ch, st, after)
    BY <1>4 DEF Completed, BodyOf
  <2>2a. /\ after = [streams EXCEPT ![ch.csid] = Done(st)]
         /\ freed = Less(held, Len(st.assembling)) /\ value = st.assembling[1].value
    BY DEF BodyOf
  <2>3. CASE Controls(st, "set_chunk_size") /\ value = 0
    BY <1>1, <1>2, <2>1, <2>2, <2>2a, <2>3 DEF Finalize, Controls, BadSize
  <2>4. CASE Controls(st, "abort") /\ value \in Csids
    BY <1>1, <1>2, <2>1, <2>2, <2>2a, <2>4 DEF Finalize, Controls, Aborted
  <2>5. CASE /\ ~(Controls(st, "set_chunk_size") /\ value = 0)
             /\ ~(Controls(st, "abort") /\ value \in Csids)
    BY <1>1, <1>2, <2>1, <2>2, <2>2a, <2>5 DEF Finalize, Controls, Given
  <2>6. QED
    BY <1>2, <2>2, <2>3, <2>4, <2>5
<1>5. QED
  BY <1>2, <1>3, <1>4

\* Completing or dropping a message leaves a stream state.
LEMMA CompleteTypes ==
    ASSUME NEW st \in StreamStates
    PROVE  /\ Done(st) \in StreamStates /\ Dropped(st) \in StreamStates
           /\ Done(st).assembling = <<>> /\ Done(st).remaining = st.remaining
           /\ Dropped(st).assembling = <<>> /\ Dropped(st).remaining = 0
           /\ Committed(st) \in Nat
<1>1. <<>> \in Seq(Messages)
  BY SMTT(60)
<1>2. /\ Done(st) \in StreamStates
      /\ Done(st).assembling = <<>> /\ Done(st).remaining = st.remaining
  BY <1>1 DEF Done, StreamStates
<1>3. /\ Dropped(st) \in StreamStates
      /\ Dropped(st).assembling = <<>> /\ Dropped(st).remaining = 0
  BY <1>1 DEF Dropped, StreamStates
<1>4. Committed(st) \in Nat
  BY SMTT(60) DEF Committed, StreamStates
<1>5. QED
  BY <1>2, <1>3, <1>4

\* The reader's types are kept by both of its steps.
LEMMA BodyTypes == ReaderTypes /\ Body => ReaderTypes'
<1> SUFFICES ASSUME ReaderTypes, Body PROVE ReaderTypes'
  OBVIOUS
<1>1. PICK ch, st, held, after, freed, value : BodyOf(ch, st, held, after, freed, value)
  BY DEF BodyOf
<1>2. pending # <<>> /\ pending' = <<>>
  BY DEF Body
<1>3. Readable(ch) /\ ch.csid \in Csids
  BY <1>1, <1>2 DEF ReaderTypes, Readable, BodyOf
<1>4. st \in StreamStates /\ st.assembling \in Seq(Messages) /\ Len(st.assembling) \in Nat
  <2>1. st \in StreamStates
    BY <1>1, <1>3, CommitParts DEF BodyOf
  <2>2. QED
    BY <2>1, SMTT(60) DEF StreamStates
<1>5. /\ streams \in [Csids -> StreamStates] /\ chunk_size \in Nat \ {0}
      /\ assembling_bytes \in Nat /\ failed \in BOOLEAN
  BY DEF ReaderTypes
<1>6. held \in Nat /\ freed \in Nat
  <2>1. held \in Nat
    BY <1>1, <1>3, <1>5, TakeBounds, SMTT(60) DEF BodyOf
  <2>2. QED
    BY <1>1, <1>4, <2>1, SMTT(60) DEF Less, Smaller, BodyOf
<1>7. /\ after \in [Csids -> StreamStates] /\ [streams EXCEPT ![ch.csid] = st] \in [Csids -> StreamStates]
      /\ \A v \in Csids : /\ [after EXCEPT ![v] = Dropped(@)] \in [Csids -> StreamStates]
                          /\ Less(freed, Committed(after[v])) \in Nat
  <2>1. after \in [Csids -> StreamStates]
    BY <1>1, <1>3, <1>4, <1>5, CompleteTypes DEF BodyOf
  <2>2. ASSUME NEW v \in Csids
        PROVE  /\ [after EXCEPT ![v] = Dropped(@)] \in [Csids -> StreamStates]
               /\ Less(freed, Committed(after[v])) \in Nat
    <3>1. after[v] \in StreamStates /\ Dropped(after[v]) \in StreamStates
          /\ Committed(after[v]) \in Nat
      BY <2>1, CompleteTypes
    <3>2. QED
      BY <1>6, <2>1, <3>1, SMTT(60) DEF Less, Smaller
  <2>3. QED
    BY <1>3, <1>4, <1>5, <2>1, <2>2
<1>8. Len(st.assembling) >= ControlLength => value \in Nat
  <2>1. Len(st.assembling) >= ControlLength => st.assembling[1] \in Messages
    BY <1>4, FormatAssumption, SMTT(60)
  <2>2. QED
    BY <1>1, <2>1 DEF Messages, BodyOf
<1>9. /\ streams' \in [Csids -> StreamStates] /\ chunk_size' \in Nat \ {0}
      /\ assembling_bytes' \in Nat /\ failed' \in BOOLEAN
  <2>1. CASE Continued(ch, st, held)
    BY <1>5, <1>6, <1>7, <2>1 DEF Continued
  <2>2. CASE BadSize(st, after, freed, value)
    BY <1>5, <1>6, <1>7, <2>2 DEF BadSize
  <2>3. CASE Aborted(ch, st, after, freed, value)
    BY <1>5, <1>6, <1>7, <2>3 DEF Aborted
  <2>4. CASE Given(ch, st, after, freed, value)
    BY <1>5, <1>6, <1>7, <1>8, <2>4 DEF Given, Controls
  <2>5. QED
    BY <1>1, <2>1, <2>2, <2>3, <2>4, BodyCases
<1>10. QED
  BY <1>2, <1>9 DEF ReaderTypes

-----------------------------------------------------------------------------
(* The budget.                                                             *)

\* The octets that chunk streams hold, h[c] of them each.
HeldBy(h) == UNION {{c} \X (1..h[c]) : c \in Csids}

\* One chunk stream's octets are as many as it holds.
LEMMA OwnOctets ==
    ASSUME NEW c, NEW k \in Nat
    PROVE  IsFiniteSet({c} \X (1..k)) /\ Cardinality({c} \X (1..k)) = k
<1>1. IsFiniteSet({c}) /\ Cardinality({c}) = 1
  BY FS_Singleton
<1>2. IsFiniteSet(1..k) /\ Cardinality(1..k) = k
  BY FS_Interval, SMTT(60)
<1>3. /\ IsFiniteSet({c} \X (1..k))
      /\ Cardinality({c} \X (1..k)) = Cardinality({c}) * Cardinality(1..k)
  BY <1>1, <1>2, FS_Product
<1>4. QED
  BY <1>1, <1>2, <1>3, SMTT(60)

\* What a chunk stream holds is part of the whole, and the whole changes by as
\* much as one of them does.
LEMMA Recount ==
    ASSUME NEW h \in [Csids -> Nat], IsFiniteSet(HeldBy(h)), NEW c \in Csids,
           NEW g \in [Csids -> Nat], \A d \in Csids \ {c} : g[d] = h[d]
    PROVE  /\ IsFiniteSet(HeldBy(g)) /\ Cardinality(HeldBy(h)) \in Nat
           /\ h[c] <= Cardinality(HeldBy(h))
           /\ Cardinality(HeldBy(g)) = Cardinality(HeldBy(h)) - h[c] + g[c]
<1> DEFINE others == UNION {{d} \X (1..h[d]) : d \in Csids \ {c}}
           own(k) == {c} \X (1..k)
<1>1. HeldBy(h) = others \cup own(h[c]) /\ HeldBy(g) = others \cup own(g[c])
  BY DEF HeldBy
<1>2. \A k \in Nat : others \cap own(k) = {}
  BY SMTT(60)
<1>3. \A k \in Nat : IsFiniteSet(own(k)) /\ Cardinality(own(k)) = k
  BY OwnOctets
<1>4. others \subseteq HeldBy(h)
  BY <1>1
<1> HIDE DEF others, own
<1>5. IsFiniteSet(others) /\ Cardinality(others) \in Nat
  BY <1>4, FS_Subset, FS_CardinalityType
<1>6. \A k \in Nat : /\ IsFiniteSet(others \cup own(k))
                     /\ Cardinality(others \cup own(k)) = Cardinality(others) + k
  <2> SUFFICES ASSUME NEW k \in Nat
               PROVE  /\ IsFiniteSet(others \cup own(k))
                      /\ Cardinality(others \cup own(k)) = Cardinality(others) + k
    OBVIOUS
  <2>1. /\ IsFiniteSet(others \cup own(k))
        /\ Cardinality(others \cup own(k))
             = Cardinality(others) + Cardinality(own(k)) - Cardinality(others \cap own(k))
    BY <1>3, <1>5, FS_Union
  <2>2. Cardinality(others \cap own(k)) = 0
    BY <1>2, FS_EmptySet
  <2>3. Cardinality(own(k)) = k
    BY <1>3
  <2>4. QED
    BY <1>5, <2>1, <2>2, <2>3, SMTT(60)
<1>7. h[c] \in Nat /\ g[c] \in Nat
  OBVIOUS
<1>8. /\ IsFiniteSet(HeldBy(g)) /\ Cardinality(HeldBy(g)) = Cardinality(others) + g[c]
      /\ Cardinality(HeldBy(h)) = Cardinality(others) + h[c]
  BY <1>1, <1>6, <1>7
<1>9. QED
  BY <1>5, <1>7, <1>8, SMTT(60)

Holds == [c \in Csids |-> Committed(streams[c])]

\* BudgetExact, and what makes it inductive: between messages a chunk stream
\* holds nothing, and a chunk that waits for its body has passed the limits.
BudgetInv ==
    /\ IsFiniteSet(Outstanding) /\ BudgetExact
    /\ \A c \in Csids : streams[c].remaining = 0 => streams[c].assembling = <<>>
    /\ pending # <<>> => ~Refused(pending[1])

LEMMA OutstandingIs == Outstanding = HeldBy(Holds) /\ Outstanding' = HeldBy(Holds')
  BY DEF Outstanding, HeldBy, Holds

\* What a chunk stream holds once a chunk has been added.
LEMMA CommitHolds ==
    ASSUME ReaderTypes, BudgetInv, NEW ch, Readable(ch), NEW st, st = Commit(ch)
    PROVE  /\ Committed(st) = IF StartingNew(ch) THEN ProspectiveRemaining(ch)
                              ELSE Committed(streams[ch.csid])
           /\ StartingNew(ch) => Committed(streams[ch.csid]) = 0
           /\ Committed(st) \in Nat /\ Len(st.assembling) \in Nat
<1>1. PICK old : old = streams[ch.csid] /\ old \in StreamStates
  BY DEF ReaderTypes, Readable
<1>2. PICK k, p : /\ k = Take(ch) /\ p = ProspectiveRemaining(ch)
                  /\ k \in Nat /\ p \in Nat /\ k <= p
  BY TakeBounds
<1>3. old.assembling \in Seq(Messages) /\ old.remaining \in Nat /\ ch.of \in Messages
  BY <1>1 DEF StreamStates, Readable
<1>4. PICK base, add : /\ base = (IF StartingNew(ch) THEN <<>> ELSE old.assembling)
                       /\ add = [i \in 1..k |-> ch.of]
  OBVIOUS
<1>5. base \in Seq(Messages) /\ add \in Seq(Messages) /\ Len(add) = k
  BY <1>2, <1>3, <1>4, SMTT(60)
<1>6. st.assembling = base \o add /\ st.remaining = p - k
  <2>1. CommitsTo(ch, old, st)
    BY <1>1, CommitParts
  <2>2. QED
    BY <1>2, <1>4, <2>1 DEF CommitsTo
<1>7. Len(st.assembling) = Len(base) + k /\ Len(base) \in Nat
  BY <1>2, <1>5, <1>6, SMTT(60)
<1>7a. Committed(st) = Len(base) + p
  BY <1>2, <1>6, <1>7, SMTT(60) DEF Committed
<1>8. CASE StartingNew(ch)
  <2>1. old.remaining = 0 /\ old.assembling = <<>> /\ base = <<>>
    BY <1>1, <1>4, <1>8 DEF StartingNew, BudgetInv, Readable
  <2>2. QED
    BY <1>1, <1>2, <1>7, <1>7a, <1>8, <2>1, SMTT(60) DEF Committed
<1>9. CASE ~StartingNew(ch)
  <2>1. p = old.remaining /\ base = old.assembling
    BY <1>1, <1>2, <1>4, <1>9 DEF ProspectiveRemaining
  <2>2. QED
    <3>1. Committed(old) = Len(old.assembling) + old.remaining
      BY DEF Committed
    <3>2. Committed(st) = Committed(old)
      BY <1>7a, <2>1, <3>1
    <3>3. QED
      BY <1>1, <1>2, <1>7, <1>7a, <1>9, <3>2, SMTT(60)
<1>10. QED
  BY <1>8, <1>9

\* The budget after Body.
LEMMA BodyBudget == ReaderTypes /\ BudgetInv /\ Body => BudgetInv'
<1> SUFFICES ASSUME ReaderTypes, BudgetInv, Body PROVE BudgetInv'
  OBVIOUS
<1>1. PICK ch, st, held, after, freed, value : BodyOf(ch, st, held, after, freed, value)
  BY DEF BodyOf
<1>2. pending # <<>> /\ pending' = <<>>
  BY DEF Body
<1>3. Readable(ch) /\ ch.csid \in Csids /\ ~Refused(ch) /\ st = Commit(ch)
  BY <1>1, <1>2 DEF ReaderTypes, Readable, BodyOf, BudgetInv
<1>4. st \in StreamStates
  BY <1>3, CommitParts
<1>5. PICK h, b, p : /\ h = Holds /\ b = assembling_bytes /\ p = ProspectiveRemaining(ch)
  OBVIOUS
<1>6. /\ h \in [Csids -> Nat] /\ b \in Nat /\ p \in Nat
      /\ IsFiniteSet(HeldBy(h)) /\ b = Cardinality(HeldBy(h)) /\ b <= kMaxOutstanding
      /\ \A d \in Csids : h[d] = Committed(streams[d])
  <2>1. \A d \in Csids : Committed(streams[d]) \in Nat
    BY CompleteTypes DEF ReaderTypes
  <2>2. QED
    BY <1>3, <1>5, <2>1, OutstandingIs, TakeBounds DEF Holds, BudgetInv, BudgetExact, ReaderTypes
<1>7. PICK n, x : n = Committed(st) /\ x = h[ch.csid] /\ n \in Nat /\ x \in Nat
  BY <1>3, <1>6, CommitHolds
<1>8. /\ held = b - x + n /\ held \in Nat /\ held <= kMaxOutstanding /\ x <= b
  <2>1. x <= b
    BY <1>3, <1>6, <1>7, Recount
  <2>2. held = b + IF StartingNew(ch) THEN p ELSE 0
    BY <1>1, <1>5 DEF BodyOf
  <2>3. CASE StartingNew(ch)
    <3>1. n = p /\ x = 0
      BY <1>3, <1>5, <1>6, <1>7, <2>3, CommitHolds
    <3>2. b + p <= kMaxOutstanding
      BY <1>3, <1>5, <1>6, <2>3, ReaderAssumption, SMTT(60) DEF Refused
    <3>3. QED
      BY <1>6, <2>1, <2>2, <2>3, <3>1, <3>2, SMTT(60)
  <2>4. CASE ~StartingNew(ch)
    <3>1. n = x
      BY <1>3, <1>6, <1>7, <2>4, CommitHolds
    <3>2. QED
      BY <1>6, <1>7, <2>1, <2>2, <2>4, <3>1, SMTT(60)
  <2>5. QED
    BY <2>3, <2>4
<1>9. CASE Continued(ch, st, held)
  <2>1. streams' = [streams EXCEPT ![ch.csid] = st] /\ assembling_bytes' = held /\ st.remaining # 0
    BY <1>9 DEF Continued
  <2>2. Holds' = [h EXCEPT ![ch.csid] = n]
    BY <1>3, <1>5, <1>7, <2>1 DEF Holds, ReaderTypes
  <2>3. IsFiniteSet(Outstanding)' /\ Cardinality(Outstanding)' = held
    <3>1. PICK g \in [Csids -> Nat] :
            g = Holds' /\ g[ch.csid] = n /\ \A d \in Csids \ {ch.csid} : g[d] = h[d]
      BY <1>3, <1>6, <1>7, <2>2
    <3>2. /\ IsFiniteSet(HeldBy(g))
          /\ Cardinality(HeldBy(g)) = Cardinality(HeldBy(h)) - h[ch.csid] + g[ch.csid]
      BY <1>3, <1>6, <3>1, Recount
    <3>3. QED
      BY <1>6, <1>7, <1>8, <3>1, <3>2, OutstandingIs
  <2>4. \A d \in Csids : streams'[d].remaining = 0 => streams'[d].assembling = <<>>
    BY <2>1 DEF BudgetInv, ReaderTypes
  <2>5. QED
    BY <1>2, <1>8, <2>1, <2>3, <2>4 DEF BudgetInv, BudgetExact
<1>10. CASE Completed(ch, st, after)
  <2>1. st.remaining = 0 /\ after = [streams EXCEPT ![ch.csid] = Done(st)]
    BY <1>10 DEF Completed
  <2>2. PICK g \in [Csids -> Nat] :
          g[ch.csid] = 0 /\ \A d \in Csids \ {ch.csid} : g[d] = h[d]
    <3>1. [h EXCEPT ![ch.csid] = 0] \in [Csids -> Nat]
      BY <1>6
    <3>2. QED
      BY <1>3, <1>6, <3>1
  <2>3. IsFiniteSet(HeldBy(g)) /\ Cardinality(HeldBy(g)) = b - x
    <3>1. /\ IsFiniteSet(HeldBy(g))
          /\ Cardinality(HeldBy(g)) = Cardinality(HeldBy(h)) - h[ch.csid] + g[ch.csid]
      BY <1>3, <1>6, <2>2, Recount
    <3>2. QED
      BY <1>6, <1>7, <1>8, <2>2, <3>1, SMTT(60)
  <2>4. freed = b - x
    <3>1. Len(st.assembling) = n
      BY <1>3, <1>7, <2>1, CommitHolds, SMTT(60) DEF Committed
    <3>2. freed = Less(held, n)
      BY <1>1, <3>1 DEF BodyOf
    <3>3. QED
      BY <1>6, <1>7, <1>8, <3>2, SMTT(60) DEF Less, Smaller
  <2>5. /\ after \in [Csids -> StreamStates] /\ after[ch.csid] = Done(st)
        /\ \A d \in Csids \ {ch.csid} : after[d] = streams[d]
        /\ Done(st).remaining = 0 /\ Done(st).assembling = <<>>
    BY <1>3, <1>4, <2>1, CompleteTypes DEF ReaderTypes
  <2>6. \A d \in Csids : /\ g[d] = Committed(after[d])
                         /\ after[d].remaining = 0 => after[d].assembling = <<>>
    <3>1. Committed(Done(st)) = 0
      BY <2>5, SMTT(60) DEF Committed
    <3>2. QED
      BY <1>3, <1>6, <2>2, <2>5, <3>1 DEF BudgetInv
  <2>7. ASSUME streams' = after, assembling_bytes' = freed PROVE BudgetInv'
    <3>1. Holds' = g
      BY <2>3, <2>6, <2>7 DEF Holds
    <3>2. IsFiniteSet(Outstanding)' /\ Cardinality(Outstanding)' = freed
      BY <2>3, <2>4, <3>1, OutstandingIs
    <3>3. QED
      BY <1>2, <1>6, <1>7, <2>4, <2>6, <2>7, <3>2, ReaderAssumption, SMTT(60) DEF BudgetInv, BudgetExact
  <2>8. CASE Aborted(ch, st, after, freed, value)
    <3>1. /\ value \in Csids /\ streams' = [after EXCEPT ![value] = Dropped(@)]
          /\ assembling_bytes' = Less(freed, Committed(after[value]))
      BY <2>8 DEF Aborted
    <3>2. PICK u \in [Csids -> Nat], y \in Nat :
            y = g[value] /\ u[value] = 0 /\ \A d \in Csids \ {value} : u[d] = g[d]
      <4>1. [g EXCEPT ![value] = 0] \in [Csids -> Nat]
        OBVIOUS
      <4>2. QED
        BY <3>1, <4>1
    <3>3. /\ IsFiniteSet(HeldBy(u)) /\ Cardinality(HeldBy(u)) = b - x - y /\ y <= b - x
      <4>1. /\ IsFiniteSet(HeldBy(u)) /\ g[value] <= Cardinality(HeldBy(g))
            /\ Cardinality(HeldBy(u)) = Cardinality(HeldBy(g)) - g[value] + u[value]
        BY <2>3, <3>1, <3>2, Recount
      <4>2. QED
        BY <1>6, <1>7, <1>8, <2>3, <3>2, <4>1, SMTT(60)
    <3>4. assembling_bytes' = b - x - y
      BY <1>6, <1>7, <2>4, <2>6, <3>1, <3>2, <3>3, SMTT(60) DEF Less, Smaller
    <3>5. /\ streams'[value].remaining = 0 /\ streams'[value].assembling = <<>>
          /\ \A d \in Csids \ {value} : streams'[d] = after[d]
      BY <2>5, <3>1, CompleteTypes
    <3>6. Holds' = u
      <4>1. Committed(streams'[value]) = 0
        BY <3>5, SMTT(60) DEF Committed
      <4>2. \A d \in Csids : u[d] = Committed(streams'[d])
        BY <2>3, <2>6, <3>2, <3>5, <4>1
      <4>3. QED
        BY <2>3, <3>2, <4>2 DEF Holds
    <3>7. IsFiniteSet(Outstanding)' /\ Cardinality(Outstanding)' = b - x - y
      BY <3>3, <3>6, OutstandingIs
    <3>8. \A d \in Csids : streams'[d].remaining = 0 => streams'[d].assembling = <<>>
      BY <2>6, <3>5
    <3>9. QED
      BY <1>2, <1>6, <1>7, <3>2, <3>4, <3>7, <3>8, ReaderAssumption, SMTT(60) DEF BudgetInv, BudgetExact
  <2>9. QED
    BY <1>1, <1>10, <2>7, <2>8, BodyCases DEF BadSize, Given, Continued, Completed
<1>11. QED
  BY <1>1, <1>9, <1>10, BodyCases

-----------------------------------------------------------------------------
(* The senders.                                                            *)

\* The messages that are sent, and what is known of those meant to arrive.
LEMMA MessageTypes ==
    /\ Media \cup Control \subseteq Messages
    /\ AnyMedia \cup Control \cup {ChunkSizeMessage(0)} \subseteq Messages
    /\ \A n \in Sizes : ChunkSizeMessage(n) \in Control
<1>1. /\ \A c \in Csids : AbortMessage(c) \in Messages
      /\ \A n \in Nat : ChunkSizeMessage(n) \in Messages
  BY FormatAssumption, StreamAssumption DEF AbortMessage, ChunkSizeMessage, Messages, Types
<1>2. Control \subseteq Messages
  BY <1>1, StreamAssumption DEF Control
<1>3. Lengths \cup AnyLengths \subseteq Nat /\ Stamps \cup {0} \subseteq 0..(StampRange - 1)
  BY StreamAssumption, ReaderAssumption, SMTT(60)
<1>4. ASSUME NEW m \in Media \cup AnyMedia PROVE m \in Messages
  <2>1. m.csid \in Csids /\ m.type \in Types /\ m.msid \in Msids \cup {0} /\ m.value \in Nat
    BY SMTT(60) DEF Media, AnyMedia, Types
  <2>2. m.timestamp \in Stamps \cup {0} /\ m.length \in Lengths \cup AnyLengths
    BY DEF Media, AnyMedia
  <2>3. m = [csid |-> m.csid, timestamp |-> m.timestamp, type |-> m.type, msid |-> m.msid,
             length |-> m.length, value |-> m.value]
    BY DEF Media, AnyMedia
  <2>4. QED
    BY <1>3, <2>1, <2>2, <2>3 DEF Messages
<1>5. \A n \in Sizes : ChunkSizeMessage(n) \in Control
  BY DEF Control
<1>6. QED
  BY <1>1, <1>2, <1>3, <1>4, <1>5

LEMMA MessageFacts ==
    ASSUME NEW m \in Media \cup Control
    PROVE  /\ m \in Messages /\ m.length \in 0..kMaxMessageSize
           /\ m.type \in {"abort", "set_chunk_size"} => m.length = ControlLength
           /\ m.type = "set_chunk_size" => m.value \in Sizes
           /\ m.type = "abort" => m.value \in Csids
<1>1. m \in Messages
  BY MessageTypes
<1>2. CASE m \in Media
  BY <1>1, <1>2, StreamAssumption DEF Media
<1>3. ASSUME NEW c \in Csids, m = AbortMessage(c)
      PROVE  m.length = ControlLength /\ m.type = "abort" /\ m.value = c
  BY <1>3 DEF AbortMessage
<1>4. ASSUME NEW n \in Sizes, m = ChunkSizeMessage(n)
      PROVE  m.length = ControlLength /\ m.type = "set_chunk_size" /\ m.value = n
  BY <1>4 DEF ChunkSizeMessage
<1>5. CASE m \in Control
  BY <1>1, <1>3, <1>4, <1>5, StreamAssumption, FormatAssumption, SMTT(60) DEF Control
<1>6. QED
  BY <1>2, <1>5

LEMMA SenderChunks ==
    ASSUME NEW who \in {"writer", "peer", "any"}, NEW ch \in ChunksOf(who)
    PROVE  /\ Readable(ch)
           /\ who # "any" => /\ ch.of \in Sendable(who) /\ ch.has_ext \in BOOLEAN
                             /\ ch.octets \in Nat
<1>1. CASE who = "any"
  BY <1>1 DEF ChunksOf, AnyChunks, Readable
<1>2. CASE who = "writer"
  BY <1>2, MessageTypes, SMTT(60) DEF ChunksOf, WriterChunks, Readable, Sendable, Long
<1>3. CASE who = "peer"
  BY <1>3, MessageTypes DEF ChunksOf, PeerChunks, Readable, Sendable
<1>4. QED
  BY <1>1, <1>2, <1>3

\* The chunks that a message is written as: of the chunk size, but for the last
\* one, which has what is left.
WrittenAs(m, s, q) ==
    /\ q \in Seq(WriterChunks) /\ Len(q) > 0 /\ m.length <= Len(q) * s
    /\ (Len(q) - 1) * s < m.length \/ (Len(q) = 1 /\ m.length = 0)
    /\ \A i \in 1..Len(q) :
         /\ q[i].fmt = (IF i = 1 THEN 0 ELSE 3) /\ q[i].of = m /\ q[i].csid = m.csid
         /\ q[i].has_ext = (m.timestamp >= Ext) /\ q[i].ext = m.timestamp
         /\ q[i].field = (IF m.timestamp >= Ext THEN Ext ELSE m.timestamp)
         /\ q[i].length = m.length /\ q[i].type = m.type /\ q[i].msid = m.msid
         /\ q[i].octets = (IF i < Len(q) THEN s ELSE m.length - (Len(q) - 1) * s)

LEMMA WrittenChunks ==
    ASSUME NEW m \in Sendable("writer"), NEW s \in Nat \ {0}, NEW q, q = Chunks(m, s)
    PROVE  WrittenAs(m, s, q)
<1>1. /\ m \in Messages /\ m.length \in Nat /\ m.timestamp \in Nat /\ m.csid \in Csids
      /\ m.type \in Types /\ m.msid \in Msids \cup {0} /\ Ext \in Nat
  <2>1. m \in Messages
    BY MessageTypes DEF Sendable, Long
  <2>2. QED
    BY <2>1, FormatAssumption, SMTT(60) DEF Messages
<1>2. PICK n : n = IF m.length = 0 THEN 1 ELSE (m.length + s - 1) \div s
  OBVIOUS
<1>3. /\ n \in Nat /\ n > 0 /\ m.length <= n * s
      /\ (n - 1) * s < m.length \/ (n = 1 /\ m.length = 0)
  <2>1. CASE m.length = 0
    BY <1>2, <2>1, SMTT(60)
  <2>2. CASE m.length # 0
    <3>1. PICK a, d : a = m.length + s - 1 /\ a \in Nat /\ d = a \div s /\ n = d
      BY <1>1, <1>2, <2>2, SMTT(60)
    <3>2. d \in Nat /\ d * s <= a /\ a < d * s + s
      BY <3>1, SMTT(60)
    <3>3. (d - 1) * s = d * s - s
      BY <3>2, SMTT(60)
    <3>4. PICK e \in Int : e = d * s
      BY <3>2, SMTT(60)
    <3>5. d # 0
      <4> SUFFICES ASSUME d = 0 PROVE FALSE
        OBVIOUS
      <4>1. d * s = 0
        BY SMTT(60)
      <4>2. QED
        BY <1>1, <2>2, <3>1, <3>2, <4>1, SMTT(60)
    <3>6. QED
      BY <1>1, <3>1, <3>2, <3>3, <3>4, <3>5, SMTT(60)
  <2>3. QED
    BY <2>1, <2>2
<1>4. q = [i \in 1..n |->
           [fmt |-> IF i = 1 THEN 0 ELSE 3, csid |-> m.csid,
            field |-> IF m.timestamp >= Ext THEN Ext ELSE m.timestamp,
            ext |-> m.timestamp, has_ext |-> m.timestamp >= Ext,
            length |-> m.length, type |-> m.type, msid |-> m.msid,
            octets |-> IF i < n THEN s ELSE m.length - (n - 1) * s,
            of |-> m]]
  BY <1>2 DEF Chunks
<1>5. m.length - (n - 1) * s \in Nat
  BY <1>1, <1>3, SMTT(60)
<1>6. ASSUME NEW i \in 1..n PROVE q[i] \in WriterChunks
  BY <1>1, <1>3, <1>4, <1>5, SMTT(60) DEF WriterChunks
<1>7. q \in Seq(WriterChunks) /\ Len(q) = n
  <2>1. q \in [1..n -> WriterChunks]
    BY <1>4, <1>6
  <2>2. QED
    BY <1>3, <2>1, SMTT(60)
<1>8. \A i \in 1..n :
        /\ q[i].fmt = (IF i = 1 THEN 0 ELSE 3) /\ q[i].of = m /\ q[i].csid = m.csid
        /\ q[i].has_ext = (m.timestamp >= Ext) /\ q[i].ext = m.timestamp
        /\ q[i].field = (IF m.timestamp >= Ext THEN Ext ELSE m.timestamp)
        /\ q[i].length = m.length /\ q[i].type = m.type /\ q[i].msid = m.msid
        /\ q[i].octets = (IF i < n THEN s ELSE m.length - (n - 1) * s)
  BY <1>4, SMTT(60)
<1>9. QED
  BY <1>3, <1>7, <1>8 DEF WrittenAs

\* The chunk with which the peer begins a message, and what it leaves.
FirstChunk(m, fmt, ch, left) ==
    LET last == peer[m.csid].header[1]
    IN  /\ ch.fmt = fmt /\ ch.csid = m.csid /\ ch.of = m /\ ch.length = m.length
        /\ ch.type = m.type /\ ch.msid = m.msid /\ ch.octets = Smaller(m.length, size)
        /\ left = m.length - ch.octets
        /\ fmt = 0 => ch.delta = 0
        /\ fmt # 0 => ch.delta = (m.timestamp - last.of.timestamp) % StampRange
        /\ fmt = 3 => ch.has_ext = last.has_ext
        /\ fmt # 3 => LET stamp == IF fmt = 0 THEN m.timestamp ELSE ch.delta
                      IN  /\ ch.field = Smaller(stamp, Ext) /\ ch.ext = stamp
                          /\ ch.has_ext = (stamp >= Ext)

LEMMA PeerBegins ==
    ASSUME SenderTypes, NEW m \in Media \cup Control, NEW fmt \in 0..3, PeerBegin(m, fmt)
    PROVE  \E ch \in PeerChunks, left \in Nat : FirstChunk(m, fmt, ch, left) /\ PeerSends(ch, left)
<1> DEFINE last  == peer[m.csid].header[1]
           delta == (m.timestamp - last.of.timestamp) % StampRange
           stamp == IF fmt = 0 THEN m.timestamp ELSE delta
           first == Smaller(m.length, size)
           ch == [fmt |-> fmt, csid |-> m.csid,
                  field |-> IF fmt = 3 THEN last.field ELSE Smaller(stamp, Ext),
                  ext |-> IF fmt = 3 THEN last.ext ELSE stamp,
                  has_ext |-> IF fmt = 3 THEN last.has_ext ELSE stamp >= Ext,
                  length |-> m.length, type |-> m.type, msid |-> m.msid,
                  octets |-> first, of |-> m, delta |-> IF fmt = 0 THEN 0 ELSE delta]
<1>1. /\ m \in Messages /\ m.length \in Nat /\ m.timestamp \in Nat /\ m.csid \in Csids
      /\ m.type \in Types /\ m.msid \in Msids \cup {0}
      /\ Ext \in Nat /\ StampRange \in Nat \ {0} /\ size \in Nat
  BY MessageFacts, FormatAssumption, SMTT(60) DEF Messages, SenderTypes
<1>2. PeerSends(ch, m.length - first)
  BY DEF PeerBegin
<1>3. first \in Nat /\ first <= m.length
  BY <1>1, SMTT(60) DEF Smaller
<1>4. fmt # 0 => last \in PeerChunks
  <2>1. fmt # 0 => peer[m.csid].header # <<>>
    <3>1. fmt > 0 => peer[m.csid].header # <<>>
      BY DEF PeerBegin
    <3>2. QED
      BY <3>1, SMTT(60)
  <2>2. peer[m.csid] \in PeerStates
    BY <1>1 DEF SenderTypes
  <2>3. peer[m.csid].header \in {<<>>} \cup {<<ch0>> : ch0 \in PeerChunks}
    BY <2>2 DEF PeerStates
  <2>4. QED
    BY <2>1, <2>3, SMTT(60)
<1>5. fmt # 0 => last.of.timestamp \in Nat /\ delta \in Nat
  <2>1. fmt # 0 => last.of \in Messages
    BY <1>4, MessageTypes DEF PeerChunks
  <2>2. fmt # 0 => last.of.timestamp \in Nat
    BY <2>1, SMTT(60) DEF Messages
  <2>3. QED
    BY <1>1, <2>2, SMTT(60)
<1>6. stamp \in Nat
  BY <1>1, <1>5
<1>7. ch \in PeerChunks
  <2>1. /\ (IF fmt = 3 THEN last.field ELSE Smaller(stamp, Ext)) \in Nat
        /\ (IF fmt = 3 THEN last.ext ELSE stamp) \in Nat
        /\ (IF fmt = 3 THEN last.has_ext ELSE stamp >= Ext) \in BOOLEAN
        /\ (IF fmt = 0 THEN 0 ELSE delta) \in Nat
    <3> HIDE DEF last, delta, stamp
    <3>1. fmt = 3 => last.field \in Nat /\ last.ext \in Nat /\ last.has_ext \in BOOLEAN
      BY <1>4, SMTT(60) DEF PeerChunks
    <3>2. QED
      <4>1. Smaller(stamp, Ext) \in Nat /\ (stamp >= Ext) \in BOOLEAN
        BY <1>1, <1>6, SMTT(60) DEF Smaller
      <4>2. QED
        BY <1>5, <1>6, <3>1, <4>1
  <2> HIDE DEF last, delta, stamp, first
  <2>2. QED
    BY <1>1, <1>3, <2>1 DEF PeerChunks
<1>8. FirstChunk(m, fmt, ch, m.length - first)
  <2>1. fmt = 3 => ch.has_ext = last.has_ext
    OBVIOUS
  <2>2. fmt = 0 => stamp = m.timestamp /\ ch.delta = 0
    OBVIOUS
  <2>3. fmt # 0 => stamp = delta /\ ch.delta = delta
    OBVIOUS
  <2>4. fmt # 3 => ch.field = Smaller(stamp, Ext) /\ ch.ext = stamp /\ ch.has_ext = (stamp >= Ext)
    OBVIOUS
  <2>5. /\ ch.fmt = fmt /\ ch.csid = m.csid /\ ch.of = m /\ ch.length = m.length
        /\ ch.type = m.type /\ ch.msid = m.msid /\ ch.octets = first
    OBVIOUS
  <2> HIDE DEF ch, stamp
  <2>6. QED
    BY <2>1, <2>2, <2>3, <2>4, <2>5 DEF FirstChunk
<1> HIDE DEF ch, first
<1>9. m.length - first \in Nat
  BY <1>1, <1>3, SMTT(60)
<1>10. QED
  BY <1>2, <1>7, <1>8, <1>9

\* The chunk with which the peer goes on, and what it leaves.
NextChunk(c, ch, left) ==
    LET last == peer[c].header[1]
    IN  /\ ch.fmt = 3 /\ ch.csid = last.csid /\ ch.of = last.of /\ ch.length = last.length
        /\ ch.type = last.type /\ ch.msid = last.msid /\ ch.has_ext = last.has_ext
        /\ ch.delta = last.delta /\ ch.octets = Smaller(peer[c].left, size)
        /\ left = peer[c].left - ch.octets

LEMMA PeerContinues ==
    ASSUME SenderTypes, NEW c \in Csids, PeerContinue(c)
    PROVE  \E ch \in PeerChunks, left \in Nat : NextChunk(c, ch, left) /\ PeerSends(ch, left)
<1>1. PICK p : p = peer[c] /\ p \in PeerStates /\ p.left \in Nat /\ p.left > 0 /\ p.header # <<>>
  BY DEF SenderTypes, PeerContinue, PeerStates
<1>2. PICK last \in PeerChunks : last = p.header[1]
  BY <1>1, SMTT(60) DEF PeerStates
<1>3. PICK more \in Nat : more = Smaller(p.left, size) /\ more <= p.left
  BY <1>1, SMTT(60) DEF Smaller, SenderTypes
<1>4. PICK ch : ch = [last EXCEPT !.fmt = 3, !.octets = more]
  OBVIOUS
<1>5. ch \in PeerChunks
  <2>1. ch = [fmt |-> 3, csid |-> last.csid, field |-> last.field, ext |-> last.ext,
              has_ext |-> last.has_ext, length |-> last.length, type |-> last.type,
              msid |-> last.msid, octets |-> more, of |-> last.of, delta |-> last.delta]
    BY <1>2, <1>4 DEF PeerChunks
  <2>2. /\ last.csid \in Csids /\ last.field \in Nat /\ last.ext \in Nat
        /\ last.has_ext \in BOOLEAN /\ last.length \in Nat /\ last.type \in Types
        /\ last.msid \in Msids \cup {0} /\ last.of \in Media \cup Control /\ last.delta \in Nat
    BY <1>2 DEF PeerChunks
  <2>3. QED
    BY <1>3, <2>1, <2>2, SMTT(60) DEF PeerChunks
<1>6. PeerSends(ch, p.left - more)
  BY <1>1, <1>2, <1>3, <1>4 DEF PeerContinue
<1>7. NextChunk(c, ch, p.left - more)
  <2>1. /\ ch.fmt = 3 /\ ch.csid = last.csid /\ ch.of = last.of /\ ch.length = last.length
        /\ ch.type = last.type /\ ch.msid = last.msid /\ ch.has_ext = last.has_ext
        /\ ch.delta = last.delta /\ ch.octets = more
    BY <1>2, <1>4 DEF PeerChunks
  <2>2. QED
    BY <1>1, <1>2, <1>3, <2>1 DEF NextChunk
<1>8. p.left - more \in Nat
  BY <1>1, <1>3, SMTT(60)
<1>9. QED
  BY <1>5, <1>6, <1>7, <1>8

\* A message is written, and after it chunks have size n.
Says(m, n) ==
    /\ sender = "writer" /\ wire = <<>> /\ pending = <<>> /\ ~failed
    /\ wire' = Chunks(m, size) /\ sent' = Append(sent, m) /\ size' = n
    /\ UNCHANGED <<readerVars, sender, peer>>

\* Nothing is sent or read.
Nothing == UNCHANGED <<readerVars, sender, wire, size, peer, sent>>

\* Every step is one of these.
LEMMA Steps ==
    ASSUME [Next]_vars
    PROVE  \/ FeedHeader \/ FeedBody
           \/ \E n \in Sizes : Says(ChunkSizeMessage(n), n)
           \/ \E c \in Csids : PeerContinue(c)
           \/ \E m \in Media : Says(m, size)
           \/ \E m \in Long : Says(m, size)
           \/ \E m \in Media \cup Control, fmt \in 0..3 : PeerBegin(m, fmt)
           \/ \E m \in AnyMedia \cup Control \cup {ChunkSizeMessage(0)}, fmt \in 0..3 :
                  SendAny(m, fmt)
           \/ Nothing
<1>1. ASSUME NEW n \in Sizes \cup {0}, SetChunkSize(n)
      PROVE  Nothing \/ (n \in Sizes /\ Says(ChunkSizeMessage(n), n))
  <2>1. CASE n = 0
    BY <1>1, <2>1 DEF SetChunkSize, Settable, Sends, Nothing
  <2>2. CASE n # 0
    BY <1>1, <2>2 DEF SetChunkSize, Settable, Sends, Says
  <2>3. QED
    BY <2>1, <2>2
<1>2. ASSUME NEW m \in Media \cup Outsize, Write(m)
      PROVE  Nothing \/ (m \in Media \cup Long /\ Says(m, size))
  <2>1. CASE ~Writes(m)
    BY <1>2, <2>1 DEF Write, Sends, Nothing
  <2>2. CASE Writes(m)
    <3>1. Says(m, size)
      BY <1>2, <2>2 DEF Write, Sends, Says
    <3>2. CASE m \in Outsize
      <4>1. m.csid \in Csids /\ m.length > kMaxMessageSize
        BY <2>2, <3>2 DEF Writes, Outsize
      <4>2. m \in AnyMedia
        BY <3>2, <4>1 DEF Outsize, AnyMedia
      <4>3. QED
        BY <3>1, <4>1, <4>2 DEF Long
    <3>3. QED
      BY <3>1, <3>2
  <2>3. QED
    BY <2>1, <2>2
<1>3. UNCHANGED vars => Nothing
  BY DEF vars, Nothing
<1>4. QED
  BY <1>1, <1>2, <1>3 DEF Next

\* The reader takes a header only from the wire, and changes nothing else.
LEMMA HeaderStep ==
    ASSUME SenderTypes, FeedHeader
    PROVE  /\ wire # <<>> /\ Head(wire) \in ChunksOf(sender) /\ ~failed /\ pending = <<>>
           /\ wire' = Tail(wire) /\ wire' \in Seq(ChunksOf(sender))
           /\ \/ Refused(Head(wire)) /\ failed' = TRUE /\ pending' = pending
              \/ ~Refused(Head(wire)) /\ pending' = <<Head(wire)>> /\ failed' = failed
           /\ UNCHANGED <<streams, chunk_size, assembling_bytes, ready, sender, size, peer,
                          begun, sent>>
  BY SMTT(60) DEF FeedHeader, Header, SenderTypes

\* What the peer's step does to the sender's state.
LEMMA PeerSendTypes ==
    ASSUME SenderTypes, sender = "peer", sender' = sender, pending = <<>>,
           NEW ch \in PeerChunks, NEW left \in Nat, PeerSends(ch, left)
    PROVE  SenderTypes'
<1>1. /\ ch.csid \in Csids /\ ch.of \in Media \cup Control
  BY DEF PeerChunks
<1>2. PICK m, now : m = ch.of /\ now = [peer EXCEPT ![ch.csid] = [header |-> <<ch>>, left |-> left]]
  OBVIOUS
<1>3. /\ wire' = <<ch>> /\ pending' = pending /\ sent' = IF left = 0 THEN Append(sent, m) ELSE sent
      /\ size' = IF left = 0 /\ m.type = "set_chunk_size" THEN m.value ELSE size
      /\ peer' = IF left = 0 /\ m.type = "abort" THEN [now EXCEPT ![m.value] = Idle] ELSE now
  BY <1>2 DEF PeerSends, readerVars
<1>4. size' \in Nat \ {0}
  <2>1. m.type = "set_chunk_size" => m.value \in Nat \ {0}
    BY <1>1, <1>2, MessageFacts, StreamAssumption
  <2>2. QED
    BY <1>3, <2>1 DEF SenderTypes
<1>5. Idle \in PeerStates /\ [header |-> <<ch>>, left |-> left] \in PeerStates /\ Idle.left = 0
  BY DEF Idle, PeerStates
<1>6. /\ now \in [Csids -> PeerStates]
      /\ \A c \in Csids : now[c].left > 0 => now[c].header # <<>>
  BY <1>1, <1>2, <1>5 DEF SenderTypes
<1>7. m.type = "abort" => m.value \in Csids
  BY <1>1, <1>2, MessageFacts
<1>8. /\ peer' \in [Csids -> PeerStates]
      /\ \A c \in Csids : peer'[c].left > 0 => peer'[c].header # <<>>
  BY <1>3, <1>5, <1>6, <1>7, SMTT(60)
<1>9. /\ wire' \in Seq(ChunksOf(sender)) /\ pending' \in Seq(ChunksOf(sender))
  BY <1>3, SMTT(60) DEF ChunksOf
<1>10. sent' \in Seq(Sendable(sender))
  <2>1. Sendable(sender) = Media \cup Control
    BY DEF Sendable
  <2>2. QED
    BY <1>1, <1>2, <1>3, <2>1, SMTT(60) DEF SenderTypes
<1>11. QED
  BY <1>4, <1>8, <1>9, <1>10 DEF SenderTypes

LEMMA SenderStep == SenderTypes /\ [Next]_vars => SenderTypes'
<1> SUFFICES ASSUME SenderTypes, [Next]_vars PROVE SenderTypes'
  OBVIOUS
<1>1. CASE FeedHeader
  <2>1. pending' \in Seq(ChunksOf(sender))
    <3>1. Head(wire) \in ChunksOf(sender) /\ (pending' = pending \/ pending' = <<Head(wire)>>)
      BY <1>1, HeaderStep
    <3>2. PICK S, h : S = ChunksOf(sender) /\ h = Head(wire)
      OBVIOUS
    <3>3. <<h>> \in Seq(S) /\ pending \in Seq(S)
      BY <3>1, <3>2, SMTT(60) DEF SenderTypes
    <3>4. QED
      BY <3>1, <3>2, <3>3
  <2>2. QED
    BY <1>1, <2>1, HeaderStep DEF SenderTypes
<1>2. CASE FeedBody
  <2>1. pending' = <<>> /\ UNCHANGED <<sender, wire, size, peer, sent>>
    BY <1>2 DEF FeedBody, Body
  <2>2. <<>> \in Seq(ChunksOf(sender))
    BY SMTT(60)
  <2>3. QED
    BY <2>1, <2>2 DEF SenderTypes
<1>3. ASSUME NEW m \in Sendable("writer"), NEW n \in Nat \ {0}, Says(m, n) PROVE SenderTypes'
  <2>1. /\ wire' = Chunks(m, size) /\ size' = n /\ pending' = pending
        /\ peer' = peer /\ sender' = sender /\ sender = "writer" /\ sent' = Append(sent, m)
    BY <1>3 DEF Says, readerVars
  <2>2. wire' \in Seq(WriterChunks)
    BY <2>1, WrittenChunks DEF SenderTypes, WrittenAs
  <2>3. sent' \in Seq(Sendable(sender))
    <3>1. PICK S : S = Sendable(sender) /\ m \in S /\ sent \in Seq(S)
      BY <2>1 DEF SenderTypes
    <3>2. Append(sent, m) \in Seq(S)
      BY <3>1, SMTT(60)
    <3>3. QED
      BY <2>1, <3>1, <3>2
  <2>4. QED
    BY <2>1, <2>2, <2>3 DEF SenderTypes, ChunksOf
<1>4. /\ \A n \in Sizes : n \in Nat \ {0} /\ ChunkSizeMessage(n) \in Sendable("writer")
      /\ size \in Nat \ {0} /\ Media \cup Long \subseteq Sendable("writer")
  BY StreamAssumption, MessageTypes DEF Sendable, SenderTypes
<1>5. ASSUME NEW c \in Csids, PeerContinue(c) PROVE SenderTypes'
  <2>1. sender = "peer" /\ sender' = sender /\ pending = <<>>
    BY <1>5 DEF PeerContinue, Sends
  <2>2. QED
    BY <1>5, <2>1, PeerContinues, PeerSendTypes
<1>6. ASSUME NEW m \in Media \cup Control, NEW fmt \in 0..3, PeerBegin(m, fmt) PROVE SenderTypes'
  <2>1. sender = "peer" /\ sender' = sender /\ pending = <<>>
    BY <1>6 DEF PeerBegin, Sends
  <2>2. QED
    BY <1>6, <2>1, PeerBegins, PeerSendTypes
<1>7. ASSUME NEW m \in AnyMedia \cup Control \cup {ChunkSizeMessage(0)}, NEW fmt \in 0..3,
             SendAny(m, fmt)
      PROVE  SenderTypes'
  <2>1. PICK ch : ch = [fmt |-> fmt, csid |-> m.csid, field |-> 0, ext |-> 0,
                        length |-> m.length, type |-> m.type, msid |-> m.msid, of |-> m]
    OBVIOUS
  <2>2. m \in Messages
    BY MessageTypes
  <2>3. ch \in AnyChunks
    BY <2>1, <2>2 DEF AnyChunks, Messages
  <2>4. /\ wire' = <<ch>> /\ size' = size /\ pending' = pending /\ peer' = peer
        /\ sender' = sender /\ sender = "any" /\ sent' = sent
    BY <1>7, <2>1 DEF SendAny, Sends, readerVars
  <2>5. wire' \in Seq(AnyChunks)
    BY <2>3, <2>4, SMTT(60)
  <2>6. QED
    BY <2>4, <2>5 DEF SenderTypes, ChunksOf
<1>8. CASE Nothing
  BY <1>8 DEF SenderTypes, Nothing, readerVars
<1>9. QED
  BY <1>1, <1>2, <1>3, <1>4, <1>5, <1>6, <1>7, <1>8, Steps

\* Only feed() changes the reader.
LEMMA ReaderStep == ReaderTypes /\ SenderTypes /\ BudgetInv /\ [Next]_vars
                        => ReaderTypes' /\ BudgetInv'
<1> SUFFICES ASSUME ReaderTypes, SenderTypes, BudgetInv, [Next]_vars
             PROVE  ReaderTypes' /\ BudgetInv'
  OBVIOUS
<1>1. CASE FeedHeader
  <2>1. Readable(Head(wire))
    BY <1>1, HeaderStep, SenderChunks DEF SenderTypes
  <2>2. /\ UNCHANGED <<streams, chunk_size, assembling_bytes>> /\ failed' \in BOOLEAN
        /\ \/ pending' = <<>>
           \/ pending' = <<Head(wire)>> /\ ~Refused(Head(wire))
    BY <1>1, HeaderStep DEF ReaderTypes
  <2>3. ReaderTypes'
    BY <2>1, <2>2, SMTT(60) DEF ReaderTypes, Readable
  <2>4. ASSUME pending' # <<>> PROVE ~Refused(pending[1])'
    <3>1. pending'[1] = Head(wire) /\ ~Refused(Head(wire))
      BY <2>2, <2>4, SMTT(60)
    <3>2. QED
      BY <2>2, <3>1 DEF Refused, StartingNew, ProspectiveRemaining, NewLength
  <2>5. QED
    BY <2>2, <2>3, <2>4 DEF BudgetInv, BudgetExact, Outstanding
<1>2. CASE FeedBody
  BY <1>2, BodyTypes, BodyBudget DEF FeedBody
<1>3. CASE UNCHANGED readerVars
  BY <1>3 DEF readerVars, ReaderTypes, BudgetInv, BudgetExact, Outstanding, Refused,
              StartingNew, ProspectiveRemaining, NewLength
<1>4. ASSUME NEW m, NEW n, Says(m, n) PROVE UNCHANGED readerVars
  BY <1>4 DEF Says
<1>5. ASSUME NEW c \in Csids, PeerContinue(c) PROVE UNCHANGED readerVars
  BY <1>5 DEF PeerContinue, PeerSends
<1>6. Nothing => UNCHANGED readerVars
  BY DEF Nothing
<1>7. ASSUME NEW m, NEW fmt, PeerBegin(m, fmt) PROVE UNCHANGED readerVars
  BY <1>7 DEF PeerBegin, PeerSends
<1>8. ASSUME NEW m, NEW fmt, SendAny(m, fmt) PROVE UNCHANGED readerVars
  BY <1>8 DEF SendAny
<1>9. QED
  BY <1>1, <1>2, <1>3, <1>4, <1>5, <1>6, <1>7, <1>8, Steps

TypeInv == ReaderTypes /\ SenderTypes

\* At first nothing is assembled.
LEMMA InitTypes == Init => TypeInv /\ BudgetInv
<1> SUFFICES ASSUME Init PROVE TypeInv /\ BudgetInv
  OBVIOUS
<1>1. /\ streams = [c \in Csids |-> Fresh] /\ chunk_size = kDefaultChunkSize
      /\ assembling_bytes = 0 /\ failed = FALSE /\ pending = <<>> /\ wire = <<>>
      /\ size = kDefaultChunkSize /\ peer = [c \in Csids |-> Idle]
      /\ sender \in {"writer", "peer", "any"} /\ sent = <<>>
  BY DEF Init, ReaderInit
<1>2. Fresh \in StreamStates /\ Fresh.remaining = 0 /\ Fresh.assembling = <<>>
  BY SMTT(60) DEF Fresh, StreamStates
<1>3. Idle \in PeerStates /\ Idle.left = 0
  BY DEF Idle, PeerStates
<1>4. ReaderTypes
  BY <1>1, <1>2, FormatAssumption DEF ReaderTypes
<1>5. SenderTypes
  <2>1. /\ wire \in Seq(ChunksOf(sender)) /\ pending \in Seq(ChunksOf(sender))
        /\ sent \in Seq(Sendable(sender))
    BY <1>1, SMTT(60)
  <2>2. QED
    BY <1>1, <1>3, <2>1, FormatAssumption, SMTT(60) DEF SenderTypes
<1>6. Outstanding = {}
  <2>1. Committed(Fresh) = 0
    BY <1>2, SMTT(60) DEF Committed
  <2>2. \A c \in Csids : {c} \X (1..Committed(streams[c])) = {}
    BY <1>1, <2>1, SMTT(60)
  <2>3. QED
    BY <2>2 DEF Outstanding
<1>7. BudgetInv
  BY <1>1, <1>2, <1>6, FS_EmptySet, ReaderAssumption, SMTT(60) DEF BudgetInv, BudgetExact
<1>8. QED
  BY <1>4, <1>5, <1>7 DEF TypeInv

LEMMA TypesAndBudget == Spec => [](TypeInv /\ BudgetInv)
<1>1. TypeInv /\ BudgetInv /\ [Next]_vars => TypeInv' /\ BudgetInv'
  BY SenderStep, ReaderStep DEF TypeInv
<1>2. QED
  BY <1>1, InitTypes, PTL DEF Spec

\* Whatever chunks arrive, assembling_bytes_ is exactly what the incomplete
\* messages hold and never passes kMaxOutstanding: no chunk, completion or abort
\* frees more than it took or forgets to free it.
THEOREM BudgetAlwaysExact == Spec => []BudgetExact
<1>1. BudgetInv => BudgetExact
  BY DEF BudgetInv
<1>2. QED
  BY <1>1, TypesAndBudget, PTL

-----------------------------------------------------------------------------
(* What is sent is decoded as it was sent.                                 *)

DeliveredAll(q) == [i \in DOMAIN q |-> Delivered(q[i])]

\* What a chunk stream keeps from the header of chunk ch.
Knows(st, ch) ==
    LET m == ch.of
    IN  /\ st.have_header /\ st.timestamp = m.timestamp /\ st.length = m.length
        /\ st.type = m.type /\ st.msid = m.msid /\ st.extended = ch.has_ext

\* It also has the octets of ch's message but for the remaining ones.
Carries(st, ch) ==
    /\ Knows(st, ch) /\ st.remaining <= ch.of.length
    /\ st.assembling = [i \in 1..(ch.of.length - st.remaining) |-> ch.of]

\* The reader takes chunk ch, and as long as it is.
Takes(ch) == ~Refused(ch) /\ Take(ch) = ch.octets /\ Extended(ch) = ch.has_ext

\* Chunk ch begins its message where the reader begins one, with a header that
\* gives the message its own, and delta, on top of what the chunk stream has.
Starting(ch, delta) ==
    LET m     == ch.of
        st    == streams[ch.csid]
        stamp == IF ch.fmt = 0 THEN m.timestamp ELSE delta
    IN  /\ st.remaining = 0 /\ assembling_bytes + m.length <= kMaxOutstanding
        /\ ch.length = m.length /\ ch.type = m.type /\ ch.msid = m.msid
        /\ ch.octets = Smaller(m.length, chunk_size)
        /\ ch.fmt # 3 => /\ ch.field = Smaller(stamp, Ext) /\ ch.ext = stamp
                         /\ ch.has_ext = (stamp >= Ext)
        /\ ch.fmt = 0 => delta = 0
        /\ ch.fmt # 0 => /\ st.have_header /\ st.msid = m.msid
                         /\ st.timestamp \in 0..(StampRange - 1)
                         /\ delta = (m.timestamp - st.timestamp) % StampRange
        /\ ch.fmt \in {2, 3} => st.length = m.length /\ st.type = m.type
        /\ ch.fmt = 3 => st.delta = delta /\ st.extended = ch.has_ext

\* Chunk ch goes on with the message that its chunk stream has a part of.
Continuing(ch) ==
    LET st == streams[ch.csid]
    IN  /\ ch.fmt = 3 /\ st.remaining > 0 /\ Carries(st, ch)
        /\ ch.octets = Smaller(st.remaining, chunk_size)

\* The reader makes of either what was sent.
LEMMA Starts ==
    ASSUME ReaderTypes, NEW ch, Readable(ch), ch.of \in Media \cup Control,
           ch.has_ext \in BOOLEAN, NEW delta \in Nat, Starting(ch, delta)
    PROVE  /\ Takes(ch) /\ Carries(Commit(ch), ch) /\ Commit(ch).delta = delta
           /\ Commit(ch).remaining = ch.of.length - ch.octets
<1>1. PICK m, st, stamp, after :
        /\ m = ch.of /\ st = streams[ch.csid] /\ after = Commit(ch)
        /\ stamp = IF ch.fmt = 0 THEN m.timestamp ELSE delta
  OBVIOUS
<1>2. /\ m.length \in Nat /\ m.length <= kMaxMessageSize /\ m.timestamp \in 0..(StampRange - 1)
      /\ StampRange \in Nat \ {0} /\ Ext \in Nat /\ kMaxMessageSize \in Nat
      /\ stamp \in Nat /\ ch.fmt \in 0..3 /\ chunk_size \in Nat
  BY <1>1, MessageFacts, FormatAssumption, ReaderAssumption, SMTT(60) DEF Messages, Readable, ReaderTypes
<1>3. /\ st.remaining = 0 /\ assembling_bytes + m.length <= kMaxOutstanding
      /\ ch.length = m.length /\ ch.type = m.type /\ ch.msid = m.msid
      /\ ch.octets = Smaller(m.length, chunk_size)
      /\ ch.fmt # 3 => /\ ch.field = Smaller(stamp, Ext) /\ ch.ext = stamp
                       /\ ch.has_ext = (stamp >= Ext)
      /\ ch.fmt = 0 => delta = 0
      /\ ch.fmt # 0 => /\ st.have_header /\ st.msid = m.msid
                       /\ st.timestamp \in 0..(StampRange - 1)
                       /\ delta = (m.timestamp - st.timestamp) % StampRange
      /\ ch.fmt \in {2, 3} => st.length = m.length /\ st.type = m.type
      /\ ch.fmt = 3 => st.delta = delta /\ st.extended = ch.has_ext
  BY <1>1 DEF Starting
<1>4. Extended(ch) = ch.has_ext
  BY <1>1, <1>2, <1>3, SMTT(60) DEF Extended, Smaller
<1>5. ch.fmt # 3 => Stamp(ch) = stamp
  BY <1>2, <1>3, <1>4, SMTT(60) DEF Stamp, Smaller
<1>6. StartingNew(ch) /\ NewLength(ch) = m.length /\ ProspectiveRemaining(ch) = m.length
  BY <1>1, <1>2, <1>3, SMTT(60) DEF StartingNew, NewLength, ProspectiveRemaining
<1>7. Take(ch) = ch.octets /\ ch.octets \in Nat /\ ch.octets <= m.length
  BY <1>2, <1>3, <1>6, SMTT(60) DEF Take, Smaller
<1>8. ~Refused(ch)
  <2>1. assembling_bytes \in Nat /\ kMaxOutstanding \in Nat
    BY ReaderAssumption DEF ReaderTypes
  <2>2. QED
    BY <1>1, <1>2, <1>3, <1>6, <2>1, SMTT(60) DEF Refused
<1>8a. CommitsTo(ch, st, after)
  BY <1>1, CommitParts
<1>9. after.delta = delta
  BY <1>1, <1>2, <1>3, <1>5, <1>8a DEF CommitsTo
<1>10. after.timestamp = m.timestamp
  <2>1. CASE ch.fmt = 0
    BY <1>1, <1>5, <2>1, <1>8a, SMTT(60) DEF CommitsTo
  <2>2. CASE ch.fmt # 0
    <3>1. AddsDelta(ch)
      BY <1>2, <1>6, <2>2, SMTT(60) DEF AddsDelta
    <3>2. after.timestamp = Plus(st.timestamp, delta)
      BY <1>1, <1>9, <2>2, <3>1, <1>8a DEF CommitsTo
    <3>3. PICK t : t = st.timestamp /\ t \in 0..(StampRange - 1)
      BY <1>3, <2>2
    <3>4. (t + ((m.timestamp - t) % StampRange)) % StampRange = m.timestamp
      BY <1>2, <3>3, DeltaAdds
    <3>5. QED
      BY <1>3, <2>2, <3>2, <3>3, <3>4 DEF Plus
  <2>3. QED
    BY <2>1, <2>2
<1>11. /\ after.length = m.length /\ after.type = m.type /\ after.msid = m.msid
       /\ after.extended = ch.has_ext /\ after.have_header = TRUE
       /\ after.remaining = m.length - ch.octets
  BY <1>1, <1>2, <1>3, <1>4, <1>6, <1>7, <1>8a, SMTT(60) DEF CommitsTo
<1>12. after.assembling = [i \in 1..ch.octets |-> m]
  <2>1. after.assembling = <<>> \o [i \in 1..ch.octets |-> m]
    BY <1>1, <1>6, <1>7, <1>8a DEF CommitsTo
  <2>2. QED
    BY <1>7, <2>1, SMTT(60)
<1>13. m.length - after.remaining = ch.octets /\ after.remaining <= m.length
  BY <1>2, <1>7, <1>11, SMTT(60)
<1>14. Knows(after, ch)
  BY <1>1, <1>10, <1>11 DEF Knows
<1>15. Carries(after, ch)
  BY <1>1, <1>12, <1>13, <1>14 DEF Carries
<1>16. QED
  BY <1>1, <1>4, <1>7, <1>8, <1>9, <1>11, <1>15 DEF Takes

LEMMA Continues ==
    ASSUME ReaderTypes, NEW ch, Readable(ch), ch.of \in Media \cup Control,
           ch.has_ext \in BOOLEAN, Continuing(ch)
    PROVE  /\ Takes(ch) /\ Carries(Commit(ch), ch) /\ Commit(ch).delta = streams[ch.csid].delta
           /\ Commit(ch).remaining = streams[ch.csid].remaining - ch.octets
<1>1. PICK m, st, after : m = ch.of /\ st = streams[ch.csid] /\ after = Commit(ch)
  OBVIOUS
<1>2. m.length \in Nat /\ chunk_size \in Nat /\ st.remaining \in Nat
  BY <1>1, MessageFacts, SMTT(60) DEF ReaderTypes, Readable, StreamStates
<1>3. /\ ch.fmt = 3 /\ st.remaining > 0 /\ ch.octets = Smaller(st.remaining, chunk_size)
      /\ Knows(st, ch) /\ st.remaining <= m.length
      /\ st.assembling = [i \in 1..(m.length - st.remaining) |-> m]
  BY <1>1 DEF Continuing, Carries
<1>4. /\ st.have_header /\ st.timestamp = m.timestamp /\ st.length = m.length
      /\ st.type = m.type /\ st.msid = m.msid /\ st.extended = ch.has_ext
  BY <1>1, <1>3 DEF Knows
<1>5. /\ ~StartingNew(ch) /\ NewLength(ch) = m.length /\ ~AddsDelta(ch)
      /\ ProspectiveRemaining(ch) = st.remaining /\ Extended(ch) = ch.has_ext
  BY <1>1, <1>2, <1>3, <1>4, SMTT(60) DEF StartingNew, NewLength, AddsDelta, ProspectiveRemaining, Extended
<1>6. ~Refused(ch)
  BY <1>1, <1>3, <1>4, <1>5 DEF Refused
<1>7. Take(ch) = ch.octets /\ ch.octets \in Nat /\ ch.octets <= st.remaining
  BY <1>2, <1>3, <1>5, SMTT(60) DEF Take, Smaller
<1>7a. CommitsTo(ch, st, after)
  BY <1>1, CommitParts
<1>8. /\ after.delta = st.delta /\ after.timestamp = m.timestamp /\ after.length = m.length
      /\ after.type = m.type /\ after.msid = m.msid /\ after.extended = ch.has_ext
      /\ after.have_header = TRUE /\ after.remaining = st.remaining - ch.octets
  <2>1. after.delta = st.delta /\ after.timestamp = m.timestamp
    BY <1>3, <1>4, <1>5, <1>7a, SMTT(60) DEF CommitsTo
  <2>2. after.type = m.type /\ after.msid = m.msid
    BY <1>3, <1>4, <1>7a, SMTT(60) DEF CommitsTo
  <2>3. /\ after.length = m.length /\ after.extended = ch.has_ext /\ after.have_header = TRUE
        /\ after.remaining = st.remaining - ch.octets
    BY <1>5, <1>7, <1>7a DEF CommitsTo
  <2>4. QED
    BY <2>1, <2>2, <2>3
<1>9. after.assembling = st.assembling \o [i \in 1..ch.octets |-> m]
  BY <1>1, <1>5, <1>7, <1>7a DEF CommitsTo
<1>10. PICK a \in Nat : a = m.length - st.remaining
  BY <1>2, <1>3, SMTT(60)
<1>11. after.assembling = [i \in 1..(a + ch.octets) |-> m]
  BY <1>3, <1>7, <1>9, <1>10, Longer, SMTT(60)
<1>12. m.length - after.remaining = a + ch.octets /\ after.remaining <= m.length
  BY <1>2, <1>3, <1>7, <1>8, <1>10, SMTT(60)
<1>13. Knows(after, ch)
  BY <1>1, <1>8 DEF Knows
<1>14. Carries(after, ch)
  BY <1>1, <1>11, <1>12, <1>13 DEF Carries
<1>15. QED
  BY <1>1, <1>5, <1>6, <1>7, <1>8, <1>14 DEF Takes

\* What Body then makes of a chunk that was taken.
LEMMA Delivers ==
    ASSUME ReaderTypes, Body, NEW ch, ch = pending[1], Readable(ch),
           ch.of \in Media \cup Control, ch.csid = ch.of.csid,
           NEW st, st = Commit(ch), Carries(st, ch)
    PROVE  /\ pending' = <<>> /\ ~failed' /\ st \in StreamStates
           /\ st.remaining # 0 => /\ streams' = [streams EXCEPT ![ch.csid] = st]
                                  /\ chunk_size' = chunk_size /\ ready' = ready
           /\ st.remaining = 0 =>
                 /\ ready' = Append(ready, Delivered(ch.of))
                 /\ chunk_size' = IF ch.of.type = "set_chunk_size" THEN ch.of.value ELSE chunk_size
                 /\ \A d \in Csids :
                      LET was == IF d = ch.csid THEN Done(st) ELSE streams[d]
                      IN  streams'[d] = IF ch.of.type = "abort" /\ ch.of.value = d
                                        THEN Dropped(was) ELSE was
<1>1. PICK held, after, freed, value : BodyOf(ch, st, held, after, freed, value)
  BY DEF BodyOf
<1>2. PICK m : m = ch.of
  OBVIOUS
<1>3. /\ pending' = <<>> /\ ~failed
      /\ \/ Continued(ch, st, held)
         \/ /\ Completed(ch, st, after)
            /\ \/ BadSize(st, after, freed, value)
               \/ Aborted(ch, st, after, freed, value)
               \/ Given(ch, st, after, freed, value)
  BY <1>1, BodyCases
<1>4. st \in StreamStates /\ streams \in [Csids -> StreamStates] /\ ch.csid \in Csids
  BY CommitParts DEF ReaderTypes, Readable
<1>5. CASE Continued(ch, st, held)
  BY <1>3, <1>4, <1>5 DEF Continued
<1>6. CASE Completed(ch, st, after)
  <2>1. st.remaining = 0 /\ after = [streams EXCEPT ![ch.csid] = Done(st)]
    BY <1>6 DEF Completed
  <2>2. /\ m.length \in Nat
        /\ m.type \in {"abort", "set_chunk_size"} => m.length = ControlLength
        /\ m.type = "set_chunk_size" => m.value \in Sizes
        /\ m.type = "abort" => m.value \in Csids
    BY <1>2, MessageFacts, ReaderAssumption, SMTT(60)
  <2>3. st.assembling = [i \in 1..m.length |-> m]
    BY <1>2, <2>1, <2>2, SMTT(60) DEF Carries
  <2>4. /\ st.timestamp = m.timestamp /\ st.type = m.type /\ st.msid = m.msid
    BY <1>2 DEF Carries, Knows
  <2>5. Message(ch.csid, st) = Delivered(m)
    BY <1>2, <2>3, <2>4 DEF Message, Delivered
  <2>6. Len(st.assembling) = m.length
    BY <2>2, <2>3, SMTT(60)
  <2>7. m.length > 0 => value = m.value
    BY <1>1, <2>2, <2>3, SMTT(60) DEF BodyOf
  <2>8. /\ \A t \in {"abort", "set_chunk_size"} :
             Controls(st, t) <=> m.type = t
        /\ m.type \in {"abort", "set_chunk_size"} => value = m.value
    BY <2>2, <2>4, <2>6, <2>7, FormatAssumption, SMTT(60) DEF Controls
  <2>9. ~BadSize(st, after, freed, value)
    BY <2>2, <2>8, StreamAssumption DEF BadSize
  <2>10. \A d \in Csids : after[d] = IF d = ch.csid THEN Done(st) ELSE streams[d]
    BY <1>4, <2>1
  <2>11. CASE Aborted(ch, st, after, freed, value)
    <3>1. m.type = "abort" /\ value = m.value /\ value \in Csids
      BY <2>8, <2>11 DEF Aborted
    <3>2. /\ streams' = [after EXCEPT ![m.value] = Dropped(@)]
          /\ ready' = Append(ready, Delivered(m)) /\ chunk_size' = chunk_size /\ ~failed'
      BY <1>3, <2>5, <2>11, <3>1 DEF Aborted
    <3>3. \A d \in Csids : streams'[d] = IF m.value = d THEN Dropped(after[d]) ELSE after[d]
      BY <1>4, <2>1, <3>2
    <3>4. QED
      BY <1>2, <1>3, <1>4, <2>1, <2>10, <3>1, <3>2, <3>3
  <2>12. CASE Given(ch, st, after, freed, value)
    <3>1. ~(m.type = "abort")
      BY <2>2, <2>8, <2>12 DEF Given
    <3>2. /\ streams' = after /\ ready' = Append(ready, Delivered(m)) /\ ~failed'
          /\ chunk_size' = IF m.type = "set_chunk_size" THEN m.value ELSE chunk_size
      BY <1>3, <2>5, <2>8, <2>12 DEF Given
    <3>3. QED
      BY <1>2, <1>3, <1>4, <2>1, <2>10, <3>1, <3>2
  <2>13. QED
    BY <1>3, <1>6, <2>1, <2>9, <2>11, <2>12 DEF Continued
<1>7. QED
  BY <1>3, <1>5, <1>6

-----------------------------------------------------------------------------
(* A ChunkWriter.                                                          *)

\* The chunks that the reader has not finished with.
Line == pending \o wire

\* They are the last r octets of message m, in chunks of the reader's size.
OnTheWay(m, r) ==
    /\ r <= Len(Line) * chunk_size
    /\ (Len(Line) - 1) * chunk_size < r \/ (Len(Line) = 1 /\ r = 0)
    /\ \A i \in 1..Len(Line) :
          /\ Line[i].of = m /\ Line[i].csid = m.csid /\ Line[i].has_ext = (m.timestamp >= Ext)
          /\ i > 1 => Line[i].fmt = 3
          /\ Line[i].octets = (IF i < Len(Line) THEN chunk_size
                               ELSE r - (Len(Line) - 1) * chunk_size)

\* The first of them begins a message, or goes on with what its chunk stream has
\* of it.
Begins0(ch) ==
    LET m == ch.of
    IN  /\ ch.fmt = 0 /\ streams[ch.csid].remaining = 0
        /\ ch.length = m.length /\ ch.type = m.type /\ ch.msid = m.msid
        /\ ch.field = Smaller(m.timestamp, Ext) /\ ch.ext = m.timestamp
        /\ OnTheWay(m, m.length)

GoesOn(ch) ==
    LET st == streams[ch.csid]
    IN  /\ ch.fmt = 3 /\ st.remaining > 0 /\ Carries(st, ch)
        /\ OnTheWay(ch.of, st.remaining)

\* A writer's message is all on the line, and after it reader and writer agree.
WriterInv ==
    sender = "writer" /\ ~Overlong =>
        /\ ~failed
        /\ Line = <<>> => /\ chunk_size = size /\ ready = DeliveredAll(sent)
                          /\ \A c \in Csids : streams[c].remaining = 0
        /\ Line # <<>> =>
              LET ch == Line[1]
              IN  /\ ch.of \in Media \cup Control /\ (Begins0(ch) \/ GoesOn(ch))
                  /\ DeliveredAll(sent) = Append(ready, Delivered(ch.of))
                  /\ size = IF ch.of.type = "set_chunk_size" THEN ch.of.value ELSE chunk_size
                  /\ \A c \in Csids \ {ch.csid} : streams[c].remaining = 0

\* A message that is too long is refused with its first chunk.
LongInv ==
    sender = "writer" /\ Overlong =>
        /\ pending = <<>> /\ DeliveredAll(sent) = Append(ready, Delivered(sent[Len(sent)]))
        /\ failed \/ (wire # <<>> /\ Refused(wire[1]))

LEMMA DeliveredOneMore ==
    ASSUME NEW S, NEW q \in Seq(S), NEW m
    PROVE  DeliveredAll(Append(q, m)) = Append(DeliveredAll(q), Delivered(m))
<1>1. PICK n \in Nat : n = Len(q) /\ DOMAIN q = 1..n
  BY SMTT(60)
<1>2. PICK a, b : a = DeliveredAll(Append(q, m)) /\ b = DeliveredAll(q)
  OBVIOUS
<1>3. Append(q, m)[n + 1] = m /\ \A i \in 1..n : Append(q, m)[i] = q[i]
  BY <1>1, SMTT(60)
<1>4. DOMAIN Append(q, m) = 1..(n + 1)
  BY <1>1, SMTT(60)
<1>5. a = [i \in 1..(n + 1) |-> IF i <= n THEN Delivered(q[i]) ELSE Delivered(m)]
  BY <1>1, <1>2, <1>3, <1>4, SMTT(60) DEF DeliveredAll
<1>6. b = [i \in 1..n |-> Delivered(q[i])]
  BY <1>1, <1>2 DEF DeliveredAll
<1>7. a = Append(b, Delivered(m))
  BY <1>1, <1>5, <1>6, SMTT(60)
<1>8. QED
  BY <1>2, <1>7

LEMMA LineFacts ==
    ASSUME TypeInv
    PROVE  /\ Line \in Seq(ChunksOf(sender)) /\ Len(Line) \in Nat
           /\ Line # <<>> => Line[1] \in ChunksOf(sender)
           /\ pending = <<>> => Line = wire
           /\ Line = <<>> <=> pending = <<>> /\ wire = <<>>
           /\ pending # <<>> => /\ Line[1] = pending[1] /\ Len(Line) = Len(wire) + 1
                                /\ \A i \in 1..Len(wire) : wire[i] = Line[i + 1]
<1>1. PICK S, w, p : S = ChunksOf(sender) /\ w = wire /\ p = pending
  OBVIOUS
<1>2. w \in Seq(S) /\ p \in Seq(S) /\ (p = <<>> \/ Len(p) = 1)
  BY <1>1 DEF TypeInv, SenderTypes, ReaderTypes
<1>3. PICK l : l = p \o w
  OBVIOUS
<1>4. /\ l \in Seq(S) /\ Len(l) \in Nat
      /\ l # <<>> => l[1] \in S
      /\ p = <<>> => l = w
      /\ l = <<>> <=> p = <<>> /\ w = <<>>
  BY <1>2, <1>3, SMTT(60)
<1>5. p # <<>> => /\ l[1] = p[1] /\ Len(l) = Len(w) + 1
                  /\ \A i \in 1..Len(w) : w[i] = l[i + 1]
  <2> SUFFICES ASSUME p # <<>>
               PROVE  /\ l[1] = p[1] /\ Len(l) = Len(w) + 1
                      /\ \A i \in 1..Len(w) : w[i] = l[i + 1]
    OBVIOUS
  <2>1. Len(p) = 1 /\ Len(w) \in Nat
    BY <1>2, SMTT(60)
  <2>2. /\ Len(l) = Len(p) + Len(w)
        /\ \A i \in 1..(Len(p) + Len(w)) : l[i] = IF i <= Len(p) THEN p[i] ELSE w[i - Len(p)]
    BY <1>2, <1>3, SMTT(60)
  <2>3. \A i \in 1..Len(w) : (i + 1) - 1 = i /\ i + 1 \in 1..(1 + Len(w)) /\ ~(i + 1 <= 1)
    BY <2>1, SMTT(60)
  <2>4. QED
    BY <2>1, <2>2, <2>3, SMTT(60)
<1>6. QED
  BY <1>1, <1>3, <1>4, <1>5 DEF Line

\* The line after a step of the reader.
LEMMA LineMoves ==
    ASSUME TypeInv
    PROVE  /\ pending = <<>> /\ wire # <<>> /\ pending' = <<Head(wire)>> /\ wire' = Tail(wire)
                  => Line' = Line /\ Line[1] = Head(wire)
           /\ pending' = <<>> /\ wire' = wire => Line' = wire
<1>1. PICK S : S = ChunksOf(sender) /\ wire \in Seq(S)
  BY DEF TypeInv, SenderTypes
<1>2. PICK w \in Seq(S) : w = wire
  BY <1>1
<1>3. w # <<>> => <<Head(w)>> \o Tail(w) = w /\ w[1] = Head(w)
  <2> SUFFICES ASSUME w # <<>> PROVE <<Head(w)>> \o Tail(w) = w /\ w[1] = Head(w)
    OBVIOUS
  <2>1. PICK n \in Nat : n = Len(w) /\ n > 0
    BY SMTT(60)
  <2>2. PICK t \in Seq(S) : t = Tail(w) /\ Len(t) = n - 1 /\ \A i \in 1..(n - 1) : t[i] = w[i + 1]
    <3>1. /\ Tail(w) \in Seq(S) /\ Len(Tail(w)) = Len(w) - 1
          /\ \A i \in 1..Len(Tail(w)) : Tail(w)[i] = w[i + 1]
      BY HeadTailProperties
    <3>2. QED
      BY <2>1, <3>1
  <2>3. PICK l \in Seq(S) : l = <<Head(w)>> \o t
    BY <2>1, <2>2, SMTT(60)
  <2>4. Len(l) = n /\ l[1] = w[1] /\ \A i \in 2..n : l[i] = t[i - 1]
    BY <2>1, <2>2, <2>3, SMTT(60)
  <2>5. \A i \in 1..n : l[i] = w[i]
    BY <2>1, <2>2, <2>4, SMTT(60)
  <2>6. l = w
    BY <2>1, <2>4, <2>5, SeqEqual
  <2>7. QED
    BY <2>2, <2>3, <2>6, SMTT(60)
<1>4. <<>> \o w = w
  BY SMTT(60)
<1>5. QED
  BY <1>2, <1>3, <1>4 DEF Line

\* The next of n chunks of size s that hold r octets.
LEMMA Piece ==
    ASSUME NEW n \in Nat \ {0}, NEW s \in Nat \ {0}, NEW r \in Nat,
           r <= n * s, (n - 1) * s < r \/ (n = 1 /\ r = 0),
           NEW first, first = IF 1 < n THEN s ELSE r - (n - 1) * s
    PROVE  /\ first = Smaller(r, s)
           /\ n = 1 => r - first = 0
           /\ n > 1 => /\ r - first \in Nat \ {0} /\ r - first <= (n - 1) * s
                       /\ ((n - 1) - 1) * s < r - first
<1>1. CASE n = 1
  BY <1>1, SMTT(60) DEF Smaller
<1>2. CASE n > 1
  <2>1. PICK k \in Nat : n = k + 2
    BY <1>2, SMTT(60)
  <2>2. PICK e \in Nat : e = k * s
    BY <2>1, SMTT(60)
  <2>3. /\ n * s = e + s + s /\ (n - 1) * s = e + s /\ ((n - 1) - 1) * s = e
    BY <2>1, <2>2, SMTT(60)
  <2>4. QED
    BY <1>2, <2>1, <2>2, <2>3, SMTT(60) DEF Smaller
<1>3. QED
  BY <1>1, <1>2, SMTT(60)

\* With no message begun the reader has all of its budget.
LEMMA NothingHeld ==
    ASSUME BudgetInv, \A c \in Csids : streams[c].remaining = 0
    PROVE  assembling_bytes = 0
<1>1. \A c \in Csids : {c} \X (1..Committed(streams[c])) = {}
  <2> SUFFICES ASSUME NEW c \in Csids PROVE {c} \X (1..Committed(streams[c])) = {}
    OBVIOUS
  <2>1. streams[c].assembling = <<>> /\ streams[c].remaining = 0
    BY DEF BudgetInv
  <2>2. Committed(streams[c]) = 0
    BY <2>1, SMTT(60) DEF Committed
  <2>3. QED
    BY <2>2, SMTT(60)
<1>2. Outstanding = {}
  BY <1>1 DEF Outstanding
<1>3. QED
  BY <1>2, FS_EmptySet DEF BudgetInv, BudgetExact

\* What WriterInv says of the chunk the reader comes to, with the octets r that
\* are on the line.
Coming(ch, r) ==
    /\ r \in Nat /\ OnTheWay(ch.of, r) /\ ch.csid = ch.of.csid /\ ch.has_ext = (ch.of.timestamp >= Ext)
    /\ ch \in WriterChunks /\ ch.octets = Smaller(r, chunk_size)
    /\ Takes(ch) /\ Carries(Commit(ch), ch) /\ Commit(ch).remaining = r - ch.octets

LEMMA WriterTakes ==
    ASSUME TypeInv, BudgetInv, WriterInv, sender = "writer", ~Overlong,
           Line # <<>>, NEW ch, ch = Line[1]
    PROVE  \E r \in Nat : Coming(ch, r)
<1>1. /\ ch \in WriterChunks /\ Readable(ch) /\ ch.of \in Media \cup Control
      /\ ch.has_ext \in BOOLEAN /\ ch.csid \in Csids
  <2>1. ch \in ChunksOf("writer")
    BY LineFacts
  <2>2. ch \in WriterChunks
    BY <2>1 DEF ChunksOf
  <2>3. QED
    BY <2>1, <2>2, SenderChunks DEF WriterChunks, WriterInv
<1>2. /\ ch.of.length \in Nat /\ ch.of.length <= kMaxMessageSize /\ ch.of.timestamp \in Nat
      /\ kMaxMessageSize <= kMaxOutstanding /\ kMaxMessageSize \in Nat /\ kMaxOutstanding \in Nat
  BY <1>1, MessageFacts, ReaderAssumption, StreamAssumption, SMTT(60) DEF Messages
<1>3. /\ Begins0(ch) \/ GoesOn(ch)
      /\ \A c \in Csids \ {ch.csid} : streams[c].remaining = 0
  BY DEF WriterInv
<1>4. ReaderTypes /\ chunk_size \in Nat \ {0} /\ streams[ch.csid].remaining \in Nat
  BY <1>1 DEF TypeInv, ReaderTypes, StreamStates
<1>5. ASSUME NEW r \in Nat, OnTheWay(ch.of, r)
      PROVE  /\ ch.csid = ch.of.csid /\ ch.has_ext = (ch.of.timestamp >= Ext)
             /\ ch.octets = Smaller(r, chunk_size)
  <2>1. PICK n \in Nat \ {0} : n = Len(Line) /\ 1 \in 1..n
    <3>1. PICK S : Line \in Seq(S)
      BY LineFacts
    <3>2. QED
      BY <3>1, SMTT(60)
  <2>2. /\ r <= n * chunk_size
        /\ (n - 1) * chunk_size < r \/ (n = 1 /\ r = 0)
        /\ ch.csid = ch.of.csid /\ ch.has_ext = (ch.of.timestamp >= Ext)
        /\ ch.octets = (IF 1 < n THEN chunk_size ELSE r - (n - 1) * chunk_size)
    BY <1>5, <2>1 DEF OnTheWay
  <2>3. ch.octets = Smaller(r, chunk_size)
    <3>1. PICK s, first : s = chunk_size /\ s \in Nat \ {0} /\ first = ch.octets
      BY <1>4
    <3>2. /\ r <= n * s
          /\ (n - 1) * s < r \/ (n = 1 /\ r = 0)
          /\ first = IF 1 < n THEN s ELSE r - (n - 1) * s
      BY <2>2, <3>1
    <3>3. first = Smaller(r, s)
      BY <3>1, <3>2, Piece
    <3>4. QED
      BY <3>1, <3>3
  <2>4. QED
    BY <2>2, <2>3
<1>6. CASE Begins0(ch)
  <2>1. /\ ch.fmt = 0 /\ streams[ch.csid].remaining = 0
        /\ ch.length = ch.of.length /\ ch.type = ch.of.type /\ ch.msid = ch.of.msid
        /\ ch.field = Smaller(ch.of.timestamp, Ext) /\ ch.ext = ch.of.timestamp
        /\ OnTheWay(ch.of, ch.of.length)
    BY <1>6 DEF Begins0
  <2>2. assembling_bytes = 0
    BY <1>3, <2>1, NothingHeld
  <2>3. /\ ch.csid = ch.of.csid /\ ch.has_ext = (ch.of.timestamp >= Ext)
        /\ ch.octets = Smaller(ch.of.length, chunk_size)
    BY <1>2, <1>5, <2>1
  <2>4. assembling_bytes + ch.of.length <= kMaxOutstanding
    BY <1>2, <2>2, SMTT(60)
  <2>5. Starting(ch, 0)
    BY <2>1, <2>3, <2>4, SMTT(60) DEF Starting
  <2>6. Takes(ch) /\ Carries(Commit(ch), ch) /\ Commit(ch).remaining = ch.of.length - ch.octets
    BY <1>1, <1>4, <2>5, Starts
  <2>7. QED
    BY <1>1, <1>2, <2>1, <2>3, <2>6 DEF Coming
<1>7. CASE GoesOn(ch)
  <2>1. PICK r \in Nat : r = streams[ch.csid].remaining
    BY <1>4
  <2>2. ch.fmt = 3 /\ r > 0 /\ Carries(streams[ch.csid], ch) /\ OnTheWay(ch.of, r)
    BY <1>7, <2>1 DEF GoesOn
  <2>3. /\ ch.csid = ch.of.csid /\ ch.has_ext = (ch.of.timestamp >= Ext)
        /\ ch.octets = Smaller(r, chunk_size)
    BY <1>5, <2>2
  <2>4. Continuing(ch)
    BY <2>1, <2>2, <2>3 DEF Continuing
  <2>5. Takes(ch) /\ Carries(Commit(ch), ch) /\ Commit(ch).remaining = r - ch.octets
    BY <1>1, <1>4, <2>1, <2>4, Continues
  <2>6. QED
    BY <1>1, <2>2, <2>3, <2>5 DEF Coming
<1>8. QED
  BY <1>3, <1>6, <1>7

\* WriterInv is about the line, not about where in it the reader is.
LEMMA WriterSame ==
    ASSUME WriterInv, Line' = Line,
           UNCHANGED <<sender, failed, streams, chunk_size, size, ready, sent>>
    PROVE  WriterInv'
  BY DEF WriterInv, Begins0, GoesOn, OnTheWay, Overlong

\* A message is written.
LEMMA WriterSends ==
    ASSUME TypeInv, WriterInv, ~Overlong, NEW m \in Media \cup Control,
           Says(m, IF m.type = "set_chunk_size" THEN m.value ELSE size)
    PROVE  WriterInv'
<1>1. /\ UNCHANGED <<streams, chunk_size, failed, ready, pending>> /\ pending = <<>>
      /\ Line = <<>> /\ sender = "writer" /\ wire' = Chunks(m, size)
      /\ sent' = Append(sent, m) /\ size' = IF m.type = "set_chunk_size" THEN m.value ELSE size
  BY LineFacts DEF Says, readerVars
<1>2. /\ chunk_size = size /\ ready = DeliveredAll(sent) /\ ~failed
      /\ \A c \in Csids : streams[c].remaining = 0
  BY <1>1 DEF WriterInv
<1>3. PICK s, q : s \in Nat \ {0} /\ s = size /\ q = Chunks(m, s)
  BY DEF TypeInv, SenderTypes
<1>4. WrittenAs(m, s, q)
  BY <1>3, WrittenChunks DEF Sendable
<1>5. Line' = q /\ q # <<>> /\ Len(q) \in Nat /\ 1 \in 1..Len(q)
  <2>1. <<>> \o q = q /\ q # <<>> /\ Len(q) \in Nat /\ 1 \in 1..Len(q)
    BY <1>4, SMTT(60) DEF WrittenAs
  <2>2. Line' = <<>> \o q
    BY <1>1, <1>3 DEF Line
  <2>3. QED
    BY <2>1, <2>2
<1>6. OnTheWay(m, m.length)'
  <2>1. \A i \in 1..Len(q) : i > 1 => q[i].fmt = 3
    BY <1>4, <1>5, SMTT(60) DEF WrittenAs
  <2>2. QED
    BY <1>1, <1>2, <1>3, <1>4, <1>5, <2>1 DEF OnTheWay, WrittenAs
<1>7. Begins0(q[1])'
  <2>1. m.csid \in Csids /\ m.timestamp \in Nat /\ Ext \in Nat
    BY MessageFacts, FormatAssumption, SMTT(60) DEF Messages
  <2>2. (IF m.timestamp >= Ext THEN Ext ELSE m.timestamp) = Smaller(m.timestamp, Ext)
    BY <2>1, SMTT(60) DEF Smaller
  <2>3. /\ q[1].fmt = 0 /\ q[1].of = m /\ q[1].csid = m.csid /\ q[1].ext = m.timestamp
        /\ q[1].field = Smaller(m.timestamp, Ext)
        /\ q[1].length = m.length /\ q[1].type = m.type /\ q[1].msid = m.msid
    BY <1>4, <1>5, <2>2 DEF WrittenAs
  <2>4. streams'[q[1].csid].remaining = 0
    BY <1>1, <1>2, <2>1, <2>3
  <2>5. QED
    BY <1>6, <2>3, <2>4 DEF Begins0
<1>8. q[1].of = m /\ q[1].csid = m.csid
  BY <1>4, <1>5 DEF WrittenAs
<1>9. DeliveredAll(sent)' = Append(ready', Delivered(m))
  <2>1. sent \in Seq(Sendable(sender))
    BY DEF TypeInv, SenderTypes
  <2>2. QED
    BY <1>1, <1>2, <2>1, DeliveredOneMore
<1>10. QED
  BY <1>1, <1>2, <1>5, <1>7, <1>8, <1>9 DEF WriterInv

\* The reader has a chunk's body.
LEMMA WriterBody ==
    ASSUME TypeInv, BudgetInv, WriterInv, sender = "writer", ~Overlong, FeedBody
    PROVE  WriterInv'
<1>1. PICK ch : ch = pending[1]
  OBVIOUS
<1>2. /\ Body /\ pending # <<>> /\ pending' = <<>>
      /\ UNCHANGED <<sender, wire, size, peer, sent>>
  BY DEF FeedBody, Body
<1>3. /\ ch = Line[1] /\ Line # <<>> /\ Line' = wire /\ Len(Line) = Len(wire) + 1
      /\ wire \in Seq(WriterChunks) /\ Len(wire) \in Nat
      /\ \A i \in 1..Len(wire) : wire[i] = Line[i + 1]
  <2>1. wire \in Seq(WriterChunks)
    BY DEF TypeInv, SenderTypes, ChunksOf
  <2>2. Len(wire) \in Nat
    BY <2>1, SMTT(60)
  <2>3. QED
    BY <1>1, <1>2, <2>1, <2>2, LineFacts, LineMoves
<1>4. PICK r \in Nat : Coming(ch, r)
  BY <1>3, WriterTakes
<1>5. /\ OnTheWay(ch.of, r) /\ ch.csid = ch.of.csid /\ ch.has_ext = (ch.of.timestamp >= Ext)
      /\ ch \in WriterChunks /\ ch.octets = Smaller(r, chunk_size)
      /\ Takes(ch) /\ Carries(Commit(ch), ch) /\ Commit(ch).remaining = r - ch.octets
  BY <1>4 DEF Coming
<1>6. /\ Readable(ch) /\ ch.of \in Media \cup Control /\ ReaderTypes /\ ch.csid \in Csids
      /\ chunk_size \in Nat \ {0} /\ streams \in [Csids -> StreamStates]
  <2>1. Readable(ch) /\ ch.of \in Media \cup Control
    BY <1>3, <1>5, SenderChunks DEF ChunksOf, WriterInv
  <2>2. QED
    BY <2>1 DEF TypeInv, ReaderTypes, Readable
<1>7. PICK st : st = Commit(ch) /\ st.remaining = r - ch.octets /\ Carries(st, ch)
  BY <1>5
<1>8. /\ ~failed' /\ st \in StreamStates
      /\ st.remaining # 0 => /\ streams' = [streams EXCEPT ![ch.csid] = st]
                             /\ chunk_size' = chunk_size /\ ready' = ready
      /\ st.remaining = 0 =>
            /\ ready' = Append(ready, Delivered(ch.of))
            /\ chunk_size' = IF ch.of.type = "set_chunk_size" THEN ch.of.value ELSE chunk_size
            /\ \A d \in Csids :
                 LET was == IF d = ch.csid THEN Done(st) ELSE streams[d]
                 IN  streams'[d] = IF ch.of.type = "abort" /\ ch.of.value = d
                                   THEN Dropped(was) ELSE was
  BY <1>1, <1>2, <1>5, <1>6, <1>7, Delivers, SMTT(60)
<1>9. /\ DeliveredAll(sent) = Append(ready, Delivered(ch.of))
      /\ size = IF ch.of.type = "set_chunk_size" THEN ch.of.value ELSE chunk_size
      /\ \A c \in Csids \ {ch.csid} : streams[c].remaining = 0
  BY <1>3 DEF WriterInv
<1>10. PICK n \in Nat \ {0}, s \in Nat \ {0} : n = Len(Line) /\ s = chunk_size /\ Len(wire) = n - 1
  BY <1>3, <1>6, SMTT(60)
<1>11. /\ r <= n * s
       /\ (n - 1) * s < r \/ (n = 1 /\ r = 0)
       /\ ch.octets = IF 1 < n THEN s ELSE r - (n - 1) * s
       /\ \A i \in 1..n :
             /\ Line[i].of = ch.of /\ Line[i].csid = ch.csid
             /\ Line[i].has_ext = (ch.of.timestamp >= Ext)
             /\ i > 1 => Line[i].fmt = 3
             /\ Line[i].octets = IF i < n THEN s ELSE r - (n - 1) * s
  <2>1. /\ r <= n * s
        /\ (n - 1) * s < r \/ (n = 1 /\ r = 0)
        /\ \A i \in 1..n :
              /\ Line[i].of = ch.of /\ Line[i].csid = ch.of.csid
              /\ Line[i].has_ext = (ch.of.timestamp >= Ext)
              /\ i > 1 => Line[i].fmt = 3
              /\ Line[i].octets = IF i < n THEN s ELSE r - (n - 1) * s
    BY <1>5, <1>10 DEF OnTheWay
  <2>2. 1 \in 1..n
    BY <1>10, SMTT(60)
  <2>3. QED
    BY <1>3, <1>5, <2>1, <2>2
<1>12. PICK first : first = ch.octets
  OBVIOUS
<1>13. /\ n = 1 => r - first = 0
       /\ n > 1 => /\ r - first \in Nat \ {0} /\ r - first <= (n - 1) * s
                   /\ ((n - 1) - 1) * s < r - first
  <2>1. first = IF 1 < n THEN s ELSE r - (n - 1) * s
    BY <1>11, <1>12
  <2>2. QED
    BY <1>11, <2>1, Piece
<1>14. CASE n = 1
  <2>1. st.remaining = 0
    BY <1>7, <1>12, <1>13, <1>14
  <2>2. Line' = <<>>
    BY <1>3, <1>10, <1>14, SMTT(60)
  <2>3. \A d \in Csids : streams'[d].remaining = 0
    <3> SUFFICES ASSUME NEW d \in Csids PROVE streams'[d].remaining = 0
      OBVIOUS
    <3>1. PICK was : /\ was = IF d = ch.csid THEN Done(st) ELSE streams[d]
                     /\ streams'[d] = Dropped(was) \/ streams'[d] = was
      BY <1>8, <2>1
    <3>2. was \in StreamStates /\ was.remaining = 0
      BY <1>6, <1>8, <1>9, <2>1, <3>1, CompleteTypes
    <3>3. QED
      BY <3>1, <3>2, CompleteTypes
  <2>4. QED
    BY <1>2, <1>8, <1>9, <2>1, <2>2, <2>3 DEF WriterInv
<1>15. CASE n > 1
  <2>1. PICK left \in Nat \ {0} : /\ left = r - first /\ st.remaining = left
                                  /\ left <= (n - 1) * s /\ ((n - 1) - 1) * s < left
    BY <1>7, <1>12, <1>13, <1>15
  <2>2. /\ streams' = [streams EXCEPT ![ch.csid] = st]
        /\ chunk_size' = chunk_size /\ ready' = ready
    BY <1>8, <2>1
  <2>3. \A i \in 1..(n - 1) :
             /\ wire[i].of = ch.of /\ wire[i].csid = ch.csid
             /\ wire[i].has_ext = (ch.of.timestamp >= Ext) /\ wire[i].fmt = 3
             /\ wire[i].octets = IF i < n - 1 THEN s ELSE left - ((n - 1) - 1) * s
    <3> SUFFICES ASSUME NEW i \in 1..(n - 1)
                 PROVE  /\ wire[i].of = ch.of /\ wire[i].csid = ch.csid
                        /\ wire[i].has_ext = (ch.of.timestamp >= Ext) /\ wire[i].fmt = 3
                        /\ wire[i].octets = IF i < n - 1 THEN s ELSE left - ((n - 1) - 1) * s
      OBVIOUS
    <3>1. wire[i] = Line[i + 1] /\ i + 1 \in 1..n /\ i + 1 > 1 /\ (i + 1 < n <=> i < n - 1)
      BY <1>3, <1>10, <1>15, SMTT(60)
    <3>2. r - (n - 1) * s = left - ((n - 1) - 1) * s
      <4>1. first = s
        BY <1>11, <1>12, <1>15
      <4>2. (n - 1) * s = ((n - 1) - 1) * s + s
        BY <1>15, SMTT(60)
      <4>3. QED
        BY <1>15, <2>1, <4>1, <4>2, SMTT(60)
    <3>3. QED
      BY <1>11, <3>1, <3>2, SMTT(60)
  <2>4. Line' = wire /\ Len(wire) = n - 1 /\ wire # <<>> /\ 1 \in 1..(n - 1)
    BY <1>3, <1>10, <1>15, SMTT(60)
  <2>5. /\ wire[1].of = ch.of /\ wire[1].csid = ch.csid /\ wire[1].fmt = 3
        /\ wire[1].has_ext = ch.has_ext
    BY <1>5, <2>3, <2>4
  <2>6. OnTheWay(ch.of, left)'
    <3>1. /\ left <= Len(wire) * s
          /\ (Len(wire) - 1) * s < left
      BY <2>1, <2>4
    <3>2. \A i \in 1..Len(wire) :
             /\ wire[i].of = ch.of /\ wire[i].csid = ch.of.csid
             /\ wire[i].has_ext = (ch.of.timestamp >= Ext)
             /\ i > 1 => wire[i].fmt = 3
             /\ wire[i].octets = IF i < Len(wire) THEN s ELSE left - (Len(wire) - 1) * s
      BY <1>5, <2>3, <2>4
    <3>3. QED
      BY <1>10, <2>2, <2>4, <3>1, <3>2 DEF OnTheWay
  <2>7. streams'[ch.csid] = st /\ \A d \in Csids \ {ch.csid} : streams'[d] = streams[d]
    BY <1>6, <2>2
  <2>8. Carries(st, wire[1])
    BY <1>7, <2>5 DEF Carries, Knows
  <2>9. PICK next : next = wire[1]
    OBVIOUS
  <2>10. GoesOn(next)'
    BY <2>1, <2>5, <2>6, <2>7, <2>8, <2>9, SMTT(60) DEF GoesOn
  <2>11. QED
    BY <1>2, <1>6, <1>8, <1>9, <2>2, <2>4, <2>5, <2>7, <2>9, <2>10 DEF WriterInv
<1>16. QED
  BY <1>14, <1>15, SMTT(60)

\* The last message is the one that was just written.
LEMMA SaysLast ==
    ASSUME SenderTypes, NEW m, NEW n, Says(m, n)
    PROVE  sent' # <<>> /\ sent'[Len(sent')] = m
<1>1. PICK S : sent \in Seq(S)
  BY DEF SenderTypes
<1>2. Append(sent, m) # <<>> /\ Append(sent, m)[Len(Append(sent, m))] = m
  BY <1>1, SMTT(60)
<1>3. QED
  BY <1>2 DEF Says

LEMMA SaysLong ==
    ASSUME SenderTypes, NEW m \in Long, NEW n, Says(m, n)
    PROVE  Overlong'
  BY SaysLast DEF Overlong, Long

LEMMA SaysShort ==
    ASSUME SenderTypes, NEW m \in Media \cup Control, NEW n, Says(m, n)
    PROVE  ~Overlong'
<1>1. m.length \in 0..kMaxMessageSize /\ kMaxMessageSize \in Nat
  BY MessageFacts, ReaderAssumption
<1>2. ~(m.length > kMaxMessageSize)
  BY <1>1, SMTT(60)
<1>3. QED
  BY <1>2, SaysLast DEF Overlong

LEMMA WriterStep ==
    TypeInv /\ BudgetInv /\ WriterInv /\ LongInv /\ [Next]_vars => WriterInv'
<1> SUFFICES ASSUME TypeInv, BudgetInv, WriterInv, LongInv, [Next]_vars,
                    sender' = "writer", ~Overlong'
             PROVE  WriterInv'
  BY DEF WriterInv
<1>0. SenderTypes
  BY DEF TypeInv
<1>1. CASE FeedHeader
  <2>1. PICK ch : ch = Head(wire)
    OBVIOUS
  <2>2. /\ wire # <<>> /\ pending = <<>> /\ wire' = Tail(wire)
        /\ \/ Refused(ch) \/ (pending' = <<ch>> /\ failed' = failed)
        /\ UNCHANGED <<sender, streams, chunk_size, size, ready, sent>>
    BY <1>0, <1>1, <2>1, HeaderStep
  <2>7. ~Overlong
    BY <2>2 DEF Overlong
  <2>3. Line = wire /\ Line[1] = ch /\ Line # <<>>
    <3>1. PICK S : wire \in Seq(S)
      BY <1>0 DEF SenderTypes
    <3>2. wire[1] = Head(wire)
      BY <2>2, <3>1, SMTT(60)
    <3>3. QED
      BY <2>1, <2>2, <3>2, LineFacts
  <2>4. ~Refused(ch)
    BY <2>2, <2>7, <2>3, WriterTakes DEF Coming, Takes
  <2>5. Line' = Line
    BY <2>1, <2>2, <2>4, LineMoves
  <2>6. QED
    BY <2>2, <2>4, <2>5, WriterSame
<1>2. CASE FeedBody
  BY <1>2, WriterBody DEF FeedBody, Overlong
<1>3. ASSUME NEW n \in Sizes, Says(ChunkSizeMessage(n), n) PROVE WriterInv'
  <2>1. /\ ChunkSizeMessage(n).type = "set_chunk_size" /\ ChunkSizeMessage(n).value = n
        /\ ChunkSizeMessage(n) \in Media \cup Control
    BY MessageTypes DEF ChunkSizeMessage
  <2>2. ~Overlong
    BY <1>3 DEF Says, LongInv
  <2>3. QED
    BY <1>3, <2>1, <2>2, WriterSends
<1>4. ASSUME NEW m \in Media \cup Long, Says(m, size) PROVE WriterInv'
  <2>1. m.type # "set_chunk_size"
    BY DEF Media, Long, AnyMedia
  <2>2. ~Overlong
    BY <1>4 DEF Says, LongInv
  <2>3. CASE m \in Media
    BY <1>4, <2>1, <2>2, <2>3, WriterSends
  <2>4. CASE m \in Long
    BY <1>0, <1>4, <2>4, SaysLong
  <2>5. QED
    BY <2>3, <2>4
<1>5. ASSUME NEW c \in Csids, PeerContinue(c) PROVE FALSE
  BY <1>5 DEF PeerContinue, Sends
<1>6. ASSUME NEW m, NEW fmt, PeerBegin(m, fmt) PROVE FALSE
  <2>1. sender = "peer" /\ sender' = sender
    BY <1>6 DEF PeerBegin, Sends
  <2>2. QED
    BY <2>1
<1>7. ASSUME NEW m, NEW fmt, SendAny(m, fmt) PROVE FALSE
  BY <1>7 DEF SendAny, Sends
<1>8. CASE Nothing
  <2>1. Line' = Line /\ UNCHANGED <<sender, failed, streams, chunk_size, size, ready, sent>>
    BY <1>8 DEF Line, Nothing, readerVars
  <2>2. QED
    BY <2>1, WriterSame
<1>9. QED
  BY <1>1, <1>2, <1>3, <1>4, <1>5, <1>6, <1>7, <1>8, Steps

\* The first chunk of a message that is too long.
LEMMA LongSends ==
    ASSUME TypeInv, WriterInv, ~Overlong, NEW m \in Long, Says(m, size)
    PROVE  LongInv'
<1>1. /\ UNCHANGED <<streams, chunk_size, assembling_bytes, failed, ready, pending>>
      /\ pending = <<>> /\ Line = <<>> /\ sender = "writer" /\ wire' = Chunks(m, size)
      /\ sent' = Append(sent, m)
  BY LineFacts DEF Says, readerVars
<1>2. ready = DeliveredAll(sent) /\ \A c \in Csids : streams[c].remaining = 0
  BY <1>1 DEF WriterInv
<1>3. DeliveredAll(sent)' = Append(ready', Delivered(sent'[Len(sent')]))
  <2>1. sent \in Seq(Sendable(sender))
    BY DEF TypeInv, SenderTypes
  <2>2. sent'[Len(sent')] = m
    BY SaysLast DEF TypeInv
  <2>3. QED
    BY <1>1, <1>2, <2>1, <2>2, DeliveredOneMore
<1>4. WrittenAs(m, size, wire')
  BY <1>1, WrittenChunks DEF Sendable, TypeInv, SenderTypes
<1>5. PICK ch : ch = wire'[1] /\ wire' # <<>> /\ ch.fmt = 0 /\ ch.csid = m.csid /\ ch.length = m.length
  <2>1. wire' # <<>> /\ 1 \in 1..Len(wire')
    BY <1>4, SMTT(60) DEF WrittenAs
  <2>2. QED
    BY <1>4, <2>1 DEF WrittenAs
<1>6. m.csid \in Csids /\ m.length > kMaxMessageSize
  BY DEF Long, AnyMedia
<1>7. Refused(ch)'
  <2>1. streams'[ch.csid].remaining = 0
    BY <1>1, <1>2, <1>5, <1>6
  <2>2. (IF ch.fmt <= 1 THEN ch.length ELSE streams'[ch.csid].length) = m.length
    BY <1>5, SMTT(60)
  <2>3. QED
    BY <1>6, <2>1, <2>2 DEF Refused, StartingNew, ProspectiveRemaining, NewLength
<1>8. QED
  BY <1>1, <1>3, <1>5, <1>7 DEF LongInv

LEMMA LongStep == TypeInv /\ WriterInv /\ LongInv /\ [Next]_vars => LongInv'
<1> SUFFICES ASSUME TypeInv, WriterInv, LongInv, [Next]_vars, sender' = "writer", Overlong'
             PROVE  LongInv'
  BY DEF LongInv
<1>0. SenderTypes
  BY DEF TypeInv
<1>1. CASE FeedHeader
  <2>1. /\ wire # <<>> /\ ~failed /\ pending = <<>>
        /\ \/ Refused(Head(wire)) /\ failed' = TRUE /\ pending' = pending
           \/ ~Refused(Head(wire))
        /\ UNCHANGED <<sender, ready, sent>>
    BY <1>0, <1>1, HeaderStep
  <2>2. Overlong /\ Refused(wire[1])
    BY <2>1 DEF Overlong, LongInv
  <2>3. wire[1] = Head(wire)
    BY SMTT(60)
  <2>4. QED
    BY <2>1, <2>2, <2>3 DEF LongInv
<1>2. CASE FeedBody
  <2>1. pending # <<>> /\ UNCHANGED <<sender, sent>>
    BY <1>2 DEF FeedBody, Body
  <2>2. QED
    BY <2>1 DEF LongInv, Overlong
<1>3. ASSUME NEW n \in Sizes, Says(ChunkSizeMessage(n), n) PROVE FALSE
  BY <1>0, <1>3, MessageTypes, SaysShort
<1>4. ASSUME NEW m \in Media, Says(m, size) PROVE FALSE
  BY <1>0, <1>4, SaysShort
<1>5. ASSUME NEW m \in Long, Says(m, size) PROVE LongInv'
  <2>1. ~Overlong
    BY <1>5 DEF Says, LongInv
  <2>2. QED
    BY <1>5, <2>1, LongSends
<1>6. ASSUME NEW c \in Csids, PeerContinue(c) PROVE FALSE
  BY <1>6 DEF PeerContinue, Sends
<1>7. ASSUME NEW m, NEW fmt, PeerBegin(m, fmt) PROVE FALSE
  <2>1. sender = "peer" /\ sender' = sender
    BY <1>7 DEF PeerBegin, Sends
  <2>2. QED
    BY <2>1
<1>8. ASSUME NEW m, NEW fmt, SendAny(m, fmt) PROVE FALSE
  BY <1>8 DEF SendAny, Sends
<1>9. CASE Nothing
  <2>1. UNCHANGED <<sender, wire, sent, streams, assembling_bytes, failed, ready, pending>>
    BY <1>9 DEF Nothing, readerVars
  <2>2. QED
    BY <2>1 DEF LongInv, Overlong, Refused, StartingNew, ProspectiveRemaining, NewLength
<1>10. QED
  BY <1>1, <1>2, <1>3, <1>4, <1>5, <1>6, <1>7, <1>8, <1>9, Steps

-----------------------------------------------------------------------------
(* A peer that interleaves messages.                                       *)

\* What the peer and the reader have of a chunk stream is the same.
InStep(c) ==
    LET p == peer[c]  st == streams[c]
    IN  /\ st.remaining = p.left
        /\ p.header # <<>> => /\ Knows(st, p.header[1]) /\ st.delta = p.header[1].delta
                              /\ p.header[1].csid = c /\ p.header[1].of.csid = c
        /\ p.left > 0 => Carries(st, p.header[1])

\* The peer's chunk stream c, when the reader has st after chunk ch.
AfterChunk(ch, st, c) ==
    IF st.remaining = 0 /\ ch.of.type = "abort" /\ ch.of.value = c THEN peer[c] = Idle
    ELSE IF c = ch.csid THEN peer[c] = [header |-> <<ch>>, left |-> st.remaining]
    ELSE InStep(c)

\* The chunk is taken, and once the reader has st after it the two agree.
Sent(ch, st) ==
    /\ Takes(ch) /\ Carries(st, ch) /\ st.delta = ch.delta /\ ch.csid = ch.of.csid
    /\ DeliveredAll(sent) = IF st.remaining = 0 THEN Append(ready, Delivered(ch.of)) ELSE ready
    /\ size = IF st.remaining = 0 /\ ch.of.type = "set_chunk_size" THEN ch.of.value
              ELSE chunk_size
    /\ \A c \in Csids : AfterChunk(ch, st, c)

\* The peer sends one chunk at a time.
PeerInv ==
    sender = "peer" =>
        /\ ~failed /\ Len(Line) <= 1
        /\ Line = <<>> => /\ chunk_size = size /\ ready = DeliveredAll(sent)
                          /\ \A c \in Csids : InStep(c)
        /\ Line # <<>> => Sent(Line[1], Commit(Line[1]))

\* A remembered header, and nothing left.
LEMMA OneHeader ==
    /\ ~(0 > 0)
    /\ \A ch : <<ch>> # <<>> /\ <<ch>>[1] = ch
  BY SMTT(60)

\* Between two chunks the peer has begun what the reader holds room for.
LEMMA SameUnfinished ==
    ASSUME TypeInv, BudgetInv, \A c \in Csids : InStep(c)
    PROVE  Unfinished = Outstanding
<1>1. ASSUME NEW c \in Csids, peer[c].left > 0
      PROVE  Committed(streams[c]) = peer[c].header[1].of.length
  <2>1. PICK st, m : st = streams[c] /\ m = peer[c].header[1].of
    OBVIOUS
  <2>2. /\ st.remaining = peer[c].left /\ st.remaining <= m.length
        /\ st.assembling = [i \in 1..(m.length - st.remaining) |-> m]
    BY <1>1, <2>1, SMTT(60) DEF InStep, Carries
  <2>3. m \in Media \cup Control
    <3>1. peer[c] \in PeerStates /\ peer[c].header # <<>>
      BY <1>1 DEF TypeInv, SenderTypes
    <3>2. peer[c].header[1] \in PeerChunks
      BY <3>1, SMTT(60) DEF PeerStates
    <3>3. QED
      BY <2>1, <3>2 DEF PeerChunks
  <2>4. m.length \in Nat /\ st.remaining \in Nat
    BY <2>1, <2>3, MessageFacts, ReaderAssumption, SMTT(60) DEF TypeInv, ReaderTypes, StreamStates
  <2>5. Len(st.assembling) = m.length - st.remaining
    BY <2>2, <2>4, SMTT(60)
  <2>6. QED
    BY <2>1, <2>4, <2>5, SMTT(60) DEF Committed
<1>2. ASSUME NEW c \in Csids, ~(peer[c].left > 0) PROVE Committed(streams[c]) = 0
  <2>1. peer[c] \in PeerStates
    BY DEF TypeInv, SenderTypes
  <2>2. peer[c].left = 0
    BY <1>2, <2>1, SMTT(60) DEF PeerStates
  <2>3. streams[c].remaining = 0 /\ streams[c].assembling = <<>>
    BY <2>2 DEF InStep, BudgetInv
  <2>4. QED
    BY <2>3, SMTT(60) DEF Committed
<1>3. ASSUME NEW x PROVE x \in Unfinished <=> x \in Outstanding
  <2>1. ASSUME x \in Unfinished PROVE x \in Outstanding
    <3>1. PICK c \in Csids : peer[c].left > 0 /\ x \in {c} \X (1..peer[c].header[1].of.length)
      BY <2>1 DEF Unfinished
    <3>2. x \in {c} \X (1..Committed(streams[c]))
      BY <1>1, <3>1
    <3>3. QED
      BY <3>2 DEF Outstanding
  <2>2. ASSUME x \in Outstanding PROVE x \in Unfinished
    <3>1. PICK c \in Csids : x \in {c} \X (1..Committed(streams[c]))
      BY <2>2 DEF Outstanding
    <3>2. peer[c].left > 0
      <4> SUFFICES ASSUME ~(peer[c].left > 0) PROVE FALSE
        OBVIOUS
      <4>1. Committed(streams[c]) = 0
        BY <1>2
      <4>2. QED
        BY <3>1, <4>1, SMTT(60)
    <3>3. x \in {c} \X (1..peer[c].header[1].of.length)
      BY <1>1, <3>1, <3>2
    <3>4. c \in {d \in Csids : peer[d].left > 0}
      BY <3>2
    <3>5. QED
      BY <3>3, <3>4 DEF Unfinished
  <2>3. QED
    BY <2>1, <2>2
<1>4. QED
  BY <1>3

\* What the reader makes of a chunk depends on its own state only.
LEMMA SameReader ==
    ASSUME UNCHANGED <<streams, chunk_size, assembling_bytes>>, NEW ch
    PROVE  Takes(ch)' = Takes(ch) /\ Commit(ch)' = Commit(ch)
  BY DEF Takes, Refused, Commit, Take, Extended, Stamp, NewLength, ProspectiveRemaining,
               StartingNew, AddsDelta

\* PeerInv is about the line, not about where in it the reader is.
LEMMA PeerSame ==
    ASSUME PeerInv, Line' = Line,
           UNCHANGED <<sender, failed, streams, chunk_size, assembling_bytes, size, ready, sent, peer>>
    PROVE  PeerInv'
<1>1. ASSUME NEW ch
      PROVE  Takes(ch)' = Takes(ch) /\ Commit(ch)' = Commit(ch)
  BY SameReader
<1>2. PICK ch, st : ch = Line[1] /\ st = Commit(ch)
  OBVIOUS
<1>3. Sent(ch, st)' = Sent(ch, st) /\ \A c \in Csids : InStep(c)' = InStep(c)
  BY <1>1 DEF Sent, AfterChunk, InStep
<1>4. Commit(ch)' = st
  BY <1>1, <1>2
<1>5. QED
  BY <1>2, <1>3, <1>4 DEF PeerInv

\* A completed message leaves its header.
LEMMA DoneKeeps ==
    ASSUME NEW st \in StreamStates, NEW ch, Knows(st, ch)
    PROVE  Knows(Done(st), ch) /\ Done(st).delta = st.delta
<1>1. PICK done : done = Done(st)
  OBVIOUS
<1>2. /\ done.have_header = st.have_header /\ done.timestamp = st.timestamp
      /\ done.length = st.length /\ done.type = st.type /\ done.msid = st.msid
      /\ done.extended = st.extended /\ done.delta = st.delta
  BY <1>1 DEF Done, StreamStates
<1>3. QED
  BY <1>1, <1>2 DEF Knows

\* The reader has a chunk's body.
LEMMA PeerBody ==
    ASSUME TypeInv, PeerInv, sender = "peer", FeedBody
    PROVE  PeerInv'
<1>1. PICK ch, st : ch = pending[1] /\ st = Commit(ch)
  OBVIOUS
<1>2. /\ Body /\ pending # <<>> /\ pending' = <<>>
      /\ UNCHANGED <<sender, wire, size, peer, sent>>
  BY DEF FeedBody, Body
<1>3. ch = Line[1] /\ Line # <<>> /\ wire = <<>> /\ Line' = <<>>
  <2>1. PICK S : wire \in Seq(S)
    BY DEF TypeInv, SenderTypes
  <2>2. /\ ch = Line[1] /\ Line # <<>> /\ Len(Line) = Len(wire) + 1 /\ Line' = wire
    BY <1>1, <1>2, LineFacts, LineMoves
  <2>3. Len(Line) <= 1
    BY DEF PeerInv
  <2>4. QED
    BY <2>1, <2>2, <2>3, SMTT(60)
<1>4. /\ Carries(st, ch) /\ st.delta = ch.delta /\ ch.csid = ch.of.csid
      /\ DeliveredAll(sent) = IF st.remaining = 0 THEN Append(ready, Delivered(ch.of)) ELSE ready
      /\ size = IF st.remaining = 0 /\ ch.of.type = "set_chunk_size" THEN ch.of.value
                ELSE chunk_size
      /\ \A c \in Csids : AfterChunk(ch, st, c)
  BY <1>1, <1>3 DEF PeerInv, Sent
<1>5. ch \in PeerChunks /\ Readable(ch) /\ ch.of \in Media \cup Control /\ ReaderTypes
  <2>1. ch \in ChunksOf("peer")
    BY <1>3, LineFacts
  <2>2. ch \in PeerChunks
    BY <2>1 DEF ChunksOf
  <2>3. QED
    BY <2>1, <2>2, SenderChunks DEF TypeInv, PeerChunks
<1>6. /\ ~failed' /\ st \in StreamStates
      /\ st.remaining # 0 => /\ streams' = [streams EXCEPT ![ch.csid] = st]
                             /\ chunk_size' = chunk_size /\ ready' = ready
      /\ st.remaining = 0 =>
            /\ ready' = Append(ready, Delivered(ch.of))
            /\ chunk_size' = IF ch.of.type = "set_chunk_size" THEN ch.of.value ELSE chunk_size
            /\ \A d \in Csids :
                 LET was == IF d = ch.csid THEN Done(st) ELSE streams[d]
                 IN  streams'[d] = IF ch.of.type = "abort" /\ ch.of.value = d
                                   THEN Dropped(was) ELSE was
  BY <1>1, <1>2, <1>4, <1>5, Delivers, SMTT(60)
<1>7. chunk_size' = size' /\ ready' = DeliveredAll(sent)'
  BY <1>2, <1>4, <1>6
<1>8. streams \in [Csids -> StreamStates] /\ ch.csid \in Csids /\ st.remaining \in Nat
  BY <1>5, <1>6 DEF ReaderTypes, Readable, StreamStates
<1>9. ASSUME NEW c \in Csids PROVE InStep(c)'
  <2>1. CASE st.remaining = 0 /\ ch.of.type = "abort" /\ ch.of.value = c
    <3>1. peer'[c] = Idle
      BY <1>2, <1>4, <2>1 DEF AfterChunk
    <3>2. PICK was \in StreamStates : streams'[c] = Dropped(was)
      BY <1>6, <1>8, <2>1, CompleteTypes
    <3>3. streams'[c].remaining = 0
      BY <3>2, CompleteTypes
    <3>4. peer'[c].header = <<>> /\ peer'[c].left = 0 /\ ~(peer'[c].left > 0)
      BY <3>1, SMTT(60) DEF Idle
    <3>5. QED
      BY <3>3, <3>4 DEF InStep
  <2>2. CASE ~(st.remaining = 0 /\ ch.of.type = "abort" /\ ch.of.value = c) /\ c = ch.csid
    <3>1. peer'[c] = [header |-> <<ch>>, left |-> st.remaining]
      BY <1>2, <1>4, <2>2 DEF AfterChunk
    <3>2. /\ peer'[c].header[1] = ch /\ peer'[c].left = st.remaining
          /\ ch.csid = c /\ ch.of.csid = c /\ Knows(st, ch)
      <4>1. peer'[c].header = <<ch>> /\ peer'[c].left = st.remaining
        BY <3>1, SMTT(60)
      <4>2. QED
        BY <1>4, <2>2, <4>1, OneHeader DEF Carries
    <3>3. CASE st.remaining = 0
      <4>1. streams'[c] = Done(st)
        BY <1>6, <2>2, <3>3
      <4>2. Knows(streams'[c], ch) /\ streams'[c].delta = ch.delta /\ streams'[c].remaining = 0
        BY <1>4, <1>6, <3>2, <3>3, <4>1, DoneKeeps, CompleteTypes
      <4>3. QED
        BY <3>2, <3>3, <4>2, OneHeader DEF InStep
    <3>4. CASE st.remaining # 0
      <4>1. streams'[c] = st
        BY <1>6, <1>8, <2>2, <3>4
      <4>2. QED
        BY <1>4, <3>2, <4>1 DEF InStep
    <3>5. QED
      BY <3>3, <3>4
  <2>3. CASE ~(st.remaining = 0 /\ ch.of.type = "abort" /\ ch.of.value = c) /\ c # ch.csid
    <3>1. InStep(c)
      BY <1>4, <2>3 DEF AfterChunk
    <3>2. streams'[c] = streams[c]
      BY <1>6, <1>8, <2>3
    <3>3. QED
      BY <1>2, <3>1, <3>2 DEF InStep
  <2>4. QED
    BY <2>1, <2>2, <2>3
<1>10. Len(Line') = 0
  BY <1>3
<1>11. QED
  BY <1>3, <1>6, <1>7, <1>9, <1>10, SMTT(60) DEF PeerInv

\* The peer sends a chunk that the reader makes the same of.
LEMMA PeerSent ==
    ASSUME TypeInv, PeerInv, sender = "peer", Line = <<>>, NEW ch \in PeerChunks, NEW left \in Nat,
           PeerSends(ch, left), UNCHANGED sender, ch.csid = ch.of.csid,
           Takes(ch), Carries(Commit(ch), ch), Commit(ch).delta = ch.delta,
           Commit(ch).remaining = left
    PROVE  PeerInv'
<1>1. PICK st, m, now : /\ st = Commit(ch) /\ m = ch.of
                        /\ now = [peer EXCEPT ![ch.csid] = [header |-> <<ch>>, left |-> left]]
  OBVIOUS
<1>2. /\ wire' = <<ch>> /\ pending' = pending /\ pending = <<>>
      /\ sent' = IF left = 0 THEN Append(sent, m) ELSE sent
      /\ size' = IF left = 0 /\ m.type = "set_chunk_size" THEN m.value ELSE size
      /\ peer' = IF left = 0 /\ m.type = "abort" THEN [now EXCEPT ![m.value] = Idle] ELSE now
      /\ UNCHANGED <<streams, chunk_size, assembling_bytes, failed, ready>>
  BY <1>1, LineFacts DEF PeerSends, readerVars
<1>3. Line' = <<ch>>
  BY <1>2, SMTT(60) DEF Line
<1>4. /\ ~failed /\ chunk_size = size /\ ready = DeliveredAll(sent)
      /\ \A c \in Csids : InStep(c)
  BY DEF PeerInv
<1>5. Takes(ch)' = Takes(ch) /\ Commit(ch)' = st
  BY <1>1, <1>2, SameReader
<1>6. ch.csid \in Csids /\ m \in Media \cup Control /\ (m.type = "abort" => m.value \in Csids)
  BY <1>1, MessageFacts DEF PeerChunks
<1>7. DeliveredAll(sent)' = IF left = 0 THEN Append(ready, Delivered(m)) ELSE ready
  <2>1. sent \in Seq(Sendable(sender))
    BY DEF TypeInv, SenderTypes
  <2>2. DeliveredAll(Append(sent, m)) = Append(DeliveredAll(sent), Delivered(m))
    BY <2>1, DeliveredOneMore
  <2>3. QED
    BY <1>2, <1>4, <2>2
<1>8. peer \in [Csids -> PeerStates]
  BY DEF TypeInv, SenderTypes
<1>9. ASSUME NEW c \in Csids PROVE AfterChunk(ch, st, c)'
  <2>1. CASE left = 0 /\ m.type = "abort" /\ m.value = c
    <3>1. peer'[c] = Idle
      BY <1>1, <1>2, <1>6, <1>8, <2>1
    <3>2. QED
      BY <1>1, <2>1, <3>1 DEF AfterChunk
  <2>2. CASE ~(left = 0 /\ m.type = "abort" /\ m.value = c) /\ c = ch.csid
    <3>1. peer'[c] = [header |-> <<ch>>, left |-> left]
      BY <1>1, <1>2, <1>6, <1>8, <2>2
    <3>2. QED
      BY <1>1, <2>2, <3>1 DEF AfterChunk
  <2>3. CASE ~(left = 0 /\ m.type = "abort" /\ m.value = c) /\ c # ch.csid
    <3>1. peer'[c] = peer[c]
      BY <1>1, <1>2, <1>6, <1>8, <2>3
    <3>2. InStep(c)'
      BY <1>2, <1>4, <3>1 DEF InStep
    <3>3. QED
      BY <1>1, <2>3, <3>2 DEF AfterChunk
  <2>4. QED
    BY <2>1, <2>2, <2>3
<1>10. Sent(ch, st)'
  BY <1>1, <1>2, <1>4, <1>5, <1>7, <1>9 DEF Sent
<1>11. Len(Line') = 1 /\ Line'[1] = ch /\ Line' # <<>>
  BY <1>3
<1>12. QED
  BY <1>2, <1>4, <1>5, <1>10, <1>11, SMTT(60) DEF PeerInv

\* It begins a message.
LEMMA PeerStarts ==
    ASSUME TypeInv, BudgetInv, PeerInv, NEW m \in Media \cup Control, NEW fmt \in 0..3,
           PeerBegin(m, fmt)
    PROVE  PeerInv'
<1>1. PICK ch \in PeerChunks, left \in Nat : FirstChunk(m, fmt, ch, left) /\ PeerSends(ch, left)
  BY PeerBegins DEF TypeInv
<1>2. PICK last, delta, st, p :
        /\ p = peer[m.csid] /\ last = p.header[1] /\ st = streams[m.csid]
        /\ delta = (m.timestamp - last.of.timestamp) % StampRange
  OBVIOUS
<1>3. sender = "peer" /\ sender' = sender /\ wire = <<>> /\ pending = <<>>
  BY DEF PeerBegin, Sends
<1>4. /\ p.left = 0 /\ Cardinality(Unfinished) + m.length <= kMaxOutstanding
      /\ fmt > 0 => p.header # <<>> /\ m.msid = last.of.msid
      /\ fmt > 1 => m.type = last.of.type /\ m.length = last.of.length
      /\ fmt > 2 => delta = last.delta
  BY <1>2 DEF PeerBegin
<1>5. /\ ch.fmt = fmt /\ ch.csid = m.csid /\ ch.of = m /\ ch.length = m.length
      /\ ch.type = m.type /\ ch.msid = m.msid /\ ch.octets = Smaller(m.length, size)
      /\ left = m.length - ch.octets
      /\ fmt = 0 => ch.delta = 0
      /\ fmt # 0 => ch.delta = delta
      /\ fmt = 3 => ch.has_ext = last.has_ext
      /\ fmt # 3 => LET stamp == IF fmt = 0 THEN m.timestamp ELSE ch.delta
                    IN  /\ ch.field = Smaller(stamp, Ext) /\ ch.ext = stamp
                        /\ ch.has_ext = (stamp >= Ext)
  BY <1>1, <1>2 DEF FirstChunk
<1>6. Line = <<>>
  BY <1>3, LineFacts
<1>7. chunk_size = size /\ (\A c \in Csids : InStep(c)) /\ m.csid \in Csids
  BY <1>3, <1>6, MessageFacts DEF PeerInv, Messages
<1>8. assembling_bytes = Cardinality(Unfinished)
  BY <1>7, SameUnfinished DEF BudgetInv, BudgetExact
<1>9. /\ st.remaining = p.left
      /\ p.header # <<>> => Knows(st, last) /\ st.delta = last.delta
  BY <1>2, <1>7 DEF InStep
<1>10. p.header # <<>> =>
          /\ st.have_header /\ st.timestamp = last.of.timestamp /\ st.length = last.of.length
          /\ st.type = last.of.type /\ st.msid = last.of.msid /\ st.extended = last.has_ext
  BY <1>9 DEF Knows
<1>11. p.header # <<>> => last.of.timestamp \in 0..(StampRange - 1)
  <2>1. p \in PeerStates
    BY <1>2, <1>7 DEF TypeInv, SenderTypes
  <2>2. p.header # <<>> => last \in PeerChunks
    BY <1>2, <2>1, SMTT(60) DEF PeerStates
  <2>3. p.header # <<>> => last.of \in Messages
    BY <2>2, MessageTypes DEF PeerChunks
  <2>4. QED
    BY <2>3 DEF Messages
<1>12. Starting(ch, ch.delta)
  <2>1. /\ streams[ch.csid] = st /\ st.remaining = 0
        /\ assembling_bytes + m.length <= kMaxOutstanding
        /\ ch.octets = Smaller(m.length, chunk_size)
    BY <1>2, <1>4, <1>5, <1>7, <1>8, <1>9
  <2>2. ch.fmt # 0 => /\ st.have_header /\ st.msid = m.msid
                      /\ st.timestamp \in 0..(StampRange - 1)
                      /\ ch.delta = (m.timestamp - st.timestamp) % StampRange
    <3>1. fmt # 0 => fmt > 0
      BY SMTT(60)
    <3>2. QED
      BY <1>2, <1>4, <1>5, <1>10, <1>11, <3>1
  <2>3. ch.fmt \in {2, 3} => st.length = m.length /\ st.type = m.type
    <3>1. fmt \in {2, 3} => fmt > 0 /\ fmt > 1
      BY SMTT(60)
    <3>2. QED
      BY <1>4, <1>5, <1>10, <3>1
  <2>4. ch.fmt = 3 => st.delta = ch.delta /\ st.extended = ch.has_ext
    BY <1>4, <1>5, <1>9, <1>10, SMTT(60)
  <2>5. QED
    BY <1>5, <2>1, <2>2, <2>3, <2>4 DEF Starting
<1>13. /\ Readable(ch) /\ ch.of \in Media \cup Control /\ ch.has_ext \in BOOLEAN
       /\ ch.delta \in Nat /\ ReaderTypes
  <2>1. ch \in ChunksOf("peer")
    BY DEF ChunksOf
  <2>2. Readable(ch)
    BY <2>1, SenderChunks
  <2>3. QED
    BY <2>2 DEF PeerChunks, TypeInv
<1>14. /\ Takes(ch) /\ Carries(Commit(ch), ch) /\ Commit(ch).delta = ch.delta
       /\ Commit(ch).remaining = left
  BY <1>5, <1>12, <1>13, Starts
<1>15. QED
  BY <1>1, <1>3, <1>5, <1>6, <1>14, PeerSent

\* It goes on with one.
LEMMA PeerGoesOn ==
    ASSUME TypeInv, PeerInv, NEW c \in Csids, PeerContinue(c)
    PROVE  PeerInv'
<1>1. PICK ch \in PeerChunks, left \in Nat : NextChunk(c, ch, left) /\ PeerSends(ch, left)
  BY PeerContinues DEF TypeInv
<1>2. PICK last, st, p : p = peer[c] /\ last = p.header[1] /\ st = streams[c]
  OBVIOUS
<1>3. /\ sender = "peer" /\ sender' = sender /\ wire = <<>> /\ pending = <<>> /\ p.left > 0
  BY <1>2 DEF PeerContinue, Sends
<1>4. /\ ch.fmt = 3 /\ ch.csid = last.csid /\ ch.of = last.of /\ ch.has_ext = last.has_ext
      /\ ch.delta = last.delta /\ ch.octets = Smaller(p.left, size) /\ left = p.left - ch.octets
  BY <1>1, <1>2 DEF NextChunk
<1>5. Line = <<>>
  BY <1>3, LineFacts
<1>6. chunk_size = size /\ InStep(c) /\ p.header # <<>>
  BY <1>2, <1>3, <1>5 DEF PeerInv, TypeInv, SenderTypes
<1>7. /\ st.remaining = p.left /\ st.delta = last.delta /\ last.csid = c /\ last.of.csid = c
      /\ Carries(st, last)
  BY <1>2, <1>3, <1>6 DEF InStep
<1>8. Carries(st, ch)
  BY <1>4, <1>7 DEF Carries, Knows
<1>9. Continuing(ch)
  BY <1>2, <1>3, <1>4, <1>6, <1>7, <1>8 DEF Continuing
<1>10. /\ Readable(ch) /\ ch.of \in Media \cup Control /\ ch.has_ext \in BOOLEAN /\ ReaderTypes
  <2>1. ch \in ChunksOf("peer")
    BY DEF ChunksOf
  <2>2. Readable(ch)
    BY <2>1, SenderChunks
  <2>3. QED
    BY <2>2 DEF PeerChunks, TypeInv
<1>11. /\ Takes(ch) /\ Carries(Commit(ch), ch) /\ Commit(ch).delta = ch.delta
       /\ Commit(ch).remaining = left
  BY <1>2, <1>4, <1>7, <1>9, <1>10, Continues
<1>12. QED
  BY <1>1, <1>3, <1>4, <1>5, <1>7, <1>11, PeerSent

LEMMA PeerStep == TypeInv /\ BudgetInv /\ PeerInv /\ [Next]_vars => PeerInv'
<1> SUFFICES ASSUME TypeInv, BudgetInv, PeerInv, [Next]_vars, sender' = "peer"
             PROVE  PeerInv'
  BY DEF PeerInv
<1>0. SenderTypes
  BY DEF TypeInv
<1>1. CASE FeedHeader
  <2>1. PICK ch : ch = Head(wire)
    OBVIOUS
  <2>2. /\ wire # <<>> /\ pending = <<>> /\ wire' = Tail(wire)
        /\ \/ Refused(ch) \/ (pending' = <<ch>> /\ failed' = failed)
        /\ UNCHANGED <<sender, streams, chunk_size, assembling_bytes, size, ready, sent, peer>>
    BY <1>0, <1>1, <2>1, HeaderStep
  <2>3. Line = wire /\ Line[1] = ch /\ Line # <<>>
    <3>1. PICK S : wire \in Seq(S)
      BY <1>0 DEF SenderTypes
    <3>2. wire[1] = Head(wire)
      BY <2>2, <3>1, SMTT(60)
    <3>3. QED
      BY <2>1, <2>2, <3>2, LineFacts
  <2>4. ~Refused(ch)
    BY <2>2, <2>3 DEF PeerInv, Sent, Takes
  <2>5. Line' = Line
    BY <2>1, <2>2, <2>4, LineMoves
  <2>6. QED
    BY <2>2, <2>4, <2>5, PeerSame
<1>2. CASE FeedBody
  BY <1>2, PeerBody DEF FeedBody
<1>3. ASSUME NEW m, NEW n, Says(m, n) PROVE FALSE
  <2>1. sender = "writer" /\ sender' = sender
    BY <1>3 DEF Says
  <2>2. QED
    BY <2>1
<1>5. ASSUME NEW c \in Csids, PeerContinue(c) PROVE PeerInv'
  BY <1>5, PeerGoesOn
<1>6. ASSUME NEW m \in Media \cup Control, NEW fmt \in 0..3, PeerBegin(m, fmt) PROVE PeerInv'
  BY <1>6, PeerStarts
<1>7. ASSUME NEW m, NEW fmt, SendAny(m, fmt) PROVE FALSE
  BY <1>7 DEF SendAny, Sends
<1>8. CASE Nothing
  <2>1. Line' = Line /\ UNCHANGED <<sender, failed, streams, chunk_size, assembling_bytes,
                                    size, ready, sent, peer>>
    BY <1>8 DEF Line, Nothing, readerVars
  <2>2. QED
    BY <2>1, PeerSame
<1>9. QED
  BY <1>1, <1>2, <1>3, <1>5, <1>6, <1>7, <1>8, Steps

-----------------------------------------------------------------------------

LEMMA InitAgrees == Init => WriterInv /\ LongInv /\ PeerInv
<1> SUFFICES ASSUME Init PROVE WriterInv /\ LongInv /\ PeerInv
  OBVIOUS
<1>1. /\ streams = [c \in Csids |-> Fresh] /\ chunk_size = size /\ failed = FALSE
      /\ ready = <<>> /\ pending = <<>> /\ wire = <<>>
      /\ peer = [c \in Csids |-> Idle] /\ sent = <<>>
  BY DEF Init, ReaderInit
<1>2. Line = <<>> /\ Len(Line) <= 1
  BY <1>1, SMTT(60) DEF Line
<1>3. DeliveredAll(sent) = ready
  BY <1>1, SMTT(60) DEF DeliveredAll
<1>4. \A c \in Csids : streams[c].remaining = 0 /\ InStep(c)
  BY <1>1, OneHeader DEF InStep, Fresh, Idle
<1>5. QED
  BY <1>1, <1>2, <1>3, <1>4 DEF WriterInv, LongInv, Overlong, PeerInv

\* Only a writer writes a message that is too long.
LEMMA PeerShort ==
    ASSUME TypeInv, sender = "peer"
    PROVE  ~Overlong
<1>1. sent \in Seq(Media \cup Control)
  BY DEF TypeInv, SenderTypes, Sendable
<1>2. sent # <<>> => sent[Len(sent)] \in Media \cup Control
  <2>1. PICK S : S = Media \cup Control /\ sent \in Seq(S)
    BY <1>1
  <2>2. sent # <<>> => sent[Len(sent)] \in S
    BY <2>1, SMTT(60)
  <2>3. QED
    BY <2>1, <2>2
<1>3. ASSUME NEW m \in Media \cup Control PROVE ~(m.length > kMaxMessageSize)
  <2>1. m.length \in 0..kMaxMessageSize /\ kMaxMessageSize \in Nat
    BY MessageFacts, ReaderAssumption
  <2>2. QED
    BY <2>1, SMTT(60)
<1>4. QED
  BY <1>2, <1>3 DEF Overlong

LEMMA Agree ==
    ASSUME TypeInv, BudgetInv, WriterInv, LongInv, PeerInv
    PROVE  DecodedAsSent
<1> SUFFICES ASSUME sender # "any"
             PROVE  /\ pending # <<>> => /\ Take(pending[1]) = pending[1].octets
                                         /\ Extended(pending[1]) = pending[1].has_ext
                    /\ failed \/ (wire = <<>> /\ pending = <<>>) =>
                          IF Overlong
                          THEN /\ failed
                               /\ DeliveredAll(sent) = Append(ready, Delivered(sent[Len(sent)]))
                          ELSE ~failed /\ ready = DeliveredAll(sent)
  BY DEF DecodedAsSent, DeliveredAll
<1>1. sender \in {"writer", "peer"}
  BY DEF TypeInv, SenderTypes
<1>2. ASSUME pending # <<>> PROVE Takes(pending[1])
  <2>1. Line # <<>> /\ Line[1] = pending[1]
    BY <1>2, LineFacts
  <2>2. CASE sender = "writer"
    BY <1>2, <2>1, <2>2, WriterTakes DEF Coming, LongInv
  <2>3. CASE sender = "peer"
    BY <2>1, <2>3 DEF PeerInv, Sent
  <2>4. QED
    BY <1>1, <2>2, <2>3
<1>3. ASSUME Overlong, failed \/ (wire = <<>> /\ pending = <<>>)
      PROVE  failed /\ DeliveredAll(sent) = Append(ready, Delivered(sent[Len(sent)]))
  BY <1>1, <1>3, PeerShort DEF LongInv
<1>4. ASSUME ~Overlong, failed \/ (wire = <<>> /\ pending = <<>>)
      PROVE  ~failed /\ ready = DeliveredAll(sent)
  <2>1. ~failed
    BY <1>1, <1>4 DEF WriterInv, PeerInv
  <2>2. Line = <<>>
    BY <1>4, <2>1, LineFacts
  <2>3. QED
    BY <1>1, <1>4, <2>1, <2>2 DEF WriterInv, PeerInv
<1>5. QED
  BY <1>2, <1>3, <1>4 DEF Takes

\* What a ChunkWriter writes, and what a peer sends that interleaves messages,
\* compresses headers, changes the chunk size and aborts messages, the reader
\* decodes as it was sent: the reader never loses its place, next() gives exactly
\* the messages that were completed, in order, and no chunk is refused but the
\* first of a message that a writer wrote longer than kMaxMessageSize.
THEOREM AlwaysDecodedAsSent == Spec => []DecodedAsSent
<1> DEFINE AgreeInv == WriterInv /\ LongInv /\ PeerInv
<1>1. Init => AgreeInv
  BY InitAgrees
<1>2. TypeInv /\ BudgetInv /\ AgreeInv /\ [Next]_vars => AgreeInv'
  BY WriterStep, LongStep, PeerStep
<1>3. TypeInv /\ BudgetInv /\ AgreeInv => DecodedAsSent
  BY Agree
<1>4. QED
  BY <1>1, <1>2, <1>3, TypesAndBudget, PTL DEF Spec
=============================================================================
