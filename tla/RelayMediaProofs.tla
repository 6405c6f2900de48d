-------------------------- MODULE RelayMediaProofs --------------------------
(***************************************************************************)
(* Media mode of the relay server: who is sent which frames, for any       *)
(* number of connections, names and types of frames.                       *)
(***************************************************************************)
EXTENDS RelayProofs

\* The provers to try, with time enough for the larger steps.
USE ZenonT(60), SMTT(60)

-----------------------------------------------------------------------------
(* Media mode: who is sent what.                                           *)

\* The cached init frames of a stream, the ids of what was written to a
\* connection, and a note in published.
Cached(n) == {init[n][t] : t \in Range(init_types[n])}
OutIds(c) == {out[c][i].id : i \in DOMAIN out[c]}
Publication(c, g, n) == [cnx |-> c, gen |-> g, name |-> n]

\* A connection that is gone has left nothing, and none outlives the server.
GoneInv ==
    /\ \A c \in Cnxs : c \notin alive => out[c] = <<>> /\ asked[c] = {}
    /\ ~running => alive = {}

\* Whoever asked to publish is noted with the present use of its pointer, and
\* nobody is subscribed twice.
AskInv ==
    /\ \A c \in Cnxs, n \in Names : [what |-> "publish", name |-> n] \in asked[c] =>
          Publication(c, gen[c], n) \in published
    /\ \A n \in Names, c \in Cnxs : subscribers[n][c] <= 1

\* Init frames are cached under the name that their publisher published.
CacheInv ==
    \A n \in Names : \A f \in Cached(n) :
        /\ f.from = n /\ f.type \in InitTypes /\ f.id \in 1..frames
        /\ Publication(f.src, f.gen, n) \in published

IsCoded(e) == e.type = CodedType /\ e.type # "reply"

\* What entry e of connection c may be.
Good(c, e) ==
    /\ e.id \in 0..frames
    /\ e.type # "reply" =>
          /\ [what |-> "play", name |-> e.from] \in asked[c]
          /\ Publication(e.src, e.gen, e.from) \in published
          /\ e.id > 0

EntryInv(c) == \A i \in DOMAIN out[c] : Good(c, out[c][i])

\* A coded frame's id is that of no other entry and of no cached frame.
CodedInv(c) ==
    \A i \in DOMAIN out[c] : IsCoded(out[c][i]) =>
        /\ \A j \in DOMAIN out[c] : out[c][j].id = out[c][i].id => i = j
        /\ \A n \in Names : \A f \in Cached(n) : f.id # out[c][i].id

MediaInv ==
    /\ GoneInv /\ AskInv /\ CacheInv
    /\ mode = "Media" => \A c \in Cnxs : EntryInv(c) /\ CodedInv(c)

\* Subscribers have the init frames that are cached.
PrimedInv ==
    \A n \in Names, c \in Cnxs : subscribers[n][c] > 0 =>
        \A f \in Cached(n) : f.id \in OutIds(c)

\* What is in a queue after more was written.
LEMMA Extended ==
    ASSUME NEW S, NEW q \in Seq(S), NEW more \in Seq(S)
    PROVE  /\ \A i \in DOMAIN q : i \in DOMAIN (q \o more) /\ (q \o more)[i] = q[i]
           /\ \A k \in DOMAIN more :
                 Len(q) + k \in DOMAIN (q \o more) /\ (q \o more)[Len(q) + k] = more[k]
           /\ \A i \in DOMAIN (q \o more) : \/ i \in DOMAIN q
                                            \/ \E k \in DOMAIN more : i = Len(q) + k
<1>1. /\ DOMAIN q = 1..Len(q) /\ DOMAIN more = 1..Len(more)
      /\ DOMAIN (q \o more) = 1..(Len(q) + Len(more))
      /\ Len(q) \in Nat /\ Len(more) \in Nat
  BY SMTT(60)
<1>2. \A i \in DOMAIN (q \o more) : \/ i \in DOMAIN q
                                    \/ \E k \in DOMAIN more : i = Len(q) + k
  <2> SUFFICES ASSUME NEW i \in 1..(Len(q) + Len(more)), i \notin 1..Len(q)
               PROVE  \E k \in 1..Len(more) : i = Len(q) + k
    BY <1>1
  <2>1. i - Len(q) \in 1..Len(more) /\ i = Len(q) + (i - Len(q))
    BY <1>1, SMTT(60)
  <2> QED
    BY <2>1
<1> QED
  BY <1>1, <1>2, SMTT(60)

\* Media that may be written keeps what is known of a connection's entries.
LEMMA MediaWritten ==
    ASSUME NEW d \in Cnxs, NEW more \in Seq(Media \cup Replies),
           out[d] \in Seq(Media \cup Replies), out'[d] = out[d] \o more,
           frames \in Nat, frames' \in {frames, frames + 1},
           asked[d] \subseteq asked'[d], published \subseteq published',
           EntryInv(d), CodedInv(d),
           \A k \in DOMAIN more : Good(d, more[k])',
           \A k \in DOMAIN more : IsCoded(more[k]) =>
              /\ \A l \in DOMAIN more : l = k
              /\ more[k].id = frames + 1
              /\ \A n \in Names : \A f \in Cached(n)' : f.id # frames + 1,
           \A k \in DOMAIN more : ~IsCoded(more[k]) =>
              \A i \in DOMAIN out[d] : IsCoded(out[d][i]) => more[k].id # out[d][i].id,
           \A n \in Names : \A f \in Cached(n)' : f \in Cached(n) \/ f.id = frames + 1
    PROVE  EntryInv(d)' /\ CodedInv(d)'
<1> DEFINE q == out[d]
           r == out'[d]
<1>1. /\ \A i \in DOMAIN q : i \in DOMAIN r /\ r[i] = q[i]
      /\ \A i \in DOMAIN r : \/ i \in DOMAIN q
                             \/ \E k \in DOMAIN more : i = Len(q) + k /\ r[i] = more[k]
  BY Extended, SMTT(60)
<1>2. ASSUME NEW i \in DOMAIN q PROVE Good(d, q[i])' /\ q[i].id \in 0..frames
  <2>1. Good(d, q[i])
    BY DEF EntryInv
  <2>2. frames' \in Nat /\ frames <= frames'
    BY SMTT(60)
  <2>3. q[i].id \in 0..frames /\ q[i].id \in 0..frames'
    BY <2>1, <2>2, SMTT(60) DEF Good
  <2> QED
    BY <2>1, <2>3, <1>1 DEF Good, Publication
<1>3. EntryInv(d)'
  <2> SUFFICES ASSUME NEW i \in DOMAIN out'[d] PROVE Good(d, out[d][i])'
    BY DEF EntryInv
  <2>1. CASE i \in DOMAIN q
    BY <1>2, <2>1
  <2>2. ASSUME NEW k \in DOMAIN more, r[i] = more[k] PROVE Good(d, out[d][i])'
    BY <2>2 DEF Good, Publication
  <2> QED
    BY <1>1, <2>1, <2>2
<1>4. CodedInv(d)'
  <2> SUFFICES ASSUME NEW i \in DOMAIN r, IsCoded(r[i])
               PROVE  /\ \A j \in DOMAIN r : r[j].id = r[i].id => i = j
                      /\ \A n \in Names : \A f \in Cached(n)' : f.id # r[i].id
    BY DEF CodedInv, IsCoded
  <2>1. CASE i \in DOMAIN q
    <3>1. /\ r[i] = q[i] /\ IsCoded(q[i]) /\ q[i].id # frames + 1
          /\ \A j \in DOMAIN q : q[j].id = q[i].id => i = j
          /\ \A n \in Names : \A f \in Cached(n) : f.id # q[i].id
      <4>1. r[i] = q[i] /\ IsCoded(q[i])
        BY <1>1, <2>1
      <4>2. q[i].id # frames + 1
        BY <1>2, <2>1, SMTT(60)
      <4> QED
        BY <2>1, <4>1, <4>2 DEF CodedInv
    <3>2. ASSUME NEW j \in DOMAIN r, r[j].id = r[i].id PROVE i = j
      <4>1. CASE j \in DOMAIN q
        BY <1>1, <3>1, <3>2, <4>1
      <4>2. ASSUME NEW k \in DOMAIN more, r[j] = more[k] PROVE FALSE
        <5>1. more[k].id = q[i].id
          BY <3>1, <3>2, <4>2
        <5> QED
          BY <2>1, <3>1, <5>1
      <4> QED
        BY <1>1, <4>1, <4>2
    <3>3. ASSUME NEW n \in Names, NEW f \in Cached(n)' PROVE f.id # r[i].id
      BY <3>1
    <3> QED
      BY <3>2, <3>3
  <2>2. ASSUME NEW k \in DOMAIN more, i = Len(q) + k, r[i] = more[k]
        PROVE  /\ \A j \in DOMAIN r : r[j].id = r[i].id => i = j
               /\ \A n \in Names : \A f \in Cached(n)' : f.id # r[i].id
    <3>1. /\ r[i].id = frames + 1 /\ \A l \in DOMAIN more : l = k
          /\ \A n \in Names : \A f \in Cached(n)' : f.id # frames + 1
      BY <2>2
    <3>2. ASSUME NEW j \in DOMAIN q PROVE r[j].id # frames + 1
      BY <1>1, <1>2, SMTT(60)
    <3> QED
      BY <1>1, <2>2, <3>1, <3>2
  <2> QED
    BY <1>1, <2>1, <2>2
<1> QED
  BY <1>3, <1>4

\* The entries of a connection that nothing is written to.
LEMMA Unwritten ==
    ASSUME NEW d \in Cnxs, out'[d] = out[d], asked[d] \subseteq asked'[d],
           published \subseteq published', frames \in Nat, frames' \in {frames, frames + 1},
           EntryInv(d), CodedInv(d),
           \A n \in Names : \A f \in Cached(n)' : f \in Cached(n) \/ f.id = frames + 1
    PROVE  EntryInv(d)' /\ CodedInv(d)'
<1>1. ASSUME NEW i \in DOMAIN out[d]
      PROVE  Good(d, out[d][i])' /\ out[d][i].id # frames + 1
  <2>1. Good(d, out[d][i])
    BY DEF EntryInv
  <2>2. frames' \in Nat /\ frames <= frames'
    BY SMTT(60)
  <2>3. out[d][i].id \in 0..frames /\ out[d][i].id \in 0..frames'
    BY <2>1, <2>2, SMTT(60) DEF Good
  <2>4. out[d][i].id # frames + 1
    BY <2>3, SMTT(60)
  <2> QED
    BY <2>1, <2>3, <2>4 DEF Good, Publication
<1>2. EntryInv(d)'
  BY <1>1 DEF EntryInv
<1>3. CodedInv(d)'
  <2> SUFFICES ASSUME NEW i \in DOMAIN out[d], IsCoded(out[d][i])
               PROVE  /\ \A j \in DOMAIN out[d] : out[d][j].id = out[d][i].id => i = j
                      /\ \A n \in Names : \A f \in Cached(n)' : f.id # out[d][i].id
    BY DEF CodedInv, IsCoded
  <2> QED
    BY <1>1 DEF CodedInv
<1> QED
  BY <1>2, <1>3

\* A step that writes and caches nothing.
LEMMA MediaUntouched ==
    ASSUME MediaInv, alive \subseteq alive', gen' \in [Cnxs -> Nat],
           \A c \in alive : gen'[c] = gen[c],
           ~running' => alive' = {},
           mode' = mode \/ alive = {},
           UNCHANGED <<out, asked, published, frames, subscribers, init_types, init>>
    PROVE  MediaInv'
<1>1. GoneInv'
  BY DEF MediaInv, GoneInv
<1>2. AskInv'
  <2>1. \A c \in Cnxs : c \in alive \/ asked[c] = {}
    BY DEF MediaInv, GoneInv
  <2> QED
    BY <2>1 DEF MediaInv, AskInv, Publication
<1>3. CacheInv'
  <2>1. \A n \in Names : Cached(n)' = Cached(n)
    BY DEF Cached
  <2> QED
    BY <2>1 DEF MediaInv, CacheInv, Publication
<1>4. \A c \in Cnxs : EntryInv(c) /\ CodedInv(c) => (EntryInv(c) /\ CodedInv(c))'
  BY SMTT(60) DEF EntryInv, CodedInv, Good, Publication, Cached, IsCoded
<1>5. ASSUME alive = {}, NEW c \in Cnxs PROVE EntryInv(c) /\ CodedInv(c)
  <2>1. DOMAIN out[c] = {}
    BY <1>5, SMTT(60) DEF MediaInv, GoneInv
  <2> QED
    BY <2>1 DEF EntryInv, CodedInv
<1> QED
  BY <1>1, <1>2, <1>3, <1>4, <1>5 DEF MediaInv

\* What goes with the connections that are freed.
LEMMA MediaFreed ==
    ASSUME MediaInv, MappingInv, RegInv, NEW closing \in SUBSET alive,
           RemoveCnxs(closing), Free(closing), mode' = mode,
           running' = running \/ closing = alive
    PROVE  MediaInv'
<1>0. /\ alive' = alive \ closing
      /\ out' = [c \in Cnxs |-> IF c \in closing THEN <<>> ELSE out[c]]
      /\ asked' = [c \in Cnxs |-> IF c \in closing THEN {} ELSE asked[c]]
      /\ UNCHANGED <<gen, frames, published, init_types, init>>
      /\ subscribers' = [n \in Names |-> [c \in Cnxs |->
            IF c \in closing /\ conn_stream[c] = n THEN 0 ELSE subscribers[n][c]]]
  BY DEF Free, RemoveCnxs, initVars
<1>1. GoneInv'
  BY <1>0 DEF MediaInv, GoneInv
<1>2. AskInv'
  <2>1. \A c \in Cnxs : asked'[c] \subseteq asked[c]
    BY <1>0
  <2>2. \A n \in Names, c \in Cnxs : subscribers'[n][c] <= 1
    BY <1>0, SMTT(60) DEF MediaInv, AskInv
  <2> QED
    BY <1>0, <2>1, <2>2 DEF MediaInv, AskInv, Publication
<1>3. CacheInv'
  <2>1. \A n \in Names : Cached(n)' = Cached(n)
    BY <1>0 DEF Cached
  <2> QED
    BY <1>0, <2>1 DEF MediaInv, CacheInv, Publication
<1>4. ASSUME NEW c \in Cnxs, EntryInv(c), CodedInv(c) PROVE (EntryInv(c) /\ CodedInv(c))'
  <2>1. CASE c \in closing
    <3>1. DOMAIN out'[c] = {}
      BY <1>0, <2>1, SMTT(60)
    <3> QED
      BY <3>1 DEF EntryInv, CodedInv
  <2>2. CASE c \notin closing
    <3>1. out'[c] = out[c] /\ asked'[c] = asked[c]
      BY <1>0, <2>2
    <3> QED
      BY <1>0, <1>4, <3>1, SMTT(60) DEF EntryInv, CodedInv, Good, Publication, Cached, IsCoded
  <2> QED
    BY <2>1, <2>2
<1> QED
  BY <1>1, <1>2, <1>3, <1>4 DEF MediaInv

\* A command that is only answered.
LEMMA MediaAnswered ==
    ASSUME MediaInv, OutTypes, NEW c \in alive, c \in Cnxs, NEW sid,
           out' = [out EXCEPT ![c] = Append(@, Reply(sid))], sid \in MediaSids,
           UNCHANGED <<alive, running, mode, gen, frames, subscribers, init_types, init>>,
           \A d \in Cnxs : asked[d] \subseteq asked'[d] /\ (d # c => asked'[d] = asked[d]),
           published \subseteq published',
           \A n \in Names : [what |-> "publish", name |-> n] \in asked'[c] =>
              \/ [what |-> "publish", name |-> n] \in asked[c]
              \/ Publication(c, gen[c], n) \in published'
    PROVE  MediaInv'
<1>1. GoneInv'
  <2>1. \A d \in Cnxs : d # c => out'[d] = out[d]
    BY DEF OutTypes
  <2> QED
    BY <2>1 DEF MediaInv, GoneInv
<1>2. AskInv'
  <2>1. \A d \in Cnxs, n \in Names : [what |-> "publish", name |-> n] \in asked'[d] =>
            Publication(d, gen[d], n) \in published'
    BY DEF MediaInv, AskInv
  <2> QED
    BY <2>1 DEF MediaInv, AskInv, Publication
<1>3. \A n \in Names : Cached(n)' = Cached(n)
  BY DEF Cached
<1>4. CacheInv'
  BY <1>3 DEF MediaInv, CacheInv, Publication
<1>5. ASSUME mode = "Media", NEW d \in Cnxs PROVE (EntryInv(d) /\ CodedInv(d))'
  <2>1. PICK w \in Replies : w = Reply(sid)
    BY ViaTypes, RelayAssumption
  <2>2. out[d] \in Seq(Media \cup Replies) /\ frames \in Nat
    BY DEF OutTypes
  <2>3. CASE d = c
    <3>1. <<w>> \in Seq(Media \cup Replies) /\ out'[d] = out[d] \o <<w>>
      BY <2>1, <2>2, <2>3, SMTT(60) DEF OutTypes
    <3>2. w.type = "reply" /\ w.id = 0
      BY <2>1 DEF Reply
    <3>3. PICK more \in Seq(Media \cup Replies) :
            /\ out'[d] = out[d] \o more
            /\ \A k \in DOMAIN more : more[k] = w
      <4>1. \A k \in DOMAIN <<w>> : <<w>>[k] = w
        BY SMTT(60)
      <4> QED
        BY <3>1, <4>1
    <3>4. \A k \in DOMAIN more : Good(d, more[k])' /\ ~IsCoded(more[k])
      BY <2>2, <3>2, <3>3, SMTT(60) DEF Good, IsCoded
    <3>5. ASSUME NEW i \in DOMAIN out[d], IsCoded(out[d][i]) PROVE out[d][i].id # 0
      <4>1. Good(d, out[d][i]) /\ out[d][i].type # "reply"
        BY <1>5, <3>5 DEF MediaInv, EntryInv, IsCoded
      <4>2. out[d][i].id \in 0..frames /\ out[d][i].id > 0
        BY <4>1 DEF Good
      <4> QED
        BY <2>2, <4>2, SMTT(60)
    <3>6. EntryInv(d) /\ CodedInv(d)
      BY <1>5 DEF MediaInv
    <3>7. \A k \in DOMAIN more : \A i \in DOMAIN out[d] :
             IsCoded(out[d][i]) => more[k].id # out[d][i].id
      BY <3>2, <3>3, <3>5
    <3>8. \A n \in Names : \A f \in Cached(n)' : f \in Cached(n) \/ f.id = frames + 1
      BY <1>3
    <3>9. /\ frames' \in {frames, frames + 1}
          /\ asked[d] \subseteq asked'[d] /\ published \subseteq published'
      OBVIOUS
    <3> QED
      BY <2>2, <3>3, <3>4, <3>6, <3>7, <3>8, <3>9, MediaWritten
  <2>4. CASE d # c
    <3>1. out'[d] = out[d] /\ asked'[d] = asked[d]
      BY <2>4 DEF OutTypes
    <3> QED
      BY <1>3, <1>5, <2>2, <3>1, Unwritten DEF MediaInv
  <2> QED
    BY <2>3, <2>4
<1> QED
  BY <1>1, <1>2, <1>4, <1>5 DEF MediaInv

\* play is answered, and then followed by every cached frame.
LEMMA PlayWrites ==
    ASSUME OutTypes, NEW c \in Cnxs, NEW sid \in MediaSids, NEW n \in Names,
           OnPlay(c, sid, n)
    PROVE  \E more \in Seq(Media \cup Replies) :
              /\ out'[c] = out[c] \o more
              /\ \A k \in DOMAIN more :
                    \/ more[k].type = "reply" /\ more[k].id = 0
                    \/ \E f \in Cached(n) :
                          /\ more[k].id = f.id /\ more[k].type = f.type
                          /\ more[k].from = f.from /\ more[k].src = f.src
                          /\ more[k].gen = f.gen
              /\ \A f \in Cached(n) : \E k \in DOMAIN more : more[k].id = f.id
<1> DEFINE S == Media \cup Replies
           F == [i \in DOMAIN InitFrames(n) |-> [InitFrames(n)[i] EXCEPT !.via = OnPeer(sid)]]
<1>1. init_types[n] \in Seq(InitTypes) /\ out[c] \in Seq(S) /\ out \in [Cnxs -> Seq(S)]
  BY DEF OutTypes
<1>2. PICK len \in Nat : DOMAIN init_types[n] = 1..len
  BY <1>1, SMTT(60)
<1>3. ASSUME NEW i \in 1..len
      PROVE  /\ InitFrames(n)[i] \in Cached(n) /\ InitFrames(n)[i] \in Media
             /\ F[i] = [InitFrames(n)[i] EXCEPT !.via = OnPeer(sid)]
  <2>1. InitFrames(n)[i] = init[n][init_types[n][i]] /\ i \in DOMAIN init_types[n]
    BY <1>2 DEF InitFrames
  <2>2. InitFrames(n)[i] \in Media
    BY <2>1 DEF OutTypes
  <2>3. InitFrames(n)[i] \in Cached(n)
    BY <2>1 DEF Cached, Range
  <2> QED
    BY <1>2, <2>2, <2>3 DEF InitFrames
<1>4. ASSUME NEW i \in 1..len
      PROVE  /\ F[i] \in S
             /\ F[i].id = InitFrames(n)[i].id /\ F[i].type = InitFrames(n)[i].type
             /\ F[i].from = InitFrames(n)[i].from /\ F[i].src = InitFrames(n)[i].src
             /\ F[i].gen = InitFrames(n)[i].gen
  <2>1. OnPeer(sid) \in Vias
    BY ViaTypes, RelayAssumption
  <2>2. PICK f \in Media, v \in Vias : f = InitFrames(n)[i] /\ v = OnPeer(sid)
    BY <1>3, <2>1
  <2>3. F[i] = [f EXCEPT !.via = v]
    BY <1>3, <2>2
  <2>4. /\ [f EXCEPT !.via = v] \in Media
        /\ [f EXCEPT !.via = v].id = f.id /\ [f EXCEPT !.via = v].type = f.type
        /\ [f EXCEPT !.via = v].from = f.from /\ [f EXCEPT !.via = v].src = f.src
        /\ [f EXCEPT !.via = v].gen = f.gen
    BY DEF Media
  <2> HIDE DEF F
  <2> QED
    BY <2>2, <2>3, <2>4
<1>5. \A f \in Cached(n) : \E i \in 1..len : f = InitFrames(n)[i]
  BY <1>2 DEF Cached, Range, InitFrames
<1>6. F = [i \in 1..len |-> F[i]]
  BY <1>2 DEF InitFrames
<1>7. PICK w : w = Reply(sid) /\ w \in S /\ w.type = "reply" /\ w.id = 0
  <2>1. Reply(sid) \in Replies
    BY ViaTypes, RelayAssumption
  <2>2. Reply(sid).type = "reply" /\ Reply(sid).id = 0
    BY DEF Reply
  <2> QED
    BY <2>1, <2>2
<1>8. out'[c] = Append(out[c], w) \o F
  BY <1>1, <1>7 DEF OnPlay
<1> HIDE DEF F, S
<1>9. F \in Seq(S) /\ DOMAIN F = 1..len
  BY <1>4, <1>6, SMTT(60)
<1>10. /\ out'[c] = out[c] \o (<<w>> \o F) /\ <<w>> \o F \in Seq(S)
  BY <1>1, <1>7, <1>8, <1>9, AnswerThenFrames, SMTT(60)
<1>11. <<w>> \in Seq(S) /\ DOMAIN <<w>> = {1} /\ <<w>>[1] = w /\ Len(<<w>>) = 1
  BY <1>7, SMTT(60)
<1>12. PICK more \in Seq(S) :
         /\ out'[c] = out[c] \o more
         /\ \A k \in DOMAIN more : more[k] = w \/ \E i \in 1..len : more[k] = F[i]
         /\ \A i \in 1..len : \E k \in DOMAIN more : more[k] = F[i]
  <2> DEFINE m == <<w>> \o F
  <2>1. /\ \A i \in {1} : i \in DOMAIN m /\ m[i] = w
        /\ \A k \in 1..len : 1 + k \in DOMAIN m /\ m[1 + k] = F[k]
        /\ \A i \in DOMAIN m : i \in {1} \/ \E k \in 1..len : i = 1 + k
    <3>1. PICK u, g, T : /\ u = <<w>> /\ g = F /\ T = S /\ u \in Seq(T) /\ g \in Seq(T)
                         /\ DOMAIN u = {1} /\ u[1] = w /\ Len(u) = 1
      BY <1>9, <1>11
    <3>2. /\ \A i \in DOMAIN u : i \in DOMAIN (u \o g) /\ (u \o g)[i] = u[i]
          /\ \A k \in DOMAIN g : Len(u) + k \in DOMAIN (u \o g) /\ (u \o g)[Len(u) + k] = g[k]
          /\ \A i \in DOMAIN (u \o g) : \/ i \in DOMAIN u
                                         \/ \E k \in DOMAIN g : i = Len(u) + k
      <4>1. u \in Seq(T) /\ g \in Seq(T)
        BY <3>1
      <4> QED
        BY <4>1, Extended
    <3>3. m = u \o g /\ DOMAIN g = 1..len
      BY <1>9, <3>1
    <3> HIDE DEF m
    <3>4. \A i \in {1} : i \in DOMAIN m /\ m[i] = w
      BY <3>1, <3>2, <3>3
    <3>5. ASSUME NEW k \in 1..len PROVE 1 + k \in DOMAIN m /\ m[1 + k] = F[k]
      BY <3>1, <3>2, <3>3
    <3>6. ASSUME NEW i \in DOMAIN m PROVE i \in {1} \/ \E k \in 1..len : i = 1 + k
      BY <3>1, <3>2, <3>3, SMTT(60)
    <3> QED
      BY <3>4, <3>5, <3>6
  <2> HIDE DEF m
  <2>2. \A k \in DOMAIN m : m[k] = w \/ \E i \in 1..len : m[k] = F[i]
    BY <2>1
  <2>3. \A i \in 1..len : \E k \in DOMAIN m : m[k] = F[i]
    BY <2>1
  <2> QED
    BY <1>10, <2>2, <2>3 DEF m
<1>13. \A k \in DOMAIN more :
          \/ more[k].type = "reply" /\ more[k].id = 0
          \/ \E f \in Cached(n) :
                /\ more[k].id = f.id /\ more[k].type = f.type
                /\ more[k].from = f.from /\ more[k].src = f.src
                /\ more[k].gen = f.gen
  <2> SUFFICES ASSUME NEW k \in DOMAIN more, more[k] # w
               PROVE  \E f \in Cached(n) :
                        /\ more[k].id = f.id /\ more[k].type = f.type
                        /\ more[k].from = f.from /\ more[k].src = f.src
                        /\ more[k].gen = f.gen
    BY <1>7
  <2>1. PICK i \in 1..len : more[k] = F[i]
    BY <1>12
  <2>2. PICK f \in Cached(n) : f = InitFrames(n)[i]
    BY <1>3
  <2>3. /\ more[k].id = f.id /\ more[k].type = f.type
        /\ more[k].from = f.from /\ more[k].src = f.src
        /\ more[k].gen = f.gen
    BY <1>4, <2>1, <2>2
  <2> QED
    BY <2>3
<1>14. \A f \in Cached(n) : \E k \in DOMAIN more : more[k].id = f.id
  <2> TAKE f \in Cached(n)
  <2>1. PICK i \in 1..len : f = InitFrames(n)[i]
    BY <1>5
  <2>2. PICK k \in DOMAIN more : more[k] = F[i]
    BY <1>12
  <2> QED
    BY <1>4, <2>1, <2>2
<1> QED
  BY <1>12, <1>13, <1>14 DEF S

\* A player gets frames of the stream it has just asked for.
LEMMA MediaPlayed ==
    ASSUME MediaInv, OutTypes, RegInv, MappingInv, NEW c \in Cnxs, NEW sid \in MediaSids,
           NEW n \in Names, OnPlay(c, sid, n)
    PROVE  MediaInv'
<1>0. /\ c \in alive
      /\ UNCHANGED <<alive, running, mode, gen, frames, published, init_types, init>>
      /\ subscribers' = [subscribers EXCEPT ![n][c] = IF @ > 0 THEN @ ELSE @ + 1]
      /\ asked' = [asked EXCEPT ![c] = @ \cup {[what |-> "play", name |-> n]}]
      /\ \A d \in Cnxs : d # c => out'[d] = out[d]
  BY DEF OnPlay, OnCommand, RegisterSubscriber, quicVars, initVars, OutTypes
<1>a. /\ \A d \in Cnxs : asked[d] \subseteq asked'[d] /\ (d # c => asked'[d] = asked[d])
      /\ [what |-> "play", name |-> n] \in asked'[c]
      /\ \A m \in Names : [what |-> "publish", name |-> m] \in asked'[c]
                             => [what |-> "publish", name |-> m] \in asked[c]
  BY <1>0 DEF RegInv
<1>1. GoneInv'
  BY <1>0, <1>a DEF MediaInv, GoneInv
<1>2. AskInv'
  <2>1. \A m \in Names, d \in Cnxs : subscribers'[m][d] <= 1
    <3> TAKE m \in Names, d \in Cnxs
    <3>1. subscribers[m][d] \in Nat /\ subscribers[m][d] <= 1
      BY DEF MediaInv, AskInv, OutTypes
    <3>2. \/ subscribers'[m][d] = subscribers[m][d]
          \/ subscribers'[m][d] = subscribers[m][d] + 1 /\ ~(subscribers[m][d] > 0)
      BY <1>0 DEF OutTypes
    <3> QED
      BY <3>1, <3>2, SMTT(60)
  <2> QED
    BY <1>0, <1>a, <2>1 DEF MediaInv, AskInv, Publication
<1>3. \A m \in Names : Cached(m)' = Cached(m)
  BY <1>0 DEF Cached
<1>4. CacheInv'
  BY <1>0, <1>3 DEF MediaInv, CacheInv, Publication
<1>5. ASSUME mode = "Media", NEW d \in Cnxs PROVE (EntryInv(d) /\ CodedInv(d))'
  <2>1. /\ EntryInv(d) /\ CodedInv(d)
        /\ out[d] \in Seq(Media \cup Replies) /\ frames \in Nat
    BY <1>5 DEF MediaInv, OutTypes
  <2>2. CASE d = c
    <3>1. PICK more \in Seq(Media \cup Replies) :
              /\ out'[c] = out[c] \o more
              /\ \A k \in DOMAIN more :
                    \/ more[k].type = "reply" /\ more[k].id = 0
                    \/ \E f \in Cached(n) :
                          /\ more[k].id = f.id /\ more[k].type = f.type
                          /\ more[k].from = f.from /\ more[k].src = f.src
                          /\ more[k].gen = f.gen
      BY PlayWrites
    <3>2. \A f \in Cached(n) : /\ f.from = n /\ f.type # CodedType /\ f.id \in 1..frames
                                /\ Publication(f.src, f.gen, n) \in published
      BY RelayAssumption DEF MediaInv, CacheInv
    <3>3. \A k \in DOMAIN more : Good(d, more[k])' /\ ~IsCoded(more[k])
      <4> TAKE k \in DOMAIN more
      <4>1. CASE more[k].type = "reply" /\ more[k].id = 0
        BY <1>0, <2>1, <4>1, SMTT(60) DEF Good, IsCoded
      <4>2. ASSUME NEW f \in Cached(n),
                   more[k].id = f.id, more[k].type = f.type, more[k].from = f.from,
                   more[k].src = f.src, more[k].gen = f.gen
            PROVE  Good(d, more[k])' /\ ~IsCoded(more[k])
        <5>1. f.id \in 0..frames /\ f.id > 0
          BY <2>1, <3>2, SMTT(60)
        <5> QED
          BY <1>0, <1>a, <2>2, <3>2, <4>2, <5>1 DEF Good, IsCoded, Publication
      <4> QED
        BY <3>1, <4>1, <4>2
    <3>4. ASSUME NEW i \in DOMAIN out[d], IsCoded(out[d][i]), NEW k \in DOMAIN more
          PROVE  more[k].id # out[d][i].id
      <4>1. Good(d, out[d][i]) /\ out[d][i].type # "reply"
        BY <2>1, <3>4 DEF EntryInv, IsCoded
      <4>2. out[d][i].id # 0
        BY <2>1, <4>1, SMTT(60) DEF Good
      <4>3. \A f \in Cached(n) : f.id # out[d][i].id
        BY <2>1, <3>4 DEF CodedInv
      <4> QED
        BY <3>1, <4>2, <4>3
    <3> QED
      <4>1. /\ out'[d] = out[d] \o more /\ frames' \in {frames, frames + 1}
            /\ asked[d] \subseteq asked'[d] /\ published \subseteq published'
        BY <1>0, <1>a, <2>2, <3>1
      <4>2. \A m \in Names : \A f \in Cached(m)' : f \in Cached(m) \/ f.id = frames + 1
        BY <1>3
      <4> QED
        BY <2>1, <3>3, <3>4, <4>1, <4>2, MediaWritten
  <2>3. CASE d # c
    BY <1>0, <1>3, <1>a, <2>1, <2>3, Unwritten
  <2> QED
    BY <2>2, <2>3
<1> QED
  BY <1>0, <1>1, <1>2, <1>4, <1>5 DEF MediaInv

\* What a cache holds after a frame w of connection c went through it.
LEMMA CacheEffect ==
    ASSUME OutTypes, NEW n \in Names, NEW t \in InitTypes, NEW w, CacheInit(n, t, w)
    PROVE  \A m \in Names : \A f \in Cached(m)' : f \in Cached(m) \/ (m = n /\ f = w)
<1> SUFFICES ASSUME NEW m \in Names, NEW f \in Cached(m)'
             PROVE  f \in Cached(m) \/ (m = n /\ f = w)
  OBVIOUS
<1>1. PICK i \in DOMAIN init_types'[m] : f = init'[m][init_types'[m][i]]
  BY DEF Cached, Range
<1>2. init_types[m] \in Seq(InitTypes)
  BY DEF OutTypes
<1>3. \/ init_types'[m] = init_types[m]
      \/ m = n /\ init_types'[m] = Append(init_types[m], t)
  BY DEF CacheInit, OutTypes
<1>4. \/ i \in DOMAIN init_types[m] /\ init_types'[m][i] = init_types[m][i]
      \/ m = n /\ init_types'[m][i] = t
  BY <1>1, <1>2, <1>3, SMTT(60)
<1>5. init_types'[m][i] \in InitTypes
  BY <1>2, <1>4, SMTT(60)
<1>6. \/ m = n /\ init_types'[m][i] = t /\ f = w
      \/ ~(m = n /\ init_types'[m][i] = t) /\ f = init[m][init_types'[m][i]]
  BY <1>1, <1>5 DEF CacheInit, OutTypes
<1>7. CASE ~(m = n /\ init_types'[m][i] = t)
  <2>1. i \in DOMAIN init_types[m] /\ f = init[m][init_types[m][i]]
    BY <1>4, <1>6, <1>7
  <2> QED
    BY <2>1 DEF Cached, Range
<1> QED
  BY <1>6, <1>7

\* Frame w of connection c is sent once to each subscriber of the stream that c
\* publishes, and to nobody when it publishes none.
PassedOn(c, t, w) ==
    /\ w.id = frames + 1 /\ w.type = t /\ w.from = conn_stream[c]
    /\ IsPublisher(c) => /\ conn_stream[c] \in Names
                         /\ Publication(w.src, w.gen, w.from) \in published
    /\ \A m \in Names : \A f \in Cached(m)' :
          \/ f \in Cached(m)
          \/ IsPublisher(c) /\ m = conn_stream[c] /\ f = w /\ t \in InitTypes
    /\ \A d \in Cnxs : \E more \in Seq(Media \cup Replies) :
          /\ out'[d] = out[d] \o more
          /\ \A k \in DOMAIN more :
                /\ more[k] = w /\ \A l \in DOMAIN more : l = k
                /\ IsPublisher(c) /\ subscribers[conn_stream[c]][d] > 0
          /\ IsPublisher(c) /\ subscribers[conn_stream[c]][d] > 0
                => \E k \in DOMAIN more : more[k] = w

\* That is what a media frame does.
LEMMA MediaSent ==
    ASSUME MediaInv, OutTypes, RegInv, NEW c \in Cnxs, NEW sid \in MediaSids,
           NEW t \in InitTypes \cup {CodedType}, NEW b \in BOOLEAN, OnMedia(c, sid, t, b)
    PROVE  \E w \in Media : PassedOn(c, t, w)
<1>1. PICK via \in Vias : via = (IF b THEN InDatagram ELSE OnPeer(0))
  BY RelayAssumption, ViaTypes
<1>2. PICK w : w = Written(via, t, c, conn_stream[c])
  OBVIOUS
<1>3. w \in Media
  <2>1. conn_stream[c] \in Sids \cup Names \cup {NoName}
    BY DEF OutTypes
  <2> QED
    BY <1>1, <1>2, <2>1, WrittenTypes
<1>4. w.id = frames + 1 /\ w.type = t /\ w.from = conn_stream[c] /\ w.src = c /\ w.gen = gen[c]
  BY <1>2 DEF Written
<1>5. PICK subs : subs = SubscribersFor(c)
  OBVIOUS
<1>6. /\ IF t \in InitTypes /\ IsPublisher(c) THEN CacheInit(conn_stream[c], t, w)
                                              ELSE UNCHANGED initVars
      /\ out' = [d \in Cnxs |-> out[d] \o [i \in 1..subs[d] |-> w]]
  BY <1>1, <1>2, <1>5 DEF OnMedia
<1>7. ASSUME IsPublisher(c)
      PROVE  /\ conn_stream[c] \in Names
             /\ Publication(w.src, w.gen, w.from) \in published
  <2>1. PICK n \in Names : conn_stream[c] = n /\ publisher[n] = c
    BY <1>7, SMTT(60) DEF IsPublisher, RegInv
  <2>2. [what |-> "publish", name |-> n] \in asked[c]
    BY <2>1, RouterAssumption, SMTT(60) DEF RegInv
  <2>3. Publication(c, gen[c], n) \in published
    BY <2>2 DEF MediaInv, AskInv
  <2> QED
    BY <1>4, <2>1, <2>3
<1>8. \A m \in Names : \A f \in Cached(m)' :
         \/ f \in Cached(m)
         \/ IsPublisher(c) /\ m = conn_stream[c] /\ f = w /\ t \in InitTypes
  <2>1. CASE UNCHANGED initVars
    <3>1. \A m \in Names : Cached(m)' = Cached(m)
      BY <2>1 DEF initVars, Cached
    <3> QED
      BY <3>1
  <2>2. CASE t \in InitTypes /\ IsPublisher(c)
    <3>1. PICK n \in Names : n = conn_stream[c]
      BY <1>7, <2>2
    <3>2. CacheInit(n, t, w) /\ t \in InitTypes
      BY <1>6, <2>2, <3>1
    <3>3. \A m \in Names : \A f \in Cached(m)' : f \in Cached(m) \/ (m = n /\ f = w)
      BY <3>2, CacheEffect
    <3> QED
      BY <2>2, <3>1, <3>3
  <2> QED
    BY <1>6, <2>1, <2>2
<1>9. ASSUME NEW d \in Cnxs
      PROVE  \E more \in Seq(Media \cup Replies) :
                    /\ out'[d] = out[d] \o more
                    /\ \A k \in DOMAIN more :
                          /\ more[k] = w /\ \A l \in DOMAIN more : l = k
                          /\ IsPublisher(c) /\ subscribers[conn_stream[c]][d] > 0
                    /\ IsPublisher(c) /\ subscribers[conn_stream[c]][d] > 0
                          => \E k \in DOMAIN more : more[k] = w
  <2>1. PICK s : s = subs[d]
    OBVIOUS
  <2>2. /\ s \in {0, 1}
        /\ s = 1 => IsPublisher(c) /\ subscribers[conn_stream[c]][d] > 0
        /\ IsPublisher(c) /\ subscribers[conn_stream[c]][d] > 0 => s = 1
    <3>1. CASE IsPublisher(c)
      <4>1. PICK n \in Names : n = conn_stream[c]
        BY <1>7, <3>1
      <4>2. subscribers[n][d] \in Nat /\ subscribers[n][d] <= 1
        BY DEF OutTypes, MediaInv, AskInv
      <4>3. s = subscribers[n][d]
        BY <1>5, <2>1, <3>1, <4>1 DEF SubscribersFor
      <4> QED
        BY <3>1, <4>1, <4>2, <4>3, SMTT(60)
    <3>2. CASE ~IsPublisher(c)
      BY <1>5, <2>1, <3>2, SMTT(60) DEF SubscribersFor
    <3> QED
      BY <3>1, <3>2
  <2>3. PICK S : S = Media \cup Replies
    OBVIOUS
  <2>4. PICK more : more = [i \in 1..s |-> w]
    OBVIOUS
  <2>5. w \in S /\ s \in Nat
    BY <1>3, <2>2, <2>3, SMTT(60)
  <2>6. more \in Seq(S) /\ DOMAIN more = 1..s /\ \A k \in 1..s : more[k] = w
    BY <2>4, <2>5, SMTT(60)
  <2>7. out'[d] = out[d] \o more
    BY <1>6, <2>1, <2>4
  <2>8. \A k \in 1..s : s = 1 /\ \A l \in 1..s : l = k
    BY <2>2, SMTT(60)
  <2>9. s = 1 => 1 \in 1..s
    BY SMTT(60)
  <2> QED
    BY <2>2, <2>3, <2>6, <2>7, <2>8, <2>9
<1> QED
  BY <1>3, <1>4, <1>7, <1>8, <1>9 DEF PassedOn

\* A media frame that is passed on.
LEMMA MediaPublished ==
    ASSUME MediaInv, OutTypes, RegInv, NEW c \in Cnxs, NEW sid \in MediaSids,
           NEW t \in InitTypes \cup {CodedType}, NEW b \in BOOLEAN, OnMedia(c, sid, t, b)
    PROVE  MediaInv'
<1>0. /\ mode = "Media" /\ frames' = frames + 1 /\ frames \in Nat /\ running
      /\ UNCHANGED <<alive, running, mode, gen, asked, published, subscribers>>
  BY DEF OnMedia, OutTypes, quicVars
<1>1. PICK w \in Media : PassedOn(c, t, w)
  BY MediaSent
<1>1a. w.id = frames + 1
  BY <1>1 DEF PassedOn
<1>1b. w.id \in 1..frames' /\ w.id \in 0..frames' /\ w.id > 0
  BY <1>0, <1>1a, SMTT(60)
<1>2. ASSUME NEW d \in Cnxs
      PROVE  /\ d \notin alive => out'[d] = <<>>
             /\ EntryInv(d)' /\ CodedInv(d)'
  <2>1. PICK more \in Seq(Media \cup Replies) :
                    /\ out'[d] = out[d] \o more
                    /\ \A k \in DOMAIN more :
                          /\ more[k] = w /\ \A l \in DOMAIN more : l = k
                          /\ IsPublisher(c) /\ subscribers[conn_stream[c]][d] > 0
    BY <1>1 DEF PassedOn
  <2>2. EntryInv(d) /\ CodedInv(d) /\ out[d] \in Seq(Media \cup Replies)
    BY <1>0 DEF MediaInv, OutTypes
  <2>3. ASSUME NEW k \in DOMAIN more
        PROVE  /\ d \in alive /\ [what |-> "play", name |-> w.from] \in asked[d]
               /\ Publication(w.src, w.gen, w.from) \in published /\ more[k] = w
    <3>1. PICK n \in Names : n = conn_stream[c] /\ subscribers[n][d] > 0
      BY <1>1, <2>1 DEF PassedOn
    <3>2. d \in alive /\ [what |-> "play", name |-> n] \in asked[d]
      BY <3>1 DEF RegInv
    <3> QED
      BY <1>1, <2>1, <3>1, <3>2 DEF PassedOn
  <2>4. d \notin alive => out'[d] = <<>>
    <3> SUFFICES ASSUME d \notin alive PROVE out'[d] = <<>>
      OBVIOUS
    <3>1. out[d] = <<>> /\ DOMAIN more = {}
      BY <2>3 DEF MediaInv, GoneInv
    <3>2. Len(more) \in Nat /\ DOMAIN more = 1..Len(more)
      BY SMTT(60)
    <3>3. Len(more) = 0
      BY <3>1, <3>2, SMTT(60)
    <3>4. more = <<>>
      BY <3>3, SMTT(60)
    <3> QED
      BY <2>1, <3>1, <3>4, SMTT(60)
  <2>5. \A k \in DOMAIN more : Good(d, more[k])'
    <3> TAKE k \in DOMAIN more
    <3> QED
      BY <1>0, <1>1b, <2>3 DEF Good, Publication
  <2>6. \A m \in Names : \A f \in Cached(m)' : f \in Cached(m) \/ f.id = frames + 1
    BY <1>1 DEF PassedOn
  <2>7. ASSUME NEW k \in DOMAIN more, IsCoded(more[k])
        PROVE  /\ \A l \in DOMAIN more : l = k
               /\ more[k].id = frames + 1
               /\ \A m \in Names : \A f \in Cached(m)' : f.id # frames + 1
    <3>1. t \notin InitTypes
      BY <1>1, <2>3, <2>7, RelayAssumption DEF IsCoded, PassedOn
    <3>2. \A m \in Names : \A f \in Cached(m)' : f \in Cached(m)
      BY <1>1, <3>1 DEF PassedOn
    <3>3. \A m \in Names : \A f \in Cached(m) : f.id # frames + 1
      BY <1>0, SMTT(60) DEF MediaInv, CacheInv
    <3> QED
      BY <1>1, <2>1, <3>2, <3>3 DEF PassedOn
  <2>8. ASSUME NEW k \in DOMAIN more, NEW i \in DOMAIN out[d]
        PROVE  more[k].id # out[d][i].id
    <3>1. out[d][i].id \in 0..frames
      BY <2>2 DEF EntryInv, Good
    <3> QED
      <4>1. more[k].id = frames + 1
        BY <1>1, <2>3 DEF PassedOn
      <4> QED
        BY <1>0, <3>1, <4>1, SMTT(60)
  <2>9. /\ frames' \in {frames, frames + 1} /\ frames \in Nat
        /\ asked[d] \subseteq asked'[d] /\ published \subseteq published'
    BY <1>0
  <2>10. EntryInv(d)' /\ CodedInv(d)'
    BY <2>1, <2>2, <2>5, <2>6, <2>7, <2>8, <2>9, MediaWritten
  <2> QED
    BY <2>4, <2>10
<1>3. GoneInv'
  BY <1>0, <1>2 DEF MediaInv, GoneInv
<1>4. AskInv'
  BY <1>0 DEF MediaInv, AskInv, Publication
<1>5. CacheInv'
  <2> SUFFICES ASSUME NEW n \in Names, NEW f \in Cached(n)'
               PROVE  /\ f.from = n /\ f.type \in InitTypes /\ f.id \in 1..frames'
                      /\ Publication(f.src, f.gen, n) \in published'
    BY DEF CacheInv, Publication
  <2>1. CASE f \in Cached(n)
    <3>1. /\ f.from = n /\ f.type \in InitTypes /\ f.id \in 1..frames
          /\ Publication(f.src, f.gen, n) \in published
      BY <2>1 DEF MediaInv, CacheInv
    <3> QED
      BY <1>0, <3>1, SMTT(60)
  <2>2. CASE IsPublisher(c) /\ n = conn_stream[c] /\ f = w /\ t \in InitTypes
    <3>1. f.id \in 1..frames'
      BY <1>1b, <2>2
    <3> QED
      BY <1>0, <1>1, <2>2, <3>1 DEF PassedOn
  <2> QED
    BY <1>1, <2>1, <2>2 DEF PassedOn
<1> QED
  BY <1>2, <1>3, <1>4, <1>5 DEF MediaInv

\* Frames of the other modes leave the media state alone.
LEMMA MediaNotInUse ==
    ASSUME MediaInv, OutTypes, MappingInv, NEW c \in Cnxs, NEW sid \in Sids,
           NEW b \in BOOLEAN, OnFrame(c, sid, b)
    PROVE  MediaInv'
<1>0. /\ mode # "Media" /\ frames' = frames + 1 /\ frames \in Nat /\ c \in alive
      /\ UNCHANGED <<alive, running, mode, gen, asked, published, subscribers,
                     init_types, init>>
  BY DEF OnFrame, OutTypes, routerVars, initVars
<1>1. \A d \in Cnxs : d \notin alive => out'[d] = out[d]
  <2>1. conns = alive
    BY DEF MappingInv, MappingsLive
  <2> QED
    BY <1>0, <2>1 DEF OnFrame, Echo, ForwardOnStream, ForwardAsDatagram, OutTypes
<1>2. GoneInv'
  BY <1>0, <1>1 DEF MediaInv, GoneInv
<1>3. AskInv'
  BY <1>0 DEF MediaInv, AskInv, Publication
<1>4. CacheInv'
  <2>1. \A n \in Names : Cached(n)' = Cached(n)
    BY <1>0 DEF Cached
  <2>2. \A i \in 1..frames : i \in 1..frames'
    BY <1>0, SMTT(60)
  <2> QED
    BY <1>0, <2>1, <2>2 DEF MediaInv, CacheInv, Publication
<1> QED
  BY <1>0, <1>2, <1>3, <1>4 DEF MediaInv

\* MediaInv holds initially.
LEMMA MediaInit == Init => MediaInv
<1> SUFFICES ASSUME Init PROVE MediaInv
  OBVIOUS
<1>1. \A c \in Cnxs : out[c] = <<>> /\ asked[c] = {}
  BY DEF Init
<1>2. GoneInv
  BY <1>1 DEF Init, GoneInv
<1>3. AskInv
  BY <1>1, SMTT(60) DEF Init, RouterInit, AskInv
<1>4. \A n \in Names : init_types[n] = <<>>
  BY DEF Init, RouterInit
<1>5. DOMAIN <<>> = {}
  BY SMTT(60)
<1>6. CacheInv
  BY <1>4, <1>5 DEF CacheInv, Cached, Range
<1>7. \A c \in Cnxs : EntryInv(c) /\ CodedInv(c)
  BY <1>1, <1>5 DEF EntryInv, CodedInv
<1> QED
  BY <1>2, <1>3, <1>6, <1>7 DEF MediaInv

\* Every step keeps MediaInv.
LEMMA MediaStep ==
    ASSUME MappingInv, OutTypes, RegInv, MediaInv, [Next]_vars
    PROVE  MediaInv'
<1>c. alive \subseteq Cnxs
  BY DEF MappingInv, MappingTypes
<1>g. gen \in [Cnxs -> Nat]
  BY DEF OutTypes
<1>1. CASE UNCHANGED vars
  BY <1>1, <1>g, MediaUntouched
     DEF vars, quicVars, historyVars, routerVars, initVars, MediaInv, GoneInv
<1>2. CASE Start
  BY <1>2, <1>g, MediaUntouched
     DEF Start, quicVars, historyVars, routerVars, initVars, MediaInv, GoneInv
<1>3. CASE Stop
  BY <1>3, MediaFreed DEF Stop
<1>4. ASSUME NEW c \in Cnxs, OnReady(c) PROVE MediaInv'
  <2>1. /\ alive' = alive \cup {c} /\ c \notin alive /\ running'
        /\ gen' = [gen EXCEPT ![c] = @ + 1]
        /\ UNCHANGED <<mode, out, asked, published, frames, subscribers, init_types, init>>
    BY <1>4 DEF OnReady, routerVars, initVars
  <2>2. gen' \in [Cnxs -> Nat] /\ \A d \in alive : gen'[d] = gen[d]
    BY <1>c, <1>g, <2>1, SMTT(60)
  <2> QED
    BY <2>1, <2>2, MediaUntouched
<1>5. ASSUME NEW c \in Cnxs, OnClose(c) PROVE MediaInv'
  BY <1>5, MediaFreed DEF OnClose
<1>6. ASSUME NEW c \in Cnxs, NEW sid \in Sids,
             OnFin(c, sid) \/ OnReset(c, sid) \/ OnStopSending(c, sid)
      PROVE  MediaInv'
  BY <1>6, <1>g, MediaUntouched, SMTT(60)
     DEF OnFin, OnReset, OnStopSending, routerVars, initVars
<1>7. ASSUME NEW c \in Cnxs, NEW sid \in Sids, NEW b \in BOOLEAN, OnFrame(c, sid, b)
      PROVE  MediaInv'
  BY <1>7, MediaNotInUse
<1>8. ASSUME NEW c \in Cnxs, NEW sid \in MediaSids, OnConnect(c, sid)
      PROVE  MediaInv'
  BY <1>8, MediaAnswered DEF OnConnect, OnCommand, quicVars, routerVars, initVars
<1>9. ASSUME NEW c \in Cnxs, NEW sid \in MediaSids, NEW n \in Names, OnPublish(c, sid, n)
      PROVE  MediaInv'
  <2>1. /\ c \in alive /\ out' = [out EXCEPT ![c] = Append(@, Reply(sid))]
        /\ UNCHANGED <<alive, running, mode, gen, frames, subscribers, init_types, init>>
        /\ asked' = [asked EXCEPT ![c] = @ \cup {[what |-> "publish", name |-> n]}]
        /\ published' = published \cup {Publication(c, gen[c], n)}
    BY <1>9 DEF OnPublish, OnCommand, RegisterPublisher, quicVars, initVars, Publication
  <2>2. \A d \in Cnxs : asked[d] \subseteq asked'[d] /\ (d # c => asked'[d] = asked[d])
    BY <2>1 DEF RegInv
  <2>3. \A m \in Names : [what |-> "publish", name |-> m] \in asked'[c] =>
              \/ [what |-> "publish", name |-> m] \in asked[c]
              \/ Publication(c, gen[c], m) \in published'
    BY <2>1 DEF RegInv
  <2> QED
    BY <2>1, <2>2, <2>3, MediaAnswered
<1>10. ASSUME NEW c \in Cnxs, NEW sid \in MediaSids, NEW n \in Names, OnPlay(c, sid, n)
       PROVE  MediaInv'
  BY <1>10, MediaPlayed
<1>11. ASSUME NEW c \in Cnxs, NEW sid \in MediaSids, NEW t \in InitTypes \cup {CodedType},
              NEW b \in BOOLEAN, OnMedia(c, sid, t, b)
       PROVE  MediaInv'
  BY <1>11, MediaPublished
<1> QED
  BY <1>1, <1>2, <1>3, <1>4, <1>5, <1>6, <1>7, <1>8, <1>9, <1>10, <1>11 DEF Next

\* In media mode (handle_media_frame()) a connection is sent only media of a
\* stream that it plays, from a connection that published it, and each coded
\* frame once.
THEOREM MediaOnlyToPlayers ==
    ASSUME SingleStream
    PROVE  Spec => []OnlyPublishedToPlayers
<1>1. MappingInv /\ MediaInv => OnlyPublishedToPlayers
  <2> SUFFICES ASSUME MappingInv, MediaInv, NEW c \in alive, NEW i \in DOMAIN out[c],
                      mode = "Media", out[c][i].type # "reply"
               PROVE  LET e == out[c][i]
                      IN  /\ [what |-> "play", name |-> e.from] \in asked[c]
                          /\ [cnx |-> e.src, gen |-> e.gen, name |-> e.from] \in published
                          /\ e.type = CodedType => \A j \in DOMAIN out[c] :
                                                      out[c][j].id = e.id => i = j
    BY DEF OnlyPublishedToPlayers
  <2>1. EntryInv(c) /\ CodedInv(c)
    BY DEF MediaInv, MappingInv, MappingTypes
  <2> QED
    BY <2>1 DEF EntryInv, CodedInv, Good, IsCoded, Publication
<1> QED
  BY <1>1, MappingInit, MappingStep, OutInit, OutStep, RegInit, RegStep,
     MediaInit, MediaStep, PTL DEF Spec

\* Writing adds to the ids that a connection was sent.
LEMMA IdsGrow ==
    ASSUME NEW d \in Cnxs, NEW more \in Seq(Media \cup Replies),
           out[d] \in Seq(Media \cup Replies), out'[d] = out[d] \o more
    PROVE  OutIds(d) \subseteq OutIds(d)' /\ \A k \in DOMAIN more : more[k].id \in OutIds(d)'
<1>1. PICK q, S : q = out[d] /\ S = Media \cup Replies /\ q \in Seq(S) /\ more \in Seq(S)
  OBVIOUS
<1>2. PICK r : r = out'[d] /\ r = q \o more
  BY <1>1
<1>3. /\ \A i \in DOMAIN q : i \in DOMAIN r /\ r[i] = q[i]
      /\ \A k \in DOMAIN more : Len(q) + k \in DOMAIN r /\ r[Len(q) + k] = more[k]
  <2>1. q \in Seq(S) /\ more \in Seq(S)
    BY <1>1
  <2>2. /\ \A i \in DOMAIN q : i \in DOMAIN (q \o more) /\ (q \o more)[i] = q[i]
        /\ \A k \in DOMAIN more :
              Len(q) + k \in DOMAIN (q \o more) /\ (q \o more)[Len(q) + k] = more[k]
        /\ \A i \in DOMAIN (q \o more) : \/ i \in DOMAIN q
                                         \/ \E k \in DOMAIN more : i = Len(q) + k
    BY <2>1, Extended, SMTT(60)
  <2> QED
    BY <1>2, <2>2
<1>4. OutIds(d) = {q[i].id : i \in DOMAIN q} /\ OutIds(d)' = {r[i].id : i \in DOMAIN r}
  BY <1>1, <1>2 DEF OutIds
<1> QED
  BY <1>3, <1>4

\* A frame or a reply that is appended does.
LEMMA IdsGrowByOne ==
    ASSUME NEW d \in Cnxs, NEW w \in Media \cup Replies,
           out[d] \in Seq(Media \cup Replies), out'[d] = Append(out[d], w)
    PROVE  OutIds(d) \subseteq OutIds(d)'
<1>1. PICK q, S : q = out[d] /\ S = Media \cup Replies /\ q \in Seq(S) /\ w \in S
  OBVIOUS
<1>2. Append(q, w) = q \o <<w>>
  BY <1>1, AppendIsConcat
<1>3. <<w>> \in Seq(Media \cup Replies)
  BY SMTT(60)
<1> QED
  BY <1>1, <1>2, <1>3, IdsGrow

\* Subscribers stay primed while nothing is cached and nobody joins.
LEMMA PrimedKept ==
    ASSUME PrimedInv, UNCHANGED <<init_types, init>>,
           \A n \in Names, c \in Cnxs : subscribers'[n][c] > 0 =>
              subscribers[n][c] > 0 /\ OutIds(c) \subseteq OutIds(c)'
    PROVE  PrimedInv'
<1>1. \A n \in Names : Cached(n)' = Cached(n)
  BY DEF Cached
<1> QED
  BY <1>1 DEF PrimedInv

\* A connection that is gone is no subscriber.
LEMMA PrimedFreed ==
    ASSUME PrimedInv, RegInv, NEW closing \in SUBSET alive,
           RemoveCnxs(closing), Free(closing)
    PROVE  PrimedInv'
<1>1. /\ out' = [c \in Cnxs |-> IF c \in closing THEN <<>> ELSE out[c]]
      /\ UNCHANGED <<init_types, init>>
      /\ subscribers' = [n \in Names |-> [c \in Cnxs |->
            IF c \in closing /\ conn_stream[c] = n THEN 0 ELSE subscribers[n][c]]]
  BY DEF Free, RemoveCnxs, initVars
<1>2. ASSUME NEW n \in Names, NEW c \in Cnxs, subscribers'[n][c] > 0
      PROVE  subscribers[n][c] > 0 /\ OutIds(c) \subseteq OutIds(c)'
  <2>1. subscribers[n][c] > 0 /\ ~(c \in closing /\ conn_stream[c] = n)
    BY <1>1, <1>2, SMTT(60)
  <2>2. conn_stream[c] = n
    BY <2>1 DEF RegInv
  <2>3. out'[c] = out[c]
    BY <1>1, <2>1, <2>2
  <2> QED
    BY <2>1, <2>3 DEF OutIds
<1> QED
  BY <1>1, <1>2, PrimedKept

\* A player joins, and gets what is cached.
LEMMA PrimedPlayed ==
    ASSUME PrimedInv, OutTypes, NEW c \in Cnxs, NEW sid \in MediaSids, NEW n \in Names,
           OnPlay(c, sid, n)
    PROVE  PrimedInv'
<1>1. /\ UNCHANGED <<init_types, init>>
      /\ \A d \in Cnxs : d # c => out'[d] = out[d]
      /\ \A m \in Names, d \in Cnxs :
            subscribers'[m][d] > 0 => subscribers[m][d] > 0 \/ (m = n /\ d = c)
  BY DEF OnPlay, RegisterSubscriber, initVars, OutTypes
<1>2. PICK more \in Seq(Media \cup Replies) :
         /\ out'[c] = out[c] \o more
         /\ \A f \in Cached(n) : \E k \in DOMAIN more : more[k].id = f.id
  BY PlayWrites
<1>3. out[c] \in Seq(Media \cup Replies)
  BY DEF OutTypes
<1>4. OutIds(c) \subseteq OutIds(c)' /\ \A k \in DOMAIN more : more[k].id \in OutIds(c)'
  BY <1>2, <1>3, IdsGrow
<1>5. \A d \in Cnxs : OutIds(d) \subseteq OutIds(d)'
  BY <1>1, <1>4 DEF OutIds
<1>6. \A m \in Names : Cached(m)' = Cached(m)
  BY <1>1 DEF Cached
<1>7. \A f \in Cached(n) : f.id \in OutIds(c)'
  BY <1>2, <1>4
<1> QED
  BY <1>1, <1>5, <1>6, <1>7 DEF PrimedInv

\* A frame that is cached goes to everyone subscribed.
LEMMA PrimedPublished ==
    ASSUME PrimedInv, MediaInv, OutTypes, RegInv, NEW c \in Cnxs, NEW sid \in MediaSids,
           NEW t \in InitTypes \cup {CodedType}, NEW b \in BOOLEAN, OnMedia(c, sid, t, b)
    PROVE  PrimedInv'
<1>1. PICK w \in Media : PassedOn(c, t, w)
  BY MediaSent
<1>2. subscribers' = subscribers
  BY DEF OnMedia
<1>3. ASSUME NEW d \in Cnxs
      PROVE  /\ OutIds(d) \subseteq OutIds(d)'
             /\ IsPublisher(c) /\ subscribers[conn_stream[c]][d] > 0 => w.id \in OutIds(d)'
  <2>1. PICK more \in Seq(Media \cup Replies) :
          /\ out'[d] = out[d] \o more
          /\ IsPublisher(c) /\ subscribers[conn_stream[c]][d] > 0
                => \E k \in DOMAIN more : more[k] = w
    BY <1>1 DEF PassedOn
  <2>2. out[d] \in Seq(Media \cup Replies)
    BY DEF OutTypes
  <2>3. OutIds(d) \subseteq OutIds(d)' /\ \A k \in DOMAIN more : more[k].id \in OutIds(d)'
    BY <2>1, <2>2, IdsGrow
  <2> QED
    BY <2>1, <2>3
<1>4. \A m \in Names : \A f \in Cached(m)' :
         f \in Cached(m) \/ (IsPublisher(c) /\ m = conn_stream[c] /\ f = w)
  BY <1>1 DEF PassedOn
<1> SUFFICES ASSUME NEW m \in Names, NEW d \in Cnxs, subscribers[m][d] > 0, NEW f \in Cached(m)'
             PROVE  f.id \in OutIds(d)'
  BY <1>2 DEF PrimedInv
<1>5. CASE f \in Cached(m)
  BY <1>3, <1>5 DEF PrimedInv
<1>6. CASE IsPublisher(c) /\ m = conn_stream[c] /\ f = w
  BY <1>3, <1>6
<1> QED
  BY <1>4, <1>5, <1>6

\* Every step leaves the subscribers primed.
LEMMA PrimedStep ==
    ASSUME MappingInv, OutTypes, RegInv, MediaInv, PrimedInv, [Next]_vars
    PROVE  PrimedInv'
<1>s. MediaSids \subseteq Sids /\ 0 \in Sids
  BY RelayAssumption
<1>q. \A d \in Cnxs : out[d] \in Seq(Media \cup Replies)
  BY DEF OutTypes
<1>1. ASSUME UNCHANGED <<init_types, init, subscribers>>,
             \A d \in Cnxs : \/ out'[d] = out[d]
                              \/ \E w \in Media \cup Replies : out'[d] = Append(out[d], w)
      PROVE  PrimedInv'
  <2>1. \A d \in Cnxs : OutIds(d) \subseteq OutIds(d)'
    <3> TAKE d \in Cnxs
    <3>1. CASE out'[d] = out[d]
      BY <3>1 DEF OutIds
    <3>2. ASSUME NEW w \in Media \cup Replies, out'[d] = Append(out[d], w)
          PROVE  OutIds(d) \subseteq OutIds(d)'
      BY <1>q, <3>2, IdsGrowByOne
    <3> QED
      BY <1>1, <3>1, <3>2
  <2> QED
    BY <1>1, <2>1, PrimedKept
<1>2. CASE Start \/ UNCHANGED vars
  BY <1>1, <1>2 DEF Start, vars, routerVars, initVars
<1>3. CASE Stop
  BY <1>3, PrimedFreed DEF Stop
<1>4. ASSUME NEW c \in Cnxs, OnReady(c) PROVE PrimedInv'
  BY <1>1, <1>4 DEF OnReady, routerVars, initVars
<1>5. ASSUME NEW c \in Cnxs, OnClose(c) PROVE PrimedInv'
  BY <1>5, PrimedFreed DEF OnClose
<1>6. ASSUME NEW c \in Cnxs, NEW sid \in Sids,
             OnFin(c, sid) \/ OnReset(c, sid) \/ OnStopSending(c, sid)
      PROVE  PrimedInv'
  BY <1>1, <1>6 DEF OnFin, OnReset, OnStopSending, routerVars, initVars
<1>7. ASSUME NEW c \in Cnxs, NEW sid \in Sids, NEW b \in BOOLEAN, OnFrame(c, sid, b)
      PROVE  PrimedInv'
  <2>1. UNCHANGED <<init_types, init, subscribers>>
    BY <1>7 DEF OnFrame, routerVars, initVars
  <2>2. \A via \in Vias : \A from \in Sids : Written(via, CodedType, c, from) \in Media
    BY WrittenTypes
  <2>3. CASE Echo(c, sid, b)
    <3>1. PICK via \in Vias : via = (IF b THEN InDatagram ELSE OnPeer(sid))
      BY ViaTypes
    <3>2. PICK w \in Media : w = Written(via, CodedType, c, sid)
      BY <2>2
    <3>3. out' = [out EXCEPT ![c] = Append(@, w)]
      BY <2>3, <3>1, <3>2 DEF Echo
    <3> QED
      BY <1>1, <2>1, <3>3 DEF OutTypes
  <2>4. CASE ForwardOnStream(c, sid)
    <3>1. ASSUME NEW d \in Cnxs
          PROVE  \/ out'[d] = out[d]
                 \/ \E w \in Media \cup Replies : out'[d] = Append(out[d], w)
      <4>1. RelayStream(d, c, sid) \in Nat
        <5>1. \A r \in relay_streams[d] : r.dst \in Nat
          BY SMTT(60) DEF MappingInv, MappingTypes, Mappings
        <5>2. opened[d] \in Nat
          BY DEF MappingInv, MappingTypes
        <5> QED
          BY <5>1, <5>2, SMTT(60) DEF RelayStream, Mapped
      <4>2. PICK via \in Vias : via = OnLocal(RelayStream(d, c, sid))
        BY <4>1, ViaTypes
      <4>3. PICK w \in Media : w = Written(via, CodedType, c, sid)
        BY <2>2
      <4>4. out'[d] = out[d] \/ out'[d] = Append(out[d], w)
        BY <2>4, <4>2, <4>3 DEF ForwardOnStream
      <4> QED
        BY <4>4
    <3> QED
      BY <1>1, <2>1, <3>1
  <2>5. CASE ForwardAsDatagram(c)
    <3>1. PICK w \in Media : w = Written(InDatagram, CodedType, c, 0)
      BY <1>s, <2>2, ViaTypes
    <3>2. \A d \in Cnxs : out'[d] = out[d] \/ out'[d] = Append(out[d], w)
      BY <2>5, <3>1 DEF ForwardAsDatagram
    <3> QED
      BY <1>1, <2>1, <3>2
  <2> QED
    BY <1>7, <2>3, <2>4, <2>5 DEF OnFrame
<1>8. ASSUME NEW c \in Cnxs, NEW sid \in MediaSids,
             OnConnect(c, sid) \/ \E n \in Names : OnPublish(c, sid, n)
      PROVE  PrimedInv'
  <2>1. PICK w \in Replies : w = Reply(sid)
    BY <1>s, ViaTypes
  <2>2. /\ out' = [out EXCEPT ![c] = Append(@, w)]
        /\ UNCHANGED <<init_types, init, subscribers>>
    BY <1>8, <2>1 DEF OnConnect, OnPublish, RegisterPublisher, routerVars, initVars
  <2> QED
    BY <1>1, <2>2 DEF OutTypes
<1>9. ASSUME NEW c \in Cnxs, NEW sid \in MediaSids, NEW n \in Names, OnPlay(c, sid, n)
      PROVE  PrimedInv'
  BY <1>9, PrimedPlayed
<1>10. ASSUME NEW c \in Cnxs, NEW sid \in MediaSids, NEW t \in InitTypes \cup {CodedType},
              NEW b \in BOOLEAN, OnMedia(c, sid, t, b)
       PROVE  PrimedInv'
  BY <1>10, PrimedPublished
<1> QED
  BY <1>2, <1>3, <1>4, <1>5, <1>6, <1>7, <1>8, <1>9, <1>10 DEF Next

\* Whoever is subscribed to a stream was sent the latest init frame of every type
\* (cache_init(), init_frames()), whether it joined before or after the frame.
THEOREM AllSubscribersPrimed ==
    ASSUME SingleStream
    PROVE  Spec => []SubscribersPrimed
<1>1. PrimedInv => SubscribersPrimed
  <2> SUFFICES ASSUME PrimedInv, NEW n \in Names, NEW c \in Cnxs,
                      NEW t \in Range(init_types[n]), subscribers[n][c] > 0
               PROVE  \E i \in DOMAIN out[c] : out[c][i].id = init[n][t].id
    BY DEF SubscribersPrimed
  <2>1. init[n][t] \in Cached(n)
    BY DEF Cached
  <2>2. init[n][t].id \in OutIds(c)
    BY <2>1 DEF PrimedInv
  <2> QED
    BY <2>2 DEF OutIds
<1>2. Init => PrimedInv
  BY SMTT(60) DEF Init, RouterInit, PrimedInv
<1> QED
  BY <1>1, <1>2, MappingInit, MappingStep, OutInit, OutStep, RegInit, RegStep,
     MediaInit, MediaStep, PrimedStep, PTL DEF Spec
=============================================================================
