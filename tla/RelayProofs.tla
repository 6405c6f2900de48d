----------------------------- MODULE RelayProofs -----------------------------
(***************************************************************************)
(* Proofs about Relay, for any number of connections, pointers, names and  *)
(* streams, and any bounds: its mappings, the registrations in its router, *)
(* and what it writes on the streams that it opens.                        *)
(***************************************************************************)
EXTENDS Relay, TLAPS, SequenceTheorems

\* The provers to try, with time enough for the larger steps.
USE ZenonT(60), SMTT(60)

Mappings == [src : Cnxs, sid : Sids, dst : Nat]

\* The types that the mappings depend on.
MappingTypes ==
    /\ alive \subseteq Cnxs
    /\ relay_streams \in [Cnxs -> SUBSET Mappings]
    /\ opened \in [Cnxs -> Nat]
    /\ ended \in [Cnxs -> SUBSET Sids]

\* A destination has one mapping for each source stream.
OneMapping ==
    \A d \in Cnxs : \A q, r \in relay_streams[d] :
        q.src = r.src /\ q.sid = r.sid => q = r

MappingInv == MappingTypes /\ MappingsLive /\ OneMapping

\* Forwarding on streams opens at most one more stream to each destination,
\* which is the next one.
LEMMA ForwardMapping ==
    ASSUME MappingInv, NEW c \in Cnxs, NEW sid \in Sids, NEW d \in Cnxs,
           ForwardOnStream(c, sid)
    PROVE  \/ /\ relay_streams'[d] = relay_streams[d] /\ opened'[d] = opened[d]
              /\ out'[d] = out[d] /\ d \notin conns \ {c}
           \/ \E r \in relay_streams[d] :
              /\ r.src = c /\ r.sid = sid
              /\ d \in conns \ {c}
              /\ relay_streams'[d] = relay_streams[d] /\ opened'[d] = opened[d]
              /\ out'[d] = Append(out[d], Written(OnLocal(r.dst), CodedType, c, sid))
           \/ /\ \A r \in relay_streams[d] : ~(r.src = c /\ r.sid = sid)
              /\ d \in conns \ {c}
              /\ relay_streams'[d] = relay_streams[d] \cup
                    {[src |-> c, sid |-> sid, dst |-> opened[d] + 1]}
              /\ opened'[d] = opened[d] + 1
              /\ out'[d] = Append(out[d],
                              Written(OnLocal(opened[d] + 1), CodedType, c, sid))
<1>1. CASE d \notin conns \ {c}
  BY <1>1 DEF ForwardOnStream
<1>2. CASE d \in conns \ {c} /\ Mapped(d, c, sid) # {}
  <2>1. (CHOOSE r \in Mapped(d, c, sid) : TRUE) \in Mapped(d, c, sid)
    BY <1>2
  <2>2. PICK r \in Mapped(d, c, sid) : r = CHOOSE q \in Mapped(d, c, sid) : TRUE
    BY <2>1
  <2>3. RelayStream(d, c, sid) = r.dst
    BY <1>2, <2>2 DEF RelayStream
  <2>4. r \in relay_streams[d] /\ r.src = c /\ r.sid = sid
    BY <2>2 DEF Mapped
  <2> QED
    BY <1>2, <2>3, <2>4 DEF ForwardOnStream
<1>3. CASE d \in conns \ {c} /\ Mapped(d, c, sid) = {}
  <2>1. RelayStream(d, c, sid) = opened[d] + 1
    BY <1>3 DEF RelayStream
  <2>2. \A r \in relay_streams[d] : ~(r.src = c /\ r.sid = sid)
    BY <1>3 DEF Mapped
  <2> QED
    BY <1>3, <2>1, <2>2 DEF ForwardOnStream
<1> QED
  BY <1>1, <1>2, <1>3

\* Purging leaves only mappings that were there, and none of what is purged.
LEMMA Purged ==
    ASSUME MappingInv, NEW c \in Cnxs, NEW sids \in SUBSET Sids, NEW d \in Cnxs
    PROVE  /\ Purge(c, sids)[d] \subseteq relay_streams[d]
           /\ \A r \in Purge(c, sids)[d] : r.src # c \/ r.sid \notin sids
           /\ \A r \in relay_streams[d] : r.src # c \/ r.sid \notin sids
                                            => r \in Purge(c, sids)[d]
  BY DEF Purge

\* A server that has not been used has no mappings.
LEMMA MappingInit == Init => MappingInv
  BY SMTT(60) DEF Init, MappingInv, MappingTypes, MappingsLive, OneMapping, Mappings

\* Streams that end: what the three callbacks about them have in common.
LEMMA PurgeStep ==
    ASSUME MappingInv, NEW c \in alive, NEW sid \in Sids,
           relay_streams' = Purge(c, {sid}), alive' = alive, opened' = opened,
           conns' = conns \/ conns' = conns \cup {c},
           ended' = ended \/ ended' = [ended EXCEPT ![c] = @ \cup {sid}]
    PROVE  MappingInv'
<1>1. c \in Cnxs
  BY DEF MappingInv, MappingTypes
<1>2. \A d \in Cnxs : /\ relay_streams'[d] \subseteq relay_streams[d]
                       /\ \A r \in relay_streams'[d] : r.src # c \/ r.sid # sid
  BY <1>1, Purged, SMTT(60)
<1>3. relay_streams' = [d \in Cnxs |-> relay_streams'[d]]
  BY DEF Purge
<1>e. /\ ended' \in [Cnxs -> SUBSET Sids]
      /\ \A d \in Cnxs : ended'[d] = ended[d]
                        \/ (d = c /\ ended'[d] = ended[d] \cup {sid})
  <2>1. CASE ended' = ended
    BY <2>1 DEF MappingInv, MappingTypes
  <2>2. CASE ended' = [ended EXCEPT ![c] = @ \cup {sid}]
    BY <2>2, <1>1 DEF MappingInv, MappingTypes
  <2> QED
    BY <2>1, <2>2
<1>s. relay_streams' \in [Cnxs -> SUBSET Mappings]
  <2>1. \A d \in Cnxs : relay_streams'[d] \in SUBSET Mappings
    BY <1>2 DEF MappingInv, MappingTypes
  <2> QED
    BY <2>1, <1>3
<1>c. conns' = alive
  BY DEF MappingInv, MappingsLive
<1>4. MappingTypes'
  BY <1>e, <1>s DEF MappingInv, MappingTypes
<1>5. MappingsLive'
  <2>1. ASSUME NEW d \in Cnxs, NEW r \in relay_streams'[d]
        PROVE  /\ {d, r.src} \subseteq alive
               /\ r.sid \notin ended'[r.src]
               /\ r.dst \in 1..opened[d]
               /\ \A q \in relay_streams'[d] : q.dst = r.dst => q = r
    <3>1. r \in relay_streams[d] /\ (r.src # c \/ r.sid # sid) /\ r \in Mappings
      BY <1>2, <1>s
    <3>2. /\ {d, r.src} \subseteq alive /\ r.sid \notin ended[r.src]
          /\ r.dst \in 1..opened[d]
          /\ \A q \in relay_streams[d] : q.dst = r.dst => q = r
      BY <3>1 DEF MappingInv, MappingsLive
    <3>3. r.src \in Cnxs
      BY <3>1 DEF Mappings
    <3>4. r.sid \notin ended'[r.src]
      BY <3>1, <3>2, <3>3, <1>e
    <3>5. \A q \in relay_streams'[d] : q.dst = r.dst => q = r
      BY <3>2, <1>2
    <3> QED
      BY <3>2, <3>4, <3>5
  <2> QED
    BY <2>1, <1>c DEF MappingsLive
<1>6. OneMapping'
  BY <1>2 DEF MappingInv, OneMapping
<1> QED
  BY <1>4, <1>5, <1>6 DEF MappingInv

\* Every callback keeps the mappings live, and each on a stream of its own.
LEMMA MappingStep == MappingInv /\ [Next]_vars => MappingInv'
<1> SUFFICES ASSUME MappingInv, [Next]_vars PROVE MappingInv'
  OBVIOUS
<1>1. CASE UNCHANGED vars
  BY <1>1 DEF vars, quicVars, MappingInv, MappingTypes, MappingsLive, OneMapping
<1>2. CASE Start
  BY <1>2 DEF Start, quicVars, MappingInv, MappingTypes, MappingsLive, OneMapping
<1>3. CASE Stop
  <2>1. relay_streams' = [c \in Cnxs |-> {}] /\ conns' = {} /\ alive' = {}
    BY <1>3 DEF Stop, Free
  <2>2. opened' \in [Cnxs -> Nat] /\ ended' \in [Cnxs -> SUBSET Sids]
    BY <1>3 DEF Stop, Free, MappingInv, MappingTypes
  <2> QED
    BY <2>1, <2>2 DEF MappingInv, MappingTypes, MappingsLive, OneMapping
<1>4. ASSUME NEW c \in Cnxs, OnReady(c) PROVE MappingInv'
  BY <1>4 DEF OnReady, MappingInv, MappingTypes, MappingsLive, OneMapping
<1>5. ASSUME NEW c \in Cnxs, OnClose(c) PROVE MappingInv'
  <2>1. /\ alive' = alive \ {c} /\ conns' = conns \ {c}
        /\ opened' = [d \in Cnxs |-> IF d \in {c} THEN 0 ELSE opened[d]]
        /\ ended' = [d \in Cnxs |-> IF d \in {c} THEN {} ELSE ended[d]]
        /\ relay_streams' = [Purge(c, Sids) EXCEPT ![c] = {}]
    BY <1>5 DEF OnClose, Free
  <2>2. \A d \in Cnxs : /\ relay_streams'[d] \subseteq relay_streams[d]
                         /\ relay_streams'[c] = {}
                         /\ \A r \in relay_streams'[d] : r.src # c
    <3> TAKE d \in Cnxs
    <3>1. /\ Purge(c, Sids)[d] \subseteq relay_streams[d]
          /\ \A r \in Purge(c, Sids)[d] : r.src # c \/ r.sid \notin Sids
      BY Purged
    <3>2. relay_streams'[d] = IF d = c THEN {} ELSE Purge(c, Sids)[d]
      BY <2>1 DEF Purge
    <3>3. relay_streams'[c] = {}
      BY <2>1 DEF Purge
    <3> QED
      BY <3>1, <3>2, <3>3, SMTT(60) DEF MappingInv, MappingTypes, Mappings
  <2>3. relay_streams' = [d \in Cnxs |-> relay_streams'[d]]
    BY <2>1 DEF Purge
  <2>4. MappingTypes'
    BY <2>1, <2>2, <2>3 DEF MappingInv, MappingTypes
  <2>5. MappingsLive'
    BY <2>1, <2>2 DEF MappingInv, MappingTypes, MappingsLive, Mappings
  <2>6. OneMapping'
    BY <2>2 DEF MappingInv, OneMapping
  <2> QED
    BY <2>4, <2>5, <2>6 DEF MappingInv
<1>6. ASSUME NEW c \in Cnxs, NEW sid \in Sids,
             OnFin(c, sid) \/ OnReset(c, sid) \/ OnStopSending(c, sid)
      PROVE  MappingInv'
  BY <1>6, PurgeStep DEF OnFin, OnReset, OnStopSending
<1>7. ASSUME NEW c \in Cnxs, NEW sid \in Sids, NEW b \in BOOLEAN, OnFrame(c, sid, b)
      PROVE  MappingInv'
  <2>1. alive' = alive /\ ended' = ended /\ c \in alive /\ conns' = conns \cup {c}
    BY <1>7 DEF OnFrame
  <2>2. CASE relay_streams' = relay_streams /\ opened' = opened
    BY <2>1, <2>2 DEF MappingInv, MappingTypes, MappingsLive, OneMapping
  <2>3. CASE ForwardOnStream(c, sid) /\ sid \notin ended[c]
    <3>1. /\ relay_streams' = [d \in Cnxs |-> relay_streams'[d]]
          /\ opened' = [d \in Cnxs |-> opened'[d]]
      BY <2>3 DEF ForwardOnStream
    <3>2. \A d \in Cnxs :
            \/ relay_streams'[d] = relay_streams[d] /\ opened'[d] = opened[d]
            \/ /\ \A r \in relay_streams[d] : ~(r.src = c /\ r.sid = sid)
               /\ d \in conns \ {c}
               /\ relay_streams'[d] = relay_streams[d] \cup
                     {[src |-> c, sid |-> sid, dst |-> opened[d] + 1]}
               /\ opened'[d] = opened[d] + 1
      BY <2>3, ForwardMapping, SMTT(60)
    <3>3. MappingTypes'
      BY <2>1, <3>1, <3>2, SMTT(60) DEF MappingInv, MappingTypes, Mappings
    <3>4. MappingsLive'
      BY <2>1, <2>3, <3>2, SMTT(60) DEF MappingInv, MappingTypes, MappingsLive, Mappings
    <3>5. OneMapping'
      BY <3>2, SMTT(60) DEF MappingInv, MappingTypes, OneMapping, Mappings
    <3> QED
      BY <3>3, <3>4, <3>5 DEF MappingInv
  <2> QED
    BY <1>7, <2>2, <2>3 DEF OnFrame, Echo, ForwardAsDatagram
<1>8. ASSUME NEW c \in Cnxs, NEW sid \in MediaSids,
             OnConnect(c, sid) \/ \E n \in Names : OnPublish(c, sid, n) \/ OnPlay(c, sid, n)
      PROVE  MappingInv'
  <2>1. /\ c \in alive /\ conns' = conns \cup {c} /\ alive' = alive /\ ended' = ended
        /\ relay_streams' = relay_streams /\ opened' = opened
    BY <1>8 DEF OnConnect, OnPublish, OnPlay, OnCommand, quicVars
  <2> QED
    BY <2>1 DEF MappingInv, MappingTypes, MappingsLive, OneMapping
<1>9. ASSUME NEW c \in Cnxs, NEW sid \in MediaSids, NEW t \in InitTypes \cup {CodedType},
             NEW b \in BOOLEAN, OnMedia(c, sid, t, b)
      PROVE  MappingInv'
  <2>1. /\ c \in alive /\ conns' = conns \cup {c} /\ alive' = alive /\ ended' = ended
        /\ relay_streams' = relay_streams /\ opened' = opened
    BY <1>9 DEF OnMedia, quicVars
  <2> QED
    BY <2>1 DEF MappingInv, MappingTypes, MappingsLive, OneMapping
<1> QED
  BY <1>1, <1>2, <1>3, <1>4, <1>5, <1>6, <1>7, <1>8, <1>9 DEF Next

\* The relay server's mappings from source streams to the streams it opened
\* (relay_streams) are for live connections and streams that have not ended.
THEOREM MappingsStayLive == Spec => []MappingsLive
<1>1. MappingInv => MappingsLive
  BY DEF MappingInv
<1> QED
  BY <1>1, MappingInit, MappingStep, PTL DEF Spec

-----------------------------------------------------------------------------
(* Registrations in the router.                                            *)

Asks == [what : {"publish", "play"}, name : Names]

\* With one name per connection, conn_stream_ leads to all that a connection
\* registered, and everyone registered is live and asked for it.
RegInv ==
    /\ publisher \in [Names -> Cnxs \cup {NoCnx}]
    /\ subscribers \in [Names -> [Cnxs -> Nat]]
    /\ conn_stream \in [Cnxs -> Names \cup {NoName}]
    /\ asked \in [Cnxs -> SUBSET Asks]
    /\ \A c \in Cnxs : \A a \in asked[c] : a.name = conn_stream[c]
    /\ \A n \in Names : publisher[n] # NoCnx =>
          publisher[n] \in alive /\ [what |-> "publish", name |-> n] \in asked[publisher[n]]
    /\ \A n \in Names, c \in Cnxs : subscribers[n][c] > 0 =>
          c \in alive /\ [what |-> "play", name |-> n] \in asked[c]

\* A server that has not been used has no registrations.
LEMMA RegInit == Init => RegInv
  BY SMTT(60) DEF Init, RouterInit, RegInv

\* A connection that is removed leaves no registration behind.
LEMMA RemovedLeaves ==
    ASSUME RegInv, alive \subseteq Cnxs, NEW closing \in SUBSET alive,
           RemoveCnxs(closing), Free(closing)
    PROVE  RegInv'
<1>1. /\ conn_stream' = [c \in Cnxs |-> IF c \in closing THEN NoName ELSE conn_stream[c]]
      /\ asked' = [c \in Cnxs |-> IF c \in closing THEN {} ELSE asked[c]]
      /\ alive' = alive \ closing
  BY DEF RemoveCnxs, Free
<1>2. /\ publisher' = [n \in Names |->
            IF /\ publisher[n] # NoCnx
               /\ publisher[n] \in closing /\ conn_stream[publisher[n]] = n
            THEN NoCnx ELSE publisher[n]]
      /\ subscribers' = [n \in Names |-> [c \in Cnxs |->
            IF c \in closing /\ conn_stream[c] = n THEN 0 ELSE subscribers[n][c]]]
  BY DEF RemoveCnxs
<1>3. /\ publisher' \in [Names -> Cnxs \cup {NoCnx}]
      /\ subscribers' \in [Names -> [Cnxs -> Nat]]
      /\ conn_stream' \in [Cnxs -> Names \cup {NoName}]
      /\ asked' \in [Cnxs -> SUBSET Asks]
  BY <1>1, <1>2, SMTT(60) DEF RegInv
<1>4. \A c \in Cnxs : \A a \in asked'[c] : a.name = conn_stream'[c]
  BY <1>1 DEF RegInv
<1>5. ASSUME NEW n \in Names, publisher'[n] # NoCnx
      PROVE  /\ publisher'[n] \in alive'
             /\ [what |-> "publish", name |-> n] \in asked'[publisher'[n]]
  <2>1. publisher'[n] = publisher[n] /\ publisher[n] # NoCnx
    BY <1>2, <1>5
  <2>2. publisher[n] \in alive /\ [what |-> "publish", name |-> n] \in asked[publisher[n]]
    BY <2>1 DEF RegInv
  <2>3. conn_stream[publisher[n]] = n
    BY <2>2 DEF RegInv
  <2>4. publisher[n] \notin closing
    BY <1>2, <1>5, <2>1, <2>3
  <2> QED
    BY <1>1, <2>1, <2>2, <2>4
<1>6. ASSUME NEW n \in Names, NEW c \in Cnxs, subscribers'[n][c] > 0
      PROVE  c \in alive' /\ [what |-> "play", name |-> n] \in asked'[c]
  <2>1. subscribers[n][c] > 0 /\ ~(c \in closing /\ conn_stream[c] = n)
    BY <1>2, <1>6, SMTT(60)
  <2>2. c \in alive /\ [what |-> "play", name |-> n] \in asked[c]
    BY <2>1 DEF RegInv
  <2>3. conn_stream[c] = n
    BY <2>2 DEF RegInv
  <2> QED
    BY <1>1, <2>1, <2>2, <2>3
<1> QED
  BY <1>3, <1>4, <1>5, <1>6 DEF RegInv

\* Every callback keeps the registrations of a connection within reach of remove().
LEMMA RegStep ==
    ASSUME SingleStream, MappingInv, RegInv, [Next]_vars
    PROVE  RegInv'
<1>1. CASE UNCHANGED <<publisher, subscribers, conn_stream, asked>> /\ alive \subseteq alive'
  BY <1>1 DEF RegInv
<1>2. CASE Stop
  BY <1>2, RemovedLeaves DEF Stop, MappingInv, MappingTypes
<1>3. ASSUME NEW c \in Cnxs, OnClose(c) PROVE RegInv'
  BY <1>3, RemovedLeaves DEF OnClose, MappingInv, MappingTypes
<1>4. ASSUME NEW c \in Cnxs, NEW sid \in MediaSids, NEW n \in Names, OnPublish(c, sid, n)
      PROVE  RegInv'
  <2>1. /\ publisher' = [publisher EXCEPT ![n] = c]
        /\ conn_stream' = [conn_stream EXCEPT ![c] = n]
        /\ subscribers' = subscribers
        /\ asked' = [asked EXCEPT ![c] = @ \cup {[what |-> "publish", name |-> n]}]
        /\ alive' = alive /\ c \in alive
        /\ \A a \in asked[c] : a.name = n
    BY <1>4 DEF OnPublish, RegisterPublisher, OnCommand, quicVars, Registers
  <2>2. [what |-> "publish", name |-> n] \in Asks
    BY DEF Asks
  <2> QED
    BY <2>1, <2>2, RouterAssumption, SMTT(60) DEF RegInv
<1>5. ASSUME NEW c \in Cnxs, NEW sid \in MediaSids, NEW n \in Names, OnPlay(c, sid, n)
      PROVE  RegInv'
  <2>1. /\ subscribers' = [subscribers EXCEPT ![n][c] = IF @ > 0 THEN @ ELSE @ + 1]
        /\ conn_stream' = [conn_stream EXCEPT ![c] = n]
        /\ publisher' = publisher
        /\ asked' = [asked EXCEPT ![c] = @ \cup {[what |-> "play", name |-> n]}]
        /\ alive' = alive /\ c \in alive
        /\ \A a \in asked[c] : a.name = n
    BY <1>5 DEF OnPlay, RegisterSubscriber, OnCommand, quicVars, Registers
  <2>2. [what |-> "play", name |-> n] \in Asks
    BY DEF Asks
  <2>3. subscribers' \in [Names -> [Cnxs -> Nat]]
    BY <2>1, SMTT(60) DEF RegInv
  <2>4. \A m \in Names, d \in Cnxs : (m # n \/ d # c) => subscribers'[m][d] = subscribers[m][d]
    BY <2>1 DEF RegInv
  <2>5. \A d \in Cnxs : asked[d] \subseteq asked'[d]
    BY <2>1 DEF RegInv
  <2>6. [what |-> "play", name |-> n] \in asked'[c]
    BY <2>1 DEF RegInv
  <2>7. /\ conn_stream' \in [Cnxs -> Names \cup {NoName}]
        /\ asked' \in [Cnxs -> SUBSET Asks]
        /\ \A d \in Cnxs : \A a \in asked'[d] : a.name = conn_stream'[d]
    BY <2>1, <2>2, SMTT(60) DEF RegInv
  <2> QED
    BY <2>1, <2>3, <2>4, <2>5, <2>6, <2>7, RouterAssumption, SMTT(60) DEF RegInv
<1>6. CASE Start \/ UNCHANGED vars
  BY <1>1, <1>6 DEF Start, vars, routerVars, quicVars, historyVars
<1>7. ASSUME NEW c \in Cnxs, OnReady(c) PROVE RegInv'
  BY <1>1, <1>7 DEF OnReady, routerVars
<1>8. ASSUME NEW c \in Cnxs, NEW sid \in Sids,
             OnFin(c, sid) \/ OnReset(c, sid) \/ OnStopSending(c, sid)
      PROVE  RegInv'
  BY <1>1, <1>8 DEF OnFin, OnReset, OnStopSending, routerVars
<1>9. ASSUME NEW c \in Cnxs, NEW sid \in Sids, NEW b \in BOOLEAN, OnFrame(c, sid, b)
      PROVE  RegInv'
  <2>1. UNCHANGED <<publisher, subscribers, conn_stream, asked>> /\ alive' = alive
    BY <1>9 DEF OnFrame, routerVars
  <2> QED
    BY <1>1, <2>1
<1>10. ASSUME NEW c \in Cnxs, NEW sid \in MediaSids, OnConnect(c, sid) PROVE RegInv'
  <2>1. UNCHANGED <<publisher, subscribers, conn_stream, asked>> /\ alive' = alive
    BY <1>10 DEF OnConnect, OnCommand, routerVars, quicVars
  <2> QED
    BY <1>1, <2>1
<1>11. ASSUME NEW c \in Cnxs, NEW sid \in MediaSids, NEW t \in InitTypes \cup {CodedType},
              NEW b \in BOOLEAN, OnMedia(c, sid, t, b)
       PROVE  RegInv'
  BY <1>1, <1>11 DEF OnMedia, quicVars
<1> QED
  BY <1>2, <1>3, <1>4, <1>5, <1>6, <1>7, <1>8, <1>9, <1>10, <1>11 DEF Next

\* Neither a mapping of the relay server nor a registration of its router
\* outlives the connection it is about, when a connection registers for one name.
THEOREM NothingLeftBehind == ASSUME SingleStream PROVE Spec => []NothingOutlives
<1>1. MappingInv /\ RegInv => NothingOutlives
  <2> SUFFICES ASSUME MappingInv, RegInv PROVE NothingOutlives
    OBVIOUS
  <2>1. MappingsLive /\ alive \subseteq Cnxs
    BY DEF MappingInv, MappingTypes
  <2>2. NoStaleRouting
    <3> SUFFICES ASSUME NEW n \in Names, NEW c \in alive
                 PROVE  /\ publisher[n] = c => [what |-> "publish", name |-> n] \in asked[c]
                        /\ subscribers[n][c] > 0 => [what |-> "play", name |-> n] \in asked[c]
      BY DEF NoStaleRouting
    <3>1. c \in Cnxs /\ c # NoCnx
      BY <2>1, RouterAssumption
    <3> QED
      BY <3>1 DEF RegInv
  <2>3. \A n \in Names : /\ publisher[n] \in alive \cup {NoCnx}
                          /\ \A c \in Cnxs : subscribers[n][c] > 0 => c \in alive
    BY DEF RegInv
  <2> QED
    BY <2>1, <2>2, <2>3 DEF NothingOutlives, RoutingLive
<1>2. Init => MappingInv /\ RegInv
  BY MappingInit, RegInit
<1>3. MappingInv /\ RegInv /\ [Next]_vars => (MappingInv /\ RegInv)'
  BY MappingStep, RegStep
<1> QED
  BY <1>1, <1>2, <1>3, PTL DEF Spec

-----------------------------------------------------------------------------
(* What is written to connections.                                         *)

Vias    == {"peer", "local", "datagram"} \X (Sids \cup Nat)
Media   == [via : Vias, type : InitTypes \cup {CodedType}, id : Nat, src : Cnxs,
            gen : Nat, from : Sids \cup Names \cup {NoName}]
Replies == [via : Vias, type : {"reply"}, id : {0}]

OutTypes ==
    /\ gen \in [Cnxs -> Nat] /\ frames \in Nat
    /\ stopped \in [Cnxs -> SUBSET Sids]
    /\ subscribers \in [Names -> [Cnxs -> Nat]]
    /\ conn_stream \in [Cnxs -> Names \cup {NoName}]
    /\ init_types \in [Names -> Seq(InitTypes)]
    /\ init \in [Names -> [InitTypes -> Media \cup {NoFrame}]]
    /\ \A n \in Names : \A i \in DOMAIN init_types[n] : init[n][init_types[n][i]] \in Media
    /\ out \in [Cnxs -> Seq(Media \cup Replies)]

\* Entry i of what was written to d is on a stream the server opened.
IsLocal(d, i) == i \in DOMAIN out[d] /\ out[d][i].via[1] = "local"

Source(e) == <<e.src, e.gen, e.from>>

\* The source stream of entry i can still carry frames.
Flowing(d, i) ==
    /\ out[d][i].src \in alive /\ out[d][i].gen = gen[out[d][i].src]
    /\ out[d][i].from \notin stopped[out[d][i].src]

LocalTypes(d, i) ==
    /\ out[d][i].src \in Cnxs /\ out[d][i].from \in Sids /\ out[d][i].gen \in Nat
    /\ out[d][i].gen <= gen[out[d][i].src]
    /\ out[d][i].via[2] \in 1..opened[d]
    /\ out[d][i].via = OnLocal(out[d][i].via[2])

\* The mapping to the stream of entry i is from its source.
MappingAgrees(d, i) ==
    \A r \in relay_streams[d] :
        r.dst = out[d][i].via[2] => Source(out[d][i]) = <<r.src, gen[r.src], r.sid>>

\* While its source can carry frames, there is one.
MappingStays(d, i) ==
    Flowing(d, i) /\ out[d][i].from \notin ended[out[d][i].src] =>
        \E r \in relay_streams[d] :
            r.src = out[d][i].src /\ r.sid = out[d][i].from /\ r.dst = out[d][i].via[2]

SameStream(d, i, j) ==
    /\ out[d][i].via = out[d][j].via => Source(out[d][i]) = Source(out[d][j])
    /\ Source(out[d][i]) = Source(out[d][j]) /\ Flowing(d, i)
          => out[d][i].via = out[d][j].via

LocalInv ==
    \A d \in Cnxs, i \in Nat : IsLocal(d, i) =>
        /\ LocalTypes(d, i) /\ MappingAgrees(d, i) /\ MappingStays(d, i)
        /\ \A j \in Nat : IsLocal(d, j) => SameStream(d, i, j)

\* Nothing has been written at first.
LEMMA OutInit == Init => OutTypes /\ LocalInv
<1> SUFFICES ASSUME Init PROVE OutTypes /\ LocalInv
  OBVIOUS
<1>1. OutTypes
  BY SMTT(60) DEF Init, RouterInit, OutTypes
<1>2. LocalInv
  BY SMTT(60) DEF Init, LocalInv, IsLocal
<1> QED
  BY <1>1, <1>2

\* Frames and replies that are written have their types.
LEMMA WrittenTypes ==
    ASSUME OutTypes, NEW c \in Cnxs, NEW via \in Vias,
           NEW t \in InitTypes \cup {CodedType}, NEW from \in Sids \cup Names \cup {NoName}
    PROVE  /\ Written(via, t, c, from) \in Media
           /\ Written(via, t, c, from).via = via
           /\ Source(Written(via, t, c, from)) = <<c, gen[c], from>>
  BY SMTT(60) DEF Written, Media, OutTypes, Source

\* The three ways in which a frame can be written are told apart.
LEMMA ViaTypes ==
    /\ InDatagram \in Vias /\ InDatagram[1] # "local"
    /\ \A sid \in Sids : /\ OnPeer(sid) \in Vias /\ OnPeer(sid)[1] # "local"
                          /\ Reply(sid) \in Replies /\ Reply(sid).via[1] # "local"
    /\ \A n \in Nat : OnLocal(n) \in Vias /\ OnLocal(n)[1] = "local" /\ OnLocal(n)[2] = n
  BY DEF InDatagram, OnPeer, OnLocal, Vias, Reply, Replies

\* A step that writes nothing new on the server's streams keeps what is known
\* of them, if it drops mappings only with their source or their destination.
LEMMA LocalKept ==
    ASSUME MappingInv, OutTypes, LocalInv,
           \A d \in Cnxs, i \in Nat : IsLocal(d, i)' =>
              /\ IsLocal(d, i) /\ out'[d][i] = out[d][i]
              /\ opened'[d] = opened[d]
              /\ \A r \in relay_streams[d] : \/ r \in relay_streams'[d]
                                              \/ r.src \notin alive'
                                              \/ r.sid \in stopped'[r.src]
                                              \/ r.sid \in ended'[r.src],
           \A d \in Cnxs : relay_streams'[d] \subseteq relay_streams[d],
           \A s \in Cnxs : \/ gen'[s] = gen[s] /\ (s \in alive' => s \in alive)
                           \/ s \notin alive /\ gen'[s] = gen[s] + 1,
           \A s \in alive : s \in alive' =>
              stopped[s] \subseteq stopped'[s] /\ ended[s] \subseteq ended'[s]
    PROVE  LocalInv'
<1> SUFFICES ASSUME NEW d \in Cnxs, NEW i \in Nat, IsLocal(d, i)'
             PROVE  /\ LocalTypes(d, i)' /\ MappingAgrees(d, i)' /\ MappingStays(d, i)'
                    /\ \A j \in Nat : IsLocal(d, j)' => SameStream(d, i, j)'
  BY DEF LocalInv
<1>1. IsLocal(d, i) /\ out'[d][i] = out[d][i] /\ opened'[d] = opened[d]
  OBVIOUS
<1>2. LocalTypes(d, i)
  BY <1>1 DEF LocalInv
<1>3. LocalTypes(d, i)'
  <2>1. PICK s \in Cnxs : s = out[d][i].src
    BY <1>2 DEF LocalTypes
  <2>2. gen[s] \in Nat /\ (gen'[s] = gen[s] \/ gen'[s] = gen[s] + 1)
    BY DEF OutTypes
  <2>3. out[d][i].gen \in Nat /\ out[d][i].gen <= gen[s]
    BY <1>2, <2>1 DEF LocalTypes
  <2>4. out[d][i].gen <= gen'[s]
    BY <2>2, <2>3, SMTT(60)
  <2> QED
    BY <1>1, <1>2, <2>1, <2>4 DEF LocalTypes, OnLocal
<1>4. MappingAgrees(d, i)'
  <2> SUFFICES ASSUME NEW r \in relay_streams'[d], r.dst = out[d][i].via[2]
               PROVE  Source(out[d][i]) = <<r.src, gen'[r.src], r.sid>>
    BY <1>1 DEF MappingAgrees, Source
  <2>1. r \in relay_streams[d] /\ r.src \in alive /\ r.src \in Cnxs
    BY DEF MappingInv, MappingsLive, MappingTypes
  <2>2. gen'[r.src] = gen[r.src]
    BY <2>1 DEF OutTypes
  <2> QED
    BY <1>1, <2>1, <2>2, SMTT(60) DEF LocalInv, MappingAgrees
<1>5. ASSUME Flowing(d, i)'
      PROVE  /\ Flowing(d, i)
             /\ out[d][i].src \in alive' /\ out[d][i].from \notin stopped'[out[d][i].src]
             /\ out[d][i].from \in ended[out[d][i].src] => out[d][i].from \in ended'[out[d][i].src]
  <2>1. /\ out[d][i].src \in alive' /\ out[d][i].gen = gen'[out[d][i].src]
        /\ out[d][i].from \notin stopped'[out[d][i].src]
    BY <1>1, <1>5 DEF Flowing
  <2>2. gen'[out[d][i].src] = gen[out[d][i].src] /\ out[d][i].src \in alive
    <3>1. PICK s, g : /\ s \in Cnxs /\ s = out[d][i].src /\ g = out[d][i].gen
                      /\ g \in Nat /\ g <= gen[s]
      BY <1>2 DEF LocalTypes
    <3>2. s \in alive' /\ g = gen'[s]
      BY <2>1, <3>1
    <3>3. gen[s] \in Nat
      BY <3>1 DEF OutTypes
    <3>4. \/ gen'[s] = gen[s] /\ (s \in alive' => s \in alive)
          \/ s \notin alive /\ gen'[s] = gen[s] + 1
      BY <3>1
    <3>5. gen'[s] = gen[s] /\ s \in alive
      BY <3>1, <3>2, <3>3, <3>4, SMTT(60)
    <3> QED
      BY <3>1, <3>5
  <2> QED
    BY <2>1, <2>2 DEF Flowing
<1>6. MappingStays(d, i)'
  <2> SUFFICES ASSUME Flowing(d, i)', out[d][i].from \notin ended'[out[d][i].src]
               PROVE  \E r \in relay_streams'[d] :
                          /\ r.src = out[d][i].src /\ r.sid = out[d][i].from
                          /\ r.dst = out[d][i].via[2]
    BY <1>1 DEF MappingStays
  <2>1. PICK r \in relay_streams[d] : /\ r.src = out[d][i].src /\ r.sid = out[d][i].from
                                      /\ r.dst = out[d][i].via[2]
    BY <1>1, <1>5, SMTT(60) DEF LocalInv, MappingStays
  <2> QED
    BY <1>5, <2>1
<1>7. ASSUME NEW j \in Nat, IsLocal(d, j)' PROVE SameStream(d, i, j)'
  <2>1. IsLocal(d, j) /\ out'[d][j] = out[d][j]
    BY <1>7
  <2>2. SameStream(d, i, j)
    BY <1>1, <2>1 DEF LocalInv
  <2> QED
    BY <1>1, <1>5, <2>1, <2>2 DEF SameStream, Source
<1> QED
  BY <1>3, <1>4, <1>6, <1>7

\* Freeing connections takes what was written to them along.
LEMMA FreeKeeps ==
    ASSUME MappingInv, OutTypes, LocalInv, NEW closing \in SUBSET alive, Free(closing),
           \A d \in Cnxs : relay_streams'[d] \subseteq relay_streams[d],
           \A d \in Cnxs \ closing : \A r \in relay_streams[d] :
              r.src \in closing \/ r \in relay_streams'[d]
    PROVE  LocalInv' /\ out' \in [Cnxs -> Seq(Media \cup Replies)]
                     /\ stopped' \in [Cnxs -> SUBSET Sids] /\ gen' = gen /\ frames' = frames
<1>1. /\ alive' = alive \ closing /\ gen' = gen /\ frames' = frames
      /\ ended' = [c \in Cnxs |-> IF c \in closing THEN {} ELSE ended[c]]
      /\ stopped' = [c \in Cnxs |-> IF c \in closing THEN {} ELSE stopped[c]]
      /\ opened' = [c \in Cnxs |-> IF c \in closing THEN 0 ELSE opened[c]]
      /\ out' = [c \in Cnxs |-> IF c \in closing THEN <<>> ELSE out[c]]
  BY DEF Free
<1>2. ASSUME NEW d \in Cnxs, NEW i \in Nat, IsLocal(d, i)'
      PROVE  /\ IsLocal(d, i) /\ out'[d][i] = out[d][i] /\ opened'[d] = opened[d]
             /\ \A r \in relay_streams[d] : r \in relay_streams'[d] \/ r.src \notin alive'
  <2>1. d \notin closing
    BY <1>1, <1>2, SMTT(60) DEF IsLocal
  <2> QED
    BY <1>1, <1>2, <2>1 DEF IsLocal
<1>3. \A s \in alive : s \in alive' => stopped[s] = stopped'[s] /\ ended[s] = ended'[s]
  BY <1>1 DEF MappingInv, MappingTypes
<1>4. LocalInv'
  BY <1>1, <1>2, <1>3, LocalKept
<1>5. stopped' \in [Cnxs -> SUBSET Sids]
  BY <1>1 DEF OutTypes
<1>6. out' \in [Cnxs -> Seq(Media \cup Replies)]
  <2>0. <<>> \in Seq(Media \cup Replies)
    BY SMTT(60)
  <2>1. PICK S : S = Seq(Media \cup Replies) /\ <<>> \in S
    BY <2>0
  <2>2. out \in [Cnxs -> S]
    BY <2>1 DEF OutTypes
  <2>3. out' \in [Cnxs -> S]
    BY <1>1, <2>1, <2>2
  <2> QED
    BY <2>1, <2>3
<1> QED
  BY <1>1, <1>4, <1>5, <1>6

(* What a queue holds after frames are appended to it, as the router's      *)
(* handlers queue an answer and the cached init frames behind it.          *)
LEMMA QueueExtended ==
    ASSUME NEW S, NEW q \in [Cnxs -> Seq(S)], NEW c \in Cnxs, NEW t \in Seq(S)
    PROVE  [q EXCEPT ![c] = @ \o t] \in [Cnxs -> Seq(S)]
<1>1. q[c] \o t \in Seq(S)
  BY ConcatProperties
<1> QED
  BY <1>1

(* An answer queued before other frames is those frames behind it. *)
LEMMA AnswerThenFrames ==
    ASSUME NEW S, NEW q \in Seq(S), NEW e \in S, NEW t \in Seq(S)
    PROVE  /\ Append(q, e) \o t = q \o (<<e>> \o t)
           /\ <<e>> \o t \in Seq(S)
<1>1. Append(q, e) = q \o <<e>>
  BY AppendIsConcat
<1>2. <<e>> \in Seq(S)
  BY SMTT(60)
<1>3. (q \o <<e>>) \o t = q \o (<<e>> \o t)
  BY <1>2, ConcatAssociative, SMTT(60)
<1>4. <<e>> \o t \in Seq(S)
  BY <1>2, ConcatProperties
<1> QED
  BY <1>1, <1>3, <1>4

\* Writing elsewhere than on the server's streams.
LEMMA WritesElsewhere ==
    ASSUME MappingInv, OutTypes, LocalInv,
           relay_streams' = relay_streams, quicVars' = quicVars, gen' = gen,
           \A d \in Cnxs :
              \/ out'[d] = out[d]
              \/ \E w \in Media \cup Replies :
                    out'[d] = Append(out[d], w) /\ w.via[1] # "local"
              \/ \E more \in Seq(Media \cup Replies) :
                    /\ out'[d] = out[d] \o more
                    /\ \A i \in DOMAIN more : more[i].via[1] # "local"
    PROVE  LocalInv'
<1>1. ASSUME NEW d \in Cnxs, NEW i \in Nat, IsLocal(d, i)'
      PROVE  IsLocal(d, i) /\ out'[d][i] = out[d][i]
  <2>1. out[d] \in Seq(Media \cup Replies)
    BY DEF OutTypes
  <2>2. CASE out'[d] = out[d]
    BY <1>1, <2>2 DEF IsLocal
  <2>3. ASSUME NEW w \in Media \cup Replies, out'[d] = Append(out[d], w), w.via[1] # "local"
        PROVE  IsLocal(d, i) /\ out'[d][i] = out[d][i]
    BY <1>1, <2>1, <2>3, SMTT(60) DEF IsLocal
  <2>4. ASSUME NEW more \in Seq(Media \cup Replies), out'[d] = out[d] \o more,
               \A k \in DOMAIN more : more[k].via[1] # "local"
        PROVE  IsLocal(d, i) /\ out'[d][i] = out[d][i]
    <3>1. i \in 1..Len(out[d]) + Len(more) /\ out'[d][i].via[1] = "local"
      BY <1>1, <2>1, <2>4, SMTT(60) DEF IsLocal
    <3>2. CASE i \in 1..Len(out[d])
      BY <2>1, <2>4, <3>1, <3>2, SMTT(60) DEF IsLocal
    <3>3. CASE i \notin 1..Len(out[d])
      <4>1. i - Len(out[d]) \in DOMAIN more /\ out'[d][i] = more[i - Len(out[d])]
        BY <2>1, <2>4, <3>1, <3>3, SMTT(60)
      <4> QED
        BY <2>4, <3>1, <4>1
    <3> QED
      BY <3>2, <3>3
  <2> QED
    BY <2>2, <2>3, <2>4
<1> QED
  BY <1>1, LocalKept DEF quicVars

\* Forwarding writes one entry to each of the others, on the stream that the
\* source is mapped to, which no other source has used.
LEMMA ForwardLocal ==
    ASSUME MappingInv, OutTypes, LocalInv, NEW c \in alive, NEW sid \in Sids,
           sid \notin ended[c], ForwardOnStream(c, sid),
           alive' = alive, ended' = ended, stopped' = stopped, gen' = gen
    PROVE  LocalInv' /\ out' \in [Cnxs -> Seq(Media \cup Replies)]
<1>0. c \in Cnxs /\ CodedType \in InitTypes \cup {CodedType}
  BY DEF MappingInv, MappingTypes
<1>1. ASSUME NEW d \in Cnxs
      PROVE  \/ /\ relay_streams'[d] = relay_streams[d] /\ opened'[d] = opened[d]
                /\ out'[d] = out[d]
             \/ \E n \in Nat \ {0} :
                /\ relay_streams'[d] = relay_streams[d] \cup {[src |-> c, sid |-> sid, dst |-> n]}
                /\ out'[d] = Append(out[d], Written(OnLocal(n), CodedType, c, sid))
                /\ n <= opened'[d]
                /\ \/ /\ [src |-> c, sid |-> sid, dst |-> n] \in relay_streams[d]
                      /\ opened'[d] = opened[d]
                   \/ /\ \A r \in relay_streams[d] : ~(r.src = c /\ r.sid = sid)
                      /\ n = opened[d] + 1 /\ opened'[d] = opened[d] + 1
  <2>1. opened[d] \in Nat
    BY DEF MappingInv, MappingTypes
  <2>2. ASSUME NEW r \in relay_streams[d], r.src = c, r.sid = sid
        PROVE  r = [src |-> c, sid |-> sid, dst |-> r.dst] /\ r.dst \in 1..opened[d]
    BY <2>2, SMTT(60) DEF MappingInv, MappingTypes, MappingsLive, Mappings
  <2>3. ASSUME NEW r \in relay_streams[d], r.src = c, r.sid = sid,
               relay_streams'[d] = relay_streams[d], opened'[d] = opened[d],
               out'[d] = Append(out[d], Written(OnLocal(r.dst), CodedType, c, sid))
        PROVE  \E n \in Nat \ {0} :
                /\ relay_streams'[d] = relay_streams[d] \cup {[src |-> c, sid |-> sid, dst |-> n]}
                /\ out'[d] = Append(out[d], Written(OnLocal(n), CodedType, c, sid))
                /\ n <= opened'[d]
                /\ [src |-> c, sid |-> sid, dst |-> n] \in relay_streams[d]
                /\ opened'[d] = opened[d]
    <3>1. r.dst \in Nat \ {0} /\ r.dst <= opened'[d]
      BY <2>1, <2>2, <2>3, SMTT(60)
    <3>2. [src |-> c, sid |-> sid, dst |-> r.dst] \in relay_streams[d]
      BY <2>2, <2>3
    <3> QED
      BY <2>3, <3>1, <3>2
  <2>4. opened[d] + 1 \in Nat \ {0}
    BY <2>1, SMTT(60)
  <2> QED
    BY <1>0, <2>1, <2>3, <2>4, ForwardMapping, SMTT(60)
<1>2. out' \in [Cnxs -> Seq(Media \cup Replies)]
  <2>1. out' = [d \in Cnxs |-> out'[d]]
    BY DEF ForwardOnStream
  <2>2. ASSUME NEW d \in Cnxs PROVE out'[d] \in Seq(Media \cup Replies)
    <3>1. out[d] \in Seq(Media \cup Replies)
      BY DEF OutTypes
    <3>2. \A n \in Nat : Written(OnLocal(n), CodedType, c, sid) \in Media
      BY <1>0, ViaTypes, WrittenTypes
    <3>3. CASE out'[d] = out[d]
      BY <3>1, <3>3
    <3>4. ASSUME NEW n \in Nat, out'[d] = Append(out[d], Written(OnLocal(n), CodedType, c, sid))
          PROVE  out'[d] \in Seq(Media \cup Replies)
      <4>1. Written(OnLocal(n), CodedType, c, sid) \in Media \cup Replies
        BY <3>2
      <4> QED
        BY <3>1, <3>4, <4>1, SMTT(60)
    <3>5. \/ out'[d] = out[d]
          \/ \E n \in Nat : out'[d] = Append(out[d], Written(OnLocal(n), CodedType, c, sid))
      BY <1>1
    <3> QED
      BY <3>3, <3>4, <3>5
  <2> QED
    BY <2>1, <2>2
<1> SUFFICES ASSUME NEW d \in Cnxs
             PROVE  \A i \in Nat : IsLocal(d, i)' =>
                       /\ LocalTypes(d, i)' /\ MappingAgrees(d, i)' /\ MappingStays(d, i)'
                       /\ \A j \in Nat : IsLocal(d, j)' => SameStream(d, i, j)'
  BY <1>2 DEF LocalInv
<1>3. CASE relay_streams'[d] = relay_streams[d] /\ opened'[d] = opened[d] /\ out'[d] = out[d]
  <2> SUFFICES ASSUME NEW i \in Nat, IsLocal(d, i)'
               PROVE  /\ LocalTypes(d, i)' /\ MappingAgrees(d, i)' /\ MappingStays(d, i)'
                      /\ \A j \in Nat : IsLocal(d, j)' => SameStream(d, i, j)'
    OBVIOUS
  <2>1. IsLocal(d, i) /\ \A j \in Nat : IsLocal(d, j)' => IsLocal(d, j)
    BY <1>3 DEF IsLocal
  <2>2. /\ LocalTypes(d, i) /\ MappingAgrees(d, i) /\ MappingStays(d, i)
        /\ \A j \in Nat : IsLocal(d, j) => SameStream(d, i, j)
    BY <2>1 DEF LocalInv
  <2>3. LocalTypes(d, i)'
    BY <1>3, <2>2 DEF LocalTypes, OnLocal
  <2>4. MappingAgrees(d, i)' /\ MappingStays(d, i)'
    BY <1>3, <2>2 DEF MappingAgrees, MappingStays, Flowing, Source
  <2>5. \A j \in Nat : IsLocal(d, j)' => SameStream(d, i, j)'
    BY <1>3, <2>1, <2>2 DEF SameStream, Flowing, Source
  <2> QED
    BY <2>3, <2>4, <2>5
<1>4. ASSUME NEW n \in Nat \ {0},
             relay_streams'[d] = relay_streams[d] \cup {[src |-> c, sid |-> sid, dst |-> n]},
             out'[d] = Append(out[d], Written(OnLocal(n), CodedType, c, sid)),
             n <= opened'[d],
             \/ /\ [src |-> c, sid |-> sid, dst |-> n] \in relay_streams[d]
                /\ opened'[d] = opened[d]
             \/ /\ \A r \in relay_streams[d] : ~(r.src = c /\ r.sid = sid)
                /\ n = opened[d] + 1 /\ opened'[d] = opened[d] + 1
      PROVE  \A i \in Nat : IsLocal(d, i)' =>
                /\ LocalTypes(d, i)' /\ MappingAgrees(d, i)' /\ MappingStays(d, i)'
                /\ \A j \in Nat : IsLocal(d, j)' => SameStream(d, i, j)'
  <2> DEFINE m == [src |-> c, sid |-> sid, dst |-> n]
  <2>o. out[d] \in Seq(Media \cup Replies) /\ opened[d] \in Nat /\ gen[c] \in Nat
    BY <1>0 DEF OutTypes, MappingInv, MappingTypes
  <2>w. /\ Written(OnLocal(n), CodedType, c, sid).via = OnLocal(n)
        /\ Written(OnLocal(n), CodedType, c, sid).src = c
        /\ Written(OnLocal(n), CodedType, c, sid).gen = gen[c]
        /\ Written(OnLocal(n), CodedType, c, sid).from = sid
    BY DEF Written
  <2>1. PICK k \in Nat : k = Len(out[d]) + 1
    BY <2>o, SMTT(60)
  <2>k. /\ out'[d][k].via = OnLocal(n) /\ out'[d][k].src = c
        /\ out'[d][k].gen = gen[c] /\ out'[d][k].from = sid
    BY <1>4, <2>o, <2>w, <2>1, SMTT(60)
  <2>v. OnLocal(n)[1] = "local" /\ OnLocal(n)[2] = n
    BY DEF OnLocal
  <2>p. \/ m \in relay_streams[d] /\ opened'[d] = opened[d]
        \/ n = opened[d] + 1 /\ opened'[d] = opened[d] + 1
    BY <1>4
  <2>q. opened'[d] \in Nat /\ opened[d] <= opened'[d]
    BY <2>o, <2>p, SMTT(60)
  <2>r. ASSUME NEW x \in 1..opened[d]
        PROVE  x \in 1..opened'[d] /\ (x = n => m \in relay_streams[d])
    BY <2>o, <2>p, <2>q, SMTT(60)
  <2>i. ASSUME NEW i \in Nat, IsLocal(d, i)', i # k
        PROVE  IsLocal(d, i) /\ out'[d][i] = out[d][i]
    BY <1>4, <2>o, <2>1, <2>i, SMTT(60) DEF IsLocal
  <2>5. ASSUME NEW i \in Nat, IsLocal(d, i), out'[d][i] = out[d][i]
        PROVE  /\ LocalTypes(d, i)' /\ MappingAgrees(d, i)' /\ MappingStays(d, i)'
               /\ SameStream(d, i, k)' /\ SameStream(d, k, i)'
    <3>1. LocalTypes(d, i) /\ MappingAgrees(d, i) /\ MappingStays(d, i)
      BY <2>5 DEF LocalInv
    <3>2. out[d][i].via[2] \in 1..opened[d] /\ out[d][i].via = OnLocal(out[d][i].via[2])
      BY <3>1 DEF LocalTypes
    <3>3. LocalTypes(d, i)'
      <4>1. out[d][i].via[2] \in 1..opened'[d]
        BY <2>r, <3>2
      <4> QED
        BY <2>5, <3>1, <4>1 DEF LocalTypes, OnLocal
    <3>4. n = out[d][i].via[2] => Source(out[d][i]) = <<c, gen[c], sid>>
      <4>1. ASSUME n = out[d][i].via[2] PROVE m \in relay_streams[d]
        BY <2>r, <3>2, <4>1
      <4> QED
        BY <3>1, <4>1 DEF MappingAgrees
    <3>5. MappingAgrees(d, i)'
      <4>1. Source(out[d][i])' = Source(out[d][i]) /\ (out[d][i].via[2])' = out[d][i].via[2]
        BY <2>5 DEF Source
      <4>2. ASSUME NEW r \in relay_streams'[d], r.dst = out[d][i].via[2]
            PROVE  Source(out[d][i]) = <<r.src, gen[r.src], r.sid>> /\ gen' = gen
        <5>1. gen' = gen /\ r \in relay_streams[d] \cup {m}
          BY <1>4, <4>2
        <5>2. CASE r \in relay_streams[d]
          BY <3>1, <4>2, <5>1, <5>2 DEF MappingAgrees
        <5>3. CASE r = m
          BY <1>4, <3>4, <4>2, <5>1, <5>3
        <5> QED
          BY <5>1, <5>2, <5>3
      <4> QED
        BY <4>1, <4>2 DEF MappingAgrees
    <3>6. MappingStays(d, i)'
      BY <1>4, <2>5, <3>1 DEF MappingStays, Flowing
    <3>7. ASSUME Source(out[d][i]) = <<c, gen[c], sid>>, sid \notin stopped[c]
          PROVE  out[d][i].via = OnLocal(n)
      <4>1. out[d][i].src = c /\ out[d][i].gen = gen[c] /\ out[d][i].from = sid
        BY <3>7 DEF Source
      <4>2. PICK r \in relay_streams[d] : r.src = c /\ r.sid = sid /\ r.dst = out[d][i].via[2]
        BY <3>1, <3>7, <4>1 DEF MappingStays, Flowing
      <4>3. m \in relay_streams[d] /\ m.src = c /\ m.sid = sid /\ m.dst = n
        BY <1>4, <4>2
      <4>4. r = m
        BY <4>2, <4>3 DEF MappingInv, OneMapping
      <4> QED
        BY <3>2, <4>2, <4>3, <4>4
    <3>8. out[d][i].via = OnLocal(n) => Source(out[d][i]) = <<c, gen[c], sid>>
      BY <2>v, <3>4
    <3>9. Source(out[d][i])' = Source(out[d][i]) /\ Source(out[d][k])' = <<c, gen[c], sid>>
      BY <2>5, <2>k DEF Source
    <3>10. /\ Source(out[d][i]) = <<c, gen[c], sid>> /\ (Flowing(d, i)' \/ Flowing(d, k)')
              => sid \notin stopped[c]
      BY <2>5, <2>k DEF Source, Flowing
    <3> QED
      BY <2>5, <2>k, <3>3, <3>5, <3>6, <3>7, <3>8, <3>9, <3>10 DEF SameStream
  <2>6. LocalTypes(d, k)' /\ MappingAgrees(d, k)' /\ MappingStays(d, k)' /\ SameStream(d, k, k)'
    <3>1. LocalTypes(d, k)'
      <4>2. n \in 1..opened'[d]
        BY <1>4, <2>q, SMTT(60)
      <4>3. gen[c] <= gen[c]
        BY <2>o, SMTT(60)
      <4>4. OnLocal(n)' = OnLocal(n)
        BY DEF OnLocal
      <4> QED
        BY <1>0, <2>k, <2>v, <2>o, <4>2, <4>3, <4>4 DEF LocalTypes, OnLocal
    <3>2. MappingAgrees(d, k)'
      <4> SUFFICES ASSUME NEW r \in relay_streams'[d], r.dst = n
                   PROVE  r.src = c /\ r.sid = sid
        BY <2>k, <2>v DEF MappingAgrees, Source
      <4>1. CASE r = m
        BY <4>1, SMTT(60)
      <4>2. CASE r \in relay_streams[d]
        <5>1. r.dst \in 1..opened[d] /\ \A q \in relay_streams[d] : q.dst = r.dst => q = r
          BY <4>2 DEF MappingInv, MappingsLive
        <5>2. m \in relay_streams[d] /\ m.dst = n
          BY <2>r, <5>1
        <5> QED
          BY <5>1, <5>2, SMTT(60)
      <4> QED
        BY <1>4, <4>1, <4>2
    <3>3. MappingStays(d, k)'
      <4>1. m \in relay_streams'[d] /\ m.src = c /\ m.sid = sid /\ m.dst = n
        BY <1>4
      <4> QED
        BY <2>k, <2>v, <4>1 DEF MappingStays
    <3>4. SameStream(d, k, k)'
      BY DEF SameStream
    <3> QED
      BY <3>1, <3>2, <3>3, <3>4
  <2>7. ASSUME NEW i \in Nat, IsLocal(d, i), out'[d][i] = out[d][i],
               NEW j \in Nat, IsLocal(d, j), out'[d][j] = out[d][j]
        PROVE  SameStream(d, i, j)'
    <3>1. SameStream(d, i, j)
      BY <2>7 DEF LocalInv
    <3> QED
      BY <2>7, <3>1 DEF SameStream, Source, Flowing
  <2> QED
    BY <2>i, <2>5, <2>6, <2>7
<1> QED
  BY <1>1, <1>3, <1>4

\* Every callback keeps what was written on the server's streams in agreement with
\* the mappings.
LEMMA OutStep ==
    ASSUME MappingInv, OutTypes, LocalInv, [Next]_vars
    PROVE  OutTypes' /\ LocalInv'
<1>c. alive \subseteq Cnxs /\ conns = alive
  BY DEF MappingInv, MappingTypes, MappingsLive
<1>s. MediaSids \subseteq Sids /\ 0 \in Sids
  BY RelayAssumption
<1>q. \A d \in Cnxs : out[d] \in Seq(Media \cup Replies)
  BY DEF OutTypes
<1>1. CASE UNCHANGED <<routerVars, relay_streams, quicVars, out, gen, frames>>
  <2>1. OutTypes'
    BY <1>1 DEF OutTypes, quicVars, routerVars, initVars
  <2>2. LocalInv'
    BY <1>1, LocalKept DEF quicVars, IsLocal
  <2> QED
    BY <2>1, <2>2
<1>2. CASE Stop
  <2>1. Free(alive) /\ RemoveCnxs(alive) /\ relay_streams' = [c \in Cnxs |-> {}]
    BY <1>2 DEF Stop
  <2>2. \A d \in Cnxs \ alive : \A r \in relay_streams[d] : FALSE
    BY DEF MappingInv, MappingsLive
  <2>3. LocalInv' /\ out' \in [Cnxs -> Seq(Media \cup Replies)]
                  /\ stopped' \in [Cnxs -> SUBSET Sids] /\ gen' = gen /\ frames' = frames
    BY <2>1, <2>2, FreeKeeps
  <2>4. OutTypes'
    BY <2>1, <2>3 DEF RemoveCnxs, OutTypes, initVars
  <2> QED
    BY <2>3, <2>4
<1>3. ASSUME NEW c \in Cnxs, OnReady(c) PROVE OutTypes' /\ LocalInv'
  <2>1. OutTypes'
    BY <1>3, SMTT(60) DEF OnReady, OutTypes, routerVars, initVars
  <2>2. LocalInv'
    BY <1>3, LocalKept DEF OnReady, OutTypes, IsLocal
  <2> QED
    BY <2>1, <2>2
<1>4. ASSUME NEW c \in Cnxs, OnClose(c) PROVE OutTypes' /\ LocalInv'
  <2>1. /\ c \in alive /\ Free({c}) /\ RemoveCnxs({c})
        /\ relay_streams' = [Purge(c, Sids) EXCEPT ![c] = {}]
    BY <1>4 DEF OnClose
  <2>2. \A d \in Cnxs : relay_streams'[d] \subseteq relay_streams[d]
    BY <2>1, Purged DEF Purge
  <2>3. \A d \in Cnxs \ {c} : \A r \in relay_streams[d] : r.src \in {c} \/ r \in relay_streams'[d]
    BY <2>1, Purged DEF Purge
  <2>4. LocalInv' /\ out' \in [Cnxs -> Seq(Media \cup Replies)]
                  /\ stopped' \in [Cnxs -> SUBSET Sids] /\ gen' = gen /\ frames' = frames
    BY <2>1, <2>2, <2>3, FreeKeeps
  <2>5. OutTypes'
    BY <2>1, <2>4 DEF RemoveCnxs, OutTypes, initVars
  <2> QED
    BY <2>4, <2>5
<1>5. ASSUME NEW c \in Cnxs, NEW sid \in Sids,
             OnFin(c, sid) \/ OnReset(c, sid) \/ OnStopSending(c, sid)
      PROVE  OutTypes' /\ LocalInv'
  <2>1. /\ relay_streams' = Purge(c, {sid}) /\ alive' = alive /\ opened' = opened
        /\ out' = out /\ gen' = gen /\ frames' = frames /\ UNCHANGED routerVars
        /\ \/ ended' = [ended EXCEPT ![c] = @ \cup {sid}] /\ stopped' = stopped
           \/ stopped' = [stopped EXCEPT ![c] = @ \cup {sid}] /\ ended' = ended
    BY <1>5 DEF OnFin, OnReset, OnStopSending
  <2>2. /\ stopped' \in [Cnxs -> SUBSET Sids]
        /\ \A s \in Cnxs : stopped[s] \subseteq stopped'[s] /\ ended[s] \subseteq ended'[s]
        /\ sid \in ended'[c] \cup stopped'[c]
    <3>0. stopped \in [Cnxs -> SUBSET Sids] /\ ended \in [Cnxs -> SUBSET Sids]
      BY DEF OutTypes, MappingInv, MappingTypes
    <3>1. CASE ended' = [ended EXCEPT ![c] = @ \cup {sid}] /\ stopped' = stopped
      BY <3>0, <3>1
    <3>2. CASE stopped' = [stopped EXCEPT ![c] = @ \cup {sid}] /\ ended' = ended
      BY <3>0, <3>2
    <3> QED
      BY <2>1, <3>1, <3>2
  <2>3. \A d \in Cnxs : /\ relay_streams'[d] \subseteq relay_streams[d]
                         /\ \A r \in relay_streams[d] :
                               r \in relay_streams'[d] \/ (r.src = c /\ r.sid = sid)
    <3> SUFFICES ASSUME NEW d \in Cnxs
                 PROVE  /\ relay_streams'[d] \subseteq relay_streams[d]
                        /\ \A r \in relay_streams[d] :
                              r \in relay_streams'[d] \/ (r.src = c /\ r.sid = sid)
      OBVIOUS
    <3>1. /\ Purge(c, {sid})[d] \subseteq relay_streams[d]
          /\ \A r \in relay_streams[d] : r.src # c \/ r.sid \notin {sid}
                                            => r \in Purge(c, {sid})[d]
      BY Purged, SMTT(60)
    <3> QED
      BY <2>1, <3>1
  <2>4. LocalInv'
    BY <1>c, <2>1, <2>2, <2>3, LocalKept DEF IsLocal
  <2>5. OutTypes'
    BY <2>1, <2>2 DEF OutTypes, routerVars, initVars
  <2> QED
    BY <2>4, <2>5
<1>6. ASSUME NEW c \in Cnxs, NEW sid \in Sids, NEW b \in BOOLEAN, OnFrame(c, sid, b)
      PROVE  OutTypes' /\ LocalInv'
  <2>1. /\ c \in alive /\ frames' = frames + 1 /\ UNCHANGED routerVars
        /\ alive' = alive /\ ended' = ended /\ stopped' = stopped /\ gen' = gen
    BY <1>6 DEF OnFrame
  <2>2. ASSUME out' \in [Cnxs -> Seq(Media \cup Replies)] PROVE OutTypes'
    BY <2>1, <2>2, SMTT(60) DEF OutTypes, routerVars, initVars
  <2>3. CASE ForwardOnStream(c, sid) /\ sid \notin ended[c]
    BY <2>1, <2>2, <2>3, ForwardLocal
  <2>4. ASSUME Echo(c, sid, b) PROVE OutTypes' /\ LocalInv'
    <3>1. PICK via \in Vias : via = (IF b THEN InDatagram ELSE OnPeer(sid)) /\ via[1] # "local"
      BY ViaTypes
    <3>2. PICK w : w = Written(via, CodedType, c, sid)
      OBVIOUS
    <3>3. w \in Media \cup Replies /\ w.via[1] # "local"
      BY <3>1, <3>2, WrittenTypes, SMTT(60)
    <3>4. out' = [out EXCEPT ![c] = Append(@, w)]
      BY <2>4, <3>1, <3>2 DEF Echo
    <3>5. out' \in [Cnxs -> Seq(Media \cup Replies)]
      BY <1>q, <3>3, <3>4, SMTT(60) DEF OutTypes
    <3>6. \A d \in Cnxs : out'[d] = out[d] \/ out'[d] = Append(out[d], w)
      BY <3>4 DEF OutTypes
    <3>7. LocalInv'
      BY <2>1, <2>4, <3>3, <3>6, WritesElsewhere DEF Echo, quicVars
    <3> QED
      BY <2>2, <3>5, <3>7
  <2>5. ASSUME ForwardAsDatagram(c) PROVE OutTypes' /\ LocalInv'
    <3>1. PICK w : w = Written(InDatagram, CodedType, c, 0)
      OBVIOUS
    <3>2. w \in Media \cup Replies /\ w.via[1] # "local"
      BY <1>s, <3>1, ViaTypes, WrittenTypes, SMTT(60)
    <3>3. out' = [d \in Cnxs |-> IF d \in conns \ {c} THEN Append(out[d], w) ELSE out[d]]
      BY <2>5, <3>1 DEF ForwardAsDatagram
    <3>4. out' \in [Cnxs -> Seq(Media \cup Replies)]
      BY <1>q, <3>2, <3>3, SMTT(60)
    <3>5. \A d \in Cnxs : out'[d] = out[d] \/ out'[d] = Append(out[d], w)
      BY <3>3
    <3>6. LocalInv'
      BY <2>1, <2>5, <3>2, <3>5, WritesElsewhere DEF ForwardAsDatagram, quicVars
    <3> QED
      BY <2>2, <3>4, <3>6
  <2> QED
    BY <1>6, <2>3, <2>4, <2>5 DEF OnFrame
<1>7. ASSUME NEW c \in Cnxs, NEW sid \in MediaSids,
             OnConnect(c, sid) \/ \E n \in Names : OnPublish(c, sid, n)
      PROVE  OutTypes' /\ LocalInv'
  <2>1. /\ OnCommand(c, sid) /\ out' = [out EXCEPT ![c] = Append(@, Reply(sid))]
        /\ subscribers' = subscribers /\ UNCHANGED initVars
        /\ conn_stream' \in [Cnxs -> Names \cup {NoName}]
    <3>1. CASE OnConnect(c, sid)
      BY <3>1 DEF OnConnect, routerVars, OutTypes
    <3>2. ASSUME NEW n \in Names, OnPublish(c, sid, n)
          PROVE  /\ OnCommand(c, sid) /\ out' = [out EXCEPT ![c] = Append(@, Reply(sid))]
                 /\ subscribers' = subscribers /\ UNCHANGED initVars
                 /\ conn_stream' \in [Cnxs -> Names \cup {NoName}]
      BY <3>2 DEF OnPublish, RegisterPublisher, OutTypes
    <3> QED
      BY <1>7, <3>1, <3>2
  <2>2. Reply(sid) \in Media \cup Replies /\ Reply(sid).via[1] # "local"
    BY <1>s, ViaTypes
  <2>3. out' \in [Cnxs -> Seq(Media \cup Replies)]
    <3>1. PICK S : S = Media \cup Replies
      OBVIOUS
    <3>2. out \in [Cnxs -> Seq(S)] /\ Reply(sid) \in S
      BY <2>2, <3>1 DEF OutTypes
    <3>3. Append(out[c], Reply(sid)) \in Seq(S)
      BY <3>2, AppendProperties
    <3>4. out' \in [Cnxs -> Seq(S)]
      BY <2>1, <3>2, <3>3
    <3> QED
      BY <3>1, <3>4
  <2>4. \A d \in Cnxs : out'[d] = out[d] \/ out'[d] = Append(out[d], Reply(sid))
    BY <2>1 DEF OutTypes
  <2>5. LocalInv'
    BY <2>1, <2>2, <2>4, WritesElsewhere DEF OnCommand
  <2>6. OutTypes'
    BY <2>1, <2>3 DEF OutTypes, OnCommand, quicVars, initVars
  <2> QED
    BY <2>5, <2>6
<1>8. ASSUME NEW c \in Cnxs, NEW sid \in MediaSids, NEW n \in Names, OnPlay(c, sid, n)
      PROVE  OutTypes' /\ LocalInv'
  <2> DEFINE F == [i \in DOMAIN InitFrames(n) |-> [InitFrames(n)[i] EXCEPT !.via = OnPeer(sid)]]
             S == Media \cup Replies
  <2>1. /\ OnCommand(c, sid) /\ out' = [out EXCEPT ![c] = Append(@, Reply(sid)) \o F]
        /\ subscribers' = [subscribers EXCEPT ![n][c] = IF @ > 0 THEN @ ELSE @ + 1]
        /\ conn_stream' = [conn_stream EXCEPT ![c] = n] /\ UNCHANGED initVars
    BY <1>8 DEF OnPlay, RegisterSubscriber
  <2>2. Reply(sid) \in S /\ Reply(sid).via[1] # "local"
    BY <1>s, ViaTypes
  <2>3. F \in Seq(S) /\ \A i \in DOMAIN F : F[i].via[1] # "local"
    <3>1. init_types[n] \in Seq(InitTypes) /\ DOMAIN init_types[n] = 1..Len(init_types[n])
      BY SMTT(60) DEF OutTypes
    <3>2. DOMAIN F = 1..Len(init_types[n]) /\ F = [i \in 1..Len(init_types[n]) |-> F[i]]
      BY <3>1 DEF InitFrames
    <3>3. ASSUME NEW i \in 1..Len(init_types[n])
          PROVE  F[i] \in S /\ F[i].via[1] # "local"
      <4>1. InitFrames(n)[i] \in Media
        BY <3>1 DEF InitFrames, OutTypes
      <4>2. F[i] = [InitFrames(n)[i] EXCEPT !.via = OnPeer(sid)]
        BY <3>1 DEF InitFrames
      <4> QED
        BY <1>s, <4>1, <4>2, ViaTypes, SMTT(60) DEF Media
    <3>4. Len(init_types[n]) \in Nat
      BY <3>1, SMTT(60)
    <3> HIDE DEF F, S
    <3> QED
      BY <3>2, <3>3, <3>4, SMTT(60)
  <2>q. out \in [Cnxs -> Seq(S)]
    BY DEF OutTypes
  <2> HIDE DEF F, S
  <2>5. /\ Append(out[c], Reply(sid)) \o F = out[c] \o (<<Reply(sid)>> \o F)
        /\ <<Reply(sid)>> \o F \in Seq(S)
    <3>1. out[c] \in Seq(S)
      BY <2>q
    <3>2. Reply(sid) \in S
      BY <2>2
    <3>3. F \in Seq(S)
      BY <2>3
    <3>4. \A q, t \in Seq(S) : \A e \in S :
            Append(q, e) \o t = q \o (<<e>> \o t) /\ <<e>> \o t \in Seq(S)
      BY AnswerThenFrames
    <3> QED
      BY <3>1, <3>2, <3>3, <3>4
  <2>4. out'[c] = out[c] \o (<<Reply(sid)>> \o F)
    <3>1. out'[c] = Append(out[c], Reply(sid)) \o F
      BY <2>1, <2>q
    <3> QED
      BY <2>5, <3>1
  <2>6. \A i \in DOMAIN (<<Reply(sid)>> \o F) : (<<Reply(sid)>> \o F)[i].via[1] # "local"
    BY <2>2, <2>3, SMTT(60)
  <2>7. \A d \in Cnxs : d # c => out'[d] = out[d]
    BY <2>1 DEF OutTypes
  <2>8. LocalInv'
    BY <2>1, <2>4, <2>5, <2>6, <2>7, WritesElsewhere DEF OnCommand, S
  <2>9. out' \in [Cnxs -> Seq(Media \cup Replies)]
    <3>1. [out EXCEPT ![c] = @ \o (<<Reply(sid)>> \o F)] \in [Cnxs -> Seq(S)]
      BY <2>5, <2>q, QueueExtended
    <3>2. out' = [out EXCEPT ![c] = @ \o (<<Reply(sid)>> \o F)]
      BY <2>1, <2>5
    <3> QED
      BY <3>1, <3>2 DEF S
  <2>10. subscribers' \in [Names -> [Cnxs -> Nat]]
    BY <2>1, SMTT(60) DEF OutTypes
  <2>11. OutTypes'
    BY <2>1, <2>9, <2>10 DEF OutTypes, OnCommand, quicVars, initVars
  <2> QED
    BY <2>8, <2>11
<1>9. ASSUME NEW c \in Cnxs, NEW sid \in MediaSids, NEW t \in InitTypes \cup {CodedType},
             NEW b \in BOOLEAN, OnMedia(c, sid, t, b)
      PROVE  OutTypes' /\ LocalInv'
  <2>1. PICK via \in Vias : via = (IF b THEN InDatagram ELSE OnPeer(0)) /\ via[1] # "local"
    BY <1>s, ViaTypes
  <2>2. PICK w : w = Written(via, t, c, conn_stream[c])
    OBVIOUS
  <2>3. w \in Media /\ w.via[1] # "local"
    <3>1. conn_stream[c] \in Sids \cup Names \cup {NoName}
      BY DEF OutTypes
    <3> QED
      BY <2>1, <2>2, <3>1, WrittenTypes
  <2>4. PICK subs : subs = SubscribersFor(c)
    OBVIOUS
  <2>5. subs \in [Cnxs -> Nat]
    BY <2>4 DEF SubscribersFor, IsPublisher, OutTypes
  <2>6. /\ frames' = frames + 1
        /\ IF t \in InitTypes /\ IsPublisher(c) THEN CacheInit(conn_stream[c], t, w)
                                                ELSE UNCHANGED initVars
        /\ out' = [d \in Cnxs |-> out[d] \o [i \in 1..subs[d] |-> w]]
        /\ UNCHANGED <<publisher, subscribers, conn_stream, relay_streams, quicVars, gen>>
    BY <1>9, <2>1, <2>2, <2>4 DEF OnMedia
  <2>7. \A d \in Cnxs : /\ [i \in 1..subs[d] |-> w] \in Seq(Media \cup Replies)
                         /\ \A i \in DOMAIN [j \in 1..subs[d] |-> w] :
                               [j \in 1..subs[d] |-> w][i].via[1] # "local"
    BY <2>3, <2>5, SMTT(60)
  <2>8. LocalInv'
    BY <2>6, <2>7, WritesElsewhere
  <2>9. out' \in [Cnxs -> Seq(Media \cup Replies)]
    <3>1. \A d \in Cnxs : out'[d] \in Seq(Media \cup Replies)
      <4> TAKE d \in Cnxs
      <4>1. PICK more \in Seq(Media \cup Replies) : out'[d] = out[d] \o more
        BY <2>6, <2>7
      <4> QED
        BY <1>q, <4>1, SMTT(60)
    <3>2. out' = [d \in Cnxs |-> out'[d]]
      BY <2>6
    <3> QED
      BY <3>1, <3>2
  <2>10. /\ init_types' \in [Names -> Seq(InitTypes)]
         /\ init' \in [Names -> [InitTypes -> Media \cup {NoFrame}]]
         /\ \A n \in Names : \A i \in DOMAIN init_types'[n] : init'[n][init_types'[n][i]] \in Media
    <3>1. CASE UNCHANGED initVars
      BY <3>1 DEF initVars, OutTypes
    <3>2. ASSUME t \in InitTypes, conn_stream[c] \in Names, CacheInit(conn_stream[c], t, w)
          PROVE  /\ init_types' \in [Names -> Seq(InitTypes)]
                 /\ init' \in [Names -> [InitTypes -> Media \cup {NoFrame}]]
                 /\ \A n \in Names : \A i \in DOMAIN init_types'[n] :
                        init'[n][init_types'[n][i]] \in Media
      <4>1. init' \in [Names -> [InitTypes -> Media \cup {NoFrame}]]
        BY <2>3, <3>2 DEF CacheInit, OutTypes
      <4>2. init_types' \in [Names -> Seq(InitTypes)]
        BY <3>2, SMTT(60) DEF CacheInit, OutTypes
      <4>3. ASSUME NEW n \in Names, NEW i \in DOMAIN init_types'[n]
            PROVE  init'[n][init_types'[n][i]] \in Media
        <5>1. init_types[n] \in Seq(InitTypes)
          BY DEF OutTypes
        <5>2. init_types'[n] = init_types[n] \/ (n = conn_stream[c] /\ init_types'[n] = Append(init_types[n], t))
          BY <3>2 DEF CacheInit, OutTypes
        <5>3. \/ i \in DOMAIN init_types[n] /\ init_types'[n][i] = init_types[n][i]
              \/ n = conn_stream[c] /\ init_types'[n][i] = t
          BY <3>2, <4>3, <5>1, <5>2, SMTT(60)
        <5>4. init_types'[n][i] \in InitTypes
          BY <3>2, <5>1, <5>3, SMTT(60)
        <5>5. init'[n][init_types'[n][i]] = w \/ init'[n][init_types'[n][i]] = init[n][init_types'[n][i]]
          BY <3>2, <5>4 DEF CacheInit, OutTypes
        <5>6. n = conn_stream[c] => init'[n][t] = w
          BY <3>2 DEF CacheInit, OutTypes
        <5> QED
          BY <2>3, <5>3, <5>5, <5>6 DEF OutTypes
      <4> QED
        BY <4>1, <4>2, <4>3
    <3> QED
      BY <2>6, <3>1, <3>2 DEF IsPublisher, OutTypes
  <2>11. OutTypes'
    <3>1. /\ frames' \in Nat /\ gen' = gen /\ stopped' = stopped
          /\ subscribers' = subscribers /\ conn_stream' = conn_stream
      BY <2>6, SMTT(60) DEF OutTypes, quicVars
    <3> QED
      BY <2>9, <2>10, <3>1 DEF OutTypes
  <2> QED
    BY <2>8, <2>11
<1>10. CASE Start \/ UNCHANGED vars
  BY <1>1, <1>10 DEF Start, vars, historyVars, quicVars, routerVars, initVars
<1> QED
  BY <1>2, <1>3, <1>4, <1>5, <1>6, <1>7, <1>8, <1>9, <1>10 DEF Next

\* A stream that the relay server opens to a connection (forward_frame()) carries
\* one stream of one connection, and a source stream stays on one such stream.
THEOREM StreamsStayApart == Spec => []StreamsMirror
<1>1. MappingInv /\ OutTypes /\ LocalInv => StreamsMirror
  <2> SUFFICES ASSUME MappingInv, OutTypes, LocalInv PROVE StreamsMirror
    OBVIOUS
  <2>1. ASSUME NEW d \in alive, NEW i \in DOMAIN out[d], NEW j \in DOMAIN out[d],
               out[d][i].via[1] = "local", out[d][j].via[1] = "local"
        PROVE  SameStream(d, i, j)
    <3>1. d \in Cnxs
      BY DEF MappingInv, MappingTypes
    <3>2. out[d] \in Seq(Media \cup Replies)
      BY <3>1 DEF OutTypes
    <3>3. DOMAIN out[d] = 1..Len(out[d]) /\ Len(out[d]) \in Nat
      BY <3>2, SMTT(60)
    <3>4. i \in Nat /\ j \in Nat
      BY <3>3, SMTT(60)
    <3>5. IsLocal(d, i) /\ IsLocal(d, j)
      BY <2>1 DEF IsLocal
    <3> QED
      BY <3>1, <3>4, <3>5 DEF LocalInv
  <2>2. ASSUME NEW d \in alive, NEW i \in DOMAIN out[d], NEW j \in DOMAIN out[d],
               out[d][i].via[1] = "local", out[d][j].via[1] = "local"
        PROVE  LET a == out[d][i]  b == out[d][j]
                   source(e) == <<e.src, e.gen, e.from>>
               IN  /\ a.via = b.via => source(a) = source(b)
                   /\ /\ source(a) = source(b)
                         /\ a.src \in alive /\ a.gen = gen[a.src]
                         /\ a.from \notin stopped[a.src] => a.via = b.via
    <3>1. SameStream(d, i, j)
      BY <2>1, <2>2
    <3> QED
      BY <3>1 DEF SameStream, Source, Flowing
  <2> QED
    BY <2>2 DEF StreamsMirror
<1> QED
  BY <1>1, MappingInit, MappingStep, OutInit, OutStep, PTL DEF Spec
=============================================================================
