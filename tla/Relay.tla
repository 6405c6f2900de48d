-------------------------------- MODULE Relay --------------------------------
(***************************************************************************)
(* relayd::Server (tools/relayd/src/server.cpp): one network thread runs   *)
(* every callback of every connection, so a callback is one action.        *)
(* picoquic is external: connections come and go, a pointer may be used    *)
(* again, and out keeps what is written to each connection, in order.      *)
(* Bytes are abstracted to whole frames.                                   *)
(***************************************************************************)
EXTENDS MediaRouter

CONSTANTS
    Modes,          \* ServerOptions::mode: a subset of {"Echo", "Relay", "Media"}
    Sids,           \* stream IDs that peers open
    MediaSids,      \* those of them that carry commands and media
    CodedType,      \* a message type that is not an init frame's
    SingleStream,   \* whether a connection registers for one name only
    ConnectBound,   \* bound: connections
    FrameBound,     \* bound: frames that arrive, in echo or relay mode
    MediaBound,     \* bound: the same in media mode
    CommandBound,   \* bound: commands that arrive
    EndBound        \* bound: streams that peers end or stop

ASSUME RelayAssumption ==
    /\ Modes \subseteq {"Echo", "Relay", "Media"}
    /\ 0 \in MediaSids /\ MediaSids \subseteq Sids
    /\ CodedType \notin InitTypes /\ SingleStream \in BOOLEAN
    /\ ConnectBound \in Nat /\ FrameBound \in Nat /\ MediaBound \in Nat
    /\ CommandBound \in Nat /\ EndBound \in Nat

VARIABLES
    mode, running,  \* options.mode, running
    conns,          \* connections in the map conns
    relay_streams,  \* Conn::relay_streams: by destination, [src, sid, dst]
    \* picoquic: live connections, streams their peers have ended, or asked the
    \* server not to write on, and streams the server has opened on them
    alive, ended, stopped, opened,
    \* what was written to each connection
    out,
    \* history: connections, uses of each pointer, frames, commands, ends of
    \* streams, what each connection asked for, and who asked to publish what
    connects, gen, frames, commands, ends, asked, published

quicVars    == <<alive, ended, stopped, opened>>
historyVars == <<connects, gen, frames, commands, ends, asked, published>>
vars == <<routerVars, mode, running, conns, relay_streams, quicVars, out,
          historyVars>>

Init ==
    /\ RouterInit
    /\ mode \in Modes /\ running = TRUE
    /\ conns = {} /\ relay_streams = [c \in Cnxs |-> {}]
    /\ alive = {}
    /\ ended = [c \in Cnxs |-> {}] /\ stopped = [c \in Cnxs |-> {}]
    /\ opened = [c \in Cnxs |-> 0]
    /\ out = [c \in Cnxs |-> <<>>]
    /\ connects = 0 /\ gen = [c \in Cnxs |-> 0] /\ frames = 0 /\ commands = 0
    /\ ends = 0
    /\ asked = [c \in Cnxs |-> {}] /\ published = {}

\* The ways a frame is written: on a stream its peer opened, on one the server
\* opened, or in a datagram.
OnPeer(sid) == <<"peer", sid>>
OnLocal(n)  == <<"local", n>>
InDatagram  == <<"datagram", 0>>

\* A frame of c: where it goes, and for the properties where it comes from (a
\* stream, or the name it is published under).
Written(via, type, c, from) ==
    [via |-> via, type |-> type, id |-> frames + 1, src |-> c, gen |-> gen[c],
     from |-> from]

-----------------------------------------------------------------------------
(* Connections.                                                            *)

\* picoquic_callback_ready, for a new connection at address c.
OnReady(c) ==
    /\ running /\ c \notin alive /\ connects < ConnectBound
    /\ connects' = connects + 1 /\ gen' = [gen EXCEPT ![c] = @ + 1]
    /\ alive' = alive \cup {c} /\ conns' = conns \cup {c}
    /\ UNCHANGED <<routerVars, mode, running, relay_streams, ended, stopped,
                   opened, out, frames, commands, ends, asked, published>>

\* purge_relay_streams(): the mappings left, in every destination.
Purge(src, sids) ==
    [d \in Cnxs |-> {r \in relay_streams[d] : r.src # src \/ r.sid \notin sids}]

\* picoquic frees these connections, with all that belongs to them.
Free(closing) ==
    LET keep(f, nothing) == [c \in Cnxs |-> IF c \in closing THEN nothing ELSE f[c]]
    IN  /\ alive' = alive \ closing
        /\ ended' = keep(ended, {}) /\ stopped' = keep(stopped, {})
        /\ opened' = keep(opened, 0)
        /\ out' = keep(out, <<>>) /\ asked' = keep(asked, {})
        /\ UNCHANGED <<connects, gen, frames, commands, ends, published>>

\* picoquic_callback_close.
OnClose(c) ==
    /\ running /\ c \in alive
    /\ conns' = conns \ {c}
    /\ relay_streams' = [Purge(c, Sids) EXCEPT ![c] = {}]
    /\ RemoveCnxs({c})
    /\ Free({c})
    /\ UNCHANGED <<mode, running>>

\* picoquic_callback_stream_fin, after the frames it came with.
OnFin(c, sid) ==
    /\ running /\ c \in alive /\ sid \notin ended[c]
    /\ ended' = [ended EXCEPT ![c] = @ \cup {sid}]
    /\ conns' = conns \cup {c}
    /\ relay_streams' = Purge(c, {sid})
    /\ ends < EndBound /\ ends' = ends + 1
    /\ UNCHANGED <<routerVars, mode, running, alive, stopped, opened, out,
                   connects, gen, frames, commands, asked, published>>

\* picoquic_callback_stream_reset.
OnReset(c, sid) ==
    /\ running /\ c \in alive /\ sid \notin ended[c]
    /\ ended' = [ended EXCEPT ![c] = @ \cup {sid}]
    /\ relay_streams' = Purge(c, {sid})
    /\ ends < EndBound /\ ends' = ends + 1
    /\ UNCHANGED <<routerVars, mode, running, conns, alive, stopped, opened,
                   out, connects, gen,
                   frames, commands, asked, published>>

\* picoquic_callback_stop_sending: the same, but the peer may go on sending.
OnStopSending(c, sid) ==
    /\ running /\ c \in alive /\ sid \notin stopped[c]
    /\ stopped' = [stopped EXCEPT ![c] = @ \cup {sid}]
    /\ relay_streams' = Purge(c, {sid})
    /\ ends < EndBound /\ ends' = ends + 1
    /\ UNCHANGED <<routerVars, mode, running, conns, alive, ended, opened, out,
                   connects, gen, frames, commands, asked, published>>

\* stop(): freeing the context closes every connection, then conns is cleared.
Stop ==
    /\ running /\ running' = FALSE
    /\ conns' = {} /\ relay_streams' = [c \in Cnxs |-> {}]
    /\ RemoveCnxs(alive)
    /\ Free(alive)
    /\ UNCHANGED mode

\* start(): the router is the one of the previous run.
Start ==
    /\ ~running /\ running' = TRUE
    /\ mode' \in Modes
    /\ UNCHANGED <<routerVars, conns, relay_streams, quicVars, out, historyVars>>

-----------------------------------------------------------------------------
(* Echo and relay modes: forward_frame().                                  *)

Echo(c, sid, datagram) ==
    /\ mode = "Echo"
    /\ out' = [out EXCEPT ![c] = Append(@, Written(
                  IF datagram THEN InDatagram ELSE OnPeer(sid), CodedType, c, sid))]
    /\ UNCHANGED <<relay_streams, opened>>

\* Mutant of Mapped: the source connection is not part of the key.
MappedBySid(d, c, sid) == {r \in relay_streams[d] : r.sid = sid}

Mapped(d, c, sid) == {r \in relay_streams[d] : r.src = c /\ r.sid = sid}

\* The server's stream to d for a source stream: mapped, or the next one.
RelayStream(d, c, sid) ==
    IF Mapped(d, c, sid) # {} THEN (CHOOSE r \in Mapped(d, c, sid) : TRUE).dst
    ELSE opened[d] + 1

ForwardOnStream(c, sid) ==
    LET others == conns \ {c}
        fresh  == {d \in others : Mapped(d, c, sid) = {}}
    IN  /\ out' = [d \in Cnxs |-> IF d \in others
                     THEN Append(out[d], Written(OnLocal(RelayStream(d, c, sid)),
                                                 CodedType, c, sid))
                     ELSE out[d]]
        /\ relay_streams' = [d \in Cnxs |-> IF d \in fresh
                     THEN relay_streams[d] \cup
                          {[src |-> c, sid |-> sid, dst |-> RelayStream(d, c, sid)]}
                     ELSE relay_streams[d]]
        /\ opened' = [d \in Cnxs |-> IF d \in fresh THEN opened[d] + 1 ELSE opened[d]]

ForwardAsDatagram(c) ==
    /\ out' = [d \in Cnxs |-> IF d \in conns \ {c}
                 THEN Append(out[d], Written(InDatagram, CodedType, c, 0))
                 ELSE out[d]]
    /\ UNCHANGED <<relay_streams, opened>>

\* A frame arrives on a stream, or (as stream 0) in a datagram.
OnFrame(c, sid, datagram) ==
    /\ running /\ c \in alive /\ mode # "Media"
    /\ IF datagram THEN sid = 0 ELSE sid \notin ended[c]
    /\ frames < FrameBound /\ frames' = frames + 1
    /\ \/ Echo(c, sid, datagram)
       \/ mode = "Relay" /\ ~datagram /\ ForwardOnStream(c, sid)
       \/ mode = "Relay" /\ datagram /\ ForwardAsDatagram(c)
    /\ conns' = conns \cup {c}
    /\ UNCHANGED <<routerVars, mode, running, alive, ended, stopped, connects, gen,
                   commands, ends, asked, published>>

-----------------------------------------------------------------------------
(* Media mode: handle_media_frame().                                       *)

Reply(sid) == [via |-> OnPeer(sid), type |-> "reply", id |-> 0]

Registers(c, n) == SingleStream => \A a \in asked[c] : a.name = n

\* A command on a stream or in a datagram, which counts as stream 0.
OnCommand(c, sid) ==
    /\ running /\ c \in alive /\ mode = "Media"
    /\ sid = 0 \/ sid \notin ended[c]
    /\ commands < CommandBound /\ commands' = commands + 1
    /\ conns' = conns \cup {c}
    /\ UNCHANGED <<mode, running, relay_streams, quicVars, connects, gen, frames,
                   ends>>

\* connect and createStream are only answered.
OnConnect(c, sid) ==
    /\ OnCommand(c, sid)
    /\ out' = [out EXCEPT ![c] = Append(@, Reply(sid))]
    /\ UNCHANGED <<routerVars, asked, published>>

OnPublish(c, sid, n) ==
    /\ OnCommand(c, sid) /\ Registers(c, n)
    /\ RegisterPublisher(c, n)
    /\ out' = [out EXCEPT ![c] = Append(@, Reply(sid))]
    /\ asked' = [asked EXCEPT ![c] = @ \cup {[what |-> "publish", name |-> n]}]
    /\ published' = published \cup {[cnx |-> c, gen |-> gen[c], name |-> n]}

\* Mutant of OnPlay: the cached init frames are not sent.
OnPlayUnprimed(c, sid, n) ==
    /\ OnCommand(c, sid) /\ Registers(c, n)
    /\ RegisterSubscriber(c, n)
    /\ out' = [out EXCEPT ![c] = Append(@, Reply(sid))]
    /\ asked' = [asked EXCEPT ![c] = @ \cup {[what |-> "play", name |-> n]}]
    /\ UNCHANGED published

\* play: answered, then the cached init frames follow on the same stream.
OnPlay(c, sid, n) ==
    /\ OnCommand(c, sid) /\ Registers(c, n)
    /\ RegisterSubscriber(c, n)
    /\ out' = [out EXCEPT ![c] = Append(@, Reply(sid)) \o
                  [i \in DOMAIN InitFrames(n) |->
                      [InitFrames(n)[i] EXCEPT !.via = OnPeer(sid)]]]
    /\ asked' = [asked EXCEPT ![c] = @ \cup {[what |-> "play", name |-> n]}]
    /\ UNCHANGED published

\* Media or data: an init frame of the stream's publisher is cached, then the
\* frame goes to every subscriber, on its stream 0 or in a datagram.
OnMedia(c, sid, type, datagram) ==
    LET n     == conn_stream[c]
        via   == IF datagram THEN InDatagram ELSE OnPeer(0)
        frame == Written(via, type, c, n)
        subs  == SubscribersFor(c)
    IN  /\ running /\ c \in alive /\ mode = "Media"
        /\ IF datagram THEN sid = 0 ELSE sid \notin ended[c]
        /\ frames < MediaBound /\ frames' = frames + 1
        /\ IF type \in InitTypes /\ IsPublisher(c) THEN CacheInit(n, type, frame)
                                                  ELSE UNCHANGED initVars
        /\ out' = [d \in Cnxs |-> out[d] \o [i \in 1..subs[d] |-> frame]]
        /\ conns' = conns \cup {c}
        /\ UNCHANGED <<publisher, subscribers, conn_stream, mode, running,
                       relay_streams, quicVars, connects, gen, commands, ends,
                       asked, published>>

-----------------------------------------------------------------------------

Next ==
    \/ Start \/ Stop
    \/ \E c \in Cnxs :
        \/ OnReady(c) \/ OnClose(c)
        \/ \E sid \in Sids :
            \/ OnFin(c, sid) \/ OnReset(c, sid) \/ OnStopSending(c, sid)
            \/ \E b \in BOOLEAN : OnFrame(c, sid, b)
        \/ \E sid \in MediaSids :
            \/ OnConnect(c, sid)
            \/ \E n \in Names : OnPublish(c, sid, n) \/ OnPlay(c, sid, n)
            \/ \E t \in InitTypes \cup {CodedType}, b \in BOOLEAN : OnMedia(c, sid, t, b)

Spec == Init /\ [][Next]_vars

-----------------------------------------------------------------------------
(* Properties.                                                             *)

\* A stream the server opens carries one stream of one connection: no frame of
\* another source, or of an earlier connection at the same address, gets in
\* between.  And a stream of a live connection stays on one stream unless its
\* peer stopped it.
StreamsMirror ==
    mode = "Relay" => \A d \in alive : \A i, j \in DOMAIN out[d] :
        LET a == out[d][i]  b == out[d][j]
            source(e) == <<e.src, e.gen, e.from>>
        IN  a.via[1] = "local" /\ b.via[1] = "local" =>
              /\ a.via = b.via => source(a) = source(b)
              /\ /\ source(a) = source(b)
                    /\ a.src \in alive /\ a.gen = gen[a.src]
                    /\ a.from \notin stopped[a.src] => a.via = b.via

\* The server tracks exactly the live connections, so a relayed frame reaches
\* those that never sent anything; and mappings are kept only for streams that
\* can still carry frames: both connections live, the source stream not ended,
\* the server's stream open and used by no other.
MappingsLive ==
    /\ conns = alive
    /\ \A d \in Cnxs : \A r \in relay_streams[d] :
        /\ d \in alive /\ r.src \in alive /\ r.sid \notin ended[r.src]
        /\ r.dst \in 1..opened[d]
        /\ \A q \in relay_streams[d] : q.dst = r.dst => q = r

\* A live connection is in the router only for what it asked for itself: one at
\* an address used before inherits no registration.
NoStaleRouting ==
    \A n \in Names : \A c \in alive :
        /\ publisher[n] = c => [what |-> "publish", name |-> n] \in asked[c]
        /\ subscribers[n][c] > 0 => [what |-> "play", name |-> n] \in asked[c]

\* Everyone the router names is live, so no frame is written to a connection
\* that picoquic has freed, and asked for it itself.
RoutingLive ==
    /\ NoStaleRouting
    /\ \A n \in Names : /\ publisher[n] \in alive \cup {NoCnx}
                        /\ \A c \in Cnxs : subscribers[n][c] > 0 => c \in alive

\* Neither kind of state outlives the connections and streams it is about.
NothingOutlives == MappingsLive /\ RoutingLive

\* Media reaches only connections that play the stream, comes only from one
\* that published it, and no copy is sent twice except as a cached init frame.
OnlyPublishedToPlayers ==
    \A c \in alive : \A i \in DOMAIN out[c] :
        mode = "Media" /\ out[c][i].type # "reply" =>
            LET e == out[c][i]
            IN  /\ [what |-> "play", name |-> e.from] \in asked[c]
                /\ [cnx |-> e.src, gen |-> e.gen, name |-> e.from] \in published
                /\ e.type = CodedType => \A j \in DOMAIN out[c] :
                                            out[c][j].id = e.id => i = j

\* A subscriber has been sent the latest init frame of every type, whether it
\* joined before or after the frame arrived.
SubscribersPrimed ==
    \A n \in Names : \A c \in Cnxs : \A t \in Range(init_types[n]) :
        subscribers[n][c] > 0 =>
            \E i \in DOMAIN out[c] : out[c][i].id = init[n][t].id
=============================================================================
