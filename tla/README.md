# A verification project for libroqr

libroqr carries RTMP over QUIC (RoQR). Its reference path is

    RTMP publisher -> ingest gateway -> relay -> egress gateway -> RTMP player

This directory holds TLA+ models of libroqr's components and of the ways they
work together, TLC configurations that check them on small instances, and proofs
checked by TLAPS. `PROJECT.json` lists the components,
runs, mutants, hazards, findings and theorems, and maps every definition to the
lines it models.

## The system and its threads

| part | source | threads |
|---|---|---|
| flow table, frame codec | `core/` | none of their own |
| QUIC client | `quic/src/client.cpp` | application threads, picoquic's network thread |
| connection supervisor | `gateway/src/connection_supervisor.cpp` | its own thread, the network thread of the current client, application threads |
| ingest gateway | `gateway/src/ingest.cpp` | RTMP session threads, the supervisor's |
| egress gateway | `gateway/src/egress.cpp`, `player_queue.cpp`, `gap.hpp` | network thread, writer, one thread per RTMP session, accept thread, the caller of start and stop |
| RTMP | `rtmp/` (handshake, chunks, AMF0, classifier, sessions) | session and accept threads |
| relay | `tools/relayd/` | one network thread for all connections |
| bindings, programs | `ffi/`, `jni/`, `examples/` | those of the classes they wrap |

The supervisor owns one client at a time and replaces it after a drop. Each
gateway owns a supervisor and hangs its handlers on it: ingest forwards what
RTMP sessions receive, egress queues what arrives for the player.

## Modules

| module | models | an action is |
|---|---|---|
| `Supervisor` | `ConnectionSupervisor`, with as much of `Client` as it uses | a critical section of the supervisor's or the client's mutex |
| `Link` | the abstract link that `Supervisor` implements | what a gateway can see |
| `Ingest` (extends `Supervisor`) | `IngestGateway` with the RTMP `Listener` and its sessions | a critical section, or a call between two |
| `FlowTable` | `roqr::FlowTable` | a call |
| `Client` (extends `FlowTable`) | `quic::Client`, `resolve_delivery`, `OutboundQueue` | a critical section, or a callback's step between two |
| `Bindings` (extends `Client`) | the Java client, its native part and the C interface below it | a native call, with the client's step in it |
| `FrameCodec` | varints, frame encoder, datagram and stream decoders | operators |
| `FramePath` (extends `FrameCodec`) | the stream callbacks of client and relay, with bytes | a callback |
| `PlayerQueue`, `GapTracker` | the classes of those names | a call |
| `Timeline` (extends `GapTracker`) | the gap tracker over a whole timeline | a frame |
| `LossyQueue` | the abstract queue that `PlayerQueue` implements | what its two users can see |
| `Egress` (extends `PlayerQueue`, `GapTracker`) | `EgressGateway` with the RTMP sessions of its listener | a critical section of `player_mutex` or of the queue |
| `MediaRouter` | `relayd::MediaRouter` | a call |
| `Relay` (extends it) | `relayd::Server` | a callback |
| `ChunkFormat`, `ChunkReader`, `ChunkWriter` | RTMP chunk layer | a header, a body |
| `ChunkStream` | a sender and a reader joined by a wire | |
| `Handshake` | `HandshakeResponder`, `HandshakeInitiator` | operators, one per `feed()` |
| `ServerSession` (extends it) | `rtmp::ServerSession` and a client | a `recv()`, a send, a callback |
| `Amf0`, `Commands`, `Classify`, `Backoff` | AMF0, RTMP commands and the bridge, the classifier, `compute_backoff()` | operators |
| `Algorithms` (extends these and `Timeline`) | their inputs, one octet, value or frame at a time | |
| `IngestProofs`, `ClientProofs`, `RelayProofs`, `RelayMediaProofs`, `EgressProofs`, `HandshakeProofs`, `SessionProofs`, `ChunkProofs` | theorems | |
| `MC*` | symmetry sets and input sets | |

Variables keep the names of the fields they stand for. Variables marked as
history record what happened, for the properties only.

**Supervisor.** `pc` is where `run()` stands. `thread[c]` is the network thread
of client `c`: none, looping, or at one of the points of `signal_closed()`. A
client identity is used again once its thread has been joined. `Start`, `Stop`,
`StopReturn` and `Send` are the application's calls. Backoff and connect
timeouts are timers that may fire at any moment. `OnReady` sends the gateway's
greeting one message at a time, because other threads may `send()` in between.
The critical sections of other threads have the guard `~HoldsMutex(pc)`: the code
never waits with the mutex in hand, and with the mutant that destroys a client
inside its critical section, as the comment at line 138 warns, `stop()` does not
return. `HandOver` joins the check and the push of `Client::send()`, which are
apart in `Client`: a close that falls between them does not look at the queue.

**Link.** The supervisor without threads, locks or clients: a phase (idle, down,
up, over), the failures in a row, how often the link came up and what it took
since. `Supervisor` defines the mapping: the link is up while `connected`, and
its log is what the published client was handed.

**Ingest.** The accept thread, one thread per RTMP session, the thread that
calls `start()` and `stop()`, and all of `Supervisor`. `stage` is how far
`stop()` has come: listening socket shut down, accept thread joined, sessions
closed, session threads joined, supervisor stopped and joined. A connection that
was accepted just before `stop()` still becomes a session. The gateway may be
started again, and keeps its stopped supervisor, as the code does.

**Client.** Application calls fill queues under the mutex and then wake the
network thread; `send()` is three steps (check, push, wake). `service()` is
split where it releases the mutex. `OnClose`, `RunClosedHandler` and
`PublishClosed` are the three parts of `signal_closed()`, and
`JoinNetworkThread`, `SilenceClosed`, `FreeContext` those of the destructor.
`connect()` may fail, with a connection or without, and be called again; the
context of the failed attempt is then freed, which reports its connection to
`signal_closed()` on the calling thread (`ReplaceContext`). A close that comes
after that finds `closed` set. Frames are whole here: a flow, a size and an
identity, and for those that are sent whether they encode. `FramePath` has the
bytes.

**Bindings.** Java's calls are the client's actions (`PassOn`). Whenever a step
of the client runs a handler, `Trampolines` is part of that step: it looks up
the listener, attaches the thread, which the JVM may refuse, and calls Java.
`refs` is what the JVM holds on behalf of the native part. As the headers ask,
listeners are set before `connect()`, and no other call is in progress when
the object is destroyed.

**FramePath.** A peer writes frames, some with a length that must be refused,
and picoquic hands over their bytes in pieces of any size, in the client or in
the relay, which differ in what they do with a malformed stream. A byte has
fewer values than 256, so that varints of all four sizes are short.

**Egress.** `on_frame()` decides under `player_mutex` and pushes after releasing
it; the writer pops, then picks the session under the lock, then sends without
it; `on_player_play()` holds the lock over several pushes. A session's `run()`
shuts its socket down (`RunEnds`) and then has its `on_close` (`OnClose`); one that
ends in its RTMP handshake may leave the socket open. `start()` may find the
listener's port taken, while writer and supervisor run on, and may be called again
(`StartAgain`). `stop()` is the sequence of stages of the code, and players may
still connect during it (`late` records them). `LossyQueue` is what its threads
may rely on.

**Relay.** A connection is a pointer that picoquic may use again. `out` is what
was written to each connection, with the stream or datagram and its origin.
Media mode handles connect, createStream, publish, play and media. A server that
was stopped may be started in another mode.

**Chunks.** A chunk is a record of its header fields and the message its body
belongs to; payload bytes are copies of that reference, so the reader shows which
message each byte of its result came from. Timestamps are taken modulo
`StampRange`, and `Ext` is the value of the 24-bit field that announces an
extended one. A peer that conforms keeps to the reader's limits: its messages are
no longer than `kMaxMessageSize`, and it begins one only if what it has under way
leaves room for it in `kMaxOutstanding`. The third sender, of any chunks, does
neither. `write()` refuses messages on a chunk stream that does not exist and
messages longer than `kMaxWritten`, and `set_chunk_size()` ignores sizes that are
not valid, for which 0 stands. Between `kMaxMessageSize` (8 MiB) and `kMaxWritten`
(16 MiB) a message is written that the reader refuses, and the stream ends there:
`DecodedAsSent` says that this is all that is refused.

**Session.** The octets between client and session are two queues, and a `recv()`
takes any number of them, so the handshake and the messages behind it are cut in
every way. A handshake packet is three octets (time, zero, random). Of the chunk
reader only the contract is used that the run `Chunk` checks. `at` is where
`run()` stands; the replies to a command are sent one at a time, and `close()`
of another thread may come between any two steps. A client may also get the
version or the echo wrong, or go away.

**Algorithms.** A behaviour is about one subject: an AMF0 value that is built
up, octets or a media payload that arrive one at a time, an RTMP message on its
way to the other end, a timeline of video frames, failed attempts. The invariants
compare what the code computes with a definition that is written differently:
the classifier's, for one, asks whether there is some way to cut the payload into
whole ModEx blocks.

External, modelled from use: picoquic's connection states, stream numbering and
delivery, the JVM's references, an RTMP peer's chunk encoder, a RoQR peer's
frames, and the RTMP client of a session.

## Runs

States are distinct states.

| run | checks | bounds | states |
|---|---|---|---|
| `Ingest` | the supervisor's signals, the greeting of every connection, quiescence; `stop()` returns, drops are handled, connecting ends; refinement of `Link` | 2 client identities, 2 sessions, 2 starts, 2 attempts, 2 failures, 2 reconnections, 1 message per connection | 296 thousand |
| `Client_receive` | delivery, buffer, closed handler | 2 flows, 3 arrivals, 2 flow requests | 3.3 million |
| `Client_send` | streams, resets, fallbacks, close | 2 senders, 3 frames, 1 reset | 1.8 million |
| `Bindings` | lifetime of what callbacks use, what Java is given; hand-overs complete | 2 listeners, 2 changes of listener, 1 arrival, 1 frame sent, 1 flow request | 853 thousand |
| `Egress` | pointers, order, init frames, quiescence; refinement of `LossyQueue`; a stalled player wedges nobody | 2 players, 3 frames of 2 kinds, queue of 2, a listener that fails, a restart | 869 thousand |
| `Relay` | echo, relay and media mode: streams, lifetimes, routing, priming | 3 pointers, 4 connections, 2 names, 3 commands, 2 frames, 2 media, 1 stream end | 848 thousand |
| `Session` | handshake, dispatch, acknowledgements, end of a session | 3 messages of 2 octets and any kinds, window of 3, acknowledgements modulo 4 | 402 thousand |
| `Chunk` | writer to reader, any conforming peer to reader, and the reader's budget for any chunks | 3 messages on 2 chunk streams, all header formats, chunk sizes 1 and 2, 4 arbitrary chunks, limits of 4 and 5 for the reader and 5 for the writer | 1.1 million |
| `Frame` | bytes of streams to frames | 2 streams, 2 frames written, payload limit of 2, lengths 0 and 3 refused, 1 STOP_SENDING, bytes of 3 bits | 184 thousand |
| `Pure` | AMF0, commands, bridge and codec, classifier, backoff, gap tracker | values of 3 building steps, payloads of 6 octets (AMF0) and 8 octets (media), 8 attempts with all delays of 6 bits, 5 frames | 910 thousand |

The bounds are chosen so that each limit is passed: more frames than a queue
holds, more connections than pointers, one reconnection after a reconnection,
timestamps on both sides of the wrap, chunk sizes that divide a length and that
do not, AMF0 names that are empty and too long, nesting one deeper than allowed,
two ModEx blocks in a row and one of the long form, and so many attempts that the
backoff's exponent is capped and its doubling overflows. `Egress` has one
timestamp: all the gap tracker can do there is reject a frame, which then changes
nothing else and might as well not have come; `Pure` has the tracker itself, and
the proofs about `Egress` hold for any timestamps. Symmetry is used only in runs without liveness
properties. Runs with `CHECK_DEADLOCK FALSE` are those whose bounded inputs run
out, or whose object is destroyed.

`Relay` lets a connection register for one name only (`SingleStream`); what
happens otherwise is the subject of `Relay_reuse`.

### Disagreements between code and comments

Two runs state what a comment says, and TLC refutes it.

| run | said | done |
|---|---|---|
| `Egress_play` | `egress.cpp:32`: play must complete before media are written | the play of a replaced player makes its successor ready |
| `Relay_reuse` | `server.cpp:323`: a reused pointer never inherits routing | it does, of every name but the last that was registered |

More were met while modelling. The models do what the code does, and no run
states the comment.

| said | done |
|---|---|
| `ingest.cpp:64`: frames forwarded before the handshake completes are dropped | `connected` is set before `on_ready()`, and such frames go out first; `AnnouncedWhenServing` is therefore about the greeting without the media in between |
| `ingest.cpp:44`: one publisher at a time | media of every session are forwarded once a supervisor exists |
| `ingest.hpp`: `wait_publishing()` is true once the publish handshake completed | also if the client refused to send it |
| the design document: overflow of the unknown-flow buffer stops the stream | the connection is closed |
| `egress.cpp:115`: no live frame comes ahead of the init frames | one between check and push, or in the writer's hand, does |
| `egress.cpp:205`: sends fail fast while the writer is joined | not to a player accepted after the shutdown, nor to one that left in its RTMP handshake, so that its socket was not shut down, and was made ready by another's play: `StopReturns` of `Egress` has `late # {}` and `WriterHeld` as its other outcomes |
| `connection_supervisor.cpp:32`: the doubling can never overflow | it can for a `max_backoff` of more than half the range; `BackoffExact` says when |
| `client.hpp:48`: handlers run on the network thread | a second `connect()`, after one that failed for want of the thread, runs the closed handler on the calling thread and leaves `closed` set, so that `send()` refuses from then on |

A STOP_SENDING drops the decoder of the direction that it is not about
(`client.cpp:292`, `server.cpp:294`). Nothing says that it should not;
`FramesExact` leaves out streams on which it fell into a frame, and so says
nothing about this.

## Fairness

- `Ingest` (`FairIngestSpec`): threads are scheduled, a client asked to close
  reports it, and a session's `run()` ends once its socket has been shut down.
  `accept()` is assumed to return only after the listening socket was shut down.
  Nothing is assumed about timers or the network; the second half of
  `DropHandled` alone also assumes, in its statement, that `wait_for` timeouts
  expire.
- `Client` (`Fairness`, used by `Bindings`): calls in progress and the network
  thread go on; a wake-up leads to a call of `service()`; picoquic reports the end
  of a connection it was told to close. That last one is strong fairness, because
  the report is disabled whenever the network thread is inside a callback.
- `Egress`: threads run, but a send, a reply or a session's `run()` is only
  assumed to end once its socket has been shut down; `on_close` then follows. A
  player need never read.
- `ServerSession`: the session thread goes on, and the client reads what it is
  sent; nothing is assumed of what the client sends.

## Proofs

All theorems hold for any sets of clients, sessions, flows, connections, names
and streams and any bounds, under the named assumptions of the modules: that the
null value is not in the set, that bounds are natural numbers, and the like. The
theorems about registrations and media of the relay also assume `SingleStream`.

`IngestProofs` proves all the safety properties of `Supervisor`. None of them
is inductive alone. `IInv` adds where the supervisor thread stands when a network
thread exists (`CellInv`), when a client is published (`PublishInv`), what a
thread inside `signal_closed()` has latched (`ClosingInv`), what is known to have
come up (`UpInv`), the life of the thread (`LifeInv`) and what has been sent
(`SentInv`). `LinkImplemented` uses it to map every step to a step of `Link` or to
a stutter. A behaviour of the gateway is one of its supervisor
(`GatewayUsesSupervisor`), so that `IInv` holds in it, too. `GatewayQuiet` then
needs what each stage of `stop()` has left behind (`StageInv`) and who can have
started the supervisor (`OwnerInv`): a publish that is between its critical
section and `start()` holds up the join of its session. `AnnouncedWhenServing`
needs how much of the greeting was handed over at each point of `on_ready()`, with
media of other threads anywhere in between (`GreetInv`).

`ClientProofs` is about the client and the bindings above it. It proves
`DeliveryExact`, `HandlerOnceAndFirst`, `BufferAccounting` and that a retired flow
stays retired. Delivery needs that only unknown flows have anything buffered, so
the two are proved together (`ReceiveInv`); the handler needs how `closing`,
`closed`, the network thread and the destructor go together (`HandlerInv`); types
are proved in four groups. The totals of the flow table are cardinalities of the
sets of buffered frames and of their octets, so no induction over flows is needed;
with `BufferAccounting` it must be known that these sets are finite, however many
flows there are (`BufferInv`). Of what goes the other way it proves
`StreamPerFlow`, `ResetIsFinal`, `SentOnceInOrder` and `JavaExact`. The order rests on
`SendOrder`: all that went out, on whichever stream or as a datagram, was pushed before
anything that still waits. The bindings use the client as a client may be used
(`BindingsUseClient`). No callback touches what has been released, because handlers
run only until the context is freed, and the release comes after (`LifeInv`); and
nothing was delivered before there was a listener, so that it misses nothing
(`SeenInv`).

`RelayProofs` proves `NothingOutlives` and `StreamsMirror`. A mapping stays live
because every way a connection or a stream can end purges it, and its stream stays
its own because streams are numbered upwards (`MappingInv`). Registrations need
that `conn_stream_` leads to all that a connection has registered (`RegInv`),
which is where one name per connection is assumed. The
history of what was written is tied to the mappings (`LocalInv`): a frame on an
opened stream whose mapping is still there came from the mapping's source, and a
mapping goes only with its source, its destination or its stream.

`RelayMediaProofs` proves the two properties of media mode. `MediaInv` says what a
connection was sent and why: every entry is of a name that was asked for and of a
publication that was noted (`EntryInv`), cached init frames come from whoever
published the name (`CacheInv`), no coded frame is written twice because ids
rise and nobody is subscribed twice (`CodedInv`, `AskInv`), and a connection that is
gone has left nothing (`GoneInv`). That subscribers are primed (`PrimedInv`) is then
a matter of the two orders: `play` after the frame, and the frame after `play`.

`EgressProofs` proves `PointersLive` and `StoppedIsQuiet` (`ThreadInv`: where each
session's thread stands when it is the player, and what each stage of `stop()` has
ended), and that the queue implements `LossyQueue` (`QueueImplemented`). The
latter needs the queue's bound and what its threads hold in their hands
(`QueueInv`), and that removing the first coded entry removes the oldest one.
`CodedOnceInOrder` follows the frames from the network thread's hand through the
queue and the writer's hand to the sessions, each older than what is behind it,
while the queue evicts (`OrderInv`); `InitReachesPlayer` follows the init frames on the
same way, and through the pushes of a play that holds the lock (`PrimedInv`). The
gap tracker keeps three fields of a whole timeline; `GapExact` holds because
`discontinuous` is always what the history says of its last frame (`GapInv`).

`HandshakeProofs` and `SessionProofs` are about `ServerSession`. `ShakeInv`
numbers the octets of each direction: what is in a queue or in a buffer is known by
its place behind the octets already used (`Carried`), and the octets of the client
add up (`UpInv`). The initiator can only be done when S2 was its own random echoed,
and the responder when C2 was (`AgreeInv`, `ServerInv`). `AckExact` uses the same
sum for the count, and `AckInv` for the rest; `ClosedOnce` has an invariant of its own
(`CloseInv`). `DispatchExact` needs that the reader is fed the octets behind the
handshake from the first on, whether they came behind C2 or through `recv()`
(`FlowInv`): the octet that completes a message then says which one it is. The rest,
`DispatchInv`, follows a message from the reader through its replies to its callback.

`ChunkProofs` is about `ChunkStream`. `BudgetExact` holds for every sender: between
messages a chunk stream holds nothing, and a chunk whose body is awaited has passed
the limits (`BudgetInv`). `DecodedAsSent` has one invariant per sender that is
expected to be understood. For the writer, whose message is on the line as a whole,
the next chunk either begins a message or goes on with the one the reader is
assembling, and what is left on the line is what the reader still lacks
(`WriterInv`); if the message is too long for the reader, the next chunk is the one
that is refused (`LongInv`). For the peer, which interleaves, the reader and the peer remember the
same of every chunk stream that has no chunk on its way: the last header, the delta
and how much is missing (`PeerInv`). The peer's budget is then the reader's, so that
nothing is refused. `StreamAssumption` says that the peer's messages may be as long
as `kMaxMessageSize` and that `kMaxOutstanding` is no smaller, as the constants of
`chunk_reader.hpp` are (8 and 32 MiB).

A leaf is given to Zenon first and names SMT where arithmetic or records need it.

Only model-checked:

- liveness, which is out of the prover's reach: `DropHandled`, `GatewayStops`,
  `HandoversComplete`, `NetworkNotWedged`, `StopReturns`, `MessagesHandled`;
- properties of recursive definitions, whose proof is an induction over data:
  `Amf0Faithful`, `MessageCrosses`, `LossOnlyOfCoded`, `FramesExact`, and
  `BackoffExact`, about a loop that doubles.

## Not modelled

- The QUIC context, the programs, and the version and error constants: they have
  no state or only wire the rest together.
- The bindings of the gateways, which create, start, stop and delete one.
- Of the RTMP session, the fields that only its accessors read; of the egress
  gateway, `playing` and `wait_playing()`. Under `Ingest`, the failures of `bind()`
  and `listen()`: no session can come, and so no supervisor. Under `Egress` they
  are modelled, because writer and supervisor have started.
- Calls the code does not protect against, such as two concurrent `stop()`s of one
  supervisor or a call on a client that is being destroyed.

## Plan

1. `ServerSession` composed with `ChunkReader` and `ChunkWriter` in place of their
   contract, and `FramePath`'s decoders inside `Client` and `Relay`.
2. `Egress` over `Supervisor` instead of a switch, as `Ingest` has it.
