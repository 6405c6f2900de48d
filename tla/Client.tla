-------------------------------- MODULE Client --------------------------------
(***************************************************************************)
(* roqr::quic::Client (quic/src/client.cpp) over one QUIC connection.      *)
(* Application threads call connect, send, bind_flow, retire_flow,         *)
(* reset_flow_stream, close and the destructor; one network thread runs    *)
(* picoquic's callbacks, service(), and the handlers.                      *)
(*                                                                         *)
(* A critical section of Impl::mutex (or of the outbound queue's) is one   *)
(* action.  picoquic is external: it is what the code hands to it (streams,*)
(* datagrams, a close) and the callbacks it makes.  Bytes are abstracted   *)
(* to whole frames.                                                        *)
(***************************************************************************)
EXTENDS FlowTable

CONSTANTS
    Senders,       \* application threads that call send()
    Items,         \* what they send: [flow, mode, media, fits, encodes]
    Fallback,      \* ClientOptions::datagram_fallback: "Stream" or "Drop"
    InboundBound,  \* bound: frames the peer sends
    OutboundBound, \* bound: frames pushed by send()
    FlowRequestBound, \* bound: bind and retire requests
    ResetBound     \* bound: reset requests

ASSUME ItemAssumption ==
    /\ Items \subseteq [flow : Flows, mode : {"Stream", "Datagram", "Auto"},
                        media : BOOLEAN, fits : BOOLEAN, encodes : BOOLEAN]
    /\ Fallback \in {"Stream", "Drop"}
ASSUME ClientBounds ==
    /\ InboundBound \in Nat /\ OutboundBound \in Nat
    /\ FlowRequestBound \in Nat /\ ResetBound \in Nat

VARIABLES
    \* Client::Impl, guarded by its mutex, and the outbound queue
    started, connected, closing, closed, close_requested,
    flow_requests, reset_requests, outbound,
    \* the network thread: where it stands, service()'s locals, its own state
    net, requests, resets, close_performed, datagrams_ok, flow_streams, woken,
    \* picoquic: state of the connection, code it was closed with, streams
    \* opened so far, datagrams queued
    cnx, close_code, streams, datagrams,
    \* application threads: the position of each sender in send(), progress of
    \* the destructor, flow requests and resets made so far
    sender, life, flow_calls, reset_calls,
    \* history: frames that arrived, by flow those not refused and those given
    \* to the message handler; runs of the closed handler; frames pushed
    arrivals, accepted, delivered, handler_runs, pushes

lockVars    == <<started, connected, closing, closed, close_requested>>
queueVars   == <<flow_requests, reset_requests, outbound>>
netVars     == <<net, requests, resets, close_performed, datagrams_ok,
                 flow_streams, woken>>
quicVars    == <<cnx, close_code, streams, datagrams>>
appVars     == <<sender, life, flow_calls, reset_calls>>
historyVars == <<arrivals, accepted, delivered, handler_runs, pushes>>
vars == <<tableVars, lockVars, queueVars, netVars, quicVars, appVars,
          historyVars>>

\* Network thread: none/gone = before connect()/after ~Client; loop = in the
\* packet loop; swapFlows..out = inside service(); latched/handled = inside
\* signal_closed(), before/after the closed handler.
NetStates == {"none", "loop", "swapFlows", "flows", "swapResets", "resets",
              "out", "latched", "handled", "gone"}
CnxStates == {"none", "handshake", "ready", "closing", "disconnected"}
Requests  == [flow : Flows, activate : BOOLEAN]
Frames    == [id : Nat, size : Sizes]  \* received
Outbound  == [item : Items, id : Nat]  \* queued by send()
Streams   == [flow : Flows, reset : BOOLEAN, frames : Seq(Outbound)]
NoStream  == 0

Init ==
    /\ TableInit
    /\ started = FALSE /\ connected = FALSE /\ closing = FALSE
    /\ closed = FALSE /\ close_requested = FALSE
    /\ flow_requests = <<>> /\ reset_requests = <<>> /\ outbound = <<>>
    /\ net = "none" /\ requests = <<>> /\ resets = <<>>
    /\ close_performed = FALSE /\ datagrams_ok = FALSE
    /\ flow_streams = [f \in Flows |-> NoStream] /\ woken = FALSE
    /\ cnx = "none" /\ close_code = "none"
    /\ streams = <<>> /\ datagrams = <<>>
    /\ sender = [s \in Senders |-> "idle"]
    /\ life = "alive" /\ flow_calls = 0 /\ reset_calls = 0
    /\ arrivals = 0
    /\ accepted = [f \in Flows |-> <<>>] /\ delivered = [f \in Flows |-> <<>>]
    /\ handler_runs = 0 /\ pushes = 0

-----------------------------------------------------------------------------
(* Application threads.  The object is used only while it is alive.        *)

\* connect() puts a fresh context in the place of the one an earlier attempt
\* left.  A connection of that one is reported to signal_closed() as the context
\* is freed, on the calling thread: no network thread has ever run.
ReplaceContext ==
    LET reported == cnx # "none" /\ ~closed /\ ~closing
    IN  /\ closing' = (closing \/ reported)
        /\ closed' = (closed \/ reported)
        /\ handler_runs' = IF reported THEN handler_runs + 1 ELSE handler_runs

\* connect() while there is no network thread: a connection and the thread are
\* created ...
Connect ==
    /\ life = "alive" /\ net = "none"
    /\ ReplaceContext
    /\ net' = "loop" /\ cnx' = "handshake"
    /\ woken' = TRUE  \* the first packet the loop sends runs service()
    /\ UNCHANGED <<tableVars, started, connected, close_requested, queueVars,
                   requests, resets, close_performed, datagrams_ok,
                   flow_streams, close_code, streams, datagrams, appVars,
                   arrivals, accepted, delivered, pushes>>

\* ... or it fails, before it has a connection or for want of the thread.
ConnectFails ==
    /\ life = "alive" /\ net = "none"
    /\ ReplaceContext
    /\ cnx' \in {"none", "handshake"}
    /\ UNCHANGED <<tableVars, started, connected, close_requested, queueVars,
                   netVars, close_code, streams, datagrams, appVars,
                   arrivals, accepted, delivered, pushes>>

\* Once the thread runs, `started` is set.
SetStarted ==
    /\ life = "alive" /\ net # "none" /\ ~started
    /\ started' = TRUE
    /\ UNCHANGED <<tableVars, connected, closing, closed, close_requested,
                   queueVars, netVars, quicVars, appVars, historyVars>>

\* send(): the check under the mutex ...
SendCheck(s) ==
    /\ life = "alive" /\ sender[s] = "idle"
    /\ started /\ ~closed /\ ~close_requested
    /\ sender' = [sender EXCEPT ![s] = "checked"]
    /\ UNCHANGED <<tableVars, lockVars, queueVars, netVars, quicVars, life,
                   flow_calls, reset_calls, historyVars>>

\* ... the push, outside it ...
SendPush(s) ==
    /\ sender[s] = "checked" /\ pushes < OutboundBound
    /\ \E i \in Items :
          outbound' = Append(outbound, [item |-> i, id |-> pushes + 1])
    /\ pushes' = pushes + 1
    /\ sender' = [sender EXCEPT ![s] = "pushed"]
    /\ UNCHANGED <<tableVars, lockVars, flow_requests, reset_requests, netVars,
                   quicVars, life, flow_calls, reset_calls, arrivals, accepted,
                   delivered, handler_runs>>

\* Mutant of SendWake: the network thread is not woken.
SendNoWake(s) ==
    /\ sender[s] = "pushed"
    /\ sender' = [sender EXCEPT ![s] = "idle"]
    /\ UNCHANGED <<tableVars, lockVars, queueVars, netVars, quicVars, life,
                   flow_calls, reset_calls, historyVars>>

\* ... and the wake-up.
SendWake(s) ==
    /\ sender[s] = "pushed"
    /\ woken' = TRUE
    /\ sender' = [sender EXCEPT ![s] = "idle"]
    /\ UNCHANGED <<tableVars, lockVars, queueVars, net, requests, resets,
                   close_performed, datagrams_ok, flow_streams, quicVars,
                   life, flow_calls, reset_calls, historyVars>>

\* wake() does nothing before the network thread exists.
Wake == woken' = (woken \/ net # "none")

\* bind_flow() (activate) and retire_flow().
RequestFlow(f, activate) ==
    /\ life = "alive" /\ flow_calls < FlowRequestBound
    /\ flow_requests' = Append(flow_requests, [flow |-> f, activate |-> activate])
    /\ flow_calls' = flow_calls + 1
    /\ Wake
    /\ UNCHANGED <<tableVars, lockVars, reset_requests, outbound, net,
                   requests, resets, close_performed, datagrams_ok,
                   flow_streams, quicVars, sender, life, reset_calls,
                   historyVars>>

\* reset_flow_stream().
ResetFlowStream(f) ==
    /\ life = "alive" /\ reset_calls < ResetBound
    /\ reset_requests' = Append(reset_requests, f)
    /\ reset_calls' = reset_calls + 1
    /\ Wake
    /\ UNCHANGED <<tableVars, lockVars, flow_requests, outbound, net,
                   requests, resets, close_performed, datagrams_ok,
                   flow_streams, quicVars, sender, life, flow_calls,
                   historyVars>>

\* close().
Close ==
    /\ life = "alive" /\ ~close_requested
    /\ close_requested' = TRUE
    /\ Wake
    /\ UNCHANGED <<tableVars, started, connected, closing, closed, queueVars,
                   net, requests, resets, close_performed, datagrams_ok,
                   flow_streams, quicVars, appVars, historyVars>>

\* ~Client joins the network thread, which leaves its callback first ...
JoinNetworkThread ==
    /\ life = "alive" /\ net \in {"none", "loop"}
    /\ \A s \in Senders : sender[s] = "idle"
    /\ net = "loop" => started
    /\ net' = "gone"
    /\ life' = "joined"
    /\ UNCHANGED <<tableVars, lockVars, queueVars, requests, resets,
                   close_performed, datagrams_ok, flow_streams, woken,
                   quicVars, sender, flow_calls, reset_calls, historyVars>>

\* Mutant of SilenceClosed: `closed` is not set before the context is freed.
SilenceNothing ==
    /\ life = "joined"
    /\ life' = "silenced"
    /\ UNCHANGED <<tableVars, lockVars, queueVars, netVars, quicVars, sender,
                   flow_calls, reset_calls, historyVars>>

\* ... sets `closed` ...
SilenceClosed ==
    /\ life = "joined"
    /\ closed' = TRUE
    /\ life' = "silenced"
    /\ UNCHANGED <<tableVars, started, connected, closing, close_requested,
                   queueVars, netVars, quicVars, sender, flow_calls, reset_calls,
                   historyVars>>

\* ... and frees the context: picoquic_free() reports a connection that was
\* not disconnected, on the destroying thread, to signal_closed().
FreeContext ==
    /\ life = "silenced"
    /\ handler_runs' = IF cnx \in {"none", "disconnected"} \/ closed \/ closing
                       THEN handler_runs ELSE handler_runs + 1
    /\ life' = "freed"
    /\ UNCHANGED <<tableVars, lockVars, queueVars, netVars, quicVars, sender,
                   flow_calls, reset_calls, arrivals, accepted, delivered, pushes>>

-----------------------------------------------------------------------------
(* service(), on the network thread.                                       *)

\* picoquic_close(): the first call decides the code.
PicoquicClose(code) ==
    /\ cnx' = IF cnx = "disconnected" THEN cnx ELSE "closing"
    /\ close_code' = IF close_code = "none" THEN code ELSE close_code

\* A requested close is performed once, and ends service() there.
ServiceStart ==
    /\ net = "loop"
    /\ woken' = FALSE
    /\ IF close_requested
       THEN /\ IF close_performed THEN UNCHANGED <<cnx, close_code>>
                                  ELSE PicoquicClose("requested")
            /\ close_performed' = TRUE
            /\ UNCHANGED net
       ELSE /\ net' = "swapFlows"
            /\ UNCHANGED <<close_performed, cnx, close_code>>
    /\ UNCHANGED <<tableVars, lockVars, queueVars, requests, resets,
                   datagrams_ok, flow_streams, streams, datagrams, appVars,
                   historyVars>>

SwapFlowRequests ==
    /\ net = "swapFlows"
    /\ requests' = flow_requests
    /\ flow_requests' = <<>>
    /\ net' = "flows"
    /\ UNCHANGED <<tableVars, lockVars, reset_requests, outbound, resets,
                   close_performed, datagrams_ok, flow_streams, woken,
                   quicVars, appVars, historyVars>>

\* One bind request: a flow that is not retired becomes active and gets what
\* was buffered for it.
ApplyBind(f) ==
    /\ Activate(f)
    /\ IF CanActivate(f)
       THEN /\ TakeBuffered(f)
            /\ delivered' = [delivered EXCEPT ![f] = @ \o unknown[f]]
       ELSE UNCHANGED <<unknown, unknown_octets, delivered>>

ApplyFlowRequest ==
    /\ net = "flows"
    /\ IF requests = <<>>
       THEN /\ net' = "swapResets"
            /\ UNCHANGED <<tableVars, requests, delivered>>
       ELSE /\ LET r == Head(requests) IN
               IF r.activate THEN ApplyBind(r.flow)
                             ELSE Retire(r.flow) /\ UNCHANGED delivered
            /\ requests' = Tail(requests)
            /\ UNCHANGED net
    /\ UNCHANGED <<lockVars, queueVars, resets, close_performed, datagrams_ok,
                   flow_streams, woken, quicVars, appVars, arrivals, accepted,
                   handler_runs, pushes>>

SwapResetRequests ==
    /\ net = "swapResets"
    /\ resets' = reset_requests
    /\ reset_requests' = <<>>
    /\ net' = "resets"
    /\ UNCHANGED <<tableVars, lockVars, flow_requests, outbound, requests,
                   close_performed, datagrams_ok, flow_streams, woken,
                   quicVars, appVars, historyVars>>

\* Mutant of ForgetStream: the flow keeps the stream that was reset.
ForgetNothing(f) == UNCHANGED flow_streams

\* flow_streams.erase(): the next send opens a fresh stream.
ForgetStream(f) == flow_streams' = [flow_streams EXCEPT ![f] = NoStream]

ApplyReset ==
    /\ net = "resets"
    /\ IF resets = <<>>
       THEN /\ net' = "out"
            /\ UNCHANGED <<resets, flow_streams, streams>>
       ELSE /\ LET f == Head(resets) IN
               IF flow_streams[f] = NoStream THEN UNCHANGED <<flow_streams, streams>>
               ELSE /\ streams' = [streams EXCEPT ![flow_streams[f]].reset = TRUE]
                    /\ ForgetStream(f)
            /\ resets' = Tail(resets)
            /\ UNCHANGED net
    /\ UNCHANGED <<tableVars, lockVars, queueVars, requests, close_performed,
                   datagrams_ok, woken, cnx, close_code, datagrams, appVars,
                   historyVars>>

\* resolve_delivery(): "Stream", "Datagram" or "Dropped".
ResolveDelivery(i) ==
    LET fits == datagrams_ok /\ i.fits IN
    CASE i.mode = "Stream"   -> "Stream"
      [] i.mode = "Datagram" -> IF fits THEN "Datagram"
                                ELSE IF Fallback = "Stream" THEN "Stream"
                                ELSE "Dropped"
      [] i.mode = "Auto"     -> IF i.media /\ fits THEN "Datagram" ELSE "Stream"

\* Mutant of StreamFor: flow 0 always uses the first stream.
StreamForFlow0(f) ==
    IF f = Flow0 /\ streams # <<>> THEN 1
    ELSE IF flow_streams[f] # NoStream THEN flow_streams[f] ELSE Len(streams) + 1

\* stream_for_flow(): the flow's stream, or picoquic's next unused one.
StreamFor(f) ==
    IF flow_streams[f] # NoStream THEN flow_streams[f] ELSE Len(streams) + 1

\* add_to_stream on the flow's stream, opening it when it is new.
SendOnStream(o) ==
    LET f == o.item.flow
        n == StreamFor(f)
    IN  /\ flow_streams' = [flow_streams EXCEPT ![f] = n]
        /\ streams' = IF n \in DOMAIN streams
                      THEN [streams EXCEPT ![n].frames = Append(@, o)]
                      ELSE Append(streams, [flow |-> f, reset |-> FALSE,
                                            frames |-> <<o>>])
        /\ UNCHANGED datagrams

\* Mutant of SendAsDatagram: the frame goes on the stream as well.
SendAsDatagramAndStream(o) ==
    LET f == o.item.flow IN
    /\ datagrams' = Append(datagrams, o)
    /\ flow_streams' = [flow_streams EXCEPT ![f] = Len(streams) + 1]
    /\ streams' = Append(streams, [flow |-> f, reset |-> FALSE,
                                   frames |-> <<o>>])

SendAsDatagram(o) ==
    /\ datagrams' = Append(datagrams, o)
    /\ UNCHANGED <<flow_streams, streams>>

\* One pop of the outbound queue.  A frame that does not encode is skipped.
\* Queueing a datagram may fail: then Auto and the Stream fallback use the
\* stream, and Drop counts a dropped datagram.
PopOutbound ==
    /\ net = "out" /\ outbound # <<>>
    /\ LET o == Head(outbound)
           r == ResolveDelivery(o.item)
           drop == UNCHANGED <<flow_streams, streams, datagrams>>
       IN \/ ~o.item.encodes /\ drop
          \/ o.item.encodes /\ r = "Stream" /\ SendOnStream(o)
          \/ o.item.encodes /\ r = "Dropped" /\ drop
          \/ o.item.encodes /\ r = "Datagram" /\ SendAsDatagram(o)
          \/ /\ o.item.encodes /\ r = "Datagram"
             /\ IF o.item.mode = "Auto" \/ Fallback = "Stream"
                THEN SendOnStream(o) ELSE drop
    /\ outbound' = Tail(outbound)
    /\ UNCHANGED <<tableVars, lockVars, flow_requests, reset_requests, net,
                   requests, resets, close_performed, datagrams_ok, woken, cnx,
                   close_code, appVars, historyVars>>

\* The queue is empty: service() returns.
ServiceReturn ==
    /\ net = "out" /\ outbound = <<>>
    /\ net' = "loop"
    /\ UNCHANGED <<tableVars, lockVars, queueVars, requests, resets,
                   close_performed, datagrams_ok, flow_streams, woken,
                   quicVars, appVars, historyVars>>

-----------------------------------------------------------------------------
(* connection_callback(), on the network thread.                           *)

\* picoquic_callback_ready: note the peer's datagram support, then signal.
OnConnected ==
    /\ net = "loop" /\ cnx = "handshake"
    /\ cnx' = "ready"
    /\ datagrams_ok' \in BOOLEAN
    /\ connected' = TRUE
    /\ UNCHANGED <<tableVars, started, closing, closed, close_requested,
                   queueVars, net, requests, resets, close_performed,
                   flow_streams, woken, close_code, streams, datagrams,
                   appVars, historyVars>>

\* Mutant of Gate: a frame of an active flow is buffered as well.
GateBuffersActive(f, frame) ==
    /\ BufferUnknown(f, frame)
    /\ delivered' = IF states[f] = "Active"
                    THEN [delivered EXCEPT ![f] = Append(@, frame)] ELSE delivered

\* gate_and_deliver(): deliver, buffer or drop, by the state of the flow.
Gate(f, frame) ==
    \/ /\ states[f] = "Active"
       /\ delivered' = [delivered EXCEPT ![f] = Append(@, frame)]
       /\ UNCHANGED <<unknown, unknown_octets>>
    \/ /\ states[f] = "Retired"
       /\ UNCHANGED <<unknown, unknown_octets, delivered>>
    \/ /\ states[f] = "Unknown"
       /\ BufferUnknown(f, frame)
       /\ UNCHANGED delivered

\* A frame arrives on a stream or in a datagram.  When an unknown flow's frame
\* finds no room, a stream closes the connection and a datagram is dropped.
OnFrame(f, size, from_stream) ==
    LET frame    == [id |-> arrivals + 1, size |-> size]
        refused  == \/ states[f] = "Retired"
                    \/ states[f] = "Unknown" /\ ~HasRoom(frame)
    IN  /\ net = "loop" /\ cnx \in {"ready", "closing"}
        /\ arrivals < InboundBound
        /\ arrivals' = arrivals + 1
        /\ Gate(f, frame)
        /\ accepted' = IF refused THEN accepted
                       ELSE [accepted EXCEPT ![f] = Append(@, frame)]
        /\ IF from_stream /\ states[f] = "Unknown" /\ ~HasRoom(frame)
           THEN PicoquicClose("UnknownFlowId")
           ELSE UNCHANGED <<cnx, close_code>>
        /\ UNCHANGED <<states, lockVars, queueVars, netVars, streams,
                       datagrams, appVars, handler_runs, pushes>>

\* A malformed frame on a stream closes the connection.
OnMalformed ==
    /\ net = "loop" /\ cnx = "ready"
    /\ PicoquicClose("FrameEncodingError")
    /\ UNCHANGED <<tableVars, lockVars, queueVars, netVars, streams, datagrams,
                   appVars, historyVars>>

\* picoquic_callback_close: signal_closed() returns when a close has been
\* signalled before, and else latches `closing` ...
OnClose ==
    /\ net = "loop" /\ cnx \in {"handshake", "ready", "closing"}
    /\ cnx' = "disconnected"
    /\ closing' = (closing \/ ~closed)
    /\ net' = IF closed \/ closing THEN net ELSE "latched"
    /\ UNCHANGED <<tableVars, started, connected, closed, close_requested,
                   queueVars, requests, resets, close_performed, datagrams_ok,
                   flow_streams, woken, close_code, streams, datagrams,
                   appVars, historyVars>>

\* ... runs the handler without the lock ...
RunClosedHandler ==
    /\ net = "latched"
    /\ handler_runs' = handler_runs + 1
    /\ net' = "handled"
    /\ UNCHANGED <<tableVars, lockVars, queueVars, requests, resets,
                   close_performed, datagrams_ok, flow_streams, woken,
                   quicVars, appVars, arrivals, accepted, delivered, pushes>>

\* ... and publishes `closed`.
PublishClosed ==
    /\ net = "handled"
    /\ closed' = TRUE
    /\ net' = "loop"
    /\ UNCHANGED <<tableVars, started, connected, closing, close_requested,
                   queueVars, requests, resets, close_performed, datagrams_ok,
                   flow_streams, woken, quicVars, appVars, historyVars>>

-----------------------------------------------------------------------------

App ==
    \/ Connect \/ ConnectFails \/ SetStarted \/ Close
    \/ \E s \in Senders : SendCheck(s) \/ SendPush(s) \/ SendWake(s)
    \/ \E f \in Flows : \/ \E b \in BOOLEAN : RequestFlow(f, b)
                        \/ ResetFlowStream(f)
    \/ JoinNetworkThread \/ SilenceClosed \/ FreeContext

InService ==
    \/ SwapFlowRequests \/ ApplyFlowRequest \/ SwapResetRequests \/ ApplyReset
    \/ PopOutbound \/ ServiceReturn

Callback ==
    \/ OnConnected \/ OnMalformed \/ OnClose \/ RunClosedHandler \/ PublishClosed
    \/ \E f \in Flows, n \in Sizes, b \in BOOLEAN : OnFrame(f, n, b)

Next == App \/ ServiceStart \/ InService \/ Callback

Spec == Init /\ [][Next]_vars

\* Calls in progress and the network thread keep running; picoquic turns a
\* wake-up into a call of service(), and reports the end of a connection it
\* was told to close.
Fairness ==
    /\ \A s \in Senders : WF_vars(SendPush(s) \/ SendWake(s))
    /\ WF_vars(SetStarted)
    /\ WF_vars(woken /\ ServiceStart)
    /\ WF_vars(InService)
    /\ WF_vars(RunClosedHandler \/ PublishClosed)
    /\ SF_vars(cnx = "closing" /\ OnClose)

-----------------------------------------------------------------------------
(* Properties.                                                             *)

TypeOK ==
    /\ states \in [Flows -> FlowStates]
    /\ unknown \in [Flows -> Seq(Frames)]
    /\ accepted \in [Flows -> Seq(Frames)] /\ delivered \in [Flows -> Seq(Frames)]
    /\ started \in BOOLEAN /\ connected \in BOOLEAN /\ closing \in BOOLEAN
    /\ closed \in BOOLEAN /\ close_requested \in BOOLEAN
    /\ close_performed \in BOOLEAN /\ datagrams_ok \in BOOLEAN
    /\ woken \in BOOLEAN
    /\ flow_requests \in Seq(Requests) /\ requests \in Seq(Requests)
    /\ reset_requests \in Seq(Flows) /\ resets \in Seq(Flows)
    /\ net \in NetStates /\ cnx \in CnxStates
    /\ flow_streams \in [Flows -> Nat]
    /\ streams \in Seq(Streams)
    /\ outbound \in Seq(Outbound) /\ datagrams \in Seq(Outbound)
    /\ sender \in [Senders -> {"idle", "checked", "pushed"}]
    /\ life \in {"alive", "joined", "silenced", "freed"}
    /\ arrivals \in Nat /\ handler_runs \in Nat /\ pushes \in Nat
    /\ flow_calls \in Nat /\ reset_calls \in Nat

\* Nothing is lost and nothing overtakes: for a flow that is not retired, what
\* the message handler got followed by what is still buffered is exactly the
\* sequence of frames that arrived and were not refused, however bind_flow()
\* falls between arrivals.
NoLossNoReorder ==
    \A f \in Flows :
        states[f] # "Retired" => delivered[f] \o unknown[f] = accepted[f]

\* Frames wait only for flows that are still unknown, so no frame is stranded
\* behind a flow that has been bound or retired.
BufferedOnlyUnknown ==
    \A f \in Flows : unknown[f] # <<>> => states[f] = "Unknown"

\* Both: at any time a flow's accepted frames are delivered in order, or wait
\* for a bind_flow() that can still come.
DeliveryExact == NoLossNoReorder /\ BufferedOnlyUnknown

\* Once retired, a flow stays retired and its frames never reach the handler,
\* not even after a later bind_flow() of the same ID.
RetiredIsFinal ==
    [][\A f \in Flows : states[f] = "Retired" =>
          states'[f] = "Retired" /\ delivered'[f] = delivered[f]]_vars

\* A QUIC stream carries the frames of one flow only, and the stream a flow is
\* bound to is its own and has not been reset.
StreamPerFlow ==
    /\ \A i \in DOMAIN streams : \A k \in DOMAIN streams[i].frames :
          streams[i].frames[k].item.flow = streams[i].flow
    /\ \A f \in Flows : flow_streams[f] # NoStream =>
          /\ flow_streams[f] \in DOMAIN streams
          /\ streams[flow_streams[f]].flow = f
          /\ ~streams[flow_streams[f]].reset

\* Nothing is written to a stream after reset_flow_stream() cancelled it.
ResetIsFinal ==
    [][\A i \in DOMAIN streams :
          streams[i].reset => streams'[i] = streams[i]]_vars

\* The frames of a queue, and that they are in the order of the pushes.
Ids(q)    == {q[k].id : k \in DOMAIN q}
Rising(q) == \A k, l \in DOMAIN q : k < l => q[k].id < q[l].id

\* A frame goes out at most once, and the frames of a stream, like the datagrams,
\* in the order in which send() queued them, whichever delivery mode each of them
\* resolves to.
SentOnceInOrder ==
    /\ Rising(datagrams) /\ Ids(datagrams) \cap Ids(outbound) = {}
    /\ \A i \in DOMAIN streams :
          /\ Rising(streams[i].frames)
          /\ Ids(streams[i].frames) \cap (Ids(outbound) \cup Ids(datagrams)) = {}
          /\ \A j \in DOMAIN streams \ {i} :
                Ids(streams[i].frames) \cap Ids(streams[j].frames) = {}

\* The closed handler runs once for a client whose connection dies, also when
\* connect() was tried again, and never from the destructor: its runs are exactly
\* what the latch says.
HandlerExact ==
    handler_runs = IF closing /\ net # "latched" THEN 1 ELSE 0

\* wait_closed() returns only after the closed handler has run.
HandlerBeforeClosed == closed /\ life = "alive" => handler_runs = 1

\* Both: the handler of a connection that dies runs once, before anyone who
\* waits for the end can see it, and the destructor never runs it.
HandlerOnceAndFirst == HandlerExact /\ HandlerBeforeClosed

\* A frame send() accepted leaves the queue, and a bind or retire request is
\* picked up, unless a close comes first.
QueueDrains ==
    LET over == close_requested \/ life # "alive"
    IN  /\ outbound # <<>> ~> outbound = <<>> \/ over
        /\ net # "none" /\ flow_requests # <<>> ~> flow_requests = <<>> \/ over

\* close() ends in `closed`, so wait_closed() returns.
CloseCompletes ==
    close_requested /\ net # "none" ~> closed \/ life # "alive"

\* Both: whatever an application thread hands over, frames, requests or a close,
\* the network thread takes.
HandoversComplete == QueueDrains /\ CloseCompletes
=============================================================================
