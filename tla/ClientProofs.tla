----------------------------- MODULE ClientProofs -----------------------------
(***************************************************************************)
(* Proofs about Client and its use by Bindings, for any flows, limits,     *)
(* senders and items.  Each group of facts has its own inductive step on   *)
(* top of the types: what the handler gets (DeliveryExact), what waits in  *)
(* the flow table (BufferInv), when the closed handler runs (HandlerInv),  *)
(* and what is sent: which stream a frame is written to (StreamPerFlow),   *)
(* that nothing follows a reset, that frames leave once and in order.      *)
(* Last, the Java object uses the client as it may be used, deletes        *)
(* nothing that is used again, and passes everything on.                   *)
(***************************************************************************)
EXTENDS Bindings, SequenceTheorems, FiniteSetTheorems, TLAPS

\* The provers to try, with time enough for the larger steps.
USE ZenonT(60), SMTT(60)

\* How `closing`, `closed`, the network thread and the destructor go together.
HandlerInv ==
    /\ HandlerExact
    /\ net \in {"latched", "handled"} => closing
    /\ closed /\ life \in {"alive", "joined"} => closing /\ net # "latched"
    /\ life \in {"silenced", "freed"} => closed
    /\ life = "alive" <=> net # "gone"

\* Appending commutes with concatenation on the left.
LEMMA AppendConcat ==
    ASSUME NEW d \in Seq(Frames), NEW u \in Seq(Frames), NEW x \in Frames
    PROVE  Append(d \o u, x) = d \o Append(u, x)
  BY SMTT(60)

\* Nothing is added by an empty sequence.
LEMMA ConcatNothing ==
    ASSUME NEW d \in Seq(Frames) PROVE d \o <<>> = d
  BY SMTT(60)

\* Updating one flow's frames keeps the type of the whole function.
LEMMA UpdateFrames ==
    ASSUME NEW F \in [Flows -> Seq(Frames)], NEW f \in Flows, NEW v \in Seq(Frames)
    PROVE  [F EXCEPT ![f] = v] \in [Flows -> Seq(Frames)]
  OBVIOUS

\* Updating one stream keeps the type of the sequence of streams.
LEMMA UpdateStream ==
    ASSUME NEW ss \in Seq(Streams), NEW n \in DOMAIN ss, NEW v \in Streams
    PROVE  [ss EXCEPT ![n] = v] \in Seq(Streams)
  BY SMTT(60)

\* A stream with one more frame is a stream.
LEMMA AppendFrame ==
    ASSUME NEW s \in Streams, NEW o \in Outbound
    PROVE  [s EXCEPT !.frames = Append(@, o)] \in Streams
  BY SMTT(60) DEF Streams

\* Resetting stream n changes neither its frames nor any other stream.
LEMMA ResetStream ==
    ASSUME NEW ss \in Seq(Streams), NEW n \in DOMAIN ss,
           NEW tt, tt = [ss EXCEPT ![n].reset = TRUE]
    PROVE  /\ DOMAIN tt = DOMAIN ss
           /\ tt[n].frames = ss[n].frames /\ tt[n].flow = ss[n].flow
           /\ \A i \in DOMAIN ss : i # n => tt[i] = ss[i]
<1>1. ss[n] \in Streams /\ tt[n] = [ss[n] EXCEPT !.reset = TRUE]
  BY SMTT(60)
<1>2. tt[n].frames = ss[n].frames /\ tt[n].flow = ss[n].flow
  BY <1>1 DEF Streams
<1>3. QED
  BY <1>2

\* TypeOK in four parts, each with a step of its own.
TableTypes ==
    /\ states \in [Flows -> FlowStates]
    /\ unknown \in [Flows -> Seq(Frames)]
    /\ accepted \in [Flows -> Seq(Frames)] /\ delivered \in [Flows -> Seq(Frames)]
    /\ arrivals \in Nat

RequestTypes ==
    /\ flow_requests \in Seq(Requests) /\ requests \in Seq(Requests)
    /\ reset_requests \in Seq(Flows) /\ resets \in Seq(Flows)
    /\ flow_calls \in Nat /\ reset_calls \in Nat

StreamTypes ==
    /\ flow_streams \in [Flows -> Nat] /\ streams \in Seq(Streams)
    /\ outbound \in Seq(Outbound) /\ datagrams \in Seq(Outbound)
    /\ pushes \in Nat

ControlTypes ==
    /\ started \in BOOLEAN /\ connected \in BOOLEAN /\ closing \in BOOLEAN
    /\ closed \in BOOLEAN /\ close_requested \in BOOLEAN
    /\ close_performed \in BOOLEAN /\ datagrams_ok \in BOOLEAN
    /\ woken \in BOOLEAN
    /\ net \in NetStates /\ cnx \in CnxStates
    /\ sender \in [Senders -> {"idle", "checked", "pushed"}]
    /\ life \in {"alive", "joined", "silenced", "freed"}
    /\ handler_runs \in Nat

\* The flow table and what was received.
LEMMA TableStep == TableTypes /\ RequestTypes /\ [Next]_vars => TableTypes'
<1> SUFFICES ASSUME TableTypes, RequestTypes, [Next]_vars PROVE TableTypes'
  OBVIOUS
<1> USE DEF TableTypes, FlowStates, tableVars, historyVars
<1>1. CASE ApplyFlowRequest
  <2>1. CASE requests = <<>>
    BY <1>1, <2>1 DEF ApplyFlowRequest
  <2>2. CASE requests # <<>>
    <3> DEFINE r == Head(requests)
    <3>1. r \in Requests
      BY <2>2, SMTT(60) DEF RequestTypes
    <3>1a. r.flow \in Flows
      BY <3>1 DEF Requests
    <3>2. \/ UNCHANGED <<states, unknown, delivered>>
          \/ /\ unknown' = [unknown EXCEPT ![r.flow] = <<>>]
             /\ states' = [states EXCEPT ![r.flow] = "Active"]
             /\ delivered' = [delivered EXCEPT ![r.flow] = @ \o unknown[r.flow]]
          \/ /\ unknown' = [unknown EXCEPT ![r.flow] = <<>>]
             /\ states' = [states EXCEPT ![r.flow] = "Retired"]
             /\ UNCHANGED delivered
      BY <1>1, <2>2 DEF ApplyFlowRequest, ApplyBind, Activate, CanActivate,
                        TakeBuffered, Retire
    <3>3. /\ states' \in [Flows -> FlowStates]
          /\ unknown' \in [Flows -> Seq(Frames)]
          /\ delivered' \in [Flows -> Seq(Frames)]
      <4>1. /\ states \in [Flows -> FlowStates] /\ unknown \in [Flows -> Seq(Frames)]
            /\ delivered \in [Flows -> Seq(Frames)]
        OBVIOUS
      <4> HIDE DEF r, TableTypes
      <4>2. /\ <<>> \in Seq(Frames)
            /\ delivered[r.flow] \o unknown[r.flow] \in Seq(Frames)
        BY <3>1a, <4>1, SMTT(60)
      <4>3. /\ [unknown EXCEPT ![r.flow] = <<>>] \in [Flows -> Seq(Frames)]
            /\ [delivered EXCEPT ![r.flow] = @ \o unknown[r.flow]]
                  \in [Flows -> Seq(Frames)]
        BY <3>1a, <4>1, <4>2, UpdateFrames
      <4>4. /\ [states EXCEPT ![r.flow] = "Active"] \in [Flows -> FlowStates]
            /\ [states EXCEPT ![r.flow] = "Retired"] \in [Flows -> FlowStates]
        BY <3>1a, <4>1
      <4>5. QED
        BY <3>2, <4>1, <4>3, <4>4
    <3>4. QED
      BY <1>1, <3>3 DEF ApplyFlowRequest
  <2>3. QED
    BY <2>1, <2>2
<1>2. ASSUME NEW f \in Flows, NEW n \in Sizes, NEW b \in BOOLEAN,
             OnFrame(f, n, b) PROVE TableTypes'
  <2> DEFINE frame == [id |-> arrivals + 1, size |-> n]
  <2>1. frame \in Frames /\ arrivals' \in Nat
    BY <1>2, SMTT(60) DEF OnFrame, Frames
  <2>3. /\ delivered' = delivered
           \/ delivered' = [delivered EXCEPT ![f] = Append(@, frame)]
        /\ accepted' = accepted
           \/ accepted' = [accepted EXCEPT ![f] = Append(@, frame)]
        /\ unknown' = unknown \/ unknown' = [unknown EXCEPT ![f] = Append(@, frame)]
    BY <1>2 DEF OnFrame, Gate, BufferUnknown
  <2> HIDE DEF frame
  <2>4. /\ delivered' \in [Flows -> Seq(Frames)]
        /\ accepted' \in [Flows -> Seq(Frames)]
        /\ unknown' \in [Flows -> Seq(Frames)]
    <3>1. /\ delivered \in [Flows -> Seq(Frames)]
          /\ accepted \in [Flows -> Seq(Frames)]
          /\ unknown \in [Flows -> Seq(Frames)]
      OBVIOUS
    <3> HIDE DEF TableTypes
    <3>2. /\ Append(delivered[f], frame) \in Seq(Frames)
          /\ Append(accepted[f], frame) \in Seq(Frames)
          /\ Append(unknown[f], frame) \in Seq(Frames)
      BY <2>1, <3>1, SMTT(60)
    <3>3. /\ [delivered EXCEPT ![f] = Append(@, frame)] \in [Flows -> Seq(Frames)]
          /\ [accepted EXCEPT ![f] = Append(@, frame)] \in [Flows -> Seq(Frames)]
          /\ [unknown EXCEPT ![f] = Append(@, frame)] \in [Flows -> Seq(Frames)]
      BY <3>1, <3>2, UpdateFrames
    <3>4. QED
      BY <2>3, <3>1, <3>3
  <2>5. QED
    BY <1>2, <2>1, <2>4 DEF OnFrame
<1>3. CASE \/ Connect \/ ConnectFails
           \/ SetStarted
           \/ Close
           \/ \E s \in Senders : SendCheck(s)
           \/ \E s \in Senders : SendPush(s)
  BY <1>3 DEF Connect, ConnectFails, SetStarted, Close, SendCheck, SendPush
<1>4. CASE \/ \E s \in Senders : SendWake(s)
           \/ \E f \in Flows, b \in BOOLEAN : RequestFlow(f, b)
           \/ \E f \in Flows : ResetFlowStream(f)
           \/ JoinNetworkThread
           \/ SilenceClosed
  BY <1>4 DEF SendWake, RequestFlow, ResetFlowStream, JoinNetworkThread,
    SilenceClosed
<1>5. CASE \/ FreeContext
           \/ ServiceStart
           \/ SwapFlowRequests
           \/ SwapResetRequests
           \/ ApplyReset
  BY <1>5 DEF FreeContext, ServiceStart, SwapFlowRequests,
    SwapResetRequests, ApplyReset
<1>6. CASE \/ PopOutbound
           \/ ServiceReturn
           \/ OnConnected
           \/ OnMalformed
           \/ OnClose
  BY <1>6 DEF PopOutbound, ServiceReturn, OnConnected, OnMalformed,
    OnClose
<1>7. CASE \/ RunClosedHandler
           \/ PublishClosed
           \/ UNCHANGED vars
  BY <1>7 DEF RunClosedHandler, PublishClosed, vars
<1>8. QED
  BY <1>1, <1>2, <1>3, <1>4, <1>5, <1>6, <1>7 DEF Next, App, InService,
    Callback

\* The requests of the application threads.
LEMMA RequestStep == RequestTypes /\ [Next]_vars => RequestTypes'
<1> SUFFICES ASSUME RequestTypes, [Next]_vars PROVE RequestTypes'
  OBVIOUS
<1> USE DEF RequestTypes, queueVars, netVars, appVars
<1>1. CASE \E f \in Flows, b \in BOOLEAN : RequestFlow(f, b)
  BY <1>1, SMTT(60) DEF RequestFlow, Requests
<1>2. CASE \E f \in Flows : ResetFlowStream(f)
  BY <1>2, SMTT(60) DEF ResetFlowStream
<1>3. CASE SwapFlowRequests
  BY <1>3, SMTT(60) DEF SwapFlowRequests
<1>4. CASE SwapResetRequests
  BY <1>4, SMTT(60) DEF SwapResetRequests
<1>5. CASE ApplyFlowRequest
  <2>1. requests' = requests \/ (requests # <<>> /\ requests' = Tail(requests))
    BY <1>5 DEF ApplyFlowRequest
  <2>2. requests' \in Seq(Requests)
    <3>1. requests \in Seq(Requests)
      OBVIOUS
    <3> HIDE DEF RequestTypes
    <3>2. requests # <<>> => Tail(requests) \in Seq(Requests)
      BY <3>1, SMTT(60)
    <3>3. QED
      BY <2>1, <3>1, <3>2
  <2>3. QED
    BY <1>5, <2>2 DEF ApplyFlowRequest
<1>6. CASE ApplyReset
  <2>1. resets' = resets \/ (resets # <<>> /\ resets' = Tail(resets))
    BY <1>6 DEF ApplyReset
  <2>2. resets' \in Seq(Flows)
    <3>1. resets \in Seq(Flows)
      OBVIOUS
    <3> HIDE DEF RequestTypes
    <3>2. resets # <<>> => Tail(resets) \in Seq(Flows)
      BY <3>1, SMTT(60)
    <3>3. QED
      BY <2>1, <3>1, <3>2
  <2>3. QED
    BY <1>6, <2>2 DEF ApplyReset
<1>7. CASE \/ Connect \/ ConnectFails
           \/ SetStarted
           \/ Close
           \/ \E s \in Senders : SendCheck(s)
           \/ \E s \in Senders : SendPush(s)
  BY <1>7 DEF Connect, ConnectFails, SetStarted, Close, SendCheck, SendPush
<1>8. CASE \/ \E s \in Senders : SendWake(s)
           \/ JoinNetworkThread
           \/ SilenceClosed
           \/ FreeContext
           \/ ServiceStart
  BY <1>8 DEF SendWake, JoinNetworkThread, SilenceClosed, FreeContext,
    ServiceStart
<1>9. CASE \/ PopOutbound
           \/ ServiceReturn
           \/ OnConnected
           \/ \E f \in Flows, n \in Sizes, b \in BOOLEAN : OnFrame(f, n, b)
           \/ OnMalformed
  BY <1>9 DEF PopOutbound, ServiceReturn, OnConnected, OnFrame,
    OnMalformed
<1>10. CASE \/ OnClose
           \/ RunClosedHandler
           \/ PublishClosed
           \/ UNCHANGED vars
  BY <1>10 DEF OnClose, RunClosedHandler, PublishClosed, vars
<1>11. QED
  BY <1>1, <1>2, <1>3, <1>4, <1>5, <1>6, <1>7, <1>8, <1>9, <1>10 DEF Next,
    App, InService, Callback

\* The outbound queue, the streams and the datagrams.
LEMMA SendStep == StreamTypes /\ RequestTypes /\ [Next]_vars => StreamTypes'
<1> SUFFICES ASSUME StreamTypes, RequestTypes, [Next]_vars PROVE StreamTypes'
  OBVIOUS
<1> USE DEF StreamTypes, queueVars, netVars, quicVars, historyVars
<1>1. CASE \E s \in Senders : SendPush(s)
  BY <1>1, SMTT(60) DEF SendPush, Outbound
<1>2. CASE ApplyReset
  <2>1. CASE resets = <<>>
    BY <1>2, <2>1 DEF ApplyReset
  <2>2. CASE resets # <<>>
    <3> DEFINE f == Head(resets)
               n == flow_streams[f]
    <3>1. f \in Flows
      BY <2>2, SMTT(60) DEF RequestTypes
    <3>2. \/ UNCHANGED <<flow_streams, streams>>
          \/ /\ streams' = [streams EXCEPT ![n].reset = TRUE]
             /\ flow_streams' = [flow_streams EXCEPT ![f] = NoStream]
      BY <1>2, <2>2 DEF ApplyReset, ForgetStream
    <3>3. flow_streams' \in [Flows -> Nat]
      <4> HIDE DEF f, n
      <4>1. flow_streams \in [Flows -> Nat]
        OBVIOUS
      <4> HIDE DEF StreamTypes
      <4>2. [flow_streams EXCEPT ![f] = NoStream] \in [Flows -> Nat]
        BY <3>1, <4>1 DEF NoStream
      <4>3. QED
        BY <3>2, <4>1, <4>2
    <3>4. streams' \in Seq(Streams)
      <4> HIDE DEF f, n
      <4>1. CASE n \in DOMAIN streams
        <5>1. streams[n] \in Streams
          BY <4>1, SMTT(60)
        <5>2. [streams[n] EXCEPT !.reset = TRUE] \in Streams
          BY <5>1 DEF Streams
        <5>3. streams \in Seq(Streams)
          OBVIOUS
        <5> HIDE DEF StreamTypes
        <5>4. [streams EXCEPT ![n] = [streams[n] EXCEPT !.reset = TRUE]]
                \in Seq(Streams)
          BY <4>1, <5>2, <5>3, UpdateStream
        <5>5. QED
          BY <3>2, <5>3, <5>4
      <4>2. CASE n \notin DOMAIN streams
        BY <3>2, <4>2, SMTT(60)
      <4>3. QED
        BY <4>1, <4>2
    <3>5. QED
      BY <1>2, <3>3, <3>4 DEF ApplyReset
  <2>3. QED
    BY <2>1, <2>2
<1>3. CASE PopOutbound
  <2> DEFINE o == Head(outbound)
  <2>1. o \in Outbound /\ outbound' \in Seq(Outbound)
    BY <1>3, SMTT(60) DEF PopOutbound
  <2>2. o.item.flow \in Flows
    BY <2>1, ItemAssumption DEF Outbound
  <2>3. /\ flow_streams' \in [Flows -> Nat] /\ streams' \in Seq(Streams)
        /\ datagrams' \in Seq(Outbound)
    <3>1. CASE UNCHANGED <<flow_streams, streams, datagrams>>
      BY <3>1
    <3>2. CASE SendAsDatagram(o)
      BY <2>1, <3>2, SMTT(60) DEF SendAsDatagram
    <3>3. CASE SendOnStream(o)
      <4> DEFINE f == o.item.flow
                 n == StreamFor(f)
      <4>1. n \in Nat
        BY <2>2, SMTT(60) DEF StreamFor
      <4>2. /\ flow_streams' = [flow_streams EXCEPT ![f] = n]
            /\ UNCHANGED datagrams
        BY <3>3 DEF SendOnStream
      <4>3. streams' \in Seq(Streams)
        <5>1. CASE n \in DOMAIN streams
          <6>1. streams[n] \in Streams
            BY <5>1, SMTT(60)
          <6>2. [streams[n] EXCEPT !.frames = Append(@, o)] \in Streams
            BY <2>1, <6>1, AppendFrame
          <6>3. streams' = [streams EXCEPT ![n].frames = Append(@, o)]
            BY <3>3, <5>1 DEF SendOnStream
          <6> HIDE DEF n, o
          <6>4. QED
            BY <5>1, <6>2, <6>3, SMTT(60)
        <5>2. CASE n \notin DOMAIN streams
          <6> DEFINE fresh == [flow |-> f, reset |-> FALSE, frames |-> <<o>>]
          <6>1. fresh \in Streams
            BY <2>1, <2>2, SMTT(60) DEF Streams
          <6>2. streams' = Append(streams, fresh)
            BY <3>3, <5>2 DEF SendOnStream
          <6> HIDE DEF fresh
          <6>3. QED
            BY <6>1, <6>2, SMTT(60)
        <5>3. QED
          BY <5>1, <5>2
      <4> HIDE DEF n, f
      <4>4. QED
        BY <4>1, <4>2, <4>3
    <3>4. QED
      BY <1>3, <3>1, <3>2, <3>3 DEF PopOutbound
  <2>4. QED
    BY <1>3, <2>1, <2>3 DEF PopOutbound
<1>4. CASE \/ Connect \/ ConnectFails
           \/ SetStarted
           \/ Close
           \/ \E s \in Senders : SendCheck(s)
           \/ \E s \in Senders : SendWake(s)
  BY <1>4 DEF Connect, ConnectFails, SetStarted, Close, SendCheck, SendWake
<1>5. CASE \/ \E f \in Flows, b \in BOOLEAN : RequestFlow(f, b)
           \/ \E f \in Flows : ResetFlowStream(f)
           \/ JoinNetworkThread
           \/ SilenceClosed
           \/ FreeContext
  BY <1>5 DEF RequestFlow, ResetFlowStream, JoinNetworkThread,
    SilenceClosed, FreeContext
<1>6. CASE \/ ServiceStart
           \/ SwapFlowRequests
           \/ ApplyFlowRequest
           \/ SwapResetRequests
           \/ ServiceReturn
  BY <1>6 DEF ServiceStart, SwapFlowRequests, ApplyFlowRequest,
    SwapResetRequests, ServiceReturn
<1>7. CASE \/ OnConnected
           \/ \E f \in Flows, n \in Sizes, b \in BOOLEAN : OnFrame(f, n, b)
           \/ OnMalformed
           \/ OnClose
           \/ RunClosedHandler
  BY <1>7 DEF OnConnected, OnFrame, OnMalformed, OnClose, RunClosedHandler
<1>8. CASE \/ PublishClosed
           \/ UNCHANGED vars
  BY <1>8 DEF PublishClosed, vars
<1>9. QED
  BY <1>1, <1>2, <1>3, <1>4, <1>5, <1>6, <1>7, <1>8 DEF Next, App,
    InService, Callback

\* The flags and the positions of the threads.
LEMMA ControlStep == ControlTypes /\ [Next]_vars => ControlTypes'
<1> SUFFICES ASSUME ControlTypes, [Next]_vars PROVE ControlTypes'
  OBVIOUS
<1> USE DEF ControlTypes, NetStates, CnxStates, lockVars, netVars, quicVars,
            appVars, historyVars
<1>1. CASE ServiceStart
  <2>1. net' \in NetStates /\ cnx' \in CnxStates
    BY <1>1 DEF ServiceStart, PicoquicClose
  <2>2. close_performed' \in BOOLEAN /\ woken' \in BOOLEAN
    BY <1>1 DEF ServiceStart
  <2>3. QED
    BY <1>1, <2>1, <2>2 DEF ServiceStart
<1>2. CASE OnMalformed
  BY <1>2 DEF OnMalformed, PicoquicClose
<1>3. CASE \E f \in Flows, n \in Sizes, b \in BOOLEAN : OnFrame(f, n, b)
  BY <1>3, SMTT(60) DEF OnFrame, PicoquicClose
<1>4. CASE Close
  BY <1>4, SMTT(60) DEF Close, Wake
<1>5. CASE \E f \in Flows, b \in BOOLEAN : RequestFlow(f, b)
  BY <1>5, SMTT(60) DEF RequestFlow, Wake
<1>6. CASE \E f \in Flows : ResetFlowStream(f)
  BY <1>6, SMTT(60) DEF ResetFlowStream, Wake
<1>7. CASE Connect \/ ConnectFails
  <2>1. closing' \in BOOLEAN /\ closed' \in BOOLEAN
    BY <1>7 DEF Connect, ConnectFails, ReplaceContext
  <2>1a. handler_runs' \in {handler_runs, handler_runs + 1}
    BY <1>7 DEF Connect, ConnectFails, ReplaceContext
  <2>1b. handler_runs' \in Nat
    BY <2>1a, SMTT(60)
  <2>2. cnx' \in CnxStates /\ net' \in NetStates /\ woken' \in BOOLEAN
    BY <1>7 DEF Connect, ConnectFails
  <2> QED
    BY <1>7, <2>1, <2>1b, <2>2 DEF Connect, ConnectFails
<1>8. CASE SetStarted
  BY <1>8, SMTT(60) DEF SetStarted
<1>9. CASE \E s \in Senders : SendCheck(s)
  BY <1>9, SMTT(60) DEF SendCheck
<1>10. CASE \E s \in Senders : SendPush(s)
  BY <1>10, SMTT(60) DEF SendPush
<1>11. CASE \E s \in Senders : SendWake(s)
  BY <1>11, SMTT(60) DEF SendWake
<1>12. CASE JoinNetworkThread
  BY <1>12 DEF JoinNetworkThread
<1>13. CASE SilenceClosed
  BY <1>13, SMTT(60) DEF SilenceClosed
<1>14. CASE FreeContext
  BY <1>14, SMTT(60) DEF FreeContext
<1>15. CASE SwapFlowRequests
  BY <1>15, SMTT(60) DEF SwapFlowRequests
<1>16. CASE ApplyFlowRequest
  BY <1>16, SMTT(60) DEF ApplyFlowRequest
<1>17. CASE SwapResetRequests
  BY <1>17, SMTT(60) DEF SwapResetRequests
<1>18. CASE ApplyReset
  BY <1>18, SMTT(60) DEF ApplyReset
<1>19. CASE PopOutbound
  BY <1>19, SMTT(60) DEF PopOutbound
<1>20. CASE ServiceReturn
  BY <1>20, SMTT(60) DEF ServiceReturn
<1>21. CASE OnConnected
  BY <1>21 DEF OnConnected
<1>22. CASE OnClose
  BY <1>22 DEF OnClose
<1>23. CASE RunClosedHandler
  BY <1>23, SMTT(60) DEF RunClosedHandler
<1>24. CASE PublishClosed
  BY <1>24 DEF PublishClosed
<1>25. CASE UNCHANGED vars
  BY <1>25, SMTT(60) DEF vars
<1>26. QED
  BY <1>1, <1>2, <1>3, <1>4, <1>5, <1>6, <1>7, <1>8, <1>9, <1>10, <1>11,
    <1>12, <1>13, <1>14, <1>15, <1>16, <1>17, <1>18, <1>19, <1>20, <1>21,
    <1>22, <1>23, <1>24, <1>25 DEF Next, App, InService, Callback

\* The four parts are all of TypeOK.
LEMMA TypeParts ==
    TypeOK <=> TableTypes /\ RequestTypes /\ StreamTypes /\ ControlTypes
  BY DEF TypeOK, TableTypes, RequestTypes, StreamTypes, ControlTypes

\* Type correctness of every step.
LEMMA TypeStep == TypeOK /\ [Next]_vars => TypeOK'
<1>1. (TypeOK <=> TableTypes /\ RequestTypes /\ StreamTypes /\ ControlTypes)'
  BY DEF TypeOK, TableTypes, RequestTypes, StreamTypes, ControlTypes
<1>2. QED
  BY <1>1, TypeParts, TableStep, RequestStep, SendStep, ControlStep

\* Closing protocol: every step keeps the latch and the handler count in step.
LEMMA HandlerStep == ControlTypes /\ HandlerInv /\ [Next]_vars => HandlerInv'
<1> SUFFICES ASSUME ControlTypes, HandlerInv, [Next]_vars PROVE HandlerInv'
  OBVIOUS
<1> USE DEF ControlTypes, HandlerInv, HandlerExact, NetStates, lockVars, netVars,
            appVars, historyVars
<1>1. CASE Connect \/ ConnectFails
  <2>1. /\ life = "alive" /\ life' = life
        /\ net' \in {"none", "loop"}
        /\ net = "none"
    BY <1>1 DEF Connect, ConnectFails
  <2>2. CASE UNCHANGED <<closing, closed, handler_runs>>
    BY <2>1, <2>2
  <2>3. CASE ~closing /\ ~closed /\ closing' /\ closed' /\ handler_runs' = handler_runs + 1
    <3>1. handler_runs' = 1
      BY <2>3, SMTT(60)
    <3> QED
      BY <2>1, <2>3, <3>1
  <2> QED
    BY <1>1, <2>2, <2>3 DEF Connect, ConnectFails, ReplaceContext
<1>2. CASE SetStarted
  BY <1>2 DEF SetStarted
<1>3. CASE Close
  BY <1>3 DEF Close, Wake
<1>4. CASE JoinNetworkThread
  BY <1>4 DEF JoinNetworkThread
<1>5. CASE SilenceClosed
  BY <1>5 DEF SilenceClosed
<1>6. CASE FreeContext
  BY <1>6 DEF FreeContext
<1>7. CASE ServiceStart
  BY <1>7 DEF ServiceStart, PicoquicClose
<1>8. CASE SwapFlowRequests
  BY <1>8 DEF SwapFlowRequests
<1>9. CASE ApplyFlowRequest
  BY <1>9 DEF ApplyFlowRequest
<1>10. CASE SwapResetRequests
  BY <1>10 DEF SwapResetRequests
<1>11. CASE ApplyReset
  BY <1>11 DEF ApplyReset
<1>12. CASE PopOutbound
  BY <1>12 DEF PopOutbound
<1>13. CASE ServiceReturn
  BY <1>13 DEF ServiceReturn
<1>14. CASE OnConnected
  BY <1>14 DEF OnConnected
<1>15. CASE OnMalformed
  BY <1>15 DEF OnMalformed, PicoquicClose
<1>16. CASE OnClose
  BY <1>16 DEF OnClose
<1>17. CASE RunClosedHandler
  BY <1>17, SMTT(60) DEF RunClosedHandler
<1>18. CASE PublishClosed
  BY <1>18 DEF PublishClosed
<1>19. ASSUME NEW s \in Senders, SendCheck(s) PROVE HandlerInv'
  BY <1>19 DEF SendCheck
<1>20. ASSUME NEW s \in Senders, SendPush(s) PROVE HandlerInv'
  BY <1>20 DEF SendPush
<1>21. ASSUME NEW s \in Senders, SendWake(s) PROVE HandlerInv'
  BY <1>21 DEF SendWake
<1>22. ASSUME NEW f \in Flows, NEW b \in BOOLEAN, RequestFlow(f, b) PROVE HandlerInv'
  BY <1>22 DEF RequestFlow, Wake
<1>23. ASSUME NEW f \in Flows, ResetFlowStream(f) PROVE HandlerInv'
  BY <1>23 DEF ResetFlowStream, Wake
<1>24. ASSUME NEW f \in Flows, NEW n \in Sizes, NEW b \in BOOLEAN,
             OnFrame(f, n, b) PROVE HandlerInv'
  BY <1>24 DEF OnFrame, Gate, BufferUnknown, PicoquicClose
<1>25. CASE UNCHANGED vars
  BY <1>25 DEF vars
<1>26. QED
  BY <1>1, <1>2, <1>3, <1>4, <1>5, <1>6, <1>7, <1>8, <1>9, <1>10, <1>11,
     <1>12, <1>13, <1>14, <1>15, <1>16, <1>17, <1>18, <1>19, <1>20,
     <1>21, <1>22, <1>23, <1>24, <1>25
  DEF Next, App, InService, Callback

\* Receiving: every step keeps delivered, buffered and accepted frames in step.
LEMMA ReceiveStep ==
    TableTypes /\ RequestTypes /\ DeliveryExact /\ [Next]_vars => DeliveryExact'
<1> SUFFICES ASSUME TableTypes, RequestTypes, DeliveryExact, [Next]_vars PROVE DeliveryExact'
  OBVIOUS
<1> USE DEF TableTypes, RequestTypes, DeliveryExact, NoLossNoReorder, BufferedOnlyUnknown,
            tableVars, historyVars
<1>1. CASE ApplyFlowRequest
  <2>1. CASE requests = <<>>
    BY <1>1, <2>1 DEF ApplyFlowRequest
  <2>2. CASE requests # <<>>
    <3> DEFINE r == Head(requests)
    <3>1. r \in Requests
      BY <2>2, SMTT(60)
    <3>2. CASE r.activate /\ states[r.flow] # "Retired"
      <4>1. /\ states' = [states EXCEPT ![r.flow] = "Active"]
            /\ unknown' = [unknown EXCEPT ![r.flow] = <<>>]
            /\ delivered' = [delivered EXCEPT ![r.flow] = @ \o unknown[r.flow]]
            /\ accepted' = accepted
        BY <1>1, <2>2, <3>2
        DEF ApplyFlowRequest, ApplyBind, Activate, CanActivate, TakeBuffered
      <4>2. r.flow \in Flows
        BY <3>1 DEF Requests
      <4>3. delivered'[r.flow] \in Seq(Frames) /\ unknown'[r.flow] = <<>>
        BY <4>1, <4>2, SMTT(60)
      <4>4. delivered'[r.flow] \o unknown'[r.flow] = delivered'[r.flow]
        BY <4>3, ConcatNothing
      <4>5. delivered'[r.flow] \o unknown'[r.flow] = accepted'[r.flow]
        BY <3>2, <4>1, <4>2, <4>4
      <4>6. QED
        BY <4>1, <4>2, <4>5
    <3>3. CASE r.activate /\ states[r.flow] = "Retired"
      BY <1>1, <2>2, <3>3 DEF ApplyFlowRequest, ApplyBind, Activate, CanActivate
    <3>4. CASE ~r.activate
      <4>1. /\ states' = [states EXCEPT ![r.flow] = "Retired"]
            /\ unknown' = [unknown EXCEPT ![r.flow] = <<>>]
            /\ UNCHANGED <<delivered, accepted>>
        BY <1>1, <2>2, <3>4 DEF ApplyFlowRequest, Retire, TakeBuffered
      <4>2. r.flow \in Flows
        BY <3>1 DEF Requests
      <4>3. QED
        BY <4>1, <4>2
    <3>5. QED
      BY <3>2, <3>3, <3>4
  <2>3. QED
    BY <2>1, <2>2
<1>2. ASSUME NEW f \in Flows, NEW n \in Sizes, NEW b \in BOOLEAN,
             OnFrame(f, n, b) PROVE DeliveryExact'
  <2> DEFINE frame == [id |-> arrivals + 1, size |-> n]
  <2>1. frame \in Frames
    BY SMTT(60) DEF Frames
  <2>2. UNCHANGED states
    BY <1>2 DEF OnFrame
  <2>3. CASE states[f] = "Active"
    <3>1. /\ UNCHANGED unknown
          /\ delivered' = [delivered EXCEPT ![f] = Append(@, frame)]
          /\ accepted' = [accepted EXCEPT ![f] = Append(@, frame)]
      BY <1>2, <2>3 DEF OnFrame, Gate
    <3>2. unknown[f] = <<>>
      BY <2>3
    <3>3. delivered[f] \in Seq(Frames) /\ delivered[f] \o unknown[f] = accepted[f]
      BY <2>3
    <3>3a. delivered[f] = accepted[f]
      BY <3>2, <3>3, ConcatNothing
    <3>3b. delivered'[f] \in Seq(Frames) /\ delivered'[f] = accepted'[f]
      BY <2>1, <3>1, <3>3, <3>3a, SMTT(60)
    <3>4. delivered'[f] \o unknown'[f] = accepted'[f]
      BY <3>1, <3>2, <3>3b, ConcatNothing
    <3>5. QED
      BY <2>2, <2>3, <3>1, <3>4
  <2>4. CASE states[f] = "Retired"
    BY <1>2, <2>2, <2>4 DEF OnFrame, Gate
  <2>5. CASE states[f] = "Unknown" /\ HasRoom(frame)
    <3>1. /\ UNCHANGED delivered
          /\ unknown' = [unknown EXCEPT ![f] = Append(@, frame)]
          /\ accepted' = [accepted EXCEPT ![f] = Append(@, frame)]
      BY <1>2, <2>5 DEF OnFrame, Gate, BufferUnknown
    <3>2. /\ delivered[f] \in Seq(Frames) /\ unknown[f] \in Seq(Frames)
          /\ delivered[f] \o unknown[f] = accepted[f]
      BY <2>5
    <3>2a. Append(accepted[f], frame) = delivered[f] \o Append(unknown[f], frame)
      <4> HIDE DEF frame
      <4>1. Append(delivered[f] \o unknown[f], frame)
              = delivered[f] \o Append(unknown[f], frame)
        BY <2>1, <3>2, AppendConcat
      <4>2. QED
        BY <3>2, <4>1
    <3>2b. delivered'[f] \o unknown'[f] = accepted'[f]
      BY <3>1, <3>2a
    <3>3. QED
      BY <2>2, <2>5, <3>1, <3>2b
  <2>6. CASE states[f] = "Unknown" /\ ~HasRoom(frame)
    BY <1>2, <2>2, <2>6 DEF OnFrame, Gate, BufferUnknown
  <2>7. QED
    BY <2>3, <2>4, <2>5, <2>6 DEF FlowStates
<1>3. ASSUME UNCHANGED <<states, unknown, delivered, accepted>> PROVE DeliveryExact'
  BY <1>3
<1>4. CASE \/ Connect \/ ConnectFails
           \/ SetStarted
           \/ Close
           \/ \E s \in Senders : SendCheck(s)
           \/ \E s \in Senders : SendPush(s)
           \/ \E s \in Senders : SendWake(s)
  <2>1. UNCHANGED <<states, unknown, delivered, accepted>>
    BY <1>4 DEF Connect, ConnectFails, SetStarted, Close, SendCheck, SendPush,
      SendWake
  <2>2. QED
    BY <1>3, <2>1
<1>5. CASE \/ \E f \in Flows, b \in BOOLEAN : RequestFlow(f, b)
           \/ \E f \in Flows : ResetFlowStream(f)
           \/ JoinNetworkThread
           \/ SilenceClosed
           \/ FreeContext
           \/ ServiceStart
  <2>1. UNCHANGED <<states, unknown, delivered, accepted>>
    BY <1>5 DEF RequestFlow, ResetFlowStream, JoinNetworkThread,
      SilenceClosed, FreeContext, ServiceStart
  <2>2. QED
    BY <1>3, <2>1
<1>6. CASE \/ SwapFlowRequests
           \/ SwapResetRequests
           \/ ApplyReset
           \/ PopOutbound
           \/ ServiceReturn
           \/ OnConnected
  <2>1. UNCHANGED <<states, unknown, delivered, accepted>>
    BY <1>6 DEF SwapFlowRequests, SwapResetRequests, ApplyReset,
      PopOutbound, ServiceReturn, OnConnected
  <2>2. QED
    BY <1>3, <2>1
<1>7. CASE \/ OnMalformed
           \/ OnClose
           \/ RunClosedHandler
           \/ PublishClosed
           \/ UNCHANGED vars
  <2>1. UNCHANGED <<states, unknown, delivered, accepted>>
    BY <1>7 DEF OnMalformed, OnClose, RunClosedHandler, PublishClosed,
      vars
  <2>2. QED
    BY <1>3, <2>1
<1>8. QED
  BY <1>1, <1>2, <1>4, <1>5, <1>6, <1>7 DEF Next, App, InService, Callback

\* The initial state.
LEMMA InitInv ==
    Init => TypeOK /\ DeliveryExact /\ HandlerInv /\ StreamPerFlow
<1> SUFFICES ASSUME Init PROVE TypeOK /\ DeliveryExact /\ HandlerInv /\ StreamPerFlow
  OBVIOUS
<1>1. TypeOK
  <2>1. /\ states \in [Flows -> FlowStates]
        /\ unknown \in [Flows -> Seq(Frames)]
        /\ accepted \in [Flows -> Seq(Frames)]
        /\ delivered \in [Flows -> Seq(Frames)]
    <3>1. <<>> \in Seq(Frames)
      BY SMTT(60)
    <3>2. QED
      BY <3>1 DEF Init, TableInit, FlowStates
  <2>2. /\ started \in BOOLEAN /\ connected \in BOOLEAN /\ closing \in BOOLEAN
        /\ closed \in BOOLEAN /\ close_requested \in BOOLEAN
        /\ close_performed \in BOOLEAN /\ datagrams_ok \in BOOLEAN
        /\ woken \in BOOLEAN
    BY DEF Init
  <2>3. /\ flow_requests \in Seq(Requests) /\ requests \in Seq(Requests)
        /\ reset_requests \in Seq(Flows) /\ resets \in Seq(Flows)
        /\ outbound \in Seq(Outbound) /\ datagrams \in Seq(Outbound)
        /\ streams \in Seq(Streams)
    BY SMTT(60) DEF Init
  <2>4. /\ flow_streams \in [Flows -> Nat]
        /\ sender \in [Senders -> {"idle", "checked", "pushed"}]
        /\ arrivals \in Nat /\ handler_runs \in Nat /\ pushes \in Nat
        /\ flow_calls \in Nat /\ reset_calls \in Nat
    BY DEF Init, NoStream
  <2>5. QED
    BY <2>1, <2>2, <2>3, <2>4 DEF Init, TypeOK, NetStates, CnxStates
<1>2. DeliveryExact
  BY SMTT(60) DEF Init, TableInit, DeliveryExact, NoLossNoReorder, BufferedOnlyUnknown
<1>3. HandlerInv
  BY DEF Init, HandlerInv, HandlerExact
<1>4. StreamPerFlow
  BY SMTT(60) DEF Init, StreamPerFlow, NoStream
<1>5. QED
  BY <1>1, <1>2, <1>3, <1>4

\* Every reachable state is well typed.
THEOREM TypeCorrect == Spec => []TypeOK
<1>1. QED
  BY InitInv, TypeStep, PTL DEF Spec

\* A flow that is not retired has been given, or still has buffered, exactly
\* the frames that were accepted for it, in their order; and only flows that are
\* still unknown have frames in the buffer.
THEOREM LosslessDelivery == Spec => []DeliveryExact
<1>1. QED
  BY InitInv, ReceiveStep, TypeParts, TypeCorrect, PTL DEF Spec

\* The closed handler has run exactly when signal_closed() latched `closing`
\* and got past it: at most once, never from the destructor, and before `closed`
\* of a live client can be seen.
THEOREM HandlerOnce == Spec => []HandlerOnceAndFirst
<1>1. HandlerInv => HandlerOnceAndFirst
  BY DEF HandlerInv, HandlerExact, HandlerBeforeClosed, HandlerOnceAndFirst
<1>2. QED
  BY <1>1, InitInv, HandlerStep, TypeParts, TypeCorrect, PTL DEF Spec

\* A retired flow stays retired, and nothing more of it reaches the handler.
THEOREM RetiredFinal == Spec => RetiredIsFinal
<1> DEFINE Kept == \A f \in Flows : states[f] = "Retired" =>
                      states'[f] = "Retired" /\ delivered'[f] = delivered[f]
<1>1. TableTypes /\ RequestTypes /\ [Next]_vars => [Kept]_vars
  <2> SUFFICES ASSUME TableTypes, RequestTypes, Next PROVE Kept
    OBVIOUS
  <2>1. CASE UNCHANGED <<states, delivered>>
    BY <2>1
  <2>2. CASE ApplyFlowRequest
    <3>1. CASE requests = <<>>
      BY <2>2, <3>1 DEF ApplyFlowRequest, tableVars
    <3>2. CASE requests # <<>>
      <4>1. Head(requests) \in Requests
        BY <3>2, SMTT(60) DEF RequestTypes
      <4>2. CASE Head(requests).activate
        BY <2>2, <3>2, <4>1, <4>2
           DEF ApplyFlowRequest, ApplyBind, Activate, CanActivate, TableTypes, Requests
      <4>3. CASE ~Head(requests).activate
        BY <2>2, <3>2, <4>1, <4>3 DEF ApplyFlowRequest, Retire, TableTypes, Requests
      <4>4. QED
        BY <4>2, <4>3
    <3>3. QED
      BY <3>1, <3>2
  <2>3. ASSUME NEW f \in Flows, NEW n \in Sizes, NEW b \in BOOLEAN, OnFrame(f, n, b)
        PROVE  Kept
    BY <2>3 DEF OnFrame, Gate, TableTypes
  <2>4. ASSUME ~ApplyFlowRequest, ~(\E f \in Flows, n \in Sizes, b \in BOOLEAN : OnFrame(f, n, b))
        PROVE  UNCHANGED <<states, delivered>>
    BY <2>4 DEF Next, App, InService, Callback, tableVars, historyVars, Connect, ConnectFails, SetStarted,
        Close, SendCheck, SendPush, SendWake, RequestFlow, ResetFlowStream,
        JoinNetworkThread, SilenceClosed, FreeContext, ServiceStart, SwapFlowRequests,
        SwapResetRequests, ApplyReset, PopOutbound, ServiceReturn, OnConnected,
        OnMalformed, OnClose, RunClosedHandler, PublishClosed
  <2>5. QED
    BY <2>1, <2>2, <2>3, <2>4
<1>2. QED
  BY <1>1, TypeParts, TypeCorrect, PTL DEF Spec, RetiredIsFinal

\* What BufferAccounting needs besides: only finitely much is buffered, however
\* many flows there are.
BufferInv ==
    /\ IsFiniteSet(BufferedFrames) /\ IsFiniteSet(BufferedOctets)
    /\ BufferAccounting

\* The octets of one frame are as many as its size.
LEMMA FrameOctets ==
    ASSUME NEW x, NEW n \in Nat
    PROVE  IsFiniteSet({x} \X (1..n)) /\ Cardinality({x} \X (1..n)) = n
<1>1. IsFiniteSet({x}) /\ Cardinality({x}) = 1
  BY FS_Singleton
<1>2. IsFiniteSet(1..n) /\ Cardinality(1..n) = n
  BY FS_Interval, SMTT(60)
<1>3. /\ IsFiniteSet({x} \X (1..n))
      /\ Cardinality({x} \X (1..n)) = Cardinality({x}) * Cardinality(1..n)
  BY <1>1, <1>2, FS_Product
<1>4. QED
  BY <1>1, <1>2, <1>3, SMTT(60)

\* Who is among the buffered frames and octets.
LEMMA BufferedMembers ==
    ASSUME NEW x
    PROVE  /\ x \in BufferedFrames <=>
                \E f \in Flows : \E i \in DOMAIN unknown[f] : x = <<f, i>>
           /\ \A f : x \in OctetsOf(f) <=>
                \E i \in DOMAIN unknown[f] : \E k \in 1..unknown[f][i].size :
                    x = <<<<f, i>>, k>>
           /\ x \in BufferedOctets <=> \E f \in Flows : x \in OctetsOf(f)
  BY SMTT(60) DEF BufferedFrames, OctetsOf, BufferedOctets

\* take_buffered() takes a flow's frames and octets, and no others.
LEMMA TakeCounts ==
    ASSUME TableTypes, BufferInv, NEW f \in Flows, TakeBuffered(f)
    PROVE  BufferInv'
<1>1. /\ unknown \in [Flows -> Seq(Frames)] /\ unknown' = [unknown EXCEPT ![f] = <<>>]
      /\ unknown_octets' = unknown_octets - Cardinality(OctetsOf(f))
  BY DEF TableTypes, TakeBuffered
<1>2. /\ DOMAIN unknown'[f] = {}
      /\ \A g \in Flows \ {f} : unknown'[g] = unknown[g]
  BY <1>1, SMTT(60)
<1>3. BufferedFrames' \subseteq BufferedFrames
  BY <1>2 DEF BufferedFrames
<1>4. OctetsOf(f)' = {} /\ \A g \in Flows \ {f} : OctetsOf(g)' = OctetsOf(g)
  BY <1>2 DEF OctetsOf
<1>5. \A g \in Flows \ {f} : OctetsOf(g) \cap OctetsOf(f) = {}
  BY BufferedMembers, SMTT(60)
<1>6. BufferedOctets' = BufferedOctets \ OctetsOf(f) /\ OctetsOf(f) \subseteq BufferedOctets
  BY <1>4, <1>5 DEF BufferedOctets
<1>7. /\ IsFiniteSet(BufferedFrames)' /\ Cardinality(BufferedFrames)' \in Nat
      /\ Cardinality(BufferedFrames)' <= Cardinality(BufferedFrames)
      /\ Cardinality(BufferedFrames) \in Nat
  BY <1>3, FS_Subset, FS_CardinalityType DEF BufferInv
<1>8. /\ IsFiniteSet(BufferedOctets)'
      /\ Cardinality(BufferedOctets)' = Cardinality(BufferedOctets) - Cardinality(OctetsOf(f))
  <2>1. BufferedOctets \cap OctetsOf(f) = OctetsOf(f)
    BY <1>6
  <2>2. QED
    BY <1>6, <2>1, FS_Difference, SMTT(60) DEF BufferInv
<1>9. Cardinality(BufferedOctets)' \in Nat /\ Cardinality(OctetsOf(f)) \in Nat
  <2>1. IsFiniteSet(OctetsOf(f))
    BY <1>6, FS_Subset DEF BufferInv
  <2>2. QED
    BY <1>8, <2>1, FS_CardinalityType
<1>10. QED
  BY <1>1, <1>7, <1>8, <1>9, LimitAssumption, SMTT(60) DEF BufferInv, BufferAccounting

\* buffer_unknown() adds one frame and its octets, if there is room.
LEMMA BufferCounts ==
    ASSUME TableTypes, BufferInv, NEW f \in Flows, NEW frame \in Frames,
           BufferUnknown(f, frame)
    PROVE  BufferInv'
<1>1. CASE ~HasRoom(frame)
  BY <1>1, SMTT(60) DEF BufferUnknown, BufferInv, BufferAccounting, BufferedFrames,
              BufferedOctets, OctetsOf
<1>2. CASE HasRoom(frame)
  <2> DEFINE q == unknown[f]
             n == Len(q) + 1
             new == {<<f, n>>} \X (1..frame.size)
  <2>1. /\ q \in Seq(Frames) /\ n \in Nat /\ frame.size \in Nat
        /\ DOMAIN q = 1..Len(q)
    <3>1. q \in Seq(Frames)
      BY DEF TableTypes
    <3>2. frame.size \in Nat
      BY LimitAssumption DEF Frames
    <3>3. QED
      BY <3>1, <3>2, SMTT(60)
  <2>2. /\ unknown' = [unknown EXCEPT ![f] = Append(q, frame)]
        /\ unknown_octets' = unknown_octets + frame.size
    BY <1>2 DEF BufferUnknown
  <2>3. /\ DOMAIN unknown'[f] = DOMAIN q \cup {n} /\ n \notin DOMAIN q
        /\ unknown'[f][n] = frame /\ \A i \in DOMAIN q : unknown'[f][i] = q[i]
        /\ \A g \in Flows \ {f} : unknown'[g] = unknown[g]
    <3>1. /\ unknown'[f] = Append(q, frame)
          /\ \A g \in Flows \ {f} : unknown'[g] = unknown[g]
      BY <2>2 DEF TableTypes
    <3>2. QED
      BY <2>1, <3>1, AppendProperties, SMTT(60)
  <2> HIDE DEF q, n
  <2>4. BufferedFrames' = BufferedFrames \cup {<<f, n>>} /\ <<f, n>> \notin BufferedFrames
    BY <2>3, SMTT(60) DEF BufferedFrames, q
  <2>5. /\ OctetsOf(f)' = OctetsOf(f) \cup new /\ OctetsOf(f) \cap new = {}
        /\ \A g \in Flows \ {f} : OctetsOf(g)' = OctetsOf(g) /\ OctetsOf(g) \cap new = {}
    BY <2>3, SMTT(60) DEF OctetsOf, q
  <2>6. BufferedOctets' = BufferedOctets \cup new /\ BufferedOctets \cap new = {}
    <3> HIDE DEF new
    <3>1. QED
      BY <2>5 DEF BufferedOctets
  <2>7. IsFiniteSet(new) /\ Cardinality(new) = frame.size
    BY <2>1, FrameOctets
  <2> HIDE DEF new
  <2>8. /\ IsFiniteSet(BufferedOctets)'
        /\ Cardinality(BufferedOctets)' = Cardinality(BufferedOctets) + frame.size
    <3>1. IsFiniteSet(BufferedOctets) /\ Cardinality(BufferedOctets) \in Nat
      BY FS_CardinalityType DEF BufferInv
    <3>2. /\ IsFiniteSet(BufferedOctets \cup new)
          /\ Cardinality(BufferedOctets \cup new) = Cardinality(BufferedOctets)
                 + Cardinality(new) - Cardinality(BufferedOctets \cap new)
      BY <2>7, <3>1, FS_Union
    <3>3. Cardinality(BufferedOctets \cap new) = 0
      BY <2>6, FS_EmptySet
    <3>4. QED
      BY <2>1, <2>6, <2>7, <3>1, <3>2, <3>3, SMTT(60)
  <2>9. /\ IsFiniteSet(BufferedFrames)'
        /\ Cardinality(BufferedFrames)' = Cardinality(BufferedFrames) + 1
    BY <2>4, FS_AddElement DEF BufferInv
  <2>10. Cardinality(BufferedFrames) \in Nat
    BY FS_CardinalityType DEF BufferInv
  <2>11. QED
    BY <1>2, <2>1, <2>2, <2>8, <2>9, <2>10, LimitAssumption, SMTT(60)
    DEF HasRoom, BufferInv, BufferAccounting
<1>3. QED
  BY <1>1, <1>2

\* Every other step leaves the buffer alone.
LEMMA BufferStep == TableTypes /\ RequestTypes /\ BufferInv /\ [Next]_vars => BufferInv'
<1> SUFFICES ASSUME TableTypes, RequestTypes, BufferInv, [Next]_vars PROVE BufferInv'
  OBVIOUS
<1>1. CASE UNCHANGED <<unknown, unknown_octets>>
  <2>1. /\ BufferedFrames' = BufferedFrames
        /\ BufferedOctets' = BufferedOctets
    BY <1>1, SMTT(60) DEF BufferedFrames, BufferedOctets, OctetsOf
  <2>2. QED
    BY <1>1, <2>1 DEF BufferInv, BufferAccounting
<1>2. CASE ApplyFlowRequest
  <2>1. CASE requests = <<>>
    BY <1>1, <1>2, <2>1 DEF ApplyFlowRequest, tableVars
  <2>2. CASE requests # <<>>
    <3>1. Head(requests).flow \in Flows
      <4>1. Head(requests) \in Requests
        BY <2>2, SMTT(60) DEF RequestTypes
      <4>2. QED
        BY <4>1 DEF Requests
    <3>2. TakeBuffered(Head(requests).flow) \/ UNCHANGED <<unknown, unknown_octets>>
      BY <1>2, <2>2 DEF ApplyFlowRequest, ApplyBind, Retire
    <3>3. QED
      BY <1>1, <3>1, <3>2, TakeCounts
  <2>3. QED
    BY <2>1, <2>2
<1>3. ASSUME NEW f \in Flows, NEW n \in Sizes, NEW b \in BOOLEAN, OnFrame(f, n, b)
      PROVE  BufferInv'
  <2> DEFINE frame == [id |-> arrivals + 1, size |-> n]
  <2>1. frame \in Frames
    BY SMTT(60) DEF TableTypes, Frames
  <2>2. BufferUnknown(f, frame) \/ UNCHANGED <<unknown, unknown_octets>>
    BY <1>3 DEF OnFrame, Gate
  <2> HIDE DEF frame
  <2>3. QED
    BY <1>1, <2>1, <2>2, BufferCounts
<1> USE DEF tableVars
<1>4. CASE \/ Connect \/ ConnectFails
           \/ SetStarted
           \/ Close
           \/ \E s \in Senders : SendCheck(s)
           \/ \E s \in Senders : SendPush(s)
  BY <1>1, <1>4 DEF Connect, ConnectFails, SetStarted, Close, SendCheck, SendPush
<1>5. CASE \/ \E s \in Senders : SendWake(s)
           \/ \E f \in Flows, b \in BOOLEAN : RequestFlow(f, b)
           \/ \E f \in Flows : ResetFlowStream(f)
           \/ JoinNetworkThread
           \/ SilenceClosed
  BY <1>1, <1>5 DEF SendWake, RequestFlow, ResetFlowStream, JoinNetworkThread,
    SilenceClosed
<1>6. CASE \/ FreeContext
           \/ ServiceStart
           \/ SwapFlowRequests
           \/ SwapResetRequests
           \/ ApplyReset
  BY <1>1, <1>6 DEF FreeContext, ServiceStart, SwapFlowRequests,
    SwapResetRequests, ApplyReset
<1>7. CASE \/ PopOutbound
           \/ ServiceReturn
           \/ OnConnected
           \/ OnMalformed
           \/ OnClose
  BY <1>1, <1>7 DEF PopOutbound, ServiceReturn, OnConnected, OnMalformed,
    OnClose
<1>8. CASE \/ RunClosedHandler
           \/ PublishClosed
           \/ UNCHANGED vars
  BY <1>1, <1>8 DEF RunClosedHandler, PublishClosed, vars
<1>9. QED
  BY <1>2, <1>3, <1>4, <1>5, <1>6, <1>7, <1>8 DEF Next, App, InService,
    Callback

\* Initially nothing is buffered.
LEMMA BufferInit == Init => BufferInv
<1> SUFFICES ASSUME Init PROVE BufferInv
  OBVIOUS
<1>1. \A f \in Flows : DOMAIN unknown[f] = {}
  BY SMTT(60) DEF Init, TableInit
<1>2. BufferedFrames = {} /\ BufferedOctets = {}
  BY <1>1 DEF BufferedFrames, BufferedOctets, OctetsOf
<1>3. QED
  BY <1>2, FS_EmptySet, LimitAssumption, SMTT(60) DEF BufferInv, BufferAccounting, Init, TableInit

\* The octet counter is exactly what is buffered, and both limits hold over all
\* flows together, for any number of flows, any sizes and any limits: the unsigned
\* subtractions of the flow table never wrap.
THEOREM BufferExact == Spec => []BufferAccounting
<1>1. BufferInv => BufferAccounting
  BY DEF BufferInv
<1>2. QED
  BY <1>1, BufferInit, BufferStep, TypeParts, TypeCorrect, PTL DEF Spec

\* Sending: every step keeps streams and the flow-to-stream map in step.
LEMMA StreamStep ==
    StreamTypes /\ RequestTypes /\ StreamPerFlow /\ [Next]_vars => StreamPerFlow'
<1> SUFFICES ASSUME StreamTypes, RequestTypes, StreamPerFlow, [Next]_vars PROVE StreamPerFlow'
  OBVIOUS
<1>t. /\ streams \in Seq(Streams) /\ flow_streams \in [Flows -> Nat]
      /\ resets \in Seq(Flows) /\ outbound \in Seq(Outbound)
  BY DEF StreamTypes, RequestTypes
<1> USE <1>t DEF netVars, quicVars
<1>1. CASE ApplyReset
  <2> DEFINE f == Head(resets)
  <2>1. CASE resets = <<>> \/ flow_streams[f] = NoStream
    BY <1>1, <2>1, SMTT(60) DEF StreamPerFlow, ApplyReset, NoStream
  <2>2. CASE resets # <<>> /\ flow_streams[f] # NoStream
    <3>1. /\ f \in Flows
          /\ streams' = [streams EXCEPT ![flow_streams[f]].reset = TRUE]
          /\ flow_streams' = [flow_streams EXCEPT ![f] = NoStream]
      BY <1>1, <2>2, SMTT(60) DEF ApplyReset, ForgetStream
    <3>2. flow_streams[f] \in DOMAIN streams
      BY <2>2, <3>1 DEF StreamPerFlow
    <3>3. /\ DOMAIN streams' = DOMAIN streams
          /\ \A i \in DOMAIN streams :
                /\ streams'[i].frames = streams[i].frames
                /\ streams'[i].flow = streams[i].flow
                /\ i # flow_streams[f] => streams'[i] = streams[i]
      BY <3>1, <3>2, ResetStream, SMTT(60)
    <3>4. \A g \in Flows : flow_streams'[g] # NoStream =>
              g # f /\ flow_streams[g] # flow_streams[f]
                    /\ flow_streams'[g] = flow_streams[g]
      BY <2>2, <3>1, SMTT(60) DEF StreamPerFlow
    <3>5. \A i \in DOMAIN streams' : \A k \in DOMAIN streams'[i].frames :
              streams'[i].frames[k].item.flow = streams'[i].flow
      BY <3>3, SMTT(60) DEF StreamPerFlow
    <3>6. \A g \in Flows : flow_streams'[g] # NoStream =>
              /\ flow_streams'[g] \in DOMAIN streams'
              /\ streams'[flow_streams'[g]].flow = g
              /\ ~streams'[flow_streams'[g]].reset
      BY <3>3, <3>4, SMTT(60) DEF StreamPerFlow
    <3>7. QED
      BY <3>5, <3>6 DEF StreamPerFlow
  <2>3. QED
    BY <2>1, <2>2
<1>2. CASE PopOutbound
  <2> DEFINE o == Head(outbound)
  <2>1. CASE UNCHANGED <<flow_streams, streams>>
    BY <2>1 DEF StreamPerFlow
  <2>2. CASE SendOnStream(o)
    <3> DEFINE f == o.item.flow
               n == StreamFor(f)
    <3>1. o \in Outbound
      BY <1>2, SMTT(60) DEF PopOutbound
    <3>1a. f \in Flows
      BY <3>1, ItemAssumption DEF Outbound
    <3>2. CASE flow_streams[f] # NoStream
      <4>1. /\ n = flow_streams[f] /\ n \in DOMAIN streams
            /\ streams[n].flow = f /\ ~streams[n].reset
        BY <3>1a, <3>2 DEF StreamFor, StreamPerFlow
      <4>2. /\ flow_streams' = flow_streams
            /\ streams' = [streams EXCEPT ![n].frames = Append(@, o)]
        BY <2>2, <3>1a, <4>1 DEF SendOnStream
      <4>3. /\ DOMAIN streams' = DOMAIN streams
            /\ streams'[n].frames = Append(streams[n].frames, o)
            /\ streams'[n].reset = streams[n].reset
            /\ streams'[n].flow = streams[n].flow
            /\ streams[n].frames \in Seq(Outbound)
            /\ \A i \in DOMAIN streams : i # n => streams'[i] = streams[i]
        <5> HIDE DEF n, o
        <5>1. /\ streams[n] \in Streams
              /\ streams'[n] = [streams[n] EXCEPT !.frames = Append(@, o)]
          BY <4>1, <4>2, SMTT(60)
        <5>2. /\ streams'[n].frames = Append(streams[n].frames, o)
              /\ streams'[n].reset = streams[n].reset
              /\ streams'[n].flow = streams[n].flow
              /\ streams[n].frames \in Seq(Outbound)
          BY <5>1 DEF Streams
        <5>3. QED
          BY <4>1, <4>2, <5>2
      <4>4. \A k \in DOMAIN streams[n].frames :
                streams[n].frames[k].item.flow = f
        BY <4>1 DEF StreamPerFlow
      <4>5. \A k \in DOMAIN streams'[n].frames :
                streams'[n].frames[k].item.flow = f
        <5> DEFINE old == streams[n].frames
                   new == streams'[n].frames
        <5>1. old \in Seq(Outbound) /\ new = Append(old, o)
          BY <4>3
        <5>2. \A k \in DOMAIN old : old[k].item.flow = f
          BY <4>4
        <5> HIDE DEF old, new, n, o
        <5>3. \A k \in DOMAIN new :
                 (k \in DOMAIN old /\ new[k] = old[k]) \/ new[k] = o
          BY <3>1, <5>1, SMTT(60)
        <5>4. \A k \in DOMAIN new : new[k].item.flow = f
          BY <5>2, <5>3
        <5>5. QED
          BY <5>4 DEF new
      <4>6. \A i \in DOMAIN streams' : \A k \in DOMAIN streams'[i].frames :
                streams'[i].frames[k].item.flow = streams'[i].flow
        <5> HIDE DEF n, f
        <5> TAKE i \in DOMAIN streams'
        <5>1. CASE i = n
          BY <4>1, <4>3, <4>5, <5>1
        <5>2. CASE i # n
          BY <4>3, <5>2, SMTT(60) DEF StreamPerFlow
        <5>3. QED
          BY <5>1, <5>2
      <4>7. \A g \in Flows : flow_streams'[g] # NoStream =>
                /\ flow_streams'[g] \in DOMAIN streams'
                /\ streams'[flow_streams'[g]].flow = g
                /\ ~streams'[flow_streams'[g]].reset
        <5> HIDE DEF n, f
        <5> QED
          BY <4>2, <4>3, SMTT(60) DEF StreamPerFlow
      <4>8. QED
        BY <4>6, <4>7 DEF StreamPerFlow
    <3>3. CASE flow_streams[f] = NoStream
      <4> DEFINE fresh == [flow |-> f, reset |-> FALSE, frames |-> <<o>>]
      <4>1. n = Len(streams) + 1 /\ n \notin DOMAIN streams
        BY <3>3, SMTT(60) DEF StreamFor
      <4>2. /\ flow_streams' = [flow_streams EXCEPT ![f] = n]
            /\ streams' = Append(streams, fresh)
        BY <2>2, <4>1 DEF SendOnStream
      <4>3. /\ DOMAIN streams' = DOMAIN streams \cup {n}
            /\ \A i \in DOMAIN streams : streams'[i] = streams[i]
            /\ streams'[n] = fresh
        BY <4>1, <4>2, SMTT(60)
      <4>4. \A k \in DOMAIN fresh.frames : fresh.frames[k].item.flow = f
        BY SMTT(60)
      <4>5. \A g \in Flows : g # f => flow_streams'[g] = flow_streams[g]
        BY <4>2
      <4>6. flow_streams'[f] = n
        BY <3>1a, <4>2
      <4> HIDE DEF n
      <4>7. \A i \in DOMAIN streams' : \A k \in DOMAIN streams'[i].frames :
                streams'[i].frames[k].item.flow = streams'[i].flow
        BY <4>3, <4>4, SMTT(60) DEF StreamPerFlow
      <4>8. \A g \in Flows : flow_streams'[g] # NoStream =>
                /\ flow_streams'[g] \in DOMAIN streams'
                /\ streams'[flow_streams'[g]].flow = g
                /\ ~streams'[flow_streams'[g]].reset
        BY <4>3, <4>5, <4>6, <4>1, SMTT(60) DEF StreamPerFlow
      <4>9. QED
        BY <4>7, <4>8 DEF StreamPerFlow
    <3>4. QED
      BY <3>2, <3>3
  <2>3. QED
    BY <1>2, <2>1, <2>2 DEF PopOutbound, SendAsDatagram
<1>3. ASSUME UNCHANGED <<flow_streams, streams>> PROVE StreamPerFlow'
  BY <1>3 DEF StreamPerFlow
<1>4. CASE \/ Connect \/ ConnectFails
           \/ SetStarted
           \/ Close
           \/ \E s \in Senders : SendCheck(s)
           \/ \E s \in Senders : SendPush(s)
           \/ \E s \in Senders : SendWake(s)
  <2>1. UNCHANGED <<flow_streams, streams>>
    BY <1>4 DEF Connect, ConnectFails, SetStarted, Close, SendCheck, SendPush,
      SendWake
  <2>2. QED
    BY <1>3, <2>1
<1>5. CASE \/ \E f \in Flows, b \in BOOLEAN : RequestFlow(f, b)
           \/ \E f \in Flows : ResetFlowStream(f)
           \/ JoinNetworkThread
           \/ SilenceClosed
           \/ FreeContext
           \/ ServiceStart
  <2>1. UNCHANGED <<flow_streams, streams>>
    BY <1>5 DEF RequestFlow, ResetFlowStream, JoinNetworkThread,
      SilenceClosed, FreeContext, ServiceStart
  <2>2. QED
    BY <1>3, <2>1
<1>6. CASE \/ SwapFlowRequests
           \/ ApplyFlowRequest
           \/ SwapResetRequests
           \/ ServiceReturn
           \/ OnConnected
           \/ \E f \in Flows, n \in Sizes, b \in BOOLEAN : OnFrame(f, n, b)
  <2>1. UNCHANGED <<flow_streams, streams>>
    BY <1>6 DEF SwapFlowRequests, ApplyFlowRequest, SwapResetRequests,
      ServiceReturn, OnConnected, OnFrame
  <2>2. QED
    BY <1>3, <2>1
<1>7. CASE \/ OnMalformed
           \/ OnClose
           \/ RunClosedHandler
           \/ PublishClosed
           \/ UNCHANGED vars
  <2>1. UNCHANGED <<flow_streams, streams>>
    BY <1>7 DEF OnMalformed, OnClose, RunClosedHandler, PublishClosed,
      vars
  <2>2. QED
    BY <1>3, <2>1
<1>8. QED
  BY <1>1, <1>2, <1>4, <1>5, <1>6, <1>7 DEF Next, App, InService, Callback

\* Streams are never shared between flows, and a flow's stream is not reset.
THEOREM StreamOwnership == Spec => []StreamPerFlow
<1>1. QED
  BY InitInv, StreamStep, TypeParts, TypeCorrect, PTL DEF Spec

\* Nothing is written to a stream once it has been reset.
THEOREM ResetFinal == Spec => ResetIsFinal
<1> DEFINE Kept == \A i \in DOMAIN streams : streams[i].reset => streams'[i] = streams[i]
<1>1. StreamTypes /\ RequestTypes /\ StreamPerFlow /\ [Next]_vars => [Kept]_vars
  <2> SUFFICES ASSUME StreamTypes, RequestTypes, StreamPerFlow, Next PROVE Kept
    OBVIOUS
  <2>1. CASE ApplyReset
    <3>1. CASE resets = <<>> \/ flow_streams[Head(resets)] = NoStream
      BY <2>1, <3>1 DEF ApplyReset
    <3>2. CASE resets # <<>> /\ flow_streams[Head(resets)] # NoStream
      <4>1. Head(resets) \in Flows
        BY <3>2, SMTT(60) DEF RequestTypes
      <4>2. ~streams[flow_streams[Head(resets)]].reset
        BY <3>2, <4>1 DEF StreamPerFlow
      <4>3. QED
        BY <2>1, <3>2, <4>2 DEF ApplyReset, StreamTypes
    <3>3. QED
      BY <3>1, <3>2
  <2>2. CASE PopOutbound
    <3> DEFINE o == Head(outbound)
    <3>1. o.item.flow \in Flows
      <4>1. o \in Outbound
        BY <2>2, SMTT(60) DEF PopOutbound, StreamTypes
      <4>2. o.item \in Items
        BY <4>1 DEF Outbound
      <4>3. QED
        BY <4>2, ItemAssumption
    <3>2. CASE SendOnStream(o)
      <4> DEFINE f == o.item.flow
                 n == StreamFor(f)
      <4>1. n \in DOMAIN streams => ~streams[n].reset
        BY <3>1, SMTT(60) DEF StreamFor, StreamPerFlow, StreamTypes
      <4>2. \A i \in DOMAIN streams : i # n => streams'[i] = streams[i]
        BY <3>2, SMTT(60) DEF SendOnStream, StreamTypes
      <4>3. QED
        BY <4>1, <4>2
    <3>3. CASE UNCHANGED streams
      BY <3>3
    <3>4. QED
      BY <2>2, <3>2, <3>3 DEF PopOutbound, SendAsDatagram
  <2>3. ASSUME ~ApplyReset, ~PopOutbound PROVE UNCHANGED streams
    BY <2>3 DEF Next, App, InService, Callback, quicVars, Connect, ConnectFails, SetStarted,
        Close, SendCheck, SendPush, SendWake, RequestFlow, ResetFlowStream,
        JoinNetworkThread, SilenceClosed, FreeContext, ServiceStart, SwapFlowRequests,
        ApplyFlowRequest, SwapResetRequests, ServiceReturn, OnConnected, OnFrame,
        OnMalformed, OnClose, RunClosedHandler, PublishClosed
  <2>4. QED
    BY <2>1, <2>2, <2>3
<1>2. QED
  BY <1>1, TypeParts, TypeCorrect, StreamOwnership, PTL DEF Spec, ResetIsFinal

-----------------------------------------------------------------------------
(* The order of what is sent.                                              *)

\* Everything that was sent was pushed before anything that still waits.
SendOrder ==
    /\ SentOnceInOrder
    /\ Rising(outbound)
    /\ \A n \in Ids(outbound) : n <= pushes
    /\ \A m \in Ids(datagrams) : m <= pushes /\ \A n \in Ids(outbound) : m < n
    /\ \A i \in DOMAIN streams : \A m \in Ids(streams[i].frames) :
          m <= pushes /\ \A n \in Ids(outbound) : m < n

\* A frame whose id is greater than all others keeps a queue in order.
LEMMA RisingAppend ==
    ASSUME NEW q \in Seq(Outbound), NEW o \in Outbound
    PROVE  /\ Ids(Append(q, o)) = Ids(q) \cup {o.id}
           /\ Rising(q) /\ (\A n \in Ids(q) : n < o.id) => Rising(Append(q, o))
<1>1. /\ DOMAIN Append(q, o) = DOMAIN q \cup {Len(q) + 1}
      /\ Append(q, o)[Len(q) + 1] = o
      /\ \A k \in DOMAIN q : Append(q, o)[k] = q[k] /\ k < Len(q) + 1
  BY SMTT(60)
<1>2. Ids(Append(q, o)) = Ids(q) \cup {o.id}
  BY <1>1 DEF Ids
<1>3. ASSUME Rising(q), \A n \in Ids(q) : n < o.id PROVE Rising(Append(q, o))
  <2>1. \A k \in DOMAIN q : q[k].id < o.id
    BY <1>3 DEF Ids
  <2>2. Len(q) \in Nat /\ DOMAIN q = 1..Len(q)
    BY SMTT(60)
  <2> QED
    BY <1>1, <1>3, <2>1, <2>2, SMTT(60) DEF Rising
<1> QED
  BY <1>2, <1>3

\* The frame at the head of a queue in order was pushed before the others.
LEMMA RisingTail ==
    ASSUME NEW q \in Seq(Outbound), q # <<>>, Rising(q)
    PROVE  /\ Rising(Tail(q)) /\ Head(q).id \in Ids(q) /\ Ids(Tail(q)) \subseteq Ids(q)
           /\ \A n \in Ids(Tail(q)) : Head(q).id < n
<1>1. /\ Head(q) = q[1] /\ 1 \in DOMAIN q /\ Len(q) \in Nat \ {0}
      /\ DOMAIN Tail(q) = 1..(Len(q) - 1) /\ DOMAIN q = 1..Len(q)
      /\ \A k \in DOMAIN Tail(q) : k + 1 \in DOMAIN q /\ Tail(q)[k] = q[k + 1] /\ 1 < k + 1
  BY SMTT(60)
<1>2. Rising(Tail(q))
  <2>1. ASSUME NEW k \in DOMAIN Tail(q), NEW l \in DOMAIN Tail(q), k < l
        PROVE  Tail(q)[k].id < Tail(q)[l].id
    <3>1. k + 1 < l + 1
      BY <1>1, <2>1, SMTT(60)
    <3> QED
      BY <1>1, <3>1 DEF Rising
  <2> QED
    BY <2>1 DEF Rising
<1>3. Head(q).id \in Ids(q) /\ Ids(Tail(q)) \subseteq Ids(q)
  BY <1>1, SMTT(60) DEF Ids
<1>4. \A n \in Ids(Tail(q)) : Head(q).id < n
  BY <1>1, SMTT(60) DEF Ids, Rising
<1> QED
  BY <1>2, <1>3, <1>4

\* add_to_stream puts the frame at the end of one stream, old or new.
LEMMA OneStreamGrows ==
    ASSUME StreamTypes, NEW o \in Outbound, SendOnStream(o)
    PROVE  /\ datagrams' = datagrams
           /\ \E n \in DOMAIN streams' :
                 /\ DOMAIN streams' = DOMAIN streams \cup {n}
                 /\ \A i \in DOMAIN streams \ {n} : streams'[i] = streams[i]
                 /\ \E q \in Seq(Outbound) :
                       /\ streams'[n].frames = Append(q, o)
                       /\ \/ n \in DOMAIN streams /\ q = streams[n].frames
                          \/ n \notin DOMAIN streams /\ q = <<>>
<1>1. PICK n : n = StreamFor(o.item.flow)
  OBVIOUS
<1>2. streams \in Seq(Streams) /\ datagrams' = datagrams
  BY DEF StreamTypes, SendOnStream
<1>3. CASE n \in DOMAIN streams
  <2>1. streams' = [streams EXCEPT ![n].frames = Append(@, o)]
    BY <1>1, <1>3 DEF SendOnStream
  <2>2. streams[n] \in Streams
    BY <1>2, <1>3, SMTT(60)
  <2>3. streams[n].frames \in Seq(Outbound) /\ streams[n] = [streams[n] EXCEPT !.frames = @]
    BY <2>2 DEF Streams
  <2>4. DOMAIN streams' = DOMAIN streams /\ \A i \in DOMAIN streams \ {n} : streams'[i] = streams[i]
    BY <2>1
  <2>5. streams'[n].frames = Append(streams[n].frames, o)
    <3>1. streams'[n] = [streams[n] EXCEPT !.frames = Append(@, o)]
      BY <1>3, <2>1
    <3> QED
      BY <2>2, <3>1 DEF Streams
  <2> QED
    BY <1>2, <1>3, <2>3, <2>4, <2>5
<1>4. CASE n \notin DOMAIN streams
  <2>1. PICK fresh : fresh = [flow |-> o.item.flow, reset |-> FALSE, frames |-> <<o>>]
    OBVIOUS
  <2>2. streams' = Append(streams, fresh)
    BY <1>1, <1>4, <2>1 DEF SendOnStream
  <2>3. PICK m : m = Len(streams) + 1
    OBVIOUS
  <2>4. /\ DOMAIN streams' = DOMAIN streams \cup {m} /\ m \notin DOMAIN streams
        /\ streams'[m] = fresh
        /\ \A i \in DOMAIN streams \ {m} : streams'[i] = streams[i]
    BY <1>2, <2>2, <2>3, SMTT(60)
  <2>5. fresh.frames = Append(<<>>, o) /\ <<>> \in Seq(Outbound)
    BY <2>1, SMTT(60)
  <2> QED
    BY <1>2, <2>4, <2>5
<1> QED
  BY <1>3, <1>4

\* A popped frame that is dropped leaves the rest of the queue in order.
LEMMA OrderPopped ==
    ASSUME StreamTypes, SendOrder, outbound # <<>>, outbound' = Tail(outbound),
           UNCHANGED <<streams, datagrams, pushes>>
    PROVE  SendOrder'
<1>1. outbound \in Seq(Outbound) /\ Rising(outbound)
  BY DEF StreamTypes, SendOrder
<1>2. Rising(outbound') /\ Ids(outbound') \subseteq Ids(outbound)
  BY <1>1, RisingTail
<1>3. SentOnceInOrder'
  BY <1>2 DEF SendOrder, SentOnceInOrder
<1> QED
  BY <1>2, <1>3 DEF SendOrder

\* What every frame of a pop is greater and less than.
LEMMA HeadBetween ==
    ASSUME StreamTypes, SendOrder, outbound # <<>>
    PROVE  /\ Head(outbound) \in Outbound /\ Head(outbound).id <= pushes
           /\ Rising(Tail(outbound)) /\ Ids(Tail(outbound)) \subseteq Ids(outbound)
           /\ Head(outbound).id \notin Ids(Tail(outbound))
           /\ \A n \in Ids(Tail(outbound)) : Head(outbound).id < n
           /\ \A m \in Ids(datagrams) : m < Head(outbound).id
           /\ \A i \in DOMAIN streams : \A m \in Ids(streams[i].frames) : m < Head(outbound).id
<1>1. outbound \in Seq(Outbound) /\ Rising(outbound)
  BY DEF StreamTypes, SendOrder
<1>2. PICK h : h = Head(outbound)
  OBVIOUS
<1>3. /\ Rising(Tail(outbound)) /\ h.id \in Ids(outbound)
      /\ Ids(Tail(outbound)) \subseteq Ids(outbound)
      /\ \A n \in Ids(Tail(outbound)) : h.id < n
  BY <1>1, <1>2, RisingTail
<1>4. h \in Outbound /\ h.id \in Nat
  <2>1. h \in Outbound
    BY <1>1, <1>2, SMTT(60)
  <2> QED
    BY <2>1 DEF Outbound
<1>5. h.id \notin Ids(Tail(outbound))
  BY <1>3, <1>4, SMTT(60)
<1>6. h.id <= pushes /\ \A m \in Ids(datagrams) : m < h.id
  BY <1>3 DEF SendOrder
<1>7. \A i \in DOMAIN streams : \A m \in Ids(streams[i].frames) : m < h.id
  BY <1>3 DEF SendOrder
<1> QED
  BY <1>2, <1>3, <1>4, <1>5, <1>6, <1>7

\* The frames of every stream are typed.
LEMMA StreamFrames ==
    ASSUME StreamTypes
    PROVE  /\ \A i \in DOMAIN streams : streams[i].frames \in Seq(Outbound)
           /\ \A q \in Seq(Outbound) : Ids(q) \subseteq Nat
<1>1. \A i \in DOMAIN streams : streams[i] \in Streams
  BY SMTT(60) DEF StreamTypes
<1>2. ASSUME NEW q \in Seq(Outbound), NEW k \in DOMAIN q PROVE q[k].id \in Nat
  <2>1. q[k] \in Outbound
    BY <1>2, SMTT(60)
  <2> QED
    BY <2>1 DEF Outbound
<1> QED
  BY <1>1, <1>2 DEF Streams, Ids

\* A popped frame that goes out as a datagram is the last of them.
LEMMA OrderDatagram ==
    ASSUME StreamTypes, SendOrder, outbound # <<>>, outbound' = Tail(outbound),
           SendAsDatagram(Head(outbound)), UNCHANGED pushes
    PROVE  SendOrder'
<1>1. PICK o : o = Head(outbound)
  OBVIOUS
<1>2. PICK rest : rest = Tail(outbound)
  OBVIOUS
<1>3. /\ o \in Outbound /\ o.id <= pushes /\ Rising(rest) /\ Ids(rest) \subseteq Ids(outbound)
      /\ o.id \notin Ids(rest) /\ \A n \in Ids(rest) : o.id < n
      /\ \A m \in Ids(datagrams) : m < o.id
      /\ \A i \in DOMAIN streams : \A m \in Ids(streams[i].frames) : m < o.id
  BY <1>1, <1>2, HeadBetween
<1>4. datagrams \in Seq(Outbound) /\ datagrams' = Append(datagrams, o) /\ streams' = streams
  BY <1>1 DEF StreamTypes, SendAsDatagram
<1>5. Ids(datagrams') = Ids(datagrams) \cup {o.id} /\ Rising(datagrams')
  BY <1>3, <1>4, RisingAppend DEF SendOrder, SentOnceInOrder
<1>6. outbound' = rest
  BY <1>2
<1>7. SentOnceInOrder'
  <2>1. \A i \in DOMAIN streams : o.id \notin Ids(streams[i].frames)
    <3>1. o.id \in Nat
      BY <1>3 DEF Outbound
    <3>2. \A i \in DOMAIN streams : Ids(streams[i].frames) \subseteq Nat
      BY StreamFrames
    <3> QED
      BY <1>3, <3>1, <3>2, SMTT(60)
  <2>2. Ids(datagrams)' = Ids(datagrams) \cup {o.id} /\ Rising(datagrams)' /\ Ids(outbound)' = Ids(rest)
    BY <1>5, <1>6
  <2>3. /\ Rising(datagrams)' /\ (Ids(datagrams) \cap Ids(outbound))' = {}
    BY <1>3, <2>2 DEF SendOrder, SentOnceInOrder
  <2>4. \A i \in DOMAIN streams :
          /\ Rising(streams[i].frames)
          /\ Ids(streams[i].frames) \cap (Ids(rest) \cup Ids(datagrams) \cup {o.id}) = {}
          /\ \A j \in DOMAIN streams \ {i} :
                Ids(streams[i].frames) \cap Ids(streams[j].frames) = {}
    BY <1>3, <2>1 DEF SendOrder, SentOnceInOrder
  <2> QED
    BY <1>4, <2>2, <2>3, <2>4 DEF SentOnceInOrder
<1> QED
  BY <1>3, <1>4, <1>5, <1>6, <1>7 DEF SendOrder

\* A popped frame that goes out on a stream is the last of it.
LEMMA OrderStream ==
    ASSUME StreamTypes, SendOrder, outbound # <<>>, outbound' = Tail(outbound),
           SendOnStream(Head(outbound)), UNCHANGED pushes
    PROVE  SendOrder'
<1>1. PICK o : o = Head(outbound)
  OBVIOUS
<1>2. PICK rest : rest = Tail(outbound)
  OBVIOUS
<1>3. /\ o \in Outbound /\ o.id <= pushes /\ Rising(rest) /\ Ids(rest) \subseteq Ids(outbound)
      /\ o.id \notin Ids(rest) /\ \A n \in Ids(rest) : o.id < n
      /\ \A m \in Ids(datagrams) : m < o.id
      /\ \A i \in DOMAIN streams : \A m \in Ids(streams[i].frames) : m < o.id
  BY <1>1, <1>2, HeadBetween
<1>4. PICK n \in DOMAIN streams', q \in Seq(Outbound) :
         /\ DOMAIN streams' = DOMAIN streams \cup {n}
         /\ \A i \in DOMAIN streams \ {n} : streams'[i] = streams[i]
         /\ streams'[n].frames = Append(q, o)
         /\ \/ n \in DOMAIN streams /\ q = streams[n].frames
            \/ n \notin DOMAIN streams /\ q = <<>>
  BY <1>1, <1>3, OneStreamGrows
<1>5. datagrams' = datagrams /\ outbound' = rest
  BY <1>2 DEF SendOnStream
<1>6. /\ Rising(q) /\ Ids(q) \cap (Ids(rest) \cup Ids(datagrams)) = {}
      /\ \A m \in Ids(q) : m < o.id /\ m <= pushes /\ \A l \in Ids(rest) : m < l
      /\ \A j \in DOMAIN streams \ {n} : Ids(q) \cap Ids(streams[j].frames) = {}
  <2>1. CASE n \in DOMAIN streams /\ q = streams[n].frames
    BY <1>3, <2>1 DEF SendOrder, SentOnceInOrder
  <2>2. CASE q = <<>>
    BY <2>2, SMTT(60) DEF Ids, Rising
  <2> QED
    BY <1>4, <2>1, <2>2
<1>7. PICK r : r = Append(q, o)
  OBVIOUS
<1>8. Ids(r) = Ids(q) \cup {o.id} /\ Rising(r)
  BY <1>3, <1>6, <1>7, RisingAppend
<1>9. /\ o.id \notin Ids(datagrams)
      /\ \A i \in DOMAIN streams : o.id \notin Ids(streams[i].frames)
  <2>1. o.id \in Nat
    BY <1>3 DEF Outbound
  <2> QED
    BY <1>3, <2>1, SMTT(60)
<1>10. /\ Ids(r) \cap (Ids(rest) \cup Ids(datagrams)) = {}
       /\ \A m \in Ids(r) : m <= pushes /\ \A l \in Ids(rest) : m < l
       /\ \A j \in DOMAIN streams \ {n} : Ids(r) \cap Ids(streams[j].frames) = {}
  BY <1>3, <1>6, <1>8, <1>9
<1>11. ASSUME NEW i \in DOMAIN streams'
       PROVE  /\ Rising(streams'[i].frames)
              /\ Ids(streams'[i].frames) \cap (Ids(rest) \cup Ids(datagrams)) = {}
              /\ \A j \in DOMAIN streams' \ {i} :
                    Ids(streams'[i].frames) \cap Ids(streams'[j].frames) = {}
              /\ \A m \in Ids(streams'[i].frames) : m <= pushes /\ \A l \in Ids(rest) : m < l
  <2>1. CASE i = n
    BY <1>4, <1>7, <1>8, <1>10, <2>1
  <2>2. CASE i # n
    <3>1. i \in DOMAIN streams /\ streams'[i] = streams[i]
      BY <1>4, <2>2
    <3>2. /\ Rising(streams[i].frames)
          /\ Ids(streams[i].frames) \cap (Ids(rest) \cup Ids(datagrams)) = {}
          /\ \A m \in Ids(streams[i].frames) : m <= pushes /\ \A l \in Ids(rest) : m < l
      BY <1>3, <3>1 DEF SendOrder, SentOnceInOrder
    <3>3. ASSUME NEW j \in DOMAIN streams' \ {i}
          PROVE  Ids(streams'[i].frames) \cap Ids(streams'[j].frames) = {}
      <4>1. CASE j = n
        BY <1>4, <1>7, <1>10, <2>2, <3>1, <4>1
      <4>2. CASE j # n
        <5>1. j \in DOMAIN streams \ {i} /\ streams'[j] = streams[j]
          BY <1>4, <4>2
        <5> QED
          BY <3>1, <5>1 DEF SendOrder, SentOnceInOrder
      <4> QED
        BY <4>1, <4>2
    <3> QED
      BY <3>1, <3>2, <3>3
  <2> QED
    BY <2>1, <2>2
<1>12. SentOnceInOrder'
  BY <1>3, <1>5, <1>11 DEF SendOrder, SentOnceInOrder
<1>13. /\ Rising(outbound') /\ \A l \in Ids(outbound') : l <= pushes'
       /\ \A m \in Ids(datagrams') : m <= pushes' /\ \A l \in Ids(outbound') : m < l
  BY <1>3, <1>5 DEF SendOrder
<1> QED
  BY <1>5, <1>11, <1>12, <1>13 DEF SendOrder

\* send() puts a frame behind all others.
LEMMA OrderPushed ==
    ASSUME StreamTypes, SendOrder, NEW s \in Senders, SendPush(s)
    PROVE  SendOrder'
<1>1. PICK o : o \in Outbound /\ o.id = pushes + 1 /\ outbound' = Append(outbound, o)
  <2>1. PICK i \in Items : outbound' = Append(outbound, [item |-> i, id |-> pushes + 1])
    BY DEF SendPush
  <2>2. [item |-> i, id |-> pushes + 1] \in Outbound
    BY SMTT(60) DEF StreamTypes, Outbound
  <2> QED
    BY <2>1, <2>2
<1>2. pushes' = pushes + 1 /\ pushes \in Nat /\ UNCHANGED <<streams, datagrams>>
  BY DEF SendPush, quicVars, StreamTypes
<1>3. Ids(outbound) \subseteq Nat /\ \A n \in Ids(outbound) : n < o.id
  <2>1. Ids(outbound) \subseteq Nat
    BY StreamFrames DEF StreamTypes
  <2> QED
    BY <1>1, <1>2, <2>1, SMTT(60) DEF SendOrder
<1>4. Ids(outbound') = Ids(outbound) \cup {o.id} /\ Rising(outbound')
  BY <1>1, <1>3, RisingAppend DEF SendOrder, StreamTypes
<1>5. /\ Ids(datagrams) \subseteq Nat
      /\ \A i \in DOMAIN streams : Ids(streams[i].frames) \subseteq Nat
  BY StreamFrames DEF StreamTypes
<1>6. \A m \in Ids(datagrams) : m < o.id /\ m <= pushes'
  BY <1>1, <1>2, <1>5, SMTT(60) DEF SendOrder
<1>7. \A i \in DOMAIN streams : \A m \in Ids(streams[i].frames) : m < o.id /\ m <= pushes'
  <2>1. ASSUME NEW i \in DOMAIN streams, NEW m \in Ids(streams[i].frames)
        PROVE  m \in Nat /\ m <= pushes
    BY <1>5 DEF SendOrder
  <2> QED
    BY <1>1, <1>2, <2>1, SMTT(60)
<1>8. o.id \notin Ids(datagrams) /\ \A i \in DOMAIN streams : o.id \notin Ids(streams[i].frames)
  BY <1>1, <1>2, <1>6, <1>7, SMTT(60)
<1>9. SentOnceInOrder'
  BY <1>2, <1>4, <1>8, SMTT(60) DEF SendOrder, SentOnceInOrder
<1>10. \A n \in Ids(outbound') : n <= pushes'
  <2>1. \A n \in Ids(outbound) : n \in Nat /\ n < pushes + 1
    BY <1>1, <1>3
  <2> QED
    BY <1>1, <1>2, <1>4, <2>1, SMTT(60)
<1> QED
  BY <1>2, <1>4, <1>6, <1>7, <1>9, <1>10 DEF SendOrder

\* Every step keeps the order.
LEMMA OrderStep ==
    ASSUME StreamTypes, RequestTypes, SendOrder, [Next]_vars
    PROVE  SendOrder'
<1>1. CASE PopOutbound
  <2>1. /\ outbound # <<>> /\ outbound' = Tail(outbound) /\ pushes' = pushes
        /\ \/ SendOnStream(Head(outbound)) \/ SendAsDatagram(Head(outbound))
           \/ UNCHANGED <<streams, datagrams>>
    BY <1>1 DEF PopOutbound, historyVars
  <2> QED
    BY <2>1, OrderPopped, OrderDatagram, OrderStream
<1>2. CASE \E s \in Senders : SendPush(s)
  BY <1>2, OrderPushed
<1>3. CASE ApplyReset
  <2>1. UNCHANGED <<outbound, datagrams, pushes>>
    BY <1>3 DEF ApplyReset, queueVars, historyVars
  <2>2. /\ DOMAIN streams' = DOMAIN streams
        /\ \A i \in DOMAIN streams : streams'[i].frames = streams[i].frames
    <3>1. CASE streams' = streams
      BY <3>1
    <3>2. CASE streams' = [streams EXCEPT ![flow_streams[Head(resets)]].reset = TRUE]
      <4>1. \A i \in DOMAIN streams : streams[i] \in Streams
        BY SMTT(60) DEF StreamTypes
      <4> QED
        BY <3>2, <4>1 DEF Streams
    <3> QED
      BY <1>3, <3>1, <3>2 DEF ApplyReset
  <2>3. SentOnceInOrder'
    BY <2>1, <2>2 DEF SendOrder, SentOnceInOrder
  <2> QED
    BY <2>1, <2>2, <2>3 DEF SendOrder
<1>4. ASSUME UNCHANGED <<outbound, streams, datagrams, pushes>> PROVE SendOrder'
  BY <1>4 DEF SendOrder, SentOnceInOrder
<1>5. ASSUME ~PopOutbound, ~(\E s \in Senders : SendPush(s)), ~ApplyReset
      PROVE  UNCHANGED <<outbound, streams, datagrams, pushes>>
  <2> USE DEF vars, queueVars, quicVars, historyVars
  <2>1. CASE App
    BY <1>5, <2>1 DEF App, Connect, ConnectFails, SetStarted, Close, SendCheck, SendWake, RequestFlow,
       ResetFlowStream, JoinNetworkThread, SilenceClosed, FreeContext
  <2>2. CASE ServiceStart \/ InService
    BY <1>5, <2>2 DEF InService, ServiceStart, SwapFlowRequests, ApplyFlowRequest,
       SwapResetRequests, ServiceReturn
  <2>3. CASE Callback
    BY <2>3 DEF Callback, OnConnected, OnFrame, OnMalformed, OnClose, RunClosedHandler,
       PublishClosed
  <2>4. CASE UNCHANGED vars
    BY <2>4
  <2> QED
    BY <2>1, <2>2, <2>3, <2>4 DEF Next
<1> QED
  BY <1>1, <1>2, <1>3, <1>4, <1>5

\* What send() queued leaves the client once, on one stream or in one datagram,
\* and in the order in which it was queued.
THEOREM SentInOrder == Spec => []SentOnceInOrder
<1>1. Init => SendOrder
  <2>1. DOMAIN <<>> = {} /\ Ids(<<>>) = {} /\ Rising(<<>>)
    BY SMTT(60) DEF Ids, Rising
  <2>2. Init => outbound = <<>> /\ datagrams = <<>> /\ streams = <<>>
    BY DEF Init
  <2>3. QED
    BY <2>1, <2>2 DEF SendOrder, SentOnceInOrder
<1>2. SendOrder => SentOnceInOrder
  BY DEF SendOrder
<1>3. QED
  BY <1>1, <1>2, OrderStep, TypeParts, TypeCorrect, PTL DEF Spec

-----------------------------------------------------------------------------
(* The bindings.                                                           *)

\* The steps of the bindings are steps of the client or leave it alone.
LEMMA ClientStep == [BindingsNext]_<<vars, bindingVars>> => [Next]_vars
<1> SUFFICES ASSUME BindingsNext PROVE [Next]_vars
  OBVIOUS
<1>1. ASSUME NEW l, SetListener(l) PROVE [Next]_vars
  BY <1>1 DEF SetListener
<1>2. CASE PassOn
  BY <1>2 DEF PassOn, Next, App
<1>3. CASE Destroy
  BY <1>3 DEF Destroy, Next, App
<1>4. CASE Native
  BY <1>4 DEF Native, Next, App
<1>5. CASE Release
  BY <1>5 DEF Release
<1>6. QED
  BY <1>1, <1>2, <1>3, <1>4, <1>5 DEF BindingsNext

\* Behind the bindings the client behaves as the module Client says.
THEOREM BindingsUseClient == BindingsSpec => Spec
<1>1. BindingsInit => Init
  BY DEF BindingsInit
<1>2. QED
  BY <1>1, ClientStep, PTL DEF BindingsSpec, Spec

\* How far the Java object, the native one and the client have come.
LifeInv ==
    /\ listener \in Listeners \cup {NoListener}
    /\ java \in {"usable", "destroying", "destroyed"}
    /\ java = "usable" <=> life = "alive"
    /\ java = "destroyed" => life = "freed"
    /\ java # "destroyed" => jc = "live"

\* The steps that run handlers are those of connect(), of a live network thread
\* or of the destructor, which comes before the release.
LEMMA NativeStep ==
    HandlerInv /\ LifeInv /\ NoUseAfterDestroy /\ Native
        => (LifeInv /\ NoUseAfterDestroy)'
<1> SUFFICES ASSUME HandlerInv, LifeInv, NoUseAfterDestroy, Native
             PROVE  (LifeInv /\ NoUseAfterDestroy)'
  OBVIOUS
<1>1. /\ java # "destroyed"
      /\ life' = "alive" <=> life = "alive"
      /\ UNCHANGED javaVars
  <2>1. CASE ServiceStart \/ InService \/ Callback
    <3>1. net # "gone" /\ UNCHANGED life
      BY <2>1 DEF ServiceStart, InService, Callback, appVars, SwapFlowRequests,
          ApplyFlowRequest, SwapResetRequests, ApplyReset, PopOutbound, ServiceReturn,
          OnConnected, OnMalformed, OnClose, RunClosedHandler, PublishClosed, OnFrame
    <3>2. QED
      BY <3>1 DEF HandlerInv, LifeInv, Native
  <2>2. CASE SilenceClosed \/ FreeContext
    BY <2>2 DEF SilenceClosed, FreeContext, LifeInv, Native
  <2>3. CASE java = "usable" /\ (Connect \/ ConnectFails)
    BY <2>3 DEF Connect, ConnectFails, appVars, Native
  <2>4. QED
    BY <2>1, <2>2, <2>3 DEF Native
<1>2. ~dangling'
  <2>1. CASE UNCHANGED seenVars
    BY <2>1 DEF seenVars, NoUseAfterDestroy
  <2>2. CASE ~UNCHANGED seenVars
    <3>1. jc = "live" /\ refs = {"Frame", listener} \ {NoListener}
      BY <1>1 DEF LifeInv, NoUseAfterDestroy
    <3>2. listener # NoListener
      BY <2>2, <3>1 DEF Native, Trampolines
    <3>3. listener \in refs /\ "Frame" \in refs
      BY <3>1, <3>2, ListenerAssumption
    <3>4. QED
      BY <2>2, <3>1, <3>2, <3>3 DEF Native, Trampolines, NoUseAfterDestroy
  <2>3. QED
    BY <2>1, <2>2
<1>3. QED
  BY <1>1, <1>2 DEF LifeInv, NoUseAfterDestroy, javaVars

\* The other steps.
LEMMA BindingsStep ==
    HandlerInv /\ LifeInv /\ NoUseAfterDestroy /\ [BindingsNext]_<<vars, bindingVars>>
        => (LifeInv /\ NoUseAfterDestroy)'
<1> SUFFICES ASSUME HandlerInv, LifeInv, NoUseAfterDestroy,
                    [BindingsNext]_<<vars, bindingVars>>
             PROVE  (LifeInv /\ NoUseAfterDestroy)'
  OBVIOUS
<1> USE DEF LifeInv, NoUseAfterDestroy
<1>1. ASSUME NEW l \in Listeners \cup {NoListener}, SetListener(l)
      PROVE  (LifeInv /\ NoUseAfterDestroy)'
  BY <1>1, ListenerAssumption DEF SetListener, vars, appVars, seenVars
<1>2. CASE PassOn
  <2>1. UNCHANGED life
    BY <1>2 DEF PassOn, SetStarted, Close, SendCheck, SendPush, SendWake,
        RequestFlow, appVars
  <2>2. QED
    BY <1>2, <2>1 DEF PassOn, bindingVars, javaVars, seenVars
<1>3. CASE Destroy
  BY <1>3 DEF Destroy, JoinNetworkThread, seenVars
<1>4. CASE Native
  BY <1>4, NativeStep
<1>5. CASE Release
  BY <1>5 DEF Release, Released, vars, appVars, seenVars
<1>6. CASE UNCHANGED <<vars, bindingVars>>
  BY <1>6 DEF vars, appVars, bindingVars, javaVars, seenVars
<1>7. QED
  BY <1>1, <1>2, <1>3, <1>4, <1>5, <1>6 DEF BindingsNext

-----------------------------------------------------------------------------
(* What Java is given.                                                     *)

\* A listener is set before connect(), so it misses nothing from before it.
SeenInv ==
    /\ listener # NoListener => registered
    /\ Unconnected \/ (listener # NoListener /\ ~missed)
          => seen = delivered /\ told = handler_runs

\* What is left of a queue when a first part is cut off.
LEMMA Remainder ==
    ASSUME NEW d \in Seq(Frames), NEW u \in Seq(Frames)
    PROVE  SubSeq(d \o u, Len(d) + 1, Len(d \o u)) = u
<1> DEFINE v == SubSeq(d \o u, Len(d) + 1, Len(d \o u))
<1>1. /\ d \o u \in Seq(Frames) /\ Len(d \o u) = Len(d) + Len(u)
      /\ Len(d) \in Nat /\ Len(u) \in Nat
  BY SMTT(60)
<1>2. v \in Seq(Frames) /\ Len(v) = Len(u)
  BY <1>1, SMTT(60)
<1>3. \A i \in 1..Len(u) : v[i] = u[i]
  BY <1>1, <1>2, SMTT(60)
<1> QED
  BY <1>2, <1>3, SMTT(60)

\* The message handler is only ever given more.
LEMMA DeliveredGrows ==
    ASSUME TableTypes, RequestTypes, [Next]_vars
    PROVE  \A f \in Flows : /\ NewFrames(f) \in Seq(Frames)
                             /\ delivered[f] \o NewFrames(f) = delivered'[f]
<1> SUFFICES ASSUME NEW f \in Flows
             PROVE  /\ NewFrames(f) \in Seq(Frames)
                    /\ delivered[f] \o NewFrames(f) = delivered'[f]
  OBVIOUS
<1>1. \E u \in Seq(Frames) : delivered'[f] = delivered[f] \o u
  <2>1. CASE delivered'[f] = delivered[f]
    <3>1. <<>> \in Seq(Frames) /\ delivered[f] \in Seq(Frames)
      BY SMTT(60) DEF TableTypes
    <3>2. delivered'[f] = delivered[f] \o <<>>
      BY <2>1, <3>1, ConcatNothing
    <3> QED
      BY <3>1, <3>2
  <2>2. CASE ApplyFlowRequest
    <3>1. CASE UNCHANGED delivered
      BY <2>1, <3>1
    <3>2. CASE requests # <<>> /\ ~UNCHANGED delivered
      <4>1. PICK g \in Flows : delivered' = [delivered EXCEPT ![g] = @ \o unknown[g]]
        <5>1. Head(requests) \in Requests
          BY <3>2, SMTT(60) DEF RequestTypes
        <5> QED
          BY <2>2, <3>2, <5>1 DEF ApplyFlowRequest, ApplyBind, Requests
      <4>2. CASE f = g
        BY <4>1, <4>2 DEF TableTypes
      <4>3. CASE f # g
        BY <4>1, <4>3, <2>1 DEF TableTypes
      <4> QED
        BY <4>2, <4>3
    <3> QED
      BY <2>2, <3>1, <3>2 DEF ApplyFlowRequest
  <2>3. ASSUME NEW g \in Flows, NEW n \in Sizes, NEW b \in BOOLEAN, OnFrame(g, n, b)
        PROVE  \E u \in Seq(Frames) : delivered'[f] = delivered[f] \o u
    <3> DEFINE x == [id |-> arrivals + 1, size |-> n]
    <3>1. x \in Frames /\ Gate(g, x)
      BY <2>3, SMTT(60) DEF OnFrame, Frames, TableTypes
    <3> HIDE DEF x
    <3>2. CASE delivered' = [delivered EXCEPT ![g] = Append(@, x)] /\ f = g
      <4>1. delivered'[f] = Append(delivered[f], x) /\ delivered[f] \in Seq(Frames)
        BY <3>2 DEF TableTypes
      <4>2. <<x>> \in Seq(Frames) /\ delivered'[f] = delivered[f] \o <<x>>
        BY <3>1, <4>1, SMTT(60)
      <4> QED
        BY <4>2
    <3>3. CASE delivered' = [delivered EXCEPT ![g] = Append(@, x)] /\ f # g
      BY <2>1, <3>3 DEF TableTypes
    <3> QED
      BY <2>1, <3>1, <3>2, <3>3 DEF Gate
  <2>4. ASSUME ~ApplyFlowRequest, ~(\E g \in Flows, n \in Sizes, b \in BOOLEAN : OnFrame(g, n, b))
        PROVE  UNCHANGED delivered
    BY <2>4 DEF vars, Next, App, InService, Callback, historyVars, Connect, ConnectFails, SetStarted,
        Close, SendCheck, SendPush, SendWake, RequestFlow, ResetFlowStream,
        JoinNetworkThread, SilenceClosed, FreeContext, ServiceStart, SwapFlowRequests,
        SwapResetRequests, ApplyReset, PopOutbound, ServiceReturn, OnConnected,
        OnMalformed, OnClose, RunClosedHandler, PublishClosed
  <2> QED
    BY <2>1, <2>2, <2>3, <2>4
<1>2. PICK u \in Seq(Frames) : delivered'[f] = delivered[f] \o u
  BY <1>1
<1>3. delivered[f] \in Seq(Frames)
  BY DEF TableTypes
<1>4. NewFrames(f) = u
  BY <1>2, <1>3, Remainder DEF NewFrames
<1> QED
  BY <1>2, <1>4

\* The steps that run handlers: only once connect() was called, and the closed
\* handler runs once in a step.
LEMMA HandlersRun ==
    ASSUME ControlTypes, HandlerInv, Native
    PROVE  /\ Unconnected' => Unconnected
           /\ Unconnected => UNCHANGED <<delivered, handler_runs>>
           /\ handler_runs' \in {handler_runs, handler_runs + 1}
<1>1. CASE ServiceStart \/ InService \/ Callback
  <2>1. net # "none" /\ net' # "none"
    BY <1>1 DEF ServiceStart, InService, Callback, netVars, SwapFlowRequests,
        ApplyFlowRequest, SwapResetRequests, ApplyReset, PopOutbound, ServiceReturn,
        OnConnected, OnMalformed, OnClose, RunClosedHandler, PublishClosed, OnFrame
  <2>2. handler_runs' \in {handler_runs, handler_runs + 1}
    BY <1>1 DEF ServiceStart, InService, Callback, historyVars, SwapFlowRequests,
        ApplyFlowRequest, SwapResetRequests, ApplyReset, PopOutbound, ServiceReturn,
        OnConnected, OnMalformed, OnClose, RunClosedHandler, PublishClosed, OnFrame
  <2> QED
    BY <2>1, <2>2 DEF Unconnected
<1>2. CASE SilenceClosed \/ FreeContext
  BY <1>2 DEF SilenceClosed, FreeContext, historyVars, netVars, HandlerInv, Unconnected
<1>3. CASE Connect \/ ConnectFails
  BY <1>3 DEF Connect, ConnectFails, ReplaceContext, ControlTypes, HandlerInv, netVars,
     Unconnected
<1> QED
  BY <1>1, <1>2, <1>3 DEF Native

\* Calls that all get through bring Java what the client delivers.
LEMMA SeenByNative ==
    ASSUME TableTypes, RequestTypes, ControlTypes, HandlerInv, LifeInv, NoUseAfterDestroy,
           SeenInv, Native
    PROVE  SeenInv'
<1>1. listener' = listener /\ registered' = registered /\ jc' = jc
  BY DEF Native, javaVars
<1>2. [Next]_vars
  BY ClientStep DEF BindingsNext
<1>3. CASE Unconnected
  <2>1. UNCHANGED <<delivered, handler_runs>>
    BY <1>3, HandlersRun
  <2>2. UNCHANGED seenVars
    BY <2>1 DEF Native, Trampolines
  <2> QED
    BY <1>1, <1>3, <2>1, <2>2 DEF SeenInv, seenVars
<1>4. CASE ~Unconnected
  <2>1. ~Unconnected'
    BY <1>4, HandlersRun
  <2> SUFFICES ASSUME listener # NoListener, ~missed'
               PROVE  seen' = delivered' /\ told' = handler_runs'
    BY <1>1, <2>1 DEF SeenInv
  <2>2. registered
    BY DEF SeenInv
  <2>3. CASE UNCHANGED <<delivered, handler_runs>>
    BY <2>3 DEF Native, Trampolines, seenVars, SeenInv
  <2>4. CASE ~UNCHANGED <<delivered, handler_runs>>
    <3> DEFINE closes == handler_runs' # handler_runs
               ids == UNION {{NewFrames(f)[i].id : i \in DOMAIN NewFrames(f)} : f \in Flows}
    <3>1. PICK attached \in SUBSET ids, env \in BOOLEAN :
             /\ seen' = [f \in Flows |-> seen[f] \o Through(NewFrames(f), attached)]
             /\ told' = IF closes /\ env THEN told + 1 ELSE told
             /\ missed' = (missed \/ attached # ids \/ (closes /\ ~env))
      BY <2>2, <2>4 DEF Native, Trampolines
    <3>2. ~missed /\ attached = ids /\ (closes => env)
      BY <3>1
    <3>3. seen = delivered /\ told = handler_runs
      BY <3>2 DEF SeenInv
    <3>4. told' = handler_runs'
      BY <3>1, <3>2, <3>3, HandlersRun
    <3>5. ASSUME NEW f \in Flows PROVE Through(NewFrames(f), attached) = NewFrames(f)
      <4>1. PICK u \in Seq(Frames) : u = NewFrames(f)
        BY <1>2, DeliveredGrows
      <4>2. \A i \in DOMAIN u : u[i].id \in attached
        <5> TAKE i \in DOMAIN u
        <5>1. u[i].id \in {NewFrames(f)[j].id : j \in DOMAIN NewFrames(f)}
          BY <4>1
        <5>2. u[i].id \in ids
          BY <5>1
        <5> QED
          BY <3>2, <5>2
      <4>3. Through(u, attached) = u
        BY <4>2, SMTT(60) DEF Through
      <4> QED
        BY <4>1, <4>3
    <3>6. seen' = [f \in Flows |-> delivered[f] \o NewFrames(f)]
      BY <3>1, <3>3, <3>5
    <3>7. delivered' \in [Flows -> Seq(Frames)]
      BY <1>2, TableStep DEF TableTypes
    <3> QED
      BY <3>4, <3>6, <3>7, <1>2, DeliveredGrows
  <2> QED
    BY <2>3, <2>4
<1> QED
  BY <1>3, <1>4

\* The other steps run no handler.
LEMMA SeenStep ==
    ASSUME TableTypes, RequestTypes, ControlTypes, HandlerInv, LifeInv, NoUseAfterDestroy,
           SeenInv, [BindingsNext]_<<vars, bindingVars>>
    PROVE  SeenInv'
<1>1. ASSUME NEW l \in Listeners \cup {NoListener}, SetListener(l) PROVE SeenInv'
  BY <1>1 DEF SetListener, SeenInv, vars, lockVars, netVars, quicVars, historyVars, seenVars,
     Unconnected
<1>2. CASE PassOn
  <2>1. UNCHANGED <<delivered, handler_runs, net, cnx, closing>>
    <3>1. CASE SetStarted \/ Close
      BY <3>1 DEF SetStarted, Close, netVars, quicVars, historyVars
    <3>2. CASE \E s \in Senders : SendCheck(s) \/ SendPush(s) \/ SendWake(s)
      BY <3>2 DEF SendCheck, SendPush, SendWake, lockVars, netVars, quicVars, historyVars
    <3>3. CASE \E f \in Flows, b \in BOOLEAN : RequestFlow(f, b)
      BY <3>3 DEF RequestFlow, lockVars, quicVars, historyVars
    <3> QED
      BY <1>2, <3>1, <3>2, <3>3 DEF PassOn
  <2> QED
    BY <1>2, <2>1 DEF PassOn, bindingVars, javaVars, seenVars, SeenInv, Unconnected
<1>3. CASE Destroy
  BY <1>3 DEF Destroy, JoinNetworkThread, historyVars, seenVars, SeenInv, Unconnected
<1>4. CASE Native
  BY <1>4, SeenByNative
<1>5. CASE Release
  BY <1>5 DEF Release, vars, lockVars, netVars, quicVars, historyVars, seenVars, SeenInv,
     Unconnected
<1>6. CASE UNCHANGED <<vars, bindingVars>>
  BY <1>6 DEF vars, lockVars, netVars, quicVars, historyVars, bindingVars, javaVars,
     seenVars, SeenInv, Unconnected
<1>7. QED
  BY <1>1, <1>2, <1>3, <1>4, <1>5, <1>6 DEF BindingsNext

\* Nothing is used after it was deleted; and a Java listener, when the JVM
\* attaches the network thread each time, is given all that the client delivers,
\* in order, and told of the close as often as the client's closed handler runs.
THEOREM BindingsExact == BindingsSpec => []JavaExact
<1>1. BindingsInit => LifeInv /\ NoUseAfterDestroy /\ SeenInv
  BY ListenerAssumption
  DEF BindingsInit, Init, LifeInv, NoUseAfterDestroy, SeenInv
<1>2. BindingsSpec => [](TableTypes /\ RequestTypes /\ ControlTypes /\ HandlerInv)
  <2>1. Spec => [](TableTypes /\ RequestTypes /\ ControlTypes /\ HandlerInv)
    BY InitInv, HandlerStep, TypeParts, TypeCorrect, PTL DEF Spec
  <2>2. QED
    BY <2>1, BindingsUseClient, PTL
<1>3. SeenInv /\ NoUseAfterDestroy => JavaExact
  BY DEF SeenInv, JavaExact
<1>4. QED
  BY <1>1, <1>2, <1>3, BindingsStep, SeenStep, PTL DEF BindingsSpec
=============================================================================
