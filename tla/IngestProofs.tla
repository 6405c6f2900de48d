----------------------------- MODULE IngestProofs -----------------------------
(***************************************************************************)
(* Proofs about Supervisor and about Ingest, the gateway that owns one,    *)
(* for any Clients, policy, sessions and bounds.                           *)
(*                                                                         *)
(* None of the supervisor's safety properties is inductive alone: all of   *)
(* them rest on where the supervisor thread stands when a network thread   *)
(* exists (CellInv), when a Client is published (PublishInv) and when it   *)
(* is known to have come up (UpInv).  The gateway uses its supervisor as   *)
(* the supervisor expects, so all this holds inside it; that stop() leaves *)
(* nothing running also needs what each stage of stop() has already ended  *)
(* (StageInv) and who has started the supervisor (OwnerInv).               *)
(***************************************************************************)
EXTENDS Ingest, TLAPS

\* The provers to try, with time enough for the larger steps.
USE ZenonT(60), SMTT(60)

\* Positions with a network thread; positions with a published Client.
Live == {"publish", "wait", "check", "notup", "success", "ready", "serve",
         "drop", "joinStop", "joinFail", "joinDrop", "joinExit"}
Published == {"wait", "check", "notup", "success", "ready", "serve", "drop"}

\* A network thread belongs to the Client in hand, and exists exactly in the
\* Live positions.
CellInv ==
    /\ \A c \in Clients : thread[c] # "none" => cur = c /\ pc \in Live
    /\ pc \in Live => cur \in Clients /\ thread[cur] # "none"
    /\ pc \in {"arm", "connect"} => cur \in Clients

\* The published Client is the one in hand, in the Published positions only.
PublishInv ==
    /\ pc \in Published => client = cur
    /\ pc \notin Published => client = NoClient

\* A thread inside signal_closed() has latched `closing`; a Client without a
\* network thread has not.
ClosingInv ==
    /\ \A c \in Clients : thread[c] \in {"latched", "handled"} => c \in cClosing
    /\ \A c \in cClosing : thread[c] # "none"

\* What is known to have come up, and where connected may be set.
UpInv ==
    /\ pc = "check" /\ up => cur \in cConnected
    /\ pc \in {"success", "ready", "serve", "drop"} => cur \in cConnected
    /\ connected => pc \in {"ready", "serve", "drop"}

\* The life of the supervisor thread.
LifeInv ==
    /\ ~started <=> pc = "off"
    /\ stopping => started
    /\ joined => pc = "done"
    /\ failed => pc \in {"exit", "done"}
    /\ pc \in {"joinStop", "exit", "done"} => stopping \/ failed
    /\ pc # "joinExit"
    /\ first_connect => reconnect_count = 0

\* Where frames of a connection may be found: nothing is left of an earlier one.
SentInv ==
    \A c \in Clients : sent[c] # <<>> =>
        c = cur /\ pc \in {"ready", "serve", "drop", "joinStop", "joinDrop"}

IInv ==
    /\ TypeOK /\ CellInv /\ PublishInv /\ ClosingInv /\ UpInv /\ LifeInv
    /\ SentInv /\ DropSignalExact /\ StopClosesClient /\ SendsOnlyWhenUp

\* The empty outbound queue is well typed.
LEMMA EmptyQueue == <<>> \in Seq(Messages)
  BY SMTT(60)

\* The inductive invariant holds before start() is called.
LEMMA InitIInv == Init => IInv
<1> USE ClientAssumption, GreetingAssumption
    DEF Live, Published, Armed, PCs, Joining, ThreadStates
<1>1. Init => TypeOK
  <2> SUFFICES ASSUME Init PROVE TypeOK
    OBVIOUS
  <2>1. sent \in [Clients -> Seq(Messages)]
    BY EmptyQueue DEF Init
  <2>2. thread \in [Clients -> ThreadStates]
    BY DEF Init
  <2>3. greeted \in 0..Len(Greeting)
    BY SMTT(60) DEF Init
  <2>4. client = NoClient /\ cur = NoClient /\ pc = "off" /\ stopper = "idle"
    BY DEF Init
  <2>5. QED
    BY <2>1, <2>2, <2>3, <2>4 DEF Init, TypeOK
<1>2. Init => CellInv
  BY DEF Init, CellInv
<1>3. Init => PublishInv
  BY DEF Init, PublishInv
<1>4. Init => ClosingInv
  BY DEF Init, ClosingInv
<1>5. Init => UpInv
  BY DEF Init, UpInv
<1>6. Init => LifeInv
  BY DEF Init, LifeInv
<1>7. Init => DropSignalExact
  BY DEF Init, DropSignalExact
<1>8. Init => StopClosesClient
  BY DEF Init, StopClosesClient
<1>9. Init => SendsOnlyWhenUp
  BY DEF Init, SendsOnlyWhenUp
<1>10. Init => SentInv
  BY DEF Init, SentInv
<1>11. QED
  BY <1>1, <1>2, <1>3, <1>4, <1>5, <1>6, <1>7, <1>8, <1>9, <1>10 DEF IInv

\* Every step of every thread preserves the inductive invariant.
LEMMA NextIInv == IInv /\ [Next]_vars => IInv'
<1> SUFFICES ASSUME IInv, [Next]_vars PROVE IInv'
  OBVIOUS
<1> USE ClientAssumption, BoundAssumption, GreetingAssumption
    DEF IInv, TypeOK, CellInv, PublishInv, ClosingInv, UpInv, LifeInv, SentInv,
        DropSignalExact, StopClosesClient, SendsOnlyWhenUp, Live, Published,
        Armed, PCs, Joining, ThreadStates, callVars, stateVars, localVars,
        flagVars, clientVars
<1>1. CASE LoopTop
  <2>1. TypeOK'
    BY <1>1 DEF LoopTop
  <2>2. CellInv'
    BY <1>1 DEF LoopTop
  <2>3. PublishInv'
    BY <1>1 DEF LoopTop
  <2>4. ClosingInv'
    BY <1>1 DEF LoopTop
  <2>5. UpInv'
    BY <1>1 DEF LoopTop
  <2>6. LifeInv'
    BY <1>1 DEF LoopTop
  <2>7. SentInv'
    BY <1>1 DEF LoopTop
  <2>8. DropSignalExact'
    BY <1>1 DEF LoopTop
  <2>9. StopClosesClient'
    BY <1>1 DEF LoopTop
  <2>10. SendsOnlyWhenUp'
    BY <1>1 DEF LoopTop
  <2>11. QED
    BY <2>1, <2>2, <2>3, <2>4, <2>5, <2>6, <2>7, <2>8, <2>9, <2>10
<1>2. CASE ResetDrop
  BY <1>2 DEF ResetDrop
<1>3. CASE Connect
  BY <1>3 DEF Connect
<1>4. CASE Publish
  BY <1>4 DEF Publish
<1>5. CASE WaitConnected
  BY <1>5, SMTT(60) DEF WaitConnected, WaitReturns
<1>6. CASE CheckStop
  BY <1>6 DEF CheckStop, AfterWait
<1>7. CASE NotUp
  BY <1>7 DEF NotUp
<1>8. CASE Success
  <2>1. TypeOK'
    <3>1. reconnect_count' \in Nat
      BY <1>8, SMTT(60) DEF Success
    <3>2. connected' \in BOOLEAN /\ first_connect' \in BOOLEAN
      BY <1>8 DEF Success
    <3>3. pc' \in PCs /\ attempts' \in Nat
      BY <1>8 DEF Success
    <3>4. QED
      BY <1>8, <3>1, <3>2, <3>3, SMTT(60) DEF Success
  <2>2. CellInv'
    BY <1>8 DEF Success
  <2>3. PublishInv'
    BY <1>8 DEF Success
  <2>4. ClosingInv'
    BY <1>8 DEF Success
  <2>5. UpInv'
    BY <1>8 DEF Success
  <2>6. LifeInv'
    BY <1>8 DEF Success
  <2>7. SentInv'
    BY <1>8 DEF Success
  <2>8. DropSignalExact'
    BY <1>8 DEF Success
  <2>9. StopClosesClient'
    BY <1>8 DEF Success
  <2>10. SendsOnlyWhenUp'
    BY <1>8 DEF Success
  <2>11. QED
    BY <2>1, <2>2, <2>3, <2>4, <2>5, <2>6, <2>7, <2>8, <2>9, <2>10
<1>9. CASE OnReady
  <2>1. TypeOK'
    <3>1. sent' \in [Clients -> Seq(Messages)]
      <4>1. CASE Greeted
        BY <1>9, <4>1 DEF OnReady
      <4>2. CASE ~Greeted
        <5>1. Greeting[greeted + 1] \in Messages
          BY <4>2, SMTT(60) DEF Greeted, Messages
        <5>2. Append(sent[cur], Greeting[greeted + 1]) \in Seq(Messages)
          BY <1>9, <5>1, SMTT(60) DEF OnReady
        <5>3. QED
          BY <1>9, <4>2, <5>2 DEF OnReady, HandOver
      <4>3. QED
        BY <4>1, <4>2
    <3>2. greeted' \in 0..Len(Greeting) /\ pc' \in PCs
      BY <1>9, SMTT(60) DEF OnReady, Greeted
    <3>3. QED
      BY <1>9, <3>1, <3>2 DEF OnReady
  <2>2. CellInv'
    BY <1>9 DEF OnReady, Greeted, HandOver, Accepts, Messages
  <2>3. PublishInv'
    BY <1>9 DEF OnReady, Greeted, HandOver, Accepts, Messages
  <2>4. ClosingInv'
    BY <1>9 DEF OnReady, Greeted, HandOver, Accepts, Messages
  <2>5. UpInv'
    BY <1>9 DEF OnReady, Greeted, HandOver, Accepts, Messages
  <2>6. LifeInv'
    BY <1>9 DEF OnReady, Greeted, HandOver, Accepts, Messages
  <2>7. SentInv'
    BY <1>9 DEF OnReady, Greeted, HandOver, Accepts, Messages
  <2>8. DropSignalExact'
    BY <1>9 DEF OnReady, Greeted, HandOver, Accepts, Messages
  <2>9. StopClosesClient'
    BY <1>9 DEF OnReady, Greeted, HandOver, Accepts, Messages
  <2>10. SendsOnlyWhenUp'
    BY <1>9 DEF OnReady, Greeted, HandOver, Accepts, Messages
  <2>11. QED
    BY <2>1, <2>2, <2>3, <2>4, <2>5, <2>6, <2>7, <2>8, <2>9, <2>10
<1>10. CASE ServeUntilDrop
  BY <1>10, SMTT(60) DEF ServeUntilDrop, Woken
<1>11. CASE TakeDown
  BY <1>11 DEF TakeDown
<1>12. CASE DestroyClient
  <2>1. TypeOK'
    BY <1>12, SMTT(60) DEF DestroyClient, JoinNext
  <2>2. CellInv'
    BY <1>12, SMTT(60) DEF DestroyClient, JoinNext
  <2>3. PublishInv'
    BY <1>12 DEF DestroyClient, JoinNext
  <2>4. ClosingInv'
    BY <1>12 DEF DestroyClient, JoinNext
  <2>5. UpInv'
    BY <1>12, SMTT(60) DEF DestroyClient, JoinNext
  <2>6. LifeInv'
    BY <1>12, SMTT(60) DEF DestroyClient, JoinNext
  <2>7. SentInv'
    BY <1>12 DEF DestroyClient, JoinNext
  <2>8. DropSignalExact'
    BY <1>12, SMTT(60) DEF DestroyClient, JoinNext
  <2>9. StopClosesClient'
    BY <1>12 DEF DestroyClient, JoinNext
  <2>10. SendsOnlyWhenUp'
    BY <1>12 DEF DestroyClient, JoinNext
  <2>11. QED
    BY <2>1, <2>2, <2>3, <2>4, <2>5, <2>6, <2>7, <2>8, <2>9, <2>10
<1>13. CASE HandleFailedAttempt
  <2>1. TypeOK'
    <3>1. attempts' \in Nat /\ pc' \in PCs
      BY <1>13, SMTT(60) DEF HandleFailedAttempt
    <3>2. failed' \in BOOLEAN
      BY <1>13 DEF HandleFailedAttempt, GivesUp
    <3>3. QED
      BY <1>13, <3>1, <3>2 DEF HandleFailedAttempt
  <2>2. CellInv'
    BY <1>13 DEF HandleFailedAttempt, GivesUp
  <2>3. PublishInv'
    BY <1>13 DEF HandleFailedAttempt, GivesUp
  <2>4. ClosingInv'
    BY <1>13 DEF HandleFailedAttempt, GivesUp
  <2>5. UpInv'
    BY <1>13 DEF HandleFailedAttempt, GivesUp
  <2>6. LifeInv'
    BY <1>13 DEF HandleFailedAttempt, GivesUp
  <2>7. SentInv'
    BY <1>13 DEF HandleFailedAttempt, GivesUp
  <2>8. DropSignalExact'
    BY <1>13 DEF HandleFailedAttempt, GivesUp
  <2>9. StopClosesClient'
    BY <1>13 DEF HandleFailedAttempt, GivesUp
  <2>10. SendsOnlyWhenUp'
    BY <1>13 DEF HandleFailedAttempt, GivesUp
  <2>11. QED
    BY <2>1, <2>2, <2>3, <2>4, <2>5, <2>6, <2>7, <2>8, <2>9, <2>10
<1>14. CASE BackoffStopped
  BY <1>14 DEF BackoffStopped, BackoffExpired
<1>15. CASE ExitLoop
  BY <1>15 DEF ExitLoop
<1>16. CASE ConnectTimeout
  BY <1>16, SMTT(60) DEF ConnectTimeout, WaitReturns
<1>17. CASE BackoffExpired
  BY <1>17 DEF BackoffExpired
<1>18. CASE Start
  BY <1>18 DEF Start
<1>19. CASE Stop
  BY <1>19, SMTT(60) DEF Stop
<1>20. CASE StopReturn
  BY <1>20 DEF StopReturn
<1>21. ASSUME NEW m \in Media, Send(m) PROVE IInv'
  BY <1>21, SMTT(60) DEF Send, HandOver, Accepts, Messages
<1>22. ASSUME NEW c \in Clients, NetReady(c) PROVE IInv'
  BY <1>22, SMTT(60) DEF NetReady
<1>23. ASSUME NEW c \in Clients, NetClose(c) PROVE IInv'
  BY <1>23, SMTT(60) DEF NetClose
<1>24. ASSUME NEW c \in Clients, OnClosed(c) PROVE IInv'
  BY <1>24, SMTT(60) DEF OnClosed
<1>25. ASSUME NEW c \in Clients, NetClosed(c) PROVE IInv'
  BY <1>25, SMTT(60) DEF NetClosed
<1>26. CASE UNCHANGED vars
  BY <1>26, SMTT(60) DEF vars
<1>27. QED
  BY <1>1, <1>2, <1>3, <1>4, <1>5, <1>6, <1>7, <1>8, <1>9, <1>10, <1>11, <1>12, <1>13,
     <1>14, <1>15, <1>16, <1>17, <1>18, <1>19, <1>20, <1>21, <1>22, <1>23, <1>24, <1>25, <1>26
  DEF Next, RunStep, Timer, App, Net

\* The inductive invariant holds in every reachable state.
THEOREM Invariance == Spec => []IInv
  BY InitIInv, NextIInv, PTL DEF Spec

\* Type correctness of the supervisor's state.
THEOREM TypeCorrect == Spec => []TypeOK
<1>1. IInv => TypeOK
  BY DEF IInv
<1>2. QED
  BY <1>1, Invariance, PTL

\* Never two network threads at once, however drops, timeouts and stops fall.
THEOREM SingleNetworkThread == Spec => []OneNetworkThread
<1>1. IInv => OneNetworkThread
  BY DEF IInv, CellInv, OneNetworkThread, Running
<1>2. QED
  BY <1>1, Invariance, PTL

\* A drop signal is neither lost nor inherited from an earlier Client.
THEOREM DropSignal == Spec => []DropSignalExact
<1>1. IInv => DropSignalExact
  BY DEF IInv
<1>2. QED
  BY <1>1, Invariance, PTL

\* stop() and the publishing step never miss each other.
THEOREM StopReachesClient == Spec => []StopClosesClient
<1>1. IInv => StopClosesClient
  BY DEF IInv
<1>2. QED
  BY <1>1, Invariance, PTL

\* connected() speaks of a live Client that completed its handshake.
THEOREM ConnectedIsUp == Spec => []ConnectedMeansUp
<1>1. IInv => ConnectedMeansUp
  BY ClientAssumption
  DEF IInv, TypeOK, CellInv, PublishInv, UpInv, ConnectedMeansUp, Live,
      Published
<1>2. QED
  BY <1>1, Invariance, PTL

\* Frames are only ever accepted for a Client that has come up.
THEOREM SendsAfterUp == Spec => []SendsOnlyWhenUp
<1>1. IInv => SendsOnlyWhenUp
  BY DEF IInv
<1>2. QED
  BY <1>1, Invariance, PTL

\* Once stop() has returned nothing of the supervisor runs any more.
THEOREM Quiescence == Spec => []StoppedIsQuiescent
<1>1. IInv => StoppedIsQuiescent
  BY DEF IInv, CellInv, PublishInv, UpInv, LifeInv, StoppedIsQuiescent,
         Running, Live, Published
<1>2. QED
  BY <1>1, Invariance, PTL

-----------------------------------------------------------------------------
(* The supervisor implements Link.                                         *)

\* A supervisor that was not started is a link that has not begun.
LEMMA LinkInit == Init => L!Init
  BY DEF Init, L!Init

\* Every step of every thread is a step of the link, or none.
LEMMA LinkStep == IInv /\ [Next]_vars => [L!Next]_(L!linkVars)
<1> SUFFICES ASSUME IInv, [Next]_vars PROVE L!Next \/ UNCHANGED L!linkVars
  OBVIOUS
<1> USE ClientAssumption, BoundAssumption, GreetingAssumption
    DEF callVars, stateVars, localVars, flagVars, clientVars, L!linkVars
<1>a. TypeOK /\ LifeInv /\ PublishInv /\ UpInv /\ SentInv /\ StopClosesClient
  BY DEF IInv
<1>1. CASE Start
  <2>1. L!Begin
    BY <1>a, <1>1 DEF Start, L!Begin, UpInv, LifeInv, TypeOK
  <2>2. QED
    BY <2>1 DEF L!Next
<1>2. CASE Success
  <2>1. sent[client] = <<>>
    BY <1>a, <1>2 DEF Success, SentInv, PublishInv, Published, TypeOK, UpInv
  <2>2. ~connected /\ ~failed
    BY <1>a, <1>2 DEF Success, UpInv, LifeInv
  <2>3. reconnect_count' + 1 = (IF first_connect THEN 0 ELSE reconnect_count + 1) + 1
    BY <1>a, <1>2 DEF Success, TypeOK, LifeInv
  <2>4. L!ComeUp
    BY <1>2, <2>1, <2>2, <2>3 DEF Success, L!ComeUp
  <2>5. QED
    BY <2>4 DEF L!Next
<1>3. ASSUME NEW m \in Messages, connected, HandOver(client, m),
             pc \in {"ready", "serve", "drop"}, pc' \in {"ready", "serve", "drop"},
             UNCHANGED <<callVars, stateVars, client, first_connect, attempts>>
      PROVE  L!Next \/ UNCHANGED L!linkVars
  <2>1. CASE ~Accepts(client)
    BY <1>3, <2>1 DEF HandOver
  <2>2. CASE Accepts(client)
    <3>1. client \in Clients /\ ~stopping
      BY <1>a, <1>3, <2>2
      DEF TypeOK, PublishInv, Published, UpInv, StopClosesClient, Accepts
    <3>2. sent'[client] = Append(sent[client], m)
      BY <1>a, <1>3, <2>2, <3>1 DEF HandOver, TypeOK
    <3>3. L!Take(m)
      BY <1>3, <3>1, <3>2 DEF L!Take
    <3>4. QED
      BY <3>3 DEF L!Next
  <2>3. QED
    BY <2>1, <2>2
<1>4. CASE OnReady
  <2>1. client = cur
    BY <1>a, <1>4 DEF OnReady, PublishInv, Published
  <2>2. CASE Greeted \/ ~connected
    BY <1>4, <2>2 DEF OnReady
  <2>3. CASE ~Greeted /\ connected
    <3>1. Greeting[greeted + 1] \in Messages
      BY <1>a, <2>3, SMTT(60) DEF Greeted, Messages, TypeOK
    <3>2. QED
      BY <1>3, <1>4, <2>1, <2>3, <3>1 DEF OnReady
  <2>4. QED
    BY <2>2, <2>3
<1>5. ASSUME NEW m \in Media, Send(m) PROVE L!Next \/ UNCHANGED L!linkVars
  <2>1. pc \in {"ready", "serve", "drop"} /\ m \in Messages
    BY <1>a, <1>5 DEF Send, UpInv, Messages
  <2>2. QED
    BY <1>3, <1>5, <2>1 DEF Send
<1>6. CASE TakeDown
  <2>1. CASE connected
    <3>1. L!GoDown
      BY <1>6, <2>1 DEF TakeDown, L!GoDown
    <3>2. QED
      BY <3>1 DEF L!Next
  <2>2. CASE ~connected
    BY <1>a, <1>6, <2>2 DEF TakeDown, TypeOK
  <2>3. QED
    BY <2>1, <2>2
<1>7. CASE HandleFailedAttempt
  <2>1. ~connected /\ ~failed
    BY <1>a, <1>7 DEF HandleFailedAttempt, UpInv, LifeInv
  <2>2. CASE stopping
    BY <1>7, <2>1, <2>2 DEF HandleFailedAttempt
  <2>3. CASE ~stopping
    <3>1. L!Fail
      BY <1>7, <2>1, <2>3 DEF HandleFailedAttempt, GivesUp, L!Fail
    <3>2. QED
      BY <3>1 DEF L!Next
  <2>4. QED
    BY <2>2, <2>3
<1>8. CASE ExitLoop
  <2>1. ~connected /\ (stopping \/ failed) /\ client = NoClient
    BY <1>a, <1>8 DEF ExitLoop, UpInv, LifeInv, PublishInv, Published
  <2>2. L!Finish
    BY <1>8, <2>1 DEF ExitLoop, L!Finish
  <2>3. QED
    BY <2>2 DEF L!Next
<1>9. CASE Stop
  <2>1. L!AskStop
    BY <1>a, <1>9 DEF Stop, L!AskStop, LifeInv
  <2>2. QED
    BY <2>1 DEF L!Next
<1>10. CASE CheckStop
  BY <1>a, <1>10 DEF CheckStop, AfterWait, UpInv
<1>11. CASE NotUp
  BY <1>a, <1>11 DEF NotUp, UpInv
<1>12. CASE Publish
  BY <1>a, <1>12 DEF Publish, UpInv
<1>13. CASE DestroyClient
  <2>1. ~connected /\ pc # "joinExit"
    BY <1>a, <1>13 DEF DestroyClient, UpInv, Joining, LifeInv
  <2>2. QED
    BY <1>13, <2>1, SMTT(60) DEF DestroyClient, Joining, JoinNext
<1>14. CASE LoopTop \/ ResetDrop \/ Connect \/ WaitConnected \/ ServeUntilDrop
            \/ BackoffStopped \/ Timer
  BY <1>14, SMTT(60) DEF LoopTop, ResetDrop, Connect, WaitConnected, WaitReturns,
               ServeUntilDrop, BackoffStopped, BackoffExpired, Timer, ConnectTimeout
<1>15. CASE StopReturn \/ UNCHANGED vars
  <2>1. /\ UNCHANGED <<pc, connected, stopping, failed, attempts, first_connect>>
        /\ UNCHANGED <<reconnect_count, sent, client>>
    BY <1>15 DEF StopReturn, vars
  <2>2. QED
    BY <2>1
<1>16. ASSUME NEW c \in Clients, Net(c) PROVE UNCHANGED L!linkVars
  BY <1>16, SMTT(60) DEF Net, NetReady, NetClose, OnClosed, NetClosed
<1>17. QED
  BY <1>1, <1>2, <1>4, <1>5, <1>6, <1>7, <1>8, <1>9, <1>10, <1>11, <1>12, <1>13,
     <1>14, <1>15, <1>16
  DEF Next, RunStep, App

\* The supervisor implements the link its gateways rely on: whatever its threads
\* and the network do, it gives up after exactly MaxAttempts failures in a row
\* and for good, starts every connection with nothing sent, takes nothing after
\* stop() and ends only when stopped or given up.
THEOREM LinkImplemented == Spec => IsLink
<1>1. Init => L!Init
  BY LinkInit
<1>2. IInv /\ [Next]_vars => [L!Next]_(L!linkVars)
  BY LinkStep
<1>3. QED
  BY <1>1, <1>2, Invariance, PTL DEF Spec, IsLink, L!Spec

-----------------------------------------------------------------------------
(* The gateway.                                                            *)

IngestTypeOK ==
    /\ publisher \in Sessions \cup {NoSession} /\ publishing \in BOOLEAN
    /\ acceptor \in {"none", "accept", "got"}
    /\ session \in [Sessions -> {"none", "run", "start", "done"}]
    /\ shut \in SUBSET Sessions
    /\ stage \in {"running", "deaf", "hangup", "join", "halt", "halting", "stopped"}
    /\ starts \in Nat

\* What is over at each stage.
StageInv ==
    /\ stage \notin {"running", "deaf"} => acceptor = "none"
    /\ stage \in {"halt", "halting", "stopped"} => \A s \in Sessions : session[s] = "none"
    /\ stopper = "joining" => stage = "halting"

\* The supervisor is started by the session that published first, and joined
\* once stop() has gone past it.
OwnerInv ==
    /\ \A s \in Sessions : session[s] = "start" => publisher = s /\ ~started
    /\ publisher = NoSession => ~started
    /\ publisher # NoSession /\ ~started => \E s \in Sessions : session[s] = "start"
    /\ stage = "halting" /\ publisher # NoSession => joined \/ stopper = "joining"
    /\ stage = "stopped" /\ publisher # NoSession => joined

IngestInv == IInv /\ IngestTypeOK /\ StageInv /\ OwnerInv

\* Every step of the gateway is a step of its supervisor, or leaves it alone.
LEMMA IngestStep == [IngestNext]_ingestVars => [Next]_vars
<1> SUFFICES ASSUME [IngestNext]_ingestVars PROVE Next \/ UNCHANGED vars
  OBVIOUS
<1>1. CASE SupervisorStep
  BY <1>1 DEF SupervisorStep, Next
<1>2. CASE Acceptor
  BY <1>2 DEF Acceptor, AcceptReturns, AcceptFails, AddSession
<1>3. ASSUME NEW s \in Sessions, Session(s) PROVE Next \/ UNCHANGED vars
  BY <1>3 DEF Session, BeginPublish, StartSupervisor, RunReturn, Forward, Next, App
<1>4. CASE StartGateway
  BY <1>4 DEF StartGateway
<1>5. CASE StopGateway \/ StopAgain
  BY <1>5 DEF StopGateway, StopAgain, StopListening, JoinAcceptor, CloseSessions,
              JoinSessions, StopSupervisor, JoinSupervisor, Stopped, Advance, Next, App
<1>6. CASE UNCHANGED ingestVars
  BY <1>6 DEF ingestVars
<1>7. QED
  BY <1>1, <1>2, <1>3, <1>4, <1>5, <1>6 DEF IngestNext

\* Of the supervisor's calls, its own threads change none.
LEMMA ThreadsCallNothing ==
    RunStep \/ Timer \/ (\E c \in Clients : Net(c)) => UNCHANGED callVars
  BY DEF RunStep, LoopTop, ResetDrop, Connect, Publish, WaitConnected, WaitReturns,
         CheckStop, NotUp, Success, OnReady, ServeUntilDrop, TakeDown, DestroyClient,
         HandleFailedAttempt, BackoffStopped, BackoffExpired, ExitLoop, Timer,
         ConnectTimeout, Net, NetReady, NetClose, OnClosed, NetClosed

\* The invariant holds of a gateway that was not started.
LEMMA IngestInitInv == IngestInit => IngestInv
<1>1. IngestInit => IngestTypeOK
  <2> SUFFICES ASSUME IngestInit PROVE IngestTypeOK
    OBVIOUS
  <2>1. session \in [Sessions -> {"none", "run", "start", "done"}]
    BY DEF IngestInit
  <2>2. publisher \in Sessions \cup {NoSession} /\ shut \in SUBSET Sessions
    BY DEF IngestInit
  <2>3. publishing \in BOOLEAN /\ starts \in Nat
    BY DEF IngestInit
  <2>4. QED
    BY <2>1, <2>2, <2>3 DEF IngestInit, IngestTypeOK
<1>2. IngestInit => StageInv
  BY DEF IngestInit, Init, StageInv
<1>3. IngestInit => OwnerInv
  BY IngestAssumption DEF IngestInit, Init, OwnerInv
<1>4. QED
  BY <1>1, <1>2, <1>3, InitIInv DEF IngestInit, IngestInv

\* And every step of every thread preserves it.
LEMMA IngestNextInv == IngestInv /\ [IngestNext]_ingestVars => IngestInv'
<1> SUFFICES ASSUME IngestInv, [IngestNext]_ingestVars PROVE IngestInv'
  OBVIOUS
<1>a. IInv'
  BY IngestStep, NextIInv DEF IngestInv
<1> SUFFICES (IngestTypeOK /\ StageInv /\ OwnerInv)'
  BY <1>a DEF IngestInv
<1> USE IngestAssumption DEF IngestInv, IngestTypeOK, StageInv, OwnerInv, callVars,
        gatewayVars, listenVars, stageVars
<1>1. CASE SupervisorStep
  BY <1>1, ThreadsCallNothing, SMTT(60) DEF SupervisorStep
<1>2. CASE Acceptor
  BY <1>2, SMTT(60) DEF Acceptor, AcceptReturns, AcceptFails, AddSession, vars
<1>3. ASSUME NEW s \in Sessions, BeginPublish(s)
      PROVE  (IngestTypeOK /\ StageInv /\ OwnerInv)'
  BY <1>3 DEF BeginPublish, vars
<1>4. ASSUME NEW s \in Sessions, StartSupervisor(s)
      PROVE  (IngestTypeOK /\ StageInv /\ OwnerInv)'
  BY <1>4 DEF StartSupervisor, Start
<1>5. ASSUME NEW s \in Sessions, RunReturn(s)
      PROVE  (IngestTypeOK /\ StageInv /\ OwnerInv)'
  BY <1>5 DEF RunReturn, vars
<1>6. ASSUME NEW s \in Sessions, NEW m \in Media, Forward(s, m)
      PROVE  (IngestTypeOK /\ StageInv /\ OwnerInv)'
  BY <1>6 DEF Forward, Send
<1>7. CASE StartGateway
  BY <1>7, SMTT(60) DEF StartGateway, vars
<1>8. CASE StopListening \/ JoinAcceptor \/ CloseSessions \/ StopAgain
  BY <1>8, SMTT(60) DEF StopListening, JoinAcceptor, CloseSessions, StopAgain, Advance, vars
<1>9. CASE JoinSessions
  BY <1>9 DEF JoinSessions, Advance, vars
<1>10. CASE StopSupervisor
  BY <1>10 DEF StopSupervisor, Stop, vars, IInv, TypeOK
<1>11. CASE JoinSupervisor
  BY <1>11 DEF JoinSupervisor, StopReturn
<1>12. CASE Stopped
  BY <1>12 DEF Stopped, Advance, vars, IInv, TypeOK
<1>13. CASE UNCHANGED ingestVars
  BY <1>13 DEF ingestVars, vars
<1>14. QED
  BY <1>1, <1>2, <1>3, <1>4, <1>5, <1>6, <1>7, <1>8, <1>9, <1>10, <1>11, <1>12, <1>13
  DEF IngestNext, Session, StopGateway

\* The gateway's use of its supervisor is one the supervisor allows, so all that
\* is proved of Supervisor, IsLink among it, holds inside the gateway.
THEOREM GatewayUsesSupervisor == IngestSpec => Spec
<1>1. IngestInit => Init
  BY DEF IngestInit
<1>2. QED
  BY <1>1, IngestStep, PTL DEF IngestSpec, Spec

\* Once stop() has returned nothing of the gateway runs any more, however the
\* publishers' connections and publishes fell into it.
THEOREM GatewayQuiescence == IngestSpec => []GatewayQuiet
<1>1. IngestInv => GatewayQuiet
  <2> SUFFICES ASSUME IngestInv, stage = "stopped"
               PROVE  /\ acceptor = "none" /\ \A s \in Sessions : session[s] = "none"
                      /\ Running = {} /\ client = NoClient /\ ~connected
                      /\ pc \in {"off", "done"}
    BY DEF GatewayQuiet
  <2>1. acceptor = "none" /\ \A s \in Sessions : session[s] = "none"
    BY DEF IngestInv, StageInv
  <2>2. pc \in {"off", "done"}
    BY <2>1 DEF IngestInv, OwnerInv, IInv, LifeInv
  <2>3. QED
    BY <2>1, <2>2
    DEF IngestInv, IInv, CellInv, PublishInv, UpInv, Running, Live, Published
<1>2. QED
  BY <1>1, IngestInitInv, IngestNextInv, PTL DEF IngestSpec

-----------------------------------------------------------------------------
(* The greeting.                                                           *)

\* on_ready() has handed over the first messages of the greeting.
GreetInv ==
    /\ pc \in {"ready", "serve"} /\ Accepts(cur) => GreetedWith(sent[cur], greeted)
    /\ pc = "serve" => greeted = Len(Greeting)

\* Media in between takes nothing from the greeting.
LEMMA GreetedThroughout ==
    ASSUME NEW q \in Seq(Messages), NEW n \in 0..Len(Greeting), GreetedWith(q, n),
           NEW m \in Media
    PROVE  GreetedWith(Append(q, m), n)
<1> DEFINE r == Append(q, m)
<1>1. PICK at \in [1..n -> DOMAIN q] :
        /\ \A i \in 1..n : q[at[i]] = Greeting[i]
        /\ \A i, j \in 1..n : i < j => at[i] < at[j]
        /\ \A k \in DOMAIN q : q[k] \in Media \/ \E i \in 1..n : at[i] = k
  BY DEF GreetedWith
<1>2. /\ DOMAIN r = DOMAIN q \cup {Len(q) + 1} /\ r[Len(q) + 1] = m
      /\ \A k \in DOMAIN q : r[k] = q[k]
  BY SMTT(60)
<1> HIDE DEF r
<1>3. at \in [1..n -> DOMAIN r]
  BY <1>2
<1>4. \A i \in 1..n : r[at[i]] = Greeting[i]
  BY <1>1, <1>2
<1>5. \A k \in DOMAIN r : r[k] \in Media \/ \E i \in 1..n : at[i] = k
  BY <1>1, <1>2
<1>6. GreetedWith(r, n)
  BY <1>1, <1>3, <1>4, <1>5 DEF GreetedWith
<1> QED
  BY <1>6 DEF r

\* on_ready() continues the greeting where it is.
LEMMA GreetedFurther ==
    ASSUME NEW q \in Seq(Messages), NEW n \in 0..Len(Greeting), n # Len(Greeting),
           GreetedWith(q, n)
    PROVE  GreetedWith(Append(q, Greeting[n + 1]), n + 1)
<1> DEFINE g == Greeting[n + 1]
           r == Append(q, g)
<1>1. PICK at \in [1..n -> DOMAIN q] :
        /\ \A i \in 1..n : q[at[i]] = Greeting[i]
        /\ \A i, j \in 1..n : i < j => at[i] < at[j]
        /\ \A k \in DOMAIN q : q[k] \in Media \/ \E i \in 1..n : at[i] = k
  BY DEF GreetedWith
<1>2. /\ DOMAIN r = DOMAIN q \cup {Len(q) + 1} /\ r[Len(q) + 1] = g
      /\ \A k \in DOMAIN q : r[k] = q[k] /\ k \in Nat /\ k < Len(q) + 1
      /\ Len(q) \in Nat
  BY SMTT(60)
<1> HIDE DEF r
<1> DEFINE to == [i \in 1..(n + 1) |-> IF i = n + 1 THEN Len(q) + 1 ELSE at[i]]
<1>n. n \in Nat /\ \A i \in 1..(n + 1) : i = n + 1 \/ i \in 1..n
  BY GreetingAssumption, SMTT(60)
<1>3. /\ to[n + 1] = Len(q) + 1
      /\ \A i \in 1..n : to[i] = at[i] /\ i < n + 1 /\ i \in 1..(n + 1)
  BY <1>n, SMTT(60)
<1>4. to \in [1..(n + 1) -> DOMAIN r]
  BY <1>2, <1>n
<1> HIDE DEF to
<1>5. \A i \in 1..(n + 1) : r[to[i]] = Greeting[i]
  BY <1>1, <1>2, <1>3, <1>n
<1>6. \A i, j \in 1..(n + 1) : i < j => to[i] < to[j]
  <2> SUFFICES ASSUME NEW i \in 1..(n + 1), NEW j \in 1..(n + 1), i < j PROVE to[i] < to[j]
    OBVIOUS
  <2>1. i \in 1..n
    BY <1>n, SMTT(60)
  <2>2. CASE j = n + 1
    BY <1>1, <1>2, <1>3, <2>1, <2>2
  <2>3. CASE j \in 1..n
    BY <1>1, <1>3, <2>1, <2>3
  <2>4. QED
    BY <1>n, <2>2, <2>3
<1>7. \A k \in DOMAIN r : r[k] \in Media \/ \E i \in 1..(n + 1) : to[i] = k
  <2> SUFFICES ASSUME NEW k \in DOMAIN r
               PROVE  r[k] \in Media \/ \E i \in 1..(n + 1) : to[i] = k
    OBVIOUS
  <2>1. CASE k \in DOMAIN q
    BY <1>1, <1>2, <1>3, <2>1
  <2>2. CASE k = Len(q) + 1
    <3>1. n + 1 \in 1..(n + 1)
      BY <1>n, SMTT(60)
    <3>2. QED
      BY <1>3, <2>2, <3>1
  <2>3. QED
    BY <1>2, <2>1, <2>2
<1>8. GreetedWith(r, n + 1)
  BY <1>4, <1>5, <1>6, <1>7 DEF GreetedWith
<1> QED
  BY <1>8 DEF r

\* Nothing has been sent when a connection comes up, and after that every
\* message the Client takes is the next of the greeting, or media.
LEMMA GreetStep == IInv /\ GreetInv /\ [Next]_vars => GreetInv'
<1> SUFFICES ASSUME IInv, GreetInv, [Next]_vars PROVE GreetInv'
  OBVIOUS
<1> USE DEF callVars, stateVars, localVars, flagVars, clientVars
<1>1. CASE Success
  <2>1. pc' = "ready" /\ greeted' = 0 /\ sent'[cur'] = <<>>
    BY <1>1 DEF Success, IInv, SentInv, CellInv, Live
  <2>2. GreetedWith(<<>>, 0)
    <3>1. 1..0 = {} /\ DOMAIN <<>> = {}
      BY SMTT(60)
    <3>2. [i \in {} |-> i] \in [{} -> {}]
      OBVIOUS
    <3> QED
      BY <3>1, <3>2 DEF GreetedWith
  <2> QED
    BY <2>1, <2>2 DEF GreetInv
<1>2. CASE OnReady
  <2>1. CASE Greeted
    BY <1>2, <2>1 DEF OnReady, Greeted, GreetInv, Accepts
  <2>2. CASE ~Greeted
    <3>1. /\ pc = "ready" /\ pc' = "ready" /\ cur' = cur /\ greeted' = greeted + 1
          /\ HandOver(cur, Greeting[greeted + 1])
          /\ UNCHANGED <<cClosed, cCloseRequested>>
      BY <1>2, <2>2 DEF OnReady
    <3>2. CASE Accepts(cur)
      <4>1. /\ cur \in Clients /\ sent[cur] \in Seq(Messages)
            /\ greeted \in 0..Len(Greeting) /\ greeted # Len(Greeting)
        BY <2>2, <3>1 DEF Greeted, IInv, TypeOK, CellInv, Live
      <4>2. sent'[cur'] = Append(sent[cur], Greeting[greeted + 1])
        BY <3>1, <3>2, <4>1 DEF HandOver, IInv, TypeOK
      <4>3. GreetedWith(sent[cur], greeted)
        BY <3>1, <3>2 DEF GreetInv
      <4>4. GreetedWith(sent'[cur'], greeted')
        BY <3>1, <4>1, <4>2, <4>3, GreetedFurther
      <4> QED
        BY <3>1, <4>4 DEF GreetInv
    <3>3. CASE ~Accepts(cur)
      BY <3>1, <3>3 DEF GreetInv, Accepts
    <3> QED
      BY <3>2, <3>3
  <2> QED
    BY <2>1, <2>2
<1>3. ASSUME NEW m \in Media, Send(m) PROVE GreetInv'
  <2>1. /\ UNCHANGED <<pc, cur, greeted, cClosed, cCloseRequested>>
        /\ HandOver(client, m)
    BY <1>3 DEF Send
  <2>2. CASE pc \in {"ready", "serve"} /\ Accepts(cur)
    <3>1. /\ cur \in Clients /\ client = cur /\ sent[cur] \in Seq(Messages)
          /\ greeted \in 0..Len(Greeting)
      BY <2>2 DEF IInv, TypeOK, CellInv, Live, PublishInv, Published
    <3>2. sent'[cur] = Append(sent[cur], m)
      BY <2>1, <2>2, <3>1 DEF HandOver, IInv, TypeOK
    <3>3. GreetedWith(sent'[cur], greeted)
      BY <2>2, <3>1, <3>2, GreetedThroughout DEF GreetInv
    <3> QED
      BY <2>1, <3>3 DEF GreetInv
  <2>3. CASE ~(pc \in {"ready", "serve"} /\ Accepts(cur))
    BY <2>1, <2>3 DEF GreetInv, Accepts
  <2> QED
    BY <2>2, <2>3
<1>4. CASE pc' \notin {"ready", "serve"}
  BY <1>4 DEF GreetInv
<1>5. ASSUME UNCHANGED <<pc, cur, greeted, sent>>, cClosed \subseteq cClosed',
             cCloseRequested \subseteq cCloseRequested'
      PROVE  GreetInv'
  BY <1>5 DEF GreetInv, Accepts
<1>6. CASE RunStep \/ Timer
  <2>1. CASE LoopTop \/ ResetDrop \/ Connect \/ Publish \/ HandleFailedAttempt \/ ExitLoop
    BY <1>4, <2>1 DEF LoopTop, ResetDrop, Connect, Publish, HandleFailedAttempt, ExitLoop
  <2>2. CASE WaitConnected \/ CheckStop \/ NotUp \/ Timer \/ BackoffStopped
    BY <1>4, <2>2 DEF WaitConnected, WaitReturns, ConnectTimeout, CheckStop, AfterWait,
       NotUp, Timer, BackoffStopped, BackoffExpired
  <2>3. CASE ServeUntilDrop \/ TakeDown \/ DestroyClient
    BY <1>4, <2>3, SMTT(60) DEF ServeUntilDrop, TakeDown, DestroyClient, Joining, JoinNext
  <2> QED
    BY <1>1, <1>2, <1>6, <2>1, <2>2, <2>3 DEF RunStep
<1>7. CASE Start \/ Stop \/ StopReturn
  BY <1>4, <1>5, <1>7 DEF Start, Stop, StopReturn
<1>8. ASSUME NEW c \in Clients, Net(c) PROVE GreetInv'
  BY <1>5, <1>8 DEF Net, NetReady, NetClose, OnClosed, NetClosed
<1>9. CASE UNCHANGED vars
  BY <1>5, <1>9 DEF vars
<1> QED
  BY <1>3, <1>6, <1>7, <1>8, <1>9 DEF Next, App

\* Every connection that the gateway serves on was announced to the relay.
THEOREM AlwaysAnnounced == IngestSpec => []AnnouncedWhenServing
<1>1. Init => GreetInv
  BY DEF Init, GreetInv
<1>2. GreetInv => AnnouncedWhenServing
  BY DEF GreetInv, AnnouncedWhenServing
<1>3. Spec => []AnnouncedWhenServing
  BY <1>1, <1>2, GreetStep, Invariance, PTL DEF Spec
<1> QED
  BY <1>3, GatewayUsesSupervisor, PTL
=============================================================================
