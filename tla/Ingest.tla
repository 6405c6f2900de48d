-------------------------------- MODULE Ingest --------------------------------
(***************************************************************************)
(* IngestGateway (gateway/src/ingest.cpp) with the RTMP Listener it owns   *)
(* (rtmp/src/server_session.cpp) and its ConnectionSupervisor.  Threads:   *)
(* the accept thread, one thread per RTMP session, the thread that calls   *)
(* start() and stop(), and those of the supervisor.                        *)
(*                                                                         *)
(* A critical section of the gateway's mutex is one action.  The pointer   *)
(* `supervisor` only ever goes from null to an object, so forward(), which *)
(* reads it under the mutex and then calls send(), is one action: at the   *)
(* read if it finds null, at the send() otherwise.                         *)
(***************************************************************************)
EXTENDS Supervisor

CONSTANTS
    Sessions, NoSession,
    StartBound      \* bound: calls of start()

ASSUME IngestAssumption == NoSession \notin Sessions /\ StartBound \in Nat

VARIABLES
    \* IngestGateway::Impl: whose publish stood the supervisor up (NoSession
    \* for a null `supervisor`), publishing
    publisher, publishing,
    \* the accept thread: none, blocked in accept(), or holding a new socket
    acceptor,
    \* each session's thread: none, run, "start" (between begin_publish()'s
    \* critical section and start()), done; and sessions whose socket is shut
    session, shut,
    \* how far start() and stop() have come, calls of start()
    stage, starts

gatewayVars == <<publisher, publishing>>
listenVars  == <<acceptor, session, shut>>
stageVars   == <<stage, starts>>
ingestVars  == <<vars, gatewayVars, listenVars, stageVars>>

\* stop() takes stage from "running" through "deaf", "hangup", "join", "halt"
\* and "halting" to "stopped".
IngestInit ==
    /\ Init
    /\ publisher = NoSession /\ publishing = FALSE
    /\ acceptor = "none"
    /\ session = [s \in Sessions |-> "none"] /\ shut = {}
    /\ stage = "stopped" /\ starts = 0

-----------------------------------------------------------------------------
(* The accept thread.                                                      *)

\* accept() returns a socket (bound: for one of Sessions, which the Listener
\* keeps until stop()).
AcceptReturns ==
    /\ acceptor = "accept" /\ stage = "running"
    /\ \E s \in Sessions : session[s] = "none"
    /\ acceptor' = "got"
    /\ UNCHANGED <<vars, gatewayVars, session, shut, stageVars>>

\* Under the Listener's mutex: the session is built and its thread started,
\* whether or not stop() has begun; then `running` is looked at again.
AddSession(s) ==
    /\ acceptor = "got" /\ session[s] = "none"
    /\ session' = [session EXCEPT ![s] = "run"]
    /\ acceptor' = IF stage = "running" THEN "accept" ELSE "none"
    /\ UNCHANGED <<vars, gatewayVars, shut, stageVars>>

\* accept() fails, always on a socket that stop() has shut down, and possibly
\* before: the thread ends and nobody replaces it.
AcceptFails ==
    /\ acceptor = "accept"
    /\ acceptor' = "none"
    /\ UNCHANGED <<vars, gatewayVars, session, shut, stageVars>>

-----------------------------------------------------------------------------
(* RTMP session threads.                                                   *)

\* begin_publish(): its critical section.  Only the first publish counts.
BeginPublish(s) ==
    /\ session[s] = "run" /\ publisher = NoSession
    /\ publisher' = s
    /\ session' = [session EXCEPT ![s] = "start"]
    /\ UNCHANGED <<vars, publishing, acceptor, shut, stageVars>>

\* ... and start(), after it.
StartSupervisor(s) ==
    /\ session[s] = "start"
    /\ Start
    /\ session' = [session EXCEPT ![s] = "run"]
    /\ UNCHANGED <<gatewayVars, acceptor, shut, stageVars>>

\* forward() of a message that is not empty; without a supervisor, or if send()
\* refuses it, the message is dropped.
Forward(s, m) ==
    /\ session[s] = "run" /\ publisher # NoSession
    /\ Send(m)
    /\ UNCHANGED <<gatewayVars, listenVars, stageVars>>

\* run() returns: the peer left, or the socket was shut down.
RunReturn(s) ==
    /\ session[s] = "run"
    /\ session' = [session EXCEPT ![s] = "done"]
    /\ UNCHANGED <<vars, gatewayVars, acceptor, shut, stageVars>>

-----------------------------------------------------------------------------
(* start() and stop().                                                     *)

\* Listener::start().  The supervisor of an earlier run stays.
StartGateway ==
    /\ stage = "stopped" /\ starts < StartBound
    /\ starts' = starts + 1 /\ stage' = "running"
    /\ acceptor' = "accept"
    /\ UNCHANGED <<vars, gatewayVars, session, shut>>

\* The stages of stop() that only move on.
Advance(from, to) ==
    /\ stage = from /\ stage' = to
    /\ UNCHANGED <<vars, gatewayVars, acceptor, starts>>

\* Listener::stop(): the listening socket is shut down, ...
StopListening == Advance("running", "deaf") /\ UNCHANGED <<session, shut>>

\* ... the accept thread joined, ...
JoinAcceptor ==
    /\ acceptor = "none"
    /\ Advance("deaf", "hangup") /\ UNCHANGED <<session, shut>>

\* ... every session closed, ...
CloseSessions ==
    /\ shut' = {s \in Sessions : session[s] # "none"}
    /\ Advance("hangup", "join") /\ UNCHANGED session

\* Mutant of JoinSessions: session threads are not joined.
ForgetSessions == Advance("join", "halt") /\ UNCHANGED <<session, shut>>

\* ... its thread joined, and all of them destroyed.
JoinSessions ==
    /\ \A s \in Sessions : session[s] \in {"none", "done"}
    /\ session' = [s \in Sessions |-> "none"] /\ shut' = {}
    /\ Advance("join", "halt")

\* Then the supervisor is stopped, if there is one.
StopSupervisor ==
    /\ stage = "halt"
    /\ IF publisher = NoSession THEN UNCHANGED vars ELSE Stop
    /\ stage' = "halting"
    /\ UNCHANGED <<gatewayVars, listenVars, starts>>

\* ConnectionSupervisor::stop() waits in join(), unless it was joined before.
JoinSupervisor ==
    /\ stage = "halting" /\ StopReturn
    /\ UNCHANGED <<gatewayVars, listenVars, stageVars>>

Stopped == stopper = "idle" /\ Advance("halting", "stopped") /\ UNCHANGED <<session, shut>>

\* stop() of a gateway that has stopped, as in the destructor: the Listener
\* returns at once.
StopAgain == Advance("stopped", "halt") /\ UNCHANGED <<session, shut>>

-----------------------------------------------------------------------------
(* The supervisor's threads.  on_ready() ends by setting `publishing`.      *)

SupervisorStep ==
    /\ RunStep \/ Timer \/ \E c \in Clients : Net(c)
    /\ publishing' = (publishing \/ (pc = "ready" /\ pc' = "serve"))
    /\ UNCHANGED <<publisher, listenVars, stageVars>>

Acceptor == AcceptReturns \/ AcceptFails \/ \E s \in Sessions : AddSession(s)
Session(s) == \/ BeginPublish(s) \/ StartSupervisor(s) \/ RunReturn(s)
              \/ \E m \in Media : Forward(s, m)
StopGateway == \/ StopListening \/ JoinAcceptor \/ CloseSessions \/ JoinSessions
               \/ StopSupervisor \/ JoinSupervisor \/ Stopped

IngestNext ==
    \/ SupervisorStep \/ Acceptor
    \/ \E s \in Sessions : Session(s)
    \/ StartGateway \/ StopGateway \/ StopAgain

IngestSpec == IngestInit /\ [][IngestNext]_ingestVars

\* The supervisor's fairness, which it has here too; the accept thread and
\* stop() go on, and a session's run() ends once its socket is shut down.
FairIngestSpec ==
    /\ IngestSpec
    /\ WF_ingestVars(SupervisorStep /\ RunStep)
    /\ \A c \in Clients : WF_ingestVars(SupervisorStep /\ NetProgress(c))
    /\ WF_ingestVars(stage # "running" /\ (AcceptFails \/ \E s \in Sessions : AddSession(s)))
    /\ \A s \in Sessions : WF_ingestVars(StartSupervisor(s) \/ (s \in shut /\ RunReturn(s)))
    /\ WF_ingestVars(stage # "running" /\ StopGateway)

-----------------------------------------------------------------------------
(* Properties.                                                             *)

\* The first n messages of the greeting are in a queue, once and in their order,
\* and all else in it is media.
GreetedWith(queue, n) ==
    \E at \in [1..n -> DOMAIN queue] :
        /\ \A i \in 1..n : queue[at[i]] = Greeting[i]
        /\ \A i, j \in 1..n : i < j => at[i] < at[j]
        /\ \A k \in DOMAIN queue : queue[k] \in Media \/ \E i \in 1..n : at[i] = k

\* A connection in service that still takes frames has been announced to the
\* relay: connect, createStream and publish went out on it, once and in this
\* order, on the first connection and on every later one, whatever media other
\* threads sent in between.
AnnouncedWhenServing ==
    pc = "serve" /\ Accepts(cur) => GreetedWith(sent[cur], Len(Greeting))

\* When stop() has returned, nothing of the gateway runs: no accept thread, no
\* session, and of the supervisor no thread and no Client, also when publishers
\* connected or published while stop() was under way.
GatewayQuiet ==
    stage = "stopped" =>
        /\ acceptor = "none" /\ \A s \in Sessions : session[s] = "none"
        /\ Running = {} /\ client = NoClient /\ ~connected
        /\ pc \in {"off", "done"}

\* stop() returns, whatever publishers and the relay do.
GatewayStops == stage = "deaf" ~> stage = "stopped"
=============================================================================
