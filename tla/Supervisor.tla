------------------------------ MODULE Supervisor ------------------------------
(***************************************************************************)
(* ConnectionSupervisor (gateway/src/connection_supervisor.cpp): keeps one *)
(* roqr::quic::Client connected, rebuilding it after a drop.  Three kinds  *)
(* of thread meet here: the supervisor thread (run()), the network thread  *)
(* that every connected Client owns, and application threads that call     *)
(* start(), stop() and send().                                             *)
(*                                                                         *)
(* A critical section of the supervisor's mutex is one action, possible    *)
(* while nobody waits with the mutex in hand (HoldsMutex), and each        *)
(* condition-variable wait is a guard on the wait's predicate.             *)
(* A Client is a memory cell: it may be used again once its network thread *)
(* has been joined, as an address may.                                     *)
(***************************************************************************)
EXTENDS Naturals, Sequences

CONSTANTS
    Clients,        \* cells a Client object may occupy
    NoClient,       \* the null unique_ptr / raw pointer
    MaxAttempts,    \* ReconnectPolicy::max_attempts, 0 = never give up
    Commands,       \* the messages of a gateway's session handshake
    Greeting,       \* what on_ready() sends on every connection, in order
    Media,          \* what send() is called with
    FailureBound,   \* bound: failed attempts in a row that are explored
    ReconnectBound, \* bound: reconnects the network grants
    SendBound       \* bound: media handed to one Client

Messages == Commands \cup Media

ASSUME ClientAssumption == NoClient \notin Clients
ASSUME GreetingAssumption ==
    Greeting \in Seq(Commands) /\ Commands \cap Media = {}
ASSUME BoundAssumption ==
    /\ MaxAttempts \in Nat /\ FailureBound \in Nat
    /\ ReconnectBound \in Nat /\ SendBound \in Nat
    /\ MaxAttempts <= FailureBound

VARIABLES
    \* ConnectionSupervisor::Impl, guarded by its mutex
    stopping, started, drop_signaled, client, connected, failed,
    reconnect_count,
    \* locals of run(), where the supervisor thread stands in it, and how much
    \* of the greeting on_ready() has sent
    pc, cur, up, first_connect, attempts, greeted,
    \* the caller of stop(): blocked in join() or not; thread joined already
    stopper, joined,
    \* the Client objects, as far as the supervisor can tell: the network
    \* thread's position, Impl::connected/closing/closed/close_requested, and
    \* the frames accepted into the outbound queue
    thread, cConnected, cClosing, cClosed, cCloseRequested, sent

callVars   == <<stopping, started, stopper, joined>>
stateVars  == <<connected, failed, reconnect_count>>
localVars  == <<cur, up, first_connect, attempts, greeted>>
flagVars   == <<cConnected, cClosing, cClosed, cCloseRequested>>
clientVars == <<thread, flagVars, sent>>
vars == <<callVars, stateVars, drop_signaled, client, pc, localVars, clientVars>>

\* Positions of the supervisor thread.  In the "join" positions it is inside
\* ~Client, waiting for the network thread; JoinNext says where it goes on.
JoinNext == [joinStop |-> "exit", joinFail |-> "fail", joinDrop |-> "top",
             joinExit |-> "done"]
Joining  == {"joinStop", "joinFail", "joinDrop", "joinExit"}
PCs == {"off", "top", "arm", "connect", "publish", "wait", "check", "notup",
        "success", "ready", "serve", "drop", "fail", "backoff", "exit",
        "done"} \cup Joining

\* Positions of a network thread: none = not running; loop = in the packet
\* loop; latched = signal_closed() has latched `closing`, the handler has not
\* run; handled = the handler has run, `closed` is not published yet.
ThreadStates == {"none", "loop", "latched", "handled"}

TypeOK ==
    /\ stopping \in BOOLEAN /\ started \in BOOLEAN
    /\ drop_signaled \in BOOLEAN
    /\ client \in Clients \cup {NoClient}
    /\ connected \in BOOLEAN /\ failed \in BOOLEAN
    /\ reconnect_count \in Nat
    /\ pc \in PCs
    /\ cur \in Clients \cup {NoClient}
    /\ up \in BOOLEAN /\ first_connect \in BOOLEAN
    /\ attempts \in Nat /\ greeted \in 0..Len(Greeting)
    /\ stopper \in {"idle", "joining"} /\ joined \in BOOLEAN
    /\ thread \in [Clients -> ThreadStates]
    /\ cConnected \in SUBSET Clients /\ cClosing \in SUBSET Clients
    /\ cClosed \in SUBSET Clients /\ cCloseRequested \in SUBSET Clients
    /\ sent \in [Clients -> Seq(Messages)]

\* Mutant of HoldsMutex: ~Client runs inside the critical section that takes the
\* Client out.
HoldsMutexJoining(position) == position \in Joining

\* Whether run() has the mutex while it waits at a position.  It never has:
\* every dead.reset() comes after its critical section, wait_connected() and
\* on_ready() are called outside of any, and the waits on cv release it.
HoldsMutex(position) == FALSE

Init ==
    /\ stopping = FALSE /\ started = FALSE /\ drop_signaled = FALSE
    /\ client = NoClient /\ connected = FALSE /\ failed = FALSE
    /\ reconnect_count = 0
    /\ pc = "off" /\ cur = NoClient /\ up = FALSE
    /\ first_connect = TRUE /\ attempts = 0 /\ greeted = 0
    /\ stopper = "idle" /\ joined = FALSE
    /\ thread = [c \in Clients |-> "none"]
    /\ cConnected = {} /\ cClosing = {} /\ cClosed = {}
    /\ cCloseRequested = {}
    /\ sent = [c \in Clients |-> <<>>]

-----------------------------------------------------------------------------
(* Client operations the supervisor calls.                                 *)

\* Client::send: refused once the Client is closed or asked to close.
Accepts(c) == c \notin cClosed /\ c \notin cCloseRequested

\* The frame is appended to the outbound queue when the Client accepts it.  That
\* the push comes after the check, without the Client's mutex, makes no difference
\* here: a close that falls between the two does not look at the queue, and
\* Client has them apart.
HandOver(c, frame) ==
    sent' = IF Accepts(c) THEN [sent EXCEPT ![c] = Append(@, frame)] ELSE sent

-----------------------------------------------------------------------------
(* The supervisor thread: run().                                           *)

\* Top of the loop: leave if stopping, else build a fresh Client.
LoopTop ==
    /\ pc = "top"
    /\ \/ stopping /\ pc' = "exit" /\ UNCHANGED cur
       \/ /\ ~stopping /\ pc' = "arm"
          /\ cur' \in {c \in Clients : thread[c] = "none"}
    /\ UNCHANGED <<callVars, stateVars, drop_signaled, client, up,
                   first_connect, attempts, greeted, clientVars>>

\* Mutant of ResetDrop: nothing is reset.
ResetNothing ==
    /\ pc = "arm" /\ pc' = "connect"
    /\ UNCHANGED <<callVars, stateVars, drop_signaled, client, localVars, clientVars>>

\* drop_signaled is reset once per iteration, before connect().
ResetDrop ==
    /\ pc = "arm" /\ pc' = "connect"
    /\ drop_signaled' = FALSE
    /\ UNCHANGED <<callVars, stateVars, client, localVars, clientVars>>

\* connect() starts the network thread, or fails and the Client is destroyed.
Connect ==
    /\ pc = "connect"
    /\ \/ /\ thread' = [thread EXCEPT ![cur] = "loop"]
          /\ pc' = "publish"
          /\ UNCHANGED cur
       \/ /\ pc' = "fail"
          /\ cur' = NoClient
          /\ UNCHANGED thread
    /\ UNCHANGED <<callVars, stateVars, drop_signaled, client, up,
                   first_connect, attempts, greeted, flagVars, sent>>

\* The Client is published, and closed if stop() came first and found none.
Publish ==
    /\ pc = "publish" /\ pc' = "wait"
    /\ client' = cur
    /\ cCloseRequested' = cCloseRequested \cup (IF stopping THEN {cur} ELSE {})
    /\ UNCHANGED <<callVars, stateVars, drop_signaled, localVars, thread,
                   cConnected, cClosing, cClosed, sent>>

\* wait_connected() returns: its result, read under the Client's mutex.
WaitReturns ==
    /\ pc = "wait" /\ pc' = "check"
    /\ up' = (cur \in cConnected)
    /\ UNCHANGED <<callVars, stateVars, drop_signaled, client, cur,
                   first_connect, attempts, greeted, clientVars>>

\* It returns because the Client is connected or closed ...
WaitConnected == cur \in cConnected \cup cClosed /\ WaitReturns

\* ... or because connect_timeout has passed.
ConnectTimeout == WaitReturns

\* Mutant of AfterWait: the result of wait_connected() is ignored.
AfterAnyWait == IF stopping THEN "joinStop" ELSE "success"

\* After the wait: stop wins, then the result of the wait decides.
AfterWait ==
    IF stopping THEN "joinStop" ELSE IF up THEN "success" ELSE "notup"

CheckStop ==
    /\ pc = "check" /\ pc' = AfterWait
    /\ client' = IF stopping THEN NoClient ELSE client
    /\ UNCHANGED <<callVars, stateVars, drop_signaled, localVars, clientVars>>

\* The attempt failed: take the Client out, then destroy it.
NotUp ==
    /\ pc = "notup" /\ pc' = "joinFail"
    /\ client' = NoClient
    /\ UNCHANGED <<callVars, stateVars, drop_signaled, localVars, clientVars>>

\* The connection is up.  drop_signaled is left alone.
Success ==
    /\ pc = "success" /\ pc' = "ready"
    /\ connected' = TRUE
    /\ reconnect_count' = IF first_connect THEN reconnect_count
                                           ELSE reconnect_count + 1
    /\ first_connect' = FALSE
    /\ attempts' = 0 /\ greeted' = 0
    /\ UNCHANGED <<callVars, drop_signaled, client, failed, cur, up, clientVars>>

\* Mutant of Greeted: only the first connection is greeted.
GreetedOnce == reconnect_count > 0 \/ greeted = Len(Greeting)

Greeted == greeted = Len(Greeting)

\* on_ready(*cur): the gateway sends its session handshake, one message at a
\* time, and other threads may send() in between.
OnReady ==
    /\ pc = "ready"
    /\ IF Greeted
       THEN pc' = "serve" /\ UNCHANGED <<greeted, sent>>
       ELSE /\ HandOver(cur, Greeting[greeted + 1])
            /\ greeted' = greeted + 1
            /\ UNCHANGED pc
    /\ UNCHANGED <<callVars, stateVars, drop_signaled, client, cur, up,
                   first_connect, attempts, thread, flagVars>>

\* Mutant of Woken: only stop() ends the wait.
WokenByStop == stopping

\* The predicate of the wait while a connection is in service.
Woken == drop_signaled \/ stopping

ServeUntilDrop ==
    /\ pc = "serve" /\ pc' = "drop" /\ Woken
    /\ UNCHANGED <<callVars, stateVars, drop_signaled, client, localVars, clientVars>>

\* Take the Client out of service; retry at once unless stopping.
TakeDown ==
    /\ pc = "drop"
    /\ connected' = FALSE /\ client' = NoClient
    /\ pc' = IF stopping THEN "joinStop" ELSE "joinDrop"
    /\ UNCHANGED <<callVars, drop_signaled, failed, reconnect_count, localVars,
                   clientVars>>

\* Mutant of DestroyClient: the network thread is not joined.
DestroyWithoutJoin ==
    /\ pc \in Joining /\ pc' = JoinNext[pc]
    /\ cur' = NoClient
    /\ UNCHANGED <<callVars, stateVars, drop_signaled, client, up,
                   first_connect, attempts, greeted, clientVars>>

\* ~Client: joins the network thread, which first leaves any callback it is
\* in.  Nothing is left of the object.
DestroyClient ==
    /\ pc \in Joining /\ pc' = JoinNext[pc]
    /\ thread[cur] = "loop"
    /\ cur' = NoClient
    /\ thread' = [thread EXCEPT ![cur] = "none"]
    /\ cConnected' = cConnected \ {cur} /\ cClosing' = cClosing \ {cur}
    /\ cClosed' = cClosed \ {cur} /\ cCloseRequested' = cCloseRequested \ {cur}
    /\ sent' = [sent EXCEPT ![cur] = <<>>]
    /\ UNCHANGED <<callVars, stateVars, drop_signaled, client, up,
                   first_connect, attempts, greeted>>

\* Mutant of GivesUp: one attempt too many.
GivesUpLate(n) == MaxAttempts # 0 /\ n > MaxAttempts

\* The policy's limit on failures in a row.
GivesUp(n) == MaxAttempts # 0 /\ n >= MaxAttempts

\* handle_failed_attempt() up to its wait.
HandleFailedAttempt ==
    /\ pc = "fail"
    /\ \/ /\ stopping
          /\ pc' = "exit"
          /\ UNCHANGED <<failed, attempts>>
       \/ /\ ~stopping
          /\ attempts < FailureBound
          /\ attempts' = attempts + 1
          /\ failed' = (GivesUp(attempts') \/ failed)
          /\ pc' = IF GivesUp(attempts') THEN "exit" ELSE "backoff"
    /\ UNCHANGED <<callVars, connected, reconnect_count, drop_signaled, client,
                   cur, up, first_connect, greeted, clientVars>>

\* The backoff wait ends because the delay has passed ...
BackoffExpired ==
    /\ pc = "backoff" /\ pc' = "top"
    /\ UNCHANGED <<callVars, stateVars, drop_signaled, client, localVars, clientVars>>

\* ... or because stop() cuts it short.
BackoffStopped == stopping /\ BackoffExpired

\* After the loop: whatever is still published is destroyed too.
ExitLoop ==
    /\ pc = "exit"
    /\ pc' = IF client = NoClient THEN "done" ELSE "joinExit"
    /\ connected' = FALSE /\ client' = NoClient
    /\ UNCHANGED <<callVars, drop_signaled, failed, reconnect_count, localVars,
                   clientVars>>

-----------------------------------------------------------------------------
(* Application threads.                                                    *)

\* start(): spawns the supervisor thread the first time only.
Start ==
    /\ ~started /\ ~HoldsMutex(pc)
    /\ started' = TRUE
    /\ pc' = "top"
    /\ UNCHANGED <<stopping, stopper, joined, stateVars, drop_signaled, client,
                   localVars, clientVars>>

\* stop(), its critical section; then join() if the thread is joinable.
Stop ==
    /\ started /\ ~HoldsMutex(pc)
    /\ stopper = "idle"
    /\ stopping' = TRUE
    /\ cCloseRequested' = cCloseRequested \cup ({client} \ {NoClient})
    /\ stopper' = IF joined THEN "idle" ELSE "joining"
    /\ UNCHANGED <<started, joined, stateVars, drop_signaled, client, pc,
                   localVars, thread, cConnected, cClosing, cClosed, sent>>

\* join() returns when run() has returned.
StopReturn ==
    /\ stopper = "joining" /\ stopper' = "idle"
    /\ pc = "done"
    /\ joined' = TRUE
    /\ UNCHANGED <<stopping, started, stateVars, drop_signaled, client, pc,
                   localVars, clientVars>>

\* send(): refused unless a connection is up.
Send(m) ==
    /\ client # NoClient /\ connected /\ ~HoldsMutex(pc)
    /\ Len(SelectSeq(sent[client], LAMBDA x : x \in Media)) < SendBound
    /\ HandOver(client, m)
    /\ UNCHANGED <<callVars, stateVars, drop_signaled, client, pc, localVars,
                   thread, flagVars>>

-----------------------------------------------------------------------------
(* The network thread of a Client.  The peer and the network decide when a *)
(* handshake completes and when a connection dies.                         *)

\* picoquic_callback_ready -> signal_connected().
NetReady(c) ==
    /\ thread[c] = "loop"
    /\ c \notin cConnected /\ c \notin cClosing
    /\ reconnect_count < ReconnectBound
    /\ cConnected' = cConnected \cup {c}
    /\ UNCHANGED <<callVars, stateVars, drop_signaled, client, pc, localVars,
                   thread, cClosing, cClosed, cCloseRequested, sent>>

\* picoquic_callback_close -> signal_closed(): latch `closing` ...
NetClose(c) ==
    /\ thread[c] = "loop"
    /\ c \notin cClosing
    /\ cClosing' = cClosing \cup {c}
    /\ thread' = [thread EXCEPT ![c] = "latched"]
    /\ UNCHANGED <<callVars, stateVars, drop_signaled, client, pc, localVars,
                   cConnected, cClosed, cCloseRequested, sent>>

\* ... run the supervisor's on_closed handler outside the Client's lock, which
\* takes the supervisor's mutex ...
OnClosed(c) ==
    /\ thread[c] = "latched" /\ ~HoldsMutex(pc)
    /\ drop_signaled' = TRUE
    /\ thread' = [thread EXCEPT ![c] = "handled"]
    /\ UNCHANGED <<callVars, stateVars, client, pc, localVars, flagVars, sent>>

\* ... and publish `closed`.
NetClosed(c) ==
    /\ thread[c] = "handled"
    /\ cClosed' = cClosed \cup {c}
    /\ thread' = [thread EXCEPT ![c] = "loop"]
    /\ UNCHANGED <<callVars, stateVars, drop_signaled, client, pc, localVars,
                   cConnected, cClosing, cCloseRequested, sent>>

-----------------------------------------------------------------------------

\* Steps of the supervisor thread that wait for no timer.
RunStep ==
    \/ LoopTop \/ ResetDrop \/ Connect \/ Publish \/ WaitConnected
    \/ CheckStop \/ NotUp \/ Success \/ OnReady \/ ServeUntilDrop \/ TakeDown
    \/ DestroyClient \/ HandleFailedAttempt \/ BackoffStopped \/ ExitLoop

Timer == ConnectTimeout \/ BackoffExpired

App == Start \/ Stop \/ StopReturn \/ \E m \in Media : Send(m)

Net(c) == NetReady(c) \/ NetClose(c) \/ OnClosed(c) \/ NetClosed(c)

Next == RunStep \/ Timer \/ App \/ \E c \in Clients : Net(c)

Spec == Init /\ [][Next]_vars

\* A network thread finishes the callback it is in, and picoquic reports the
\* end of a connection the Client has asked to close.
NetProgress(c) ==
    \/ OnClosed(c) \/ NetClosed(c)
    \/ c \in cCloseRequested /\ NetClose(c)

-----------------------------------------------------------------------------
(* Properties.                                                             *)

\* Positions between ResetDrop and the destruction of the current Client.
Armed == {"connect", "publish", "wait", "check", "notup", "success", "ready",
          "serve", "drop", "joinStop", "joinFail", "joinDrop", "joinExit"}

\* Network threads that exist.
Running == {c \in Clients : thread[c] # "none"}

\* At most one Client's network thread exists at any time: ~Client joins the
\* old one before the next connect().  The handlers the gateways hang on the
\* Client (EgressGateway's unguarded GapTracker among them) rely on it.
OneNetworkThread == \A c, d \in Running : c = d

\* While a Client is in use, drop_signaled is set exactly when that Client's
\* on_closed handler has run: a drop is never lost (not even one that comes
\* during wait_connected()), and never inherited from an earlier Client.
DropSignalExact ==
    pc \in Armed =>
        (drop_signaled <=> cur \in cClosing /\ thread[cur] # "latched")

\* Once stop() has begun, the published Client has been asked to close:
\* whichever of stop() and the publishing step comes second sees the other.
StopClosesClient ==
    stopping /\ client # NoClient => client \in cCloseRequested

\* connected() is true only while a Client that completed its handshake is
\* published and still owns its network thread.
ConnectedMeansUp ==
    connected => /\ client # NoClient
                 /\ client \in cConnected
                 /\ thread[client] # "none"

\* No frame is ever accepted for a Client that has not come up.
SendsOnlyWhenUp == \A c \in Clients : sent[c] # <<>> => c \in cConnected

\* When stop() has returned, nothing of the supervisor runs any more: no
\* network thread, no Client, not connected.
StoppedIsQuiescent ==
    joined => Running = {} /\ client = NoClient /\ ~connected /\ pc = "done"

\* The supervisor as one link.
L == INSTANCE Link WITH
        phase <- IF pc = "off" THEN "idle" ELSE IF pc = "done" THEN "over"
                 ELSE IF connected THEN "up" ELSE "down",
        asked <- stopping,
        failed <- failed,
        tries <- attempts,
        ups   <- IF first_connect THEN 0 ELSE reconnect_count + 1,
        log   <- IF connected THEN sent[client] ELSE <<>>

\* Its threads, its Clients and their callbacks together do what Link says:
\* give up exactly after MaxAttempts failures in a row and for good, start
\* every connection with nothing sent, take nothing after stop(), end only when
\* stopped or given up.
IsLink == L!Spec

\* A connection that has died does not stay in service; and trying to connect
\* ends, if timers fire, in a connection, in failed() or in a stop.
DropHandled ==
    /\ pc = "serve" /\ cur \in cClosing ~> pc # "serve"
    /\ WF_vars(Timer) => (pc = "top" ~> connected \/ failed \/ stopping)
=============================================================================
