------------------------------- MODULE Bindings -------------------------------
(***************************************************************************)
(* The Java client (jni/java/.../RoqrClient.java) over its native part     *)
(* (jni/src/roqr_jni.cpp) and the C interface (ffi/src/roqr_ffi.cpp): what *)
(* they keep, and their callbacks on the client's network thread.  The     *)
(* calls that only pass their arguments on are the actions of Client.      *)
(* As the headers ask, handlers are set before connect(), and no call is   *)
(* in progress when the object is destroyed.                               *)
(***************************************************************************)
EXTENDS Client

CONSTANTS
    Listeners,      \* Java listeners
    NoListener,
    ListenerBound   \* bound: calls of setListener()

ASSUME ListenerAssumption ==
    /\ NoListener \notin Listeners /\ "Frame" \notin Listeners \cup {NoListener}
    /\ ListenerBound \in Nat

VARIABLES
    java,           \* the Java object: usable, destroying, destroyed (handle 0)
    jc,             \* the JniClient behind the handle: live, deleted
    registered,     \* roqr_client's on_message and on_closed are the trampolines
    listener,       \* jc->listener
    refs,           \* the JVM's: global references that exist
    sets,           \* calls of setListener() so far
    \* history: what Java was given, by flow, Lost where an attach failed; runs of
    \* its onClosed(); whether an attach failed; whether a callback used something
    \* that was gone
    seen, told, missed, dangling

javaVars    == <<java, jc, registered, listener, refs, sets>>
seenVars    == <<seen, told, missed, dangling>>
bindingVars == <<javaVars, seenVars>>

\* RoqrClient(): nativeCreate() and roqr_client_create() have run.
BindingsInit ==
    /\ Init
    /\ java = "usable" /\ jc = "live" /\ registered = FALSE
    /\ listener = NoListener /\ refs = {"Frame"} /\ sets = 0
    /\ seen = [f \in Flows |-> <<>>] /\ told = 0
    /\ missed = FALSE /\ dangling = FALSE

-----------------------------------------------------------------------------
(* The application.                                                        *)

\* No call of connect() has left anything behind.
Unconnected == net = "none" /\ cnx = "none" /\ ~closing

\* nativeSetListener(): null takes the listener away and leaves the trampolines.
SetListener(l) ==
    /\ java = "usable" /\ Unconnected
    /\ sets < ListenerBound /\ sets' = sets + 1
    /\ listener' = l
    /\ refs' = (refs \ {listener}) \cup ({l} \ {NoListener})
    /\ registered' = (registered \/ l # NoListener)
    /\ UNCHANGED <<vars, java, jc, seenVars>>

\* Calls that are passed on.  send() refuses an empty payload before that.
PassOn ==
    /\ java = "usable"
    /\ \/ SetStarted \/ Close
       \/ \E s \in Senders : SendCheck(s) \/ SendPush(s) \/ SendWake(s)
       \/ \E f \in Flows, b \in BOOLEAN : RequestFlow(f, b)
    /\ UNCHANGED bindingVars

\* destroy(): roqr_client_destroy() deletes the client ...
Destroy ==
    /\ java = "usable" /\ java' = "destroying"
    /\ JoinNetworkThread
    /\ UNCHANGED <<jc, registered, listener, refs, sets, seenVars>>

\* Mutant of Released: the references go before the client.
ReleasedFirst == java = "usable"

\* ... which is over when its context is freed ...
Released == java = "destroying" /\ life = "freed"

\* ... and then the references and the JniClient go, and the handle is cleared.
Release ==
    /\ Released
    /\ java' = "destroyed" /\ jc' = "deleted" /\ refs' = {}
    /\ UNCHANGED <<vars, registered, listener, sets, seenVars>>

-----------------------------------------------------------------------------
(* message_trampoline() and closed_trampoline(), inside whatever step of    *)
(* the client runs a handler.  Each attaches the thread, which the JVM may  *)
(* refuse: then the call is lost.                                           *)

NewFrames(f) == SubSeq(delivered'[f], Len(delivered[f]) + 1, Len(delivered'[f]))

Lost == [id |-> 0]

\* The frames of a queue, as the calls that get through bring them to Java.
Through(queue, attached) ==
    [i \in DOMAIN queue |-> IF queue[i].id \in attached THEN queue[i] ELSE Lost]

Trampolines ==
    LET frames == delivered' # delivered
        closes == handler_runs' # handler_runs
        ids    == UNION {{NewFrames(f)[i].id : i \in DOMAIN NewFrames(f)} : f \in Flows}
    IN  IF ~(frames \/ closes) \/ ~registered \/ (jc = "live" /\ listener = NoListener)
        THEN UNCHANGED seenVars
        ELSE \E attached \in SUBSET ids, env \in BOOLEAN :
             /\ seen' = [f \in Flows |-> seen[f] \o Through(NewFrames(f), attached)]
             /\ told' = IF closes /\ env THEN told + 1 ELSE told
             /\ missed' = (missed \/ attached # ids \/ (closes /\ ~env))
             /\ dangling' = (dangling \/ jc # "live" \/ listener \notin refs
                                      \/ (frames /\ "Frame" \notin refs))

\* connect(), which may run the closed handler itself, a step of the network
\* thread, or one of the destructor once it has joined that thread.
Native ==
    /\ \/ java = "usable" /\ (Connect \/ ConnectFails)
       \/ ServiceStart \/ InService \/ Callback \/ SilenceClosed \/ FreeContext
    /\ Trampolines
    /\ UNCHANGED javaVars

-----------------------------------------------------------------------------

BindingsNext ==
    \/ \E l \in Listeners \cup {NoListener} : SetListener(l)
    \/ PassOn \/ Destroy \/ Native \/ Release

BindingsSpec == BindingsInit /\ [][BindingsNext]_<<vars, bindingVars>>

FairBindingsSpec == BindingsSpec /\ Fairness

-----------------------------------------------------------------------------
(* Properties.                                                             *)

\* No callback uses a JniClient or a reference that nativeDestroy() has deleted,
\* whatever the network thread is doing when the object is destroyed; and
\* listeners that are set and replaced leave no reference behind.
NoUseAfterDestroy ==
    /\ ~dangling
    /\ refs = IF java = "destroyed" THEN {} ELSE {"Frame", listener} \ {NoListener}

\* That, and if the JVM attached the thread each time, the listener got every
\* frame in order and the close.
JavaExact ==
    /\ NoUseAfterDestroy
    /\ listener # NoListener /\ ~missed => seen = delivered /\ told = handler_runs
=============================================================================
