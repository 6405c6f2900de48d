------------------------------ MODULE MediaRouter ------------------------------
(***************************************************************************)
(* MediaRouter (tools/relayd/src/media_router.cpp): which connection       *)
(* publishes and which ones play each named stream, and the init frames    *)
(* cached for it.  Connections are the picoquic_cnx_t pointers, which may  *)
(* be used again for a later connection.  A stream the map has no entry    *)
(* for is one with no publisher, no subscribers and no init frames.        *)
(***************************************************************************)
EXTENDS Integers, Sequences, Functions

CONSTANTS
    Cnxs, NoCnx,    \* connection pointers, nullptr
    Names, NoName,  \* stream names, "not in conn_stream_"
    InitTypes       \* message types that init frames have

ASSUME RouterAssumption == NoCnx \notin Cnxs /\ NoName \notin Names

VARIABLES
    publisher,      \* Stream::publisher, by name
    subscribers,    \* Stream::subscribers, by name: how often each connection is
                    \* in the vector; its order decides nothing
    init_types,     \* Stream::init_types, by name, in order of appearance
    init,           \* Stream::init, by name and type; NoFrame if absent
    conn_stream     \* conn_stream_, by connection

initVars   == <<init_types, init>>
routerVars == <<publisher, subscribers, initVars, conn_stream>>

NoFrame == [id |-> 0]

RouterInit ==
    /\ publisher = [n \in Names |-> NoCnx]
    /\ subscribers = [n \in Names |-> [c \in Cnxs |-> 0]]
    /\ init_types = [n \in Names |-> <<>>]
    /\ init = [n \in Names |-> [t \in InitTypes |-> NoFrame]]
    /\ conn_stream = [c \in Cnxs |-> NoName]

-----------------------------------------------------------------------------

RegisterPublisher(c, n) ==
    /\ publisher' = [publisher EXCEPT ![n] = c]
    /\ conn_stream' = [conn_stream EXCEPT ![c] = n]
    /\ UNCHANGED <<subscribers, initVars>>

RegisterSubscriber(c, n) ==
    /\ subscribers' = [subscribers EXCEPT ![n][c] = IF @ > 0 THEN @ ELSE @ + 1]
    /\ conn_stream' = [conn_stream EXCEPT ![c] = n]
    /\ UNCHANGED <<publisher, initVars>>

\* Mutant of IsPublisher: anyone who takes part in a stream publishes it.
IsParticipant(c) == conn_stream[c] # NoName

\* is_publisher(): of the stream the connection registered for last.
IsPublisher(c) == conn_stream[c] # NoName /\ publisher[conn_stream[c]] = c

\* subscribers_for_publisher().
SubscribersFor(c) ==
    IF IsPublisher(c) THEN subscribers[conn_stream[c]] ELSE [d \in Cnxs |-> 0]

\* cache_init().
CacheInit(n, t, frame) ==
    /\ init_types' = [init_types EXCEPT ![n] = IF t \in Range(@) THEN @ ELSE Append(@, t)]
    /\ init' = [init EXCEPT ![n][t] = frame]

\* init_frames(): the latest one of each type.
InitFrames(n) == [i \in DOMAIN init_types[n] |-> init[n][init_types[n][i]]]

\* Mutant of RemoveCnxs: the publisher's registration stays.
RemoveSubscriberOnly(closing) ==
    /\ subscribers' = [n \in Names |-> [c \in Cnxs |->
                            IF c \in closing /\ conn_stream[c] = n THEN 0
                            ELSE subscribers[n][c]]]
    /\ conn_stream' = [c \in Cnxs |-> IF c \in closing THEN NoName ELSE conn_stream[c]]
    /\ UNCHANGED <<publisher, initVars>>

\* remove(), for each of the connections in turn: each leaves the stream it
\* registered for last.
RemoveCnxs(closing) ==
    LET leaves(c, n) == c \in closing /\ conn_stream[c] = n
    IN  /\ publisher' = [n \in Names |-> IF publisher[n] # NoCnx /\ leaves(publisher[n], n)
                                         THEN NoCnx ELSE publisher[n]]
        /\ subscribers' = [n \in Names |-> [c \in Cnxs |->
                             IF leaves(c, n) THEN 0 ELSE subscribers[n][c]]]
        /\ conn_stream' = [c \in Cnxs |-> IF c \in closing THEN NoName
                                          ELSE conn_stream[c]]
        /\ UNCHANGED initVars
=============================================================================
