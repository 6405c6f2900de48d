-------------------------------- MODULE Egress --------------------------------
(***************************************************************************)
(* EgressGateway (gateway/src/egress.cpp) with the RTMP sessions of its    *)
(* listener (rtmp/src/server_session.cpp).  Threads: the QUIC network      *)
(* thread (on_frame), the writer, one thread per RTMP session, the accept  *)
(* thread, and the one that calls start() and stop().                      *)
(*                                                                         *)
(* A critical section of player_mutex, or of the queue's mutex, is one     *)
(* action; on_player_play() holds player_mutex over several pushes.        *)
(***************************************************************************)
EXTENDS PlayerQueue, GapTracker

CONSTANTS
    Sessions, NoSession,
    Kinds,          \* what arrives: a subset of FrameKinds
    FrameBound,     \* bound: frames that arrive
    StartBound      \* bound: calls of start() when stopped

FrameKinds == {"Data", "Audio", "AudioHeader"} \cup VideoClasses

ASSUME EgressAssumption ==
    /\ NoSession \notin Sessions /\ Kinds \subseteq FrameKinds
    /\ FrameBound \in Nat /\ StartBound \in Nat

VARIABLES
    \* EgressGateway::Impl, guarded by player_mutex
    player, player_ready, init_types, init_cache,
    \* the network thread in on_frame(), and the message it is about to push
    net, net_msg,
    \* the writer thread, the message it popped, the session it sends to
    writer, hand, target,
    \* each session: where its thread stands, whether its socket is shut down
    session, shut, play_pos,
    \* how far start() and stop() have come, calls of start() when
    \* stopped, whether the listener runs
    stage, starts, listening,
    \* history: frames that arrived, sessions whose own play was handled, what
    \* was written to each session, Init messages push() refused, sessions
    \* accepted while stop() was running
    frames, played, sent, refused, late

playerVars  == <<player, player_ready, init_types, init_cache>>
netVars     == <<net, net_msg>>
writerVars  == <<writer, hand, target>>
sessionVars == <<session, shut, play_pos>>
stageVars   == <<stage, starts, listening>>
historyVars == <<frames, played, sent, refused, late>>
vars == <<playerQueueVars, gapVars, playerVars, netVars, writerVars,
          sessionVars, stageVars, historyVars>>

Types == {"data", "audio", "video"}

\* A message has a kind, "Init" or "Coded", a type and an id.
NoMessage == [kind |-> "none", type |-> "none", id |-> 0]

\* The RTMP message type.
TypeOf(k) == IF k = "Data" THEN "data" ELSE IF k \in VideoClasses THEN "video"
             ELSE "audio"

\* is_init(): data, and the audio and video sequence headers.
IsInit(k) == k \in {"Data", "AudioHeader", "SequenceHeader"}

\* stop() takes stage from "running" through "quiet", "shut", "closing",
\* "joined", "deaf" and "hungup" to "stopped".
Init ==
    /\ PlayerQueueInit /\ GapInit
    /\ player = NoSession /\ player_ready = FALSE
    /\ init_types = <<>> /\ init_cache = [t \in Types |-> NoMessage]
    /\ net = "idle" /\ net_msg = NoMessage
    /\ writer = "none" /\ hand = NoMessage /\ target = NoSession
    /\ session = [s \in Sessions |-> "none"]
    /\ shut = [s \in Sessions |-> FALSE] /\ play_pos = 0
    /\ stage = "stopped" /\ starts = 0 /\ listening = FALSE
    /\ frames = 0 /\ played = {} /\ refused = {} /\ late = {}
    /\ sent = [s \in Sessions |-> <<>>]

\* A session thread holds player_mutex across on_player_play().
PlayerLocked == \E s \in Sessions : session[s] = "push"

-----------------------------------------------------------------------------
(* The network thread: on_frame().                                         *)

\* Up to the end of its critical section.  A frame that the gap tracker
\* rejects is dropped before; before play, init frames are only cached.
OnFrame(k, ts) ==
    LET msg  == [kind |-> IF IsInit(k) THEN "Init" ELSE "Coded",
                 type |-> TypeOf(k), id |-> frames + 1]
        keep == k \in VideoClasses => Accepts(ts, k)
    IN  /\ stage = "running" /\ net = "idle" /\ ~PlayerLocked
        /\ frames < FrameBound /\ frames' = frames + 1
        /\ IF k \in VideoClasses THEN Track(ts, k) ELSE UNCHANGED gapVars
        /\ IF keep /\ IsInit(k)
           THEN /\ init_cache' = [init_cache EXCEPT ![msg.type] = msg]
                /\ init_types' = IF msg.type \in Range(init_types) THEN init_types
                                 ELSE Append(init_types, msg.type)
           ELSE UNCHANGED <<init_cache, init_types>>
        /\ IF keep /\ player_ready THEN net' = "push" /\ net_msg' = msg
                                   ELSE UNCHANGED netVars
        /\ UNCHANGED <<playerQueueVars, player, player_ready, writerVars,
                       sessionVars, stageVars, played, sent, refused, late>>

\* An Init message that finds the queue full of Init entries is refused.
NoteRefused(msg) ==
    refused' = IF msg.kind = "Init" /\ Len(queue) = MaxMessages /\ ~HasCoded(queue)
               THEN refused \cup {msg} ELSE refused

\* The push, after the lock is released.
FramePush ==
    /\ net = "push"
    /\ Push(net_msg) /\ NoteRefused(net_msg)
    /\ net' = "idle" /\ net_msg' = NoMessage
    /\ UNCHANGED <<gapVars, playerVars, writerVars, sessionVars, stageVars,
                   frames, played, sent, late>>

-----------------------------------------------------------------------------
(* The writer thread: writer_loop().                                       *)

WriterPop ==
    /\ writer = "pop" /\ Pop
    /\ hand' = Head(queue) /\ writer' = "take"
    /\ UNCHANGED <<gapVars, playerVars, netVars, target, sessionVars,
                   stageVars, historyVars>>

WriterExit ==
    /\ writer = "pop" /\ Drained
    /\ writer' = "exit"
    /\ UNCHANGED <<playerQueueVars, gapVars, playerVars, netVars, hand, target,
                   sessionVars, stageVars, historyVars>>

\* The session is picked under the lock; without a ready one, nothing is sent.
WriterTake ==
    /\ writer = "take" /\ ~PlayerLocked
    /\ IF player_ready
       THEN target' = player /\ writer' = "send" /\ UNCHANGED hand
       ELSE writer' = "pop" /\ hand' = NoMessage /\ UNCHANGED target
    /\ UNCHANGED <<playerQueueVars, gapVars, playerVars, netVars, sessionVars,
                   stageVars, historyVars>>

\* send() returns: written, or failed because the socket was shut down.
WriterSent ==
    /\ writer = "send"
    /\ writer' = "pop" /\ hand' = NoMessage /\ target' = NoSession
    /\ sent' = IF shut[target] THEN sent
               ELSE [sent EXCEPT ![target] = Append(@, hand)]
    /\ UNCHANGED <<playerQueueVars, gapVars, playerVars, netVars, sessionVars,
                   stageVars, frames, played, refused, late>>

-----------------------------------------------------------------------------
(* RTMP sessions.                                                          *)

\* The accept thread: the factory shuts the previous player down, flushes the
\* queue and installs the new one, whose thread then starts.
Accept(s) ==
    /\ stage \in {"running", "quiet", "shut", "closing", "joined"}
    /\ listening /\ session[s] = "none" /\ ~PlayerLocked
    /\ shut' = [p \in Sessions |-> shut[p] \/ p = player]
    /\ Clear
    /\ player' = s /\ player_ready' = FALSE
    /\ session' = [session EXCEPT ![s] = "recv"]
    /\ late' = IF stage = "running" THEN late ELSE late \cup {s}
    /\ UNCHANGED <<gapVars, init_types, init_cache, netVars, writerVars,
                   play_pos, stageVars, frames, played, sent, refused>>

\* run() has received play (bound: once per session); `closing` is looked at
\* only when recv() returns.
RecvPlay(s) ==
    /\ session[s] = "recv" /\ ~shut[s] /\ s \notin played
    /\ session' = [session EXCEPT ![s] = "reply"]
    /\ UNCHANGED <<playerQueueVars, gapVars, playerVars, netVars, writerVars,
                   shut, play_pos, stageVars, historyVars>>

\* The replies are written, under the session's write_mutex; then on_stream
\* calls on_player_play(), which returns when there is no player at all.
Replied(s) ==
    /\ session[s] = "reply"
    /\ ~(writer = "send" /\ target = s) /\ ~PlayerLocked
    /\ played' = played \cup {s}
    /\ IF player = NoSession
       THEN session' = [session EXCEPT ![s] = "recv"] /\ UNCHANGED play_pos
       ELSE session' = [session EXCEPT ![s] = "push"] /\ play_pos' = 1
    /\ UNCHANGED <<playerQueueVars, gapVars, playerVars, netVars, writerVars,
                   shut, stageVars, frames, sent, refused, late>>

\* Mutant of PlayPush: waits for room in the queue.
PlayPushBlocks(s) ==
    /\ session[s] = "push" /\ play_pos <= Len(init_types)
    /\ Len(queue) < MaxMessages
    /\ Push(init_cache[init_types[play_pos]])
    /\ play_pos' = play_pos + 1
    /\ UNCHANGED <<gapVars, playerVars, netVars, writerVars, session, shut,
                   stageVars, historyVars>>

\* One cached init frame is queued ...
PlayPush(s) ==
    /\ session[s] = "push" /\ play_pos <= Len(init_types)
    /\ LET msg == init_cache[init_types[play_pos]]
       IN  Push(msg) /\ NoteRefused(msg)
    /\ play_pos' = play_pos + 1
    /\ UNCHANGED <<gapVars, playerVars, netVars, writerVars, session, shut,
                   stageVars, frames, played, sent, late>>

\* ... and after the last one the player is ready.
PlayReady(s) ==
    /\ session[s] = "push" /\ play_pos > Len(init_types)
    /\ player_ready' = TRUE
    /\ session' = [session EXCEPT ![s] = "recv"]
    /\ play_pos' = 0
    /\ UNCHANGED <<playerQueueVars, gapVars, player, init_types, init_cache,
                   netVars, writerVars, shut, stageVars, historyVars>>

\* run() ends, because the peer left or the socket was shut down.  It shuts the
\* socket down, except where it ends in the RTMP handshake, before any play ...
RunEnds(s) ==
    /\ session[s] = "recv"
    /\ session' = [session EXCEPT ![s] = "ended"]
    /\ \/ shut' = [shut EXCEPT ![s] = TRUE]
       \/ s \notin played /\ UNCHANGED shut
    /\ UNCHANGED <<playerQueueVars, gapVars, playerVars, netVars, writerVars,
                   play_pos, stageVars, historyVars>>

\* Mutant of OnClose: on_close leaves the player pointer.
OnCloseKeepsPlayer(s) ==
    /\ session[s] = "ended" /\ ~PlayerLocked
    /\ session' = [session EXCEPT ![s] = "done"]
    /\ UNCHANGED <<playerQueueVars, gapVars, playerVars, netVars, writerVars,
                   shut, play_pos, stageVars, historyVars>>

\* ... and then on_close forgets the session if it is still the player.
OnClose(s) ==
    /\ session[s] = "ended" /\ ~PlayerLocked
    /\ session' = [session EXCEPT ![s] = "done"]
    /\ player' = IF player = s THEN NoSession ELSE player
    /\ player_ready' = (player_ready /\ player # s)
    /\ UNCHANGED <<playerQueueVars, gapVars, init_types, init_cache, netVars,
                   writerVars, shut, play_pos, stageVars, historyVars>>

-----------------------------------------------------------------------------
(* start() and stop().                                                     *)

\* start(): the writer, the supervisor, and the listener, which may fail to
\* start.  The queue is not opened again: it stays closed after a stop().
Start ==
    /\ stage = "stopped" /\ starts < StartBound
    /\ starts' = starts + 1 /\ stage' = "running"
    /\ writer' = "pop"
    /\ listening' \in BOOLEAN
    /\ UNCHANGED <<playerQueueVars, gapVars, playerVars, netVars, hand, target,
                   sessionVars, historyVars>>

\* start() of a gateway that is running, also one whose listener failed: a new
\* supervisor, for which the network thread of the old one is joined.  The
\* writer, and a listener that runs, are left as they are.
StartAgain ==
    /\ stage = "running" /\ net = "idle"
    /\ listening' \in BOOLEAN /\ (listening => listening')
    /\ UNCHANGED <<playerQueueVars, gapVars, playerVars, netVars, writerVars,
                   sessionVars, stage, starts, historyVars>>

\* stop() of a gateway that is not running still closes the queue.
StopIdle ==
    /\ stage = "stopped" /\ ~queue_closed
    /\ CloseQueue
    /\ UNCHANGED <<gapVars, playerVars, netVars, writerVars, sessionVars,
                   stageVars, historyVars>>

\* 1. ConnectionSupervisor::stop() joins the network thread.
StopSupervisor ==
    /\ stage = "running" /\ net = "idle"
    /\ stage' = "quiet"
    /\ UNCHANGED <<playerQueueVars, gapVars, playerVars, netVars, writerVars,
                   sessionVars, starts, listening, historyVars>>

\* Mutant of ShutPlayer: the player's socket stays open.
ShutNothing ==
    /\ stage = "quiet" /\ ~PlayerLocked
    /\ stage' = "shut"
    /\ UNCHANGED <<playerQueueVars, gapVars, playerVars, netVars, writerVars,
                   sessionVars, starts, listening, historyVars>>

\* 2. The player's socket is shut down.
ShutPlayer ==
    /\ stage = "quiet" /\ ~PlayerLocked
    /\ shut' = [s \in Sessions |-> shut[s] \/ s = player]
    /\ stage' = "shut"
    /\ UNCHANGED <<playerQueueVars, gapVars, playerVars, netVars, writerVars,
                   session, play_pos, starts, listening, historyVars>>

\* 3. The queue is closed and the writer joined.
StopQueue ==
    /\ stage = "shut"
    /\ CloseQueue
    /\ stage' = "closing"
    /\ UNCHANGED <<gapVars, playerVars, netVars, writerVars, sessionVars,
                   starts, listening, historyVars>>

\* Mutant of JoinWriter: stop() does not wait.
JoinWriterEarly ==
    /\ stage = "closing"
    /\ stage' = "joined"
    /\ UNCHANGED <<playerQueueVars, gapVars, playerVars, netVars, writerVars,
                   sessionVars, starts, listening, historyVars>>

JoinWriter ==
    /\ stage = "closing" /\ writer = "exit"
    /\ stage' = "joined"
    /\ UNCHANGED <<playerQueueVars, gapVars, playerVars, netVars, writerVars,
                   sessionVars, starts, listening, historyVars>>

\* 4. Listener::stop(), unless it does not run: the accept thread is joined, ...
StopAccepting ==
    /\ stage = "joined"
    /\ stage' = IF listening THEN "deaf" ELSE "stopped"
    /\ listening' = FALSE
    /\ UNCHANGED <<playerQueueVars, gapVars, playerVars, netVars, writerVars,
                   sessionVars, starts, historyVars>>

\* ... every session is closed, ...
CloseSessions ==
    /\ stage = "deaf"
    /\ shut' = [s \in Sessions |-> shut[s] \/ session[s] # "none"]
    /\ stage' = "hungup"
    /\ UNCHANGED <<playerQueueVars, gapVars, playerVars, netVars, writerVars,
                   session, play_pos, starts, listening, historyVars>>

\* ... and joined and destroyed.
DestroySessions ==
    /\ stage = "hungup"
    /\ \A s \in Sessions : session[s] \in {"none", "done", "destroyed"}
    /\ session' = [s \in Sessions |-> IF session[s] = "done" THEN "destroyed"
                                      ELSE session[s]]
    /\ stage' = "stopped"
    /\ UNCHANGED <<playerQueueVars, gapVars, playerVars, netVars, writerVars,
                   shut, play_pos, starts, listening, historyVars>>

-----------------------------------------------------------------------------

Writer  == WriterPop \/ WriterExit \/ WriterTake \/ WriterSent
Session(s) == \/ RecvPlay(s) \/ Replied(s) \/ PlayPush(s) \/ PlayReady(s)
              \/ RunEnds(s) \/ OnClose(s)
Stop    == StopSupervisor \/ ShutPlayer \/ StopQueue \/ JoinWriter
           \/ StopAccepting \/ CloseSessions \/ DestroySessions

Next ==
    \/ \E k \in Kinds, ts \in Timestamps : OnFrame(k, ts)
    \/ FramePush \/ Writer
    \/ \E s \in Sessions : Accept(s) \/ Session(s)
    \/ Start \/ StartAgain \/ StopIdle \/ Stop

Spec == Init /\ [][Next]_vars

\* Every thread keeps running, and stop() once called; but writing to a player
\* that does not read returns only when its socket has been shut down.
FairSpec ==
    /\ Spec
    /\ WF_vars(FramePush)
    /\ WF_vars(\/ WriterPop \/ WriterExit \/ WriterTake
               \/ writer = "send" /\ shut[target] /\ WriterSent)
    /\ \A s \in Sessions :
          WF_vars(\/ PlayPush(s) \/ PlayReady(s) \/ OnClose(s)
                  \/ shut[s] /\ (Replied(s) \/ RunEnds(s)))
    /\ WF_vars(stage # "running" /\ Stop)

-----------------------------------------------------------------------------
(* Properties.                                                             *)

\* The pointers that outlive a critical section never dangle: the player is a
\* session whose thread has not run on_close, and the session the writer sends to
\* has not been destroyed, across replacement, disconnect and stop().
PointersLive ==
    /\ player # NoSession => session[player] \in {"recv", "reply", "push", "ended"}
    /\ player_ready => player # NoSession
    /\ writer = "send" => session[target] \notin {"none", "destroyed"}

\* The coded messages of a sequence, and that they are in order of arrival.
Coded(q)      == {q[i].id : i \in {k \in DOMAIN q : IsCoded(q[k])}}
CodedRises(q) == \A i, j \in DOMAIN q :
                    i < j /\ IsCoded(q[i]) /\ IsCoded(q[j]) => q[i].id < q[j].id

\* Coded frames go to one session only, once, and in the order they arrived,
\* however players come and go.
CodedOnceInOrder ==
    \A s \in Sessions :
        /\ CodedRises(sent[s])
        /\ \A r \in Sessions \ {s} : Coded(sent[s]) \cap Coded(sent[r]) = {}

\* A player that is being served has been sent the latest init frame of every
\* type, or it is on its way; only a queue full of Init entries refuses one.
InitReachesPlayer ==
    player_ready /\ ~shut[player] /\ ~queue_closed =>
        \A t \in Range(init_types) :
            init_cache[t] \in Range(sent[player]) \cup Range(queue)
                              \cup {net_msg, hand} \cup refused

\* After stop() nothing is left running and no player is remembered, so stop()
\* again, as the destructor does, touches no session.
StoppedIsQuiet ==
    stage = "stopped" =>
        /\ player = NoSession /\ ~player_ready /\ net = "idle"
        /\ writer \in {"none", "exit"}
        /\ \A s \in Sessions : session[s] \in {"none", "destroyed"}

\* All messages there can be.
Messages == [kind : {"Init", "Coded"}, type : Types, id : 1..FrameBound]

Q == INSTANCE LossyQueue WITH
        Entries <- Messages, Bound <- MaxMessages,
        items <- queue, lost <- dropped, closed <- queue_closed

\* Between the network thread, session threads that prime a player or replace
\* it, the writer and stop(), the queue does what LossyQueue says: it keeps its
\* bound and its order, gives up only the oldest coded entry, never a queued
\* Init entry, counts every loss, and takes nothing once closed.
IsLossyQueue == Q!Spec

\* player_mutex is released even if no player ever reads, so a stalled player
\* does not stop the network thread.
NetworkNotWedged == PlayerLocked ~> ~PlayerLocked

\* The writer is held by a session whose run() ended in the RTMP handshake: its
\* socket is not shut down, and it is not the player any more.
WriterHeld == writer = "send" /\ session[target] = "done" /\ ~shut[target]

\* stop() returns even if no player ever reads, unless one connects while it is
\* running, or one that never got to play holds the writer.
StopReturns == stage = "quiet" ~> stage = "stopped" \/ late # {} \/ WriterHeld

\* Nothing is written to a session before its own play was handled.
MediaAfterPlay == \A s \in Sessions : sent[s] # <<>> => s \in played
=============================================================================
