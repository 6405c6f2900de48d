----------------------------- MODULE EgressProofs -----------------------------
(***************************************************************************)
(* Proofs about Egress, for any sessions, frames, queue size, timestamps   *)
(* and number of restarts; first, about its gap tracker over any timeline. *)
(***************************************************************************)
EXTENDS Egress, Timeline, SequenceTheorems, WellFoundedInduction, TLAPS

\* The provers to try, with time enough for the larger steps.
USE ZenonT(60), SMTT(60)

-----------------------------------------------------------------------------
(* The gap tracker.                                                        *)

\* What the gap tracker remembers of the timeline: that there was a frame, the
\* last timestamp, and whether the last frame lies after a gap.
GapInv ==
    /\ timeline \in Seq([ts : Nat, cls : VideoClasses, accepted : BOOLEAN])
    /\ have = (timeline # <<>>) /\ discontinuous = BrokenAt(Len(timeline))
    /\ timeline # <<>> => last_ts = timeline[Len(timeline)].ts
    /\ GapExact

\* A frame more leaves the frames before it as they were.
LEMMA GapStep ==
    ASSUME GapInv, NEW ts \in Timestamps, NEW cls \in VideoClasses, TrackFrame(ts, cls)
    PROVE  GapInv'
<1> DEFINE Videos == [ts : Nat, cls : VideoClasses, accepted : BOOLEAN]
           v == [ts |-> ts, cls |-> cls, accepted |-> Accepts(ts, cls)]
           After(m) == \/ timeline'[m].ts < timeline'[m - 1].ts
                       \/ timeline'[m].ts - timeline'[m - 1].ts > JumpThreshold
<1>0. PICK n \in Nat : n = Len(timeline)
  BY SMTT(60) DEF GapInv
<1>1. ts \in Nat /\ JumpThreshold \in Nat
  BY TimestampAssumption, SMTT(60)
<1>2. v \in Videos /\ v.ts = ts /\ v.cls = cls /\ v.accepted = Accepts(ts, cls)
  BY <1>1 DEF Accepts
<1>3. timeline \in Seq(Videos) /\ timeline' = Append(timeline, v) /\ n = Len(timeline)
  BY <1>0 DEF GapInv, TrackFrame
<1>4. /\ timeline' \in Seq(Videos) /\ Len(timeline') = n + 1
      /\ DOMAIN timeline' = 1..(n + 1) /\ DOMAIN timeline = 1..n
      /\ timeline'[n + 1] = v /\ \A i \in 1..n : timeline'[i] = timeline[i]
      /\ timeline = <<>> <=> n = 0
  <2> HIDE DEF v, Videos
  <2>1. QED
    BY <1>2, <1>3, SMTT(60)
<1>5. \A i \in 1..n : BrokenAt(i)' <=> BrokenAt(i)
  <2> SUFFICES ASSUME NEW i \in 1..n PROVE BrokenAt(i)' <=> BrokenAt(i)
    OBVIOUS
  <2>1. \A m \in 2..i : /\ timeline'[m] = timeline[m] /\ timeline'[m - 1] = timeline[m - 1]
                        /\ \A k \in m..i : timeline'[k] = timeline[k]
    BY <1>3, <1>4, SMTT(60)
  <2>2. QED
    BY <2>1 DEF BrokenAt, Recovers
<1>6. GapAt(ts) <=> BrokenAt(n) \/ (n > 0 /\ After(n + 1))
  <2>1. CASE n = 0
    <3>1. ~BrokenAt(n)
      BY <2>1, SMTT(60) DEF BrokenAt
    <3>2. have = FALSE /\ discontinuous = BrokenAt(n)
      BY <1>3, <1>4, <2>1 DEF GapInv
    <3> HIDE DEF After
    <3>3. QED
      BY <2>1, <3>1, <3>2, SMTT(60) DEF GapAt
  <2>2. CASE n > 0
    <3>1. /\ timeline'[n] = timeline[n] /\ timeline'[n + 1] = v /\ v.ts = ts
          /\ timeline[n].ts = last_ts /\ have = TRUE /\ last_ts \in Nat
      <4>1. timeline[n] \in Videos
        <5> HIDE DEF Videos
        <5>1. n \in 1..n
          BY <2>2, SMTT(60)
        <5>2. QED
          BY <1>3, <1>4, <5>1, ElementOfSeq
      <4>2. timeline # <<>> /\ timeline'[n] = timeline[n]
        BY <1>4, <2>2, SMTT(60)
      <4>3. timeline[n].ts = last_ts /\ have = TRUE
        BY <1>3, <4>2 DEF GapInv
      <4>4. timeline[n].ts \in Nat
        BY <4>1
      <4>5. QED
        BY <1>2, <1>4, <4>2, <4>3, <4>4
    <3>2. After(n + 1) <=> ts < last_ts \/ Jumped(ts)
      <4>1. (n + 1) - 1 = n
        BY <1>3, SMTT(60)
      <4>2. After(n + 1) <=> ts < last_ts \/ ts - last_ts > JumpThreshold
        BY <3>1, <4>1
      <4>3. QED
        BY <1>1, <3>1, <4>2, SMTT(60) DEF Jumped
    <3>3. discontinuous = BrokenAt(n)
      BY <1>3 DEF GapInv
    <3> HIDE DEF After
    <3>4. QED
      BY <2>2, <3>1, <3>2, <3>3 DEF GapAt
  <2>3. QED
    BY <1>3, <2>1, <2>2, SMTT(60)
<1>7. BrokenAt(n + 1)' <=> GapAt(ts) /\ ~Recovers(cls)
  <2>1. Recovers(timeline'[n + 1].cls) <=> Recovers(cls)
    BY <1>2, <1>4
  <2>2. BrokenAt(n + 1)' <=> \E m \in 2..(n + 1) :
            After(m) /\ \A k \in m..(n + 1) : ~Recovers(timeline'[k].cls)
    BY DEF BrokenAt
  <2>3. BrokenAt(n)' <=> \E m \in 2..n :
            After(m) /\ \A k \in m..n : ~Recovers(timeline'[k].cls)
    BY DEF BrokenAt
  <2>4. BrokenAt(n)' <=> BrokenAt(n)
    <3>1. CASE n = 0
      BY <3>1, SMTT(60) DEF BrokenAt
    <3>2. CASE n > 0
      BY <1>3, <1>5, <3>2, SMTT(60)
    <3>3. QED
      BY <1>3, <3>1, <3>2, SMTT(60)
  <2> HIDE DEF After, v
  <2>5. \A m \in 2..(n + 1) :
            (\A k \in m..(n + 1) : ~Recovers(timeline'[k].cls))
            <=> ~Recovers(cls) /\ \A k \in m..n : ~Recovers(timeline'[k].cls)
    <3>1. \A m \in 2..(n + 1) : \A k : k \in m..(n + 1) <=> k \in m..n \/ k = n + 1
      BY <1>3, SMTT(60)
    <3>2. QED
      BY <2>1, <3>1
  <2>6. \A m : m \in 2..(n + 1) <=> m \in 2..n \/ (n > 0 /\ m = n + 1)
    BY <1>3, SMTT(60)
  <2>7. \A k : k \notin (n + 1)..n
    BY <1>3, SMTT(60)
  <2>8. ASSUME BrokenAt(n + 1)' PROVE GapAt(ts) /\ ~Recovers(cls)
    <3>1. PICK m \in 2..(n + 1) :
              After(m) /\ \A k \in m..(n + 1) : ~Recovers(timeline'[k].cls)
      BY <2>2, <2>8
    <3>2. ~Recovers(cls) /\ \A k \in m..n : ~Recovers(timeline'[k].cls)
      BY <2>5, <3>1
    <3>3. CASE m \in 2..n
      BY <1>6, <2>3, <2>4, <3>1, <3>2, <3>3
    <3>4. CASE n > 0 /\ m = n + 1
      BY <1>6, <3>1, <3>2, <3>4
    <3>5. QED
      BY <2>6, <3>3, <3>4
  <2>9. ASSUME GapAt(ts), ~Recovers(cls) PROVE BrokenAt(n + 1)'
    <3>1. CASE BrokenAt(n)
      <4>1. PICK m \in 2..n : After(m) /\ \A k \in m..n : ~Recovers(timeline'[k].cls)
        BY <2>3, <2>4, <3>1
      <4>2. m \in 2..(n + 1)
        BY <2>6, <4>1
      <4>3. QED
        BY <2>2, <2>5, <2>9, <4>1, <4>2
    <3>2. CASE n > 0 /\ After(n + 1)
      <4>1. n + 1 \in 2..(n + 1)
        BY <2>6, <3>2
      <4>2. QED
        BY <2>2, <2>5, <2>7, <2>9, <3>2, <4>1
    <3>3. QED
      BY <1>6, <2>9, <3>1, <3>2
  <2>10. QED
    BY <2>8, <2>9
<1>8. GapExact'
  <2>1. \A i \in 1..n : timeline'[i].accepted <=> ~BrokenAt(i)'
    BY <1>4, <1>5 DEF GapInv, GapExact
  <2>2. timeline'[n + 1].accepted <=> ~BrokenAt(n + 1)'
    BY <1>2, <1>4, <1>7 DEF Accepts
  <2>3. DOMAIN timeline' = 1..n \cup {n + 1}
    BY <1>3, <1>4, SMTT(60)
  <2>4. QED
    BY <2>1, <2>2, <2>3 DEF GapExact
<1>9. have' = (timeline' # <<>>) /\ discontinuous' = BrokenAt(Len(timeline))'
  <2>1. have' = TRUE /\ discontinuous' = (GapAt(ts) /\ ~Recovers(cls))
    BY DEF TrackFrame, Track
  <2>2. timeline' # <<>>
    BY <1>3, <1>4, SMTT(60)
  <2>3. BrokenAt(Len(timeline))' <=> GapAt(ts) /\ ~Recovers(cls)
    BY <1>4, <1>7
  <2>4. BrokenAt(Len(timeline))' \in BOOLEAN
    BY DEF BrokenAt
  <2>5. QED
    BY <2>1, <2>2, <2>3, <2>4
<1>10. last_ts' = timeline'[Len(timeline')].ts
  BY <1>2, <1>4 DEF TrackFrame, Track
<1>11. QED
  BY <1>4, <1>8, <1>9, <1>10 DEF GapInv

\* On every timeline, however long, accept() lets exactly the frames through that
\* do not lie after a gap.
THEOREM GapRuleExact == TimelineSpec => []GapExact
<1>1. TimelineInit => GapInv
  <2> SUFFICES ASSUME TimelineInit PROVE GapInv
    OBVIOUS
  <2>1. timeline = <<>> /\ have = FALSE /\ discontinuous = FALSE
    BY DEF TimelineInit, GapInit
  <2>2. BrokenAt(Len(timeline)) = FALSE
    BY <2>1, SMTT(60) DEF BrokenAt
  <2>3. GapExact
    BY <2>1, SMTT(60) DEF GapExact
  <2>4. timeline \in Seq([ts : Nat, cls : VideoClasses, accepted : BOOLEAN])
    BY <2>1, SMTT(60)
  <2>5. QED
    BY <2>1, <2>2, <2>3, <2>4 DEF GapInv
<1>2. /\ GapInv
      /\ [\E ts \in Timestamps, cls \in VideoClasses : TrackFrame(ts, cls)]_timelineVars
      => GapInv'
  <2>1. GapInv /\ UNCHANGED timelineVars => GapInv'
    BY DEF GapInv, GapExact, BrokenAt, timelineVars, gapVars
  <2>2. QED
    BY <2>1, GapStep
<1>3. GapInv => GapExact
  BY DEF GapInv
<1>4. QED
  BY <1>1, <1>2, <1>3, PTL DEF TimelineSpec

-----------------------------------------------------------------------------
(* Threads and pointers.                                                   *)

SessionStates == {"none", "recv", "reply", "push", "ended", "done", "destroyed"}
Stages == {"running", "quiet", "shut", "closing", "joined", "deaf", "hungup",
           "stopped"}

ThreadTypes ==
    /\ player \in Sessions \cup {NoSession} /\ player_ready \in BOOLEAN
    /\ net \in {"idle", "push"}
    /\ writer \in {"none", "pop", "take", "send", "exit"}
    /\ session \in [Sessions -> SessionStates]
    /\ stage \in Stages /\ listening \in BOOLEAN

\* What stop() has joined so far, that there are sessions only where the listener
\* runs or is being stopped, and that on_player_play() holds player_mutex only
\* while there is a player.
StageInv ==
    /\ stage # "running" => net = "idle"
    /\ stage \in {"joined", "deaf", "hungup", "stopped"} => writer \in {"none", "exit"}
    /\ listening => stage \notin {"deaf", "hungup", "stopped"}
    /\ ~listening /\ stage \notin {"deaf", "hungup"} =>
          \A s \in Sessions : session[s] \in {"none", "destroyed"}
    /\ PlayerLocked => player # NoSession
    /\ writer = "send" => target \in Sessions

ThreadInv == ThreadTypes /\ StageInv /\ PointersLive

\* A gateway that has not been started has no thread and no player.
LEMMA ThreadInit == Init => ThreadInv
  BY EgressAssumption
  DEF Init, ThreadInv, ThreadTypes, StageInv, PointersLive, SessionStates, Stages,
      PlayerLocked

\* Every step keeps the thread invariant: a session ends only after it has been
\* taken out as the player and the writer has let go of it.
LEMMA ThreadStep == ThreadInv /\ [Next]_vars => ThreadInv'
<1> SUFFICES ASSUME ThreadInv, [Next]_vars PROVE ThreadInv'
  OBVIOUS
<1> USE EgressAssumption DEF ThreadInv, ThreadTypes, StageInv, PointersLive,
        SessionStates, Stages, PlayerLocked
<1>1. CASE UNCHANGED vars
  BY <1>1 DEF vars, playerVars, netVars, writerVars, sessionVars, stageVars
<1>2. ASSUME NEW k \in Kinds, NEW ts \in Timestamps, OnFrame(k, ts) PROVE ThreadInv'
  BY <1>2 DEF OnFrame, netVars, writerVars, sessionVars, stageVars
<1>3. CASE FramePush
  BY <1>3 DEF FramePush, playerVars, writerVars, sessionVars, stageVars
<1>4. CASE WriterPop \/ WriterExit
  BY <1>4, SMTT(60) DEF WriterPop, WriterExit, playerVars, netVars, sessionVars, stageVars
<1>5. CASE WriterTake \/ WriterSent
  BY <1>5, SMTT(60) DEF WriterTake, WriterSent, playerVars, netVars, sessionVars, stageVars
<1>6. ASSUME NEW s \in Sessions, Accept(s) PROVE ThreadInv'
  BY <1>6 DEF Accept, netVars, writerVars, stageVars
<1>7. ASSUME NEW s \in Sessions, RecvPlay(s) PROVE ThreadInv'
  BY <1>7 DEF RecvPlay, playerVars, netVars, writerVars, stageVars
<1>8. ASSUME NEW s \in Sessions, Replied(s) PROVE ThreadInv'
  BY <1>8 DEF Replied, playerVars, netVars, writerVars, stageVars
<1>9. ASSUME NEW s \in Sessions, PlayPush(s) PROVE ThreadInv'
  BY <1>9 DEF PlayPush, playerVars, netVars, writerVars, stageVars
<1>10. ASSUME NEW s \in Sessions, PlayReady(s) PROVE ThreadInv'
  BY <1>10 DEF PlayReady, netVars, writerVars, stageVars
<1>11. ASSUME NEW s \in Sessions, RunEnds(s) \/ OnClose(s) PROVE ThreadInv'
  <2>1. CASE RunEnds(s)
    BY <2>1 DEF RunEnds, playerVars, netVars, writerVars, stageVars
  <2>2. CASE OnClose(s)
    BY <2>2 DEF OnClose, netVars, writerVars, stageVars
  <2> QED
    BY <1>11, <2>1, <2>2
<1>12. CASE Start \/ StartAgain
  BY <1>12 DEF Start, StartAgain, playerVars, netVars, writerVars, sessionVars
<1>13. CASE StopIdle
  BY <1>13 DEF StopIdle, playerVars, netVars, writerVars, sessionVars, stageVars
<1>14. CASE StopSupervisor \/ StopQueue \/ JoinWriter \/ StopAccepting
  <2>1. CASE StopSupervisor
    BY <2>1 DEF StopSupervisor, playerVars, netVars, writerVars, sessionVars
  <2>2. CASE StopQueue
    BY <2>2 DEF StopQueue, playerVars, netVars, writerVars, sessionVars
  <2>3. CASE JoinWriter
    BY <2>3 DEF JoinWriter, playerVars, netVars, writerVars, sessionVars
  <2>4. CASE StopAccepting
    BY <2>4 DEF StopAccepting, playerVars, netVars, writerVars, sessionVars
  <2> QED
    BY <1>14, <2>1, <2>2, <2>3, <2>4
<1>15. CASE ShutPlayer \/ CloseSessions
  BY <1>15, SMTT(60) DEF ShutPlayer, CloseSessions, playerVars, netVars, writerVars
<1>16. CASE DestroySessions
  BY <1>16 DEF DestroySessions, playerVars, netVars, writerVars
<1> QED
  BY <1>1, <1>2, <1>3, <1>4, <1>5, <1>6, <1>7, <1>8, <1>9, <1>10, <1>11, <1>12,
     <1>13, <1>14, <1>15, <1>16 DEF Next, Writer, Session, Stop

\* The player pointer and the session the writer sends to are never dangling,
\* whatever players connect, leave or replace each other while the gateway runs,
\* stops and starts again.
THEOREM PlayerPointersLive == Spec => []PointersLive
<1>1. ThreadInv => PointersLive
  BY DEF ThreadInv
<1> QED
  BY <1>1, ThreadInit, ThreadStep, PTL DEF Spec

\* When EgressGateway::stop() has returned, no thread of it runs and no player is
\* remembered.
THEOREM StoppedQuiet == Spec => []StoppedIsQuiet
<1>1. ThreadInv => StoppedIsQuiet
  BY EgressAssumption DEF ThreadInv, ThreadTypes, StageInv, PointersLive, StoppedIsQuiet
<1> QED
  BY <1>1, ThreadInit, ThreadStep, PTL DEF Spec

-----------------------------------------------------------------------------
(* The queue.                                                              *)

\* One session at a time holds player_mutex, pushing at play_pos.
OneHolder ==
    /\ play_pos \in Nat /\ (PlayerLocked => play_pos >= 1)
    /\ \A r, s \in Sessions : session[r] = "push" /\ session[s] = "push" => r = s

\* What is queued, about to be queued or cached are messages.
QueueInv ==
    /\ queue \in Seq(Messages) /\ Len(queue) <= MaxMessages
    /\ dropped \in Nat /\ queue_closed \in BOOLEAN
    /\ frames \in 0..FrameBound
    /\ net = "push" => net_msg \in Messages
    /\ init_types \in Seq(Types)
    /\ init_cache \in [Types -> Messages \cup {NoMessage}]
    /\ \A i \in DOMAIN init_types : init_cache[init_types[i]] \in Messages
    /\ OneHolder

\* A new queue is a new lossy queue.
LEMMA QueueInit == Init => QueueInv /\ Q!Init
<1> SUFFICES ASSUME Init PROVE QueueInv /\ Q!Init
  OBVIOUS
<1>1. queue = <<>> /\ dropped = 0 /\ queue_closed = FALSE
  BY DEF Init, PlayerQueueInit
<1>2. frames \in 0..FrameBound /\ net # "push" /\ init_types = <<>> /\ play_pos \in Nat
  BY EgressAssumption, SMTT(60) DEF Init
<1>3. init_cache \in [Types -> Messages \cup {NoMessage}]
  BY DEF Init
<1>4. ~PlayerLocked
  BY DEF Init, PlayerLocked
<1>5. <<>> \in Seq(Messages) /\ <<>> \in Seq(Types) /\ Len(<<>>) <= MaxMessages
  BY QueueAssumption, SMTT(60)
<1>6. \A i \in DOMAIN init_types : init_cache[init_types[i]] \in Messages
  BY <1>2, SMTT(60)
<1>7. OneHolder
  BY <1>2, <1>4 DEF OneHolder, PlayerLocked
<1>8. QueueInv
  BY <1>1, <1>2, <1>3, <1>5, <1>6, <1>7 DEF QueueInv
<1> QED
  BY <1>1, <1>8 DEF Q!Init

\* A set of positions that is not empty has a first one.
LEMMA FirstPosition ==
    ASSUME NEW P \in SUBSET Nat, P # {}
    PROVE  Min(P) \in P /\ \A i \in P : Min(P) <= i
<1>1. PICK x \in P : \A y \in P : ~ (<<y, x>> \in OpToRel(<, Nat))
  BY NatLessThanWellFounded, WFMin
<1>2. ASSUME NEW y \in P PROVE x <= y
  <2>1. ASSUME y < x PROVE <<y, x>> \in {ss \in Nat \X Nat : ss[1] < ss[2]}
    BY <2>1
  <2>2. ~(y < x)
    BY <1>1, <2>1 DEF OpToRel
  <2> QED
    BY <2>2, SMTT(60)
<1> QED
  BY <1>2 DEF Min

\* Evict() takes the oldest coded entry, and only that one.
LEMMA EvictsOldest ==
    ASSUME queue \in Seq(Messages), HasCoded(queue)
    PROVE  \E i \in DOMAIN queue :
              /\ Q!OldestCoded(i) /\ Evict(queue) = Q!Without(i)
              /\ Evict(queue) \in Seq(Messages) /\ Len(Evict(queue)) = Len(queue) - 1
<1> DEFINE P == {i \in 1..Len(queue) : queue[i].kind = "Coded"}
<1>1. P \in SUBSET Nat /\ P # {}
  BY SMTT(60) DEF HasCoded, IsCoded
<1>2. Min(P) \in P /\ \A i \in P : Min(P) <= i
  BY <1>1, FirstPosition
<1>3. PICK m \in 1..Len(queue) : m = Min(P)
  BY <1>2
<1>4. Evict(queue) = SubSeq(queue, 1, m - 1) \o SubSeq(queue, m + 1, Len(queue))
  <2>1. {i \in DOMAIN queue : IsCoded(queue[i])} = P
    BY SMTT(60) DEF IsCoded
  <2>2. FirstCoded(queue) = m
    BY <1>3, <2>1 DEF FirstCoded
  <2> QED
    BY <2>2 DEF Evict
<1>5. queue[m].kind = "Coded" /\ \A j \in 1..(m - 1) : queue[j].kind = "Init"
  <2>1. \A j \in 1..Len(queue) : queue[j].kind \in {"Init", "Coded"}
    <3>1. \A j \in 1..Len(queue) : queue[j] \in Messages
      BY SMTT(60)
    <3> QED
      BY <3>1 DEF Messages
  <2>2. \A j \in 1..Len(queue) : queue[j].kind = "Coded" => m <= j
    BY <1>2, <1>3
  <2>3. queue[m].kind = "Coded"
    BY <1>2, <1>3
  <2> QED
    BY <2>1, <2>2, <2>3, SMTT(60)
<1>6. Q!OldestCoded(m)
  BY <1>5, SMTT(60) DEF Q!OldestCoded
<1>7. Evict(queue) = Q!Without(m)
  BY <1>4 DEF Q!Without
<1>8. Evict(queue) \in Seq(Messages) /\ Len(Evict(queue)) = Len(queue) - 1
  <2>1. /\ SubSeq(queue, 1, m - 1) \in Seq(Messages) /\ Len(SubSeq(queue, 1, m - 1)) = m - 1
        /\ SubSeq(queue, m + 1, Len(queue)) \in Seq(Messages)
        /\ Len(SubSeq(queue, m + 1, Len(queue))) = Len(queue) - m
    BY SubSeqProperties, SMTT(60)
  <2>2. Len(queue) \in Nat
    BY SMTT(60)
  <2>3. PICK a \in Seq(Messages), b \in Seq(Messages) :
              Evict(queue) = a \o b /\ Len(a) = m - 1 /\ Len(b) = Len(queue) - m
    BY <1>4, <2>1
  <2> QED
    BY <2>2, <2>3, ConcatProperties, SMTT(60)
<1> QED
  BY <1>6, <1>7, <1>8, SMTT(60)

\* push() does what a lossy queue may do when it is offered an entry.
LEMMA PushIsOffer ==
    ASSUME queue \in Seq(Messages), Len(queue) <= MaxMessages, dropped \in Nat,
           NEW e \in Messages, Push(e)
    PROVE  /\ queue' \in Seq(Messages) /\ Len(queue') <= MaxMessages /\ dropped' \in Nat
           /\ queue_closed' = queue_closed
           /\ (\E m \in Messages : Q!Offer(m)) \/ UNCHANGED Q!lossyVars
<1>1. CASE queue_closed
  BY <1>1 DEF Push, Q!lossyVars
<1>2. CASE ~queue_closed /\ Len(queue) < MaxMessages
  <2>1. queue' = Append(queue, e) /\ dropped' = dropped /\ queue_closed' = queue_closed
    BY <1>2 DEF Push
  <2>2. Q!Offer(e)
    BY <1>2, <2>1 DEF Q!Offer, Q!Enter
  <2> QED
    BY <1>2, <2>1, <2>2, QueueAssumption, SMTT(60)
<1>3. CASE ~queue_closed /\ ~(Len(queue) < MaxMessages)
  <2>1. /\ dropped' = dropped + 1 /\ queue_closed' = queue_closed
        /\ queue' = IF HasCoded(queue) THEN Append(Evict(queue), e) ELSE queue
        /\ Len(queue) = MaxMessages
    BY <1>3, QueueAssumption, SMTT(60) DEF Push
  <2>2. CASE HasCoded(queue)
    <3>1. PICK i \in DOMAIN queue :
              /\ Q!OldestCoded(i) /\ Evict(queue) = Q!Without(i)
              /\ Evict(queue) \in Seq(Messages) /\ Len(Evict(queue)) = Len(queue) - 1
      BY <2>2, EvictsOldest
    <3>2. Q!Offer(e)
      BY <1>3, <2>1, <2>2, <3>1 DEF Q!Offer, Q!Displace
    <3>3. queue' \in Seq(Messages) /\ Len(queue') = Len(queue)
      BY <2>1, <2>2, <3>1, SMTT(60)
    <3> QED
      BY <2>1, <3>2, <3>3, SMTT(60)
  <2>3. CASE ~HasCoded(queue)
    <3>1. \A i \in DOMAIN queue : queue[i].kind = "Init"
      <4>1. \A i \in DOMAIN queue : queue[i] \in Messages
        BY SMTT(60)
      <4> QED
        BY <2>3, <4>1 DEF HasCoded, IsCoded, Messages
    <3>2. Q!Offer(e)
      BY <1>3, <2>1, <2>3, <3>1 DEF Q!Offer, Q!Refuse
    <3> QED
      BY <2>1, <2>3, <3>2, SMTT(60)
  <2> QED
    BY <2>2, <2>3
<1> QED
  BY <1>1, <1>2, <1>3

\* Every step of the gateway is a step of the lossy queue, or leaves it alone.
LEMMA QueueStep ==
    ASSUME ThreadInv, QueueInv, [Next]_vars
    PROVE  QueueInv' /\ [Q!Next]_(Q!lossyVars)
<1>q. ASSUME UNCHANGED <<queue, dropped, queue_closed>> PROVE [Q!Next]_(Q!lossyVars)
  BY <1>q DEF Q!lossyVars
<1>1. CASE UNCHANGED <<playerQueueVars, init_types, init_cache, net, net_msg, session,
                       play_pos, frames>>
  <2>1. QueueInv'
    BY <1>1 DEF QueueInv, playerQueueVars, OneHolder, PlayerLocked
  <2> QED
    BY <1>1, <1>q, <2>1 DEF playerQueueVars
<1>2. ASSUME NEW k \in Kinds, NEW ts \in Timestamps, OnFrame(k, ts)
      PROVE  QueueInv' /\ [Q!Next]_(Q!lossyVars)
  <2>1. PICK msg : msg = [kind |-> IF IsInit(k) THEN "Init" ELSE "Coded",
                          type |-> TypeOf(k), id |-> frames + 1]
    OBVIOUS
  <2>2. /\ frames < FrameBound /\ frames' = frames + 1
        /\ \/ /\ init_cache' = [init_cache EXCEPT ![msg.type] = msg]
              /\ init_types' = IF msg.type \in Range(init_types) THEN init_types
                               ELSE Append(init_types, msg.type)
           \/ UNCHANGED <<init_cache, init_types>>
        /\ (net' = "push" /\ net_msg' = msg) \/ UNCHANGED <<net, net_msg>>
        /\ UNCHANGED <<playerQueueVars, session, play_pos>>
    BY <1>2, <2>1 DEF OnFrame, netVars, sessionVars
  <2>3. msg \in Messages /\ msg.type \in Types
    BY <2>1, <2>2, EgressAssumption, SMTT(60) DEF Messages, TypeOf, Types, QueueInv
  <2>4. frames' \in 0..FrameBound
    BY <2>2, EgressAssumption, SMTT(60) DEF QueueInv
  <2>5. /\ init_types' \in Seq(Types)
        /\ init_cache' \in [Types -> Messages \cup {NoMessage}]
        /\ \A i \in DOMAIN init_types' : init_cache'[init_types'[i]] \in Messages
    <3>1. CASE UNCHANGED <<init_cache, init_types>>
      BY <3>1 DEF QueueInv
    <3>2. ASSUME init_cache' = [init_cache EXCEPT ![msg.type] = msg],
                 init_types' = IF msg.type \in Range(init_types) THEN init_types
                               ELSE Append(init_types, msg.type)
          PROVE  /\ init_types' \in Seq(Types)
                 /\ init_cache' \in [Types -> Messages \cup {NoMessage}]
                 /\ \A i \in DOMAIN init_types' : init_cache'[init_types'[i]] \in Messages
      <4>1. init_types \in Seq(Types)
        BY DEF QueueInv
      <4>2. init_types' \in Seq(Types)
        BY <2>3, <3>2, <4>1, SMTT(60)
      <4>3. init_cache' \in [Types -> Messages \cup {NoMessage}]
        BY <2>3, <3>2 DEF QueueInv
      <4>4. ASSUME NEW i \in DOMAIN init_types' PROVE init_cache'[init_types'[i]] \in Messages
        <5>1. \/ i \in DOMAIN init_types /\ init_types'[i] = init_types[i]
              \/ init_types'[i] = msg.type
          BY <2>3, <3>2, <4>1, <4>4, SMTT(60)
        <5>2. init_types'[i] \in Types
          BY <4>2, SMTT(60)
        <5> QED
          BY <2>3, <3>2, <5>1, <5>2 DEF QueueInv
      <4> QED
        BY <4>2, <4>3, <4>4
    <3> QED
      BY <2>2, <3>1, <3>2
  <2>6. QueueInv'
    BY <2>2, <2>3, <2>4, <2>5 DEF QueueInv, playerQueueVars, OneHolder, PlayerLocked
  <2> QED
    BY <1>q, <2>2, <2>6 DEF playerQueueVars
<1>3. CASE FramePush
  <2>1. Push(net_msg) /\ net_msg \in Messages
    BY <1>3 DEF FramePush, QueueInv
  <2>2. /\ queue' \in Seq(Messages) /\ Len(queue') <= MaxMessages /\ dropped' \in Nat
        /\ queue_closed' = queue_closed
        /\ (\E m \in Messages : Q!Offer(m)) \/ UNCHANGED Q!lossyVars
    BY <2>1, PushIsOffer DEF QueueInv
  <2>3. QueueInv'
    BY <1>3, <2>2 DEF FramePush, QueueInv, playerVars, sessionVars, OneHolder, PlayerLocked
  <2> QED
    BY <2>2, <2>3 DEF Q!Next
<1>4. CASE WriterPop
  <2>1. queue \in Seq(Messages) /\ queue # <<>> /\ queue' = Tail(queue)
        /\ dropped' = dropped /\ queue_closed' = queue_closed
    BY <1>4 DEF WriterPop, Pop, QueueInv
  <2>2. queue' \in Seq(Messages) /\ Len(queue') <= Len(queue)
    BY <2>1, SMTT(60)
  <2>3. Len(queue') <= MaxMessages
    BY <2>1, <2>2, QueueAssumption, SMTT(60) DEF QueueInv
  <2>4. QueueInv'
    BY <1>4, <2>1, <2>2, <2>3 DEF WriterPop, QueueInv, playerVars, netVars, sessionVars,
                                historyVars, OneHolder, PlayerLocked
  <2>5. Q!HandOut
    BY <2>1 DEF Q!HandOut
  <2> QED
    BY <2>4, <2>5 DEF Q!Next
<1>5. ASSUME NEW s \in Sessions, Accept(s) PROVE QueueInv' /\ [Q!Next]_(Q!lossyVars)
  <2>1. queue' = <<>> /\ dropped' = dropped /\ queue_closed' = queue_closed
    BY <1>5 DEF Accept, Clear
  <2>2. ~PlayerLocked'
    BY <1>5 DEF Accept, PlayerLocked, ThreadInv, ThreadTypes
  <2>3. <<>> \in Seq(Messages) /\ Len(<<>>) <= MaxMessages
    BY QueueAssumption, SMTT(60)
  <2>4. QueueInv'
    BY <1>5, <2>1, <2>2, <2>3 DEF Accept, QueueInv, netVars, OneHolder, PlayerLocked
  <2>5. Q!Flush
    BY <2>1 DEF Q!Flush
  <2> QED
    BY <2>4, <2>5 DEF Q!Next
<1>6. ASSUME NEW s \in Sessions,
             RecvPlay(s) \/ RunEnds(s) \/ OnClose(s) \/ Replied(s) \/ PlayReady(s)
      PROVE  QueueInv' /\ [Q!Next]_(Q!lossyVars)
  <2>1. UNCHANGED <<playerQueueVars, init_types, init_cache, net, net_msg, frames>>
    BY <1>6 DEF RecvPlay, RunEnds, OnClose, Replied, PlayReady, playerVars, netVars, historyVars
  <2>2. OneHolder'
    <3>1. CASE RecvPlay(s) \/ RunEnds(s) \/ OnClose(s)
      BY <3>1 DEF RecvPlay, RunEnds, OnClose, OneHolder, PlayerLocked, QueueInv, ThreadInv, ThreadTypes
    <3>2. CASE Replied(s)
      BY <3>2, SMTT(60) DEF Replied, OneHolder, PlayerLocked, QueueInv, ThreadInv, ThreadTypes
    <3>3. CASE PlayReady(s)
      BY <3>3 DEF PlayReady, OneHolder, PlayerLocked, QueueInv, ThreadInv, ThreadTypes
    <3> QED
      BY <1>6, <3>1, <3>2, <3>3
  <2>3. QueueInv'
    BY <2>1, <2>2 DEF QueueInv, playerQueueVars
  <2> QED
    BY <1>q, <2>1, <2>3 DEF playerQueueVars
<1>7. ASSUME NEW s \in Sessions, PlayPush(s) PROVE QueueInv' /\ [Q!Next]_(Q!lossyVars)
  <2>1. /\ session[s] = "push" /\ play_pos <= Len(init_types)
        /\ Push(init_cache[init_types[play_pos]])
        /\ play_pos' = play_pos + 1 /\ session' = session
        /\ UNCHANGED <<init_types, init_cache, net, net_msg, frames>>
    BY <1>7 DEF PlayPush, playerVars, netVars
  <2>2. play_pos \in DOMAIN init_types
    <3>1. play_pos \in Nat /\ play_pos >= 1 /\ init_types \in Seq(Types)
      BY <2>1 DEF QueueInv, OneHolder, PlayerLocked
    <3> QED
      BY <2>1, <3>1, SMTT(60)
  <2>3. PICK e \in Messages : e = init_cache[init_types[play_pos]]
    BY <2>2 DEF QueueInv
  <2>4. /\ queue' \in Seq(Messages) /\ Len(queue') <= MaxMessages /\ dropped' \in Nat
        /\ queue_closed' = queue_closed
        /\ (\E m \in Messages : Q!Offer(m)) \/ UNCHANGED Q!lossyVars
    BY <2>1, <2>3, PushIsOffer DEF QueueInv
  <2>5. OneHolder'
    BY <2>1, SMTT(60) DEF QueueInv, OneHolder, PlayerLocked
  <2>6. QueueInv'
    BY <2>1, <2>4, <2>5 DEF QueueInv
  <2> QED
    BY <2>4, <2>6 DEF Q!Next
<1>8. CASE StopIdle \/ StopQueue
  <2>1. /\ queue_closed' = TRUE /\ queue' = queue /\ dropped' = dropped
        /\ UNCHANGED <<init_types, init_cache, net, net_msg, session, play_pos, frames>>
    BY <1>8 DEF StopIdle, StopQueue, CloseQueue, playerVars, netVars, sessionVars, historyVars
  <2>2. QueueInv'
    BY <2>1 DEF QueueInv, OneHolder, PlayerLocked
  <2>3. Q!Close
    BY <2>1 DEF Q!Close
  <2> QED
    BY <2>2, <2>3 DEF Q!Next
<1>9. CASE \/ WriterExit \/ WriterTake \/ WriterSent \/ Start \/ StartAgain
           \/ UNCHANGED vars
  BY <1>1, <1>9
  DEF WriterExit, WriterTake, WriterSent, Start, StartAgain, vars, playerVars, netVars,
      sessionVars, historyVars
<1>10. CASE StopSupervisor \/ ShutPlayer \/ JoinWriter \/ StopAccepting \/ CloseSessions
  BY <1>1, <1>10 DEF StopSupervisor, ShutPlayer, JoinWriter, StopAccepting, CloseSessions,
                     playerVars, netVars, sessionVars, historyVars
<1>11. CASE DestroySessions
  <2>1. UNCHANGED <<playerQueueVars, init_types, init_cache, net, net_msg, play_pos, frames>>
    BY <1>11 DEF DestroySessions, playerVars, netVars, historyVars
  <2>2. OneHolder'
    BY <1>11, <2>1 DEF DestroySessions, OneHolder, PlayerLocked, QueueInv
  <2>3. QueueInv'
    BY <2>1, <2>2 DEF QueueInv, playerQueueVars
  <2> QED
    BY <1>q, <2>1, <2>3 DEF playerQueueVars
<1> QED
  BY <1>2, <1>3, <1>4, <1>5, <1>6, <1>7, <1>8, <1>9, <1>10, <1>11
  DEF Next, Writer, Session, Stop

\* The player queue between the network thread, the session threads, the writer
\* and stop() is a LossyQueue: it keeps its bound and its order, evicts only the
\* oldest coded entry, counts every loss, and takes nothing once closed.
THEOREM QueueImplemented == Spec => IsLossyQueue
<1>1. Init => Q!Init
  BY QueueInit
<1>2. Init => ThreadInv /\ QueueInv
  BY ThreadInit, QueueInit
<1>3. ThreadInv /\ QueueInv /\ [Next]_vars => (ThreadInv /\ QueueInv)' /\ [Q!Next]_(Q!lossyVars)
  BY ThreadStep, QueueStep
<1> QED
  BY <1>1, <1>2, <1>3, PTL DEF Spec, IsLossyQueue, Q!Spec

-----------------------------------------------------------------------------
(* The order of coded frames.                                              *)

\* What the queue keeps of q when it makes room for an entry: its coded frames
\* stay in order, and no Init entry goes.
Thinned(q, r) ==
    /\ r \in Seq(Messages)
    /\ Coded(r) \subseteq Coded(q)
    /\ CodedRises(q) => CodedRises(r)
    /\ \A i \in DOMAIN q : ~IsCoded(q[i]) => \E j \in DOMAIN r : r[j] = q[i]

\* Taking out one coded entry is such a change.
LEMMA WithoutThins ==
    ASSUME queue \in Seq(Messages), NEW m \in DOMAIN queue, IsCoded(queue[m])
    PROVE  Thinned(queue, Q!Without(m))
<1>1. PICK n \in Nat : n = Len(queue) /\ DOMAIN queue = 1..n
  BY SMTT(60)
<1>2. PICK a, b : a = SubSeq(queue, 1, m - 1) /\ b = SubSeq(queue, m + 1, n)
  OBVIOUS
<1>3. m \in 1..n /\ \A i \in 1..n : queue[i] \in Messages
  BY <1>1, SMTT(60)
<1>4. /\ a \in Seq(Messages) /\ Len(a) = m - 1 /\ \A i \in 1..(m - 1) : a[i] = queue[i]
      /\ b \in Seq(Messages) /\ Len(b) = n - m
      /\ \A i \in 1..(n - m) : b[i] = queue[i + m]
  <2>1. /\ SubSeq(queue, 1, m - 1) \in Seq(Messages)
        /\ Len(SubSeq(queue, 1, m - 1)) = m - 1
        /\ \A i \in 1..(m - 1) : SubSeq(queue, 1, m - 1)[i] = queue[i]
    BY <1>3, SubSeqProperties, SMTT(60)
  <2>2. /\ SubSeq(queue, m + 1, n) \in Seq(Messages)
        /\ Len(SubSeq(queue, m + 1, n)) = n - m
        /\ \A i \in 1..(n - m) : SubSeq(queue, m + 1, n)[i] = queue[i + m]
    BY <1>3, SubSeqProperties, SMTT(60)
  <2> QED
    BY <1>2, <2>1, <2>2
<1>5. PICK r : r = a \o b
  OBVIOUS
<1>6. r = Q!Without(m)
  BY <1>1, <1>2, <1>5 DEF Q!Without
<1>7. /\ r \in Seq(Messages) /\ DOMAIN r = 1..(n - 1)
      /\ \A i \in 1..(m - 1) : r[i] = queue[i]
      /\ \A i \in m..(n - 1) : r[i] = queue[i + 1]
  <2>1. /\ r \in Seq(Messages) /\ Len(r) = n - 1
        /\ \A i \in 1..(n - 1) : r[i] = IF i <= m - 1 THEN a[i] ELSE b[i - (m - 1)]
    <3>1. /\ r \in Seq(Messages) /\ Len(r) = Len(a) + Len(b)
          /\ \A i \in 1..(Len(a) + Len(b)) : r[i] = IF i <= Len(a) THEN a[i] ELSE b[i - Len(a)]
      BY <1>4, <1>5, ConcatProperties
    <3>2. Len(a) + Len(b) = n - 1 /\ Len(a) = m - 1
      BY <1>3, <1>4, SMTT(60)
    <3> QED
      BY <3>1, <3>2
  <2>2. ASSUME NEW i \in m..(n - 1) PROVE r[i] = queue[i + 1]
    <3>1. i - (m - 1) \in 1..(n - m) /\ (i - (m - 1)) + m = i + 1 /\ ~(i <= m - 1)
          /\ i \in 1..(n - 1)
      BY <1>3, <2>2, SMTT(60)
    <3> QED
      BY <1>4, <2>1, <3>1
  <2>3. ASSUME NEW i \in 1..(m - 1) PROVE r[i] = queue[i]
    BY <1>3, <1>4, <2>1, <2>3, SMTT(60)
  <2> QED
    BY <1>3, <2>1, <2>2, <2>3, SMTT(60)
<1>8. ASSUME NEW i \in DOMAIN r
      PROVE  \E k \in DOMAIN queue : r[i] = queue[k] /\ k = IF i < m THEN i ELSE i + 1
  <2>1. CASE i < m
    BY <1>1, <1>3, <1>7, <2>1, SMTT(60)
  <2>2. CASE ~(i < m)
    <3>1. i \in m..(n - 1) /\ i + 1 \in DOMAIN queue
      BY <1>1, <1>3, <1>7, <2>2, SMTT(60)
    <3> QED
      BY <1>7, <2>2, <3>1
  <2> QED
    BY <2>1, <2>2
<1>9. Coded(r) \subseteq Coded(queue)
  BY <1>8 DEF Coded
<1>10. ASSUME CodedRises(queue) PROVE CodedRises(r)
  <2>1. ASSUME NEW i \in DOMAIN r, NEW j \in DOMAIN r, i < j, IsCoded(r[i]), IsCoded(r[j])
        PROVE  r[i].id < r[j].id
    <3>1. PICK k \in DOMAIN queue : r[i] = queue[k] /\ k = IF i < m THEN i ELSE i + 1
      BY <1>8
    <3>2. PICK l \in DOMAIN queue : r[j] = queue[l] /\ l = IF j < m THEN j ELSE j + 1
      BY <1>8
    <3>3. k < l
      BY <1>1, <1>7, <2>1, <3>1, <3>2, SMTT(60)
    <3> QED
      BY <1>10, <2>1, <3>1, <3>2, <3>3 DEF CodedRises
  <2> QED
    BY <2>1 DEF CodedRises
<1>11. ASSUME NEW i \in DOMAIN queue, ~IsCoded(queue[i]) PROVE \E j \in DOMAIN r : r[j] = queue[i]
  <2>1. i # m
    BY <1>11
  <2>2. CASE i < m
    BY <1>1, <1>7, <2>2, SMTT(60)
  <2>3. CASE i > m
    <3>1. i - 1 \in m..(n - 1) /\ i - 1 \in DOMAIN r /\ (i - 1) + 1 = i
      BY <1>1, <1>7, <2>3, SMTT(60)
    <3> QED
      BY <1>7, <3>1
  <2> QED
    BY <1>1, <2>1, <2>2, <2>3, SMTT(60)
<1> QED
  BY <1>6, <1>7, <1>9, <1>10, <1>11 DEF Thinned

\* push() refuses the entry, or puts it behind what it keeps.
LEMMA PushEffect ==
    ASSUME queue \in Seq(Messages), Len(queue) <= MaxMessages, NEW e \in Messages, Push(e)
    PROVE  \/ /\ queue' = queue
              /\ queue_closed \/ (Len(queue) = MaxMessages /\ ~HasCoded(queue))
           \/ \E r : Thinned(queue, r) /\ queue' = Append(r, e)
<1>1. CASE queue_closed
  BY <1>1 DEF Push
<1>2. CASE ~queue_closed /\ Len(queue) < MaxMessages
  <2>1. queue' = Append(queue, e)
    BY <1>2 DEF Push
  <2>2. Thinned(queue, queue)
    BY DEF Thinned
  <2> QED
    BY <2>1, <2>2
<1>3. CASE ~queue_closed /\ ~(Len(queue) < MaxMessages)
  <2>1. Len(queue) = MaxMessages
    BY <1>3, QueueAssumption, SMTT(60)
  <2>2. CASE HasCoded(queue)
    <3>1. queue' = Append(Evict(queue), e)
      BY <1>3, <2>2 DEF Push
    <3>2. PICK i \in DOMAIN queue : Q!OldestCoded(i) /\ Evict(queue) = Q!Without(i)
      BY <2>2, EvictsOldest
    <3>3. Thinned(queue, Q!Without(i))
      BY <3>2, WithoutThins DEF Q!OldestCoded, IsCoded
    <3> QED
      BY <3>1, <3>2, <3>3
  <2>3. CASE ~HasCoded(queue)
    BY <1>3, <2>1, <2>3 DEF Push
  <2> QED
    BY <2>2, <2>3
<1> QED
  BY <1>1, <1>2, <1>3

-----------------------------------------------------------------------------
(* What goes to the players.                                               *)

CodedIn(msg) == IF IsCoded(msg) THEN {msg.id} ELSE {}
Below(S, T)  == \A a \in S, b \in T : a < b

\* The hand of the writer and the message of the network thread.
HandInv ==
    /\ net_msg = NoMessage \/ net_msg \in Messages
    /\ IF writer \in {"take", "send"} THEN hand \in Messages ELSE hand = NoMessage
    /\ net = "idle" => net_msg = NoMessage
    /\ \A i \in DOMAIN init_types : init_cache[init_types[i]].kind = "Init"
    /\ sent \in [Sessions -> Seq(Messages)]

\* A coded frame moves from the network thread through the queue and the hand of
\* the writer to a session, and each place holds older ones than the one before.
OrderInv ==
    /\ CodedOnceInOrder /\ CodedRises(queue)
    /\ Below(Coded(queue), CodedIn(net_msg))
    /\ Below(CodedIn(hand), Coded(queue) \cup CodedIn(net_msg))
    /\ \A s \in Sessions :
          Below(Coded(sent[s]), CodedIn(hand) \cup Coded(queue) \cup CodedIn(net_msg))
    /\ \A n \in Coded(queue) \cup CodedIn(hand) \cup CodedIn(net_msg) : n <= frames
    /\ \A s \in Sessions : \A n \in Coded(sent[s]) : n <= frames

\* What the player of now has been sent or will be.
OnItsWay(msg) ==
    \/ \E i \in DOMAIN sent[player] : sent[player][i] = msg
    \/ \E i \in DOMAIN queue : queue[i] = msg
    \/ msg = net_msg \/ msg \in refused
    \/ msg = hand /\ (writer = "take" \/ target = player)

\* It is primed with every type, or with those before play_pos while the session
\* that handles play holds player_mutex.
PrimedInv ==
    player # NoSession /\ ~shut[player] /\ ~queue_closed =>
        \A i \in DOMAIN init_types :
            player_ready \/ (PlayerLocked /\ i < play_pos)
                => OnItsWay(init_cache[init_types[i]])

\* Ids are numbers.
LEMMA CodedNat ==
    ASSUME NEW q \in Seq(Messages)
    PROVE  Coded(q) \subseteq Nat
<1>1. ASSUME NEW k \in DOMAIN q PROVE q[k].id \in Nat
  <2>1. q[k] \in Messages
    BY <1>1, SMTT(60)
  <2> QED
    BY <2>1, EgressAssumption, SMTT(60) DEF Messages
<1> QED
  BY <1>1 DEF Coded

\* An entry at the end of a queue.
LEMMA CodedAppend ==
    ASSUME NEW q \in Seq(Messages), NEW e \in Messages
    PROVE  /\ Append(q, e) \in Seq(Messages)
           /\ Coded(Append(q, e)) = Coded(q) \cup CodedIn(e)
           /\ CodedRises(q) /\ Below(Coded(q), CodedIn(e)) => CodedRises(Append(q, e))
           /\ \A i \in DOMAIN q : \E j \in DOMAIN Append(q, e) : Append(q, e)[j] = q[i]
           /\ \E j \in DOMAIN Append(q, e) : Append(q, e)[j] = e
<1>1. PICK r : r = Append(q, e)
  OBVIOUS
<1>2. PICK n \in Nat : n = Len(q) /\ DOMAIN q = 1..n
  BY SMTT(60)
<1>3. /\ r \in Seq(Messages) /\ DOMAIN r = 1..(n + 1) /\ r[n + 1] = e
      /\ \A i \in 1..n : r[i] = q[i]
  BY <1>1, <1>2, AppendProperties, SMTT(60)
<1>4. DOMAIN r = DOMAIN q \cup {n + 1} /\ \A i \in DOMAIN q : i < n + 1
  BY <1>2, <1>3, SMTT(60)
<1>5. Coded(r) = Coded(q) \cup CodedIn(e)
  BY <1>2, <1>3, <1>4 DEF Coded, CodedIn
<1>6. ASSUME CodedRises(q), Below(Coded(q), CodedIn(e)) PROVE CodedRises(r)
  <2>1. ASSUME NEW i \in DOMAIN r, NEW j \in DOMAIN r, i < j, IsCoded(r[i]), IsCoded(r[j])
        PROVE  r[i].id < r[j].id
    <3>1. i \in DOMAIN q /\ r[i] = q[i]
      BY <1>2, <1>3, <1>4, <2>1, SMTT(60)
    <3>2. CASE j \in DOMAIN q
      BY <1>2, <1>3, <1>6, <2>1, <3>1, <3>2 DEF CodedRises
    <3>3. CASE j = n + 1
      <4>1. r[j] = e /\ IsCoded(e) /\ r[i].id \in Coded(q)
        BY <1>3, <2>1, <3>1, <3>3 DEF Coded
      <4> QED
        BY <1>6, <4>1 DEF Below, CodedIn
    <3> QED
      BY <1>4, <3>2, <3>3
  <2> QED
    BY <2>1 DEF CodedRises
<1> QED
  BY <1>1, <1>2, <1>3, <1>4, <1>5, <1>6

\* The entry at the head of a queue.
LEMMA CodedTail ==
    ASSUME NEW q \in Seq(Messages), q # <<>>
    PROVE  /\ Tail(q) \in Seq(Messages) /\ Head(q) \in Messages
           /\ Coded(Tail(q)) \subseteq Coded(q) /\ CodedIn(Head(q)) \subseteq Coded(q)
           /\ CodedRises(q) => CodedRises(Tail(q)) /\ Below(CodedIn(Head(q)), Coded(Tail(q)))
           /\ \A i \in DOMAIN q : q[i] = Head(q) \/ \E j \in DOMAIN Tail(q) : Tail(q)[j] = q[i]
<1>1. PICK r : r = Tail(q)
  OBVIOUS
<1>2. PICK n \in Nat : n + 1 = Len(q) /\ DOMAIN q = 1..(n + 1)
  <2>1. Len(q) \in Nat \ {0} /\ DOMAIN q = 1..Len(q)
    BY SMTT(60)
  <2>2. (Len(q) - 1) \in Nat /\ (Len(q) - 1) + 1 = Len(q)
    BY <2>1, SMTT(60)
  <2> QED
    BY <2>1, <2>2
<1>3. /\ r \in Seq(Messages) /\ DOMAIN r = 1..n /\ Head(q) \in Messages /\ Head(q) = q[1]
      /\ \A i \in 1..n : r[i] = q[i + 1]
  BY <1>1, <1>2, HeadTailProperties, SMTT(60)
<1>4. \A i \in DOMAIN r : i + 1 \in DOMAIN q /\ r[i] = q[i + 1] /\ 1 < i + 1 /\ 1 \in DOMAIN q
  BY <1>2, <1>3, SMTT(60)
<1>5. Coded(r) \subseteq Coded(q)
  BY <1>4 DEF Coded
<1>6. CodedIn(Head(q)) \subseteq Coded(q)
  <2>1. 1 \in DOMAIN q
    BY <1>2, SMTT(60)
  <2> QED
    BY <1>3, <2>1 DEF Coded, CodedIn
<1>7. ASSUME CodedRises(q) PROVE CodedRises(r)
  <2>1. ASSUME NEW i \in DOMAIN r, NEW j \in DOMAIN r, i < j, IsCoded(r[i]), IsCoded(r[j])
        PROVE  r[i].id < r[j].id
    <3>1. i + 1 < j + 1
      BY <1>3, <2>1, SMTT(60)
    <3> QED
      BY <1>4, <1>7, <2>1, <3>1 DEF CodedRises
  <2> QED
    BY <2>1 DEF CodedRises
<1>8. ASSUME CodedRises(q) PROVE Below(CodedIn(Head(q)), Coded(r))
  BY <1>3, <1>4, <1>8 DEF CodedRises, Below, CodedIn, Coded
<1>9. ASSUME NEW i \in DOMAIN q PROVE q[i] = Head(q) \/ \E j \in DOMAIN r : r[j] = q[i]
  <2>1. CASE i = 1
    BY <1>3, <2>1
  <2>2. CASE i # 1
    <3>1. i - 1 \in 1..n /\ (i - 1) + 1 = i
      BY <1>2, <2>2, SMTT(60)
    <3> QED
      BY <1>3, <3>1
  <2> QED
    BY <2>1, <2>2
<1> QED
  BY <1>1, <1>3, <1>5, <1>6, <1>7, <1>8, <1>9

\* Every step keeps what is in hand well typed.
LEMMA HandStep ==
    ASSUME ThreadInv, QueueInv, HandInv, [Next]_vars
    PROVE  HandInv'
<1>1. CASE UNCHANGED <<hand, net, net_msg, writer, init_types, init_cache, sent>>
  BY <1>1 DEF HandInv
<1>2. ASSUME NEW k \in Kinds, NEW ts \in Timestamps, OnFrame(k, ts) PROVE HandInv'
  <2>1. PICK msg : msg = [kind |-> IF IsInit(k) THEN "Init" ELSE "Coded",
                          type |-> TypeOf(k), id |-> frames + 1]
    OBVIOUS
  <2>2. /\ frames < FrameBound
        /\ \/ /\ IsInit(k) /\ init_cache' = [init_cache EXCEPT ![msg.type] = msg]
              /\ init_types' = IF msg.type \in Range(init_types) THEN init_types
                               ELSE Append(init_types, msg.type)
           \/ UNCHANGED <<init_cache, init_types>>
        /\ (net' = "push" /\ net_msg' = msg) \/ UNCHANGED <<net, net_msg>>
        /\ UNCHANGED <<hand, writer, sent>>
    BY <1>2, <2>1 DEF OnFrame, netVars, writerVars
  <2>3. msg \in Messages /\ msg.type \in Types
    BY <2>1, <2>2, EgressAssumption, SMTT(60) DEF Messages, TypeOf, Types, QueueInv
  <2>4. \A i \in DOMAIN init_types' : init_cache'[init_types'[i]].kind = "Init"
    <3>1. CASE UNCHANGED <<init_cache, init_types>>
      BY <3>1 DEF HandInv
    <3>2. CASE ~UNCHANGED <<init_cache, init_types>>
      <4>1. /\ IsInit(k) /\ init_cache' = [init_cache EXCEPT ![msg.type] = msg]
            /\ init_types' = init_types \/ init_types' = Append(init_types, msg.type)
        BY <2>2, <3>2
      <4>2. msg.kind = "Init" /\ init_types \in Seq(Types)
            /\ init_cache \in [Types -> Messages \cup {NoMessage}]
        BY <2>1, <4>1 DEF QueueInv
      <4>3. ASSUME NEW i \in DOMAIN init_types' PROVE init_cache'[init_types'[i]].kind = "Init"
        <5>1. \/ i \in DOMAIN init_types /\ init_types'[i] = init_types[i]
              \/ init_types'[i] = msg.type
          BY <2>3, <4>1, <4>2, <4>3, SMTT(60)
        <5>2. CASE init_types'[i] = msg.type
          BY <2>3, <4>1, <4>2, <5>2
        <5>3. CASE init_types'[i] # msg.type /\ i \in DOMAIN init_types /\ init_types'[i] = init_types[i]
          <6>1. init_types[i] \in Types /\ init_types[i] # msg.type
            BY <4>2, <5>3, SMTT(60)
          <6>2. init_cache'[init_types[i]] = init_cache[init_types[i]]
            BY <4>1, <4>2, <6>1
          <6> QED
            BY <5>3, <6>2 DEF HandInv
        <5> QED
          BY <5>1, <5>2, <5>3
      <4> QED
        BY <4>3
    <3> QED
      BY <3>1, <3>2
  <2>5. (net_msg = NoMessage \/ net_msg \in Messages)' /\ (net = "idle" => net_msg = NoMessage)'
    BY <2>2, <2>3 DEF HandInv
  <2> QED
    BY <2>2, <2>4, <2>5 DEF HandInv
<1>3. CASE FramePush
  BY <1>3 DEF FramePush, HandInv, playerVars, writerVars
<1>4. CASE WriterPop
  <2>1. queue \in Seq(Messages) /\ queue # <<>> /\ hand' = Head(queue) /\ writer' = "take"
    BY <1>4 DEF WriterPop, Pop, QueueInv
  <2>2. hand' \in Messages
    BY <2>1, CodedTail
  <2> QED
    BY <1>4, <2>1, <2>2 DEF WriterPop, HandInv, playerVars, netVars, historyVars
<1>5. CASE WriterTake \/ WriterExit
  BY <1>5 DEF WriterTake, WriterExit, HandInv, playerVars, netVars, historyVars
<1>6. CASE WriterSent
  <2>1. hand \in Messages /\ target \in Sessions
    BY <1>6 DEF WriterSent, HandInv, ThreadInv, StageInv
  <2>2. sent' \in [Sessions -> Seq(Messages)]
    <3>1. Append(sent[target], hand) \in Seq(Messages)
      BY <2>1, CodedAppend DEF HandInv
    <3>2. sent' = sent \/ sent' = [sent EXCEPT ![target] = Append(sent[target], hand)]
      BY <1>6 DEF WriterSent
    <3> QED
      BY <2>1, <3>1, <3>2 DEF HandInv
  <2> QED
    BY <1>6, <2>2 DEF WriterSent, HandInv, playerVars, netVars
<1>7. CASE Start
  BY <1>7 DEF Start, HandInv, ThreadInv, StageInv, playerVars, netVars, historyVars
<1>8. ASSUME NEW s \in Sessions, Accept(s) \/ Session(s) PROVE HandInv'
  BY <1>1, <1>8 DEF Accept, Session, RecvPlay, Replied, PlayPush, PlayReady, RunEnds,
      OnClose, playerVars, netVars, writerVars, historyVars
<1>9. CASE StartAgain \/ StopIdle \/ Stop \/ UNCHANGED vars
  BY <1>1, <1>9 DEF StartAgain, StopIdle, Stop, StopSupervisor, ShutPlayer, StopQueue, JoinWriter,
      StopAccepting, CloseSessions, DestroySessions, vars, playerVars, netVars, writerVars,
      historyVars
<1> QED
  BY <1>2, <1>3, <1>4, <1>5, <1>6, <1>7, <1>8, <1>9 DEF Next, Writer

\* push() keeps the coded frames in order if the new one is the latest.
LEMMA PushOrder ==
    ASSUME QueueInv, NEW e \in Messages, Push(e), CodedRises(queue),
           Below(Coded(queue), CodedIn(e))
    PROVE  CodedRises(queue') /\ Coded(queue') \subseteq Coded(queue) \cup CodedIn(e)
<1>1. queue \in Seq(Messages) /\ Len(queue) <= MaxMessages
  BY DEF QueueInv
<1>2. CASE queue' = queue
  BY <1>2
<1>3. ASSUME NEW r, Thinned(queue, r), queue' = Append(r, e)
      PROVE  CodedRises(queue') /\ Coded(queue') \subseteq Coded(queue) \cup CodedIn(e)
  <2>1. r \in Seq(Messages) /\ Coded(r) \subseteq Coded(queue) /\ CodedRises(r)
    BY <1>3 DEF Thinned
  <2>2. Below(Coded(r), CodedIn(e))
    BY <2>1 DEF Below
  <2> QED
    BY <1>3, <2>1, <2>2, CodedAppend
<1> QED
  BY <1>1, <1>2, <1>3, PushEffect

\* Every step keeps the order.
LEMMA OrderStep ==
    ASSUME ThreadInv, QueueInv, HandInv, OrderInv, [Next]_vars
    PROVE  OrderInv'
<1>0. CodedIn(NoMessage) = {} /\ Coded(<<>>) = {} /\ CodedRises(<<>>)
  BY SMTT(60) DEF CodedIn, NoMessage, IsCoded, Coded, CodedRises
<1>1. CASE UNCHANGED <<queue, hand, net_msg, sent, frames>>
  BY <1>1 DEF OrderInv, CodedOnceInOrder
<1>2. ASSUME NEW k \in Kinds, NEW ts \in Timestamps, OnFrame(k, ts) PROVE OrderInv'
  <2>1. /\ net = "idle" /\ frames' = frames + 1 /\ UNCHANGED <<queue, hand, sent>>
        /\ net_msg' = net_msg \/ net_msg'.id = frames + 1
    BY <1>2, SMTT(60) DEF OnFrame, netVars, writerVars, playerQueueVars
  <2>2. net_msg = NoMessage /\ frames \in Nat /\ queue \in Seq(Messages)
    BY <2>1, EgressAssumption, SMTT(60) DEF HandInv, QueueInv
  <2>3. CodedIn(net_msg') \subseteq {frames + 1}
    BY <1>0, <2>1, <2>2 DEF CodedIn
  <2>4. Coded(queue) \subseteq Nat /\ CodedIn(hand) \subseteq Nat
        /\ \A s \in Sessions : Coded(sent[s]) \subseteq Nat
    <3>1. CodedIn(hand) \subseteq Nat
      <4>1. CASE hand = NoMessage
        BY <1>0, <4>1
      <4>2. CASE hand \in Messages
        BY <4>2, EgressAssumption, SMTT(60) DEF CodedIn, Messages
      <4> QED
        BY <4>1, <4>2 DEF HandInv
    <3> QED
      BY <2>2, <3>1, CodedNat DEF HandInv
  <2>5. \A n \in Coded(queue) \cup CodedIn(hand) : n \in Nat /\ n <= frames
    BY <2>4 DEF OrderInv
  <2>6. \A s \in Sessions : \A n \in Coded(sent[s]) : n \in Nat /\ n <= frames
    BY <2>4 DEF OrderInv
  <2>7. /\ Below(Coded(queue), CodedIn(net_msg')) /\ Below(CodedIn(hand), CodedIn(net_msg'))
        /\ \A s \in Sessions : Below(Coded(sent[s]), CodedIn(net_msg'))
    <3>1. ASSUME NEW S, \A n \in S : n \in Nat /\ n <= frames
          PROVE  Below(S, CodedIn(net_msg'))
      <4>1. ASSUME NEW n \in S, NEW m \in CodedIn(net_msg') PROVE n < m
        <5>1. n \in Nat /\ n <= frames /\ m = frames + 1
          BY <2>3, <3>1, <4>1
        <5> QED
          BY <2>2, <5>1, SMTT(60)
      <4> QED
        BY <4>1 DEF Below
    <3> QED
      BY <2>5, <2>6, <3>1
  <2>8. \A n \in Coded(queue) \cup CodedIn(hand) \cup CodedIn(net_msg') : n <= frames'
    BY <2>1, <2>2, <2>3, <2>5, SMTT(60)
  <2>9. \A s \in Sessions : \A n \in Coded(sent[s]) : n <= frames'
    BY <2>1, <2>2, <2>6, SMTT(60)
  <2>10. /\ Below(CodedIn(hand), Coded(queue) \cup CodedIn(net_msg'))
         /\ \A s \in Sessions :
               Below(Coded(sent[s]), CodedIn(hand) \cup Coded(queue) \cup CodedIn(net_msg'))
    BY <2>7 DEF OrderInv, Below
  <2> QED
    BY <2>1, <2>7, <2>8, <2>9, <2>10 DEF OrderInv, CodedOnceInOrder
<1>3. CASE FramePush
  <2>1. net_msg \in Messages /\ Push(net_msg) /\ net_msg' = NoMessage
        /\ UNCHANGED <<hand, sent, frames>>
    BY <1>3 DEF FramePush, QueueInv, writerVars
  <2>2. CodedRises(queue') /\ Coded(queue') \subseteq Coded(queue) \cup CodedIn(net_msg)
    BY <2>1, PushOrder DEF OrderInv
  <2>3. CodedIn(net_msg') = {}
    BY <1>0, <2>1
  <2> QED
    BY <2>1, <2>2, <2>3 DEF OrderInv, CodedOnceInOrder, Below
<1>4. ASSUME NEW s \in Sessions, PlayPush(s) PROVE OrderInv'
  <2>1. PICK e : /\ e = init_cache[init_types[play_pos]] /\ Push(e)
                 /\ UNCHANGED <<hand, net_msg, sent, frames>>
    BY <1>4 DEF PlayPush, writerVars, netVars
  <2>2. play_pos \in DOMAIN init_types
    <3>1. play_pos \in Nat /\ play_pos >= 1 /\ init_types \in Seq(Types) /\ play_pos <= Len(init_types)
      BY <1>4 DEF PlayPush, QueueInv, OneHolder, PlayerLocked
    <3> QED
      BY <3>1, SMTT(60)
  <2>3. e \in Messages /\ CodedIn(e) = {}
    BY <2>1, <2>2 DEF QueueInv, HandInv, CodedIn, IsCoded
  <2>4. CodedRises(queue') /\ Coded(queue') \subseteq Coded(queue)
    BY <2>1, <2>3, PushOrder DEF OrderInv, Below
  <2> QED
    BY <2>1, <2>4 DEF OrderInv, CodedOnceInOrder, Below
<1>5. CASE WriterPop
  <2>1. queue \in Seq(Messages) /\ queue # <<>> /\ queue' = Tail(queue) /\ hand' = Head(queue)
        /\ hand = NoMessage /\ UNCHANGED <<net_msg, sent, frames>>
    BY <1>5 DEF WriterPop, Pop, QueueInv, HandInv, netVars, historyVars
  <2>2. /\ Coded(queue') \subseteq Coded(queue) /\ CodedIn(hand') \subseteq Coded(queue)
        /\ CodedRises(queue') /\ Below(CodedIn(hand'), Coded(queue'))
    BY <2>1, CodedTail DEF OrderInv
  <2> QED
    BY <2>1, <2>2 DEF OrderInv, CodedOnceInOrder, Below
<1>6. CASE WriterTake
  <2>1. UNCHANGED <<queue, net_msg, sent, frames>> /\ (hand' = hand \/ hand' = NoMessage)
    BY <1>6 DEF WriterTake, playerQueueVars, netVars, historyVars
  <2>2. CodedIn(hand') \subseteq CodedIn(hand)
    BY <1>0, <2>1
  <2> QED
    BY <2>1, <2>2 DEF OrderInv, CodedOnceInOrder, Below
<1>7. CASE WriterSent
  <2>1. /\ hand \in Messages /\ target \in Sessions /\ sent \in [Sessions -> Seq(Messages)]
        /\ hand' = NoMessage /\ UNCHANGED <<queue, net_msg, frames>>
        /\ sent' = sent \/ sent' = [sent EXCEPT ![target] = Append(@, hand)]
    BY <1>7 DEF WriterSent, HandInv, ThreadInv, StageInv, playerQueueVars, netVars
  <2>2. CodedIn(hand') = {}
    BY <1>0, <2>1
  <2>3. CASE sent' = sent
    BY <2>1, <2>2, <2>3 DEF OrderInv, CodedOnceInOrder, Below
  <2>4. CASE sent' = [sent EXCEPT ![target] = Append(@, hand)]
    <3>1. /\ sent'[target] = Append(sent[target], hand)
          /\ \A s \in Sessions \ {target} : sent'[s] = sent[s]
      BY <2>1, <2>4
    <3>2. /\ Coded(sent'[target]) = Coded(sent[target]) \cup CodedIn(hand)
          /\ CodedRises(sent'[target])
      <4>1. PICK q \in Seq(Messages), e \in Messages : q = sent[target] /\ e = hand
        BY <2>1
      <4>2. CodedRises(q) /\ Below(Coded(q), CodedIn(e))
        BY <2>1, <4>1 DEF OrderInv, CodedOnceInOrder, Below
      <4>3. /\ Coded(Append(q, e)) = Coded(q) \cup CodedIn(e)
            /\ CodedRises(Append(q, e))
        BY <4>2, CodedAppend
      <4> QED
        BY <3>1, <4>1, <4>3
    <3>3. \A s \in Sessions : Coded(sent[s]) \cap CodedIn(hand) = {}
      <4>1. \A n \in CodedIn(hand) : n \in Nat
        BY <2>1, EgressAssumption, SMTT(60) DEF CodedIn, Messages
      <4> QED
        BY <4>1, SMTT(60) DEF OrderInv, Below
    <3>4. ASSUME NEW s \in Sessions
          PROVE  /\ CodedRises(sent'[s])
                 /\ \A r \in Sessions \ {s} : Coded(sent'[s]) \cap Coded(sent'[r]) = {}
                 /\ Below(Coded(sent'[s]), Coded(queue) \cup CodedIn(net_msg))
                 /\ \A n \in Coded(sent'[s]) : n <= frames
      <4>1. CASE s = target
        <5>1. \A r \in Sessions \ {s} : Coded(sent'[s]) \cap Coded(sent'[r]) = {}
          BY <3>1, <3>2, <3>3, <4>1 DEF OrderInv, CodedOnceInOrder
        <5> QED
          BY <3>2, <4>1, <5>1 DEF OrderInv, Below
      <4>2. CASE s # target
        <5>1. sent'[s] = sent[s]
          BY <3>1, <4>2
        <5>2. \A r \in Sessions \ {s} : Coded(sent[s]) \cap Coded(sent'[r]) = {}
          BY <3>1, <3>2, <3>3, <4>2 DEF OrderInv, CodedOnceInOrder
        <5> QED
          BY <5>1, <5>2 DEF OrderInv, CodedOnceInOrder, Below
      <4> QED
        BY <4>1, <4>2
    <3>5. CodedOnceInOrder'
      BY <3>4 DEF CodedOnceInOrder
    <3> QED
      BY <2>1, <2>2, <3>4, <3>5 DEF OrderInv, Below
  <2> QED
    BY <2>1, <2>3, <2>4
<1>8. ASSUME NEW s \in Sessions, Accept(s) PROVE OrderInv'
  <2>1. queue' = <<>> /\ UNCHANGED <<hand, net_msg, sent, frames>>
    BY <1>8 DEF Accept, Clear, netVars, writerVars
  <2>2. Coded(queue') = {} /\ CodedRises(queue')
    BY <1>0, <2>1
  <2> QED
    BY <2>1, <2>2 DEF OrderInv, CodedOnceInOrder, Below
<1>9. ASSUME NEW s \in Sessions,
             RecvPlay(s) \/ Replied(s) \/ PlayReady(s) \/ RunEnds(s) \/ OnClose(s)
      PROVE  OrderInv'
  BY <1>1, <1>9 DEF RecvPlay, Replied, PlayReady, RunEnds, OnClose, playerQueueVars, netVars,
      writerVars, historyVars
<1>10. CASE WriterExit \/ Start \/ StartAgain \/ StopIdle \/ Stop \/ UNCHANGED vars
  BY <1>1, <1>10 DEF WriterExit, Start, StartAgain, StopIdle, Stop, StopSupervisor, ShutPlayer, StopQueue,
      JoinWriter, StopAccepting, CloseSessions, DestroySessions, CloseQueue, vars,
      playerQueueVars, netVars, writerVars, historyVars
<1> QED
  BY <1>2, <1>3, <1>4, <1>5, <1>6, <1>7, <1>8, <1>9, <1>10 DEF Next, Writer, Session

\* A step that leaves the queue and the player alone, and locks nothing, keeps
\* PrimedInv.
LEMMA PrimedUntouched ==
    ASSUME PrimedInv, PlayerLocked' => PlayerLocked,
           UNCHANGED <<player, player_ready, init_types, init_cache, queue, net_msg, hand,
                       writer, target, sent, refused, play_pos>>,
           player # NoSession /\ ~shut'[player] => ~shut[player],
           ~queue_closed' => ~queue_closed
    PROVE  PrimedInv'
  BY DEF PrimedInv, OnItsWay

\* A message that push() is given enters the queue, or is refused by a queue
\* full of Init entries; Init entries that wait stay.
LEMMA PushPrimes ==
    ASSUME QueueInv, NEW e \in Messages, Push(e), NoteRefused(e), ~queue_closed, ~IsCoded(e)
    PROVE  (\E j \in DOMAIN queue' : queue'[j] = e) \/ e \in refused'
<1>1. queue \in Seq(Messages) /\ Len(queue) <= MaxMessages
  BY DEF QueueInv
<1>2. CASE Len(queue) = MaxMessages /\ ~HasCoded(queue)
  <2>1. e.kind = "Init"
    BY DEF Messages, IsCoded
  <2> QED
    BY <1>2, <2>1 DEF NoteRefused
<1>3. ASSUME NEW r, Thinned(queue, r), queue' = Append(r, e)
      PROVE  \E j \in DOMAIN queue' : queue'[j] = e
  <2>1. r \in Seq(Messages)
    BY <1>3 DEF Thinned
  <2> QED
    BY <1>3, <2>1, CodedAppend
<1> QED
  BY <1>1, <1>2, <1>3, PushEffect

\* push() makes room at the cost of coded entries only.
LEMMA PushKeepsInit ==
    ASSUME QueueInv, NEW e \in Messages, Push(e), NoteRefused(e)
    PROVE  /\ refused \subseteq refused'
           /\ \A i \in DOMAIN queue : ~IsCoded(queue[i]) =>
                 \E j \in DOMAIN queue' : queue'[j] = queue[i]
<1>1. queue \in Seq(Messages) /\ Len(queue) <= MaxMessages
  BY DEF QueueInv
<1>2. ASSUME NEW r, Thinned(queue, r), queue' = Append(r, e), NEW i \in DOMAIN queue,
             ~IsCoded(queue[i])
      PROVE  \E j \in DOMAIN queue' : queue'[j] = queue[i]
  <2>1. r \in Seq(Messages)
    BY <1>2 DEF Thinned
  <2>2. PICK k \in DOMAIN r : r[k] = queue[i]
    BY <1>2 DEF Thinned
  <2>3. \E j \in DOMAIN queue' : queue'[j] = r[k]
    BY <1>2, <2>1, <2>2, CodedAppend
  <2> QED
    BY <2>2, <2>3
<1>3. refused \subseteq refused'
  BY DEF NoteRefused
<1> QED
  BY <1>1, <1>2, <1>3, PushEffect

\* Every step keeps the player primed.
LEMMA PrimedStep ==
    ASSUME ThreadInv, QueueInv, HandInv, PrimedInv, [Next]_vars
    PROVE  PrimedInv'
<1>0. \A i \in DOMAIN init_types :
         /\ init_cache[init_types[i]] \in Messages /\ init_cache[init_types[i]] # NoMessage
         /\ ~IsCoded(init_cache[init_types[i]])
  BY SMTT(60) DEF QueueInv, HandInv, Messages, NoMessage, IsCoded
<1>1. ASSUME NEW k \in Kinds, NEW ts \in Timestamps, OnFrame(k, ts) PROVE PrimedInv'
  <2>1. PICK msg : msg = [kind |-> IF IsInit(k) THEN "Init" ELSE "Coded",
                          type |-> TypeOf(k), id |-> frames + 1]
    OBVIOUS
  <2>2. /\ net = "idle" /\ ~PlayerLocked /\ ~PlayerLocked'
        /\ UNCHANGED <<player, player_ready, queue, queue_closed, writer, hand, target, sent,
                       refused, shut>>
    BY <1>1 DEF OnFrame, PlayerLocked, playerQueueVars, writerVars, sessionVars
  <2>3. net_msg = NoMessage
    BY <2>2 DEF HandInv
  <2>4. CASE ~player_ready
    BY <2>2, <2>4 DEF PrimedInv
  <2>5. CASE player_ready /\ UNCHANGED <<init_cache, init_types>>
    BY <1>0, <2>2, <2>3, <2>5 DEF PrimedInv, OnItsWay
  <2>6. CASE player_ready /\ ~UNCHANGED <<init_cache, init_types>>
    <3>1. /\ init_cache' = [init_cache EXCEPT ![msg.type] = msg]
          /\ init_types' = init_types \/ init_types' = Append(init_types, msg.type)
          /\ net_msg' = msg
      BY <1>1, <2>1, <2>6 DEF OnFrame
    <3>2. /\ msg.type \in Types /\ init_types \in Seq(Types)
          /\ init_cache \in [Types -> Messages \cup {NoMessage}]
      BY <2>1 DEF QueueInv, TypeOf, Types
    <3>3. ASSUME player # NoSession, ~shut[player], ~queue_closed, NEW i \in DOMAIN init_types'
          PROVE  OnItsWay(init_cache[init_types[i]])'
      <4>1. \/ i \in DOMAIN init_types /\ init_types'[i] = init_types[i]
            \/ init_types'[i] = msg.type
        BY <3>1, <3>2, <3>3, SMTT(60)
      <4>2. CASE init_types'[i] = msg.type
        <5>1. init_cache'[init_types'[i]] = net_msg'
          BY <3>1, <3>2, <4>2
        <5> QED
          BY <5>1 DEF OnItsWay
      <4>3. CASE init_types'[i] # msg.type /\ i \in DOMAIN init_types /\ init_types'[i] = init_types[i]
        <5>1. init_types[i] \in Types /\ init_types[i] # msg.type
          BY <3>2, <4>3, SMTT(60)
        <5>2. init_cache'[init_types'[i]] = init_cache[init_types[i]]
          BY <3>1, <3>2, <4>3, <5>1
        <5>3. OnItsWay(init_cache[init_types[i]]) /\ init_cache[init_types[i]] # net_msg
          BY <1>0, <2>3, <2>6, <3>3, <4>3 DEF PrimedInv
        <5> QED
          BY <2>2, <5>2, <5>3 DEF OnItsWay
      <4> QED
        BY <4>1, <4>2, <4>3
    <3> QED
      BY <2>2, <3>3 DEF PrimedInv
  <2> QED
    BY <2>4, <2>5, <2>6
<1>2. CASE FramePush
  <2>1. /\ net_msg \in Messages /\ Push(net_msg) /\ NoteRefused(net_msg)
        /\ UNCHANGED <<player, player_ready, init_types, init_cache, hand, writer, target,
                       sent, play_pos, shut, session>>
    BY <1>2 DEF FramePush, QueueInv, playerVars, writerVars, sessionVars
  <2>2. queue_closed' = queue_closed /\ (PlayerLocked' <=> PlayerLocked)
    BY <2>1 DEF Push, PlayerLocked
  <2>3. ASSUME NEW m, OnItsWay(m), ~IsCoded(m), ~queue_closed PROVE OnItsWay(m)'
    <3>1. CASE m = net_msg
      BY <2>1, <2>3, <3>1, PushPrimes DEF OnItsWay
    <3>2. CASE m # net_msg
      BY <2>1, <2>3, <3>2, PushKeepsInit DEF OnItsWay
    <3> QED
      BY <3>1, <3>2
  <2> QED
    BY <1>0, <2>1, <2>2, <2>3 DEF PrimedInv
<1>3. ASSUME NEW s \in Sessions, PlayPush(s) PROVE PrimedInv'
  <2>1. PICK e : /\ e = init_cache[init_types[play_pos]] /\ Push(e) /\ NoteRefused(e)
                 /\ play_pos' = play_pos + 1
                 /\ UNCHANGED <<player, player_ready, init_types, init_cache, net_msg, hand,
                                writer, target, sent, shut, session>>
    BY <1>3 DEF PlayPush, playerVars, writerVars, netVars
  <2>2. play_pos \in DOMAIN init_types /\ play_pos \in Nat /\ PlayerLocked
    <3>1. play_pos \in Nat /\ play_pos >= 1 /\ init_types \in Seq(Types)
          /\ play_pos <= Len(init_types) /\ PlayerLocked
      BY <1>3 DEF PlayPush, QueueInv, OneHolder, PlayerLocked
    <3> QED
      BY <3>1, SMTT(60)
  <2>3. e \in Messages /\ ~IsCoded(e)
    BY <1>0, <2>1, <2>2
  <2>4. queue_closed' = queue_closed /\ (PlayerLocked' <=> PlayerLocked)
    BY <2>1 DEF Push, PlayerLocked
  <2>5. ASSUME NEW m, OnItsWay(m), ~IsCoded(m) PROVE OnItsWay(m)'
    BY <2>1, <2>3, <2>5, PushKeepsInit DEF OnItsWay
  <2>6. ~queue_closed => OnItsWay(e)'
    BY <2>1, <2>3, PushPrimes DEF OnItsWay
  <2>7. \A i \in DOMAIN init_types : i < play_pos + 1 => i < play_pos \/ i = play_pos
    <3>1. DOMAIN init_types \subseteq Nat
      BY SMTT(60) DEF QueueInv
    <3> QED
      BY <2>2, <3>1, SMTT(60)
  <2>8. ASSUME player # NoSession, ~shut[player], ~queue_closed, NEW i \in DOMAIN init_types,
               player_ready \/ i < play_pos + 1
        PROVE  OnItsWay(init_cache[init_types[i]])'
    <3>1. CASE i = play_pos
      <4>1. init_cache'[init_types'[i]] = e
        BY <2>1, <3>1
      <4> QED
        BY <2>6, <2>8, <4>1 DEF OnItsWay
    <3>2. CASE player_ready \/ i < play_pos
      <4>1. OnItsWay(init_cache[init_types[i]])
        BY <2>2, <2>8, <3>2 DEF PrimedInv
      <4>2. PICK m : m = init_cache[init_types[i]] /\ m = init_cache'[init_types'[i]]
        BY <2>1
      <4>3. OnItsWay(m) /\ ~IsCoded(m)
        BY <1>0, <4>1, <4>2
      <4>4. OnItsWay(m)'
        BY <2>5, <4>3
      <4> QED
        BY <4>2, <4>4 DEF OnItsWay
    <3> QED
      BY <2>7, <2>8, <3>1, <3>2
  <2> QED
    BY <2>1, <2>4, <2>8 DEF PrimedInv
<1>4. ASSUME NEW s \in Sessions, PlayReady(s) PROVE PrimedInv'
  <2>1. /\ PlayerLocked /\ play_pos > Len(init_types)
        /\ UNCHANGED <<player, init_types, init_cache, queue, queue_closed, net_msg, hand,
                       writer, target, sent, refused, shut>>
    BY <1>4 DEF PlayReady, PlayerLocked, playerQueueVars, netVars, writerVars, historyVars
  <2>2. \A i \in DOMAIN init_types : i < play_pos
    <3>1. init_types \in Seq(Types) /\ play_pos \in Nat
      BY DEF QueueInv, OneHolder
    <3> QED
      BY <2>1, <3>1, SMTT(60)
  <2> QED
    BY <2>1, <2>2 DEF PrimedInv, OnItsWay
<1>5. ASSUME NEW s \in Sessions, Replied(s) PROVE PrimedInv'
  <2>1. /\ PlayerLocked' => play_pos' = 1
        /\ UNCHANGED <<player, player_ready, init_types, init_cache, queue, queue_closed,
                       net_msg, hand, writer, target, sent, refused, shut>>
    BY <1>5 DEF Replied, PlayerLocked, playerQueueVars, playerVars, netVars, writerVars,
        ThreadInv, ThreadTypes
  <2>2. \A i \in DOMAIN init_types : ~(i < 1)
    BY SMTT(60) DEF QueueInv
  <2>3. ASSUME player # NoSession, ~shut[player], ~queue_closed, NEW i \in DOMAIN init_types,
               player_ready
        PROVE  OnItsWay(init_cache[init_types[i]])'
    <3>1. OnItsWay(init_cache[init_types[i]])
      BY <2>3 DEF PrimedInv
    <3> QED
      BY <2>1, <3>1 DEF OnItsWay
  <2> QED
    BY <2>1, <2>2, <2>3 DEF PrimedInv
<1>6. ASSUME NEW s \in Sessions, OnClose(s) PROVE PrimedInv'
  <2>1. /\ ~PlayerLocked /\ ~PlayerLocked'
        /\ UNCHANGED <<init_types, init_cache, queue, queue_closed, net_msg, hand, writer,
                       target, sent, refused, play_pos>>
        /\ player' = NoSession \/ (player # s /\ UNCHANGED <<player, player_ready>>)
        /\ UNCHANGED shut
    BY <1>6, SMTT(60) DEF OnClose, PlayerLocked, playerQueueVars, netVars, writerVars, sessionVars,
        historyVars, ThreadInv, ThreadTypes
  <2>2. CASE player' = NoSession
    BY <2>2 DEF PrimedInv
  <2>3. CASE player' # NoSession
    <3>1. player \in Sessions \ {s} /\ UNCHANGED <<player, player_ready>>
      BY <2>1, <2>3 DEF ThreadInv, ThreadTypes
    <3> QED
      BY <2>1, <3>1, PrimedUntouched
  <2> QED
    BY <2>2, <2>3
<1>7. ASSUME NEW s \in Sessions, Accept(s) PROVE PrimedInv'
  BY <1>7 DEF Accept, PrimedInv, PlayerLocked, ThreadInv, ThreadTypes
<1>8. CASE WriterPop
  <2>1. /\ hand = NoMessage /\ hand' = Head(queue) /\ queue' = Tail(queue) /\ queue # <<>>
        /\ writer' = "take" /\ queue \in Seq(Messages) /\ queue_closed' = queue_closed
        /\ UNCHANGED <<player, player_ready, init_types, init_cache, net_msg, target, sent,
                       refused, play_pos, shut, session>>
    BY <1>8 DEF WriterPop, Pop, HandInv, QueueInv, playerVars, netVars, sessionVars, historyVars
  <2>2. ASSUME NEW m, OnItsWay(m), m # NoMessage PROVE OnItsWay(m)'
    <3>1. CASE \E i \in DOMAIN queue : queue[i] = m
      <4>1. m = Head(queue) \/ \E j \in DOMAIN Tail(queue) : Tail(queue)[j] = m
        BY <2>1, <3>1, CodedTail
      <4> QED
        BY <2>1, <4>1 DEF OnItsWay
    <3>2. CASE ~ \E i \in DOMAIN queue : queue[i] = m
      BY <2>1, <2>2, <3>2 DEF OnItsWay
    <3> QED
      BY <3>1, <3>2
  <2>3. PlayerLocked' <=> PlayerLocked
    BY <2>1 DEF PlayerLocked
  <2> QED
    BY <1>0, <2>1, <2>2, <2>3 DEF PrimedInv
<1>9. CASE WriterTake
  <2>1. /\ ~PlayerLocked /\ ~PlayerLocked'
        /\ UNCHANGED <<player, player_ready, init_types, init_cache, queue, queue_closed,
                       net_msg, sent, refused, play_pos, shut>>
        /\ player_ready => target' = player /\ hand' = hand
    BY <1>9 DEF WriterTake, PlayerLocked, playerQueueVars, playerVars, netVars, sessionVars,
        historyVars
  <2> QED
    BY <2>1 DEF PrimedInv, OnItsWay
<1>10. CASE WriterSent
  <2>1. /\ writer = "send" /\ target \in Sessions /\ hand \in Messages
        /\ sent \in [Sessions -> Seq(Messages)]
        /\ sent' = IF shut[target] THEN sent ELSE [sent EXCEPT ![target] = Append(@, hand)]
        /\ UNCHANGED <<player, player_ready, init_types, init_cache, queue, queue_closed,
                       net_msg, refused, play_pos, shut, session>>
    BY <1>10 DEF WriterSent, HandInv, ThreadInv, StageInv, playerQueueVars, playerVars, netVars,
        sessionVars
  <2>2. ASSUME NEW m, OnItsWay(m), player \in Sessions, ~shut[player] PROVE OnItsWay(m)'
    <3>1. CASE target = player
      <4>1. sent'[player] = Append(sent[player], hand) /\ sent[player] \in Seq(Messages)
        BY <2>1, <2>2, <3>1
      <4>2. /\ \E j \in DOMAIN sent'[player] : sent'[player][j] = hand
            /\ \A i \in DOMAIN sent[player] :
                  \E j \in DOMAIN sent'[player] : sent'[player][j] = sent[player][i]
        <5>1. PICK q, r : /\ q \in Seq(Messages) /\ q = sent[player]
                          /\ r = sent'[player] /\ r = Append(q, hand)
          BY <4>1
        <5>2. PICK e \in Messages : e = hand
          BY <2>1
        <5>3. /\ \E j \in DOMAIN Append(q, e) : Append(q, e)[j] = e
              /\ \A i \in DOMAIN q : \E j \in DOMAIN Append(q, e) : Append(q, e)[j] = q[i]
          BY <5>1, CodedAppend
        <5> QED
          BY <5>1, <5>2, <5>3, SMTT(60)
      <4> QED
        BY <2>1, <2>2, <4>2 DEF OnItsWay
    <3>2. CASE target # player
      <4>1. sent'[player] = sent[player]
        BY <2>1, <2>2, <3>2
      <4> QED
        BY <2>1, <2>2, <3>2, <4>1 DEF OnItsWay
    <3> QED
      BY <3>1, <3>2
  <2>3. (PlayerLocked' <=> PlayerLocked) /\ player \in Sessions \cup {NoSession}
    BY <2>1 DEF PlayerLocked, ThreadInv, ThreadTypes
  <2> QED
    BY <2>1, <2>2, <2>3 DEF PrimedInv
<1>11. CASE WriterExit \/ Start
  <2>1. /\ hand = NoMessage /\ hand' = hand
        /\ UNCHANGED <<player, player_ready, init_types, init_cache, queue, queue_closed,
                       net_msg, target, sent, refused, play_pos, shut, session>>
    BY <1>11 DEF WriterExit, Start, HandInv, ThreadInv, StageInv, playerQueueVars, playerVars,
        netVars, sessionVars, historyVars
  <2>2. PlayerLocked' <=> PlayerLocked
    BY <2>1 DEF PlayerLocked
  <2> QED
    BY <1>0, <2>1, <2>2 DEF PrimedInv, OnItsWay
<1>12. CASE StopIdle \/ StopQueue
  BY <1>12 DEF StopIdle, StopQueue, CloseQueue, PrimedInv
<1>13. ASSUME NEW s \in Sessions, RecvPlay(s) \/ RunEnds(s) PROVE PrimedInv'
  <2>1. PlayerLocked' => PlayerLocked
    BY <1>13 DEF RecvPlay, RunEnds, PlayerLocked, ThreadInv, ThreadTypes
  <2>2. \A r \in Sessions : ~shut'[r] => ~shut[r]
    <3>1. CASE UNCHANGED shut
      BY <3>1
    <3>2. CASE shut' = [shut EXCEPT ![s] = TRUE]
      BY <3>2
    <3> QED
      BY <1>13, <3>1, <3>2 DEF RecvPlay, RunEnds
  <2>3. player \in Sessions \cup {NoSession}
    BY DEF ThreadInv, ThreadTypes
  <2> QED
    BY <1>13, <2>1, <2>2, <2>3, PrimedUntouched
    DEF RecvPlay, RunEnds, playerQueueVars, playerVars, netVars, writerVars, historyVars
<1>14. CASE ShutPlayer \/ CloseSessions
  <2>1. PlayerLocked' => PlayerLocked
    BY <1>14 DEF ShutPlayer, CloseSessions, PlayerLocked
  <2>2. player \in Sessions => (shut[player] => shut'[player])
    BY <1>14 DEF ShutPlayer, CloseSessions
  <2> QED
    BY <1>14, <2>1, <2>2, PrimedUntouched, SMTT(60)
    DEF ShutPlayer, CloseSessions, playerQueueVars, playerVars, netVars, writerVars,
        historyVars, ThreadInv, ThreadTypes
<1>15. CASE DestroySessions
  <2>1. ~PlayerLocked'
    BY <1>15 DEF DestroySessions, PlayerLocked
  <2> QED
    BY <1>15, <2>1, PrimedUntouched
    DEF DestroySessions, playerQueueVars, playerVars, netVars, writerVars, historyVars
<1>16. CASE StartAgain \/ StopSupervisor \/ JoinWriter \/ StopAccepting \/ UNCHANGED vars
  <2>1. UNCHANGED <<playerQueueVars, playerVars, netVars, writerVars, sessionVars, historyVars>>
    BY <1>16 DEF StartAgain, StopSupervisor, JoinWriter, StopAccepting, vars
  <2>2. PlayerLocked' => PlayerLocked
    BY <2>1 DEF PlayerLocked, sessionVars
  <2> QED
    BY <2>1, <2>2, PrimedUntouched
    DEF playerQueueVars, playerVars, netVars, writerVars, sessionVars, historyVars
<1> QED
  BY <1>1, <1>2, <1>3, <1>4, <1>5, <1>6, <1>7, <1>8, <1>9, <1>10, <1>11, <1>12, <1>13,
     <1>14, <1>15, <1>16 DEF Next, Writer, Session, Stop

\* A gateway that was not started has sent nothing.
LEMMA MediaInit == Init => HandInv /\ OrderInv /\ PrimedInv
<1> SUFFICES ASSUME Init PROVE HandInv /\ OrderInv /\ PrimedInv
  OBVIOUS
<1>1. /\ hand = NoMessage /\ net_msg = NoMessage /\ writer = "none" /\ init_types = <<>>
      /\ sent = [s \in Sessions |-> <<>>] /\ queue = <<>> /\ player = NoSession
  BY DEF Init, PlayerQueueInit
<1>2. CodedIn(NoMessage) = {} /\ Coded(<<>>) = {} /\ CodedRises(<<>>)
  BY SMTT(60) DEF CodedIn, NoMessage, IsCoded, Coded, CodedRises
<1>3. \A s \in Sessions : sent[s] = <<>>
  BY <1>1
<1>4. HandInv
  <2>1. <<>> \in Seq(Messages)
    BY SMTT(60)
  <2> QED
    BY <1>1, <2>1, SMTT(60) DEF HandInv
<1>5. OrderInv
  BY <1>1, <1>2, <1>3 DEF OrderInv, CodedOnceInOrder, Below
<1> QED
  BY <1>1, <1>4, <1>5 DEF PrimedInv

\* The writer sends each coded frame to one session, and in the order in which
\* frames arrived, although players replace each other while frames are in the
\* queue and in the hands of the threads.
THEOREM CodedInOrder == Spec => []CodedOnceInOrder
<1>1. OrderInv => CodedOnceInOrder
  BY DEF OrderInv
<1>2. Init => ThreadInv /\ QueueInv /\ HandInv /\ OrderInv
  BY ThreadInit, QueueInit, MediaInit
<1>3. ThreadInv /\ QueueInv /\ HandInv /\ OrderInv /\ [Next]_vars
        => (ThreadInv /\ QueueInv /\ HandInv /\ OrderInv)'
  BY ThreadStep, QueueStep, HandStep, OrderStep
<1> QED
  BY <1>1, <1>2, <1>3, PTL DEF Spec

\* A player that is being served has got, or will get, the latest init frame of
\* every type, unless the queue was full of Init entries.
THEOREM PlayersPrimed == Spec => []InitReachesPlayer
<1>1. ThreadInv /\ PrimedInv => InitReachesPlayer
  <2> SUFFICES ASSUME ThreadInv, PrimedInv, player_ready, ~shut[player], ~queue_closed,
                      NEW t \in Range(init_types)
               PROVE  init_cache[t] \in Range(sent[player]) \cup Range(queue)
                                         \cup {net_msg, hand} \cup refused
    BY DEF InitReachesPlayer
  <2>1. PICK i \in DOMAIN init_types : t = init_types[i]
    BY DEF Range
  <2>2. OnItsWay(init_cache[t])
    BY <2>1 DEF PrimedInv, ThreadInv, PointersLive
  <2> QED
    BY <2>2 DEF OnItsWay, Range
<1>2. Init => ThreadInv /\ QueueInv /\ HandInv /\ PrimedInv
  BY ThreadInit, QueueInit, MediaInit
<1>3. ThreadInv /\ QueueInv /\ HandInv /\ PrimedInv /\ [Next]_vars
        => (ThreadInv /\ QueueInv /\ HandInv /\ PrimedInv)'
  BY ThreadStep, QueueStep, HandStep, PrimedStep
<1> QED
  BY <1>1, <1>2, <1>3, PTL DEF Spec
=============================================================================
