---------------------------- MODULE ServerSession ----------------------------
(***************************************************************************)
(* rtmp::ServerSession (rtmp/src/server_session.cpp): the session thread's *)
(* run(), with the responder's handshake, a client that uses the initiator *)
(* and may send messages right behind C2, and another thread that calls    *)
(* close().  TCP is two queues of octets; recv() takes any number of them. *)
(*                                                                         *)
(* Of the ChunkReader only its contract is here, which ChunkStream checks: *)
(* it gives the messages fed to it, in order, and fails on a malformed one.*)
(* Every message is MessageLength octets, each the number of its message.  *)
(***************************************************************************)
EXTENDS Handshake, Integers

CONSTANTS
    MessageKinds,   \* what the client sends: a subset of AllKinds
    MessageLength,  \* octets of a message
    kAckWindow,     \* received octets that call for an acknowledgement
    AckRange,       \* 2^32: how far an acknowledgement counts
    MessageBound    \* bound: messages that the client sends

Commands == {"connect", "createStream", "publish", "play", "command", "unparsed"}
AllKinds == Commands \cup {"media", "control", "malformed"}

ASSUME SessionAssumption ==
    /\ MessageKinds \subseteq AllKinds
    /\ MessageLength \in Nat \ {0} /\ kAckWindow \in Nat \ {0}
    /\ AckRange \in Nat \ {0} /\ MessageBound \in Nat

VARIABLES
    \* the client: whether it keeps to the protocol, its handshake, whether it
    \* has closed its end, and the kinds of the messages it has sent
    conduct, initiator, gone, messages,
    \* the connection: octets to the server and to the client, and whether the
    \* server's end has been shut down
    up, down, shut,
    \* ServerSession::Impl
    handshake, received, last_ack, closing,
    \* the reader: octets fed to it, and messages next() has given
    fed, taken,
    \* where run() stands, and the replies to a command that are still to be sent
    at, todo,
    \* history: messages dispatched, calls of the gateway's callbacks, and what
    \* the session has sent
    dispatched, events, sent

clientVars  == <<conduct, initiator, gone, messages>>
readerVars  == <<fed, taken>>
historyVars == <<dispatched, events, sent>>
vars == <<clientVars, up, down, shut, handshake, received, last_ack,
          closing, readerVars, at, todo, historyVars>>

Init ==
    /\ conduct \in {"proper", "wrong_version", "wrong_echo"}
    /\ initiator = NewInitiator /\ gone = FALSE /\ messages = <<>>
    /\ up = <<>> /\ down = <<>> /\ shut = FALSE
    /\ handshake = NewResponder
    /\ received = 0 /\ last_ack = 0 /\ closing = FALSE
    /\ fed = <<>> /\ taken = 0
    /\ at = "handshake" /\ todo = <<>>
    /\ dispatched = <<>> /\ events = <<>> /\ sent = <<>>

-----------------------------------------------------------------------------
(* The client.                                                             *)

C0 == IF conduct = "wrong_version" THEN Octet("version", 6) ELSE kRtmpVersion

ClientStart ==
    /\ initiator.state = "Idle" /\ ~gone
    /\ initiator' = InitiatorStart(initiator)
    /\ up' = [initiator'.out EXCEPT ![1] = C0]
    /\ UNCHANGED <<conduct, gone, messages, down, shut, handshake, received,
                   last_ack, closing, readerVars, at, todo, historyVars>>

ClientRecv(n) ==
    /\ initiator.state = "WaitS0S1S2" /\ ~gone
    /\ initiator' = InitiatorFeed(initiator, FirstOf(down, n))
    /\ down' = Drop(down, n)
    /\ up' = up \o IF initiator'.out # <<>> /\ conduct = "wrong_echo"
                   THEN [initiator'.out EXCEPT ![3] = Octet("random", 0)]
                   ELSE initiator'.out
    /\ UNCHANGED <<conduct, gone, messages, shut, handshake, received, last_ack,
                   closing, readerVars, at, todo, historyVars>>

Octets(i) == [j \in 1..MessageLength |-> Octet("message", i)]

ClientSend(kind) ==
    /\ initiator.state = "Done" /\ ~gone
    /\ Len(messages) < MessageBound
    /\ messages' = Append(messages, kind)
    /\ up' = up \o Octets(Len(messages'))
    /\ UNCHANGED <<conduct, initiator, gone, down, shut, handshake,
                   received, last_ack, closing, readerVars, at, todo, historyVars>>

ClientClose ==
    /\ ~gone /\ gone' = TRUE
    /\ UNCHANGED <<conduct, initiator, messages, up, down, shut, handshake,
                   received, last_ack, closing, readerVars, at, todo,
                   historyVars>>

-----------------------------------------------------------------------------
(* The session thread.                                                     *)

\* run() calls on_close and returns.
Return == at' = "returned" /\ events' = Append(events, <<"close">>)

\* Mutant of RecvEnd: run() returns without a word in the handshake phase.
RecvEndSilent ==
    /\ at \in {"handshake", "message"} /\ (closing \/ gone)
    /\ at' = "returned"
    /\ events' = IF at = "message" THEN Append(events, <<"close">>) ELSE events
    /\ shut' = (shut \/ at = "message")
    /\ UNCHANGED <<clientVars, up, down, handshake, received, last_ack,
                   closing, readerVars, todo, dispatched, sent>>

\* recv() gives nothing or fails, or closing is set when it returns.
RecvEnd ==
    /\ at \in {"handshake", "message"} /\ (closing \/ gone)
    /\ Return
    /\ shut' = (shut \/ at = "message")
    /\ UNCHANGED <<clientVars, up, down, handshake, received, last_ack,
                   closing, readerVars, todo, dispatched, sent>>

\* Where run() goes on in the handshake phase.
AfterFeed(r) == IF r.state = "Done" THEN "leftover" ELSE "handshake"

\* recv() of the handshake phase gives n octets.
RecvHandshake(n) ==
    LET r == ResponderFeed(handshake, FirstOf(up, n))
    IN  /\ at = "handshake" /\ ~closing
        /\ up' = Drop(up, n)
        /\ handshake' = r
        /\ IF r.state = "Failed" THEN Return /\ shut' = TRUE
           ELSE /\ at' = IF r.out # <<>> THEN "respond" ELSE AfterFeed(r)
                /\ UNCHANGED <<shut, events>>
        /\ UNCHANGED <<clientVars, down, received, last_ack, closing, readerVars,
                       todo, dispatched, sent>>

\* What feed() wrote is sent, which fails once the socket has been shut down
\* and may fail once the client is gone.
Respond ==
    /\ at = "respond"
    /\ \/ ~shut /\ down' = down \o handshake.out /\ at' = AfterFeed(handshake)
          /\ UNCHANGED events
       \/ (shut \/ gone) /\ Return /\ UNCHANGED down
    /\ UNCHANGED <<clientVars, up, shut, handshake, received, last_ack, closing,
                   readerVars, todo, dispatched, sent>>

\* Octets reach the reader, which fails or has messages to give.
Feed(octets) ==
    /\ received' = received + Len(octets)
    /\ fed' = fed \o octets
    /\ IF \E j \in DOMAIN octets : messages[octets[j].value] = "malformed"
       THEN Return /\ shut' = TRUE
       ELSE at' = "drain" /\ UNCHANGED <<shut, events>>
    /\ UNCHANGED <<clientVars, down, last_ack, closing, taken, todo,
                   dispatched, sent>>

\* Mutant of TakeLeftover: what came behind C2 is not looked at.
TakeLeftoverNothing ==
    /\ at = "leftover" /\ at' = "message"
    /\ UNCHANGED <<clientVars, up, down, shut, handshake, received,
                   last_ack, closing, readerVars, todo, historyVars>>

\* What came behind C2 is fed to the reader before the first recv().
TakeLeftover ==
    /\ at = "leftover"
    /\ handshake' = [handshake EXCEPT !.buffer = <<>>]
    /\ IF handshake.buffer # <<>> THEN Feed(handshake.buffer)
       ELSE /\ at' = "message"
            /\ UNCHANGED <<clientVars, down, shut, received, last_ack,
                           closing, readerVars, todo, historyVars>>
    /\ UNCHANGED up

RecvMessage(n) ==
    /\ at = "message" /\ ~closing
    /\ up' = Drop(up, n)
    /\ Feed(FirstOf(up, n))
    /\ UNCHANGED handshake

\* The replies handle_command() sends, one send_message() each.
Replies(kind) ==
    CASE kind = "connect"      -> <<"window", "bandwidth", "chunk_size", "result">>
      [] kind = "createStream" -> <<"result">>
      [] kind = "publish"      -> <<"publish_start">>
      [] kind = "play"         -> <<"stream_begin", "play_reset", "play_start">>
      [] OTHER                 -> <<>>

\* The callback made for a message, once the replies are sent.
Callback(kind) ==
    CASE kind = "connect"               -> <<"connect">>
      [] kind = "publish"               -> <<"stream", TRUE>>
      [] kind = "play"                  -> <<"stream", FALSE>>
      [] kind \in {"command", "media"}  -> <<"message">>
      [] OTHER                          -> <<>>

\* Messages the reader has to give: all that are complete.
Ready == Len(fed) \div MessageLength

\* drain_ready(): the next message, if there is one.
Drain ==
    LET i == fed[(taken + 1) * MessageLength].value
    IN  /\ at = "drain" /\ taken < Ready
        /\ taken' = taken + 1 /\ dispatched' = Append(dispatched, i)
        /\ todo' = Replies(messages[i])
        /\ at' = "reply"
        /\ UNCHANGED <<clientVars, up, down, shut, handshake, received, last_ack,
                       closing, fed, events, sent>>

\* send_message(): nothing is sent on a socket that has been shut down, and the
\* session does not look at the result.
Written(what) == IF shut THEN sent ELSE Append(sent, what)

SendReply ==
    /\ at = "reply" /\ todo # <<>>
    /\ sent' = Written(<<Head(todo), dispatched[taken]>>)
    /\ todo' = Tail(todo)
    /\ UNCHANGED <<clientVars, up, down, shut, handshake, received,
                   last_ack, closing, readerVars, at, dispatched, events>>

\* Mutant of CallBack: the next message waits for the next recv().
CallBackOnce ==
    LET call == Callback(messages[dispatched[taken]])
    IN  /\ at = "reply" /\ todo = <<>>
        /\ events' = IF call = <<>> THEN events ELSE Append(events, call)
        /\ at' = "message"
        /\ UNCHANGED <<clientVars, up, down, shut, handshake, received, last_ack,
                       closing, readerVars, todo, dispatched, sent>>

\* The callback, and on to the next message.
CallBack ==
    LET call == Callback(messages[dispatched[taken]])
    IN  /\ at = "reply" /\ todo = <<>>
        /\ events' = IF call = <<>> THEN events ELSE Append(events, call)
        /\ at' = "drain"
        /\ UNCHANGED <<clientVars, up, down, shut, handshake, received,
                       last_ack, closing, readerVars, todo, dispatched, sent>>

\* Mutant of AckDue: a window that is just full is not acknowledged.
AckDueLate == received - last_ack > kAckWindow

AckDue == received - last_ack >= kAckWindow

\* maybe_ack(), after drain_ready(); then the next recv().
MaybeAck ==
    /\ at = "drain" /\ taken = Ready
    /\ last_ack' = IF AckDue THEN received ELSE last_ack
    /\ sent' = IF AckDue THEN Written(<<"ack", received % AckRange>>) ELSE sent
    /\ at' = "message"
    /\ UNCHANGED <<clientVars, up, down, shut, handshake, received,
                   closing, readerVars, todo, dispatched, events>>

\* close(), of another thread.
Close ==
    /\ ~closing /\ closing' = TRUE /\ shut' = TRUE
    /\ UNCHANGED <<clientVars, up, down, handshake, received, last_ack,
                   readerVars, at, todo, historyVars>>

-----------------------------------------------------------------------------

Run ==
    \/ RecvEnd \/ Respond \/ TakeLeftover \/ Drain \/ SendReply \/ CallBack \/ MaybeAck
    \/ \E n \in DOMAIN up : RecvHandshake(n) \/ RecvMessage(n)

Client ==
    \/ ClientStart \/ ClientClose
    \/ \E n \in DOMAIN down : ClientRecv(n)
    \/ \E kind \in MessageKinds : ClientSend(kind)

Next == Run \/ Client \/ Close

Spec == Init /\ [][Next]_vars

\* The session thread goes on: recv() returns when there is something to return,
\* and no send blocks for ever on a client that reads.
FairSpec == Spec /\ WF_vars(Run)

-----------------------------------------------------------------------------
(* Properties.                                                             *)

\* However TCP cuts the octets, a proper client and the session complete the
\* handshake and neither fails; the session completes it only with a client
\* that has seen its S1 and echoed it.
HandshakeAgrees ==
    /\ initiator.state # "Failed"
    /\ conduct = "proper" => handshake.state # "Failed"
    /\ handshake.state = "Done" => conduct = "proper" /\ initiator.state = "Done"

\* Octets of messages that have left the client's queue.
Arrived == Len(messages) * MessageLength - Len(up)

\* The callbacks of the first k messages have been made, one after the other:
\* ends[i] is how many there were up to message i.
CalledBack(k) ==
    \E ends \in [0..k -> 0..Len(events)] :
        /\ ends[0] = 0 /\ ends[k] = Len(events)
        /\ \A i \in 1..k :
              IF Callback(messages[i]) = <<>> THEN ends[i] = ends[i - 1]
              ELSE ends[i] = ends[i - 1] + 1 /\ events[ends[i]] = Callback(messages[i])

\* What was sent is reply r to message i; of two replies, a has to come first.
IsReply(a, i, r) == r \in DOMAIN Replies(messages[i]) /\ a = <<Replies(messages[i])[r], i>>
Precedes(a, b)   == \/ a[2] < b[2]
                    \/ \E r, s \in DOMAIN Replies(messages[a[2]]) :
                          r < s /\ IsReply(a, a[2], r) /\ IsReply(b, a[2], s)

\* Message i is one of the first k, and its reply r is none of those to message k
\* that are still to be sent.
Due(k, i, r) == i < k \/ r + Len(todo) <= Len(Replies(messages[i]))

\* The replies that are due have been sent, no others, and in order.
RepliesSent(k) ==
    \A i \in 1..k : \A r \in DOMAIN Replies(messages[i]) :
        Due(k, i, r) => \E j \in DOMAIN sent : IsReply(sent[j], i, r)
NoOtherReply(k) ==
    \A j \in DOMAIN sent : sent[j][1] # "ack" =>
        \E i \in 1..k : \E r \in DOMAIN Replies(messages[i]) :
            Due(k, i, r) /\ IsReply(sent[j], i, r)
RepliesInOrder ==
    \A j, l \in {n \in DOMAIN sent : sent[n][1] # "ack"} :
        j < l => Precedes(sent[j], sent[l])
Replied(k) == RepliesSent(k) /\ NoOtherReply(k) /\ RepliesInOrder

\* Whenever run() waits in recv(), it has dispatched every message that has
\* arrived in full, those behind C2 included, once and in order, with the
\* callback and the replies of each before those of the next.
DispatchExact ==
    LET k == Arrived \div MessageLength
    IN  at = "message" =>
          /\ dispatched = [i \in 1..k |-> i] /\ todo = <<>> /\ CalledBack(k)
          /\ ~shut => Replied(k)

\* The latest acknowledgement that was sent says n.
LatestAck(n) ==
    \E i \in DOMAIN sent : /\ sent[i] = <<"ack", n>>
                           /\ \A j \in DOMAIN sent : j > i => sent[j][1] # "ack"

\* Whenever run() waits in recv(), all octets behind C2 are counted, less than
\* a window of them is unacknowledged, and the client's last acknowledgement
\* is the count at that time, in 32 bits.
AckExact ==
    at = "message" =>
        /\ received = Arrived /\ received - last_ack < kAckWindow
        /\ ~shut /\ last_ack > 0 => LatestAck(last_ack % AckRange)

\* on_close() is called when run() returns, whichever way, and never else: the
\* gateways forget the session there.
ClosedOnce ==
    /\ \A i \in DOMAIN events : events[i] = <<"close">> => i = Len(events)
    /\ at = "returned" <=> events # <<>> /\ events[Len(events)] = <<"close">>

\* Every message a client sends is dispatched unless the session ends, without
\* anything more from the client; and a session that is closed, by either
\* side, ends.
MessagesHandled ==
    /\ \A i \in 1..MessageBound :
          Len(messages) >= i ~> Len(dispatched) >= i \/ at = "returned"
    /\ closing \/ gone ~> at = "returned"
=============================================================================
