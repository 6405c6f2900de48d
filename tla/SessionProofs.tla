---------------------------- MODULE SessionProofs ----------------------------
(***************************************************************************)
(* Theorems about ServerSession, for messages of any kinds and any length, *)
(* any window and any fragments that TCP makes of the octets: the outcome  *)
(* of the handshake, the end of a session, its acknowledgements, and the   *)
(* order in which messages are dispatched.                                 *)
(***************************************************************************)
EXTENDS HandshakeProofs

\* The provers to try, with time enough for the larger steps.
USE ZenonT(60), SMTT(60)

-----------------------------------------------------------------------------
(* The handshake: the steps of the client and of run() behind it.          *)

\* Behind m messages and the handshake, message m + 1 is octet for octet where
\* OfMessage expects it.
LEMMA MessageOctets ==
    ASSUME NEW m \in Nat, NEW who
    PROVE  /\ Octets(m + 1) \in Seq(Bytes) /\ Len(Octets(m + 1)) = MessageLength
           /\ Carried(who, 7 + m * MessageLength, Octets(m + 1))
<1>1. PICK o : o = Octet("message", m + 1) /\ o \in Bytes /\ o.value = m + 1
  <2>1. /\ Octet("message", m + 1) \in Bytes /\ Octet("message", m + 1).value = m + 1
    BY SMTT(60) DEF Octet, Bytes
  <2> QED
    BY <2>1
<1>2. PICK l \in Nat : l = MessageLength
  BY SessionAssumption
<1>3. PICK w : w = Octets(m + 1)
  OBVIOUS
<1>4. w \in Seq(Bytes) /\ Len(w) = l /\ \A k \in 1..l : w[k] = o
  BY <1>1, <1>2, <1>3, SMTT(60) DEF Octets
<1>5. PICK ml \in Nat : ml = m * l
  BY <1>2, SMTT(60)
<1>6. (m + 1) * l = ml + l /\ ((m + 1) - 1) * l = ml
  BY <1>2, <1>5, SMTT(60)
<1>7. ASSUME NEW k \in 1..l PROVE OctetAt(who, (7 + ml) + k, w[k])
  <2>1. (7 + ml) + k > 7 /\ ((7 + ml) + k) - 7 = ml + k /\ ml < ml + k /\ ml + k <= ml + l
    BY <1>2, <1>5, <1>7, SMTT(60)
  <2>2. OfMessage(ml + k, o)
    BY <1>1, <1>2, <1>6, <2>1, SMTT(60) DEF OfMessage
  <2>3. PICK x \in Nat : x = (7 + ml) + k /\ x > 7 /\ x - 7 = ml + k
    BY <1>2, <1>5, <2>1, SMTT(60)
  <2> QED
    BY <1>4, <2>2, <2>3, SMTT(60) DEF OctetAt
<1>8. DOMAIN w = 1..l
  BY <1>2, <1>4, SMTT(60)
<1>9. Carried(who, 7 + ml, w)
  BY <1>7, <1>8 DEF Carried
<1> QED
  BY <1>2, <1>3, <1>4, <1>5, <1>9

\* The client sends a message, behind C2.
LEMMA ShakeSend ==
    ASSUME ShakeInv, NEW kind \in MessageKinds, ClientSend(kind)
    PROVE  ShakeInv'
<1>1. /\ initiator.state = "Done" /\ messages' = Append(messages, kind)
      /\ up' = up \o Octets(Len(messages'))
      /\ UNCHANGED <<conduct, initiator, down, handshake, received, fed, at>>
  BY DEF ClientSend, readerVars
<1>2. SessionTypes /\ ServerInv
  BY DEF ShakeInv
<1>3. messages' \in Seq(MessageKinds) /\ Len(messages') = Len(messages) + 1
      /\ Len(messages) \in Nat
  BY <1>1, <1>2, SMTT(60) DEF SessionTypes
<1>4. PICK w : /\ w = Octets(Len(messages')) /\ w \in Seq(Bytes) /\ Len(w) = MessageLength
               /\ Carried(conduct, 7 + Len(messages) * MessageLength, w)
  BY <1>3, MessageOctets
<1>5. up' \in Seq(Bytes) /\ Len(up') = Len(up) + MessageLength
  BY <1>1, <1>2, <1>4, SMTT(60) DEF SessionTypes
<1>6. SessionTypes' /\ ServerInv'
  BY <1>1, <1>2, <1>3, <1>5 DEF SessionTypes, ServerInv
<1>7. CASE handshake.state = "Failed"
  BY <1>1, <1>6, <1>7 DEF ShakeInv
<1>8. CASE handshake.state # "Failed"
  <2>1. UpInv /\ DownInv /\ AgreeInv
    BY <1>8 DEF ShakeInv
  <2>2. DownInv' /\ AgreeInv' /\ Used' = Used /\ Given' = Given /\ Given = 7
    BY <1>1, <2>1 DEF DownInv, AgreeInv, Used, Given
  <2>3. PICK lb \in Nat, lu \in Nat, lm \in Nat, used \in {0, 4, 7}, r \in Nat, m \in Nat :
          /\ lb = Len(handshake.buffer) /\ lu = Len(up) /\ lm = Len(messages)
          /\ used = Used /\ r = received /\ m = MessageLength
    BY <1>2, Counts, SessionAssumption
  <2>4. used + lb + r + lu = 7 + lm * m
    BY <2>1, <2>2, <2>3 DEF UpInv
  <2>5. used + lb + r + (lu + m) = 7 + (lm + 1) * m
    <3>1. (lm + 1) * m = lm * m + m /\ lm * m \in Nat
      BY <2>3, SMTT(60)
    <3>2. PICK lmm \in Nat : lmm = lm * m
      BY <3>1
    <3>4. used \in Nat /\ lb \in Nat /\ r \in Nat /\ lu \in Nat /\ m \in Nat /\ lmm \in Nat
      BY <2>3, <3>2, SMTT(60)
    <3>5. used + lb + r + lu = 7 + lmm
      BY <2>4, <3>2
    <3>6. used + lb + r + (lu + m) = 7 + (lmm + m)
      BY <3>4, <3>5, SMTT(60)
    <3> QED
      BY <3>1, <3>2, <3>6
  <2>6. (Used + Len(handshake.buffer) + received + Len(up)
           = Given + Len(messages) * MessageLength)'
    BY <1>1, <1>3, <1>5, <2>2, <2>3, <2>5
  <2>7. CASE r # 0
    BY <1>1, <1>6, <1>8, <2>1, <2>2, <2>3, <2>6, <2>7 DEF UpInv, ShakeInv
  <2>8. CASE r = 0
    <3>1. Carried(conduct, used, handshake.buffer) /\ Carried(conduct, used + lb, up)
      BY <2>1, <2>3, <2>8 DEF UpInv
    <3>2. Carried(conduct, (used + lb) + Len(up), w)
      <4>1. (used + lb) + Len(up) = 7 + Len(messages) * MessageLength
        <5>1. used + lb + 0 + lu = 7 + lm * m
          BY <2>4, <2>8
        <5>2. used + lb + 0 + lu = (used + lb) + lu
          BY <2>3, SMTT(60)
        <5> QED
          BY <2>3, <5>1, <5>2
      <4> QED
        BY <1>4, <4>1
    <3>3. Carried(conduct, used + lb, up \o w)
      <4>1. up \in Seq(Bytes) /\ w \in Seq(Bytes) /\ used + lb \in Nat
        BY <1>2, <1>4, <2>3, SMTT(60) DEF SessionTypes
      <4> QED
        BY <3>1, <3>2, <4>1, CarriedOn
    <3>4. UpInv'
      <4>1. Carried(conduct', Used', handshake'.buffer)
        BY <1>1, <2>2, <2>3, <3>1
      <4>2. Carried(conduct', Used' + Len(handshake'.buffer), up')
        BY <1>1, <1>4, <2>2, <2>3, <3>3
      <4> QED
        BY <1>1, <2>3, <2>6, <2>8, <4>1, <4>2 DEF UpInv
    <3> QED
      BY <1>1, <1>6, <1>8, <2>2, <3>4 DEF ShakeInv
  <2> QED
    BY <2>7, <2>8
<1> QED
  BY <1>7, <1>8

\* What came behind C2 is fed to the reader.
LEMMA ShakeLeftover == ASSUME ShakeInv, TakeLeftover PROVE ShakeInv'
<1>1. /\ at = "leftover" /\ handshake' = [handshake EXCEPT !.buffer = <<>>]
      /\ UNCHANGED <<conduct, initiator, messages, up, down>>
  BY DEF TakeLeftover, Feed, clientVars
<1>2. /\ SessionTypes /\ ServerInv /\ UpInv /\ DownInv /\ AgreeInv /\ handshake.state = "Done"
  BY <1>1 DEF ShakeInv, AgreeInv
<1>3. PICK b : b = handshake.buffer /\ b \in Seq(Bytes) /\ Len(b) \in Nat
  BY <1>2, SMTT(60) DEF SessionTypes
<1>4. /\ received' = received + Len(b) /\ fed' \in Seq(Bytes)
      /\ at' \in {"returned", "drain", "message"}
  <2>1. CASE b # <<>>
    <3>1. Feed(b)
      BY <1>3, <2>1 DEF TakeLeftover
    <3>2. received' = received + Len(b) /\ fed' = fed \o b /\ at' \in {"returned", "drain"}
      BY <3>1 DEF Feed, Return
    <3>3. fed \in Seq(Bytes)
      BY <1>2 DEF SessionTypes
    <3>4. fed' \in Seq(Bytes)
      BY <1>3, <3>2, <3>3, SMTT(60)
    <3> QED
      BY <3>2, <3>4
  <2>2. CASE b = <<>>
    <3>1. received' = received /\ fed' = fed /\ at' = "message"
      BY <1>3, <2>2 DEF TakeLeftover, readerVars
    <3>2. Len(b) = 0 /\ received \in Nat
      BY <1>2, <2>2 DEF SessionTypes
    <3> QED
      BY <1>2, <3>1, <3>2, SMTT(60) DEF SessionTypes
  <2> QED
    BY <2>1, <2>2
<1>5. handshake'.state = "Done" /\ handshake'.buffer = <<>> /\ handshake'.out = handshake.out
  BY <1>1, <1>2 DEF SessionTypes
<1>6. Len(<<>>) = 0 /\ <<>> \in Seq(Bytes)
  BY SMTT(60)
<1>7. SessionTypes'
  <2>1. received' \in Nat
    BY <1>2, <1>3, <1>4, SMTT(60) DEF SessionTypes
  <2>2. handshake' \in [state : {"WaitC0C1", "WaitC2", "Done", "Failed"},
                        buffer : Seq(Bytes), out : Seq(Bytes)]
    BY <1>1, <1>2, <1>6 DEF SessionTypes
  <2> QED
    BY <1>1, <1>2, <1>4, <2>1, <2>2 DEF SessionTypes
<1>8. ServerInv'
  BY <1>1, <1>2 DEF ServerInv
<1>9. UpInv'
  <2>1. Used = 7 /\ Used' = 7 /\ Given' = Given
    BY <1>1, <1>2, <1>5 DEF Used, Given
  <2>2. PICK lb \in Nat, lu \in Nat, r \in Nat :
          lb = Len(b) /\ lu = Len(up) /\ r = received
    BY <1>2, <1>3, Counts
  <2>3. \A a, d, e \in Nat : 7 + a + d + e = 7 + 0 + (d + a) + e
    BY SMTT(60)
  <2>4. 7 + 0 + (r + lb) + lu = Given + Len(messages) * MessageLength
    <3>1. 7 + lb + r + lu = Given + Len(messages) * MessageLength
      BY <1>2, <1>3, <2>1, <2>2 DEF UpInv
    <3> QED
      BY <2>3, <3>1
  <2>5. (Used + Len(handshake.buffer) + received + Len(up)
           = Given + Len(messages) * MessageLength)'
    <3>1. /\ Len(handshake.buffer)' = 0 /\ received' = r + lb /\ Len(up)' = lu
          /\ (Len(messages) * MessageLength)' = Len(messages) * MessageLength
      BY <1>1, <1>4, <1>5, <1>6, <2>2
    <3> QED
      BY <2>1, <2>4, <3>1
  <2>6. ASSUME received' = 0
        PROVE  /\ Carried(conduct, 7, <<>>) /\ Carried(conduct, 7 + Len(<<>>), up)
    <3>1. r + lb = 0
      BY <1>4, <2>2, <2>6
    <3>2. r = 0 /\ lb = 0
      BY <2>2, <3>1, SMTT(60)
    <3>3. Carried(conduct, 7, b) /\ Carried(conduct, 7 + Len(b), up)
      BY <1>2, <1>3, <2>1, <2>2, <3>2 DEF UpInv
    <3>4. b = <<>>
      BY <1>3, <2>2, <3>2, EmptySeq
    <3> QED
      BY <3>3, <3>4
  <2> QED
    BY <1>1, <1>2, <1>5, <2>1, <2>5, <2>6 DEF UpInv
<1>10. DownInv' /\ AgreeInv'
  BY <1>1, <1>2, <1>4, <1>5 DEF DownInv, AgreeInv
<1> QED
  BY <1>5, <1>7, <1>8, <1>9, <1>10 DEF ShakeInv

\* recv() of the message phase.
LEMMA ShakeMessage ==
    ASSUME ShakeInv, NEW n \in DOMAIN up, RecvMessage(n)
    PROVE  ShakeInv'
<1>1. /\ at = "message" /\ up' = Drop(up, n)
      /\ received' = received + Len(FirstOf(up, n)) /\ fed' = fed \o FirstOf(up, n)
      /\ at' \in {"returned", "drain"}
      /\ UNCHANGED <<conduct, initiator, messages, down, handshake>>
  BY DEF RecvMessage, Feed, Return, clientVars
<1>2. /\ SessionTypes /\ ServerInv /\ UpInv /\ DownInv /\ AgreeInv /\ handshake.state = "Done"
  BY <1>1 DEF ShakeInv, AgreeInv
<1>3. PICK u, q, rest : /\ u = up /\ q = FirstOf(u, n) /\ rest = Drop(u, n)
                        /\ u \in Seq(Bytes)
  BY <1>2 DEF SessionTypes
<1>4. n \in 1..Len(u) /\ Len(u) \in Nat
  BY <1>3, SMTT(60)
<1>5. /\ q \in Seq(Bytes) /\ Len(q) = n /\ rest \in Seq(Bytes) /\ Len(rest) = Len(u) - n
  <2>1. n \in 0..Len(u)
    BY <1>4, SMTT(60)
  <2> QED
    BY <1>3, <2>1, Cut
<1>6. SessionTypes' /\ ServerInv'
  <2>1. fed \in Seq(Bytes) /\ received \in Nat /\ n \in Nat
    BY <1>2, <1>4, SMTT(60) DEF SessionTypes
  <2>2. fed' = fed \o q /\ received' = received + n /\ up' = rest
    BY <1>1, <1>3, <1>5
  <2>3. fed' \in Seq(Bytes)
    BY <1>5, <2>1, <2>2, SMTT(60)
  <2>4. received' \in Nat /\ up' \in Seq(Bytes)
    BY <1>5, <2>1, <2>2, SMTT(60)
  <2> QED
    BY <1>1, <1>2, <2>3, <2>4 DEF SessionTypes, ServerInv
<1>7. UpInv'
  <2>1. Used' = Used /\ Given' = Given
    BY <1>1 DEF Used, Given
  <2>2. PICK lb \in Nat, lu \in Nat, r \in Nat, used \in Nat :
          lb = Len(handshake.buffer) /\ lu = Len(u) /\ r = received /\ used = Used
    BY <1>2, <1>3, Counts
  <2>4. used + lb + (r + n) + (lu - n) = Given + Len(messages) * MessageLength
    <3>1. used + lb + r + lu = Given + Len(messages) * MessageLength
      BY <1>2, <1>3, <2>2 DEF UpInv
    <3>2. n \in Nat /\ n <= lu
      BY <1>4, <2>2, SMTT(60)
    <3>3. used \in Nat /\ lb \in Nat /\ r \in Nat /\ lu \in Nat
      BY <2>2
    <3>4. used + lb + (r + n) + (lu - n) = used + lb + r + lu
      BY <3>2, <3>3, SMTT(60)
    <3> QED
      BY <3>1, <3>4
  <2>5. (Used + Len(handshake.buffer) + received + Len(up)
           = Given + Len(messages) * MessageLength)'
    <3>1. /\ Len(handshake.buffer)' = lb /\ received' = r + n /\ Len(up)' = lu - n
          /\ (Len(messages) * MessageLength)' = Len(messages) * MessageLength
      BY <1>1, <1>3, <1>5, <2>2
    <3> QED
      BY <2>1, <2>2, <2>4, <3>1
  <2>6. received' # 0
    <3>1. r \in Nat /\ n \in Nat /\ n >= 1 /\ received' = r + n
      BY <1>1, <1>3, <1>4, <1>5, <2>2, SMTT(60)
    <3> QED
      BY <3>1, SMTT(60)
  <2> QED
    BY <1>1, <1>2, <2>5, <2>6 DEF UpInv
<1>8. DownInv' /\ AgreeInv'
  BY <1>1, <1>2 DEF DownInv, AgreeInv
<1> QED
  BY <1>1, <1>2, <1>6, <1>7, <1>8 DEF ShakeInv

\* Every step keeps ShakeInv.
LEMMA ShakeStep == ASSUME ShakeInv, [Next]_vars PROVE ShakeInv'
<1>1. CASE RecvEnd
  BY <1>1, ShakeElsewhere DEF RecvEnd, Return, clientVars, readerVars
<1>2. CASE Drain
  BY <1>2, ShakeElsewhere DEF Drain, clientVars
<1>3. CASE SendReply
  BY <1>3, ShakeElsewhere DEF SendReply, clientVars, readerVars
<1>4. CASE CallBack
  BY <1>4, ShakeElsewhere DEF CallBack, clientVars, readerVars
<1>5. CASE MaybeAck
  BY <1>5, ShakeElsewhere DEF MaybeAck, clientVars, readerVars
<1>6. CASE ClientClose
  BY <1>6, ShakeElsewhere DEF ClientClose, readerVars
<1>7. CASE Close
  BY <1>7, ShakeElsewhere DEF Close, clientVars, readerVars
<1>8. CASE UNCHANGED vars
  BY <1>8, ShakeElsewhere DEF vars, clientVars, readerVars
<1>9. ASSUME NEW n \in DOMAIN up, RecvHandshake(n) PROVE ShakeInv'
  BY <1>9, ShakeHandshake
<1>10. ASSUME NEW n \in DOMAIN up, RecvMessage(n) PROVE ShakeInv'
  BY <1>10, ShakeMessage
<1>11. ASSUME NEW n \in DOMAIN down, ClientRecv(n) PROVE ShakeInv'
  BY <1>11, ShakeReceive
<1>12. ASSUME NEW kind \in MessageKinds, ClientSend(kind) PROVE ShakeInv'
  BY <1>12, ShakeSend
<1> QED
  BY <1>1, <1>2, <1>3, <1>4, <1>5, <1>6, <1>7, <1>8, <1>9, <1>10, <1>11, <1>12,
     ShakeRespond, ShakeLeftover, ShakeStart DEF Next, Run, Client

\* HandshakeAgrees: however TCP cuts the octets of the handshake, and however
\* long the client goes on sending behind them, a proper client and the session
\* complete it, and the session completes it with no other client.
THEOREM HandshakeAlwaysAgrees == Spec => []HandshakeAgrees
<1>1. Init => ShakeInv
  BY ShakeInit
<1>2. ShakeInv /\ [Next]_vars => ShakeInv'
  BY ShakeStep
<1>3. ShakeInv => HandshakeAgrees
  BY DEF ShakeInv, SessionTypes, AgreeInv, HandshakeAgrees
<1> QED
  BY <1>1, <1>2, <1>3, PTL DEF Spec

-----------------------------------------------------------------------------
(* The end of a session.                                                   *)

Calls == {<<"connect">>, <<"stream", TRUE>>, <<"stream", FALSE>>, <<"message">>}

\* on_close() is the last call, and made where run() returns.
CloseInv ==
    IF at = "returned"
    THEN \E before \in Seq(Calls) : events = Append(before, <<"close">>)
    ELSE events \in Seq(Calls)

\* run() returns.
LEMMA CloseReturn ==
    ASSUME events \in Seq(Calls), Return
    PROVE  CloseInv'
  BY DEF Return, CloseInv

\* Steps that make no call.
LEMMA CloseQuiet ==
    ASSUME CloseInv, events' = events,
           at' = at \/ (at # "returned" /\ at' # "returned")
    PROVE  CloseInv'
  BY DEF CloseInv

\* Every step keeps CloseInv.
LEMMA CloseStep == ASSUME CloseInv, [Next]_vars PROVE CloseInv'
<1>1. CASE RecvEnd
  <2>1. at # "returned" /\ Return
    BY <1>1 DEF RecvEnd
  <2> QED
    BY <2>1, CloseReturn DEF CloseInv
<1>2. ASSUME NEW n \in DOMAIN up, RecvHandshake(n) PROVE CloseInv'
  <2>1. at = "handshake" /\ (Return \/ (at' \in {"respond", "leftover", "handshake"} /\ events' = events))
    BY <1>2 DEF RecvHandshake, AfterFeed
  <2> QED
    BY <2>1, CloseReturn, CloseQuiet DEF CloseInv
<1>3. CASE Respond
  <2>1. at = "respond" /\ (Return \/ (at' \in {"leftover", "handshake"} /\ events' = events))
    BY <1>3 DEF Respond, AfterFeed
  <2> QED
    BY <2>1, CloseReturn, CloseQuiet DEF CloseInv
<1>4. ASSUME NEW octets, Feed(octets), at # "returned" PROVE CloseInv'
  <2>1. Return \/ (at' = "drain" /\ events' = events)
    BY <1>4 DEF Feed
  <2> QED
    BY <1>4, <2>1, CloseReturn, CloseQuiet DEF CloseInv
<1>5. CASE TakeLeftover
  <2>1. at = "leftover" /\ (Feed(handshake.buffer) \/ (at' = "message" /\ events' = events))
    BY <1>5 DEF TakeLeftover, historyVars
  <2> QED
    BY <1>4, <2>1, CloseQuiet
<1>6. ASSUME NEW n \in DOMAIN up, RecvMessage(n) PROVE CloseInv'
  <2>1. at = "message" /\ Feed(FirstOf(up, n))
    BY <1>6 DEF RecvMessage
  <2> QED
    BY <1>4, <2>1
<1>7. CASE CallBack
  <2>1. PICK call : /\ call = Callback(messages[dispatched[taken]])
                    /\ at = "reply" /\ at' = "drain"
                    /\ events' = IF call = <<>> THEN events ELSE Append(events, call)
    BY <1>7 DEF CallBack
  <2>2. call \in Calls \cup {<<>>}
    <3>1. PICK kind : kind = messages[dispatched[taken]]
      OBVIOUS
    <3>2. Callback(kind) \in Calls \cup {<<>>}
      BY DEF Callback, Calls
    <3> QED
      BY <2>1, <3>1, <3>2
  <2>3. events \in Seq(Calls)
    BY <2>1 DEF CloseInv
  <2>4. events' \in Seq(Calls)
    <3>1. CASE call \in Calls
      <4>1. Append(events, call) \in Seq(Calls)
        BY <2>3, <3>1, SMTT(60)
      <4> QED
        BY <2>1, <2>3, <4>1
    <3>2. CASE call = <<>>
      BY <2>1, <2>3, <3>2
    <3> QED
      BY <2>2, <3>1, <3>2
  <2> QED
    BY <2>1, <2>4 DEF CloseInv
<1>8. CASE Drain
  BY <1>8, CloseQuiet DEF Drain
<1>9. CASE SendReply
  BY <1>9, CloseQuiet DEF SendReply
<1>10. CASE MaybeAck
  BY <1>10, CloseQuiet DEF MaybeAck
<1>11. CASE Client
  BY <1>11, CloseQuiet DEF Client, ClientStart, ClientClose, ClientRecv, ClientSend, historyVars
<1>12. CASE Close
  BY <1>12, CloseQuiet DEF Close, historyVars
<1>13. CASE UNCHANGED vars
  BY <1>13, CloseQuiet DEF vars, historyVars
<1> QED
  BY <1>1, <1>2, <1>3, <1>5, <1>6, <1>7, <1>8, <1>9, <1>10, <1>11, <1>12, <1>13 DEF Next, Run

\* No call has been made.
LEMMA CloseInit == Init => CloseInv
<1>1. <<>> \in Seq(Calls)
  BY SMTT(60)
<1> QED
  BY <1>1 DEF Init, CloseInv

\* No other call is on_close().
LEMMA OtherCalls == <<"close">> \notin Calls
  BY DEF Calls

\* ClosedOnce: run() calls on_close() where it returns, whichever way, once, and
\* calls nothing after it.
THEOREM AlwaysClosedOnce == Spec => []ClosedOnce
<1>1. Init => CloseInv
  BY CloseInit
<1>2. CloseInv /\ [Next]_vars => CloseInv'
  BY CloseStep
<1>3. CloseInv => ClosedOnce
  <2> SUFFICES ASSUME CloseInv PROVE ClosedOnce
    OBVIOUS
  <2>1. CASE at = "returned"
    <3>1. PICK before, c :
            before \in Seq(Calls) /\ c = <<"close">> /\ events = Append(before, c)
      BY <2>1 DEF CloseInv
    <3>2. /\ Len(events) = Len(before) + 1 /\ DOMAIN events = 1..(Len(before) + 1)
          /\ Len(before) \in Nat /\ events[Len(before) + 1] = c
          /\ \A i \in 1..Len(before) : events[i] = before[i] /\ before[i] \in Calls
      BY <3>1, SMTT(60)
    <3>3. \A i \in DOMAIN events : events[i] = c => i = Len(events)
      <4>1. c \notin Calls
        BY <3>1, OtherCalls
      <4> QED
        BY <3>2, <4>1, SMTT(60)
    <3>4. events # <<>> /\ events[Len(events)] = c
      BY <3>2, SMTT(60)
    <3> QED
      BY <2>1, <3>1, <3>3, <3>4 DEF ClosedOnce
  <2>2. CASE at # "returned"
    <3>1. PICK c : c = <<"close">> /\ c \notin Calls
      BY OtherCalls
    <3>2. events \in Seq(Calls)
      BY <2>2 DEF CloseInv
    <3>3. \A i \in DOMAIN events : events[i] # c
      BY <3>1, <3>2, SMTT(60)
    <3>4. events # <<>> => events[Len(events)] # c
      <4>1. events # <<>> => Len(events) \in DOMAIN events
        BY <3>2, SMTT(60)
      <4> QED
        BY <3>3, <4>1
    <3> QED
      BY <2>2, <3>1, <3>3, <3>4 DEF ClosedOnce
  <2> QED
    BY <2>1, <2>2
<1> QED
  BY <1>1, <1>2, <1>3, PTL DEF Spec

-----------------------------------------------------------------------------
(* Acknowledgements.                                                       *)

ReplyNames == {"window", "bandwidth", "chunk_size", "result", "publish_start",
               "stream_begin", "play_reset", "play_start"}

AckTypes ==
    /\ last_ack \in Nat /\ last_ack <= received
    /\ dispatched \in Seq(Nat) /\ taken = Len(dispatched)
    /\ at = "reply" => taken > 0
    /\ todo \in Seq(ReplyNames)
    /\ sent \in Seq((ReplyNames \cup {"ack"}) \X Nat)

\* The count begins behind C2, and what maybe_ack() has counted is sent unless
\* the socket has been shut down.
AckInv ==
    /\ AckTypes
    /\ at \in {"handshake", "respond", "leftover"} => received = 0 /\ last_ack = 0
    /\ at = "message" => received - last_ack < kAckWindow
    /\ ~shut /\ last_ack > 0 => LatestAck(last_ack % AckRange)

\* Steps that send nothing.
LEMMA AckElsewhere ==
    ASSUME AckInv, AckTypes', UNCHANGED <<last_ack, sent>>, shut => shut',
           at' \in {"handshake", "respond", "leftover"} => received' = 0,
           at' = "message" => received' - last_ack < kAckWindow
    PROVE  AckInv'
<1>1. at' \in {"handshake", "respond", "leftover"} => last_ack' = 0
  BY SMTT(60) DEF AckInv, AckTypes
<1>2. \A n : LatestAck(n) => LatestAck(n)'
  BY DEF LatestAck
<1> QED
  BY <1>1, <1>2 DEF AckInv

\* Octets reach the reader.
LEMMA AckFeed ==
    ASSUME AckInv, received \in Nat, NEW octets \in Seq(Bytes), Feed(octets), at # "reply"
    PROVE  AckInv'
<1>1. /\ received' = received + Len(octets) /\ at' \in {"returned", "drain"}
      /\ UNCHANGED <<last_ack, taken, todo, dispatched, sent>> /\ (shut => shut')
  BY DEF Feed, Return
<1>2. Len(octets) \in Nat
  BY SMTT(60)
<1>3. last_ack' <= received'
  BY <1>1, <1>2, SMTT(60) DEF AckInv, AckTypes
<1>4. AckTypes'
  BY <1>1, <1>3 DEF AckInv, AckTypes
<1> QED
  BY <1>1, <1>4, AckElsewhere

\* A message is the octets of its number: the one that is taken is there.
LEMMA Whole ==
    ASSUME NEW len \in Nat, NEW m \in Nat \ {0}, NEW t \in Nat, t < len \div m
    PROVE  (t + 1) * m \in 1..len
<1>1. len \div m \in Nat /\ m * (len \div m) <= len
  BY SMTT(60)
<1>2. PICK d \in Nat : d = len \div m
  BY <1>1
<1>3. (t + 1) * m <= d * m /\ (t + 1) * m >= 1
  BY <1>2, SMTT(60)
<1>4. d * m = m * d /\ d * m \in Nat /\ (t + 1) * m \in Nat
  BY SMTT(60)
<1> QED
  BY <1>1, <1>2, <1>3, <1>4, SMTT(60)

\* No reply is an acknowledgement.
LEMMA RepliesTyped == \A kind : Replies(kind) \in Seq(ReplyNames)
<1>1. /\ <<"window", "bandwidth", "chunk_size", "result">> \in Seq(ReplyNames)
      /\ <<"result">> \in Seq(ReplyNames) /\ <<"publish_start">> \in Seq(ReplyNames)
      /\ <<"stream_begin", "play_reset", "play_start">> \in Seq(ReplyNames)
      /\ <<>> \in Seq(ReplyNames)
  BY SMTT(60) DEF ReplyNames
<1>2. ASSUME NEW kind PROVE Replies(kind) \in Seq(ReplyNames)
  BY <1>1 DEF Replies
<1> QED
  BY <1>2

\* The next message is dispatched.
LEMMA AckDrain == ASSUME AckInv, SessionTypes, Drain PROVE AckInv'
<1>1. PICK i : /\ i = fed[(taken + 1) * MessageLength].value
               /\ taken < Ready /\ taken' = taken + 1 /\ dispatched' = Append(dispatched, i)
               /\ todo' = Replies(messages[i]) /\ at' = "reply"
               /\ UNCHANGED <<shut, received, last_ack, sent>>
  BY DEF Drain
<1>2. AckTypes /\ fed \in Seq(Bytes) /\ Len(fed) \in Nat
  BY SMTT(60) DEF AckInv, SessionTypes
<1>3. taken \in Nat
  BY <1>2, SMTT(60) DEF AckTypes
<1>4. i \in Nat
  <2>1. (taken + 1) * MessageLength \in 1..Len(fed)
    BY <1>1, <1>2, <1>3, Whole, SessionAssumption DEF Ready
  <2>2. PICK k : k = (taken + 1) * MessageLength /\ k \in 1..Len(fed)
    BY <2>1
  <2>3. fed[k] \in Bytes
    BY <1>2, <2>2, SMTT(60)
  <2> QED
    BY <1>1, <2>2, <2>3 DEF Bytes
<1>5. dispatched' \in Seq(Nat) /\ taken' = Len(dispatched') /\ taken' > 0
  BY <1>1, <1>2, <1>3, <1>4, SMTT(60) DEF AckTypes
<1>6. todo' \in Seq(ReplyNames)
  BY <1>1, RepliesTyped
<1>7. AckTypes'
  BY <1>1, <1>2, <1>5, <1>6 DEF AckTypes
<1> QED
  BY <1>1, <1>7, AckElsewhere

\* What is sent after an acknowledgement, and is none, leaves it the latest one.
LEMMA AckSend == ASSUME AckInv, SendReply PROVE AckInv'
<1>1. /\ at = "reply" /\ todo # <<>> /\ todo' = Tail(todo)
      /\ sent' = Written(<<Head(todo), dispatched[taken]>>)
      /\ UNCHANGED <<shut, received, last_ack, at, dispatched, taken>>
  BY DEF SendReply, readerVars
<1>2. AckTypes
  BY DEF AckInv
<1>3. PICK h, x : /\ h = Head(todo) /\ x = <<h, dispatched[taken]>>
                  /\ h \in ReplyNames /\ x \in ReplyNames \X Nat /\ x[1] = h
  <2>1. Head(todo) \in ReplyNames
    BY <1>1, <1>2, SMTT(60) DEF AckTypes
  <2>2. taken \in DOMAIN dispatched
    BY <1>1, <1>2, SMTT(60) DEF AckTypes
  <2>3. dispatched[taken] \in Nat
    BY <1>2, <2>2, SMTT(60) DEF AckTypes
  <2>4. PICK h, d : h = Head(todo) /\ d = dispatched[taken] /\ h \in ReplyNames /\ d \in Nat
    BY <2>1, <2>3
  <2>5. <<h, d>> \in ReplyNames \X Nat /\ <<h, d>>[1] = h
    BY <2>4
  <2> QED
    BY <2>4, <2>5
<1>4. sent' = IF shut THEN sent ELSE Append(sent, x)
  BY <1>1, <1>3 DEF Written
<1>5. x \in (ReplyNames \cup {"ack"}) \X Nat /\ x[1] # "ack"
  BY <1>3 DEF ReplyNames
<1>6. PICK S : S = (ReplyNames \cup {"ack"}) \X Nat
  OBVIOUS
<1>7. sent \in Seq(S) /\ x \in S
  BY <1>2, <1>5, <1>6 DEF AckTypes
<1>8. AckTypes'
  <2>1. todo' \in Seq(ReplyNames)
    BY <1>1, <1>2, SMTT(60) DEF AckTypes
  <2>2. sent' \in Seq(S)
    BY <1>4, <1>7, SMTT(60)
  <2> QED
    BY <1>1, <1>2, <1>6, <2>1, <2>2 DEF AckTypes
<1>9. \A n : ~shut /\ LatestAck(n) => LatestAck(n)'
  <2> SUFFICES ASSUME NEW n, ~shut, LatestAck(n) PROVE LatestAck(n)'
    OBVIOUS
  <2>1. sent' = Append(sent, x)
    BY <1>4
  <2>2. PICK i \in DOMAIN sent : /\ sent[i] = <<"ack", n>>
                                 /\ \A j \in DOMAIN sent : j > i => sent[j][1] # "ack"
    BY DEF LatestAck
  <2>3. /\ DOMAIN sent' = 1..(Len(sent) + 1) /\ DOMAIN sent = 1..Len(sent) /\ Len(sent) \in Nat
        /\ sent'[Len(sent) + 1] = x /\ \A j \in 1..Len(sent) : sent'[j] = sent[j]
    BY <1>7, <2>1, SMTT(60)
  <2>4. i \in DOMAIN sent' /\ sent'[i] = <<"ack", n>>
    BY <2>2, <2>3, SMTT(60)
  <2>5. ASSUME NEW j \in DOMAIN sent', j > i PROVE sent'[j][1] # "ack"
    <3>1. j \in 1..Len(sent) \/ j = Len(sent) + 1
      BY <2>3, SMTT(60)
    <3> QED
      BY <1>5, <2>2, <2>3, <2>5, <3>1
  <2> QED
    BY <2>4, <2>5 DEF LatestAck
<1> QED
  BY <1>1, <1>8, <1>9 DEF AckInv

\* maybe_ack().
LEMMA AckMaybe == ASSUME AckInv, received \in Nat, MaybeAck PROVE AckInv'
<1>1. /\ last_ack' = IF AckDue THEN received ELSE last_ack
      /\ sent' = IF AckDue THEN Written(<<"ack", received % AckRange>>) ELSE sent
      /\ at' = "message"
      /\ UNCHANGED <<shut, received, taken, todo, dispatched>>
  BY DEF MaybeAck, readerVars
<1>2. AckTypes
  BY DEF AckInv
<1>3. CASE ~AckDue
  <2>1. received - last_ack < kAckWindow
    BY <1>2, <1>3, SessionAssumption, SMTT(60) DEF AckDue, AckTypes
  <2>2. AckTypes'
    BY <1>1, <1>2, <1>3 DEF AckTypes
  <2> QED
    BY <1>1, <1>3, <2>1, <2>2, AckElsewhere
<1>4. CASE AckDue
  <2>1. PICK x : x = <<"ack", received % AckRange>> /\ x \in (ReplyNames \cup {"ack"}) \X Nat
    <3>1. received % AckRange \in Nat
      BY SessionAssumption, SMTT(60)
    <3>2. <<"ack", received % AckRange>> \in (ReplyNames \cup {"ack"}) \X Nat
      BY <3>1
    <3> QED
      BY <3>2
  <2>2. sent' = IF shut THEN sent ELSE Append(sent, x)
    BY <1>1, <1>4, <2>1 DEF Written
  <2>3. PICK S : S = (ReplyNames \cup {"ack"}) \X Nat
    OBVIOUS
  <2>4. sent \in Seq(S) /\ x \in S
    BY <1>2, <2>1, <2>3 DEF AckTypes
  <2>5. AckTypes'
    <3>1. sent' \in Seq(S)
      BY <2>2, <2>4, SMTT(60)
    <3>2. last_ack' = received
      BY <1>1, <1>4
    <3> QED
      BY <1>1, <1>2, <2>3, <3>1, <3>2, SMTT(60) DEF AckTypes
  <2>6. received' - last_ack' < kAckWindow
    BY <1>1, <1>4, SessionAssumption, SMTT(60)
  <2>7. ~shut => LatestAck(received % AckRange)'
    <3> SUFFICES ASSUME ~shut PROVE LatestAck(received % AckRange)'
      OBVIOUS
    <3>1. PICK l \in Nat : l = Len(sent)
      BY <2>4, SMTT(60)
    <3>2. DOMAIN sent' = 1..(l + 1) /\ sent'[l + 1] = x
      BY <2>2, <2>4, <3>1, SMTT(60)
    <3>3. l + 1 \in DOMAIN sent' /\ \A j \in DOMAIN sent' : ~(j > l + 1)
      BY <3>2, SMTT(60)
    <3>4. (received % AckRange)' = received % AckRange
      BY <1>1
    <3> QED
      BY <2>1, <3>2, <3>3, <3>4 DEF LatestAck
  <2>8. (last_ack % AckRange)' = (received % AckRange)'
    BY <1>1, <1>4
  <2> QED
    BY <1>1, <2>5, <2>6, <2>7, <2>8 DEF AckInv
<1> QED
  BY <1>3, <1>4

\* Every step keeps AckInv.
LEMMA AckStep == ASSUME ShakeInv, AckInv, [Next]_vars PROVE AckInv'
<1>1. SessionTypes /\ received \in Nat /\ AckTypes
  BY DEF ShakeInv, SessionTypes, AckInv
<1>2. ASSUME UNCHANGED <<received, last_ack, dispatched, taken, todo, sent>>, shut => shut',
             \/ at' \in {at, "returned", "drain"}
             \/ at \in {"handshake", "respond"} /\ at' \in {"handshake", "respond", "leftover"}
             \/ at = "leftover" /\ at' = "message"
      PROVE  AckInv'
  <2>1. AckTypes'
    BY <1>1, <1>2 DEF AckTypes
  <2>2. at' \in {"handshake", "respond", "leftover"} => received' = 0
    BY <1>2 DEF AckInv
  <2>3. at' = "message" => received' - last_ack < kAckWindow
    <3>1. CASE at = "leftover"
      BY <1>2, <3>1, SessionAssumption, SMTT(60) DEF AckInv
    <3>2. CASE at # "leftover"
      BY <1>2, <3>2 DEF AckInv
    <3> QED
      BY <3>1, <3>2
  <2> QED
    BY <1>2, <2>1, <2>2, <2>3, AckElsewhere
<1>3. CASE RecvEnd
  BY <1>2, <1>3 DEF RecvEnd, Return, readerVars
<1>4. ASSUME NEW n \in DOMAIN up, RecvHandshake(n) PROVE AckInv'
  BY <1>2, <1>4 DEF RecvHandshake, Return, AfterFeed, readerVars
<1>5. CASE Respond
  BY <1>2, <1>5 DEF Respond, Return, AfterFeed, readerVars
<1>6. CASE TakeLeftover
  <2>1. PICK b \in Seq(Bytes) : b = handshake.buffer
    BY <1>1 DEF SessionTypes
  <2>2. at = "leftover" /\ (Feed(b) \/ (at' = "message"
           /\ UNCHANGED <<received, last_ack, dispatched, taken, todo, sent, shut>>))
    BY <1>6, <2>1 DEF TakeLeftover, readerVars, historyVars
  <2> QED
    BY <1>1, <1>2, <2>1, <2>2, AckFeed
<1>7. ASSUME NEW n \in DOMAIN up, RecvMessage(n) PROVE AckInv'
  <2>1. PICK u : u = up /\ u \in Seq(Bytes)
    BY <1>1 DEF SessionTypes
  <2>2. n \in 0..Len(u)
    BY <2>1, SMTT(60)
  <2>3. FirstOf(u, n) \in Seq(Bytes)
    BY <2>1, <2>2, Cut
  <2>4. at = "message" /\ Feed(FirstOf(u, n))
    BY <1>7, <2>1 DEF RecvMessage
  <2> QED
    BY <1>1, <2>3, <2>4, AckFeed
<1>8. CASE CallBack
  BY <1>2, <1>8 DEF CallBack, readerVars
<1>9. CASE Client
  BY <1>2, <1>9 DEF Client, ClientStart, ClientClose, ClientRecv, ClientSend, readerVars, historyVars
<1>10. CASE Close
  BY <1>2, <1>10 DEF Close, readerVars, historyVars
<1>11. CASE UNCHANGED vars
  BY <1>2, <1>11 DEF vars, readerVars, historyVars
<1> QED
  BY <1>1, <1>3, <1>4, <1>5, <1>6, <1>7, <1>8, <1>9, <1>10, <1>11,
     AckDrain, AckSend, AckMaybe DEF Next, Run

\* Nothing has been counted or sent.
LEMMA AckInit == Init => AckInv
<1> SUFFICES ASSUME Init PROVE AckInv
  OBVIOUS
<1>1. /\ received = 0 /\ last_ack = 0 /\ dispatched = <<>> /\ taken = 0 /\ todo = <<>>
      /\ sent = <<>> /\ at = "handshake"
  BY DEF Init
<1>2. Len(<<>>) = 0 /\ \A S : <<>> \in Seq(S)
  BY SMTT(60)
<1>3. AckTypes
  BY <1>1, <1>2, SMTT(60) DEF AckTypes
<1> QED
  BY <1>1, <1>3, SMTT(60) DEF AckInv

\* Where run() waits in recv(), it has counted all octets of messages that arrived.
LEMMA AllCounted == ASSUME ShakeInv, at = "message" PROVE received = Arrived
<1>1. /\ SessionTypes /\ UpInv /\ handshake.state = "Done" /\ handshake.buffer = <<>>
      /\ initiator.state = "Done"
  BY DEF ShakeInv, AgreeInv
<1>2. Used = 7 /\ Given = 7 /\ Len(handshake.buffer) = 0
  BY <1>1 DEF Used, Given
<1>3. PICK r \in Nat, lu \in Nat, lm \in Nat :
        r = received /\ lu = Len(up) /\ lm = Len(messages) * MessageLength
  BY <1>1, Counts
<1>4. 7 + 0 + r + lu = 7 + lm
  BY <1>1, <1>2, <1>3 DEF UpInv
<1>5. r = lm - lu
  BY <1>3, <1>4, SMTT(60)
<1> QED
  BY <1>3, <1>5 DEF Arrived

\* AckExact: whenever run() waits in recv(), it has counted every octet behind C2,
\* less than a window of them is unacknowledged, and the latest acknowledgement
\* says, in 32 bits, what the count was when it was sent.
THEOREM AlwaysAckExact == Spec => []AckExact
<1>1. Init => ShakeInv /\ AckInv
  BY ShakeInit, AckInit
<1>2. ShakeInv /\ AckInv /\ [Next]_vars => (ShakeInv /\ AckInv)'
  BY ShakeStep, AckStep
<1>3. ShakeInv /\ AckInv => AckExact
  BY AllCounted DEF AckExact, AckInv
<1> QED
  BY <1>1, <1>2, <1>3, PTL DEF Spec

-----------------------------------------------------------------------------
(* The order of dispatch.                                                  *)

\* The reader has been fed the octets behind the handshake, from the first on,
\* and what has not arrived yet follows them.
FlowInv ==
    /\ Len(fed) = received /\ Carried(conduct, 7, fed)
    /\ received > 0 => /\ handshake.state = "Done" /\ handshake.buffer = <<>>
                       /\ Carried(conduct, 7 + received, up)

\* Steps that move no octet behind the handshake.
LEMMA FlowElsewhere ==
    ASSUME FlowInv, received \in Nat, UNCHANGED <<conduct, fed, received>>,
           received > 0 => UNCHANGED <<handshake, up>>
    PROVE  FlowInv'
  BY DEF FlowInv

\* The client sends a message behind those it has sent.
LEMMA FlowSend ==
    ASSUME ShakeInv, FlowInv, NEW kind \in MessageKinds, ClientSend(kind)
    PROVE  FlowInv'
<1>1. /\ initiator.state = "Done" /\ messages' = Append(messages, kind)
      /\ up' = up \o Octets(Len(messages'))
      /\ UNCHANGED <<conduct, handshake, received, fed>>
  BY DEF ClientSend, readerVars
<1>2. SessionTypes
  BY DEF ShakeInv
<1>3. CASE received = 0
  BY <1>1, <1>3, FlowElsewhere, SMTT(60)
<1>4. CASE received > 0
  <2>1. /\ handshake.state = "Done" /\ handshake.buffer = <<>> /\ Len(handshake.buffer) = 0
        /\ Carried(conduct, 7 + received, up) /\ UpInv
    BY <1>4 DEF FlowInv, ShakeInv
  <2>2. PICK r \in Nat, lu \in Nat, lm \in Nat :
          r = received /\ lu = Len(up) /\ lm = Len(messages) * MessageLength
    BY <1>2, Counts
  <2>3. Used = 7 /\ Given = 7
    BY <1>1, <2>1 DEF Used, Given
  <2>4. 7 + 0 + r + lu = 7 + lm
    BY <2>1, <2>2, <2>3 DEF UpInv
  <2>5. (7 + r) + lu = 7 + lm /\ 7 + r \in Nat
    BY <2>2, <2>4, SMTT(60)
  <2>6. PICK u, w : /\ u = up /\ w = Octets(Len(messages')) /\ u \in Seq(Bytes)
                    /\ w \in Seq(Bytes) /\ Carried(conduct, 7 + lm, w)
    <3>1. Len(messages') = Len(messages) + 1 /\ Len(messages) \in Nat
      BY <1>1, <1>2, SMTT(60) DEF SessionTypes
    <3> QED
      BY <1>2, <2>2, <3>1, MessageOctets DEF SessionTypes
  <2>7. Carried(conduct, (7 + r) + Len(u), w) /\ Carried(conduct, 7 + r, u)
    BY <2>1, <2>2, <2>5, <2>6
  <2>8. Carried(conduct, 7 + r, u \o w)
    BY <2>5, <2>6, <2>7, CarriedOn
  <2> QED
    BY <1>1, <1>4, <2>1, <2>2, <2>6, <2>8 DEF FlowInv
<1>5. received \in Nat
  BY <1>2 DEF SessionTypes
<1> QED
  BY <1>3, <1>4, <1>5, SMTT(60)

\* The octets behind C2 reach the reader.
LEMMA FlowLeftover ==
    ASSUME ShakeInv, AckInv, FlowInv, TakeLeftover
    PROVE  FlowInv'
<1>1. /\ at = "leftover" /\ handshake' = [handshake EXCEPT !.buffer = <<>>]
      /\ UNCHANGED <<up, conduct>>
      /\ \/ /\ handshake.buffer # <<>> /\ fed' = fed \o handshake.buffer
            /\ received' = received + Len(handshake.buffer)
         \/ UNCHANGED <<fed, received>>
  BY DEF TakeLeftover, Feed, clientVars, readerVars
<1>2. SessionTypes /\ UpInv /\ AgreeInv /\ received = 0 /\ handshake.state = "Done"
  BY <1>1 DEF ShakeInv, AgreeInv, AckInv
<1>3. PICK b : b = handshake.buffer /\ b \in Seq(Bytes)
  BY <1>2 DEF SessionTypes
<1>4. /\ handshake'.state = "Done" /\ handshake'.buffer = <<>>
  BY <1>1, <1>2 DEF SessionTypes
<1>5. /\ Carried(conduct, 7, b) /\ Carried(conduct, 7 + Len(b), up)
  BY <1>2, <1>3 DEF UpInv, Used
<1>6. CASE UNCHANGED <<fed, received>>
  BY <1>1, <1>2, <1>6, FlowElsewhere, SMTT(60)
<1>7. CASE fed' = fed \o b /\ received' = received + Len(b)
  <2>1. fed = <<>>
    BY <1>2, EmptySeq DEF FlowInv, SessionTypes
  <2>2. fed' = b /\ received' = Len(b)
    BY <1>2, <1>3, <1>7, <2>1, SMTT(60)
  <2> QED
    BY <1>1, <1>4, <1>5, <2>2 DEF FlowInv
<1> QED
  BY <1>1, <1>3, <1>6, <1>7

\* recv() of the message phase.
LEMMA FlowMessage ==
    ASSUME ShakeInv, FlowInv, NEW n \in DOMAIN up, RecvMessage(n)
    PROVE  FlowInv'
<1>1. /\ at = "message" /\ up' = Drop(up, n)
      /\ received' = received + Len(FirstOf(up, n)) /\ fed' = fed \o FirstOf(up, n)
      /\ UNCHANGED <<conduct, handshake>>
  BY DEF RecvMessage, Feed, clientVars
<1>2. /\ SessionTypes /\ UpInv /\ handshake.state = "Done" /\ handshake.buffer = <<>>
      /\ received \in Nat
  BY <1>1 DEF ShakeInv, AgreeInv, SessionTypes
<1>3. PICK u, f, r, q : /\ u = up /\ f = fed /\ r = received /\ q = FirstOf(u, n)
                        /\ u \in Seq(Bytes) /\ f \in Seq(Bytes)
                        /\ r \in Nat /\ Len(f) = r /\ n \in DOMAIN u
  BY <1>2 DEF SessionTypes, FlowInv
<1>4. Carried(conduct, 7 + r, u)
  <2>1. CASE r = 0
    <3>1. Used + Len(handshake.buffer) = 7 + r
      BY <1>2, <2>1 DEF Used
    <3> QED
      BY <1>2, <1>3, <2>1, <3>1 DEF UpInv
  <2>2. CASE r > 0
    BY <1>3, <2>2 DEF FlowInv
  <2> QED
    BY <1>3, <2>1, <2>2, SMTT(60)
<1>5. /\ Len(f \o q) = r + n /\ Carried(conduct, 7, f \o q)
      /\ Carried(conduct, 7 + (r + n), Drop(u, n))
  <2>1. Carried(conduct, 7, f) /\ Carried(conduct, 7 + Len(f), u) /\ 7 \in Nat
    BY <1>3, <1>4 DEF FlowInv
  <2>2. /\ Len(f \o FirstOf(u, n)) = Len(f) + n /\ Carried(conduct, 7, f \o FirstOf(u, n))
        /\ Carried(conduct, 7 + (Len(f) + n), Drop(u, n))
    BY <1>3, <2>1, CarriedOver
  <2> QED
    BY <1>3, <2>2
<1>6. Len(q) = n
  <2>1. n \in 0..Len(u)
    BY <1>3, SMTT(60)
  <2> QED
    BY <1>3, <2>1, Cut
<1> QED
  BY <1>1, <1>2, <1>3, <1>5, <1>6 DEF FlowInv

\* Every step keeps FlowInv.
LEMMA FlowStep == ASSUME ShakeInv, AckInv, FlowInv, [Next]_vars PROVE FlowInv'
<1>1. received \in Nat
  BY DEF ShakeInv, SessionTypes
<1>2. received > 0 => initiator.state = "Done"
  BY DEF FlowInv, ShakeInv, AgreeInv
<1>3. at \in {"handshake", "respond"} => received = 0
  BY DEF AckInv
<1>4. ASSUME NEW n \in DOMAIN up, RecvHandshake(n) PROVE FlowInv'
  BY <1>1, <1>3, <1>4, FlowElsewhere, SMTT(60) DEF RecvHandshake, clientVars, readerVars
<1>5. ASSUME NEW n \in DOMAIN up, RecvMessage(n) PROVE FlowInv'
  BY <1>5, FlowMessage
<1>6. ASSUME NEW n \in DOMAIN down, ClientRecv(n) PROVE FlowInv'
  BY <1>1, <1>2, <1>6, FlowElsewhere DEF ClientRecv, readerVars
<1>7. ASSUME NEW kind \in MessageKinds, ClientSend(kind) PROVE FlowInv'
  BY <1>7, FlowSend
<1>8. CASE ClientStart
  BY <1>1, <1>2, <1>8, FlowElsewhere DEF ClientStart, readerVars
<1>9. CASE RecvEnd \/ Respond \/ Drain \/ SendReply \/ CallBack \/ MaybeAck \/ ClientClose
            \/ Close \/ UNCHANGED vars
  <2>1. UNCHANGED <<conduct, fed, received, handshake, up>>
    BY <1>9 DEF RecvEnd, Respond, Drain, SendReply, CallBack, MaybeAck, ClientClose, Close,
                vars, clientVars, readerVars
  <2> QED
    BY <1>1, <2>1, FlowElsewhere
<1> QED
  BY <1>4, <1>5, <1>6, <1>7, <1>8, <1>9, FlowLeftover DEF Next, Run, Client

\* Every reply that was sent is one to a message.
LEMMA ReplyPlace ==
    ASSUME NEW k, NoOtherReply(k), NEW j \in DOMAIN sent, sent[j][1] # "ack"
    PROVE  \E i \in 1..k, r \in Nat :
              r \in DOMAIN Replies(messages[i]) /\ Due(k, i, r) /\ IsReply(sent[j], i, r)
<1>1. PICK i, r : /\ i \in 1..k /\ r \in DOMAIN Replies(messages[i])
                  /\ Due(k, i, r) /\ IsReply(sent[j], i, r)
  BY DEF NoOtherReply
<1>2. PICK R \in Seq(ReplyNames) : R = Replies(messages[i])
  BY RepliesTyped
<1>3. r \in Nat
  BY <1>1, <1>2, SMTT(60)
<1> QED
  BY <1>1, <1>3

\* What was sent before stays, and nothing or an acknowledgement is sent.
LEMMA RepliedOn ==
    ASSUME NEW k \in Nat, Replied(k), Len(todo') = Len(todo),
           \A i \in 1..k : messages'[i] = messages[i],
           \A j \in DOMAIN sent : j \in DOMAIN sent' /\ sent'[j] = sent[j],
           \A j \in DOMAIN sent' : j \in DOMAIN sent \/ sent'[j][1] = "ack"
    PROVE  Replied(k)'
<1>1. \A i \in 1..k : Replies(messages'[i]) = Replies(messages[i])
  OBVIOUS
<1>2. \A i \in 1..k : \A a, r : IsReply(a, i, r)' <=> IsReply(a, i, r)
  BY <1>1 DEF IsReply
<1>3. \A i \in 1..k : \A r : Due(k, i, r)' <=> Due(k, i, r)
  BY <1>1 DEF Due
<1>4. RepliesSent(k) /\ NoOtherReply(k) /\ RepliesInOrder
  BY DEF Replied
<1>5. RepliesSent(k)'
  <2> SUFFICES ASSUME NEW i \in 1..k, NEW r \in DOMAIN Replies(messages[i]), Due(k, i, r)
               PROVE  \E j \in DOMAIN sent' : IsReply(sent[j], i, r)'
    BY <1>1, <1>3 DEF RepliesSent
  <2>1. PICK j \in DOMAIN sent : IsReply(sent[j], i, r)
    BY <1>4 DEF RepliesSent
  <2>2. PICK a : a = sent[j] /\ a = sent'[j] /\ j \in DOMAIN sent'
    BY <2>1
  <2>3. IsReply(a, i, r)'
    BY <1>2, <2>1, <2>2
  <2> QED
    BY <2>2, <2>3 DEF IsReply
<1>6. NoOtherReply(k)'
  <2> SUFFICES ASSUME NEW j \in DOMAIN sent', sent'[j][1] # "ack"
               PROVE  \E i \in 1..k : \E r \in DOMAIN Replies(messages[i]) :
                          Due(k, i, r)' /\ IsReply(sent[j], i, r)'
    BY <1>1 DEF NoOtherReply
  <2>1. PICK a : a = sent[j] /\ a = sent'[j] /\ j \in DOMAIN sent
    OBVIOUS
  <2>2. PICK i \in 1..k, r \in Nat : /\ r \in DOMAIN Replies(messages[i])
                                     /\ Due(k, i, r) /\ IsReply(a, i, r)
    BY <1>4, <2>1, ReplyPlace, SMTT(60)
  <2>3. Due(k, i, r)' /\ IsReply(a, i, r)'
    BY <1>2, <1>3, <2>2
  <2> QED
    BY <2>1, <2>2, <2>3 DEF IsReply
<1>7. RepliesInOrder'
  <2> SUFFICES ASSUME NEW j \in DOMAIN sent', NEW l \in DOMAIN sent', j < l,
                      sent'[j][1] # "ack", sent'[l][1] # "ack"
               PROVE  Precedes(sent[j], sent[l])'
    BY DEF RepliesInOrder
  <2>1. PICK a, b : /\ a = sent[j] /\ a = sent'[j] /\ b = sent[l] /\ b = sent'[l]
                    /\ j \in DOMAIN sent /\ l \in DOMAIN sent
    OBVIOUS
  <2>2. Precedes(a, b)
    BY <1>4, <2>1, SMTT(60) DEF RepliesInOrder
  <2>3. a[2] \in 1..k
    BY <1>4, <2>1, SMTT(60) DEF NoOtherReply, IsReply
  <2>4. Precedes(a, b)'
    <3>1. CASE a[2] < b[2]
      BY <3>1 DEF Precedes
    <3>2. CASE ~(a[2] < b[2])
      <4>1. PICK i \in 1..k : i = a[2]
        BY <2>3
      <4>2. PICK r, s : /\ r \in DOMAIN Replies(messages[i]) /\ s \in DOMAIN Replies(messages[i])
                        /\ r < s /\ IsReply(a, i, r) /\ IsReply(b, i, s)
        BY <2>2, <3>2, <4>1 DEF Precedes
      <4>3. IsReply(a, i, r)' /\ IsReply(b, i, s)'
        BY <1>2, <4>2
      <4> QED
        BY <1>1, <4>1, <4>2, <4>3 DEF Precedes
    <3> QED
      BY <3>1, <3>2
  <2> QED
    BY <2>1, <2>4, SMTT(60) DEF Precedes, IsReply
<1> QED
  BY <1>5, <1>6, <1>7 DEF Replied

\* Nothing is taken or sent.
LEMMA RepliedSame ==
    ASSUME taken \in Nat, Replied(taken), UNCHANGED <<messages, sent, todo, taken>>
    PROVE  Replied(taken)'
<1>1. PICK k \in Nat : k = taken /\ k = taken'
  OBVIOUS
<1>2. Len(todo') = Len(todo)
  OBVIOUS
<1>3. Replied(k)'
  BY <1>1, <1>2, RepliedOn
<1> QED
  BY <1>1, <1>3, SMTT(60) DEF Replied, RepliesSent, NoOtherReply, Due

\* The next message is taken: none of its replies is due yet.
LEMMA RepliedNext ==
    ASSUME NEW k \in Nat, Replied(k), todo = <<>>, todo' = Replies(messages[k + 1]),
           UNCHANGED <<messages, sent>>
    PROVE  Replied(k + 1)'
<1>1. \A i : Replies(messages[i]) \in Seq(ReplyNames)
  BY RepliesTyped
<1>2. \A a, i, r : IsReply(a, i, r)' <=> IsReply(a, i, r)
  BY DEF IsReply
<1>3. ASSUME NEW i \in 1..k, NEW r \in DOMAIN Replies(messages[i])
      PROVE  Due(k, i, r) /\ Due(k + 1, i, r)'
  <2>1. r \in Nat /\ r <= Len(Replies(messages[i])) /\ Len(todo) = 0 /\ i < k + 1
    BY <1>1, SMTT(60)
  <2> QED
    BY <2>1, SMTT(60) DEF Due
<1>4. ASSUME NEW r \in DOMAIN Replies(messages[k + 1]) PROVE ~Due(k + 1, k + 1, r)'
  <2>1. PICK n \in Nat : n = Len(Replies(messages[k + 1])) /\ n = Len(todo') /\ r \in 1..n
    BY <1>1, SMTT(60)
  <2> QED
    BY <2>1, SMTT(60) DEF Due
<1>5. RepliesSent(k + 1)'
  <2> SUFFICES ASSUME NEW i \in 1..(k + 1), NEW r \in DOMAIN Replies(messages[i]),
                      Due(k + 1, i, r)'
               PROVE  \E j \in DOMAIN sent : IsReply(sent[j], i, r)
    BY <1>2 DEF RepliesSent, IsReply
  <2>1. i \in 1..k
    BY <1>4, SMTT(60)
  <2> QED
    BY <1>3, <2>1 DEF Replied, RepliesSent
<1>6. NoOtherReply(k + 1)'
  <2> SUFFICES ASSUME NEW j \in DOMAIN sent, sent[j][1] # "ack"
               PROVE  \E i \in 1..(k + 1) : \E r \in DOMAIN Replies(messages[i]) :
                          Due(k + 1, i, r)' /\ IsReply(sent[j], i, r)
    BY DEF NoOtherReply, IsReply
  <2>1. PICK i \in 1..k, r \in Nat :
          r \in DOMAIN Replies(messages[i]) /\ IsReply(sent[j], i, r)
    BY ReplyPlace DEF Replied
  <2>2. i \in 1..(k + 1) /\ Due(k + 1, i, r)'
    BY <1>3, <2>1, SMTT(60)
  <2> QED
    BY <2>1, <2>2
<1>7. RepliesInOrder'
  BY SMTT(60) DEF Replied, RepliesInOrder, Precedes, IsReply
<1> QED
  BY <1>5, <1>6, <1>7 DEF Replied

\* The next reply to the message that was taken last is sent.
LEMMA RepliedOne ==
    ASSUME NEW k \in Nat \ {0}, Replied(k), NEW S, sent \in Seq(S),
           NEW n \in Nat, n = Len(todo), n > 0, Len(todo') = n - 1,
           NEW R, R = Replies(messages[k]), NEW m \in Nat, m = Len(R),
           NEW h \in 1..m, h + n = m + 1, NEW e \in S, e = <<R[h], k>>,
           UNCHANGED messages, sent' = Append(sent, e)
    PROVE  Replied(k)'
<1>1. R \in Seq(ReplyNames) /\ DOMAIN R = 1..m /\ \A i : Replies(messages[i]) \in Seq(ReplyNames)
  BY RepliesTyped, SMTT(60)
<1>2. h \in Nat /\ h + n = m + 1
  BY SMTT(60)
<1>3. IsReply(e, k, h) /\ e[2] = k
  BY <1>1 DEF IsReply
<1>4. \A a, i, r : IsReply(a, i, r)' <=> IsReply(a, i, r)
  BY DEF IsReply
<1>5. \A i \in 1..k : \A r \in DOMAIN Replies(messages[i]) : Due(k, i, r) => Due(k, i, r)'
  <2> SUFFICES ASSUME NEW i \in 1..k, NEW r \in DOMAIN Replies(messages[i]), Due(k, i, r)
               PROVE  Due(k, i, r)'
    OBVIOUS
  <2>1. PICK Q \in Seq(ReplyNames) : Q = Replies(messages[i])
    BY <1>1
  <2>2. r \in DOMAIN Q
    BY <2>1
  <2>3. Len(Q) \in Nat /\ r \in Nat
    BY <2>1, <2>2, SMTT(60)
  <2> QED
    BY <2>1, <2>3, SMTT(60) DEF Due
<1>6. \A r \in 1..m : /\ Due(k, k, r)' <=> r <= h
                      /\ Due(k, k, r) <=> r < h
  BY <1>2, SMTT(60) DEF Due
<1>7. PICK l \in Nat : /\ l = Len(sent) /\ DOMAIN sent = 1..l /\ DOMAIN sent' = 1..(l + 1)
                       /\ sent'[l + 1] = e /\ \A j \in 1..l : sent'[j] = sent[j]
  <2>1. PICK q \in Seq(S), l \in Nat : q = sent /\ l = Len(q) /\ DOMAIN q = 1..l
    BY SMTT(60)
  <2>2. /\ DOMAIN Append(q, e) = 1..(l + 1)
        /\ Append(q, e)[l + 1] = e /\ \A j \in 1..l : Append(q, e)[j] = q[j]
    BY <2>1, SMTT(60)
  <2> QED
    BY <2>1, <2>2
<1>8. RepliesSent(k) /\ NoOtherReply(k) /\ RepliesInOrder
  BY DEF Replied
<1>9. RepliesSent(k)'
  <2> SUFFICES ASSUME NEW i \in 1..k, NEW r \in DOMAIN Replies(messages[i]), Due(k, i, r)'
               PROVE  \E j \in DOMAIN sent' : IsReply(sent'[j], i, r)
    BY <1>4 DEF RepliesSent, IsReply
  <2>1. CASE Due(k, i, r)
    <3>1. PICK j \in DOMAIN sent : IsReply(sent[j], i, r)
      BY <1>8, <2>1 DEF RepliesSent
    <3>2. j \in DOMAIN sent' /\ sent'[j] = sent[j]
      BY <1>7, SMTT(60)
    <3> QED
      BY <3>1, <3>2
  <2>2. CASE ~Due(k, i, r)
    <3>1. i = k
      BY <2>2, SMTT(60) DEF Due
    <3>2. r = h
      <4>1. r \in 1..m /\ r <= h /\ ~(r < h)
        BY <1>1, <1>6, <2>2, <3>1
      <4> QED
        BY <4>1, SMTT(60)
    <3>3. l + 1 \in DOMAIN sent'
      BY <1>7, SMTT(60)
    <3> QED
      BY <1>3, <1>7, <3>1, <3>2, <3>3
  <2> QED
    BY <2>1, <2>2
<1>10. NoOtherReply(k)'
  <2> SUFFICES ASSUME NEW j \in DOMAIN sent', sent'[j][1] # "ack"
               PROVE  \E i \in 1..k : \E r \in DOMAIN Replies(messages[i]) :
                          Due(k, i, r)' /\ IsReply(sent'[j], i, r)
    BY DEF NoOtherReply, IsReply
  <2>1. CASE j \in 1..l
    <3>1. j \in DOMAIN sent /\ sent'[j] = sent[j]
      BY <1>7, <2>1
    <3>2. PICK i \in 1..k, r \in Nat :
            r \in DOMAIN Replies(messages[i]) /\ Due(k, i, r) /\ IsReply(sent[j], i, r)
      BY <1>8, <3>1, ReplyPlace
    <3> QED
      BY <1>5, <3>1, <3>2
  <2>2. CASE j \notin 1..l
    <3>1. sent'[j] = e /\ Due(k, k, h)' /\ k \in 1..k /\ h \in DOMAIN R
      BY <1>1, <1>2, <1>6, <1>7, <2>2, SMTT(60)
    <3> QED
      BY <1>3, <3>1
  <2> QED
    BY <2>1, <2>2
<1>11. RepliesInOrder'
  <2> SUFFICES ASSUME NEW j \in DOMAIN sent', NEW b \in DOMAIN sent', j < b,
                      sent'[j][1] # "ack", sent'[b][1] # "ack"
               PROVE  Precedes(sent[j], sent[b])'
    BY DEF RepliesInOrder
  <2>1. PICK x, y : /\ x = sent'[j] /\ y = sent'[b] /\ j \in DOMAIN sent /\ x = sent[j]
                    /\ x[1] # "ack"
    BY <1>7, SMTT(60)
  <2>2. Precedes(x, y)
    <3>1. CASE b \in 1..l
      <4>1. b \in DOMAIN sent /\ y = sent[b]
        BY <1>7, <2>1, <3>1
      <4> QED
        BY <1>8, <2>1, <4>1 DEF RepliesInOrder
    <3>2. CASE b \notin 1..l
      <4>1. y = e
        BY <1>7, <2>1, <3>2, SMTT(60)
      <4>2. PICK i \in 1..k, r \in Nat :
              r \in DOMAIN Replies(messages[i]) /\ Due(k, i, r) /\ IsReply(x, i, r)
        BY <1>8, <2>1, ReplyPlace
      <4>3. x[2] = i
        BY <4>2 DEF IsReply
      <4>4. CASE i < k
        BY <1>3, <4>1, <4>3, <4>4 DEF Precedes
      <4>5. CASE i = k
        <5>1. r < h /\ r \in DOMAIN R /\ h \in DOMAIN R
          BY <1>1, <1>2, <1>6, <4>2, <4>5
        <5> QED
          BY <1>3, <4>1, <4>2, <4>3, <4>5, <5>1 DEF Precedes
      <4> QED
        BY <4>4, <4>5, SMTT(60)
    <3> QED
      BY <3>1, <3>2
  <2>3. CASE x[2] < y[2]
    BY <2>1, <2>3 DEF Precedes
  <2>4. CASE ~(x[2] < y[2])
    <3>1. PICK i, r, s : /\ i = x[2] /\ r \in DOMAIN Replies(messages'[i])
                         /\ s \in DOMAIN Replies(messages'[i]) /\ r < s
                         /\ IsReply(x, i, r)' /\ IsReply(y, i, s)'
      BY <1>4, <2>2, <2>4 DEF Precedes
    <3>2. sent'[j][2] = i /\ IsReply(sent[j], i, r)' /\ IsReply(sent[b], i, s)'
      BY <2>1, <3>1 DEF IsReply
    <3> QED
      BY <3>1, <3>2 DEF Precedes
  <2> QED
    BY <2>3, <2>4
<1> QED
  BY <1>9, <1>10, <1>11 DEF Replied

\* No call is made.
LEMMA CalledOn ==
    ASSUME NEW k \in Nat, CalledBack(k), UNCHANGED events,
           \A i \in 1..k : messages'[i] = messages[i]
    PROVE  CalledBack(k)'
<1>1. PICK ends \in [0..k -> 0..Len(events)] :
        /\ ends[0] = 0 /\ ends[k] = Len(events)
        /\ \A i \in 1..k :
              IF Callback(messages[i]) = <<>> THEN ends[i] = ends[i - 1]
              ELSE ends[i] = ends[i - 1] + 1 /\ events[ends[i]] = Callback(messages[i])
  BY DEF CalledBack
<1>2. \A i \in 1..k : Callback(messages'[i]) = Callback(messages[i])
  OBVIOUS
<1>3. ends \in [0..k -> 0..Len(events')] /\ ends[0] = 0 /\ ends[k] = Len(events')
  BY <1>1
<1>4. \A i \in 1..k :
         IF Callback(messages'[i]) = <<>> THEN ends[i] = ends[i - 1]
         ELSE ends[i] = ends[i - 1] + 1 /\ events'[ends[i]] = Callback(messages'[i])
  BY <1>1, <1>2
<1> QED
  BY <1>3, <1>4 DEF CalledBack

\* The call of the next message is made, if there is one.
LEMMA CalledNext ==
    ASSUME NEW k \in Nat, CalledBack(k), NEW S, events \in Seq(S),
           NEW call, call = Callback(messages[k + 1]), call = <<>> \/ call \in S,
           events' = IF call = <<>> THEN events ELSE Append(events, call),
           UNCHANGED messages
    PROVE  CalledBack(k + 1)'
<1>1. PICK l \in Nat, q \in Seq(S) : q = events /\ l = Len(q)
  BY SMTT(60)
<1>2. PICK ends \in [0..k -> 0..l] :
        /\ ends[0] = 0 /\ ends[k] = l
        /\ \A i \in 1..k :
              IF Callback(messages[i]) = <<>> THEN ends[i] = ends[i - 1]
              ELSE ends[i] = ends[i - 1] + 1 /\ q[ends[i]] = Callback(messages[i])
  BY <1>1 DEF CalledBack
<1>3. PICK n \in Nat : /\ n = Len(events') /\ n = IF call = <<>> THEN l ELSE l + 1
                       /\ \A i \in 1..l : events'[i] = q[i]
                       /\ call # <<>> => events'[n] = call
  <2>1. CASE call = <<>>
    BY <1>1, <2>1
  <2>2. CASE call # <<>>
    <3>1. /\ Len(Append(q, call)) = l + 1 /\ Append(q, call)[l + 1] = call
          /\ \A i \in 1..l : Append(q, call)[i] = q[i]
      BY <1>1, <2>2, SMTT(60)
    <3>2. events' = Append(q, call)
      BY <1>1, <2>2
    <3>3. /\ Len(events') = l + 1 /\ events'[l + 1] = call
          /\ \A i \in 1..l : events'[i] = q[i]
      BY <3>1, <3>2
    <3>4. l + 1 \in Nat
      BY <1>1, SMTT(60)
    <3> QED
      BY <2>2, <3>3, <3>4
  <2> QED
    BY <2>1, <2>2
<1>4. PICK more : more = [i \in 0..(k + 1) |-> IF i \in 0..k THEN ends[i] ELSE n]
  OBVIOUS
<1>5. /\ more \in [0..(k + 1) -> 0..n] /\ more[0] = 0 /\ more[k + 1] = n
      /\ \A i \in 0..k : more[i] = ends[i]
  <2>1. l <= n
    BY <1>1, <1>3, SMTT(60)
  <2>2. \A i \in 0..k : ends[i] \in 0..n
    BY <1>1, <1>2, <2>1, SMTT(60)
  <2>3. k + 1 \notin 0..k /\ k + 1 \in 0..(k + 1) /\ 0 \in 0..k /\ \A i \in 0..k : i \in 0..(k + 1)
    BY SMTT(60)
  <2>4. \A i \in 0..(k + 1) : more[i] \in 0..n
    BY <1>4, <2>2, SMTT(60)
  <2> QED
    BY <1>2, <1>4, <2>3, <2>4
<1>6. ASSUME NEW i \in 1..(k + 1)
      PROVE  IF Callback(messages'[i]) = <<>> THEN more[i] = more[i - 1]
             ELSE more[i] = more[i - 1] + 1 /\ events'[more[i]] = Callback(messages'[i])
  <2>1. CASE i \in 1..k
    <3>1. i \in 0..k /\ i - 1 \in 0..k
      BY <2>1, SMTT(60)
    <3>2. more[i] = ends[i] /\ more[i - 1] = ends[i - 1] /\ ends[i] \in 0..l /\ ends[i - 1] \in 0..l
      BY <1>2, <1>5, <3>1
    <3>3. CASE Callback(messages[i]) = <<>>
      BY <1>2, <2>1, <3>2, <3>3
    <3>4. CASE Callback(messages[i]) # <<>>
      <4>1. ends[i] = ends[i - 1] + 1 /\ q[ends[i]] = Callback(messages[i])
        BY <1>2, <2>1, <3>4
      <4>2. ends[i] \in 1..l
        BY <1>1, <3>2, <4>1, SMTT(60)
      <4> QED
        BY <1>3, <3>2, <3>4, <4>1, <4>2
    <3> QED
      BY <3>3, <3>4
  <2>2. CASE i = k + 1
    <3>1. more[i] = n /\ more[i - 1] = l
      BY <1>2, <1>5, <2>2, SMTT(60)
    <3> QED
      BY <1>3, <2>2, <3>1
  <2>3. i \in 1..k \/ i = k + 1
    BY SMTT(60)
  <2> QED
    BY <2>1, <2>2, <2>3
<1>7. more \in [0..(k + 1) -> 0..Len(events')] /\ more[0] = 0 /\ more[k + 1] = Len(events')
  BY <1>3, <1>5
<1>8. \A i \in 1..(k + 1) :
         IF Callback(messages'[i]) = <<>> THEN more[i] = more[i - 1]
         ELSE more[i] = more[i - 1] + 1 /\ events'[more[i]] = Callback(messages'[i])
  BY <1>6
<1> QED
  BY <1>7, <1>8 DEF CalledBack

\* What is left to send are the last ones of the replies R.
RestOf(R) ==
    /\ Len(todo) <= Len(R)
    /\ \A q \in DOMAIN todo : todo[q] = R[(Len(R) - Len(todo)) + q]

\* The messages that the reader has given are the first ones.  The call of each is
\* made behind its replies, and both before the next message is taken.
DispatchInv ==
    /\ dispatched = [i \in 1..taken |-> i] /\ taken * MessageLength <= received
    /\ at = "message" => taken = Ready
    /\ at # "reply" => todo = <<>>
    /\ at \notin {"reply", "returned"} => CalledBack(taken)
    /\ at = "reply" => CalledBack(taken - 1) /\ RestOf(Replies(messages[taken]))
    /\ at # "returned" /\ ~shut => Replied(taken)

\* Messages are compared by their octets.
LEMMA Fewer ==
    ASSUME NEW a \in Nat, NEW b \in Nat, NEW m \in Nat \ {0}, a * m < (b + 1) * m
    PROVE  a <= b
<1> SUFFICES ASSUME a > b PROVE FALSE
  BY SMTT(60)
<1>1. PICK d \in Nat : a = (b + 1) + d
  BY SMTT(60)
<1>2. a * m = (b + 1) * m + d * m /\ d * m \in Nat /\ (b + 1) * m \in Nat
  BY <1>1, SMTT(60)
<1> QED
  BY <1>2, SMTT(60)

\* No message is taken that the client has not sent.
LEMMA TakenSent ==
    ASSUME ShakeInv, AckInv, DispatchInv, at # "returned"
    PROVE  taken \in Nat /\ taken <= Len(messages)
<1>1. SessionTypes /\ UpInv /\ AgreeInv
  BY DEF ShakeInv
<1>2. PICK t \in Nat, m \in Nat \ {0} : t = taken /\ m = MessageLength
  BY SessionAssumption, SMTT(60) DEF AckInv, AckTypes
<1>3. PICK lb \in Nat, lu \in Nat, r \in Nat, k \in Nat :
        lb = Len(handshake.buffer) /\ lu = Len(up) /\ r = received /\ k = Len(messages)
  BY <1>1, Counts
<1>4. t * m <= r
  BY <1>2, <1>3 DEF DispatchInv
<1>5. r <= k * m
  <2>1. CASE r = 0
    BY <1>2, <1>3, <2>1, SMTT(60)
  <2>2. CASE r # 0
    <3>1. handshake.state = "Done" /\ initiator.state = "Done"
      BY <1>1, <1>3, <2>2 DEF UpInv, AgreeInv
    <3>2. 7 + lb + r + lu = 7 + k * m
      BY <1>1, <1>2, <1>3, <3>1 DEF UpInv, Used, Given
    <3>3. PICK km \in Nat : km = k * m
      BY <1>2, <1>3, SMTT(60)
    <3> QED
      BY <1>3, <3>2, <3>3, SMTT(60)
  <2> QED
    BY <2>1, <2>2
<1>6. t * m < (k + 1) * m
  <2>1. (k + 1) * m = k * m + m /\ k * m \in Nat /\ t * m \in Nat
    BY <1>2, <1>3, SMTT(60)
  <2> QED
    BY <1>2, <1>3, <1>4, <1>5, <2>1, SMTT(60)
<1>7. t <= k
  BY <1>2, <1>3, <1>6, Fewer
<1> QED
  BY <1>2, <1>3, <1>7

\* Steps that take no message, answer none and leave run() where it is, or in the
\* handshake.
LEMMA DispatchElsewhere ==
    ASSUME DispatchInv, AckTypes, (shut => shut'),
           UNCHANGED <<dispatched, taken, todo, events, sent, fed, received>>,
           \/ at' = at
           \/ at \in {"handshake", "respond"} /\ at' \in {"handshake", "respond", "leftover"},
           at # "returned" => \A i \in 1..taken : messages'[i] = messages[i]
    PROVE  DispatchInv'
<1>1. taken \in Nat /\ (at = "reply" => taken - 1 \in Nat /\ taken \in 1..taken)
  BY SMTT(60) DEF AckTypes
<1>2. ASSUME at \notin {"reply", "returned"} PROVE CalledBack(taken)'
  <2>1. PICK k \in Nat : k = taken
    BY <1>1
  <2>2. CalledBack(k)'
    BY <1>2, <2>1, CalledOn DEF DispatchInv
  <2> QED
    BY <2>1, <2>2 DEF CalledBack
<1>3. ASSUME at = "reply" PROVE CalledBack(taken - 1)' /\ RestOf(Replies(messages[taken]))'
  <2>1. PICK k \in Nat : k = taken - 1 /\ \A i \in 1..k : i \in 1..taken
    BY <1>1, <1>3, SMTT(60)
  <2>2. CalledBack(k)'
    BY <1>3, <2>1, CalledOn DEF DispatchInv
  <2>3. messages'[taken] = messages[taken]
    BY <1>1, <1>3
  <2> QED
    BY <1>3, <2>1, <2>2, <2>3 DEF CalledBack, RestOf, DispatchInv
<1>4. ASSUME at # "returned", ~shut PROVE Replied(taken)'
  <2>1. PICK k \in Nat : k = taken
    BY <1>1
  <2>2. /\ \A j \in DOMAIN sent : j \in DOMAIN sent' /\ sent'[j] = sent[j]
        /\ \A j \in DOMAIN sent' : j \in DOMAIN sent
    OBVIOUS
  <2>3. Replied(k)'
    BY <1>4, <2>1, <2>2, RepliedOn DEF DispatchInv
  <2> QED
    BY <2>1, <2>3 DEF Replied, RepliesSent, NoOtherReply, Due
<1>5. Ready' = Ready
  BY DEF Ready
<1> QED
  BY <1>2, <1>3, <1>4, <1>5 DEF DispatchInv

\* run() returns.
LEMMA DispatchEnd ==
    ASSUME DispatchInv, AckTypes, at # "reply", at' = "returned",
           UNCHANGED <<dispatched, taken, todo>>,
           received \in Nat, received' \in Nat, received <= received'
    PROVE  DispatchInv'
<1>1. PICK t \in Nat, r \in Nat, s \in Nat : /\ t = taken * MessageLength
                                             /\ r = received /\ s = received'
  BY SessionAssumption, SMTT(60) DEF AckTypes
<1>2. t <= s
  <2>1. t <= r /\ r <= s
    BY <1>1 DEF DispatchInv
  <2> QED
    BY <1>1, <2>1, SMTT(60)
<1>3. (taken * MessageLength <= received)'
  BY <1>1, <1>2
<1> QED
  BY <1>3 DEF DispatchInv

\* Octets reach the reader.
LEMMA DispatchFeed ==
    ASSUME DispatchInv, AckTypes, received \in Nat, at \in {"leftover", "message"},
           NEW octets \in Seq(Bytes), Feed(octets)
    PROVE  DispatchInv'
<1>1. /\ received' = received + Len(octets) /\ at' \in {"returned", "drain"}
      /\ at' = "drain" => UNCHANGED <<shut, events>>
      /\ UNCHANGED <<messages, dispatched, taken, todo, sent>>
  BY DEF Feed, Return, clientVars
<1>2. received' \in Nat /\ received <= received'
  BY <1>1, SMTT(60)
<1>3. CASE at' = "returned"
  BY <1>1, <1>2, <1>3, DispatchEnd
<1>4. CASE at' = "drain"
  <2>1. PICK t \in Nat, r \in Nat, s \in Nat : /\ t = taken * MessageLength
                                               /\ r = received /\ s = received'
    BY <1>2, SessionAssumption, SMTT(60) DEF AckTypes
  <2>2. t <= s
    <3>1. t <= r /\ r <= s
      BY <1>2, <2>1 DEF DispatchInv
    <3> QED
      BY <2>1, <3>1, SMTT(60)
  <2>3. (taken * MessageLength <= received)'
    BY <1>1, <2>1, <2>2
  <2>4. CalledBack(taken)' /\ (~shut => Replied(taken)')
    <3>1. CalledBack(taken)'
      BY <1>1, <1>4 DEF DispatchInv, CalledBack
    <3>2. Replied(taken) => Replied(taken)'
      BY <1>1, RepliedSame, SMTT(60) DEF AckTypes
    <3> QED
      BY <3>1, <3>2 DEF DispatchInv
  <2> QED
    BY <1>1, <1>4, <2>3, <2>4 DEF DispatchInv
<1> QED
  BY <1>1, <1>3, <1>4

\* Nothing came behind C2.
LEMMA DispatchNothing ==
    ASSUME DispatchInv, AckTypes, FlowInv, at = "leftover", at' = "message", received = 0,
           UNCHANGED <<messages, shut, received, readerVars, todo, historyVars>>
    PROVE  DispatchInv'
<1>1. UNCHANGED <<dispatched, taken, fed, events, sent>>
  BY DEF readerVars, historyVars
<1>2. PICK t \in Nat, m \in Nat \ {0} : t = taken /\ m = MessageLength
  BY SessionAssumption, SMTT(60) DEF AckTypes
<1>3. t = 0
  <2>1. t * m < (0 + 1) * m
    BY <1>2, SMTT(60) DEF DispatchInv
  <2>2. t <= 0
    BY <1>2, <2>1, Fewer
  <2> QED
    BY <1>2, <2>2, SMTT(60)
<1>4. Ready = 0 /\ Ready' = Ready
  BY <1>1, <1>2, SMTT(60) DEF Ready, FlowInv
<1>5. CalledBack(taken)' /\ (~shut => Replied(taken)')
  <2>1. CalledBack(taken)'
    BY <1>1 DEF DispatchInv, CalledBack
  <2>2. Replied(taken) => Replied(taken)'
    BY <1>1, RepliedSame, SMTT(60) DEF AckTypes
  <2> QED
    BY <2>1, <2>2 DEF DispatchInv
<1> QED
  BY <1>1, <1>2, <1>3, <1>4, <1>5 DEF DispatchInv

\* The next message is taken.  The octets that were fed are those the client sent,
\* so that it is the next one that the client sent.
LEMMA DispatchDrain ==
    ASSUME ShakeInv, AckInv, FlowInv, DispatchInv, Drain
    PROVE  DispatchInv'
<1>1. PICK i : /\ i = fed[(taken + 1) * MessageLength].value
               /\ at = "drain" /\ taken < Ready
               /\ taken' = taken + 1 /\ dispatched' = Append(dispatched, i)
               /\ todo' = Replies(messages[i]) /\ at' = "reply"
               /\ UNCHANGED <<messages, shut, received, fed, events, sent>>
  BY DEF Drain, clientVars
<1>2. SessionTypes /\ AckTypes /\ conduct # "server"
  BY DEF ShakeInv, AckInv, SessionTypes
<1>3. PICK t \in Nat, m \in Nat \ {0}, f \in Seq(Bytes), r \in Nat :
        t = taken /\ m = MessageLength /\ f = fed /\ r = received /\ r = Len(f)
  BY <1>2, SessionAssumption, SMTT(60) DEF SessionTypes, AckTypes, FlowInv
<1>4. PICK x \in Nat : x = (t + 1) * m /\ x \in DOMAIN f /\ x <= r /\ x >= 1
  <2>1. t < r \div m
    BY <1>1, <1>3 DEF Ready
  <2>2. (t + 1) * m \in 1..r
    BY <1>3, <2>1, Whole
  <2> QED
    BY <1>3, <2>2, SMTT(60)
<1>5. i \in Nat /\ (i - 1) * m < x /\ x <= i * m
  <2>1. PICK y, o : y = 7 + x /\ y > 7 /\ y - 7 = x /\ o = f[x]
    BY <1>4, SMTT(60)
  <2>2. OctetAt(conduct, y, o)
    BY <1>3, <1>4, <2>1 DEF FlowInv, Carried
  <2>3. OfMessage(x, o)
    BY <1>2, <2>1, <2>2 DEF OctetAt
  <2> QED
    BY <1>1, <1>3, <1>4, <2>1, <2>3 DEF OfMessage
<1>6. i = t + 1
  <2>1. i # 0
    BY <1>3, <1>4, <1>5, SMTT(60)
  <2>2. PICK h \in Nat : h = i - 1 /\ i = h + 1
    BY <1>5, <2>1, SMTT(60)
  <2>3. h <= t
    <3>1. h * m < (t + 1) * m
      BY <1>4, <1>5, <2>2
    <3> QED
      BY <1>3, <2>2, <3>1, Fewer
  <2>4. t <= h
    <3>1. (t + 1) * m = t * m + m /\ t * m \in Nat /\ i * m \in Nat /\ i * m = (h + 1) * m
      BY <1>3, <1>5, <2>2, SMTT(60)
    <3>2. t * m < (h + 1) * m
      BY <1>3, <1>4, <1>5, <3>1, SMTT(60)
    <3> QED
      BY <1>3, <2>2, <3>2, Fewer
  <2> QED
    BY <1>3, <2>2, <2>3, <2>4, SMTT(60)
<1>7. dispatched' = [j \in 1..(t + 1) |-> j]
  <2>1. PICK d : d = [j \in 1..t |-> j] /\ d = dispatched
    BY <1>3 DEF DispatchInv
  <2>2. d \in Seq(Nat) /\ Len(d) = t
    BY <1>3, <2>1, SMTT(60)
  <2>3. Append(d, t + 1) = [j \in 1..(t + 1) |-> j]
    BY <1>3, <2>1, <2>2, SMTT(60)
  <2> QED
    BY <1>1, <1>6, <2>1, <2>3
<1>8. (taken * MessageLength <= received)'
  BY <1>1, <1>3, <1>4
<1>9. todo = <<>> /\ CalledBack(t) /\ (~shut => Replied(t))
  BY <1>1, <1>3 DEF DispatchInv
<1>10. CalledBack(taken - 1)'
  <2>1. CalledBack(t)'
    BY <1>1, <1>3, <1>9, CalledOn
  <2>2. taken' - 1 = t
    BY <1>1, <1>3, SMTT(60)
  <2> QED
    BY <2>1, <2>2 DEF CalledBack
<1>11. RestOf(Replies(messages[taken]))'
  <2>1. PICK R \in Seq(ReplyNames) : R = todo' /\ R = Replies(messages'[taken'])
    BY <1>1, <1>3, <1>6, RepliesTyped
  <2>2. /\ Len(R) <= Len(R) /\ \A q \in DOMAIN R : R[q] = R[(Len(R) - Len(R)) + q]
    BY <2>1, SMTT(60)
  <2> QED
    BY <2>1, <2>2 DEF RestOf
<1>12. ~shut => Replied(taken)'
  <2>1. ~shut => Replied(t + 1)'
    BY <1>1, <1>3, <1>6, <1>9, RepliedNext
  <2>2. taken' = t + 1
    BY <1>1, <1>3
  <2> QED
    BY <2>1, <2>2 DEF Replied, RepliesSent, NoOtherReply, Due
<1>13. dispatched' = [j \in 1..taken' |-> j]
  BY <1>1, <1>3, <1>7
<1> QED
  BY <1>1, <1>8, <1>10, <1>11, <1>12, <1>13 DEF DispatchInv

\* The next reply is sent.
LEMMA DispatchReply ==
    ASSUME AckInv, DispatchInv, SendReply
    PROVE  DispatchInv'
<1>1. /\ at = "reply" /\ todo # <<>> /\ todo' = Tail(todo)
      /\ sent' = Written(<<Head(todo), dispatched[taken]>>)
      /\ UNCHANGED <<messages, shut, received, at, dispatched, taken, fed, events>>
  BY DEF SendReply, clientVars, readerVars
<1>2. AckTypes /\ RestOf(Replies(messages[taken]))
  BY <1>1 DEF AckInv, DispatchInv
<1>3. PICK k \in Nat \ {0}, T \in Seq(ReplyNames), R \in Seq(ReplyNames) :
        k = taken /\ T = todo /\ R = Replies(messages[k]) /\ T # <<>>
  BY <1>1, <1>2, RepliesTyped, SMTT(60) DEF AckTypes
<1>4. PICK n \in Nat, m \in Nat : n = Len(T) /\ m = Len(R) /\ n > 0 /\ n <= m
  BY <1>2, <1>3, EmptySeq, SMTT(60) DEF RestOf
<1>5. PICK h \in 1..m : h + n = m + 1 /\ h = (m - n) + 1 /\ \A q \in 1..n : T[q] = R[(m - n) + q]
  <2>1. (m - n) + 1 \in 1..m /\ ((m - n) + 1) + n = m + 1
    BY <1>4, SMTT(60)
  <2>2. \A q \in 1..n : T[q] = R[(m - n) + q]
    BY <1>2, <1>3, <1>4, SMTT(60) DEF RestOf
  <2> QED
    BY <2>1, <2>2
<1>6. Head(T) = R[h] /\ dispatched[taken] = k
  <2>1. Head(T) = T[1] /\ 1 \in 1..n
    BY <1>3, <1>4, SMTT(60)
  <2>2. k \in 1..k
    BY <1>3, SMTT(60)
  <2> QED
    BY <1>3, <1>5, <2>1, <2>2 DEF DispatchInv
<1>7. PICK U : U = Tail(T) /\ Len(U) = n - 1 /\ U \in Seq(ReplyNames)
               /\ \A q \in 1..(n - 1) : U[q] = T[q + 1]
  <2>1. /\ Len(Tail(T)) = n - 1 /\ Tail(T) \in Seq(ReplyNames)
        /\ \A q \in 1..(n - 1) : Tail(T)[q] = T[q + 1]
    BY <1>3, <1>4, SMTT(60)
  <2> QED
    BY <2>1
<1>8. RestOf(Replies(messages[taken]))'
  <2>1. todo' = U /\ Replies(messages'[taken']) = R /\ DOMAIN U = 1..(n - 1)
    BY <1>1, <1>3, <1>7, SMTT(60)
  <2>2. n - 1 <= m
    BY <1>4, SMTT(60)
  <2>3. ASSUME NEW q \in 1..(n - 1) PROVE U[q] = R[(m - (n - 1)) + q]
    <3>1. q + 1 \in 1..n /\ (m - n) + (q + 1) = (m - (n - 1)) + q
      BY <1>4, <2>3, SMTT(60)
    <3> QED
      BY <1>5, <1>7, <3>1
  <2> QED
    BY <1>4, <1>7, <2>1, <2>2, <2>3 DEF RestOf
<1>9. ASSUME ~shut PROVE Replied(taken)'
  <2>1. PICK e, S : /\ e = <<R[h], k>> /\ S = (ReplyNames \cup {"ack"}) \X Nat /\ e \in S
    <3>1. R[h] \in ReplyNames
      BY <1>3, <1>4, SMTT(60)
    <3>2. <<R[h], k>> \in (ReplyNames \cup {"ack"}) \X Nat
      BY <1>3, <3>1
    <3> QED
      BY <3>2
  <2>2. sent \in Seq(S) /\ sent' = Append(sent, e)
    BY <1>1, <1>2, <1>3, <1>6, <1>9, <2>1 DEF Written, AckTypes
  <2>3. Replied(k) /\ n = Len(todo) /\ Len(todo') = n - 1
    BY <1>1, <1>3, <1>4, <1>7, <1>9 DEF DispatchInv
  <2>4. Replied(k)'
    <3>1. /\ k \in Nat \ {0} /\ n \in Nat /\ m \in Nat /\ h \in 1..m /\ e \in S
          /\ n > 0 /\ R = Replies(messages[k]) /\ m = Len(R) /\ h + n = m + 1
          /\ e = <<R[h], k>> /\ UNCHANGED messages
      BY <1>1, <1>3, <1>4, <1>5, <2>1
    <3> QED
      BY <2>2, <2>3, <3>1, RepliedOne
  <2> QED
    BY <1>1, <1>3, <2>4 DEF Replied, RepliesSent, NoOtherReply, Due
<1>10. CalledBack(taken - 1)' /\ Ready' = Ready
  BY <1>1 DEF DispatchInv, CalledBack, Ready
<1> QED
  BY <1>1, <1>8, <1>9, <1>10 DEF DispatchInv

\* The call is made, and run() goes on to the next message.
LEMMA DispatchCall ==
    ASSUME AckInv, CloseInv, DispatchInv, CallBack
    PROVE  DispatchInv'
<1>1. PICK call : /\ call = Callback(messages[dispatched[taken]])
                  /\ at = "reply" /\ at' = "drain" /\ todo = <<>>
                  /\ events' = IF call = <<>> THEN events ELSE Append(events, call)
                  /\ UNCHANGED <<messages, shut, received, fed, taken, todo, dispatched, sent>>
  BY DEF CallBack, clientVars, readerVars
<1>2. PICK k \in Nat : taken = k + 1
  <2>1. taken \in Nat /\ taken > 0
    BY <1>1, SMTT(60) DEF AckInv, AckTypes
  <2>2. taken - 1 \in Nat /\ taken = (taken - 1) + 1
    BY <2>1, SMTT(60)
  <2> QED
    BY <2>2
<1>3. call = Callback(messages[k + 1])
  BY <1>1, <1>2, SMTT(60) DEF DispatchInv
<1>4. call = <<>> \/ call \in Calls
  BY <1>3 DEF Callback, Calls
<1>5. events \in Seq(Calls) /\ CalledBack(k)
  <2>1. taken - 1 = k
    BY <1>2, SMTT(60)
  <2> QED
    BY <1>1, <2>1 DEF CloseInv, DispatchInv
<1>6. CalledBack(k + 1)'
  BY <1>1, <1>3, <1>4, <1>5, CalledNext
<1>7. CalledBack(taken)'
  BY <1>1, <1>2, <1>6 DEF CalledBack
<1>8. Replied(taken) => Replied(taken)'
  BY <1>1, RepliedSame, SMTT(60) DEF AckInv, AckTypes
<1> QED
  BY <1>1, <1>7, <1>8 DEF DispatchInv

\* maybe_ack(), once all messages are taken.
LEMMA DispatchAck ==
    ASSUME AckInv, DispatchInv, MaybeAck
    PROVE  DispatchInv'
<1>1. /\ at = "drain" /\ taken = Ready /\ at' = "message"
      /\ sent' = IF AckDue THEN Written(<<"ack", received % AckRange>>) ELSE sent
      /\ UNCHANGED <<messages, shut, received, fed, taken, todo, dispatched, events>>
  BY DEF MaybeAck, clientVars, readerVars
<1>2. taken \in Nat /\ AckTypes
  BY SMTT(60) DEF AckInv, AckTypes
<1>3. CalledBack(taken)' /\ Ready' = Ready
  BY <1>1 DEF DispatchInv, CalledBack, Ready
<1>4. ASSUME ~shut PROVE Replied(taken)'
  <2>1. PICK k, S : k = taken /\ k \in Nat /\ S = (ReplyNames \cup {"ack"}) \X Nat
    BY <1>2
  <2>2. PICK q \in Seq(S) : q = sent
    BY <1>2, <2>1 DEF AckTypes
  <2>3. PICK x : x = <<"ack", received % AckRange>> /\ x[1] = "ack"
    <3>1. <<"ack", received % AckRange>>[1] = "ack"
      OBVIOUS
    <3> QED
      BY <3>1
  <2>4. sent' = q \/ sent' = Append(q, x)
    BY <1>1, <2>2, <2>3 DEF Written
  <2>5. /\ \A j \in DOMAIN sent : j \in DOMAIN sent' /\ sent'[j] = sent[j]
        /\ \A j \in DOMAIN sent' : j \in DOMAIN sent \/ sent'[j][1] = "ack"
    <3>1. CASE sent' = q
      BY <2>2, <3>1
    <3>2. CASE sent' = Append(q, x)
      <4>1. /\ \A j \in DOMAIN q : j \in DOMAIN Append(q, x) /\ Append(q, x)[j] = q[j]
            /\ \A j \in DOMAIN Append(q, x) : j \in DOMAIN q \/ Append(q, x)[j] = x
        <5>1. PICK l \in Nat : l = Len(q) /\ DOMAIN q = 1..l
          BY <2>2, SMTT(60)
        <5>2. /\ DOMAIN Append(q, x) = 1..(l + 1) /\ Append(q, x)[l + 1] = x
              /\ \A j \in 1..l : Append(q, x)[j] = q[j]
          BY <2>2, <5>1, SMTT(60)
        <5> QED
          BY <5>1, <5>2, SMTT(60)
      <4> QED
        BY <2>2, <2>3, <3>2, <4>1
    <3> QED
      BY <2>4, <3>1, <3>2
  <2>6. Replied(k)'
    BY <1>1, <1>4, <2>1, <2>5, RepliedOn DEF DispatchInv
  <2> QED
    BY <1>1, <2>1, <2>6 DEF Replied, RepliesSent, NoOtherReply, Due
<1> QED
  BY <1>1, <1>3, <1>4 DEF DispatchInv

\* Every step keeps DispatchInv.
LEMMA DispatchStep ==
    ASSUME ShakeInv, CloseInv, AckInv, FlowInv, DispatchInv, [Next]_vars
    PROVE  DispatchInv'
<1>1. SessionTypes /\ AckTypes /\ received \in Nat /\ received <= received
  BY SMTT(60) DEF ShakeInv, AckInv, SessionTypes
<1>2. CASE RecvEnd
  <2>1. at # "reply" /\ at' = "returned" /\ UNCHANGED <<dispatched, taken, todo, received>>
    BY <1>2 DEF RecvEnd, Return, readerVars
  <2> QED
    BY <1>1, <2>1, DispatchEnd
<1>3. ASSUME NEW n \in DOMAIN up, RecvHandshake(n) PROVE DispatchInv'
  <2>1. /\ at = "handshake" /\ UNCHANGED <<messages, dispatched, taken, todo, received, fed, sent>>
        /\ \/ at' = "returned"
           \/ at' \in {"handshake", "respond", "leftover"} /\ UNCHANGED <<shut, events>>
    BY <1>3 DEF RecvHandshake, Return, AfterFeed, clientVars, readerVars
  <2> QED
    BY <1>1, <2>1, DispatchEnd, DispatchElsewhere, SMTT(60)
<1>4. CASE Respond
  <2>1. /\ at = "respond" /\ UNCHANGED <<messages, shut, dispatched, taken, todo, received, fed, sent>>
        /\ \/ at' = "returned"
           \/ at' \in {"handshake", "respond", "leftover"} /\ UNCHANGED events
    BY <1>4 DEF Respond, Return, AfterFeed, clientVars, readerVars
  <2> QED
    BY <1>1, <2>1, DispatchEnd, DispatchElsewhere
<1>5. CASE TakeLeftover
  <2>1. PICK b \in Seq(Bytes) : b = handshake.buffer
    BY <1>1 DEF SessionTypes
  <2>2. at = "leftover" /\ received = 0
        /\ (Feed(b) \/ (at' = "message"
             /\ UNCHANGED <<messages, shut, received, readerVars, todo, historyVars>>))
    BY <1>5, <2>1 DEF TakeLeftover, AckInv, clientVars
  <2> QED
    BY <1>1, <2>1, <2>2, DispatchFeed, DispatchNothing
<1>6. ASSUME NEW n \in DOMAIN up, RecvMessage(n) PROVE DispatchInv'
  <2>1. PICK u : u = up /\ u \in Seq(Bytes)
    BY <1>1 DEF SessionTypes
  <2>2. n \in 0..Len(u)
    BY <2>1, SMTT(60)
  <2>3. FirstOf(u, n) \in Seq(Bytes)
    BY <2>1, <2>2, Cut
  <2>4. at = "message" /\ Feed(FirstOf(u, n))
    BY <1>6, <2>1 DEF RecvMessage
  <2> QED
    BY <1>1, <2>3, <2>4, DispatchFeed
<1>7. CASE Client
  <2>1. UNCHANGED <<dispatched, taken, todo, events, sent, fed, received, at, shut>>
    BY <1>7 DEF Client, ClientStart, ClientClose, ClientRecv, ClientSend, readerVars, historyVars
  <2>2. messages' = messages \/ \E kind \in MessageKinds : messages' = Append(messages, kind)
    BY <1>7 DEF Client, ClientStart, ClientClose, ClientRecv, ClientSend
  <2>3. ASSUME at # "returned", NEW i \in 1..taken PROVE messages'[i] = messages[i]
    <3>1. i \in 1..Len(messages) /\ messages \in Seq(MessageKinds)
      BY <1>1, <2>3, TakenSent, SMTT(60) DEF SessionTypes
    <3> QED
      BY <2>2, <3>1, SMTT(60)
  <2> QED
    BY <1>1, <2>1, <2>3, DispatchElsewhere
<1>8. CASE Close \/ UNCHANGED vars
  <2>1. /\ UNCHANGED <<messages, dispatched, taken, todo, events, sent, fed, received, at>>
        /\ shut => shut'
    BY <1>8, SMTT(60) DEF Close, vars, clientVars, readerVars, historyVars
  <2> QED
    BY <1>1, <2>1, DispatchElsewhere
<1> QED
  BY <1>2, <1>3, <1>4, <1>5, <1>6, <1>7, <1>8,
     DispatchDrain, DispatchReply, DispatchCall, DispatchAck DEF Next, Run

\* DispatchExact: whenever run() waits in recv(), the messages that have arrived in
\* full, those behind C2 included, have been dispatched, each once and in the
\* order they were sent, with the callback and the replies of each before those
\* of the next.
THEOREM AlwaysDispatchExact == Spec => []DispatchExact
<1> DEFINE Inv == ShakeInv /\ CloseInv /\ AckInv /\ FlowInv /\ DispatchInv
<1>1. Init => FlowInv /\ DispatchInv
  <2> SUFFICES ASSUME Init PROVE FlowInv /\ DispatchInv
    OBVIOUS
  <2>1. /\ received = 0 /\ dispatched = <<>> /\ taken = 0 /\ todo = <<>> /\ fed = <<>>
        /\ sent = <<>> /\ events = <<>> /\ at = "handshake"
    BY DEF Init
  <2>2. FlowInv
    BY <2>1, SMTT(60) DEF FlowInv, Carried
  <2>3. CalledBack(taken)
    <3>1. PICK ends : ends = [i \in 0..0 |-> 0]
      OBVIOUS
    <3>2. ends \in [0..0 -> 0..0] /\ ends[0] = 0
      BY <3>1, SMTT(60)
    <3>3. Len(events) = 0 /\ 1..0 = {}
      BY <2>1, SMTT(60)
    <3> QED
      BY <2>1, <3>2, <3>3 DEF CalledBack
  <2>4. Replied(taken)
    BY <2>1, SMTT(60) DEF Replied, RepliesSent, NoOtherReply, RepliesInOrder
  <2>5. dispatched = [i \in 1..taken |-> i] /\ taken * MessageLength <= received
    BY <2>1, SessionAssumption, SMTT(60)
  <2> QED
    BY <2>1, <2>2, <2>3, <2>4, <2>5 DEF DispatchInv
<1>2. Init => ShakeInv /\ CloseInv /\ AckInv
  BY ShakeInit, CloseInit, AckInit
<1>3. Inv /\ [Next]_vars => Inv'
  BY ShakeStep, CloseStep, AckStep, FlowStep, DispatchStep
<1>4. Inv => DispatchExact
  <2> SUFFICES ASSUME Inv, at = "message" PROVE DispatchExact
    BY DEF DispatchExact
  <2>1. taken = Arrived \div MessageLength
    BY AllCounted DEF DispatchInv, FlowInv, Ready
  <2>2. /\ dispatched = [i \in 1..taken |-> i] /\ todo = <<>> /\ CalledBack(taken)
        /\ ~shut => Replied(taken)
    BY DEF DispatchInv
  <2> QED
    BY <2>1, <2>2 DEF DispatchExact
<1> QED
  BY <1>1, <1>2, <1>3, <1>4, PTL DEF Spec
=============================================================================
