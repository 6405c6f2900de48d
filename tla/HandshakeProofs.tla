--------------------------- MODULE HandshakeProofs ---------------------------
(***************************************************************************)
(* The handshake of ServerSession, with any fragments that TCP makes of    *)
(* its octets: the invariant ShakeInv, what the responder and the          *)
(* initiator do with their octets, and that the steps of the handshake     *)
(* phase keep the invariant.  SessionProofs has the others.                *)
(***************************************************************************)
EXTENDS ServerSession, SequenceTheorems, TLAPS

\* The provers to try, with time enough for the larger steps.
USE ZenonT(60), SMTT(60)

-----------------------------------------------------------------------------
Bytes == [kind : {"version", "time", "zero", "random", "message"}, value : Nat]

\* Octet p behind the handshake is one of the message that p falls into.
OfMessage(p, octet) ==
    /\ octet.value \in Nat
    /\ (octet.value - 1) * MessageLength < p /\ p <= octet.value * MessageLength

\* What octet k may be of those that are sent by who, which is the client's
\* conduct, or the server.
OctetAt(who, k, octet) ==
    /\ k = 1 /\ who = "wrong_version" => octet = Octet("version", 6)
    /\ k = 1 /\ who # "wrong_version" => octet = kRtmpVersion
    /\ k = 4 /\ who = "server" => octet = Octet("random", 2)
    /\ k = 4 /\ who # "server" => octet = Octet("random", 1)
    /\ k = 7 /\ who = "server" => octet = Octet("random", 1)
    /\ k = 7 /\ who = "wrong_echo" => octet = Octet("random", 0)
    /\ k = 7 /\ who \notin {"server", "wrong_echo"} => octet = Octet("random", 2)
    /\ k > 7 /\ who # "server" => OfMessage(k - 7, octet)

\* Octets that follow the first ones of a sender.
Carried(who, from, octets) ==
    \A k \in DOMAIN octets : OctetAt(who, from + k, octets[k])

\* The octets that the responder has used, and those that the client has sent.
Used  == CASE handshake.state = "WaitC0C1" -> 0
           [] handshake.state = "WaitC2"   -> 4
           [] OTHER                        -> 7
Given == CASE initiator.state = "Idle"       -> 0
           [] initiator.state = "WaitS0S1S2" -> 4
           [] OTHER                          -> 7

SessionTypes ==
    /\ conduct \in {"proper", "wrong_version", "wrong_echo"}
    /\ handshake \in [state : {"WaitC0C1", "WaitC2", "Done", "Failed"},
                      buffer : Seq(Bytes), out : Seq(Bytes)]
    /\ initiator \in [state : {"Idle", "WaitS0S1S2", "Done"},
                      buffer : Seq(Bytes), out : Seq(Bytes)]
    /\ up \in Seq(Bytes) /\ down \in Seq(Bytes) /\ fed \in Seq(Bytes)
    /\ messages \in Seq(MessageKinds)
    /\ received \in Nat

\* What is on its way to the server, and what is on its way back.
UpInv ==
    /\ Used + Len(handshake.buffer) + received + Len(up)
          = Given + Len(messages) * MessageLength
    /\ messages # <<>> => initiator.state = "Done"
    /\ handshake.state # "Done" => received = 0
    /\ received = 0 =>
          /\ Carried(conduct, Used, handshake.buffer)
          /\ Carried(conduct, Used + Len(handshake.buffer), up)

ServerInv ==
    initiator.state # "Done" =>
        /\ Carried("server", 0, initiator.buffer)
        /\ Carried("server", Len(initiator.buffer), down)

DownInv ==
    /\ handshake.state = "WaitC0C1" \/ at = "respond" =>
          initiator.state # "Done" /\ initiator.buffer = <<>> /\ down = <<>>
    /\ at = "respond" => /\ handshake.state = "WaitC2"
                         /\ Len(handshake.out) = 7 /\ Carried("server", 0, handshake.out)

AgreeInv ==
    /\ handshake.state # "WaitC0C1" => conduct # "wrong_version"
    /\ handshake.state = "Done" => conduct = "proper" /\ initiator.state = "Done"
    /\ at = "handshake" => handshake.state \in {"WaitC0C1", "WaitC2"}
    /\ at \in {"leftover", "drain", "reply", "message"} => handshake.state = "Done"
    /\ at \in {"drain", "reply", "message"} => handshake.buffer = <<>>

\* As long as the handshake has not failed, both sides agree.
ShakeInv ==
    /\ SessionTypes /\ ServerInv
    /\ handshake.state # "Failed" => UpInv /\ DownInv /\ AgreeInv
    /\ handshake.state = "Failed" => conduct # "proper" /\ at = "returned"

\* Cutting a sequence in two.
LEMMA Cut ==
    ASSUME NEW S, NEW s \in Seq(S), NEW n \in 0..Len(s)
    PROVE  /\ FirstOf(s, n) \in Seq(S) /\ Len(FirstOf(s, n)) = n
           /\ \A k \in 1..n : FirstOf(s, n)[k] = s[k]
           /\ Drop(s, n) \in Seq(S) /\ Len(Drop(s, n)) = Len(s) - n
           /\ \A k \in 1..(Len(s) - n) : Drop(s, n)[k] = s[n + k]
<1>1. /\ FirstOf(s, n) \in Seq(S) /\ Len(FirstOf(s, n)) = n
      /\ \A k \in 1..n : FirstOf(s, n)[k] = s[k]
  BY SubSeqProperties, SMTT(60) DEF FirstOf
<1>2. /\ Drop(s, n) \in Seq(S) /\ Len(Drop(s, n)) = Len(s) - n
      /\ \A k \in 1..(Len(s) - n) : Drop(s, n)[k] = s[n + k]
  BY SubSeqProperties, SMTT(60) DEF Drop
<1> QED
  BY <1>1, <1>2

\* Octets that follow others.
LEMMA CarriedOn ==
    ASSUME NEW S, NEW s \in Seq(S), NEW t \in Seq(S), NEW who, NEW from \in Nat,
           Carried(who, from, s), Carried(who, from + Len(s), t)
    PROVE  Carried(who, from, s \o t)
<1> SUFFICES ASSUME NEW k \in DOMAIN (s \o t) PROVE OctetAt(who, from + k, (s \o t)[k])
  BY DEF Carried
<1>1. /\ DOMAIN s = 1..Len(s) /\ DOMAIN t = 1..Len(t) /\ Len(s) \in Nat /\ Len(t) \in Nat
      /\ k \in 1..(Len(s) + Len(t))
  BY SMTT(60)
<1>2. CASE k \in 1..Len(s)
  <2>1. (s \o t)[k] = s[k]
    BY <1>2, SMTT(60)
  <2> QED
    BY <1>1, <1>2, <2>1 DEF Carried
<1>3. CASE k \notin 1..Len(s)
  <2>1. PICK l \in 1..Len(t) : l = k - Len(s)
    BY <1>1, <1>3, SMTT(60)
  <2>2. (s \o t)[k] = t[l]
    BY <1>1, <1>3, <2>1, SMTT(60)
  <2>3. from + k = (from + Len(s)) + l
    BY <1>1, <2>1, SMTT(60)
  <2>4. OctetAt(who, (from + Len(s)) + l, t[l])
    BY <1>1 DEF Carried
  <2> QED
    BY <2>2, <2>3, <2>4
<1> QED
  BY <1>2, <1>3

\* Octets of which the first ones are gone.
LEMMA CarriedCut ==
    ASSUME NEW S, NEW s \in Seq(S), NEW n \in 0..Len(s), NEW who, NEW from \in Nat,
           Carried(who, from, s)
    PROVE  Carried(who, from, FirstOf(s, n)) /\ Carried(who, from + n, Drop(s, n))
<1>1. PICK a, b : a = FirstOf(s, n) /\ b = Drop(s, n)
  OBVIOUS
<1>2. /\ a \in Seq(S) /\ Len(a) = n /\ \A k \in 1..n : a[k] = s[k]
      /\ b \in Seq(S) /\ Len(b) = Len(s) - n /\ \A k \in 1..(Len(s) - n) : b[k] = s[n + k]
  BY <1>1, Cut
<1>3. DOMAIN a = 1..n /\ DOMAIN b = 1..(Len(s) - n) /\ DOMAIN s = 1..Len(s) /\ Len(s) \in Nat
  BY <1>2, SMTT(60)
<1>4. Carried(who, from, a)
  BY <1>2, <1>3, SMTT(60) DEF Carried
<1>5. ASSUME NEW k \in DOMAIN b PROVE OctetAt(who, (from + n) + k, b[k])
  <2>1. n + k \in DOMAIN s /\ b[k] = s[n + k] /\ (from + n) + k = from + (n + k)
    BY <1>2, <1>3, SMTT(60)
  <2>2. OctetAt(who, from + (n + k), s[n + k])
    BY <2>1 DEF Carried
  <2> QED
    BY <2>1, <2>2
<1> QED
  BY <1>1, <1>4, <1>5 DEF Carried

\* recv(): octets go from the connection to a buffer.
LEMMA CarriedOver ==
    ASSUME NEW b \in Seq(Bytes), NEW q \in Seq(Bytes), NEW n \in DOMAIN q,
           NEW who, NEW from \in Nat,
           Carried(who, from, b), Carried(who, from + Len(b), q)
    PROVE  /\ b \o FirstOf(q, n) \in Seq(Bytes) /\ Drop(q, n) \in Seq(Bytes)
           /\ Len(b \o FirstOf(q, n)) = Len(b) + n /\ Len(Drop(q, n)) = Len(q) - n
           /\ Carried(who, from, b \o FirstOf(q, n))
           /\ Carried(who, from + (Len(b) + n), Drop(q, n))
<1>1. n \in 0..Len(q) /\ n \in Nat /\ Len(b) \in Nat
  BY SMTT(60)
<1>2. PICK a, d : a = FirstOf(q, n) /\ d = Drop(q, n)
  OBVIOUS
<1>3. a \in Seq(Bytes) /\ Len(a) = n /\ d \in Seq(Bytes) /\ Len(d) = Len(q) - n
  BY <1>1, <1>2, Cut
<1>4. PICK f \in Nat : f = from + Len(b)
  BY <1>1, SMTT(60)
<1>5. Carried(who, f, a) /\ Carried(who, f + n, d)
  BY <1>1, <1>2, <1>4, CarriedCut
<1>6. Carried(who, from, b \o a)
  BY <1>3, <1>4, <1>5, CarriedOn
<1>7. f + n = from + (Len(b) + n)
  BY <1>1, <1>4, SMTT(60)
<1>8. b \o a \in Seq(Bytes) /\ Len(b \o a) = Len(b) + n
  <2>1. Len(b \o a) = Len(b) + Len(a)
    BY <1>3, ConcatProperties
  <2> QED
    BY <1>3, <2>1, ConcatProperties
<1> QED
  BY <1>2, <1>3, <1>5, <1>6, <1>7, <1>8

Responders == [state : {"WaitC0C1", "WaitC2", "Done", "Failed"},
               buffer : Seq(Bytes), out : Seq(Bytes)]

\* The packets of the handshake.
LEMMA Packets ==
    /\ kRtmpVersion \in Bytes
    /\ ServerPacket \in Seq(Bytes) /\ Len(ServerPacket) = 3
    /\ ServerPacket[3] = Octet("random", 2)
    /\ ClientPacket \in Seq(Bytes) /\ Len(ClientPacket) = 3
    /\ ClientPacket[3] = Octet("random", 1)
<1>1. \A v \in Nat : /\ Octet("version", v) \in Bytes /\ Octet("time", v) \in Bytes
                      /\ Octet("zero", v) \in Bytes /\ Octet("random", v) \in Bytes
  BY DEF Octet, Bytes
<1>2. ASSUME NEW v \in Nat
      PROVE  /\ make_packet(v) \in Seq(Bytes) /\ Len(make_packet(v)) = 3
             /\ make_packet(v)[3] = Octet("random", v)
  <2>1. PICK a \in Bytes, b \in Bytes, c \in Bytes :
          a = Octet("time", 0) /\ b = Octet("zero", 0) /\ c = Octet("random", v)
    BY <1>1
  <2>2. make_packet(v) = <<a, b, c>>
    BY <2>1 DEF make_packet
  <2>3. <<a, b, c>> \in Seq(Bytes) /\ Len(<<a, b, c>>) = 3 /\ <<a, b, c>>[3] = c
    BY SMTT(60)
  <2> QED
    BY <2>1, <2>2, <2>3
<1> QED
  BY <1>1, <1>2 DEF kRtmpVersion, ServerPacket, ClientPacket

\* An echo keeps the random field.
LEMMA Echoed ==
    ASSUME NEW c \in Seq(Bytes), Len(c) = 3
    PROVE  make_echo(c) \in Seq(Bytes) /\ Len(make_echo(c)) = 3 /\ make_echo(c)[3] = c[3]
<1>1. PICK z \in Bytes : z = Octet("zero", 0)
  BY DEF Octet, Bytes
<1>2. make_echo(c) = [c EXCEPT ![2] = z]
  BY <1>1 DEF make_echo
<1>3. [c EXCEPT ![2] = z] \in Seq(Bytes)
  BY ExceptSeq, SMTT(60)
<1> QED
  BY <1>2, <1>3, ExceptSeq, SMTT(60)

\* A version and two packets.
LEMMA Flight ==
    ASSUME NEW v \in Bytes, NEW s \in Seq(Bytes), NEW t \in Seq(Bytes), Len(s) = 3, Len(t) = 3
    PROVE  LET f == <<v>> \o s \o t
           IN  f \in Seq(Bytes) /\ Len(f) = 7 /\ f[1] = v /\ f[4] = s[3] /\ f[7] = t[3]
<1>1. PICK h : h = <<v>> \o s
  OBVIOUS
<1>2. h \in Seq(Bytes) /\ Len(h) = 4 /\ h[1] = v /\ h[4] = s[3]
  <2>1. PICK u : u = <<v>> /\ u \in Seq(Bytes) /\ Len(u) = 1 /\ u[1] = v
    <3>1. <<v>> \in Seq(Bytes) /\ Len(<<v>>) = 1 /\ <<v>>[1] = v
      BY SMTT(60)
    <3> QED
      BY <3>1
  <2>2. h = u \o s
    BY <1>1, <2>1
  <2>3. /\ h \in Seq(Bytes) /\ Len(h) = Len(u) + Len(s)
        /\ \A i \in 1..(Len(u) + Len(s)) : h[i] = IF i <= Len(u) THEN u[i] ELSE s[i - Len(u)]
    BY <2>1, <2>2, ConcatProperties
  <2> QED
    BY <2>1, <2>3, SMTT(60)
<1>3. h \o t \in Seq(Bytes) /\ Len(h \o t) = 7 /\ (h \o t)[1] = v /\ (h \o t)[4] = s[3]
      /\ (h \o t)[7] = t[3]
  <2>1. /\ h \o t \in Seq(Bytes) /\ Len(h \o t) = Len(h) + Len(t)
        /\ \A i \in 1..(Len(h) + Len(t)) :
              (h \o t)[i] = IF i <= Len(h) THEN h[i] ELSE t[i - Len(h)]
    BY <1>2, ConcatProperties
  <2> HIDE <1>1
  <2> QED
    BY <1>2, <2>1, SMTT(60)
<1> QED
  BY <1>1, <1>3

\* The second to fourth of four octets.
LEMMA SecondPacket ==
    ASSUME NEW b \in Seq(Bytes), Len(b) >= 4
    PROVE  SubSeq(b, 2, 4) \in Seq(Bytes) /\ Len(SubSeq(b, 2, 4)) = 3 /\ SubSeq(b, 2, 4)[3] = b[4]
<1>1. \A i \in 2..4 : b[i] \in Bytes
  BY SMTT(60)
<1> QED
  BY <1>1, SubSeqProperties, SMTT(60)

\* feed() while C0 and C1 are missing, when nothing can follow them yet.
LEMMA FeedC0C1 ==
    ASSUME NEW p \in Responders, NEW b \in Seq(Bytes), NEW who,
           p.state = "WaitC0C1", p.buffer = b, p.out = <<>>, Len(b) \in 1..4,
           who \in {"proper", "wrong_version", "wrong_echo"}, Carried(who, 0, b)
    PROVE  LET q == TakeC2(TakeC0C1(p))
           IN  /\ q \in Responders
               /\ \/ q.state = "Failed" /\ who = "wrong_version"
                  \/ /\ q.state = "WaitC0C1" /\ q.buffer = b /\ q.out = <<>>
                     /\ who # "wrong_version"
                  \/ /\ q.state = "WaitC2" /\ q.buffer = <<>> /\ Len(b) = 4
                     /\ Len(q.out) = 7 /\ Carried("server", 0, q.out)
                     /\ who # "wrong_version"
<1>3. b # <<>> /\ 1 \in DOMAIN b /\ b[1] \in Bytes
  BY SMTT(60)
<1>4. b[1] = IF who = "wrong_version" THEN Octet("version", 6) ELSE kRtmpVersion
  BY <1>3, SMTT(60) DEF Carried, OctetAt
<1>5. Octet("version", 6) # kRtmpVersion
  BY SMTT(60) DEF Octet, kRtmpVersion
<1>6. CASE who = "wrong_version"
  <2>1. TakeC0C1(p) = [p EXCEPT !.state = "Failed"]
    BY <1>3, <1>4, <1>5, <1>6 DEF TakeC0C1
  <2>2. TakeC0C1(p) \in Responders /\ TakeC0C1(p).state = "Failed"
    BY <2>1 DEF Responders
  <2>3. TakeC2(TakeC0C1(p)) = TakeC0C1(p)
    BY <2>2 DEF TakeC2
  <2> QED
    BY <1>6, <2>2, <2>3
<1>7. CASE who # "wrong_version" /\ Len(b) < 4
  <2>1. TakeC0C1(p) = p
    BY <1>3, <1>4, <1>7, SMTT(60) DEF TakeC0C1, kHandshakePacketSize
  <2>2. TakeC2(p) = p
    BY DEF TakeC2
  <2> QED
    BY <1>7, <2>1, <2>2
<1>8. CASE who # "wrong_version" /\ Len(b) = 4
  <2>1. PICK c1 : c1 = SubSeq(b, 2, 4)
    OBVIOUS
  <2>2. c1 \in Seq(Bytes) /\ Len(c1) = 3 /\ c1[3] = Octet("random", 1)
    <3>1. c1 \in Seq(Bytes) /\ Len(c1) = 3 /\ c1[3] = b[4]
      BY <1>8, <2>1, SecondPacket, SMTT(60)
    <3>2. b[4] = Octet("random", 1)
      <4>1. 4 \in DOMAIN b /\ 0 + 4 = 4
        BY <1>8, SMTT(60)
      <4>2. OctetAt(who, 4, b[4])
        BY <4>1 DEF Carried
      <4> QED
        BY <4>2 DEF OctetAt
    <3> QED
      BY <3>1, <3>2
  <2>3. PICK out : out = <<kRtmpVersion>> \o ServerPacket \o make_echo(c1)
    OBVIOUS
  <2>4. /\ out \in Seq(Bytes) /\ Len(out) = 7
        /\ out[1] = kRtmpVersion /\ out[4] = Octet("random", 2) /\ out[7] = Octet("random", 1)
    <3>1. PICK s2 : s2 = make_echo(c1)
      OBVIOUS
    <3>2. s2 \in Seq(Bytes) /\ Len(s2) = 3 /\ s2[3] = Octet("random", 1)
      BY <2>2, <3>1, Echoed
    <3> QED
      BY <2>3, <3>1, <3>2, Packets, Flight, SMTT(60)
  <2>5. Carried("server", 0, out)
    BY <2>4, SMTT(60) DEF Carried, OctetAt
  <2>6. Drop(b, 4) = <<>>
    BY <1>8, SubSeqEmpty, SMTT(60) DEF Drop
  <2>7. TakeC0C1(p) = [state |-> "WaitC2", buffer |-> <<>>, out |-> out]
    <3>1. SubSeq(b, 2, 1 + 3) = c1
      BY <2>1, SMTT(60)
    <3>2. /\ ~(p.state # "WaitC0C1" \/ p.buffer = <<>>) /\ ~(p.buffer[1] # kRtmpVersion)
          /\ ~(Len(p.buffer) < 1 + 3) /\ Drop(p.buffer, 1 + 3) = <<>>
      BY <1>3, <1>4, <1>8, <2>6, SMTT(60)
    <3> QED
      BY <2>3, <3>1, <3>2 DEF TakeC0C1, kHandshakePacketSize
  <2>8. TakeC2(TakeC0C1(p)) = TakeC0C1(p)
    BY <2>7, SMTT(60) DEF TakeC2, kHandshakePacketSize
  <2>9. <<>> \in Seq(Bytes)
    BY SMTT(60)
  <2> QED
    BY <1>8, <2>4, <2>5, <2>7, <2>8, <2>9, SMTT(60) DEF Responders
<1>9. Len(b) < 4 \/ Len(b) = 4
  <2>1. \A l \in 1..4 : l < 4 \/ l = 4
    BY SMTT(60)
  <2> QED
    BY <2>1
<1> QED
  BY <1>6, <1>7, <1>8, <1>9

\* feed() while C2 is missing.
LEMMA FeedC2 ==
    ASSUME NEW p \in Responders, NEW b \in Seq(Bytes), NEW who,
           p.state = "WaitC2", p.buffer = b, p.out = <<>>,
           who \in {"proper", "wrong_echo"}, Carried(who, 4, b)
    PROVE  LET q == TakeC2(TakeC0C1(p))
           IN  /\ q \in Responders
               /\ \/ q.state = "Failed" /\ who = "wrong_echo"
                  \/ q.state = "WaitC2" /\ q.buffer = b /\ q.out = <<>>
                  \/ /\ q.state = "Done" /\ Len(b) >= 3 /\ q.buffer = Drop(b, 3)
                     /\ q.out = <<>> /\ who = "proper"
<1>3. TakeC0C1(p) = p
  BY DEF TakeC0C1
<1>4. CASE Len(b) < 3
  <2>1. TakeC2(p) = p
    BY <1>4 DEF TakeC2, kHandshakePacketSize
  <2> QED
    BY <1>3, <2>1
<1>5. CASE Len(b) >= 3
  <2>1. b[3] = IF who = "wrong_echo" THEN Octet("random", 0) ELSE Octet("random", 2)
    BY <1>5, SMTT(60) DEF Carried, OctetAt
  <2>2. random_matches(b, ServerPacket) <=> who # "wrong_echo"
    BY <2>1, SMTT(60) DEF random_matches, ServerPacket, make_packet, Octet
  <2>3. TakeC2(p) = IF who = "wrong_echo" THEN [p EXCEPT !.state = "Failed"]
                    ELSE [p EXCEPT !.state = "Done", !.buffer = Drop(b, 3)]
    BY <1>5, <2>2, SMTT(60) DEF TakeC2, kHandshakePacketSize
  <2>4. Drop(b, 3) \in Seq(Bytes)
    BY <1>5, Cut, SMTT(60)
  <2> QED
    BY <1>3, <1>5, <2>3, <2>4 DEF Responders
<1> QED
  BY <1>4, <1>5, SMTT(60)

\* Octets reach the responder.
LEMMA ShakeHandshake ==
    ASSUME ShakeInv, NEW n \in DOMAIN up, RecvHandshake(n)
    PROVE  ShakeInv'
<1>1. /\ at = "handshake" /\ up' = Drop(up, n)
      /\ handshake' = ResponderFeed(handshake, FirstOf(up, n))
      /\ UNCHANGED <<clientVars, down, received, last_ack, closing, readerVars>>
      /\ IF handshake'.state = "Failed" THEN at' = "returned"
         ELSE at' = IF handshake'.out # <<>> THEN "respond" ELSE AfterFeed(handshake')
  BY DEF RecvHandshake, Return
<1>2. SessionTypes /\ handshake.state # "Failed" /\ UpInv /\ DownInv /\ AgreeInv
  BY <1>1 DEF ShakeInv, AgreeInv
<1>3. handshake.state \in {"WaitC0C1", "WaitC2"} /\ handshake \in Responders
  BY <1>1, <1>2 DEF AgreeInv, SessionTypes, Responders
<1>4. PICK b, q, used : /\ b = handshake.buffer \o FirstOf(up, n) /\ q = Drop(up, n)
                        /\ used = Used /\ used \in {0, 4}
  BY <1>3 DEF Used
<1>5. /\ b \in Seq(Bytes) /\ q \in Seq(Bytes)
      /\ Len(b) = Len(handshake.buffer) + n /\ Len(q) = Len(up) - n
      /\ Carried(conduct, used, b) /\ Carried(conduct, used + Len(b), q)
      /\ Len(b) \in Nat /\ Len(b) >= 1
  <2>1. PICK o, u, f : /\ o = handshake.buffer /\ u = up /\ f = used
                       /\ o \in Seq(Bytes) /\ u \in Seq(Bytes) /\ f \in Nat /\ n \in DOMAIN u
    BY <1>2, <1>4 DEF SessionTypes
  <2>2. PICK c : c = conduct /\ Carried(c, f, o) /\ Carried(c, f + Len(o), u)
    BY <1>2, <1>3, <1>4, <2>1 DEF UpInv
  <2>3. /\ o \o FirstOf(u, n) \in Seq(Bytes) /\ Drop(u, n) \in Seq(Bytes)
        /\ Len(o \o FirstOf(u, n)) = Len(o) + n /\ Len(Drop(u, n)) = Len(u) - n
        /\ Carried(c, f, o \o FirstOf(u, n))
        /\ Carried(c, f + (Len(o) + n), Drop(u, n))
    <3>1. o \in Seq(Bytes) /\ u \in Seq(Bytes) /\ f \in Nat /\ n \in DOMAIN u
      BY <2>1
    <3>2. Carried(c, f, o) /\ Carried(c, f + Len(o), u)
      BY <2>2
    <3> QED
      BY <3>1, <3>2, CarriedOver
  <2>4. b = o \o FirstOf(u, n) /\ q = Drop(u, n)
    BY <1>4, <2>1
  <2>5. Len(o) \in Nat /\ n \in Nat /\ n >= 1
    BY <2>1, SMTT(60)
  <2>6. /\ b \in Seq(Bytes) /\ q \in Seq(Bytes)
        /\ Len(b) = Len(o) + n /\ Len(q) = Len(u) - n
        /\ Carried(c, f, b) /\ Carried(c, f + Len(b), q)
    BY <2>3, <2>4
  <2> QED
    BY <2>1, <2>2, <2>5, <2>6, SMTT(60)
<1>l. PICK lb \in Nat, lq \in Nat : lb = Len(b) /\ lq = Len(q) /\ lb >= 1
  BY <1>5, SMTT(60)
<1>6. PICK p : p = [handshake EXCEPT !.buffer = @ \o FirstOf(up, n), !.out = <<>>]
  OBVIOUS
<1>7. /\ handshake' = TakeC2(TakeC0C1(p))
      /\ p \in Responders /\ p.state = handshake.state /\ p.buffer = b /\ p.out = <<>>
  <2>1. handshake' = TakeC2(TakeC0C1(p))
    BY <1>1, <1>2, <1>6 DEF ResponderFeed
  <2>2. p = [handshake EXCEPT !.buffer = b, !.out = <<>>]
    BY <1>4, <1>6
  <2>3. <<>> \in Seq(Bytes)
    BY SMTT(60)
  <2> QED
    BY <1>3, <1>5, <2>1, <2>2, <2>3 DEF Responders
<1>8. PICK total \in Nat :
         /\ total = Given + Len(messages) * MessageLength
         /\ used + lb + lq = total
         /\ initiator.state # "Done" => total <= 4
         /\ received = 0
  <2>1. /\ Used + Len(handshake.buffer) + received + Len(up)
              = Given + Len(messages) * MessageLength
        /\ messages # <<>> => initiator.state = "Done"
        /\ received = 0
    BY <1>2, <1>3 DEF UpInv
  <2>2. /\ Len(messages) \in Nat /\ MessageLength \in Nat /\ Len(up) \in Nat
        /\ Len(handshake.buffer) \in Nat /\ n \in Nat
    BY <1>2, SessionAssumption, SMTT(60) DEF SessionTypes
  <2>3. Given \in {0, 4, 7} /\ (initiator.state # "Done" => Given <= 4)
    BY <1>2, SMTT(60) DEF Given, SessionTypes
  <2>4. PICK m : m = Len(messages) * MessageLength
    OBVIOUS
  <2>5. m \in Nat
    BY <2>2, <2>4, SMTT(60)
  <2>6. initiator.state # "Done" => m = 0
    <3>1. initiator.state # "Done" => Len(messages) = 0
      BY <2>1, <2>2, SMTT(60)
    <3> QED
      BY <2>2, <2>4, <3>1, SMTT(60)
  <2>7. used + lb + lq = Given + m
    <3>1. PICK lh, lu, g : lh = Len(handshake.buffer) /\ lu = Len(up) /\ g = Given
      OBVIOUS
    <3>2. lb = lh + n /\ lq = lu - n /\ lh \in Nat /\ lu \in Nat /\ g \in {0, 4, 7}
      BY <1>5, <1>l, <2>2, <2>3, <3>1
    <3>3. used + lh + 0 + lu = g + m
      BY <1>4, <2>1, <2>4, <3>1
    <3>4. used + lb + lq = g + m
      <4>1. used \in Nat /\ n \in Nat
        BY <1>4, <2>2, SMTT(60)
      <4> QED
        BY <2>5, <3>2, <3>3, <4>1, SMTT(60)
    <3> QED
      BY <3>1, <3>4
  <2> QED
    BY <2>1, <2>3, <2>4, <2>5, <2>6, <2>7, SMTT(60)
<1>9. /\ conduct' = conduct /\ initiator' = initiator /\ messages' = messages
      /\ down' = down /\ received' = received /\ fed' = fed /\ up' = q
      /\ total = (Given + Len(messages) * MessageLength)'
  BY <1>1, <1>4, <1>8 DEF clientVars, readerVars, Given
<1>10. ASSUME handshake' \in Responders PROVE SessionTypes' /\ ServerInv'
  <2>1. SessionTypes'
    BY <1>2, <1>5, <1>9, <1>10 DEF SessionTypes, Responders
  <2>2. ServerInv'
    BY <1>9 DEF ShakeInv, ServerInv
  <2> QED
    BY <2>1, <2>2
<1>11. conduct \in {"proper", "wrong_version", "wrong_echo"}
  BY <1>2 DEF SessionTypes
<1>12. CASE handshake.state = "WaitC0C1"
  <2>1. /\ used = 0 /\ initiator.state # "Done" /\ down = <<>> /\ initiator.buffer = <<>>
    BY <1>2, <1>4, <1>12 DEF Used, DownInv
  <2>2. lb \in 1..4 /\ (lb = 4 => lq = 0)
    BY <1>l, <1>8, <2>1, SMTT(60)
  <2>3. LET r == TakeC2(TakeC0C1(p))
        IN  /\ r \in Responders
            /\ \/ r.state = "Failed" /\ conduct = "wrong_version"
               \/ /\ r.state = "WaitC0C1" /\ r.buffer = b /\ r.out = <<>>
                  /\ conduct # "wrong_version"
               \/ /\ r.state = "WaitC2" /\ r.buffer = <<>> /\ Len(b) = 4
                  /\ Len(r.out) = 7 /\ Carried("server", 0, r.out)
                  /\ conduct # "wrong_version"
    <3>1. Len(b) \in 1..4 /\ b \in Seq(Bytes) /\ Carried(conduct, 0, b)
      BY <1>5, <1>l, <2>1, <2>2
    <3> QED
      BY <1>7, <1>11, <1>12, <3>1, FeedC0C1
  <2>4. PICK r : r = handshake' /\ r = TakeC2(TakeC0C1(p)) /\ r \in Responders
    BY <1>7, <2>3
  <2>5. SessionTypes' /\ ServerInv'
    BY <1>10, <2>4
  <2>6. CASE r.state = "Failed" /\ conduct = "wrong_version"
    BY <1>1, <1>9, <2>4, <2>5, <2>6 DEF ShakeInv
  <2>7. CASE r.state = "WaitC0C1" /\ r.buffer = b /\ r.out = <<>> /\ conduct # "wrong_version"
    <3>1. at' = "handshake" /\ Used' = 0
      BY <1>1, <2>4, <2>7 DEF AfterFeed, Used
    <3>2. UpInv'
      <4>1. used + Len(b) + received + Len(q) = total
        BY <1>l, <1>8, <2>1, SMTT(60)
      <4> QED
        BY <1>2, <1>5, <1>8, <1>9, <2>1, <2>4, <2>7, <3>1, <4>1 DEF UpInv
    <3>3. DownInv'
      BY <1>9, <2>1, <3>1 DEF DownInv
    <3>4. AgreeInv'
      BY <2>4, <2>7, <3>1 DEF AgreeInv
    <3> QED
      BY <2>4, <2>5, <2>7, <3>2, <3>3, <3>4 DEF ShakeInv
  <2>8. CASE /\ r.state = "WaitC2" /\ r.buffer = <<>> /\ Len(b) = 4
             /\ Len(r.out) = 7 /\ Carried("server", 0, r.out)
             /\ conduct # "wrong_version"
    <3>1. r.out # <<>>
      <4>1. Len(<<>>) # 7
        BY SMTT(60)
      <4> QED
        BY <2>8, <4>1
    <3>2. at' = "respond" /\ Used' = 4
      BY <1>1, <2>4, <2>8, <3>1 DEF AfterFeed, Used
    <3>3. UpInv'
      <4>1. Len(<<>>) = 0 /\ DOMAIN <<>> = {}
        BY SMTT(60)
      <4>2. Carried(conduct, 4, <<>>)
        BY <4>1 DEF Carried
      <4>3. Carried(conduct, 4 + Len(<<>>), q)
        <5>1. 0 + Len(b) = 4 + Len(<<>>)
          BY <2>8, <4>1, SMTT(60)
        <5>2. Carried(conduct, 0 + Len(b), q)
          BY <1>5, <2>1
        <5> QED
          BY <5>1, <5>2
      <4>4. 4 + Len(<<>>) + received + Len(q) = total
        BY <1>l, <1>8, <2>1, <2>8, <4>1, SMTT(60)
      <4> QED
        BY <1>2, <1>8, <1>9, <2>4, <2>8, <3>2, <4>2, <4>3, <4>4 DEF UpInv
    <3>4. DownInv'
      BY <1>9, <2>1, <2>4, <2>8, <3>2 DEF DownInv
    <3>5. AgreeInv'
      BY <1>9, <2>4, <2>8, <3>2 DEF AgreeInv
    <3> QED
      BY <2>4, <2>5, <2>8, <3>3, <3>4, <3>5 DEF ShakeInv
  <2> QED
    BY <2>3, <2>4, <2>6, <2>7, <2>8
<1>13. CASE handshake.state = "WaitC2"
  <2>1. used = 4 /\ conduct \in {"proper", "wrong_echo"}
    BY <1>2, <1>4, <1>11, <1>13 DEF Used, AgreeInv
  <2>3. LET r == TakeC2(TakeC0C1(p))
        IN  /\ r \in Responders
            /\ \/ r.state = "Failed" /\ conduct = "wrong_echo"
               \/ r.state = "WaitC2" /\ r.buffer = b /\ r.out = <<>>
               \/ /\ r.state = "Done" /\ Len(b) >= 3 /\ r.buffer = Drop(b, 3)
                  /\ r.out = <<>> /\ conduct = "proper"
    BY <1>5, <1>7, <1>13, <2>1, FeedC2
  <2>4. PICK r : r = handshake' /\ r = TakeC2(TakeC0C1(p)) /\ r \in Responders
    BY <1>7, <2>3
  <2>5. SessionTypes' /\ ServerInv'
    BY <1>10, <2>4
  <2>6. CASE r.state = "Failed" /\ conduct = "wrong_echo"
    BY <1>1, <1>9, <2>4, <2>5, <2>6 DEF ShakeInv
  <2>7. CASE r.state = "WaitC2" /\ r.buffer = b /\ r.out = <<>>
    <3>1. at' = "handshake" /\ Used' = 4
      BY <1>1, <2>4, <2>7 DEF AfterFeed, Used
    <3>2. UpInv'
      <4>1. used + Len(b) + received + Len(q) = total
        BY <1>l, <1>8, <2>1, SMTT(60)
      <4> QED
        BY <1>2, <1>5, <1>8, <1>9, <2>1, <2>4, <2>7, <3>1, <4>1 DEF UpInv
    <3>3. DownInv'
      BY <1>9, <2>4, <2>7, <3>1 DEF DownInv
    <3>4. AgreeInv'
      BY <1>9, <2>1, <2>4, <2>7, <3>1 DEF AgreeInv
    <3> QED
      BY <2>4, <2>5, <2>7, <3>2, <3>3, <3>4 DEF ShakeInv
  <2>8. CASE /\ r.state = "Done" /\ Len(b) >= 3 /\ r.buffer = Drop(b, 3)
             /\ r.out = <<>> /\ conduct = "proper"
    <3>1. at' = "leftover" /\ Used' = 7
      BY <1>1, <2>4, <2>8 DEF AfterFeed, Used
    <3>2. lb >= 3 /\ Len(Drop(b, 3)) = lb - 3
      <4>1. b \in Seq(Bytes) /\ lb >= 3 /\ 3 \in 0..Len(b)
        BY <1>5, <1>l, <2>8, SMTT(60)
      <4>2. Len(Drop(b, 3)) = Len(b) - 3
        BY <4>1, Cut
      <4> QED
        BY <1>l, <4>1, <4>2
    <3>3. initiator.state = "Done"
      BY <1>8, <1>l, <2>1, <3>2, SMTT(60)
    <3>4. UpInv'
      <4>1. 7 + Len(Drop(b, 3)) + received + Len(q) = total
        BY <1>l, <1>8, <2>1, <3>2, SMTT(60)
      <4>2. Carried(conduct, 7, Drop(b, 3))
        <5>1. b \in Seq(Bytes) /\ 3 \in 0..Len(b) /\ 4 \in Nat /\ Carried(conduct, 4, b)
          BY <1>5, <1>l, <2>1, <3>2, SMTT(60)
        <5>2. Carried(conduct, 4 + 3, Drop(b, 3))
          BY <5>1, CarriedCut
        <5> QED
          BY <5>2, SMTT(60)
      <4>3. Carried(conduct, 7 + Len(Drop(b, 3)), q)
        <5>1. 4 + Len(b) = 7 + Len(Drop(b, 3))
          BY <1>l, <3>2, SMTT(60)
        <5>2. Carried(conduct, 4 + Len(b), q)
          BY <1>5, <2>1
        <5> QED
          BY <5>1, <5>2
      <4> QED
        BY <1>9, <2>4, <2>8, <3>1, <3>3, <4>1, <4>2, <4>3 DEF UpInv
    <3>5. DownInv'
      BY <1>9, <2>4, <2>8, <3>1, <3>3 DEF DownInv
    <3>6. AgreeInv'
      BY <1>9, <2>4, <2>8, <3>1, <3>3 DEF AgreeInv
    <3> QED
      BY <2>4, <2>5, <2>8, <3>4, <3>5, <3>6 DEF ShakeInv
  <2> QED
    BY <2>3, <2>4, <2>6, <2>7, <2>8
<1> QED
  BY <1>3, <1>12, <1>13

\* Everything is empty at first.
LEMMA ShakeInit == Init => ShakeInv
<1> SUFFICES ASSUME Init PROVE ShakeInv
  OBVIOUS
<1>1. /\ handshake = [state |-> "WaitC0C1", buffer |-> <<>>, out |-> <<>>]
      /\ initiator = [state |-> "Idle", buffer |-> <<>>, out |-> <<>>]
      /\ conduct \in {"proper", "wrong_version", "wrong_echo"}
      /\ messages = <<>> /\ up = <<>> /\ down = <<>> /\ fed = <<>>
      /\ received = 0 /\ at = "handshake"
  BY DEF Init, NewResponder, NewInitiator
<1>2. Len(<<>>) = 0 /\ DOMAIN <<>> = {} /\ <<>> \in Seq(Bytes) /\ <<>> \in Seq(MessageKinds)
  BY SMTT(60)
<1>3. \A who : Carried(who, 0, <<>>)
  BY <1>2 DEF Carried
<1>4. SessionTypes
  BY <1>1, <1>2 DEF SessionTypes
<1>5. ServerInv
  BY <1>1, <1>2, <1>3 DEF ServerInv
<1>6. UpInv
  <2>1. Used = 0 /\ Given = 0 /\ 0 * MessageLength = 0
    BY <1>1, SessionAssumption, SMTT(60) DEF Used, Given
  <2>2. Used + Len(handshake.buffer) = 0 /\ 0 + 0 + 0 = 0 + 0
    BY <1>1, <1>2, <2>1, SMTT(60)
  <2> QED
    BY <1>1, <1>2, <1>3, <2>1, <2>2 DEF UpInv
<1>7. DownInv /\ AgreeInv
  BY <1>1 DEF DownInv, AgreeInv
<1> QED
  BY <1>1, <1>4, <1>5, <1>6, <1>7 DEF ShakeInv

\* Steps that leave the handshake's octets alone.
LEMMA ShakeElsewhere ==
    ASSUME ShakeInv,
           UNCHANGED <<conduct, initiator, messages, up, down, handshake, received, fed>>,
           \/ at' = at
           \/ at' = "returned"
           \/ at \in {"drain", "reply", "message"} /\ at' \in {"drain", "reply", "message"}
    PROVE  ShakeInv'
<1>1. SessionTypes' /\ ServerInv'
  BY DEF ShakeInv, SessionTypes, ServerInv
<1>2. Used' = Used /\ Given' = Given
  BY DEF Used, Given
<1>3. CASE handshake.state # "Failed"
  <2>1. UpInv'
    BY <1>2, <1>3 DEF ShakeInv, UpInv
  <2>2. DownInv' /\ AgreeInv'
    BY <1>3 DEF ShakeInv, DownInv, AgreeInv
  <2> QED
    BY <1>1, <1>3, <2>1, <2>2 DEF ShakeInv
<1>4. CASE handshake.state = "Failed"
  BY <1>1, <1>4 DEF ShakeInv
<1> QED
  BY <1>3, <1>4

\* The client sends C0 and C1.
LEMMA ShakeStart == ASSUME ShakeInv, ClientStart PROVE ShakeInv'
<1>1. /\ initiator.state = "Idle"
      /\ initiator' = [initiator EXCEPT !.state = "WaitS0S1S2",
                                       !.out = <<kRtmpVersion>> \o ClientPacket]
      /\ up' = [initiator'.out EXCEPT ![1] = C0]
      /\ UNCHANGED <<conduct, messages, down, handshake, received, fed, at>>
  BY DEF ClientStart, InitiatorStart, readerVars
<1>2. SessionTypes /\ ServerInv
  BY DEF ShakeInv
<1>3. PICK o : /\ o = <<kRtmpVersion>> \o ClientPacket
               /\ o \in Seq(Bytes) /\ Len(o) = 4 /\ o[4] = Octet("random", 1)
  <2>1. PICK u : u = <<kRtmpVersion>> /\ u \in Seq(Bytes) /\ Len(u) = 1
    <3>1. kRtmpVersion \in Bytes
      BY Packets
    <3>2. <<kRtmpVersion>> \in Seq(Bytes) /\ Len(<<kRtmpVersion>>) = 1
      BY <3>1, SMTT(60)
    <3> QED
      BY <3>2
  <2>2. PICK c : c = ClientPacket /\ c \in Seq(Bytes) /\ Len(c) = 3 /\ c[3] = Octet("random", 1)
    BY Packets
  <2>3. u \o c \in Seq(Bytes) /\ Len(u \o c) = 4 /\ (u \o c)[4] = c[3]
    <3>1. /\ u \o c \in Seq(Bytes) /\ Len(u \o c) = Len(u) + Len(c)
          /\ \A i \in 1..(Len(u) + Len(c)) :
                (u \o c)[i] = IF i <= Len(u) THEN u[i] ELSE c[i - Len(u)]
      BY <2>1, <2>2, ConcatProperties
    <3> QED
      BY <2>1, <2>2, <3>1, SMTT(60)
  <2> QED
    BY <2>1, <2>2, <2>3
<1>4. PICK v \in Bytes :
        /\ v = C0 /\ v = IF conduct = "wrong_version" THEN Octet("version", 6) ELSE kRtmpVersion
  <2>1. Octet("version", 6) \in Bytes
    BY DEF Octet, Bytes
  <2> QED
    BY <2>1, Packets DEF C0
<1>5. PICK q : /\ q = up' /\ q \in Seq(Bytes) /\ Len(q) = 4
               /\ q[1] = v /\ q[4] = Octet("random", 1)
  <2>1. initiator'.out = o
    BY <1>1, <1>2, <1>3 DEF SessionTypes
  <2>2. up' = [o EXCEPT ![1] = v]
    BY <1>1, <1>4, <2>1
  <2>3. /\ [o EXCEPT ![1] = v] \in Seq(Bytes) /\ Len([o EXCEPT ![1] = v]) = Len(o)
        /\ \A j \in 1..Len(o) : [o EXCEPT ![1] = v][j] = IF j = 1 THEN v ELSE o[j]
    <3>1. o \in Seq(Bytes) /\ 1 \in 1..Len(o)
      BY <1>3, SMTT(60)
    <3> QED
      BY <3>1, ExceptSeq, SMTT(60)
  <2>4. PICK q : q = [o EXCEPT ![1] = v]
    OBVIOUS
  <2>5. q \in Seq(Bytes) /\ Len(q) = 4 /\ q[1] = v /\ q[4] = o[4]
    BY <1>3, <2>3, <2>4, SMTT(60)
  <2> QED
    BY <1>3, <2>2, <2>4, <2>5
<1>6. Carried(conduct, 0, q)
  <2>1. DOMAIN q = 1..4
    BY <1>5, SMTT(60)
  <2>2. ASSUME NEW k \in 1..4 PROVE OctetAt(conduct, 0 + k, q[k])
    <3>1. conduct # "server"
      BY <1>2 DEF SessionTypes
    <3> QED
      BY <1>4, <1>5, <3>1, SMTT(60) DEF OctetAt
  <2> QED
    BY <2>1, <2>2 DEF Carried
<1>7. SessionTypes'
  BY <1>1, <1>2, <1>3, <1>5 DEF SessionTypes
<1>8. initiator'.state = "WaitS0S1S2" /\ initiator'.buffer = initiator.buffer
  BY <1>1, <1>2 DEF SessionTypes
<1>9. ServerInv'
  BY <1>1, <1>2, <1>8 DEF ServerInv
<1>10. CASE handshake.state = "Failed"
  BY <1>1, <1>7, <1>9, <1>10 DEF ShakeInv
<1>11. CASE handshake.state # "Failed"
  <2>1. UpInv /\ DownInv /\ AgreeInv
    BY <1>11 DEF ShakeInv
  <2>2. PICK lb \in Nat, lu \in Nat, used \in {0, 4, 7} :
          lb = Len(handshake.buffer) /\ lu = Len(up) /\ used = Used
    <3>1. Used \in {0, 4, 7}
      BY DEF Used
    <3>2. Len(handshake.buffer) \in Nat /\ Len(up) \in Nat
      BY <1>2, SMTT(60) DEF SessionTypes
    <3> QED
      BY <3>1, <3>2
  <2>3. /\ messages = <<>> /\ Len(messages) * MessageLength = 0
        /\ Given = 0 /\ Given' = 4
    <3>1. messages = <<>> /\ Given = 0 /\ Given' = 4
      BY <1>1, <1>8, <2>1 DEF Given, UpInv
    <3>2. Len(messages) = 0
      BY <3>1
    <3> QED
      BY <3>1, <3>2, SessionAssumption, SMTT(60)
  <2>4. used = 0 /\ lb = 0 /\ received = 0
    <3>1. received \in Nat
      BY <1>2 DEF SessionTypes
    <3>2. used + lb + received + lu = 0
      BY <2>1, <2>2, <2>3, SMTT(60) DEF UpInv
    <3> QED
      BY <2>2, <3>1, <3>2, SMTT(60)
  <2>5. Used' = 0 /\ handshake.state # "Done"
    BY <1>1, <2>2, <2>4, SMTT(60) DEF Used
  <2>6. UpInv'
    <3>1. Carried(conduct, 0, handshake.buffer) /\ Len(handshake.buffer) = 0
      BY <2>1, <2>2, <2>4, <2>5 DEF UpInv
    <3>2. Used' + Len(handshake.buffer) = 0 /\ 0 + received + Len(q) = 4 + 0
      BY <1>5, <2>4, <2>5, <3>1, SMTT(60)
    <3>3. (Used + Len(handshake.buffer) + received + Len(up)
             = Given + Len(messages) * MessageLength)'
      BY <1>1, <1>5, <2>3, <3>2
    <3> QED
      BY <1>1, <1>5, <1>6, <2>3, <2>4, <2>5, <3>1, <3>2, <3>3 DEF UpInv
  <2>7. DownInv'
    BY <1>1, <1>8, <2>1 DEF DownInv
  <2>8. AgreeInv'
    BY <1>1, <1>8, <2>1, <2>5 DEF AgreeInv
  <2> QED
    BY <1>1, <1>7, <1>9, <1>11, <2>6, <2>7, <2>8 DEF ShakeInv
<1> QED
  BY <1>10, <1>11

\* The numbers that UpInv is about.
LEMMA Counts ==
    ASSUME SessionTypes
    PROVE  /\ Len(handshake.buffer) \in Nat /\ Len(up) \in Nat /\ Len(messages) \in Nat
           /\ Used \in {0, 4, 7} /\ Given \in {0, 4, 7} /\ received \in Nat
           /\ Len(messages) * MessageLength \in Nat
<1>1. /\ Len(handshake.buffer) \in Nat /\ Len(up) \in Nat /\ Len(messages) \in Nat
      /\ received \in Nat
  BY SMTT(60) DEF SessionTypes
<1>2. Used \in {0, 4, 7} /\ Given \in {0, 4, 7}
  BY DEF Used, Given
<1>3. Len(messages) * MessageLength \in Nat
  BY <1>1, SessionAssumption, SMTT(60)
<1> QED
  BY <1>1, <1>2, <1>3

Initiators == [state : {"Idle", "WaitS0S1S2", "Done"}, buffer : Seq(Bytes), out : Seq(Bytes)]

\* The initiator takes what the responder sends.
LEMMA TakeFlight ==
    ASSUME NEW p \in Initiators, NEW b \in Seq(Bytes), p.state = "WaitS0S1S2",
           p.buffer = b, p.out = <<>>, Len(b) >= 1, Carried("server", 0, b)
    PROVE  LET i == TakeS0S1S2(p)
           IN  /\ i \in Initiators
               /\ \/ i = p
                  \/ /\ i.state = "Done" /\ Len(i.out) = 3
                     /\ i.out[3] = Octet("random", 2)
<1>1. DOMAIN b = 1..Len(b) /\ Len(b) \in Nat
  BY SMTT(60)
<1>2. b[1] = kRtmpVersion
  BY <1>1, SMTT(60) DEF Carried, OctetAt
<1>3. CASE Len(b) < 7
  <2>1. TakeS0S1S2(p) = p
    BY <1>2, <1>3, SMTT(60) DEF TakeS0S1S2, kHandshakePacketSize
  <2> QED
    BY <2>1
<1>4. CASE Len(b) >= 7
  <2>1. PICK s1, s2, rest : s1 = SubSeq(b, 2, 4) /\ s2 = Drop(b, 4) /\ rest = Drop(b, 7)
    OBVIOUS
  <2>2. s1 \in Seq(Bytes) /\ Len(s1) = 3 /\ s1[3] = b[4]
    BY <1>4, <2>1, SecondPacket, SMTT(60)
  <2>3. rest \in Seq(Bytes) /\ s2[3] = b[7]
    <3>1. 4 \in 0..Len(b) /\ 7 \in 0..Len(b) /\ 3 \in 1..(Len(b) - 4)
      BY <1>1, <1>4, SMTT(60)
    <3>2. Drop(b, 7) \in Seq(Bytes) /\ Drop(b, 4)[3] = b[4 + 3]
      BY <3>1, Cut
    <3> QED
      BY <2>1, <3>2, SMTT(60)
  <2>4. b[4] = Octet("random", 2) /\ b[7] = Octet("random", 1)
    BY <1>1, <1>4, SMTT(60) DEF Carried, OctetAt
  <2>5. PICK e : e = make_echo(s1)
    OBVIOUS
  <2>6. e \in Seq(Bytes) /\ Len(e) = 3 /\ e[3] = Octet("random", 2)
    BY <2>2, <2>4, <2>5, Echoed
  <2>7. random_matches(s2, ClientPacket)
    BY <2>3, <2>4, Packets DEF random_matches
  <2>8. TakeS0S1S2(p) = [state |-> "Done", buffer |-> rest, out |-> e]
    <3>1. /\ ~(p.buffer # <<>> /\ p.buffer[1] # kRtmpVersion)
          /\ ~(Len(p.buffer) < 1 + 2 * 3) /\ SubSeq(p.buffer, 2, 1 + 3) = s1
          /\ Drop(p.buffer, 1 + 3) = s2 /\ Drop(p.buffer, 1 + 2 * 3) = rest
      BY <1>2, <1>4, <2>1, SMTT(60)
    <3> QED
      BY <2>5, <2>7, <3>1 DEF TakeS0S1S2, kHandshakePacketSize
  <2> QED
    BY <2>3, <2>6, <2>8, SMTT(60) DEF Initiators
<1> QED
  BY <1>1, <1>3, <1>4, SMTT(60)

\* The client receives, and answers with C2 when it has S0, S1 and S2.
LEMMA ShakeReceive ==
    ASSUME ShakeInv, NEW n \in DOMAIN down, ClientRecv(n)
    PROVE  ShakeInv'
<1>1. /\ initiator.state = "WaitS0S1S2"
      /\ initiator' = InitiatorFeed(initiator, FirstOf(down, n))
      /\ down' = Drop(down, n)
      /\ up' = up \o IF initiator'.out # <<>> /\ conduct = "wrong_echo"
                     THEN [initiator'.out EXCEPT ![3] = Octet("random", 0)]
                     ELSE initiator'.out
      /\ UNCHANGED <<conduct, messages, handshake, received, fed, at>>
  BY DEF ClientRecv, readerVars
<1>2. SessionTypes /\ ServerInv
  BY DEF ShakeInv
<1>3. initiator \in Initiators
  BY <1>2 DEF SessionTypes, Initiators
<1>4. PICK b, q : b = initiator.buffer \o FirstOf(down, n) /\ q = Drop(down, n)
  OBVIOUS
<1>5. /\ b \in Seq(Bytes) /\ q \in Seq(Bytes) /\ Len(b) >= 1
      /\ Carried("server", 0, b) /\ Carried("server", Len(b), q)
  <2>1. PICK o, d : /\ o = initiator.buffer /\ d = down /\ n \in DOMAIN d
                    /\ o \in Seq(Bytes) /\ d \in Seq(Bytes)
    BY <1>2 DEF SessionTypes
  <2>2. Carried("server", 0, o) /\ Carried("server", Len(o), d)
    BY <1>1, <1>2, <2>1 DEF ServerInv
  <2>3. 0 + Len(o) = Len(o) /\ n \in Nat /\ n >= 1 /\ Len(o) \in Nat
    BY <2>1, SMTT(60)
  <2>4. o \in Seq(Bytes) /\ d \in Seq(Bytes) /\ n \in DOMAIN d /\ Carried("server", 0, o)
        /\ Carried("server", 0 + Len(o), d) /\ 0 \in Nat
    BY <2>1, <2>2, <2>3
  <2>5. /\ o \o FirstOf(d, n) \in Seq(Bytes) /\ Drop(d, n) \in Seq(Bytes)
        /\ Len(o \o FirstOf(d, n)) = Len(o) + n /\ Len(Drop(d, n)) = Len(d) - n
        /\ Carried("server", 0, o \o FirstOf(d, n))
        /\ Carried("server", 0 + (Len(o) + n), Drop(d, n))
    BY <2>4, CarriedOver
  <2>6. b = o \o FirstOf(d, n) /\ q = Drop(d, n)
    BY <1>4, <2>1
  <2>7. 0 + (Len(o) + n) = Len(o) + n /\ Len(o) + n >= 1
    BY <2>3, SMTT(60)
  <2> QED
    BY <2>5, <2>6, <2>7
<1>6. PICK p : p = [initiator EXCEPT !.buffer = b, !.out = <<>>]
  OBVIOUS
<1>7. /\ p \in Initiators /\ p.state = "WaitS0S1S2" /\ p.buffer = b /\ p.out = <<>>
      /\ initiator' = TakeS0S1S2(p)
  <2>1. <<>> \in Seq(Bytes)
    BY SMTT(60)
  <2>2. initiator' = TakeS0S1S2(p)
    BY <1>1, <1>4, <1>6 DEF InitiatorFeed
  <2> QED
    BY <1>1, <1>3, <1>5, <1>6, <2>1, <2>2 DEF Initiators
<1>8. PICK i \in Initiators :
        /\ i = initiator'
        /\ i = p \/ (i.state = "Done" /\ Len(i.out) = 3 /\ i.out[3] = Octet("random", 2))
  BY <1>5, <1>7, TakeFlight
<1>9. PICK c : c = conduct /\ c \in {"proper", "wrong_version", "wrong_echo"}
  BY <1>2 DEF SessionTypes
<1>10. PICK w : /\ w \in Seq(Bytes) /\ up' = up \o w
                /\ i = p => w = <<>>
                /\ i # p => Len(w) = 3 /\ w[3] = IF c = "wrong_echo" THEN Octet("random", 0)
                                                 ELSE Octet("random", 2)
  <2>1. CASE i = p
    <3>1. initiator'.out = <<>>
      BY <1>7, <1>8, <2>1
    <3>2. up' = up \o <<>>
      BY <1>1, <3>1
    <3>3. <<>> \in Seq(Bytes)
      BY SMTT(60)
    <3> QED
      BY <2>1, <3>2, <3>3
  <2>2. CASE i # p
    <3>1. PICK e : e = i.out /\ e \in Seq(Bytes) /\ Len(e) = 3 /\ e[3] = Octet("random", 2)
      BY <1>8, <2>2 DEF Initiators
    <3>2. e # <<>>
      BY <3>1, SMTT(60)
    <3>3. CASE c = "wrong_echo"
      <4>1. PICK w : w = [e EXCEPT ![3] = Octet("random", 0)]
        OBVIOUS
      <4>2. Octet("random", 0) \in Bytes
        BY DEF Octet, Bytes
      <4>3. w \in Seq(Bytes) /\ Len(w) = 3 /\ w[3] = Octet("random", 0)
        BY <3>1, <4>1, <4>2, SMTT(60)
      <4>4. up' = up \o w
        BY <1>1, <1>8, <1>9, <3>1, <3>2, <3>3, <4>1
      <4> QED
        BY <2>2, <3>3, <4>3, <4>4
    <3>4. CASE c # "wrong_echo"
      <4>1. up' = up \o e
        BY <1>1, <1>8, <1>9, <3>1, <3>4
      <4> QED
        BY <2>2, <3>1, <3>4, <4>1
    <3> QED
      BY <3>3, <3>4
  <2> QED
    BY <2>1, <2>2
<1>11. up' \in Seq(Bytes)
  BY <1>2, <1>10, SMTT(60) DEF SessionTypes
<1>12. SessionTypes'
  BY <1>1, <1>2, <1>4, <1>5, <1>8, <1>11 DEF SessionTypes, Initiators
<1>13. ServerInv'
  <2>1. CASE i = p
    BY <1>1, <1>4, <1>5, <1>7, <1>8, <2>1 DEF ServerInv
  <2>2. CASE i # p
    BY <1>8, <2>2 DEF ServerInv
  <2> QED
    BY <2>1, <2>2
<1>14. CASE handshake.state = "Failed"
  BY <1>1, <1>12, <1>13, <1>14 DEF ShakeInv
<1>15. CASE handshake.state # "Failed"
  <2>1. UpInv /\ DownInv /\ AgreeInv
    BY <1>15 DEF ShakeInv
  <2>2. down # <<>>
    BY SMTT(60)
  <2>3. DownInv' /\ AgreeInv'
    <3>1. ~(handshake.state = "WaitC0C1" \/ at = "respond") /\ handshake.state # "Done"
      BY <1>1, <2>1, <2>2 DEF DownInv, AgreeInv
    <3> QED
      BY <1>1, <2>1, <3>1 DEF DownInv, AgreeInv
  <2>4. handshake.state # "Done" /\ messages = <<>> /\ Used' = Used
    BY <1>1, <2>1 DEF AgreeInv, UpInv, Used
  <2>5. CASE i = p
    <3>1. up' = up /\ Given' = Given
      BY <1>1, <1>2, <1>7, <1>8, <1>10, <2>5, SMTT(60) DEF SessionTypes, Given
    <3>2. UpInv'
      BY <1>1, <2>1, <2>4, <3>1 DEF UpInv
    <3> QED
      BY <1>1, <1>12, <1>13, <1>15, <2>3, <3>2 DEF ShakeInv
  <2>6. CASE i # p
    <3>1. PICK lb \in Nat, lu \in Nat, used \in {0, 4, 7} :
            lb = Len(handshake.buffer) /\ lu = Len(up) /\ used = Used
      BY <1>2, Counts
    <3>2. Given = 4 /\ Given' = 7 /\ Len(messages) * MessageLength = 0 /\ received = 0
      <4>1. Given = 4 /\ Given' = 7 /\ received = 0
        BY <1>1, <1>8, <2>1, <2>4, <2>6 DEF Given, UpInv
      <4>2. Len(messages) = 0
        BY <2>4
      <4> QED
        BY <4>1, <4>2, SessionAssumption, SMTT(60)
    <3>3. used + lb + lu = 4
      <4>1. used + lb + 0 + lu = 4 + 0
        BY <2>1, <3>1, <3>2 DEF UpInv
      <4> QED
        BY <3>1, <4>1, SMTT(60)
    <3>4. Len(up') = lu + 3
      <4>1. up \in Seq(Bytes) /\ w \in Seq(Bytes) /\ Len(w) = 3 /\ up' = up \o w
        BY <1>2, <1>10, <2>6 DEF SessionTypes
      <4>2. Len(up \o w) = Len(up) + Len(w)
        BY <4>1, ConcatProperties
      <4> QED
        BY <3>1, <4>1, <4>2
    <3>5. (Used + Len(handshake.buffer) + received + Len(up)
             = Given + Len(messages) * MessageLength)'
      <4>1. \A x, y, d \in Nat : x + y + d = 4 => x + y + 0 + (d + 3) = 7 + 0
        BY SMTT(60)
      <4>2. used \in Nat
        BY <3>1, SMTT(60)
      <4>3. used + lb + 0 + (lu + 3) = 7 + 0
        BY <3>1, <3>3, <4>1, <4>2
      <4>4. /\ Used' = used /\ Len(handshake.buffer)' = lb /\ received' = 0
            /\ (Len(messages) * MessageLength)' = 0
        BY <1>1, <2>4, <3>1, <3>2
      <4> QED
        BY <3>2, <3>4, <4>3, <4>4
    <3>6. Carried(c, used + lb, up \o w)
      <4>1. Carried(c, used + lb, up) /\ used + lb \in Nat /\ (used + lb) + Len(up) = 4
        BY <1>9, <2>1, <2>4, <3>1, <3>3, SMTT(60) DEF UpInv
      <4>2. Carried(c, 4, w)
        <5>1. DOMAIN w = 1..3 /\ c # "server"
          BY <1>9, <1>10, <2>6, SMTT(60)
        <5>2. ASSUME NEW k \in 1..3 PROVE OctetAt(c, 4 + k, w[k])
          BY <1>10, <2>6, <5>1, SMTT(60) DEF OctetAt
        <5> QED
          BY <5>1, <5>2 DEF Carried
      <4>3. up \in Seq(Bytes) /\ w \in Seq(Bytes)
        BY <1>2, <1>10 DEF SessionTypes
      <4> QED
        BY <4>1, <4>2, <4>3, CarriedOn
    <3>7. UpInv'
      <4>1. Carried(conduct, Used, handshake.buffer)
        BY <2>1, <2>4 DEF UpInv
      <4>2. Carried(conduct', Used', handshake'.buffer)
        BY <1>1, <2>4, <4>1
      <4>3. Carried(conduct', Used' + Len(handshake'.buffer), up')
        BY <1>1, <1>9, <1>10, <2>4, <3>1, <3>6
      <4>4. messages' = <<>> /\ received' = 0
        BY <1>1, <2>4, <3>2
      <4> QED
        BY <3>5, <4>2, <4>3, <4>4 DEF UpInv
    <3> QED
      BY <1>1, <1>12, <1>13, <1>15, <2>3, <3>7 DEF ShakeInv
  <2> QED
    BY <2>5, <2>6
<1> QED
  BY <1>14, <1>15

\* The session answers with S0, S1 and S2.
LEMMA ShakeRespond == ASSUME ShakeInv, Respond PROVE ShakeInv'
<1>1. /\ at = "respond"
      /\ \/ down' = down \o handshake.out /\ at' = AfterFeed(handshake)
         \/ at' = "returned" /\ down' = down
      /\ UNCHANGED <<conduct, initiator, messages, up, handshake, received, fed>>
  BY DEF Respond, Return, clientVars, readerVars
<1>2. CASE at' = "returned" /\ down' = down
  BY <1>1, <1>2, ShakeElsewhere
<1>3. CASE down' = down \o handshake.out /\ at' = AfterFeed(handshake)
  <2>1. SessionTypes /\ UpInv /\ DownInv /\ AgreeInv /\ handshake.state # "Failed"
    BY <1>1 DEF ShakeInv
  <2>2. /\ handshake.state = "WaitC2" /\ initiator.state # "Done"
        /\ initiator.buffer = <<>> /\ down = <<>> /\ Carried("server", 0, handshake.out)
    BY <1>1, <2>1 DEF DownInv
  <2>3. at' = "handshake"
    BY <1>3, <2>2 DEF AfterFeed
  <2>4. PICK o : o = handshake.out /\ o \in Seq(Bytes)
    BY <2>1 DEF SessionTypes
  <2>5. <<>> \o o = o
    BY <2>4, SMTT(60)
  <2>6. down' = o
    BY <1>3, <2>2, <2>4, <2>5
  <2>7. SessionTypes'
    BY <1>1, <2>1, <2>4, <2>6 DEF SessionTypes
  <2>8. ServerInv'
    <3>1. Len(<<>>) = 0 /\ DOMAIN <<>> = {}
      BY SMTT(60)
    <3>2. Carried("server", 0, <<>>)
      BY <3>1 DEF Carried
    <3>3. initiator' = initiator /\ Len(initiator.buffer) = 0
      BY <1>1, <2>2, <3>1
    <3> QED
      BY <2>2, <2>4, <2>6, <3>2, <3>3 DEF ServerInv
  <2>9. Used' = Used /\ Given' = Given
    BY <1>1 DEF Used, Given
  <2>10. UpInv'
    BY <1>1, <2>1, <2>9 DEF UpInv
  <2>11. DownInv' /\ AgreeInv'
    BY <1>1, <2>1, <2>2, <2>3 DEF DownInv, AgreeInv
  <2> QED
    BY <1>1, <2>1, <2>7, <2>8, <2>10, <2>11 DEF ShakeInv
<1> QED
  BY <1>1, <1>2, <1>3
=============================================================================
