------------------------------ MODULE Handshake ------------------------------
(***************************************************************************)
(* rtmp::HandshakeResponder and HandshakeInitiator                         *)
(* (rtmp/src/handshake.cpp), as operators on what the objects hold: state, *)
(* buffer, and in out what the latest call wrote.  A packet is reduced to  *)
(* three octets, for its time, zero and random fields.                     *)
(***************************************************************************)
EXTENDS Naturals, Sequences

Octet(kind, value) == [kind |-> kind, value |-> value]

kRtmpVersion == Octet("version", 3)
kHandshakePacketSize == 3

make_packet(random) == <<Octet("time", 0), Octet("zero", 0), Octet("random", random)>>

make_echo(packet) == [packet EXCEPT ![2] = Octet("zero", 0)]

random_matches(echo, original) == echo[3] = original[3]

FirstOf(s, n) == SubSeq(s, 1, n)
Drop(s, n)    == SubSeq(s, n + 1, Len(s))

\* What make_packet() draws for each side.
ClientPacket == make_packet(1)
ServerPacket == make_packet(2)

-----------------------------------------------------------------------------
(* HandshakeResponder.                                                     *)

NewResponder == [state |-> "WaitC0C1", buffer |-> <<>>, out |-> <<>>]

TakeC0C1(r) ==
    IF r.state # "WaitC0C1" \/ r.buffer = <<>> THEN r
    ELSE IF r.buffer[1] # kRtmpVersion THEN [r EXCEPT !.state = "Failed"]
    ELSE IF Len(r.buffer) < 1 + kHandshakePacketSize THEN r
    ELSE [state  |-> "WaitC2",
          buffer |-> Drop(r.buffer, 1 + kHandshakePacketSize),
          out    |-> <<kRtmpVersion>> \o ServerPacket
                        \o make_echo(SubSeq(r.buffer, 2, 1 + kHandshakePacketSize))]

\* Mutant of TakeC2: the echo is not compared.
TakeC2Unchecked(r) ==
    IF r.state # "WaitC2" \/ Len(r.buffer) < kHandshakePacketSize THEN r
    ELSE [r EXCEPT !.state = "Done", !.buffer = Drop(@, kHandshakePacketSize)]

TakeC2(r) ==
    IF r.state # "WaitC2" \/ Len(r.buffer) < kHandshakePacketSize THEN r
    ELSE IF ~random_matches(r.buffer, ServerPacket) THEN [r EXCEPT !.state = "Failed"]
    ELSE [r EXCEPT !.state = "Done", !.buffer = Drop(@, kHandshakePacketSize)]

\* feed(): it returns false when the result's state is Failed.
ResponderFeed(r, in) ==
    IF r.state = "Failed" THEN r
    ELSE TakeC2(TakeC0C1([r EXCEPT !.buffer = @ \o in, !.out = <<>>]))

-----------------------------------------------------------------------------
(* HandshakeInitiator.                                                     *)

NewInitiator == [state |-> "Idle", buffer |-> <<>>, out |-> <<>>]

InitiatorStart(i) ==
    [i EXCEPT !.state = "WaitS0S1S2", !.out = <<kRtmpVersion>> \o ClientPacket]

TakeS0S1S2(i) ==
    LET s1 == SubSeq(i.buffer, 2, 1 + kHandshakePacketSize)
        s2 == Drop(i.buffer, 1 + kHandshakePacketSize)
    IN  IF i.buffer # <<>> /\ i.buffer[1] # kRtmpVersion
        THEN [i EXCEPT !.state = "Failed"]
        ELSE IF Len(i.buffer) < 1 + 2 * kHandshakePacketSize THEN i
        ELSE IF ~random_matches(s2, ClientPacket) THEN [i EXCEPT !.state = "Failed"]
        ELSE [state  |-> "Done",
              buffer |-> Drop(i.buffer, 1 + 2 * kHandshakePacketSize),
              out    |-> make_echo(s1)]

InitiatorFeed(i, in) ==
    LET fed == [i EXCEPT !.buffer = @ \o in, !.out = <<>>]
    IN  CASE i.state = "WaitS0S1S2" -> TakeS0S1S2(fed)
          [] i.state = "Done"       -> fed
          [] OTHER                  -> [i EXCEPT !.out = <<>>]
=============================================================================
