--------------------------- MODULE StreamFraming ---------------------------
(***************************************************************************)
(* One connection as TCP gives it to the server: a stream of bytes, of     *)
(* which a receive may bring any number.  WorkThread takes what it finds   *)
(* in RecvBuf for one packet, and the handler of that packet's type makes  *)
(* from it the packet that the other clients are sent.                     *)
(*                                                                         *)
(* Here nothing is sent to the client meanwhile; RecvBuffer shows what a   *)
(* send does to the buffer.  What a handler does besides, and the way of   *)
(* the packet to the other clients, is in PacketRelay.                     *)
(***************************************************************************)
EXTENDS PacketEncoding, ShooterParsing, FiniteSets

CONSTANTS
    MAX_PACKETBUF,  \* length of RecvBuf
    CLIENT_MAX,     \* length of ClientContexts
    Sends           \* bound: the packets the client may send first, second ...

\* EPacketType: the handlers, what they parse and what they send.
PacketFuncMap ==
    [id \in {2, 4, 6, 8, 10} |->
        [type |-> CASE id \in {2, 6} -> "PMovement"
                    [] id = 4 -> "PFireEvent"
                    [] id = 8 -> "PAnimState"
                    [] id = 10 -> "PWeapon",
         id   |-> id - 1]]

\* A client sends messages of the types the server has handlers for, each with
\* the index that the server has given the client, which is that of its slot.
\* (CLIENT_MAX is 100: an index is written in one byte.)
ASSUME ConstantsAssumption ==
    /\ MAX_PACKETBUF \in Nat \ {0} /\ CLIENT_MAX \in 1 .. 128 /\ Len(Sends) \in Nat
    /\ \A n \in 1 .. Len(Sends) : \A p \in Sends[n] :
        /\ p.id \in DOMAIN PacketFuncMap
        /\ IsShooterMessage(PacketFuncMap[p.id].type, p.msg)
        /\ "Id" \in DOMAIN p.msg /\ ClientIndex(p.msg) \in 0 .. CLIENT_MAX - 1

VARIABLES
    sent,     \* the packets the client has sent, with their bytes
    stream,   \* the bytes, one packet after the other
    got,      \* bytes of them that have been received and handled
    arrived,  \* bytes of the receive that is being handled, 0 when none is
    buf,      \* RecvBuf up to the last byte that is not known to be zero
    from,     \* where the last receive began
    relayed   \* what its handler has put into IOSendBCPacketQue

vars == <<sent, stream, got, arrived, buf, from, relayed>>

\* What the client, with the same generated code, sends.
Frame(p) == SerializePacket(PacketFuncMap[p.id].type, p.id, p.msg, 0).bytes

Start(n)  == sent[n].start
Length(n) == Len(sent[n].bytes)

AtStart(pos) == \E n \in DOMAIN sent : Start(n) = pos

Init ==
    /\ sent = <<>> /\ stream = <<>> /\ got = 0 /\ arrived = 0
    /\ buf = <<>>
    /\ from = 0 /\ relayed = <<>>

ClientSends ==
    /\ Len(sent) < Len(Sends)
    /\ \E p \in Sends[Len(sent) + 1] :
        /\ sent' = Append(sent, [id |-> p.id, msg |-> p.msg,
                                 start |-> Len(stream), bytes |-> Frame(p)])
        /\ stream' = stream \o Frame(p)
    /\ UNCHANGED <<got, arrived, buf, from, relayed>>

\* A pending WSARecv finishes with as much of the stream as the kernel likes.
Receive ==
    /\ arrived = 0
    /\ \E k \in 1 .. MAX_PACKETBUF :
        /\ got + k <= Len(stream)
        /\ arrived' = k
        /\ buf' = SubSeq(stream, got + 1, got + k) \o SubSeq(buf, k + 1, Len(buf))
    /\ from' = got /\ relayed' = <<>>
    /\ UNCHANGED <<sent, stream, got>>

BufByte(i) == IF i <= Len(buf) THEN buf[i] ELSE 0

PacketSize == BufByte(1) + 256 * BufByte(2)
PacketID   == BufByte(3) + 256 * BufByte(4)
Body(DataSize) == [i \in 1 .. DataSize |-> BufByte(HEADER + i)]

\* RecvLoginPacket and the others.  SerializePacket is given a copy of the
\* message and the result of mutable_id(), which adds an id to a message without
\* one; the compiler chooses which of the two comes first.
Relay(type, id, m) ==
    {SerializePacket(type, id, copy, ClientIndex(m)) :
        copy \in {m, Set(m, Fields[type][1], Get(m, "Id", "PClientId"))}}

\* What is relayed from a receive that begins inside a packet is not followed.
Unknown == [index |-> -1, bytes |-> <<>>]

DeSerializePacket(id, DataSize) ==
    IF id \notin DOMAIN PacketFuncMap THEN {<<>>}
    ELSE IF ~AtStart(got) THEN {<<Unknown>>}
    ELSE LET h == PacketFuncMap[id]
         IN  {<<r>> : r \in Relay(h.type, h.id, ParseFromArray(h.type, Body(DataSize)))}

\* Faulty variant: RecvBuf is not cleared.
ReceivePacket_Uncleared == UNCHANGED buf

ReceivePacket == buf' = <<>>

\* WorkThread, from a completion to the next receive.
WorkThread ==
    /\ arrived > 0
    /\ relayed' \in DeSerializePacket(PacketID, (PacketSize - HEADER) % 2^16)
    /\ ReceivePacket
    /\ got' = got + arrived /\ arrived' = 0
    /\ UNCHANGED <<sent, stream, from>>

Next == ClientSends \/ Receive \/ WorkThread

Spec == Init /\ [][Next]_vars

-----------------------------------------------------------------------------
\* The last receive began with packet n, and held it whole, or only a part of it.
HeldWhole(n) == got > from /\ Start(n) = from /\ got >= from + Length(n)
HeldPart(n)  == got > from /\ Start(n) = from /\ got < from + Length(n)

\* What is received is bytes, no more of them than RecvBuf has room for, and a
\* receive gives rise to at most one packet.
TypeOK ==
    /\ got \in 0 .. Len(stream) /\ from \in 0 .. got
    /\ arrived \in 0 .. MAX_PACKETBUF
    /\ buf \in Seq(Byte) /\ Len(buf) <= MAX_PACKETBUF
    /\ Len(relayed) <= 1

\* A packet at the start of a receive goes to the other clients byte for byte,
\* but for the packet type, and under the client's own id, whatever was received
\* before and whatever follows it: reading and writing it again changes nothing
\* and the sizes written are the sizes the messages have.
WholePacketsAreExact ==
    \A n \in DOMAIN sent : HeldWhole(n) =>
        relayed = <<[index |-> ClientIndex(sent[n].msg),
                     bytes |-> Word(Length(n)) \o Word(sent[n].id - 1)
                                   \o SubSeq(sent[n].bytes, HEADER + 1, Length(n))]>>

\* The fields of a message and of the messages in it, with their values.
Values(type, m) ==
    UNION {IF IsMessage(Fields[type][i].type)
           THEN LET name == Fields[type][i].name
                IN  {<<name, inner, m[name][inner]>> : inner \in DOMAIN m[name]}
           ELSE {<<Fields[type][i].name, m[Fields[type][i].name]>>}
              : i \in {k \in 1 .. Len(Fields[type]) : Fields[type][k].name \in DOMAIN m}}

\* A packet that TCP has cut in two is relayed as if it were whole, but what the
\* other clients read then is the client's own, save for the one value the cut
\* went through: nothing of an earlier packet shows behind the cut.  Nor is it
\* taken for a packet of another client, save for client 0, when the id is cut off.
CutPacketsAddNothing ==
    \A n \in DOMAIN sent : HeldPart(n) /\ relayed # <<>> =>
        LET type  == PacketFuncMap[sent[n].id].type
            bytes == relayed[1].bytes
            read  == ParseFromArray(type, SubSeq(bytes, HEADER + 1, Len(bytes)))
        IN  /\ SubSeq(bytes, 1, HEADER) = Word(Len(bytes)) \o Word(sent[n].id - 1)
            /\ relayed[1].index \in {0, ClientIndex(sent[n].msg)}
            /\ Cardinality(Values(type, read) \ Values(type, sent[n].msg)) <= 1

-----------------------------------------------------------------------------
(* What the repository says of the program and the program does not do.     *)

\* README.md:17, "WorkThread resends the data received from a client to the other
\* clients": a receive of whole packets has all of them relayed.
EveryPacketRelayed ==
    \A n, k \in DOMAIN sent :
        Start(n) = from /\ Start(k) + Length(k) = got => Len(relayed) = k - n + 1
=============================================================================
