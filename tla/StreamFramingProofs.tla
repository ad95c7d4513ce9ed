------------------------ MODULE StreamFramingProofs ------------------------
(***************************************************************************)
(* Proofs about StreamFraming, for every list of packets that the client   *)
(* may send, every length of RecvBuf and up to 128 clients.                *)
(*                                                                         *)
(* IInv relates the packets to the stream that they are in, and RecvBuf    *)
(* to the part of the stream that a receive has brought.  So WorkThread    *)
(* has, of a packet that the receive begins with and brings whole, the     *)
(* bytes that the client has written; PacketSize and PacketID are its      *)
(* own; its message is read as it was written (ReadsBack) and is written   *)
(* again with the same size.                                               *)
(*                                                                         *)
(* Of a packet that it brings a part of, WorkThread has that part and      *)
(* zeros behind it: it takes it for one of the full size, and reads the    *)
(* message up to the cut (ReadsUpToTheCut).                                *)
(***************************************************************************)
EXTENDS StreamFraming, ShooterParsingProofs, FiniteSetTheorems

-----------------------------------------------------------------------------
(* Packets as the client sends them and as a handler sends them.            *)

\* The packets a client may send, wherever in the stream they are.
Sent == {[id |-> p.id, msg |-> p.msg, start |-> k, bytes |-> Frame(p)] :
            p \in UNION {Sends[n] : n \in 1 .. Len(Sends)}, k \in Nat}

Type(e) == PacketFuncMap[e.id].type

\* A handler sends what it has parsed, as a message of its own type; each of the
\* four has the id for its first field.
LEMMA Handlers ==
    ASSUME NEW id \in DOMAIN PacketFuncMap
    PROVE  LET type == PacketFuncMap[id].type
           IN  /\ type \in DOMAIN Fields
               /\ Fields[type][1] = Explicit(1, "Id", "PClientId")
               /\ id \in 2 .. 10 /\ PacketFuncMap[id].id = id - 1
<1>1. PacketFuncMap[id].type \in {"PMovement", "PFireEvent", "PAnimState", "PWeapon"}
  BY DEF PacketFuncMap
<1>2. /\ Fields["PWeapon"] = PWeapon /\ Fields["PFireEvent"] = PFireEvent
      /\ Fields["PMovement"] = PMovement /\ Fields["PAnimState"] = PAnimState
  BY DEF Fields
<1>3. \A type \in {"PMovement", "PFireEvent", "PAnimState", "PWeapon"} :
        type \in DOMAIN Fields /\ Fields[type][1] = Explicit(1, "Id", "PClientId")
  BY <1>2 DEF PWeapon, PFireEvent, PMovement, PAnimState, Fields
<1>4. id \in 2 .. 10 /\ PacketFuncMap[id].id = id - 1
  BY DEF PacketFuncMap
<1> QED BY <1>1, <1>3, <1>4

\* A header is two words, and four bytes.
LEMMA HeaderIsWords ==
    ASSUME NEW id \in UInt16, NEW k \in 0 .. 192, NEW header,
           header = Word(HEADER + k) \o Word(id)
    PROVE  header \in Seq(Byte) /\ Len(header) = 4
<1>1. HEADER + k \in UInt16
  <2>1. HEADER + k \in 0 .. 255
    BY DEF HEADER
  <2> QED BY <2>1, SmallWord
<1>2. /\ Word(HEADER + k) \in Seq(Byte) /\ Len(Word(HEADER + k)) = 2
      /\ Word(id) \in Seq(Byte) /\ Len(Word(id)) = 2
  BY <1>1, WordFacts
<1>3. PICK p, q : p = Word(HEADER + k) /\ q = Word(id)
  OBVIOUS
<1>4. p \in Seq(Byte) /\ q \in Seq(Byte) /\ Len(p) = 2 /\ Len(q) = 2
  BY <1>2, <1>3
<1>5. header = p \o q
  BY <1>3, Zenon
<1>6. p \o q \in Seq(Byte) /\ Len(p \o q) = Len(p) + Len(q)
  BY <1>4, Join
<1>7. Len(p) + Len(q) = 4
  BY <1>4
<1> QED BY <1>5, <1>6, <1>7, Zenon

\* What is behind the first of two sequences is the second.
LEMMA Behind ==
    ASSUME NEW p \in Seq(Byte), NEW q \in Seq(Byte)
    PROVE  /\ SubSeq(p \o q, Len(p) + 1, Len(p \o q)) = q
           /\ \A i \in 1 .. Len(q) : (p \o q)[Len(p) + i] = q[i]
<1>1. SubSeq(p \o q, Len(p) + 1, Len(p \o q)) = q
  BY DropFacts, Zenon
<1>2. \A i \in 1 .. Len(q) : (p \o q)[Len(p) + i] = q[i]
  BY ConcatFacts
<1> QED BY <1>1, <1>2, Zenon

\* Behind the four bytes of the header is the message.
LEMMA FrameParts ==
    ASSUME NEW id \in UInt16, NEW type \in DOMAIN Fields, NEW m, IsShooterMessage(type, m),
           NEW index, NEW body, body = Serialize(type, m),
           NEW bytes, bytes = SerializePacket(type, id, m, index).bytes
    PROVE  /\ bytes = (Word(HEADER + Len(body)) \o Word(id)) \o body
           /\ body \in Seq(Byte) /\ SubSeq(bytes, 5, Len(bytes)) = body
           /\ \A i \in 1 .. Len(body) : bytes[4 + i] = body[i]
<1>1. body \in Seq(Byte) /\ Len(body) \in 0 .. 192
  BY MessageFacts
<1>2. PICK header : header = Word(HEADER + Len(body)) \o Word(id)
  OBVIOUS
<1>3. header \in Seq(Byte) /\ Len(header) = 4
  BY <1>1, <1>2, HeaderIsWords, ZenonT(60)
<1>4. bytes = header \o body
  <2>1. SerializePacket(type, id, m, index).bytes
          = (Word(HEADER + Len(Serialize(type, m))) \o Word(id)) \o Serialize(type, m)
    BY FrameBytes
  <2> QED BY <1>2, <2>1, Zenon
<1>5. /\ SubSeq(header \o body, Len(header) + 1, Len(header \o body)) = body
      /\ \A i \in 1 .. Len(body) : (header \o body)[Len(header) + i] = body[i]
  BY <1>1, <1>3, Behind, Zenon
<1>6. Len(header) + 1 = 5
  BY <1>3
<1>7. SubSeq(bytes, 5, Len(bytes)) = body
  BY <1>4, <1>5, <1>6, Zenon
<1>8. \A i \in 1 .. Len(body) : bytes[4 + i] = body[i]
  BY <1>3, <1>4, <1>5, Zenon
<1> QED BY <1>1, <1>2, <1>4, <1>7, <1>8, Zenon

BeginsWithHeader(bytes, id) == SubSeq(bytes, 1, HEADER) = Word(Len(bytes)) \o Word(id)

\* The header is what is in front of it.
LEMMA FrameHeader ==
    ASSUME NEW id \in UInt16, NEW type \in DOMAIN Fields, NEW m, IsShooterMessage(type, m),
           NEW index, NEW bytes, bytes = SerializePacket(type, id, m, index).bytes
    PROVE  BeginsWithHeader(bytes, id)
<1>1. PICK body : body = Serialize(type, m)
  OBVIOUS
<1>2. body \in Seq(Byte) /\ Len(body) \in 0 .. 192 /\ Len(bytes) = HEADER + Len(body)
  <2>1. Len(bytes) = HEADER + Len(Serialize(type, m))
    BY FrameFacts
  <2> QED BY <1>1, <2>1, MessageFacts
<1>3. PICK header : header = Word(HEADER + Len(body)) \o Word(id)
  OBVIOUS
<1>4. header \in Seq(Byte) /\ Len(header) = 4
  BY <1>2, <1>3, HeaderIsWords, ZenonT(60)
<1>5. bytes = header \o body
  <2>1. SerializePacket(type, id, m, index).bytes
          = (Word(HEADER + Len(Serialize(type, m))) \o Word(id)) \o Serialize(type, m)
    BY FrameBytes
  <2> QED BY <1>1, <1>3, <2>1, Zenon
<1>6. SubSeq(header \o body, 1, Len(header)) = header
  BY <1>2, <1>4, DropFacts
<1>7. SubSeq(bytes, 1, HEADER) = header
  BY <1>4, <1>5, <1>6, Zenon DEF HEADER
<1> QED BY <1>2, <1>3, <1>7, Zenon DEF BeginsWithHeader

\* An index that the server gives out is below 128.
LEMMA IndexIsSmall == ASSUME NEW c \in 0 .. CLIENT_MAX - 1 PROVE c \in 0 .. 127
<1>1. CLIENT_MAX \in 1 .. 128
  BY ConstantsAssumption, Zenon
<1>2. \A k \in 1 .. 128 : \A i \in 0 .. k - 1 : i \in 0 .. 127
  OBVIOUS
<1> QED BY <1>1, <1>2, Zenon

\* What is known of a packet that the client has sent.
LEMMA SentFacts ==
    ASSUME NEW e \in Sent
    PROVE  /\ e.id \in DOMAIN PacketFuncMap /\ e.id \in 2 .. 10 /\ e.start \in Nat
           /\ Type(e) \in DOMAIN Fields /\ IsShooterMessage(Type(e), e.msg)
           /\ "Id" \in DOMAIN e.msg /\ ClientIndex(e.msg) \in 0 .. 127
           /\ e.bytes = SerializePacket(Type(e), e.id, e.msg, 0).bytes
<1>1. PICK p \in UNION {Sends[n] : n \in 1 .. Len(Sends)}, k \in Nat :
        e = [id |-> p.id, msg |-> p.msg, start |-> k, bytes |-> Frame(p)]
  BY DEF Sent
<1>2. /\ p.id \in DOMAIN PacketFuncMap
      /\ IsShooterMessage(PacketFuncMap[p.id].type, p.msg)
      /\ "Id" \in DOMAIN p.msg /\ ClientIndex(p.msg) \in 0 .. 127
  <2>1. PICK n \in 1 .. Len(Sends) : p \in Sends[n]
    OBVIOUS
  <2>2. /\ p.id \in DOMAIN PacketFuncMap
        /\ IsShooterMessage(PacketFuncMap[p.id].type, p.msg)
        /\ "Id" \in DOMAIN p.msg /\ ClientIndex(p.msg) \in 0 .. CLIENT_MAX - 1
    BY <2>1, ConstantsAssumption, Zenon
  <2> QED BY <2>2, IndexIsSmall
<1>3. /\ e.id = p.id /\ e.msg = p.msg /\ e.start \in Nat
      /\ e.bytes = Frame(p) /\ Type(e) = PacketFuncMap[p.id].type
  BY <1>1 DEF Type
<1>4. PacketFuncMap[p.id].type \in DOMAIN Fields /\ p.id \in 2 .. 10
  BY <1>2, Handlers
<1> QED BY <1>2, <1>3, <1>4, Zenon DEF Frame

\* Its bytes and its place are what the stream is made of.
LEMMA SentBytes ==
    ASSUME NEW e \in Sent
    PROVE  e.start \in Nat /\ e.bytes \in Seq(Byte) /\ Len(e.bytes) \in Nat
<1>1. e.id \in UInt16
  <2>1. e.id \in 0 .. 255
    BY SentFacts
  <2> QED BY <2>1, SmallWord
<1>2. e.bytes \in Seq(Byte)
  BY <1>1, SentFacts, FrameFacts
<1> QED BY <1>2, SentFacts

-----------------------------------------------------------------------------
\* Places in a part of a sequence are places in the sequence.
LEMMA Inside ==
    ASSUME NEW a \in Nat, NEW k \in Nat, NEW l \in Nat, a + k <= l
    PROVE  \A i \in 1 .. k : a + i \in 1 .. l
  OBVIOUS

\* The packets are in the stream one after the other.
StreamInv ==
    /\ stream \in Seq(Byte)
    /\ sent \in Seq(Sent)
    /\ \A n \in DOMAIN sent :
        /\ Start(n) + Length(n) <= Len(stream)
        /\ \A i \in 1 .. Length(n) : stream[Start(n) + i] = sent[n].bytes[i]

\* While a receive is handled, RecvBuf has what it has brought and zeros behind
\* that, and zeros only while none is.
BufferInv ==
    /\ Len(buf) = arrived
    /\ arrived > 0 =>
        /\ from = got /\ got + arrived <= Len(stream)
        /\ \A i \in 1 .. arrived : buf[i] = stream[got + i]

IInv ==
    /\ TypeOK
    /\ StreamInv
    /\ BufferInv
    /\ arrived > 0 => relayed = <<>>
    /\ WholePacketsAreExact
    /\ CutPacketsAddNothing

\* Nothing is received in the beginning.
LEMMA InitInv == Init => IInv
<1> SUFFICES ASSUME Init PROVE IInv
  OBVIOUS
<1>1. /\ sent = <<>> /\ stream = <<>> /\ got = 0 /\ arrived = 0 /\ buf = <<>> /\ from = 0
      /\ relayed = <<>> /\ MAX_PACKETBUF \in Nat
  BY ConstantsAssumption DEF Init
<1>2. TypeOK
  BY <1>1 DEF TypeOK
<1>3. StreamInv /\ BufferInv /\ WholePacketsAreExact /\ CutPacketsAddNothing
  BY <1>1 DEF StreamInv, BufferInv, WholePacketsAreExact, CutPacketsAddNothing
<1> QED BY <1>1, <1>2, <1>3 DEF IInv

\* A packet more is behind those there are.
LEMMA SendsInv == IInv /\ ClientSends => IInv'
<1> SUFFICES ASSUME IInv, ClientSends PROVE IInv'
  OBVIOUS
<1>0. /\ TypeOK /\ StreamInv /\ BufferInv /\ (arrived > 0 => relayed = <<>>)
      /\ WholePacketsAreExact /\ CutPacketsAddNothing
  BY DEF IInv
<1>1. PICK p \in Sends[Len(sent) + 1] :
        /\ sent' = Append(sent, [id |-> p.id, msg |-> p.msg,
                                 start |-> Len(stream), bytes |-> Frame(p)])
        /\ stream' = stream \o Frame(p)
  BY DEF ClientSends
<1>2. PICK e : e = [id |-> p.id, msg |-> p.msg, start |-> Len(stream), bytes |-> Frame(p)]
  OBVIOUS
<1>3. stream \in Seq(Byte) /\ sent \in Seq(Sent) /\ Len(stream) \in Nat /\ Len(sent) \in Nat
  BY <1>0 DEF StreamInv
<1>4. e \in Sent
  <2>1. Len(sent) + 1 \in 1 .. Len(Sends)
    BY <1>3, ConstantsAssumption DEF ClientSends
  <2>2. p \in UNION {Sends[n] : n \in 1 .. Len(Sends)}
    BY <1>1, <2>1
  <2> QED BY <1>2, <1>3, <2>2 DEF Sent
<1>5. e.start = Len(stream) /\ e.bytes \in Seq(Byte) /\ Len(e.bytes) \in Nat
  BY <1>2, <1>4, SentBytes
<1>6. sent' = Append(sent, e) /\ stream' = stream \o e.bytes
  BY <1>1, <1>2
<1>7. UNCHANGED <<got, arrived, buf, from, relayed>>
  BY DEF ClientSends
<1>8. /\ stream' \in Seq(Byte) /\ Len(stream') = Len(stream) + Len(e.bytes)
      /\ \A i \in 1 .. Len(stream) : stream'[i] = stream[i]
      /\ \A i \in 1 .. Len(e.bytes) : stream'[Len(stream) + i] = e.bytes[i]
  BY <1>3, <1>5, <1>6, ConcatFacts
<1> PICK l \in Nat, k \in Nat : l = Len(stream) /\ k = Len(e.bytes) /\ Len(stream') = l + k
  BY <1>3, <1>5, <1>8
<1>9. /\ sent' \in Seq(Sent) /\ DOMAIN sent = 1 .. Len(sent)
      /\ DOMAIN sent' = 1 .. Len(sent) + 1
      /\ \A n \in DOMAIN sent : sent'[n] = sent[n]
      /\ sent'[Len(sent) + 1] = e
  BY <1>3, <1>4, <1>6, AppendFacts
<1>10. /\ got \in 0 .. Len(stream) /\ from \in 0 .. got /\ arrived \in 0 .. MAX_PACKETBUF
  BY <1>0 DEF TypeOK
<1>11. TypeOK'
  <2>1. got' \in 0 .. Len(stream')
    BY <1>3, <1>5, <1>7, <1>8, <1>10
  <2> QED BY <1>0, <1>7, <2>1 DEF TypeOK
<1>12. StreamInv'
  <2>1. SUFFICES ASSUME NEW n \in DOMAIN sent'
                 PROVE  /\ sent'[n].start + Len(sent'[n].bytes) <= Len(stream')
                        /\ \A i \in 1 .. Len(sent'[n].bytes) :
                              stream'[sent'[n].start + i] = sent'[n].bytes[i]
    BY <1>8, <1>9 DEF StreamInv, Start, Length
  <2>2. CASE n \in DOMAIN sent
    <3>1. sent'[n] = sent[n] /\ sent[n] \in Sent
      BY <1>3, <1>9, <2>2, ElementsOf
    <3>2. /\ sent[n].start + Len(sent[n].bytes) <= Len(stream)
          /\ \A i \in 1 .. Len(sent[n].bytes) : stream[sent[n].start + i] = sent[n].bytes[i]
      BY <1>0, <2>2 DEF StreamInv, Start, Length
    <3>3. sent[n].start \in Nat /\ Len(sent[n].bytes) \in Nat
      BY <3>1, SentBytes
    <3>4. \A i \in 1 .. Len(sent[n].bytes) : sent[n].start + i \in 1 .. Len(stream)
      BY <1>3, <3>2, <3>3, Inside, Zenon
    <3>5. sent[n].start + Len(sent[n].bytes) <= Len(stream')
      <4>1. PICK a \in Nat : a = sent[n].start + Len(sent[n].bytes) /\ a <= l
        BY <3>2, <3>3
      <4> QED BY <4>1
    <3> QED BY <1>8, <3>1, <3>2, <3>4, <3>5
  <2>3. CASE n = Len(sent) + 1
    <3>1. sent'[n] = e
      BY <1>9, <2>3
    <3>2. e.start + Len(e.bytes) <= Len(stream')
      BY <1>5
    <3>3. \A i \in 1 .. Len(e.bytes) : stream'[e.start + i] = e.bytes[i]
      BY <1>5, <1>8
    <3> QED BY <3>1, <3>2, <3>3
  <2> QED BY <1>3, <1>9, <2>2, <2>3
<1>13. BufferInv'
  <2>1. SUFFICES ASSUME arrived > 0
                 PROVE  /\ from = got /\ got + arrived <= Len(stream')
                        /\ \A i \in 1 .. arrived : buf[i] = stream'[got + i]
    BY <1>0, <1>7 DEF BufferInv
  <2>2. /\ from = got /\ got + arrived <= Len(stream)
        /\ \A i \in 1 .. arrived : buf[i] = stream[got + i]
    BY <1>0, <2>1 DEF BufferInv
  <2>3. arrived \in Nat /\ got \in Nat
    BY <1>3, <1>10, ConstantsAssumption
  <2>4. \A i \in 1 .. arrived : got + i \in 1 .. Len(stream)
    BY <1>3, <2>2, <2>3, Inside, Zenon
  <2>5. got + arrived <= Len(stream')
    BY <1>3, <1>5, <1>8, <2>2, <2>3
  <2> QED BY <1>8, <2>2, <2>4, <2>5
<1>14. WholePacketsAreExact' /\ CutPacketsAddNothing'
  <2>1. \A n \in DOMAIN sent' : (HeldWhole(n) \/ HeldPart(n))' => n \in DOMAIN sent
    <3>1. SUFFICES ASSUME NEW n \in DOMAIN sent', (HeldWhole(n) \/ HeldPart(n))'
                   PROVE  n \in DOMAIN sent
      OBVIOUS
    <3>2. sent'[n].start < got
      BY <1>3, <1>7, <1>10, <3>1 DEF HeldWhole, HeldPart, Start
    <3>3. n # Len(sent) + 1
      BY <1>3, <1>5, <1>9, <1>10, <3>2
    <3> QED BY <1>3, <1>9, <3>3
  <2>2. \A n \in DOMAIN sent : sent'[n] = sent[n]
    BY <1>9
  <2>3. WholePacketsAreExact'
    BY <1>0, <1>7, <2>1, <2>2 DEF WholePacketsAreExact, HeldWhole, Start, Length
  <2>4. CutPacketsAddNothing'
    BY <1>0, <1>7, <2>1, <2>2 DEF CutPacketsAddNothing, HeldPart, Start, Length
  <2> QED BY <2>3, <2>4
<1> QED BY <1>0, <1>7, <1>11, <1>12, <1>13, <1>14 DEF IInv

\* A receive brings the next bytes of the stream; what its handler will send is
\* not known yet.
LEMMA ReceiveInv == IInv /\ Receive => IInv'
<1> SUFFICES ASSUME IInv, Receive PROVE IInv'
  OBVIOUS
<1>0. /\ TypeOK /\ StreamInv /\ BufferInv /\ MAX_PACKETBUF \in Nat
  BY ConstantsAssumption DEF IInv
<1>1. PICK k \in 1 .. MAX_PACKETBUF :
        /\ got + k <= Len(stream)
        /\ arrived' = k
        /\ buf' = SubSeq(stream, got + 1, got + k) \o SubSeq(buf, k + 1, Len(buf))
  BY DEF Receive
<1>2. /\ from' = got /\ relayed' = <<>> /\ sent' = sent /\ stream' = stream /\ got' = got
  BY DEF Receive
<1>3. /\ stream \in Seq(Byte) /\ Len(stream) \in Nat /\ got \in Nat /\ k \in Nat
      /\ buf \in Seq(Byte) /\ Len(buf) = 0
  BY <1>0 DEF TypeOK, StreamInv, BufferInv, Receive
<1>4. PICK new : new = SubSeq(stream, got + 1, got + k)
  OBVIOUS
<1>5. /\ new \in Seq(Byte) /\ Len(new) = k
      /\ \A i \in 1 .. k : new[i] = stream[got + i]
  <2>1. /\ new \in Seq(Byte) /\ Len(new) = (got + k) - (got + 1) + 1
        /\ \A i \in 1 .. (got + k) - (got + 1) + 1 : new[i] = stream[(got + 1) + i - 1]
    BY <1>1, <1>3, <1>4, SubSeqFacts
  <2>2. (got + k) - (got + 1) + 1 = k /\ \A i \in 1 .. k : (got + 1) + i - 1 = got + i
    BY <1>3
  <2> QED BY <2>1, <2>2
<1>6. PICK old : old = SubSeq(buf, k + 1, Len(buf))
  OBVIOUS
<1>7. old \in Seq(Byte) /\ Len(old) = 0
  <2>1. old \in Seq(Byte) /\ Len(old) = IF k <= Len(buf) THEN Len(buf) - k ELSE 0
    BY <1>3, <1>6, RestFacts
  <2> QED BY <1>3, <2>1
<1>8. /\ buf' \in Seq(Byte) /\ Len(buf') = k
      /\ \A i \in 1 .. k : buf'[i] = new[i]
  <2>1. buf' = new \o old
    BY <1>1, <1>4, <1>6
  <2>2. new \in Seq(Byte) /\ old \in Seq(Byte)
    BY <1>5, <1>7
  <2>3. /\ new \o old \in Seq(Byte) /\ Len(new \o old) = Len(new) + Len(old)
        /\ \A i \in 1 .. Len(new) : (new \o old)[i] = new[i]
    BY <2>2, ConcatFacts
  <2>4. k + 0 = k
    BY <1>3
  <2> QED BY <1>5, <1>7, <2>1, <2>3, <2>4, Zenon
<1>9. TypeOK'
  <2>1. Len(buf') <= MAX_PACKETBUF /\ got \in 0 .. Len(stream) /\ got \in 0 .. got
    BY <1>0, <1>1, <1>3, <1>8 DEF TypeOK
  <2> QED BY <1>0, <1>1, <1>2, <1>8, <2>1 DEF TypeOK
<1>10. StreamInv'
  BY <1>0, <1>2 DEF StreamInv, Start, Length
<1>11. BufferInv'
  BY <1>1, <1>2, <1>5, <1>8 DEF BufferInv
<1>12. WholePacketsAreExact' /\ CutPacketsAddNothing'
  BY <1>2, <1>3 DEF WholePacketsAreExact, CutPacketsAddNothing, HeldWhole, HeldPart
<1> QED BY <1>2, <1>9, <1>10, <1>11, <1>12 DEF IInv

\* A handler that has the packet as the client made it sends it as the client
\* made it, under the client's own id.
LEMMA Relays ==
    ASSUME NEW e \in Sent, NEW r \in Relay(Type(e), PacketFuncMap[e.id].id, e.msg)
    PROVE  r = [index |-> ClientIndex(e.msg),
                bytes |-> Word(Len(e.bytes)) \o Word(e.id - 1)
                              \o SubSeq(e.bytes, HEADER + 1, Len(e.bytes))]
<1> PICK type, m : type = Type(e) /\ m = e.msg
  OBVIOUS
<1>1. /\ type \in DOMAIN Fields /\ IsShooterMessage(type, m) /\ "Id" \in DOMAIN m
      /\ ClientIndex(m) \in UInt16 /\ e.id \in 2 .. 10
      /\ e.bytes = SerializePacket(type, e.id, m, 0).bytes
      /\ PacketFuncMap[e.id].id = e.id - 1 /\ Fields[type][1] = Explicit(1, "Id", "PClientId")
  <2>1. ClientIndex(m) \in UInt16
    <3>1. ClientIndex(m) \in 0 .. 255
      BY SentFacts
    <3> QED BY <3>1, SmallWord
  <2> QED BY <2>1, SentFacts, Handlers DEF Type
<1>2. Set(m, Fields[type][1], Get(m, "Id", "PClientId")) = m
  <2>1. m = [name \in DOMAIN m |-> m[name]] /\ (DOMAIN m \ {"Id"}) \cup {"Id"} = DOMAIN m
    BY <1>1 DEF IsShooterMessage, IsRecordOf
  <2>2. Get(m, "Id", "PClientId") = m["Id"]
    BY <1>1 DEF Get
  <2> QED BY <1>1, <2>1, <2>2 DEF Set, Explicit
<1> PICK id, next, index : id = e.id /\ next = e.id - 1 /\ index = ClientIndex(m)
  OBVIOUS
<1>3. r = SerializePacket(type, next, m, index)
  BY <1>1, <1>2 DEF Relay
<1>4. r = [index |-> index, bytes |-> r.bytes]
  <2>1. index % 2^16 = index
    BY <1>1, SMT DEF UInt16
  <2> QED BY <1>3, <2>1 DEF SerializePacket
<1>5. id \in UInt16 /\ next \in UInt16
  <2>1. id \in 0 .. 255 /\ next \in 0 .. 255
    BY <1>1
  <2> QED BY <2>1, SmallWord
<1> PICK body, bytes, other : /\ body = Serialize(type, m)
                             /\ bytes = SerializePacket(type, id, m, 0).bytes
                             /\ other = SerializePacket(type, next, m, index).bytes
  OBVIOUS
<1>6. Len(bytes) = HEADER + Len(body) /\ HEADER + 1 = 5
  <2>1. Len(bytes) = HEADER + Len(Serialize(type, m))
    BY <1>1, <1>5, FrameFacts
  <2> QED BY <2>1 DEF HEADER
<1>7. SubSeq(bytes, 5, Len(bytes)) = body
  BY <1>1, <1>5, FrameParts
<1>8. other = (Word(HEADER + Len(body)) \o Word(next)) \o body
  BY <1>1, <1>5, FrameParts, SMTT(30)
<1>9. Word(Len(bytes)) \o Word(next) \o SubSeq(bytes, HEADER + 1, Len(bytes)) = other
  BY <1>6, <1>7, <1>8, Zenon
<1>10. e.bytes = bytes /\ r.bytes = other
  BY <1>1, <1>3, Zenon
<1> QED BY <1>4, <1>9, <1>10, Zenon

\* What is a value of a message.
LEMMA ValuesAre ==
    ASSUME NEW type, NEW m, NEW e
    PROVE  e \in Values(type, m) <=>
                \E i, f : /\ IsFieldAt(type, i, f) /\ f.name \in DOMAIN m
                         /\ IF IsMessage(f.type)
                            THEN \E x \in DOMAIN m[f.name] : e = <<f.name, x, m[f.name][x]>>
                            ELSE e = <<f.name, m[f.name]>>
<1> DEFINE Of(i) == IF IsMessage(Fields[type][i].type)
                    THEN LET name == Fields[type][i].name
                         IN  {<<name, inner, m[name][inner]>> : inner \in DOMAIN m[name]}
                    ELSE {<<Fields[type][i].name, m[Fields[type][i].name]>>}
           K     == {k \in 1 .. Len(Fields[type]) : Fields[type][k].name \in DOMAIN m}
<1>1. Values(type, m) = UNION {Of(i) : i \in K}
  BY Zenon DEF Values
<1>2. e \in Values(type, m) <=> \E i \in K : e \in Of(i)
  BY <1>1
<1>3. \A i \in K : e \in Of(i) <=>
        IF IsMessage(Fields[type][i].type)
        THEN \E x \in DOMAIN m[Fields[type][i].name] :
                e = <<Fields[type][i].name, x, m[Fields[type][i].name][x]>>
        ELSE e = <<Fields[type][i].name, m[Fields[type][i].name]>>
  OBVIOUS
<1> HIDE DEF Of
<1> QED BY <1>2, <1>3 DEF IsFieldAt

\* Of a message that was cut one value at most is not the one that was sent.
LEMMA OneValue ==
    ASSUME NEW type \in DOMAIN Fields, NEW part, NEW m, IsCutMessage(type, part, m)
    PROVE  \E z : Values(type, part) \ Values(type, m) \subseteq {z}
<1>1. PICK i, f : /\ IsFieldAt(type, i, f) /\ AllBut(f.name, part, m)
                  /\ f.name \in DOMAIN part =>
                        f.name \in DOMAIN m /\ IsCutValue(f.type, part[f.name], m[f.name])
  BY DEF IsCutMessage
<1>2. \E x : \A y \in DOMAIN part[f.name] :
        IsMessage(f.type) /\ f.name \in DOMAIN part /\ y # x =>
            y \in DOMAIN m[f.name] /\ part[f.name][y] = m[f.name][y]
  <2>1. CASE IsMessage(f.type) /\ f.name \in DOMAIN part
    BY <1>1, <2>1 DEF IsCutValue, IsCutFlat, AllBut
  <2>2. CASE ~(IsMessage(f.type) /\ f.name \in DOMAIN part)
    BY <2>2
  <2> QED BY <2>1, <2>2
<1>3. PICK x : \A y \in DOMAIN part[f.name] :
        IsMessage(f.type) /\ f.name \in DOMAIN part /\ y # x =>
            y \in DOMAIN m[f.name] /\ part[f.name][y] = m[f.name][y]
  BY <1>2
<1>4. PICK z : z = IF IsMessage(f.type) THEN <<f.name, x, part[f.name][x]>>
                   ELSE <<f.name, part[f.name]>>
  OBVIOUS
<1>5. ASSUME NEW e \in Values(type, part), e # z
      PROVE  e \in Values(type, m)
  <2>1. PICK j, g : /\ IsFieldAt(type, j, g) /\ g.name \in DOMAIN part
                    /\ IF IsMessage(g.type)
                       THEN \E y \in DOMAIN part[g.name] : e = <<g.name, y, part[g.name][y]>>
                       ELSE e = <<g.name, part[g.name]>>
    BY ValuesAre
  <2>2. CASE g.name # f.name
    <3>1. g.name \in DOMAIN m /\ part[g.name] = m[g.name]
      BY <1>1, <2>1, <2>2 DEF AllBut
    <3> QED BY <2>1, <3>1, ValuesAre
  <2>3. CASE g.name = f.name
    <3>1. g = f
      BY <1>1, <2>1, <2>3, FieldNames DEF IsFieldAt
    <3>2. IsMessage(f.type)
      BY <1>4, <1>5, <2>1, <3>1
    <3>3. PICK y \in DOMAIN part[f.name] : e = <<f.name, y, part[f.name][y]>>
      BY <2>1, <3>1, <3>2
    <3>4. y # x
      BY <1>4, <1>5, <3>2, <3>3
    <3>5. /\ f.name \in DOMAIN m /\ y \in DOMAIN m[f.name]
          /\ part[f.name][y] = m[f.name][y]
      BY <1>1, <1>3, <2>1, <3>1, <3>2, <3>3, <3>4
    <3> QED BY <1>1, <3>2, <3>3, <3>5, ValuesAre
  <2> QED BY <2>2, <2>3
<1> QED BY <1>5

\* The id of a message comes first.
LEMMA IdIsFirst ==
    ASSUME NEW type \in DOMAIN Fields, Fields[type][1] = Explicit(1, "Id", "PClientId")
    PROVE  IsFieldAt(type, 1, Explicit(1, "Id", "PClientId"))
<1>1. type \in {"PWeapon", "PFireEvent", "PMovement", "PAnimState"} \/ type \in Flat
  BY DEF Fields, Flat
<1>2. CASE type \in {"PWeapon", "PFireEvent", "PMovement", "PAnimState"}
  BY <1>2, OtherMessages DEF Fields, IsFieldAt
<1>3. CASE type \in Flat
  BY <1>3, FlatMessages DEF Fields, Flat, IsFieldAt
<1> QED BY <1>1, <1>2, <1>3

\* The id that mutable_id() adds has no value in it.
LEMMA MutableId ==
    ASSUME NEW type \in DOMAIN Fields, Fields[type][1] = Explicit(1, "Id", "PClientId"),
           NEW part, IsShooterMessage(type, part),
           NEW copy, copy \in {part, Set(part, Fields[type][1], Get(part, "Id", "PClientId"))}
    PROVE  IsShooterMessage(type, copy) /\ Values(type, copy) \subseteq Values(type, part)
<1>1. CASE copy = part
  BY <1>1
<1>2. CASE copy = Set(part, Fields[type][1], Get(part, "Id", "PClientId"))
  <2> PICK f, w : f = Explicit(1, "Id", "PClientId") /\ w = Get(part, "Id", "PClientId")
    OBVIOUS
  <2>1. f.name = "Id" /\ f.type = "PClientId" /\ ~f.implicit
    BY DEF Explicit
  <2>2. copy = Set(part, f, w)
    BY <1>2
  <2>3. IsFieldAt(type, 1, f)
    BY IdIsFirst
  <2>4. /\ copy = [name \in DOMAIN copy |-> copy[name]]
        /\ DOMAIN copy \subseteq DOMAIN part \cup {f.name}
        /\ f.name \in DOMAIN copy => copy[f.name] = w
        /\ \A x \in DOMAIN copy \ {f.name} : x \in DOMAIN part /\ copy[x] = part[x]
    BY <2>2, SetFacts
  <2>5. "Id" \notin DOMAIN part => w = Empty
    BY MessageTypes, Zenon DEF Get, Default, Flat, Numbers
  <2>6. IsValue(f.type, w)
    <3>1. CASE "Id" \in DOMAIN part
      <4>1. w = part[f.name] /\ f.name \in DOMAIN part
        BY <2>1, <3>1 DEF Get
      <4> QED BY <2>3, <4>1 DEF IsShooterMessage, IsFieldAt
    <3>2. CASE "Id" \notin DOMAIN part
      <4>1. w = Empty
        BY <2>5, <3>2
      <4>2. DOMAIN Empty = {} /\ Empty = [name \in DOMAIN Empty |-> Empty[name]]
        BY DEF Empty
      <4>3. IsFlatMessage("PClientId", Empty)
        BY <4>2 DEF IsFlatMessage, IsRecordOf
      <4>4. IsMessage("PClientId")
        BY MessageTypes DEF Flat
      <4> QED BY <2>1, <4>1, <4>3, <4>4 DEF IsValue
    <3> QED BY <3>1, <3>2
  <2>7. AllBut(f.name, copy, part)
    BY <2>4 DEF AllBut
  <2>8. IsShooterMessage(type, copy)
    BY <2>1, <2>3, <2>4, <2>6, <2>7, PartIsMessage
  <2>9. ASSUME NEW e \in Values(type, copy) PROVE e \in Values(type, part)
    <3>1. PICK j, g : /\ IsFieldAt(type, j, g) /\ g.name \in DOMAIN copy
                      /\ IF IsMessage(g.type)
                         THEN \E y \in DOMAIN copy[g.name] : e = <<g.name, y, copy[g.name][y]>>
                         ELSE e = <<g.name, copy[g.name]>>
      BY ValuesAre
    <3>2. g.name \in DOMAIN part /\ copy[g.name] = part[g.name]
      <4>1. CASE g.name # f.name
        BY <2>4, <3>1, <4>1
      <4>2. CASE g.name = f.name
        <5>1. g = f
          BY <2>3, <3>1, <4>2, FieldNames DEF IsFieldAt
        <5>2. IsMessage(g.type)
          BY <2>1, <5>1, MessageTypes DEF Flat
        <5>3. PICK y : y \in DOMAIN copy[g.name]
          BY <3>1, <5>2
        <5>4. copy[g.name] = w
          BY <2>4, <3>1, <5>1
        <5>5. w # Empty
          BY <5>3, <5>4 DEF Empty
        <5> QED BY <2>1, <2>5, <5>1, <5>4, <5>5 DEF Get
      <4> QED BY <4>1, <4>2
    <3> QED BY <3>1, <3>2, ValuesAre
  <2> QED BY <2>8, <2>9
<1> QED BY <1>1, <1>2

\* The index that a handler takes from a part of a message.
LEMMA IndexOfPart ==
    ASSUME NEW type \in DOMAIN Fields, Fields[type][1] = Explicit(1, "Id", "PClientId"),
           NEW part, NEW m, IsCutMessage(type, part, m), ClientIndex(m) \in 0 .. 127
    PROVE  ClientIndex(part) \in {0, ClientIndex(m)}
<1>0. Get(Empty, "Index", "uint32") = 0 /\ Default("PClientId") = Empty
  <2>1. DOMAIN Empty = {}
    BY DEF Empty
  <2> QED BY <2>1, MessageTypes, Zenon DEF Get, Default, Numbers, Flat
<1>1. PICK i, f : /\ IsFieldAt(type, i, f) /\ AllBut(f.name, part, m)
                  /\ f.name \in DOMAIN part =>
                        f.name \in DOMAIN m /\ IsCutValue(f.type, part[f.name], m[f.name])
  BY DEF IsCutMessage
<1>2. CASE "Id" \notin DOMAIN part
  BY <1>0, <1>2 DEF ClientIndex, Get
<1>3. CASE "Id" \in DOMAIN part /\ f.name # "Id"
  BY <1>1, <1>3 DEF ClientIndex, Get, AllBut
<1>4. CASE "Id" \in DOMAIN part /\ f.name = "Id"
  <2>1. f.type = "PClientId"
    <3>1. IsFieldAt(type, 1, Explicit(1, "Id", "PClientId"))
      BY IdIsFirst
    <3>2. f = Explicit(1, "Id", "PClientId")
      BY <1>1, <1>4, <3>1, FieldNames DEF IsFieldAt, Explicit
    <3> QED BY <3>2 DEF Explicit
  <2>2. IsCutFlat("PClientId", part["Id"], m["Id"]) /\ "Id" \in DOMAIN m
    <3>1. IsMessage("PClientId")
      BY MessageTypes DEF Flat
    <3> QED BY <1>1, <1>4, <2>1, <3>1 DEF IsCutValue
  <2>3. ClientIndex(m) = Get(m["Id"], "Index", "uint32")
    BY <2>2 DEF ClientIndex, Get
  <2>4. ClientIndex(part) = Get(part["Id"], "Index", "uint32")
    BY <1>4 DEF ClientIndex, Get
  <2> QED BY <2>2, <2>3, <2>4 DEF IsCutFlat
<1> QED BY <1>2, <1>3, <1>4

\* What another client gets of a packet: its header, the client that it is taken
\* to come from, and at most one value that is not the one sent.
AddsNothing(e, r) ==
    /\ BeginsWithHeader(r.bytes, e.id - 1)
    /\ r.index \in {0, ClientIndex(e.msg)}
    /\ Cardinality(Values(Type(e), ParseFromArray(Type(e), SubSeq(r.bytes, HEADER + 1, Len(r.bytes))))
                      \ Values(Type(e), e.msg)) <= 1

\* So it is of a part of a message.
LEMMA RelaysPart ==
    ASSUME NEW e \in Sent, NEW part, IsCutMessage(Type(e), part, e.msg),
           NEW r \in Relay(Type(e), PacketFuncMap[e.id].id, part)
    PROVE  AddsNothing(e, r)
<1> PICK type, m, next, own : /\ type = Type(e) /\ m = e.msg /\ next = e.id - 1
                              /\ own = ClientIndex(part)
  OBVIOUS
<1>1. /\ type \in DOMAIN Fields /\ IsShooterMessage(type, m)
      /\ ClientIndex(m) \in 0 .. 127 /\ e.id \in 2 .. 10
      /\ PacketFuncMap[e.id].id = next /\ Fields[type][1] = Explicit(1, "Id", "PClientId")
  BY SentFacts, Handlers DEF Type
<1>2. IsCutMessage(type, part, m) /\ IsShooterMessage(type, part)
  BY DEF IsCutMessage
<1>3. PICK copy \in {part, Set(part, Fields[type][1], Get(part, "Id", "PClientId"))} :
        r = SerializePacket(type, next, copy, own)
  BY <1>1 DEF Relay
<1>4. IsShooterMessage(type, copy) /\ Values(type, copy) \subseteq Values(type, part)
  BY <1>1, <1>2, MutableId
<1>5. next \in UInt16
  <2>1. next \in 0 .. 255
    BY <1>1
  <2> QED BY <2>1, SmallWord
<1>6. PICK bytes : bytes = r.bytes
  OBVIOUS
<1>7. bytes = SerializePacket(type, next, copy, own).bytes
  BY <1>3, <1>6
<1>8. BeginsWithHeader(bytes, next)
  BY <1>1, <1>4, <1>5, <1>7, FrameHeader
<1>9. own \in {0, ClientIndex(m)}
  BY <1>1, <1>2, IndexOfPart
<1>10. r.index = own
  <2>1. own \in 0 .. 255
    BY <1>1, <1>9
  <2>2. own % 2^16 = own
    BY <2>1, SmallWord
  <2> QED BY <1>3, <2>2, Zenon DEF SerializePacket
<1>11. ParseFromArray(type, SubSeq(bytes, HEADER + 1, Len(bytes))) = copy
  <2>1. PICK body : body = Serialize(type, copy)
    OBVIOUS
  <2>2. SubSeq(bytes, 5, Len(bytes)) = body
    BY <1>1, <1>4, <1>5, <1>7, <2>1, FrameParts
  <2>3. HEADER + 1 = 5
    BY DEF HEADER
  <2> QED BY <1>1, <1>4, <2>1, <2>2, <2>3, ReadsBack, ZenonT(60)
<1>12. Cardinality(Values(type, copy) \ Values(type, m)) <= 1
  <2>1. PICK z : Values(type, part) \ Values(type, m) \subseteq {z}
    BY <1>1, <1>2, OneValue
  <2>2. PICK S : S = Values(type, copy) \ Values(type, m)
    OBVIOUS
  <2>3. S = {} \/ S = {z}
    BY <1>4, <2>1, <2>2
  <2>4. Cardinality({}) = 0 /\ Cardinality({z}) = 1
    BY FS_EmptySet, FS_Singleton
  <2>5. Cardinality(S) = 0 \/ Cardinality(S) = 1
    BY <2>3, <2>4
  <2> QED BY <2>2, <2>5
<1> QED BY <1>6, <1>8, <1>9, <1>10, <1>11, <1>12, Zenon DEF AddsNothing

\* The handler finds in RecvBuf what the stream has: all of a packet that the
\* receive begins with and brings whole.
LEMMA HandlesWhole ==
    ASSUME IInv, arrived > 0, NEW n \in DOMAIN sent,
           Start(n) = got, Length(n) <= arrived
    PROVE  /\ sent[n] \in Sent
           /\ DeSerializePacket(PacketID, (PacketSize - HEADER) % 2^16)
                = {<<r>> : r \in Relay(Type(sent[n]), PacketFuncMap[sent[n].id].id, sent[n].msg)}
<1> PICK e : e = sent[n]
  OBVIOUS
<1>1. StreamInv /\ BufferInv /\ TypeOK
  BY DEF IInv
<1>2. e \in Sent
  BY <1>1, ElementsOf DEF StreamInv
<1>3. /\ e.id \in DOMAIN PacketFuncMap /\ e.id \in 2 .. 10
      /\ Type(e) \in DOMAIN Fields /\ IsShooterMessage(Type(e), e.msg)
      /\ e.bytes = SerializePacket(Type(e), e.id, e.msg, 0).bytes
  BY <1>2, SentFacts
<1> PICK body : body = Serialize(Type(e), e.msg)
  OBVIOUS
<1>4. e.id \in UInt16
  <2>1. e.id \in 0 .. 255
    BY <1>3
  <2> QED BY <2>1, SmallWord
<1>5. /\ e.bytes \in Seq(Byte) /\ Len(e.bytes) = HEADER + Len(body) /\ Len(e.bytes) \in 4 .. 196
      /\ e.bytes[1] + 256 * e.bytes[2] = Len(e.bytes)
      /\ e.bytes[3] + 256 * e.bytes[4] = e.id
  BY <1>3, <1>4, FrameFacts
<1>6. body \in Seq(Byte) /\ Len(body) \in 0 .. 192 /\ HEADER = 4
  <2>1. body \in Seq(Byte) /\ Len(body) \in 0 .. 192
    BY <1>3, MessageFacts, ZenonT(60)
  <2> QED BY <2>1 DEF HEADER
<1>7. \A i \in 1 .. Len(e.bytes) : BufByte(i) = e.bytes[i]
  <2>1. SUFFICES ASSUME NEW i \in 1 .. Len(e.bytes)
                 PROVE  BufByte(i) = e.bytes[i]
    OBVIOUS
  <2>2. i \in 1 .. arrived /\ i <= Len(buf) /\ i \in 1 .. Length(n)
    <3>1. arrived \in Nat /\ Len(buf) = arrived
      BY <1>1, ConstantsAssumption DEF TypeOK, BufferInv
    <3>2. PICK l \in 4 .. 196 : l = Len(e.bytes)
      BY <1>5
    <3>3. l <= arrived /\ Length(n) = l
      BY <3>2 DEF Length
    <3>4. i \in 1 .. l
      BY <3>2
    <3> QED BY <3>1, <3>3, <3>4
  <2>3. buf[i] = stream[got + i] /\ stream[got + i] = e.bytes[i]
    BY <1>1, <2>2 DEF BufferInv, StreamInv
  <2> QED BY <2>2, <2>3 DEF BufByte
<1>8. PacketSize = Len(e.bytes) /\ PacketID = e.id
  <2>1. \A i \in 1 .. 4 : i \in 1 .. Len(e.bytes)
    <3>1. PICK l \in 4 .. 196 : l = Len(e.bytes)
      BY <1>5
    <3>2. \A i \in 1 .. 4 : i \in 1 .. l
      OBVIOUS
    <3> QED BY <3>1, <3>2, Zenon
  <2>2. \A i \in 1 .. 4 : BufByte(i) = e.bytes[i]
    BY <1>7, <2>1
  <2>3. 1 \in 1 .. 4 /\ 2 \in 1 .. 4 /\ 3 \in 1 .. 4 /\ 4 \in 1 .. 4
    OBVIOUS
  <2> QED BY <1>5, <2>2, <2>3, ZenonT(60) DEF PacketSize, PacketID
<1>9. (PacketSize - HEADER) % 2^16 = Len(body)
  <2>1. PICK k \in 0 .. 192 : k = Len(body)
    BY <1>6
  <2>2. PacketSize - HEADER = k /\ k \in 0 .. 255
    <3>1. PacketSize = 4 + k
      BY <1>5, <1>6, <1>8, <2>1
    <3> QED BY <1>6, <3>1
  <2>3. k % 2^16 = k
    BY <2>2, SmallWord
  <2> QED BY <2>1, <2>2, <2>3, Zenon
<1>10. Body(Len(body)) = body
  <2>1. Body(Len(body)) = [i \in 1 .. Len(body) |-> BufByte(4 + i)]
    BY <1>6, Zenon DEF Body
  <2>2. PICK id, type, m, bytes : id = e.id /\ type = Type(e) /\ m = e.msg /\ bytes = e.bytes
    OBVIOUS
  <2>3. /\ id \in UInt16 /\ type \in DOMAIN Fields /\ IsShooterMessage(type, m)
        /\ body = Serialize(type, m) /\ bytes = SerializePacket(type, id, m, 0).bytes
    BY <1>3, <1>4, <2>2, Zenon
  <2>4. \A i \in 1 .. Len(body) : bytes[4 + i] = body[i]
    BY <2>3, FrameParts
  <2>5. \A i \in 1 .. Len(body) : e.bytes[4 + i] = body[i]
    BY <2>2, <2>4, Zenon
  <2>6. \A i \in 1 .. Len(body) : BufByte(4 + i) = body[i]
    <3>1. \A i \in 1 .. Len(body) : 4 + i \in 1 .. Len(e.bytes)
      BY <1>5, <1>6
    <3> QED BY <1>7, <2>5, <3>1, Zenon
  <2>7. body = [i \in 1 .. Len(body) |-> body[i]]
    BY <1>6
  <2> QED BY <2>1, <2>6, <2>7, Zenon
<1>11. ParseFromArray(Type(e), Body(Len(body))) = e.msg
  BY <1>3, <1>10, ReadsBack, Zenon
<1>12. AtStart(got)
  BY DEF AtStart
<1>13. DeSerializePacket(e.id, Len(body))
         = {<<r>> : r \in Relay(Type(e), PacketFuncMap[e.id].id, e.msg)}
  BY <1>3, <1>11, <1>12, Zenon DEF DeSerializePacket, Type
<1> QED BY <1>2, <1>8, <1>9, <1>13, Zenon

\* A message of a client has its id, and so a byte.
LEMMA NotEmpty ==
    ASSUME NEW e \in Sent
    PROVE  Len(Serialize(Type(e), e.msg)) \in 1 .. 192
<1> PICK type, m : type = Type(e) /\ m = e.msg
  OBVIOUS
<1>1. /\ type \in DOMAIN Fields /\ IsShooterMessage(type, m) /\ "Id" \in DOMAIN m
      /\ Fields[type][1] = Explicit(1, "Id", "PClientId")
  BY SentFacts, Handlers DEF Type
<1>2. IsFieldAt(type, 1, Explicit(1, "Id", "PClientId"))
  BY <1>1, IdIsFirst
<1>3. HasField(type, 1, m)
  BY <1>1, <1>2 DEF HasField, IsWritten, IsFieldAt, Explicit
<1>4. FieldSize(type, 1, m) \in 1 .. 24
  <2>1. FieldSize(type, 1, m) = 1 + ValueSize("PClientId", m["Id"])
    BY <1>1, <1>3 DEF FieldSize, Explicit
  <2>2. ValueSize("PClientId", m["Id"]) \in 0 .. 23
    <3>1. IsValue("PClientId", m["Id"])
      BY <1>1, <1>2 DEF IsShooterMessage, IsFieldAt, Explicit
    <3>2. "PClientId" \in Numbers \cup Flat
      BY DEF Flat
    <3> QED BY <3>1, <3>2, ValueFacts
  <2> QED BY <2>1, <2>2
<1>5. PICK s1, s2, s3, s4, s5, s6, s7, s8 :
        /\ s1 = FieldSize(type, 1, m) /\ s2 = FieldSize(type, 2, m)
        /\ s3 = FieldSize(type, 3, m) /\ s4 = FieldSize(type, 4, m)
        /\ s5 = FieldSize(type, 5, m) /\ s6 = FieldSize(type, 6, m)
        /\ s7 = FieldSize(type, 7, m) /\ s8 = FieldSize(type, 8, m)
  OBVIOUS
<1>6. /\ s1 \in 1 .. 24 /\ s2 \in 0 .. 24 /\ s3 \in 0 .. 24 /\ s4 \in 0 .. 24
      /\ s5 \in 0 .. 24 /\ s6 \in 0 .. 24 /\ s7 \in 0 .. 24 /\ s8 \in 0 .. 24
  <2>1. \A i \in 1 .. 8 : FieldSize(type, i, m) \in 0 .. 24
    BY <1>1, FieldFacts
  <2> QED BY <1>4, <1>5, <2>1
<1>7. ByteSizeLong(type, m) >= 1
  <2>1. ByteSizeLong(type, m) = s1 + s2 + s3 + s4 + s5 + s6 + s7 + s8
    BY <1>5 DEF ByteSizeLong
  <2>2. s1 + s2 + s3 + s4 + s5 + s6 + s7 + s8 >= 1
    BY <1>6
  <2> QED BY <2>1, <2>2, Zenon
<1>8. /\ Len(Serialize(type, m)) = ByteSizeLong(type, m)
      /\ ByteSizeLong(type, m) \in 0 .. 192
  BY <1>1, MessageFacts
<1> QED BY <1>7, <1>8

\* A word below 256.
LEMMA LowByte ==
    ASSUME NEW b1 \in Byte, NEW b2 \in Byte, NEW k \in 0 .. 255, b1 + 256 * b2 = k
    PROVE  b1 = k /\ b2 = 0
<1>1. b2 = 0
  BY DEF Byte
<1> QED BY <1>1 DEF Byte

\* The bytes of a packet that the client has sent.
LEMMA ItsBytes ==
    ASSUME NEW e \in Sent, NEW body, body = Serialize(Type(e), e.msg)
    PROVE  /\ body \in Seq(Byte) /\ Len(body) \in 1 .. 192
           /\ Len(e.bytes) = 4 + Len(body)
           /\ e.bytes[1] = Len(e.bytes) /\ e.bytes[2] = 0
           /\ e.bytes[3] = e.id /\ e.bytes[4] = 0
           /\ \A i \in 1 .. Len(body) : e.bytes[4 + i] = body[i]
<1> PICK id, type, m, bytes : id = e.id /\ type = Type(e) /\ m = e.msg /\ bytes = e.bytes
  OBVIOUS
<1>1. /\ id \in 2 .. 10 /\ type \in DOMAIN Fields /\ IsShooterMessage(type, m)
      /\ body = Serialize(type, m) /\ bytes = SerializePacket(type, id, m, 0).bytes
  BY SentFacts
<1>2. id \in UInt16 /\ id \in 0 .. 255
  <2>1. id \in 0 .. 255
    BY <1>1
  <2> QED BY <2>1, SmallWord
<1>3. /\ bytes \in Seq(Byte) /\ Len(bytes) = HEADER + Len(body)
      /\ bytes[1] + 256 * bytes[2] = Len(bytes) /\ bytes[3] + 256 * bytes[4] = id
  BY <1>1, <1>2, FrameFacts
<1>4. /\ body \in Seq(Byte) /\ \A i \in 1 .. Len(body) : bytes[4 + i] = body[i]
  BY <1>1, <1>2, FrameParts
<1>5. Len(body) \in 1 .. 192
  BY NotEmpty
<1>6. PICK k : k \in 5 .. 196 /\ k = Len(bytes) /\ k = 4 + Len(body)
  <2>1. 4 + Len(body) \in 5 .. 196
    <3>1. \A l \in 1 .. 192 : 4 + l \in 5 .. 196
      OBVIOUS
    <3> QED BY <1>5, <3>1, Zenon
  <2>2. Len(bytes) = 4 + Len(body)
    BY <1>3, Zenon DEF HEADER
  <2> QED BY <2>1, <2>2, Zenon
<1>7. PICK b1, b2, b3, b4 : b1 = bytes[1] /\ b2 = bytes[2] /\ b3 = bytes[3] /\ b4 = bytes[4]
  OBVIOUS
<1>8. b1 \in Byte /\ b2 \in Byte /\ b3 \in Byte /\ b4 \in Byte
  <2>1. \A i \in 1 .. k : bytes[i] \in Byte
    BY <1>3, <1>6
  <2>2. 1 \in 1 .. k /\ 2 \in 1 .. k /\ 3 \in 1 .. k /\ 4 \in 1 .. k
    BY <1>6
  <2> QED BY <1>7, <2>1, <2>2
<1>9. b1 = k /\ b2 = 0
  <2>1. b1 + 256 * b2 = k
    BY <1>3, <1>6, <1>7, Zenon
  <2>2. k \in 0 .. 255
    BY <1>6
  <2> QED BY <1>8, <2>1, <2>2, LowByte
<1>10. b3 = id /\ b4 = 0
  <2>1. b3 + 256 * b4 = id
    BY <1>3, <1>7, Zenon
  <2> QED BY <1>2, <1>8, <2>1, LowByte
<1> QED BY <1>4, <1>5, <1>6, <1>7, <1>9, <1>10

\* Where in a message of l bytes the a-th byte of its packet is.
LEMMA CutPlace ==
    \A l \in 1 .. 192, a \in Nat :
        a < 4 + l => \E d \in 0 .. l - 1 : d = IF a >= 4 THEN a - 4 ELSE 0
  OBVIOUS

\* And of a packet that it brings a part of, that part with zeros behind it: with
\* the size and the type it takes the message for one of its full length, cut.
LEMMA HandlesPart ==
    ASSUME IInv, arrived > 0, NEW n \in DOMAIN sent,
           Start(n) = got, arrived < Length(n),
           NEW next \in DeSerializePacket(PacketID, (PacketSize - HEADER) % 2^16),
           next # <<>>
    PROVE  /\ sent[n] \in Sent
           /\ \E part : /\ IsCutMessage(Type(sent[n]), part, sent[n].msg)
                        /\ \E r \in Relay(Type(sent[n]), PacketFuncMap[sent[n].id].id, part) :
                                next = <<r>>
<1> PICK e : e = sent[n]
  OBVIOUS
<1>1. StreamInv /\ BufferInv /\ TypeOK
  BY DEF IInv
<1>2. e \in Sent
  BY <1>1, ElementsOf DEF StreamInv
<1>3. /\ e.id \in DOMAIN PacketFuncMap /\ e.id \in 2 .. 10
      /\ Type(e) \in DOMAIN Fields /\ IsShooterMessage(Type(e), e.msg)
  BY <1>2, SentFacts
<1> PICK body : body = Serialize(Type(e), e.msg)
  OBVIOUS
<1>4. /\ body \in Seq(Byte) /\ Len(body) \in 1 .. 192
      /\ Len(e.bytes) = 4 + Len(body)
      /\ e.bytes[1] = Len(e.bytes) /\ e.bytes[2] = 0
      /\ e.bytes[3] = e.id /\ e.bytes[4] = 0
      /\ \A i \in 1 .. Len(body) : e.bytes[4 + i] = body[i]
  BY <1>2, ItsBytes
<1> PICK l, a : l \in 1 .. 192 /\ a \in Nat /\ l = Len(body) /\ a = arrived
  <2>1. arrived \in Nat
    BY <1>1, ConstantsAssumption DEF TypeOK
  <2> QED BY <1>4, <2>1
<1>5. a > 0 /\ a < 4 + l /\ Len(e.bytes) = 4 + l
  BY <1>4 DEF Length
<1>6. \A i \in 1 .. 4 + l : BufByte(i) = IF i <= a THEN e.bytes[i] ELSE 0
  <2>1. SUFFICES ASSUME NEW i \in 1 .. 4 + l
                 PROVE  BufByte(i) = IF i <= a THEN e.bytes[i] ELSE 0
    OBVIOUS
  <2>2. Len(buf) = a
    BY <1>1 DEF BufferInv
  <2>3. CASE i <= a
    <3>1. i \in 1 .. arrived /\ i \in 1 .. Length(n)
      BY <1>5, <2>3 DEF Length
    <3>2. buf[i] = stream[got + i] /\ stream[got + i] = e.bytes[i]
      BY <1>1, <3>1 DEF BufferInv, StreamInv
    <3> QED BY <2>2, <2>3, <3>2 DEF BufByte
  <2>4. CASE ~(i <= a)
    BY <2>2, <2>4 DEF BufByte
  <2> QED BY <2>3, <2>4
<1>7. /\ BufByte(2) = 0 /\ BufByte(4) = 0
       /\ BufByte(1) = 4 + l
       /\ BufByte(3) = IF a >= 3 THEN e.id ELSE 0
  <2>1. 1 \in 1 .. 4 + l /\ 2 \in 1 .. 4 + l /\ 3 \in 1 .. 4 + l /\ 4 \in 1 .. 4 + l
    OBVIOUS
  <2>2. /\ BufByte(1) = IF 1 <= a THEN e.bytes[1] ELSE 0
        /\ BufByte(2) = IF 2 <= a THEN e.bytes[2] ELSE 0
        /\ BufByte(3) = IF 3 <= a THEN e.bytes[3] ELSE 0
        /\ BufByte(4) = IF 4 <= a THEN e.bytes[4] ELSE 0
    BY <1>6, <2>1
  <2> QED BY <1>4, <1>5, <2>2
<1>8. PacketID = e.id /\ a >= 3
  <2>1. PacketID = BufByte(3)
    <3>1. BufByte(3) \in Nat
      BY <1>3, <1>7
    <3> QED BY <1>7, <3>1 DEF PacketID
  <2>2. PacketID \in DOMAIN PacketFuncMap
    <3>1. PICK id, size : /\ id = PacketID /\ next \in DeSerializePacket(id, size)
      OBVIOUS
    <3> QED BY <3>1 DEF DeSerializePacket
  <2>3. PacketID # 0
    BY <2>2 DEF PacketFuncMap
  <2> QED BY <1>7, <2>1, <2>3
<1>9. (PacketSize - HEADER) % 2^16 = l
  <2>1. PacketSize = 4 + l
    BY <1>7 DEF PacketSize
  <2>2. PacketSize - HEADER = l /\ l \in 0 .. 255
    BY <2>1 DEF HEADER
  <2> QED BY <2>2, SmallWord, Zenon
<1>10. PICK d \in 0 .. l - 1 : d = IF a >= 4 THEN a - 4 ELSE 0
  BY <1>5, CutPlace, Zenon
<1>11. IsCutAt(Body(l), body, d)
  <2>1. Body(l) = [i \in 1 .. l |-> BufByte(4 + i)]
    BY Zenon DEF Body, HEADER
  <2>2. \A i \in 1 .. l : 4 + i \in 1 .. 4 + l
    OBVIOUS
  <2>3. \A i \in 1 .. l : e.bytes[4 + i] = body[i]
    BY <1>4
  <2>4. \A i \in 1 .. l : body[i] \in Byte /\ 0 \in Byte
    <3>1. \A i \in 1 .. Len(body) : body[i] \in Byte
      BY <1>4, ElementsOf
    <3>2. 0 \in Byte
      BY DEF Byte
    <3> QED BY <3>1, <3>2, Zenon
  <2>5. PICK s : s = Body(l)
    OBVIOUS
  <2>6. \A i \in 1 .. l : s[i] = IF 4 + i <= a THEN body[i] ELSE 0
    <3>1. \A i \in 1 .. l : s[i] = BufByte(4 + i)
      BY <2>1, <2>5
    <3> QED BY <1>6, <2>2, <2>3, <3>1, ZenonT(60)
  <2>7. s \in Seq(Byte) /\ Len(s) = l
    <3>1. \A i \in 1 .. l : s[i] \in Byte
      BY <2>4, <2>6
    <3>2. s = [i \in 1 .. l |-> s[i]]
      BY <2>1, <2>5
    <3> QED BY <3>1, <3>2
  <2>8. \A i \in 1 .. d : s[i] = body[i]
    BY <1>10, <2>6
  <2>9. \A i \in d + 1 .. l : s[i] = 0
    BY <1>10, <2>6
  <2> QED BY <1>4, <2>5, <2>7, <2>8, <2>9 DEF IsCutAt
<1>12. PICK part : part = ParseFromArray(Type(e), Body(l))
  OBVIOUS
<1>13. IsCutMessage(Type(e), part, e.msg)
  <2>1. IsCut(Body(l), body)
    BY <1>11 DEF IsCut
  <2> QED BY <1>3, <1>12, <2>1, ReadsUpToTheCut, Zenon
<1>14. AtStart(got)
  BY DEF AtStart
<1>15. next \in DeSerializePacket(e.id, l)
  BY <1>8, <1>9, Zenon
<1>16. DeSerializePacket(e.id, l) = {<<r>> : r \in Relay(Type(e), PacketFuncMap[e.id].id, part)}
  BY <1>3, <1>12, <1>14, Zenon DEF DeSerializePacket, Type
<1>17. \E r \in Relay(Type(e), PacketFuncMap[e.id].id, part) : next = <<r>>
  BY <1>15, <1>16
<1> QED BY <1>2, <1>13, <1>17

\* WorkThread hands one packet on at most: the client's own when it was whole, and
\* the client's own but for one value when it was cut.
LEMMA WorkThreadInv == IInv /\ WorkThread => IInv'
<1> SUFFICES ASSUME IInv, WorkThread PROVE IInv'
  OBVIOUS
<1>0. /\ TypeOK /\ StreamInv /\ BufferInv /\ MAX_PACKETBUF \in Nat
  BY ConstantsAssumption DEF IInv
<1>1. /\ arrived > 0 /\ buf' = <<>> /\ got' = got + arrived /\ arrived' = 0
      /\ relayed' \in DeSerializePacket(PacketID, (PacketSize - HEADER) % 2^16)
      /\ sent' = sent /\ stream' = stream /\ from' = from
  BY DEF WorkThread, ReceivePacket
<1>2. /\ from = got /\ got + arrived <= Len(stream) /\ arrived \in Nat /\ got \in Nat
      /\ stream \in Seq(Byte) /\ Len(stream) \in Nat
  BY <1>0, <1>1 DEF TypeOK, BufferInv, StreamInv
<1>3. TypeOK'
  <2>1. Len(relayed') <= 1
    <3>1. relayed' = <<>> \/ \E r : relayed' = <<r>>
      <4>1. PICK id, size : relayed' \in DeSerializePacket(id, size)
        BY <1>1
      <4>2. CASE id \notin DOMAIN PacketFuncMap
        BY <4>1, <4>2 DEF DeSerializePacket
      <4>3. CASE id \in DOMAIN PacketFuncMap /\ ~AtStart(got)
        BY <4>1, <4>3 DEF DeSerializePacket
      <4>4. CASE id \in DOMAIN PacketFuncMap /\ AtStart(got)
        BY <4>1, <4>4 DEF DeSerializePacket
      <4> QED BY <4>2, <4>3, <4>4
    <3>2. CASE relayed' = <<>>
      BY <3>2
    <3>3. CASE \E r : relayed' = <<r>>
      BY <3>3
    <3> QED BY <3>1, <3>2, <3>3
  <2>2. got' \in 0 .. Len(stream) /\ from \in 0 .. got'
    BY <1>1, <1>2
  <2> QED BY <1>0, <1>1, <2>1, <2>2 DEF TypeOK
<1>4. StreamInv'
  BY <1>0, <1>1 DEF StreamInv, Start, Length
<1>5. BufferInv' /\ (arrived' > 0 => relayed' = <<>>)
  BY <1>1 DEF BufferInv
<1>6. WholePacketsAreExact'
  <2>1. SUFFICES ASSUME NEW n \in DOMAIN sent, HeldWhole(n)'
                 PROVE  relayed' = <<[index |-> ClientIndex(sent[n].msg),
                           bytes |-> Word(Length(n)) \o Word(sent[n].id - 1)
                                         \o SubSeq(sent[n].bytes, HEADER + 1, Length(n))]>>
    BY <1>1 DEF WholePacketsAreExact, Length
  <2>2. Start(n) = got /\ Length(n) <= arrived
    <3>1. Start(n) = from /\ got + arrived >= from + Length(n)
      BY <1>1, <2>1 DEF HeldWhole, Start, Length
    <3>2. Length(n) \in Nat
      BY <1>0, ElementsOf, SentBytes DEF StreamInv, Length
    <3> QED BY <1>2, <3>1, <3>2
  <2>3. PICK r \in Relay(Type(sent[n]), PacketFuncMap[sent[n].id].id, sent[n].msg) : relayed' = <<r>>
    BY <1>1, <2>2, HandlesWhole
  <2>4. sent[n] \in Sent
    BY <1>1, <2>2, HandlesWhole
  <2> QED BY <2>3, <2>4, Relays DEF Length
<1>7. CutPacketsAddNothing'
  <2>1. SUFFICES ASSUME NEW n \in DOMAIN sent, HeldPart(n)', relayed' # <<>>
                 PROVE  AddsNothing(sent[n], relayed'[1])
    BY <1>1, Zenon DEF CutPacketsAddNothing, AddsNothing, BeginsWithHeader, Type
  <2>2. Start(n) = got /\ arrived < Length(n)
    <3>1. Start(n) = from /\ got + arrived < from + Length(n)
      BY <1>1, <2>1 DEF HeldPart, Start, Length
    <3>2. Length(n) \in Nat
      BY <1>0, ElementsOf, SentBytes DEF StreamInv, Length
    <3> QED BY <1>2, <3>1, <3>2
  <2>3. PICK part : /\ IsCutMessage(Type(sent[n]), part, sent[n].msg)
                    /\ \E r \in Relay(Type(sent[n]), PacketFuncMap[sent[n].id].id, part) :
                            relayed' = <<r>>
    BY <1>1, <2>1, <2>2, HandlesPart
  <2>4. PICK r \in Relay(Type(sent[n]), PacketFuncMap[sent[n].id].id, part) : relayed' = <<r>>
    BY <2>3
  <2>5. sent[n] \in Sent
    BY <1>0, ElementsOf DEF StreamInv
  <2>6. AddsNothing(sent[n], r)
    BY <2>3, <2>5, RelaysPart
  <2> QED BY <2>4, <2>6
<1> QED BY <1>3, <1>4, <1>5, <1>6, <1>7 DEF IInv

\* Every step keeps it.
LEMMA NextInv == IInv /\ [Next]_vars => IInv'
<1> SUFFICES ASSUME IInv, [Next]_vars PROVE IInv'
  OBVIOUS
<1>1. CASE ClientSends
  BY <1>1, SendsInv
<1>2. CASE Receive
  BY <1>2, ReceiveInv
<1>3. CASE WorkThread
  BY <1>3, WorkThreadInv
<1>4. CASE UNCHANGED vars
  BY <1>4 DEF vars, IInv, TypeOK, StreamInv, BufferInv, WholePacketsAreExact, CutPacketsAddNothing,
              HeldWhole, HeldPart, Start, Length
<1> QED BY <1>1, <1>2, <1>3, <1>4 DEF Next

-----------------------------------------------------------------------------
(* The invariants of the specification.                                     *)

\* It holds in every state.
LEMMA Inductive == Spec => []IInv
  BY InitInv, NextInv, PTL DEF Spec

\* What is received is bytes, no more of them than RecvBuf has room for, and a
\* receive gives rise to at most one packet.
THEOREM TypeCorrect == Spec => []TypeOK
<1>1. IInv => TypeOK
  BY DEF IInv
<1> QED BY <1>1, Inductive, PTL

\* A packet that a receive begins with and brings whole goes to the other clients
\* byte for byte, but for its type, under the client's own id: whatever was
\* received before it, whatever follows it, whatever message is in it.
THEOREM WholePacketsRelayedExactly == Spec => []WholePacketsAreExact
<1>1. IInv => WholePacketsAreExact
  BY DEF IInv
<1> QED BY <1>1, Inductive, PTL

\* Of a packet that TCP cuts, wherever it does, the other clients read the values
\* the client has sent, but for one, and no value that it has not: RecvBuf has
\* zeros behind the cut, whatever was received before.
THEOREM CutPacketsAreOwn == Spec => []CutPacketsAddNothing
<1>1. IInv => CutPacketsAddNothing
  BY DEF IInv
<1> QED BY <1>1, Inductive, PTL
=============================================================================
