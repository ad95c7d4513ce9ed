------------------------ MODULE ShooterParsingProofs ------------------------
(***************************************************************************)
(* ParseFromArray gives back every message that SerializeToArray has       *)
(* written: each turn of the loop reads the next field that was set, and   *)
(* nothing else, and eight turns come to the end of the bytes.             *)
(*                                                                         *)
(* Of a message that is cut somewhere, with zeros behind the cut, it       *)
(* gives the fields in front of the cut and none behind: the turn that     *)
(* meets the cut reads a shorter value or none, and a zero in the place    *)
(* of a tag ends the loop.                                                 *)
(***************************************************************************)
EXTENDS PacketEncodingProofs, ShooterParsing

-----------------------------------------------------------------------------
(* One field.                                                               *)

\* The fields of a message are numbered from 1 on.
LEMMA FieldNumbers ==
    ASSUME NEW type \in DOMAIN Fields, NEW i \in 1 .. Len(Fields[type])
    PROVE  Fields[type][i].no = i
<1> USE DEF Implicit, Explicit
<1>1. Fields["PVector"] = PVector /\ Fields["PRotator"] = PRotator /\ Fields["PClientId"] = PClientId
  BY DEF Fields
<1>2. /\ Fields["PWeapon"] = PWeapon /\ Fields["PFireEvent"] = PFireEvent
      /\ Fields["PMovement"] = PMovement /\ Fields["PAnimState"] = PAnimState
  BY DEF Fields
<1>3. /\ \A k \in 1 .. 3 : PVector[k].no = k
      /\ \A k \in 1 .. 3 : PRotator[k].no = k
      /\ \A k \in 1 .. 1 : PClientId[k].no = k
  BY DEF PVector, PRotator, PClientId
<1>4. /\ \A k \in 1 .. 8 : PWeapon[k].no = k
      /\ \A k \in 1 .. 4 : PFireEvent[k].no = k
      /\ \A k \in 1 .. 4 : PMovement[k].no = k
      /\ \A k \in 1 .. 3 : PAnimState[k].no = k
  <2>1. \A k \in 1 .. 8 : PWeapon[k].no = k
    BY DEF PWeapon
  <2>2. \A k \in 1 .. 4 : PFireEvent[k].no = k
    BY DEF PFireEvent
  <2>3. \A k \in 1 .. 4 : PMovement[k].no = k
    BY DEF PMovement
  <2>4. \A k \in 1 .. 3 : PAnimState[k].no = k
    BY DEF PAnimState
  <2> QED BY <2>1, <2>2, <2>3, <2>4
<1>5. type \in {"PVector", "PRotator", "PClientId", "PWeapon", "PFireEvent", "PMovement", "PAnimState"}
  BY DEF Fields
<1>6. CASE type = "PVector"
  BY <1>1, <1>3, <1>6, FlatMessages
<1>7. CASE type = "PRotator"
  BY <1>1, <1>3, <1>7, FlatMessages
<1>8. CASE type = "PClientId"
  BY <1>1, <1>3, <1>8, FlatMessages
<1>9. CASE type = "PWeapon"
  BY <1>2, <1>4, <1>9, OtherMessages
<1>10. CASE type = "PFireEvent"
  BY <1>2, <1>4, <1>10, OtherMessages
<1>11. CASE type = "PMovement"
  BY <1>2, <1>4, <1>11, OtherMessages
<1>12. CASE type = "PAnimState"
  BY <1>2, <1>4, <1>12, OtherMessages
<1> QED BY <1>5, <1>6, <1>7, <1>8, <1>9, <1>10, <1>11, <1>12

\* No two fields of a message have one name.
LEMMA FieldNames ==
    ASSUME NEW type \in DOMAIN Fields, NEW i \in 1 .. Len(Fields[type]),
           NEW k \in 1 .. Len(Fields[type]), Fields[type][i].name = Fields[type][k].name
    PROVE  i = k
<1> USE DEF Implicit, Explicit
<1> DEFINE Differ(fields, n) == \A a, b \in 1 .. n : fields[a].name = fields[b].name => a = b
<1>1. Fields["PVector"] = PVector /\ Fields["PRotator"] = PRotator /\ Fields["PClientId"] = PClientId
  BY DEF Fields
<1>2. /\ Fields["PWeapon"] = PWeapon /\ Fields["PFireEvent"] = PFireEvent
      /\ Fields["PMovement"] = PMovement /\ Fields["PAnimState"] = PAnimState
  BY DEF Fields
<1>3. Differ(PVector, 3) /\ Differ(PRotator, 3) /\ Differ(PClientId, 1)
  BY DEF PVector, PRotator, PClientId
<1>4. Differ(PWeapon, 8)
  BY DEF PWeapon
<1>5. Differ(PFireEvent, 4) /\ Differ(PMovement, 4) /\ Differ(PAnimState, 3)
  BY DEF PFireEvent, PMovement, PAnimState
<1>6. type \in {"PVector", "PRotator", "PClientId", "PWeapon", "PFireEvent", "PMovement", "PAnimState"}
  BY DEF Fields
<1>7. \E n : Len(Fields[type]) = n /\ Differ(Fields[type], n)
  <2>1. CASE type = "PVector"
    BY <1>1, <1>3, <2>1, FlatMessages
  <2>2. CASE type = "PRotator"
    BY <1>1, <1>3, <2>2, FlatMessages
  <2>3. CASE type = "PClientId"
    BY <1>1, <1>3, <2>3, FlatMessages
  <2>4. CASE type = "PWeapon"
    BY <1>2, <1>4, <2>4, OtherMessages
  <2>5. CASE type = "PFireEvent"
    BY <1>2, <1>5, <2>5, OtherMessages
  <2>6. CASE type = "PMovement"
    BY <1>2, <1>5, <2>6, OtherMessages
  <2>7. CASE type = "PAnimState"
    BY <1>2, <1>5, <2>7, OtherMessages
  <2> QED BY <1>6, <2>1, <2>2, <2>3, <2>4, <2>5, <2>6, <2>7
<1> QED BY <1>7

\* A tag says which field it is the tag of.
LEMMA KnowsFacts ==
    ASSUME NEW type \in DOMAIN Fields, NEW i \in 1 .. Len(Fields[type])
    PROVE  LET f == Fields[type][i]
           IN  /\ IsField(f) /\ Tag(f) \in Byte
               /\ Tag(f) \div 8 = i /\ Knows(type, Tag(f))
<1> DEFINE f == Fields[type][i]
<1>1. IsField(f) /\ f.no = i /\ i \in 1 .. 8 /\ i \in Int
  BY FieldsFacts, FieldNumbers
<1>2. Tag(f) \in {8 * i + 5, 8 * i + 0, 8 * i + 2}
  BY <1>1, MessageTypes DEF IsField, Tag, Numbers
<1> HIDE DEF f
<1>3. Tag(f) \in Byte /\ Tag(f) \div 8 = i
  <2>1. \A k \in 1 .. 8 : \A c \in {0, 2, 5} : 8 * k + c \in 0 .. 255 /\ (8 * k + c) \div 8 = k
    OBVIOUS
  <2>2. PICK c \in {0, 2, 5} : Tag(f) = 8 * i + c
    BY <1>2
  <2>3. 8 * i + c \in 0 .. 255 /\ (8 * i + c) \div 8 = i
    BY <1>1, <2>1
  <2> QED BY <2>2, <2>3 DEF Byte
<1>4. Knows(type, Tag(f))
  BY <1>3 DEF Knows, f
<1> QED BY <1>1, <1>3, <1>4 DEF f

\* A number is read as it was written, whatever follows it.
LEMMA NumberReads ==
    ASSUME NEW type \in Numbers, NEW v \in Number(type), NEW tail \in Seq(Byte)
    PROVE  LET bytes == NumberBytes(type, v) \o tail
               end   == NumberLength(type, bytes)
           IN  /\ bytes \in Seq(Byte)
               /\ end \in Nat /\ end <= Len(bytes)
               /\ NumberValue(type, bytes) = v
               /\ Drop(bytes, end) = tail
<1> DEFINE b     == NumberBytes(type, v)
           bytes == b \o tail
<1>1. b \in Seq(Byte)
  BY NumberFacts
<1>2. /\ bytes \in Seq(Byte) /\ Len(bytes) = Len(b) + Len(tail)
      /\ Len(b) \in Nat /\ Len(tail) \in Nat
  BY <1>1, ConcatFacts
<1>3. SubSeq(bytes, 1, Len(b)) = b /\ SubSeq(bytes, Len(b) + 1, Len(bytes)) = tail
  BY <1>1, DropFacts
<1>4. NumberLength(type, bytes) = Len(b) /\ NumberValue(type, bytes) = v
  <2>1. CASE type = "float"
    <3>1. b = v /\ Len(b) = 4
      BY <2>1 DEF Number, NumberBytes
    <3>2. NumberLength(type, bytes) = 4 /\ NumberValue(type, bytes) = SubSeq(bytes, 1, 4)
      BY <2>1 DEF NumberLength, NumberValue
    <3> HIDE DEF b, bytes
    <3> QED BY <3>1, <3>2, <1>3
  <2>2. CASE type # "float"
    <3>1. v \in UInt32 /\ b = Varint(v)
      <4>1. CASE type = "uint32"
        BY <4>1 DEF Number, NumberBytes
      <4>2. CASE type = "bool"
        <5>1. v \in 0 .. 127
          BY <4>2 DEF Number
        <5> QED BY <4>2, <5>1, SmallVarint DEF NumberBytes
      <4> QED BY <2>2, <4>1, <4>2 DEF Numbers
    <3>2. VarintParse(bytes) = [length |-> Len(b), value |-> v]
      BY <3>1, ReadsWhatWasWritten
    <3>3. /\ NumberLength(type, bytes) = VarintParse(bytes).length
          /\ NumberValue(type, bytes) = VarintParse(bytes).value
      BY <2>2 DEF NumberLength, NumberValue
    <3> QED BY <3>2, <3>3
  <2> QED BY <2>1, <2>2
<1> HIDE DEF b
<1>5. Drop(bytes, Len(b)) = tail
  BY <1>3 DEF Drop
<1>6. Len(b) <= Len(bytes)
  BY <1>2
<1> QED BY <1>2, <1>4, <1>5, <1>6, Zenon DEF b

-----------------------------------------------------------------------------
(* The part of a message that has been read when i fields have been.        *)

Upto(type, m, i) ==
    [name \in {x \in DOMAIN m : \E k \in 1 .. i : k <= Len(Fields[type]) /\ Fields[type][k].name = x}
        |-> m[name]]

\* The field that has a number.
IsFieldAt(type, i, f) == i \in 1 .. Len(Fields[type]) /\ f = Fields[type][i]

\* The field that comes next is not in it.
LEMMA NotYet ==
    ASSUME NEW type \in DOMAIN Fields, NEW m, NEW i, NEW f, IsFieldAt(type, i, f),
           NEW k, k = i - 1
    PROVE  f.name \notin DOMAIN Upto(type, m, k)
<1>1. i \in 1 .. Len(Fields[type]) /\ f = Fields[type][i]
  BY DEF IsFieldAt
<1>2. \A j \in 1 .. i - 1 : j <= Len(Fields[type]) => Fields[type][j].name # f.name
  <2>1. SUFFICES ASSUME NEW j \in 1 .. i - 1, j <= Len(Fields[type]), Fields[type][j].name = f.name
                 PROVE  FALSE
    OBVIOUS
  <2>2. j \in 1 .. Len(Fields[type]) /\ j # i
    BY <1>1, <2>1, FieldsFacts
  <2> QED BY <1>1, <2>1, <2>2, FieldNames
<1> QED BY <1>2 DEF Upto

\* A field that is set is the next of them.
LEMMA SetNext ==
    ASSUME NEW type \in DOMAIN Fields, NEW m, NEW i \in 1 .. Len(Fields[type]),
           Fields[type][i].name \in DOMAIN m,
           Fields[type][i].implicit => m[Fields[type][i].name] # Default(Fields[type][i].type)
    PROVE  Set(Upto(type, m, i - 1), Fields[type][i], m[Fields[type][i].name]) = Upto(type, m, i)
<1> DEFINE f    == Fields[type][i]
           N(k) == {x \in DOMAIN m : \E j \in 1 .. k : j <= Len(Fields[type]) /\ Fields[type][j].name = x}
<1>0. i \in Nat /\ i <= Len(Fields[type]) /\ Len(Fields[type]) \in Nat
  BY FieldsFacts
<1>1. N(i) = (N(i - 1) \ {f.name}) \cup {f.name}
  BY <1>0
<1>2. DOMAIN Upto(type, m, i - 1) = N(i - 1)
  BY DEF Upto
<1>3. Set(Upto(type, m, i - 1), f, m[f.name])
        = [name \in N(i) |-> IF name = f.name THEN m[f.name] ELSE Upto(type, m, i - 1)[name]]
  BY <1>1, <1>2, Zenon DEF Set
<1>4. \A name \in N(i) : name # f.name => Upto(type, m, i - 1)[name] = m[name]
  BY <1>1 DEF Upto
<1>5. Upto(type, m, i) = [name \in N(i) |-> m[name]]
  BY DEF Upto
<1> HIDE DEF N
<1> QED BY <1>3, <1>4, <1>5

\* One that is not leaves the message as it was.
LEMMA SkipNext ==
    ASSUME NEW type \in DOMAIN Fields, NEW m, NEW i \in 1 .. 8,
           i > Len(Fields[type]) \/ Fields[type][i].name \notin DOMAIN m
    PROVE  Upto(type, m, i) = Upto(type, m, i - 1)
<1>0. i \in Nat /\ Len(Fields[type]) \in Nat
  BY FieldsFacts
<1>1. \A x \in DOMAIN m :
        (\E j \in 1 .. i : j <= Len(Fields[type]) /\ Fields[type][j].name = x)
          <=> (\E j \in 1 .. i - 1 : j <= Len(Fields[type]) /\ Fields[type][j].name = x)
  BY <1>0
<1> QED BY <1>1 DEF Upto

\* It is nothing in the beginning and the message in the end.
LEMMA UptoEnds ==
    ASSUME NEW type \in DOMAIN Fields, NEW m, IsRecordOf(type, m), NEW n \in Nat,
           Len(Fields[type]) <= n
    PROVE  Upto(type, m, 0) = Empty /\ Upto(type, m, n) = m
<1>1. Upto(type, m, 0) = Empty
  BY DEF Upto, Empty
<1>2. \A x \in DOMAIN m : \E k \in 1 .. n : k <= Len(Fields[type]) /\ Fields[type][k].name = x
  BY FieldsFacts DEF IsRecordOf, Names
<1>3. m = [name \in DOMAIN m |-> m[name]]
  BY DEF IsRecordOf
<1> QED BY <1>1, <1>2, <1>3 DEF Upto

-----------------------------------------------------------------------------
(* One turn of a loop.                                                     *)

\* Where there is nothing left to read a turn does nothing.
LEMMA Idle ==
    ASSUME NEW type, NEW s, Done(s)
    PROVE  Turn(type, s) = s /\ FlatTurn(type, s) = s
  BY DEF Turn, FlatTurn

\* A turn of the loop where there is something to read.
LEMMA FlatTurnIs ==
    ASSUME NEW type, NEW m, NEW bytes, bytes # <<>>
    PROVE  FlatTurn(type, Reading(m, bytes))
             = IF ~Knows(type, Head(bytes)) THEN Failed(m)
               ELSE ReadNumber(Reading(m, bytes), Fields[type][Head(bytes) \div 8], Tail(bytes))
<1> PICK s : s = Reading(m, bytes)
  OBVIOUS
<1>1. s.msg = m /\ s.rest = bytes /\ ~Done(s)
  BY DEF Reading, Done
<1>2. FlatTurn(type, s) = IF ~Knows(type, Head(bytes)) THEN Failed(m)
                          ELSE ReadNumber(s, Fields[type][Head(bytes) \div 8], Tail(bytes))
  BY <1>1, Zenon DEF FlatTurn
<1> QED BY <1>2, Zenon

\* The same of the messages that the packets carry.
LEMMA TurnCases ==
    ASSUME NEW type, NEW s
    PROVE  Turn(type, s)
             = IF Done(s) THEN s
               ELSE IF ~Knows(type, Head(s.rest)) THEN Failed(s.msg)
               ELSE IF IsMessage(Fields[type][Head(s.rest) \div 8].type)
               THEN ParseMessage(s, Fields[type][Head(s.rest) \div 8], Tail(s.rest))
               ELSE ReadNumber(s, Fields[type][Head(s.rest) \div 8], Tail(s.rest))
BY Zenon DEF Turn

\* And of one that has bytes left.
LEMMA TurnIs ==
    ASSUME NEW type, NEW m, NEW bytes, bytes # <<>>
    PROVE  LET f == Fields[type][Head(bytes) \div 8]
           IN  Turn(type, Reading(m, bytes))
                 = IF ~Knows(type, Head(bytes)) THEN Failed(m)
                   ELSE IF IsMessage(f.type) THEN ParseMessage(Reading(m, bytes), f, Tail(bytes))
                   ELSE ReadNumber(Reading(m, bytes), f, Tail(bytes))
<1> PICK s : s = Reading(m, bytes)
  OBVIOUS
<1>1. s.msg = m /\ s.rest = bytes /\ ~Done(s)
  BY DEF Reading, Done
<1>2. Turn(type, s)
        = IF ~Knows(type, Head(bytes)) THEN Failed(m)
          ELSE IF IsMessage(Fields[type][Head(bytes) \div 8].type)
          THEN ParseMessage(s, Fields[type][Head(bytes) \div 8], Tail(bytes))
          ELSE ReadNumber(s, Fields[type][Head(bytes) \div 8], Tail(bytes))
  BY <1>1, TurnCases, Zenon
<1> QED BY <1>2, Zenon

\* A number that is there.
LEMMA ReadNumberIs ==
    ASSUME NEW m, NEW all, NEW f, NEW bytes,
           NEW end, end = NumberLength(f.type, bytes), ~(end > Len(bytes))
    PROVE  ReadNumber(Reading(m, all), f, bytes)
             = Reading(Set(m, f, NumberValue(f.type, bytes)), Drop(bytes, end))
<1> PICK s : s = Reading(m, all)
  OBVIOUS
<1>1. s.msg = m
  BY DEF Reading
<1>2. ReadNumber(s, f, bytes) = Reading(Set(m, f, NumberValue(f.type, bytes)), Drop(bytes, end))
  BY <1>1, Zenon DEF ReadNumber
<1> QED BY <1>2, Zenon

\* A message that is there.
LEMMA ParseMessageIs ==
    ASSUME NEW m, NEW all, NEW f, NEW bytes,
           NEW size, size = VarintParse(bytes),
           NEW end, end = size.length + size.value, ~(end > Len(bytes)),
           NEW inner, inner = FlatParse(f.type, Reading(Get(m, f.name, f.type),
                                                        SubSeq(bytes, size.length + 1, end)))
    PROVE  /\ inner.ok  => ParseMessage(Reading(m, all), f, bytes)
                             = Reading(Set(m, f, inner.msg), Drop(bytes, end))
           /\ ~inner.ok => ParseMessage(Reading(m, all), f, bytes)
                             = Failed(Set(m, f, inner.msg))
<1> PICK s : s = Reading(m, all)
  OBVIOUS
<1>1. s.msg = m
  BY DEF Reading
<1>2. CASE inner.ok
  <2>1. ParseMessage(s, f, bytes) = Reading(Set(m, f, inner.msg), Drop(bytes, end))
    BY <1>1, <1>2, Zenon DEF ParseMessage
  <2> QED BY <1>2, <2>1, Zenon
<1>3. CASE ~inner.ok
  <2>1. ParseMessage(s, f, bytes) = Failed(Set(m, f, inner.msg))
    BY <1>1, <1>3, Zenon DEF ParseMessage
  <2> QED BY <1>3, <2>1, Zenon
<1> QED BY <1>2, <1>3, Zenon

-----------------------------------------------------------------------------
(* The loops, turn by turn.                                                 *)

\* A message of numbers is read in four turns.
LEMMA FlatTurns ==
    ASSUME NEW type, NEW s
    PROVE  LET s1 == FlatTurn(type, s)
               s2 == FlatTurn(type, s1)
               s3 == FlatTurn(type, s2)
               s4 == FlatTurn(type, s3)
           IN  FlatParse(type, s) = s4
<1> DEFINE Loop(f) == [n \in 0 .. 4 |-> IF n = 0 THEN s ELSE FlatTurn(type, f[n - 1])]
           s1 == FlatTurn(type, s)
           s2 == FlatTurn(type, s1)
           s3 == FlatTurn(type, s2)
           s4 == FlatTurn(type, s3)
           all == [n \in 0 .. 4 |-> CASE n = 0 -> s [] n = 1 -> s1 [] n = 2 -> s2
                                       [] n = 3 -> s3 [] n = 4 -> s4]
<1>1. /\ 1 - 1 = 0 /\ 1 \in 0 .. 4 /\ 1 # 0
      /\ 2 - 1 = 1 /\ 2 \in 0 .. 4 /\ 2 # 0
      /\ 3 - 1 = 2 /\ 3 \in 0 .. 4 /\ 3 # 0
      /\ 4 - 1 = 3 /\ 4 \in 0 .. 4 /\ 4 # 0
      /\ 0 \in 0 .. 4
  OBVIOUS
<1>2. \A f : f = Loop(f) => f[4] = s4
  <2>1. SUFFICES ASSUME NEW f, f = Loop(f)
                 PROVE  f[4] = s4
    OBVIOUS
  <2>2. \A n \in 0 .. 4 : f[n] = IF n = 0 THEN s ELSE FlatTurn(type, f[n - 1])
    BY <2>1, Zenon
  <2>3. /\ f[0] = s /\ f[1] = FlatTurn(type, f[0]) /\ f[2] = FlatTurn(type, f[1])
        /\ f[3] = FlatTurn(type, f[2]) /\ f[4] = FlatTurn(type, f[3])
    BY <1>1, <2>2
  <2> QED BY <2>3, Zenon
<1>3. all = Loop(all)
  <2>1. /\ all[0] = s
        /\ all[1] = s1
        /\ all[2] = s2
        /\ all[3] = s3
        /\ all[4] = s4
    BY <1>1
  <2> HIDE DEF all
  <2>2. \A n \in 0 .. 4 : n # 0 => all[n] = FlatTurn(type, all[n - 1])
    <3>1. /\ all[1] = FlatTurn(type, all[0]) /\ all[2] = FlatTurn(type, all[1])
          /\ all[3] = FlatTurn(type, all[2]) /\ all[4] = FlatTurn(type, all[3])
      BY <2>1, Zenon
    <3>2. \A n \in 0 .. 4 : n = 0 \/ n = 1 \/ n = 2 \/ n = 3 \/ n = 4
      OBVIOUS
    <3> QED BY <1>1, <3>1, <3>2, Zenon
  <2>3. all = [n \in 0 .. 4 |-> all[n]]
    BY DEF all
  <2>4. \A n \in 0 .. 4 : all[n] = IF n = 0 THEN s ELSE FlatTurn(type, all[n - 1])
    BY <2>1, <2>2, Zenon
  <2> QED BY <2>3, <2>4, Zenon
<1>4. FlatParse(type, s) = (CHOOSE f : f = Loop(f))[4]
  BY Zenon DEF FlatParse
<1> HIDE DEF Loop, all, s1, s2, s3, s4
<1>5. (CHOOSE f : f = Loop(f)) = Loop(CHOOSE f : f = Loop(f))
  BY <1>3, Zenon
<1> QED BY <1>2, <1>4, <1>5, Zenon DEF s1, s2, s3, s4

\* Any message is read in eight.
LEMMA Turns ==
    ASSUME NEW type, NEW s
    PROVE  LET s1 == Turn(type, s)
               s2 == Turn(type, s1)
               s3 == Turn(type, s2)
               s4 == Turn(type, s3)
               s5 == Turn(type, s4)
               s6 == Turn(type, s5)
               s7 == Turn(type, s6)
               s8 == Turn(type, s7)
           IN  Parse(type, s) = s8
<1> DEFINE Loop(f) == [n \in 0 .. 8 |-> IF n = 0 THEN s ELSE Turn(type, f[n - 1])]
           s1 == Turn(type, s)
           s2 == Turn(type, s1)
           s3 == Turn(type, s2)
           s4 == Turn(type, s3)
           s5 == Turn(type, s4)
           s6 == Turn(type, s5)
           s7 == Turn(type, s6)
           s8 == Turn(type, s7)
           all == [n \in 0 .. 8 |-> CASE n = 0 -> s [] n = 1 -> s1 [] n = 2 -> s2
                                       [] n = 3 -> s3 [] n = 4 -> s4 [] n = 5 -> s5
                                       [] n = 6 -> s6 [] n = 7 -> s7 [] n = 8 -> s8]
<1>1. /\ 1 - 1 = 0 /\ 1 \in 0 .. 8 /\ 1 # 0
      /\ 2 - 1 = 1 /\ 2 \in 0 .. 8 /\ 2 # 0
      /\ 3 - 1 = 2 /\ 3 \in 0 .. 8 /\ 3 # 0
      /\ 4 - 1 = 3 /\ 4 \in 0 .. 8 /\ 4 # 0
      /\ 5 - 1 = 4 /\ 5 \in 0 .. 8 /\ 5 # 0
      /\ 6 - 1 = 5 /\ 6 \in 0 .. 8 /\ 6 # 0
      /\ 7 - 1 = 6 /\ 7 \in 0 .. 8 /\ 7 # 0
      /\ 8 - 1 = 7 /\ 8 \in 0 .. 8 /\ 8 # 0
      /\ 0 \in 0 .. 8
  OBVIOUS
<1>2. \A f : f = Loop(f) => f[8] = s8
  <2>1. SUFFICES ASSUME NEW f, f = Loop(f)
                 PROVE  f[8] = s8
    OBVIOUS
  <2>2. \A n \in 0 .. 8 : f[n] = IF n = 0 THEN s ELSE Turn(type, f[n - 1])
    BY <2>1, Zenon
  <2>3. /\ f[0] = s /\ f[1] = Turn(type, f[0]) /\ f[2] = Turn(type, f[1])
        /\ f[3] = Turn(type, f[2]) /\ f[4] = Turn(type, f[3]) /\ f[5] = Turn(type, f[4])
        /\ f[6] = Turn(type, f[5]) /\ f[7] = Turn(type, f[6]) /\ f[8] = Turn(type, f[7])
    BY <1>1, <2>2
  <2> QED BY <2>3, Zenon
<1>3. all = Loop(all)
  <2>1. /\ all[0] = s
        /\ all[1] = s1
        /\ all[2] = s2
        /\ all[3] = s3
        /\ all[4] = s4
        /\ all[5] = s5
        /\ all[6] = s6
        /\ all[7] = s7
        /\ all[8] = s8
    BY <1>1
  <2> HIDE DEF all
  <2>2. \A n \in 0 .. 8 : n # 0 => all[n] = Turn(type, all[n - 1])
    <3>1. /\ all[1] = Turn(type, all[0]) /\ all[2] = Turn(type, all[1])
          /\ all[3] = Turn(type, all[2]) /\ all[4] = Turn(type, all[3])
          /\ all[5] = Turn(type, all[4]) /\ all[6] = Turn(type, all[5])
          /\ all[7] = Turn(type, all[6]) /\ all[8] = Turn(type, all[7])
      BY <2>1, Zenon
    <3>2. \A n \in 0 .. 8 : 
            \/ n = 0 \/ n = 1 \/ n = 2 \/ n = 3 \/ n = 4 \/ n = 5 \/ n = 6 \/ n = 7 \/ n = 8
      OBVIOUS
    <3> QED BY <1>1, <3>1, <3>2, Zenon
  <2>3. all = [n \in 0 .. 8 |-> all[n]]
    BY DEF all
  <2>4. \A n \in 0 .. 8 : all[n] = IF n = 0 THEN s ELSE Turn(type, all[n - 1])
    BY <2>1, <2>2, Zenon
  <2> QED BY <2>3, <2>4, Zenon
<1>4. Parse(type, s) = (CHOOSE f : f = Loop(f))[8]
  BY Zenon DEF Parse
<1> HIDE DEF Loop, all, s1, s2, s3, s4, s5, s6, s7, s8
<1>5. (CHOOSE f : f = Loop(f)) = Loop(CHOOSE f : f = Loop(f))
  BY <1>3, Zenon
<1> QED BY <1>2, <1>4, <1>5, Zenon DEF s1, s2, s3, s4, s5, s6, s7, s8

-----------------------------------------------------------------------------
(* The messages of numbers.                                                 *)

\* What is read first and what comes after it.
IsSplit(bytes, first, rest) ==
    first \in Seq(Byte) /\ rest \in Seq(Byte) /\ bytes = first \o rest

\* A turn of the loop reads one field.
LEMMA FlatTurnReads ==
    ASSUME NEW type \in Flat, NEW i \in 1 .. Len(Fields[type]), NEW m,
           NEW v \in Number(Fields[type][i].type), NEW tail \in Seq(Byte)
    PROVE  LET f     == Fields[type][i]
               bytes == (<<Tag(f)>> \o NumberBytes(f.type, v)) \o tail
           IN  FlatTurn(type, Reading(m, bytes)) = Reading(Set(m, f, v), tail)
<1> DEFINE f     == Fields[type][i]
           b     == NumberBytes(f.type, v)
           rest  == b \o tail
           bytes == (<<Tag(f)>> \o b) \o tail
<1>1. type \in DOMAIN Fields
  BY MessageTypes DEF IsMessage
<1>2. f.type \in Numbers
  BY <1>1, FieldsFacts
<1>3. Tag(f) \in Byte /\ Tag(f) \div 8 = i /\ Knows(type, Tag(f))
  BY <1>1, KnowsFacts
<1>4. b \in Seq(Byte) /\ <<Tag(f)>> \in Seq(Byte)
  BY <1>2, <1>3, NumberFacts
<1>5. /\ rest \in Seq(Byte)
      /\ NumberLength(f.type, rest) <= Len(rest)
      /\ NumberValue(f.type, rest) = v
      /\ Drop(rest, NumberLength(f.type, rest)) = tail
      /\ NumberLength(f.type, rest) \in Nat
  BY <1>2, NumberReads
<1>6. bytes = <<Tag(f)>> \o rest
  BY <1>4, Assoc
<1>7. bytes # <<>> /\ Head(bytes) = Tag(f) /\ Tail(bytes) = rest
  BY <1>3, <1>5, <1>6, HeadTail, SMTT(30)
<1>8. ~(NumberLength(f.type, rest) > Len(rest))
  BY <1>5
<1>9. f = Fields[type][Head(bytes) \div 8] /\ Knows(type, Head(bytes))
  BY <1>3, <1>7, Zenon
<1> HIDE DEF f, b, rest, bytes
<1>10. FlatTurn(type, Reading(m, bytes)) = ReadNumber(Reading(m, bytes), f, rest)
  BY <1>7, <1>9, FlatTurnIs, Zenon
<1>11. ReadNumber(Reading(m, bytes), f, rest)
         = Reading(Set(m, f, NumberValue(f.type, rest)), Drop(rest, NumberLength(f.type, rest)))
  BY <1>8, ReadNumberIs
<1>12. FlatTurn(type, Reading(m, bytes)) = Reading(Set(m, f, v), tail)
  BY <1>5, <1>10, <1>11, Zenon
<1> QED BY <1>12, Zenon DEF f, b, bytes

\* So it goes from field to field: a field that is not set has no bytes.
LEMMA FlatStep ==
    ASSUME NEW type \in Flat, NEW m, IsFlatMessage(type, m), NEW i \in 1 .. 3, NEW k, k = i - 1,
           NEW tail, NEW bytes, IsSplit(bytes, FlatFieldBytes(type, i, m), tail)
    PROVE  \/ Reading(Upto(type, m, k), bytes) = Reading(Upto(type, m, i), tail)
           \/ FlatTurn(type, Reading(Upto(type, m, k), bytes)) = Reading(Upto(type, m, i), tail)
<1>1. type \in DOMAIN Fields /\ tail \in Seq(Byte) /\ bytes = FlatFieldBytes(type, i, m) \o tail
  BY MessageTypes DEF IsMessage, IsSplit
<1>2. CASE HasField(type, i, m)
  <2> DEFINE f == Fields[type][i]
  <2>1. i \in 1 .. Len(Fields[type]) /\ f.name \in DOMAIN m
    BY <1>1, <1>2, FieldsFacts DEF HasField, IsWritten
  <2>2. m[f.name] \in Number(f.type) /\ (f.implicit => m[f.name] # Default(f.type))
    BY <2>1 DEF IsFlatMessage
  <2>3. FlatFieldBytes(type, i, m) = <<Tag(f)>> \o NumberBytes(f.type, m[f.name])
    BY <1>2 DEF FlatFieldBytes
  <2>4. Set(Upto(type, m, i - 1), f, m[f.name]) = Upto(type, m, i)
    BY <1>1, <2>1, <2>2, SetNext
  <2>5. FlatTurn(type, Reading(Upto(type, m, i - 1),
                               (<<Tag(f)>> \o NumberBytes(f.type, m[f.name])) \o tail))
          = Reading(Set(Upto(type, m, i - 1), f, m[f.name]), tail)
    BY <1>1, <2>1, <2>2, FlatTurnReads
  <2> QED BY <1>1, <2>3, <2>4, <2>5, Zenon
<1>3. CASE ~HasField(type, i, m)
  <2>1. FlatFieldBytes(type, i, m) \o tail = tail
    BY <1>3 DEF FlatFieldBytes
  <2>2. i > Len(Fields[type]) \/ Fields[type][i].name \notin DOMAIN m
    <3>1. ASSUME i <= Len(Fields[type]), Fields[type][i].name \in DOMAIN m
          PROVE  FALSE
      <4>1. i \in 1 .. Len(Fields[type])
        BY <1>1, <3>1, FieldsFacts
      <4> QED BY <1>3, <3>1, <4>1 DEF HasField, IsWritten, IsFlatMessage
    <3>2. i \in Int /\ Len(Fields[type]) \in Int
      BY <1>1, FieldsFacts
    <3> QED BY <3>1, <3>2
  <2>3. Upto(type, m, i) = Upto(type, m, i - 1)
    BY <1>1, <2>2, SkipNext
  <2> QED BY <1>1, <2>1, <2>3
<1> QED BY <1>2, <1>3

\* A message of numbers is read back as it was.
LEMMA FlatReadsBack ==
    ASSUME NEW type \in Flat, NEW m, IsFlatMessage(type, m)
    PROVE  FlatParse(type, Reading(Empty, FlatBytes(type, m))) = Reading(m, <<>>)
<1> DEFINE b1 == FlatFieldBytes(type, 1, m)
           b2 == FlatFieldBytes(type, 2, m)
           b3 == FlatFieldBytes(type, 3, m)
           s0 == Reading(Upto(type, m, 0), b1 \o (b2 \o b3))
           s1 == Reading(Upto(type, m, 1), b2 \o b3)
           s2 == Reading(Upto(type, m, 2), b3)
           s3 == Reading(Upto(type, m, 3), <<>>)
<1>1. b1 \in Seq(Byte) /\ b2 \in Seq(Byte) /\ b3 \in Seq(Byte) /\ <<>> \in Seq(Byte)
  BY FlatFieldFacts
<1>2. FlatBytes(type, m) = b1 \o (b2 \o b3) /\ b3 \o <<>> = b3 /\ b2 \o b3 \in Seq(Byte)
  BY <1>1, Assoc DEF FlatBytes
<1>3. Upto(type, m, 0) = Empty /\ Upto(type, m, 3) = m
  <2>1. type \in DOMAIN Fields /\ Len(Fields[type]) <= 3
    BY MessageTypes, FieldsFacts DEF IsMessage
  <2> QED BY <2>1, UptoEnds DEF IsFlatMessage
<1>4. /\ 1 \in 1 .. 3 /\ 2 \in 1 .. 3 /\ 3 \in 1 .. 3
      /\ 0 = 1 - 1 /\ 1 = 2 - 1 /\ 2 = 3 - 1
  OBVIOUS
<1>5. /\ IsSplit(b1 \o (b2 \o b3), b1, b2 \o b3)
      /\ IsSplit(b2 \o b3, b2, b3) /\ IsSplit(b3, b3, <<>>)
  BY <1>1, <1>2 DEF IsSplit
<1>6. /\ s0 = s1 \/ FlatTurn(type, s0) = s1
      /\ s1 = s2 \/ FlatTurn(type, s1) = s2
      /\ s2 = s3 \/ FlatTurn(type, s2) = s3
  <2> HIDE DEF b1, b2, b3
  <2>1. PICK c1, c2 : c1 = b1 \o (b2 \o b3) /\ c2 = b2 \o b3
    OBVIOUS
  <2>2. IsSplit(c1, b1, c2) /\ IsSplit(c2, b2, b3) /\ IsSplit(b3, b3, <<>>)
    BY <1>5, <2>1, Zenon
  <2> QED BY <1>4, <2>1, <2>2, FlatStep DEF b1, b2, b3
<1>7. FlatTurn(type, s3) = s3
  BY Idle DEF Done, Reading
<1> HIDE DEF s0, s1, s2, s3
<1>8. FlatParse(type, s0)
        = FlatTurn(type, FlatTurn(type, FlatTurn(type, FlatTurn(type, s0))))
  BY FlatTurns
<1>9. FlatParse(type, s0) = s3
  BY <1>6, <1>7, <1>8
<1> QED BY <1>2, <1>3, <1>9, Zenon DEF s0, s3

-----------------------------------------------------------------------------
(* The messages that the packets carry.                                     *)

\* What is written of a field.
Written(f, v) == <<Tag(f)>> \o ValueBytes(f.type, v)

\* Bytes are put together in one way.
LEMMA Splits ==
    ASSUME NEW p \in Seq(Byte), NEW q \in Seq(Byte)
    PROVE  \E z \in Seq(Byte) : IsSplit(z, p, q)
<1>1. p \o q \in Seq(Byte)
  BY Join
<1> QED BY <1>1, Zenon DEF IsSplit

\* What comes second can go with what comes after it.
LEMMA Shift ==
    ASSUME NEW p, NEW q, NEW r, NEW front, NEW back, NEW all,
           IsSplit(front, p, q), IsSplit(all, front, r), IsSplit(back, q, r)
    PROVE  IsSplit(all, p, back)
<1>1. /\ p \in Seq(Byte) /\ q \in Seq(Byte) /\ r \in Seq(Byte)
      /\ front = p \o q /\ all = front \o r /\ back = q \o r
  BY Zenon DEF IsSplit
<1>2. (p \o q) \o r = p \o (q \o r)
  BY <1>1, Assoc
<1>3. q \o r \in Seq(Byte)
  BY <1>1, Join
<1> QED BY <1>1, <1>2, <1>3, Zenon DEF IsSplit

\* A message is read with its size in front of it.
LEMMA ValueReads ==
    ASSUME NEW type \in Flat, NEW v, IsFlatMessage(type, v), NEW tail,
           NEW bytes, IsSplit(bytes, ValueBytes(type, v), tail)
    PROVE  \E length, end \in Nat :
              /\ VarintParse(bytes).length = length
              /\ end = length + VarintParse(bytes).value
              /\ end <= Len(bytes)
              /\ SubSeq(bytes, length + 1, end) = FlatBytes(type, v)
              /\ Drop(bytes, end) = tail
<1>1. PICK b, n, w : b = FlatBytes(type, v) /\ n = FlatSize(type, v) /\ w = Varint(n)
  OBVIOUS
<1>2. b \in Seq(Byte) /\ Len(b) = n /\ n \in 0 .. 18
  BY <1>1, FlatFacts
<1>3. n \in UInt32
  <2>1. n \in 0 .. 127
    BY <1>2
  <2> QED BY <2>1, SmallVarint
<1>4. w \in Seq(Byte)
  BY <1>1, <1>3, VarintBytes
<1>5. tail \in Seq(Byte) /\ bytes = (w \o b) \o tail
  <2>1. ValueBytes(type, v) = w \o b
    BY <1>1, MessageTypes, Zenon DEF ValueBytes
  <2> QED BY <2>1, Zenon DEF IsSplit
<1>6. VarintParse(bytes) = [length |-> Len(w), value |-> n]
  <2>1. bytes = w \o (b \o tail)
    BY <1>2, <1>4, <1>5, Assoc, SMTT(30)
  <2>2. b \o tail \in Seq(Byte)
    BY <1>2, <1>5, Join
  <2>3. VarintParse(Varint(n) \o (b \o tail)) = [length |-> Len(Varint(n)), value |-> n]
    BY <1>3, <2>2, ReadsWhatWasWritten
  <2> QED BY <1>1, <2>1, <2>3, Zenon
<1>7. w \o b \in Seq(Byte) /\ Len(w \o b) = Len(w) + n
  BY <1>2, <1>4, Join
<1>8. PICK all : all = w \o b
  OBVIOUS
<1>9. Len(all) = Len(w) + n /\ Len(w) \in Nat /\ n \in Nat /\ Len(all) \in Nat
  BY <1>2, <1>4, <1>7, <1>8
<1>10. SubSeq(bytes, Len(w) + 1, Len(w) + n) = b
  BY <1>2, <1>4, <1>5, MiddleFacts
<1>11. Drop(bytes, Len(all)) = tail
  BY <1>5, <1>7, <1>8, DropFacts DEF Drop
<1>12. Len(bytes) = Len(all) + Len(tail) /\ Len(tail) \in Nat
  <2>1. Len(all \o tail) = Len(all) + Len(tail)
    BY <1>5, <1>7, <1>8, Join
  <2>2. bytes = all \o tail
    BY <1>5, <1>8, Zenon
  <2>3. Len(tail) \in Nat
    BY <1>5
  <2> QED BY <2>1, <2>2, <2>3, Zenon
<1>13. Len(all) <= Len(bytes)
  BY <1>9, <1>12
<1>14. VarintParse(bytes).length = Len(w) /\ VarintParse(bytes).value = n
  BY <1>6
<1> QED BY <1>1, <1>9, <1>10, <1>11, <1>13, <1>14, Zenon

\* A turn of the loop reads one field that has not been read before.
LEMMA TurnReads ==
    ASSUME NEW type \in DOMAIN Fields, NEW i, NEW f, IsFieldAt(type, i, f),
           NEW m, f.name \notin DOMAIN m, NEW v, IsValue(f.type, v),
           NEW tail, NEW bytes, IsSplit(bytes, Written(f, v), tail)
    PROVE  Turn(type, Reading(m, bytes)) = Reading(Set(m, f, v), tail)
<1>1. f.type \in Numbers \cup Flat /\ (IsMessage(f.type) <=> f.type \in Flat)
  <2>1. f.type \in Numbers \cup Flat
    BY FieldsFacts DEF IsField, IsFieldAt
  <2> QED BY <2>1, MessageTypes
<1>2. Tag(f) \in Byte /\ Tag(f) \div 8 = i /\ Knows(type, Tag(f))
  BY KnowsFacts DEF IsFieldAt
<1>3. PICK b, tag : b = ValueBytes(f.type, v) /\ tag = <<Tag(f)>>
  OBVIOUS
<1>4. b \in Seq(Byte) /\ tag \in Seq(Byte) /\ tail \in Seq(Byte)
  BY <1>1, <1>2, <1>3, ValueFacts DEF IsSplit
<1>5. PICK rest \in Seq(Byte) : IsSplit(rest, b, tail)
  BY <1>4, Splits
<1>6. IsSplit(bytes, tag, rest)
  <2>1. IsSplit(Written(f, v), tag, b)
    BY <1>3, <1>4, Zenon DEF IsSplit, Written
  <2> QED BY <1>5, <2>1, Shift
<1>7. bytes # <<>> /\ Head(bytes) = Tag(f) /\ Tail(bytes) = rest
  <2>1. bytes = <<Tag(f)>> \o rest
    BY <1>3, <1>6, Zenon DEF IsSplit
  <2> QED BY <1>2, <2>1, HeadTail
<1>8. Turn(type, Reading(m, bytes))
        = IF IsMessage(f.type) THEN ParseMessage(Reading(m, bytes), f, rest)
          ELSE ReadNumber(Reading(m, bytes), f, rest)
  <2>1. f = Fields[type][Head(bytes) \div 8] /\ Knows(type, Head(bytes))
    BY <1>2, <1>7, Zenon DEF IsFieldAt
  <2> QED BY <1>7, <2>1, TurnIs, Zenon
<1>9. CASE f.type \in Flat
  <2>1. IsFlatMessage(f.type, v)
    BY <1>1, <1>9 DEF IsValue
  <2>2. PICK length \in Nat, end \in Nat :
          /\ VarintParse(rest).length = length
          /\ end = length + VarintParse(rest).value
          /\ end <= Len(rest)
          /\ SubSeq(rest, length + 1, end) = FlatBytes(f.type, v)
          /\ Drop(rest, end) = tail
    <3>1. IsSplit(rest, ValueBytes(f.type, v), tail)
      BY <1>3, <1>5
    <3> QED BY <1>9, <2>1, <3>1, ValueReads
  <2>3. ~(end > Len(rest))
    BY <1>5, <2>2
  <2>4. Get(m, f.name, f.type) = Empty
    <3>1. f.type # "float" /\ f.type \notin {"uint32", "bool"}
      BY <1>9 DEF Flat
    <3> QED BY <1>1, <1>9, <3>1 DEF Get, Default
  <2>5. FlatParse(f.type, Reading(Empty, FlatBytes(f.type, v))) = Reading(v, <<>>)
    BY <1>9, <2>1, FlatReadsBack
  <2>6. PICK size, inner :
          /\ size = VarintParse(rest)
          /\ inner = FlatParse(f.type, Reading(Get(m, f.name, f.type),
                                              SubSeq(rest, size.length + 1, end)))
    OBVIOUS
  <2>7. inner.msg = v /\ inner.ok
    <3>1. inner = Reading(v, <<>>)
      BY <2>2, <2>4, <2>5, <2>6, Zenon
    <3> QED BY <3>1 DEF Reading
  <2>8. ParseMessage(Reading(m, bytes), f, rest)
          = Reading(Set(m, f, inner.msg), Drop(rest, end))
    <3>1. end = size.length + size.value
      BY <2>2, <2>6
    <3> QED BY <2>3, <2>6, <2>7, <3>1, ParseMessageIs
  <2> QED BY <1>1, <1>8, <1>9, <2>2, <2>7, <2>8, Zenon
<1>10. CASE f.type \in Numbers
  <2>1. ~IsMessage(f.type) /\ b = NumberBytes(f.type, v) /\ v \in Number(f.type)
    BY <1>3, <1>10, MessageTypes DEF ValueBytes, IsValue
  <2>2. PICK length \in Nat :
          /\ length = NumberLength(f.type, rest) /\ length <= Len(rest)
          /\ NumberValue(f.type, rest) = v
          /\ Drop(rest, length) = tail
    <3>1. rest = NumberBytes(f.type, v) \o tail
      BY <1>5, <2>1, Zenon DEF IsSplit
    <3> QED BY <1>4, <1>10, <2>1, <3>1, NumberReads, ZenonT(60)
  <2>3. ~(length > Len(rest))
    BY <1>5, <2>2
  <2>4. ReadNumber(Reading(m, bytes), f, rest)
          = Reading(Set(m, f, NumberValue(f.type, rest)), Drop(rest, length))
    BY <2>2, <2>3, ReadNumberIs
  <2> QED BY <1>8, <2>1, <2>2, <2>4, Zenon
<1> QED BY <1>1, <1>9, <1>10

\* From one field to the next there is a turn or, for one that is not set, nothing.
Reaches(type, s, t) == s = t \/ Turn(type, s) = t

\* So the loop goes from field to field: a field that is not set has no bytes.
LEMMA Step ==
    ASSUME NEW type \in DOMAIN Fields, NEW m, IsShooterMessage(type, m),
           NEW i \in 1 .. 8, NEW k, k = i - 1,
           NEW tail, NEW bytes, IsSplit(bytes, FieldBytes(type, i, m), tail)
    PROVE  Reaches(type, Reading(Upto(type, m, k), bytes), Reading(Upto(type, m, i), tail))
<1>1. CASE HasField(type, i, m)
  <2> PICK f : f = Fields[type][i]
    OBVIOUS
  <2>1. i \in 1 .. Len(Fields[type]) /\ f.name \in DOMAIN m
    BY <1>1, FieldsFacts DEF HasField, IsWritten
  <2>2. IsValue(f.type, m[f.name]) /\ (f.implicit => m[f.name] # Default(f.type))
    BY <2>1 DEF IsShooterMessage
  <2>3. FieldBytes(type, i, m) = Written(f, m[f.name])
    BY <1>1 DEF FieldBytes, Written
  <2>4. Set(Upto(type, m, k), f, m[f.name]) = Upto(type, m, i)
    BY <2>1, <2>2, SetNext
  <2>5. f.name \notin DOMAIN Upto(type, m, k)
    BY <2>1, NotYet DEF IsFieldAt
  <2>6. Turn(type, Reading(Upto(type, m, k), bytes)) = Reading(Set(Upto(type, m, k), f, m[f.name]), tail)
    <3>1. IsFieldAt(type, i, f)
      BY <2>1 DEF IsFieldAt
    <3>2. PICK v, read : v = m[f.name] /\ read = Upto(type, m, k)
      OBVIOUS
    <3>3. Turn(type, Reading(read, bytes)) = Reading(Set(read, f, v), tail)
      <4>1. IsSplit(bytes, Written(f, v), tail) /\ IsValue(f.type, v) /\ f.name \notin DOMAIN read
        BY <2>2, <2>3, <2>5, <3>2
      <4> QED BY <3>1, <4>1, TurnReads
    <3> QED BY <3>2, <3>3, Zenon
  <2> QED BY <2>4, <2>6, Zenon DEF Reaches
<1>2. CASE ~HasField(type, i, m)
  <2>1. bytes = tail
    <3>1. FieldBytes(type, i, m) = <<>>
      BY <1>2 DEF FieldBytes
    <3> QED BY <3>1 DEF IsSplit
  <2>2. i > Len(Fields[type]) \/ Fields[type][i].name \notin DOMAIN m
    <3>1. ASSUME i <= Len(Fields[type]), Fields[type][i].name \in DOMAIN m
          PROVE  FALSE
      <4>1. i \in 1 .. Len(Fields[type])
        BY <3>1, FieldsFacts
      <4> QED BY <1>2, <3>1, <4>1 DEF HasField, IsWritten, IsShooterMessage
    <3>2. i \in Int /\ Len(Fields[type]) \in Int
      BY FieldsFacts
    <3> QED BY <3>1, <3>2
  <2>3. Upto(type, m, i) = Upto(type, m, i - 1)
    BY <2>2, SkipNext
  <2> QED BY <2>1, <2>3, Zenon DEF Reaches
<1> QED BY <1>1, <1>2

\* What is left of the bytes of a message after each of its eight fields.
IsChain(type, m, r) ==
    /\ r \in [0 .. 8 -> Seq(Byte)]
    /\ r[0] = Serialize(type, m) /\ r[8] = <<>>
    /\ \A i \in 1 .. 8 : IsSplit(r[i - 1], FieldBytes(type, i, m), r[i])

\* Eight fields, taken from the front.
LEMMA FromTheFront ==
    ASSUME NEW type \in DOMAIN Fields, NEW m, IsShooterMessage(type, m)
    PROVE  \E r : IsChain(type, m, r)
<1>1. \A i \in 1 .. 8 : FieldBytes(type, i, m) \in Seq(Byte)
  BY FieldFacts
<1>2. PICK b1, b2, b3, b4, b5, b6, b7, b8 :
        /\ b1 = FieldBytes(type, 1, m) /\ b2 = FieldBytes(type, 2, m)
        /\ b3 = FieldBytes(type, 3, m) /\ b4 = FieldBytes(type, 4, m)
        /\ b5 = FieldBytes(type, 5, m) /\ b6 = FieldBytes(type, 6, m)
        /\ b7 = FieldBytes(type, 7, m) /\ b8 = FieldBytes(type, 8, m)
  OBVIOUS
<1>3. /\ b1 \in Seq(Byte) /\ b2 \in Seq(Byte) /\ b3 \in Seq(Byte) /\ b4 \in Seq(Byte)
      /\ b5 \in Seq(Byte) /\ b6 \in Seq(Byte) /\ b7 \in Seq(Byte) /\ b8 \in Seq(Byte)
  BY <1>1, <1>2
<1>4. PICK c2 \in Seq(Byte) : IsSplit(c2, b1, b2)
  BY <1>3, Splits
<1>5. PICK c3 \in Seq(Byte) : IsSplit(c3, c2, b3)
  BY <1>3, Splits
<1>6. PICK c4 \in Seq(Byte) : IsSplit(c4, c3, b4)
  BY <1>3, Splits
<1>7. PICK c5 \in Seq(Byte) : IsSplit(c5, c4, b5)
  BY <1>3, Splits
<1>8. PICK c6 \in Seq(Byte) : IsSplit(c6, c5, b6)
  BY <1>3, Splits
<1>9. PICK c7 \in Seq(Byte) : IsSplit(c7, c6, b7)
  BY <1>3, Splits
<1>10. PICK all \in Seq(Byte) : IsSplit(all, c7, b8)
  BY <1>3, Splits
<1>11. PICK r6 \in Seq(Byte) : IsSplit(r6, b7, b8)
  BY <1>3, Splits
<1>12. PICK r5 \in Seq(Byte) : IsSplit(r5, b6, r6)
  BY <1>3, Splits
<1>13. PICK r4 \in Seq(Byte) : IsSplit(r4, b5, r5)
  BY <1>3, Splits
<1>14. PICK r3 \in Seq(Byte) : IsSplit(r3, b4, r4)
  BY <1>3, Splits
<1>15. PICK r2 \in Seq(Byte) : IsSplit(r2, b3, r3)
  BY <1>3, Splits
<1>16. PICK r1 \in Seq(Byte) : IsSplit(r1, b2, r2)
  BY <1>3, Splits
<1>17. IsSplit(all, c6, r6)
  BY <1>9, <1>10, <1>11, Shift
<1>18. IsSplit(all, c5, r5)
  BY <1>8, <1>12, <1>17, Shift
<1>19. IsSplit(all, c4, r4)
  BY <1>7, <1>13, <1>18, Shift
<1>20. IsSplit(all, c3, r3)
  BY <1>6, <1>14, <1>19, Shift
<1>21. IsSplit(all, c2, r2)
  BY <1>5, <1>15, <1>20, Shift
<1>22. IsSplit(all, b1, r1)
  BY <1>4, <1>16, <1>21, Shift
<1>23. IsSplit(b8, b8, <<>>)
  BY <1>3 DEF IsSplit
<1>24. all = Serialize(type, m)
  <2>1. /\ c2 = b1 \o b2 /\ c3 = c2 \o b3 /\ c4 = c3 \o b4 /\ c5 = c4 \o b5
        /\ c6 = c5 \o b6 /\ c7 = c6 \o b7 /\ all = c7 \o b8
    BY <1>4, <1>5, <1>6, <1>7, <1>8, <1>9, <1>10, Zenon DEF IsSplit
  <2> QED BY <1>2, <2>1, Zenon DEF Serialize
<1>25. PICK r : r = [i \in 0 .. 8 |-> CASE i = 0 -> all [] i = 1 -> r1 [] i = 2 -> r2
                                       [] i = 3 -> r3  [] i = 4 -> r4 [] i = 5 -> r5
                                       [] i = 6 -> r6  [] i = 7 -> b8 [] i = 8 -> <<>>]
  OBVIOUS
<1>26. /\ r[0] = all /\ r[1] = r1 /\ r[2] = r2 /\ r[3] = r3 /\ r[4] = r4
       /\ r[5] = r5 /\ r[6] = r6 /\ r[7] = b8 /\ r[8] = <<>>
       /\ DOMAIN r = 0 .. 8 /\ r = [i \in 0 .. 8 |-> r[i]]
  BY <1>25
<1>27. \A i \in 0 .. 8 : r[i] \in Seq(Byte)
  <2>1. \A i \in 0 .. 8 : \/ i = 0 \/ i = 1 \/ i = 2 \/ i = 3 \/ i = 4
                          \/ i = 5 \/ i = 6 \/ i = 7 \/ i = 8
    OBVIOUS
  <2>2. <<>> \in Seq(Byte)
    OBVIOUS
  <2> QED BY <1>3, <1>26, <2>1, <2>2, Zenon
<1>28. \A i \in 1 .. 8 : IsSplit(r[i - 1], FieldBytes(type, i, m), r[i])
  <2>1. \A i \in 1 .. 8 : \/ i = 1 \/ i = 2 \/ i = 3 \/ i = 4
                          \/ i = 5 \/ i = 6 \/ i = 7 \/ i = 8
    OBVIOUS
  <2>2. /\ 1 - 1 = 0 /\ 2 - 1 = 1 /\ 3 - 1 = 2 /\ 4 - 1 = 3
        /\ 5 - 1 = 4 /\ 6 - 1 = 5 /\ 7 - 1 = 6 /\ 8 - 1 = 7
    OBVIOUS
  <2> QED BY <1>2, <1>11, <1>12, <1>13, <1>14, <1>15, <1>16, <1>22, <1>23, <1>26, <2>1, <2>2, Zenon
<1>29. r \in [0 .. 8 -> Seq(Byte)]
  BY <1>26, <1>27
<1> QED BY <1>24, <1>26, <1>28, <1>29, Zenon DEF IsChain

\* Reading gives back what was written, of every message: ParseFromArray after
\* SerializeToArray.
THEOREM ReadsBack ==
    \A type \in DOMAIN Fields : \A m :
        IsShooterMessage(type, m) => ParseFromArray(type, Serialize(type, m)) = m
<1> SUFFICES ASSUME NEW type \in DOMAIN Fields, NEW m, IsShooterMessage(type, m)
             PROVE  ParseFromArray(type, Serialize(type, m)) = m
  OBVIOUS
<1>1. PICK r : IsChain(type, m, r)
  BY FromTheFront
<1>2. PICK s : s = [i \in 0 .. 8 |-> Reading(Upto(type, m, i), r[i])]
  OBVIOUS
<1>3. \A i \in 1 .. 8 : Reaches(type, s[i - 1], s[i])
  <2>1. SUFFICES ASSUME NEW i \in 1 .. 8
                 PROVE  Reaches(type, s[i - 1], s[i])
    OBVIOUS
  <2>2. PICK k, x, y : k = i - 1 /\ x = r[k] /\ y = r[i]
    OBVIOUS
  <2>3. s[k] = Reading(Upto(type, m, k), x) /\ s[i] = Reading(Upto(type, m, i), y)
    BY <1>2, <2>2
  <2>4. IsSplit(x, FieldBytes(type, i, m), y)
    BY <1>1, <2>2 DEF IsChain
  <2>5. Reaches(type, Reading(Upto(type, m, k), x), Reading(Upto(type, m, i), y))
    BY <2>2, <2>4, Step
  <2> QED BY <2>2, <2>3, <2>5, Zenon
<1>4. Upto(type, m, 0) = Empty /\ Upto(type, m, 8) = m
  <2>1. IsRecordOf(type, m) /\ Len(Fields[type]) <= 8
    BY FieldsFacts DEF IsShooterMessage
  <2> QED BY <2>1, UptoEnds
<1>5. s[0] = Reading(Empty, Serialize(type, m)) /\ s[8] = Reading(m, <<>>)
  BY <1>1, <1>2, <1>4 DEF IsChain
<1>6. Turn(type, s[8]) = s[8]
  BY <1>5, Idle DEF Done, Reading
<1>7. Parse(type, s[0]) = s[8]
  <2>1. /\ s[0] = s[1] \/ Turn(type, s[0]) = s[1]
        /\ s[1] = s[2] \/ Turn(type, s[1]) = s[2]
        /\ s[2] = s[3] \/ Turn(type, s[2]) = s[3]
        /\ s[3] = s[4] \/ Turn(type, s[3]) = s[4]
        /\ s[4] = s[5] \/ Turn(type, s[4]) = s[5]
        /\ s[5] = s[6] \/ Turn(type, s[5]) = s[6]
        /\ s[6] = s[7] \/ Turn(type, s[6]) = s[7]
        /\ s[7] = s[8] \/ Turn(type, s[7]) = s[8]
    BY <1>3 DEF Reaches
  <2>2. Turn(type, s[7]) = s[8]
    BY <1>6, <2>1, Zenon
  <2>3. Turn(type, Turn(type, s[6])) = s[8]
    BY <1>6, <2>1, <2>2, Zenon
  <2>4. Turn(type, Turn(type, Turn(type, s[5]))) = s[8]
    BY <1>6, <2>1, <2>3, Zenon
  <2>5. Turn(type, Turn(type, Turn(type, Turn(type, s[4])))) = s[8]
    BY <1>6, <2>1, <2>4, Zenon
  <2>6. Turn(type, Turn(type, Turn(type, Turn(type, Turn(type, s[3]))))) = s[8]
    BY <1>6, <2>1, <2>5, Zenon
  <2>7. Turn(type, Turn(type, Turn(type, Turn(type, Turn(type, Turn(type, s[2])))))) = s[8]
    BY <1>6, <2>1, <2>6, Zenon
  <2>8. Turn(type, Turn(type, Turn(type, Turn(type, Turn(type, Turn(type, Turn(type, s[1]))))))) = s[8]
    BY <1>6, <2>1, <2>7, Zenon
  <2>9. Turn(type, Turn(type, Turn(type, Turn(type, Turn(type, Turn(type, Turn(type, Turn(type, s[0])))))))) = s[8]
    BY <1>6, <2>1, <2>8, Zenon
  <2> QED BY <2>9, Turns, Zenon
<1> QED BY <1>5, <1>7 DEF ParseFromArray, Reading

-----------------------------------------------------------------------------
(* Bytes of which the last are missing: zeros are in their place.           *)

IsZeros(bytes) == bytes \in Seq(Byte) /\ \A i \in 1 .. Len(bytes) : bytes[i] = 0

\* The first d of bytes are those of whole, and not all of whole is there.
IsCutAt(bytes, whole, d) ==
    /\ bytes \in Seq(Byte) /\ whole \in Seq(Byte)
    /\ Len(whole) <= Len(bytes)
    /\ d \in 0 .. Len(whole) - 1
    /\ \A i \in 1 .. d : bytes[i] = whole[i]
    /\ \A i \in d + 1 .. Len(bytes) : bytes[i] = 0

IsCut(bytes, whole) == \E d : IsCutAt(bytes, whole, d)

\* The zeros behind the cut.
LEMMA ZerosBehind ==
    ASSUME NEW bytes, NEW whole, NEW d, IsCutAt(bytes, whole, d), NEW n \in Nat, n > d,
           n <= Len(bytes)
    PROVE  IsZeros(Drop(bytes, n))
<1>1. /\ bytes \in Seq(Byte) /\ whole \in Seq(Byte) /\ d \in Nat /\ Len(bytes) \in Nat
      /\ \A i \in d + 1 .. Len(bytes) : bytes[i] = 0
  BY DEF IsCutAt
<1> PICK l, z : l \in Nat /\ z = SubSeq(bytes, n + 1, Len(bytes)) /\ l = Len(bytes)
  BY <1>1
<1>2. /\ z \in Seq(Byte) /\ Len(z) = l - n
      /\ \A j \in 1 .. l - n : z[j] = bytes[n + j]
  BY <1>1, BehindFacts
<1>3. \A j \in 1 .. Len(z) : z[j] = 0
  <2>1. \A j \in 1 .. l - n : n + j \in d + 1 .. l
    BY <1>1
  <2> QED BY <1>1, <1>2, <2>1
<1> QED BY <1>2, <1>3 DEF IsZeros, Drop

\* A cut through two is a cut through the second or through the first.
LEMMA CutSplit ==
    ASSUME NEW bytes, NEW whole, NEW p, NEW q, IsCut(bytes, whole), IsSplit(whole, p, q)
    PROVE  \/ IsCut(bytes, p)
           \/ \E x : IsSplit(bytes, p, x) /\ IsCut(x, q)
<1>1. PICK d : IsCutAt(bytes, whole, d)
  BY DEF IsCut
<1>2. p \in Seq(Byte) /\ q \in Seq(Byte) /\ whole = p \o q
  BY DEF IsSplit
<1>3. PICK a \in Nat, b \in Nat, l \in Nat :
        /\ Len(p) = a /\ Len(q) = b /\ Len(bytes) = l /\ Len(whole) = a + b /\ a + b <= l
        /\ \A i \in 1 .. a : whole[i] = p[i]
        /\ \A i \in 1 .. b : whole[a + i] = q[i]
  <2>1. /\ Len(whole) = Len(p) + Len(q) /\ Len(p) \in Nat /\ Len(q) \in Nat
        /\ \A i \in 1 .. Len(p) : whole[i] = p[i]
        /\ \A i \in 1 .. Len(q) : whole[Len(p) + i] = q[i]
    BY <1>2, ConcatFacts
  <2>2. Len(bytes) \in Nat /\ Len(whole) <= Len(bytes)
    BY <1>1 DEF IsCutAt
  <2> QED BY <2>1, <2>2
<1>4. /\ bytes \in Seq(Byte) /\ d \in 0 .. (a + b) - 1
      /\ \A i \in 1 .. d : bytes[i] = whole[i]
      /\ \A i \in d + 1 .. l : bytes[i] = 0
  BY <1>1, <1>3 DEF IsCutAt
<1>5. CASE d < a
  <2>1. d \in 0 .. a - 1 /\ a <= l
    BY <1>3, <1>4, <1>5
  <2>2. \A i \in 1 .. d : bytes[i] = p[i]
    BY <1>3, <1>4, <2>1
  <2> QED BY <1>2, <1>3, <1>4, <2>1, <2>2 DEF IsCut, IsCutAt
<1>6. CASE d >= a
  <2>1. PICK x : x = SubSeq(bytes, a + 1, l)
    OBVIOUS
  <2>2. x \in Seq(Byte) /\ Len(x) = l - a /\ \A j \in 1 .. l - a : x[j] = bytes[a + j]
    <3>1. a <= l /\ l <= Len(bytes)
      BY <1>3
    <3> QED BY <1>4, <2>1, <3>1, BehindFacts
  <2>3. bytes = p \o x
    <3>1. /\ p \o x \in Seq(Byte) /\ Len(p \o x) = a + (l - a)
          /\ \A i \in 1 .. a : (p \o x)[i] = p[i]
          /\ \A i \in 1 .. l - a : (p \o x)[a + i] = x[i]
      <4>1. /\ p \o x \in Seq(Byte) /\ Len(p \o x) = Len(p) + Len(x)
            /\ \A i \in 1 .. Len(p) : (p \o x)[i] = p[i]
            /\ \A i \in 1 .. Len(x) : (p \o x)[Len(p) + i] = x[i]
        <5>1. p \in Seq(Byte) /\ x \in Seq(Byte)
          BY <1>2, <2>2
        <5> QED BY <5>1, Join, ConcatFacts
      <4> QED BY <1>3, <2>2, <4>1, Zenon
    <3>2. PICK y : y = p \o x
      OBVIOUS
    <3>3. y \in Seq(Byte) /\ Len(y) = l
      BY <3>1, <3>2
    <3>4. \A i \in 1 .. l : bytes[i] = y[i]
      <4>1. \A i \in 1 .. a : bytes[i] = y[i]
        BY <1>3, <1>4, <1>6, <3>1, <3>2
      <4>2. \A i \in 1 .. l - a : bytes[a + i] = y[a + i]
        BY <2>2, <3>1, <3>2
      <4>3. \A i \in a + 1 .. l : i - a \in 1 .. l - a /\ a + (i - a) = i
        OBVIOUS
      <4>4. \A i \in a + 1 .. l : bytes[i] = y[i]
        BY <4>2, <4>3
      <4>5. \A i \in 1 .. l : i \in 1 .. a \/ i \in a + 1 .. l
        OBVIOUS
      <4> QED BY <4>1, <4>4, <4>5
    <3> QED BY <1>3, <1>4, <3>2, <3>3, <3>4, SameElements
  <2>4. IsCutAt(x, q, d - a)
    <3>1. d - a \in 0 .. b - 1 /\ b <= l - a
      BY <1>3, <1>4, <1>6
    <3>2. \A i \in 1 .. d - a : x[i] = q[i]
      <4>1. \A i \in 1 .. d - a : i \in 1 .. b /\ i \in 1 .. l - a /\ a + i \in 1 .. d
        BY <1>3, <1>4, <1>6
      <4> QED BY <1>3, <1>4, <2>2, <4>1
    <3>3. \A i \in (d - a) + 1 .. l - a : x[i] = 0
      <4>1. \A i \in (d - a) + 1 .. l - a : i \in 1 .. l - a /\ a + i \in d + 1 .. l
        BY <1>4, <1>6
      <4> QED BY <1>4, <2>2, <4>1
    <3> QED BY <1>2, <1>3, <2>2, <3>1, <3>2, <3>3 DEF IsCutAt
  <2> QED BY <1>2, <2>2, <2>3, <2>4 DEF IsCut, IsSplit
<1> QED BY <1>3, <1>4, <1>5, <1>6

\* What begins with a byte does so, or begins with a zero.
LEMMA HeadCut ==
    ASSUME NEW bytes, NEW t \in Byte, NEW b \in Seq(Byte), NEW whole,
           IsSplit(whole, <<t>>, b), IsCut(bytes, whole)
    PROVE  /\ bytes # <<>> /\ bytes \in Seq(Byte)
           /\ \/ Head(bytes) = 0
              \/ Head(bytes) = t /\ IsCut(Tail(bytes), b)
<1>1. bytes # <<>> /\ bytes \in Seq(Byte)
  <2>1. PICK d : IsCutAt(bytes, whole, d)
    BY DEF IsCut
  <2>2. /\ whole \in Seq(Byte) /\ bytes \in Seq(Byte) /\ d \in 0 .. Len(whole) - 1
        /\ Len(whole) <= Len(bytes)
    BY <2>1 DEF IsCutAt
  <2>3. Len(bytes) # 0
    BY <2>2
  <2> QED BY <2>2, <2>3
<1>2. CASE IsCut(bytes, <<t>>)
  <2>1. PICK d : IsCutAt(bytes, <<t>>, d)
    BY <1>2 DEF IsCut
  <2>2. d = 0 /\ Len(bytes) \in Nat \ {0}
    BY <1>1, <2>1 DEF IsCutAt
  <2>3. bytes[1] = 0
    BY <2>1, <2>2 DEF IsCutAt
  <2> QED BY <1>1, <2>3, TailFacts
<1>3. CASE \E x : IsSplit(bytes, <<t>>, x) /\ IsCut(x, b)
  <2>1. PICK x : IsSplit(bytes, <<t>>, x) /\ IsCut(x, b)
    BY <1>3
  <2>2. x \in Seq(Byte) /\ bytes = <<t>> \o x
    BY <2>1 DEF IsSplit
  <2>3. Head(bytes) = t /\ Tail(bytes) = x
    BY <2>2, HeadTail
  <2> QED BY <1>1, <2>1, <2>3
<1>4. IsCut(bytes, <<t>>) \/ \E x : IsSplit(bytes, <<t>>, x) /\ IsCut(x, b)
  BY CutSplit
<1> QED BY <1>2, <1>3, <1>4

\* A cut varint ends at the cut.
LEMMA VarintCut ==
    ASSUME NEW n \in UInt32, NEW bytes, IsCut(bytes, Varint(n))
    PROVE  \E length \in Nat, value \in UInt32 :
              /\ VarintParse(bytes) = [length |-> length, value |-> value]
              /\ length <= Len(bytes) /\ IsZeros(Drop(bytes, length))
              /\ n < 128 => value = 0
<1>1. PICK d : IsCutAt(bytes, Varint(n), d)
  BY DEF IsCut
<1>2. PICK k \in 1 .. 5 : k = Len(Varint(n)) /\ (n < 128 => k = 1)
  <2>1. Len(Varint(n)) \in 1 .. 5
    BY Digits
  <2>2. n < 128 => Len(Varint(n)) = 1
    BY DEF Varint
  <2> QED BY <2>1, <2>2
<1>3. \A i \in 1 .. k - 1 : Varint(n)[i] >= 128
  BY <1>2, VarintFacts
<1>4. PICK l \in Nat : l = Len(bytes) /\ d \in 0 .. k - 1 /\ k <= l
  BY <1>1, <1>2 DEF IsCutAt
<1>5. /\ bytes \in Seq(Byte) /\ bytes # <<>>
      /\ \A i \in 1 .. d : bytes[i] >= 128 /\ bytes[i] \in 128 .. 255
      /\ bytes[d + 1] = 0
  <2>1. /\ bytes \in Seq(Byte)
        /\ \A i \in 1 .. d : bytes[i] = Varint(n)[i]
        /\ \A i \in d + 1 .. l : bytes[i] = 0
    BY <1>1, <1>4 DEF IsCutAt
  <2>2. d + 1 \in d + 1 .. l /\ \A i \in 1 .. d : i \in 1 .. k - 1 /\ i \in 1 .. l
    BY <1>4
  <2>3. \A i \in 1 .. l : bytes[i] \in 0 .. 255
    <3>1. DOMAIN bytes = 1 .. l
      BY <1>4, <2>1
    <3> QED BY <2>1, <3>1, ElementsOf, ZenonT(60) DEF Byte
  <2>4. bytes # <<>>
    BY <1>4
  <2>5. \A i \in 1 .. d : bytes[i] >= 128 /\ bytes[i] \in 128 .. 255
    <3>1. \A i \in 1 .. d : bytes[i] >= 128 /\ bytes[i] \in 0 .. 255
      BY <1>3, <2>1, <2>2, <2>3
    <3>2. \A x : x >= 128 /\ x \in 0 .. 255 => x \in 128 .. 255
      OBVIOUS
    <3> QED BY <3>1, <3>2
  <2>6. bytes[d + 1] = 0
    BY <2>1, <2>2
  <2> QED BY <2>1, <2>4, <2>5, <2>6, Zenon
<1>6. VarintLength(bytes) = d + 1
  <2>1. d + 1 \in 1 .. Len(bytes) /\ (d + 1) - 1 = d
    BY <1>4
  <2>2. bytes[d + 1] < 128 /\ \A i \in 1 .. (d + 1) - 1 : bytes[i] >= 128
    BY <1>5, <2>1
  <2> QED BY <1>5, <2>1, <2>2, LengthIs
<1> DEFINE Added(i, place) == IF i <= d + 1 /\ i <= Len(bytes) THEN (bytes[i] - 1) * place ELSE 0
           value == bytes[1] + Added(2, 2^7) + Added(3, 2^14) + Added(4, 2^21) + Added(5, 2^28)
<1>7. VarintParse(bytes) = [length |-> d + 1, value |-> value]
  BY <1>5, <1>6 DEF VarintParse
<1>8. value \in Nat /\ value < 2^32 /\ (d = 0 => value = 0)
  <2>1. PICK b1, b2, b3, b4, b5 :
          /\ b1 = bytes[1] /\ b2 = bytes[2] /\ b3 = bytes[3] /\ b4 = bytes[4] /\ b5 = bytes[5]
    OBVIOUS
  <2>2. value = b1 + (IF d >= 1 THEN (b2 - 1) * 2^7 ELSE 0)
                   + (IF d >= 2 THEN (b3 - 1) * 2^14 ELSE 0)
                   + (IF d >= 3 THEN (b4 - 1) * 2^21 ELSE 0)
                   + (IF d >= 4 THEN (b5 - 1) * 2^28 ELSE 0)
    <3>1. /\ (2 <= d + 1 /\ 2 <= Len(bytes)) <=> d >= 1
          /\ (3 <= d + 1 /\ 3 <= Len(bytes)) <=> d >= 2
          /\ (4 <= d + 1 /\ 4 <= Len(bytes)) <=> d >= 3
          /\ (5 <= d + 1 /\ 5 <= Len(bytes)) <=> d >= 4
      BY <1>4
    <3> QED BY <2>1, <3>1, Zenon
  <2> HIDE DEF value
  <2>0. d = 0 \/ d = 1 \/ d = 2 \/ d = 3 \/ d = 4
    BY <1>4
  <2>3. CASE d = 0
    <3>1. b1 = 0
      BY <1>5, <2>1, <2>3
    <3> QED BY <2>2, <2>3, <3>1
  <2>4. CASE d = 1
    <3>1. b1 \in 128 .. 255 /\ b2 = 0
      BY <1>5, <2>1, <2>4
    <3> QED BY <2>2, <2>4, <3>1
  <2>5. CASE d = 2
    <3>1. b1 \in 128 .. 255 /\ b2 \in 128 .. 255 /\ b3 = 0
      BY <1>5, <2>1, <2>5
    <3> QED BY <2>2, <2>5, <3>1
  <2>6. CASE d = 3
    <3>1. b1 \in 128 .. 255 /\ b2 \in 128 .. 255 /\ b3 \in 128 .. 255 /\ b4 = 0
      BY <1>5, <2>1, <2>6
    <3> QED BY <2>2, <2>6, <3>1
  <2>7. CASE d = 4
    <3>1. /\ b1 \in 128 .. 255 /\ b2 \in 128 .. 255 /\ b3 \in 128 .. 255 /\ b4 \in 128 .. 255
          /\ b5 = 0
      BY <1>5, <2>1, <2>7
    <3> QED BY <2>2, <2>7, <3>1
  <2> QED BY <2>0, <2>3, <2>4, <2>5, <2>6, <2>7
<1> HIDE DEF value
<1>9. value \in UInt32 /\ (n < 128 => value = 0)
  BY <1>2, <1>4, <1>8, UInt32Facts
<1>10. d + 1 \in Nat /\ d + 1 > d /\ d + 1 <= Len(bytes)
  BY <1>4
<1>11. IsZeros(Drop(bytes, d + 1))
  BY <1>1, <1>10, ZerosBehind
<1> QED BY <1>7, <1>9, <1>10, <1>11

\* A cut number is a number.
LEMMA NumberCut ==
    ASSUME NEW type \in Numbers, NEW v \in Number(type), NEW bytes,
           IsCut(bytes, NumberBytes(type, v))
    PROVE  \E end \in Nat, w \in Number(type) :
              /\ end = NumberLength(type, bytes) /\ w = NumberValue(type, bytes)
              /\ end <= Len(bytes) /\ IsZeros(Drop(bytes, end))
              /\ type = "uint32" /\ v < 128 => w = 0
<1>1. CASE type = "float"
  <2>1. v \in Seq(Byte) /\ Len(v) = 4 /\ NumberBytes(type, v) = v
    BY <1>1 DEF Number, NumberBytes
  <2>2. PICK d : IsCutAt(bytes, v, d)
    BY <2>1 DEF IsCut
  <2>3. bytes \in Seq(Byte) /\ 4 <= Len(bytes) /\ 4 > d
    BY <2>1, <2>2 DEF IsCutAt
  <2>4. NumberLength(type, bytes) = 4 /\ NumberValue(type, bytes) = SubSeq(bytes, 1, 4)
    BY <1>1 DEF NumberLength, NumberValue
  <2>5. SubSeq(bytes, 1, 4) \in Number(type)
    <3>1. SubSeq(bytes, 1, 4) \in Seq(Byte) /\ Len(SubSeq(bytes, 1, 4)) = 4
      BY <2>3
    <3> QED BY <1>1, <3>1 DEF Number
  <2>6. IsZeros(Drop(bytes, 4))
    BY <2>2, <2>3, ZerosBehind
  <2> QED BY <1>1, <2>3, <2>4, <2>5, <2>6
<1>2. CASE type # "float"
  <2>1. v \in UInt32 /\ NumberBytes(type, v) = Varint(v)
    <3>1. CASE type = "uint32"
      BY <3>1 DEF Number, NumberBytes
    <3>2. CASE type = "bool"
      <4>1. v \in 0 .. 127
        BY <3>2 DEF Number
      <4> QED BY <3>2, <4>1, SmallVarint DEF NumberBytes
    <3> QED BY <1>2, <3>1, <3>2 DEF Numbers
  <2>2. PICK length \in Nat, value \in UInt32 :
          /\ VarintParse(bytes) = [length |-> length, value |-> value]
          /\ length <= Len(bytes) /\ IsZeros(Drop(bytes, length))
          /\ v < 128 => value = 0
    BY <2>1, VarintCut
  <2>3. NumberLength(type, bytes) = length /\ NumberValue(type, bytes) = value
    BY <1>2, <2>2 DEF NumberLength, NumberValue
  <2>4. value \in Number(type)
    <3>1. CASE type = "uint32"
      BY <3>1 DEF Number
    <3>2. CASE type = "bool"
      <4>1. v < 128
        BY <3>2 DEF Number
      <4> QED BY <2>2, <3>2, <4>1 DEF Number
    <3> QED BY <1>2, <3>1, <3>2 DEF Numbers
  <2> QED BY <2>2, <2>3, <2>4
<1> QED BY <1>1, <1>2

-----------------------------------------------------------------------------
(* Messages with one value that is not the one that was sent.               *)

AllBut(name, part, m) == \A x \in DOMAIN part \ {name} : x \in DOMAIN m /\ part[x] = m[x]

\* A message of numbers w that was read in place of v, which the cut went through:
\* an index of one byte is there or is not.
IsCutFlat(type, w, v) ==
    /\ IsFlatMessage(type, w)
    /\ \E name : AllBut(name, w, v)
    /\ Get(v, "Index", "uint32") < 128 =>
            Get(w, "Index", "uint32") \in {0, Get(v, "Index", "uint32")}

\* A value w that was read in place of v.
IsCutValue(type, w, v) ==
    /\ IsValue(type, w)
    /\ IsMessage(type) => IsCutFlat(type, w, v)
    /\ type = "uint32" /\ v < 128 => w = 0

\* A message part that was read in place of m: the cut went through one field.
IsCutMessage(type, part, m) ==
    /\ IsShooterMessage(type, part)
    /\ \E i, f : /\ IsFieldAt(type, i, f) /\ AllBut(f.name, part, m)
                 /\ f.name \in DOMAIN part =>
                        f.name \in DOMAIN m /\ IsCutValue(f.type, part[f.name], m[f.name])

\* A message of numbers is a message.
LEMMA FlatIsMessage ==
    ASSUME NEW type \in Flat, NEW m
    PROVE  IsFlatMessage(type, m) <=> IsShooterMessage(type, m)
<1>1. type \in DOMAIN Fields
  BY MessageTypes DEF IsMessage
<1>2. \A i \in 1 .. Len(Fields[type]) : \A v :
        IsValue(Fields[type][i].type, v) <=> v \in Number(Fields[type][i].type)
  BY <1>1, FieldsFacts, MessageTypes DEF IsValue
<1> QED BY <1>2 DEF IsFlatMessage, IsShooterMessage

\* What Set makes of a message.
LEMMA SetFacts ==
    ASSUME NEW m, NEW f, NEW w, NEW part, part = Set(m, f, w)
    PROVE  /\ part = [name \in DOMAIN part |-> part[name]]
           /\ DOMAIN part \subseteq DOMAIN m \cup {f.name}
           /\ f.name \in DOMAIN part =>
                part[f.name] = w /\ (f.implicit => w # Default(f.type))
           /\ \A x \in DOMAIN part \ {f.name} : x \in DOMAIN m /\ part[x] = m[x]
<1> PICK names : names = IF f.implicit /\ w = Default(f.type) THEN DOMAIN m \ {f.name}
                         ELSE (DOMAIN m \ {f.name}) \cup {f.name}
  OBVIOUS
<1>1. part = [name \in names |-> IF name = f.name THEN w ELSE m[name]]
  BY Zenon DEF Set
<1>2. f.name \in names => (f.implicit => w # Default(f.type))
  OBVIOUS
<1>3. names \subseteq DOMAIN m \cup {f.name}
  OBVIOUS
<1> QED BY <1>1, <1>2, <1>3

\* What has been read so far is a part of the message.
LEMMA UptoFacts ==
    ASSUME NEW type, NEW m, NEW k, NEW part, part = Upto(type, m, k)
    PROVE  /\ part = [name \in DOMAIN part |-> part[name]]
           /\ DOMAIN part \subseteq DOMAIN m
           /\ \A x \in DOMAIN part : part[x] = m[x]
  BY DEF Upto

\* A message that differs from one in a field is one.
LEMMA PartIsMessage ==
    ASSUME NEW type \in DOMAIN Fields, NEW m, IsShooterMessage(type, m),
           NEW i, NEW f, IsFieldAt(type, i, f),
           NEW part, part = [name \in DOMAIN part |-> part[name]],
           DOMAIN part \subseteq DOMAIN m \cup {f.name}, AllBut(f.name, part, m),
           f.name \in DOMAIN part =>
                IsValue(f.type, part[f.name]) /\ (f.implicit => part[f.name] # Default(f.type))
    PROVE  IsShooterMessage(type, part)
<1>1. i \in 1 .. Len(Fields[type]) /\ f = Fields[type][i]
  BY DEF IsFieldAt
<1>2. IsRecordOf(type, part)
  <2>1. f.name \in Names(type)
    BY <1>1 DEF Names
  <2> QED BY <2>1 DEF IsShooterMessage, IsRecordOf
<1>3. SUFFICES ASSUME NEW j \in 1 .. Len(Fields[type]), NEW g, g = Fields[type][j],
                      g.name \in DOMAIN part
               PROVE  IsValue(g.type, part[g.name]) /\ (g.implicit => part[g.name] # Default(g.type))
  BY <1>2 DEF IsShooterMessage
<1>4. CASE g.name = f.name
  <2>1. g = f
    BY <1>1, <1>3, <1>4, FieldNames
  <2> QED BY <1>3, <2>1
<1>5. CASE g.name # f.name
  <2>1. g.name \in DOMAIN m /\ part[g.name] = m[g.name]
    BY <1>3, <1>5 DEF AllBut
  <2> QED BY <1>3, <2>1 DEF IsShooterMessage
<1> QED BY <1>4, <1>5

\* What has been read when the cut is in the bytes of a field, with the value w
\* for that field or without the field.
IsReadWith(type, m, k, f, w, part) ==
    \/ part = Upto(type, m, k)
    \/ IsValue(f.type, w) /\ part = Set(Upto(type, m, k), f, w)

\* It is a message, and that field is all that can be wrong.
LEMMA ReadSoFar ==
    ASSUME NEW type \in DOMAIN Fields, NEW m, IsShooterMessage(type, m),
           NEW i, NEW f, IsFieldAt(type, i, f), NEW k, k = i - 1, NEW w, NEW part,
           IsReadWith(type, m, k, f, w, part)
    PROVE  /\ IsShooterMessage(type, part) /\ AllBut(f.name, part, m)
           /\ f.name \in DOMAIN part => part[f.name] = w /\ IsValue(f.type, w)
<1> PICK u : u = Upto(type, m, k)
  OBVIOUS
<1>1. /\ u = [name \in DOMAIN u |-> u[name]]
      /\ DOMAIN u \subseteq DOMAIN m
      /\ \A x \in DOMAIN u : u[x] = m[x]
  BY UptoFacts
<1>2. f.name \notin DOMAIN u
  BY NotYet
<1>3. /\ part = [name \in DOMAIN part |-> part[name]]
      /\ DOMAIN part \subseteq DOMAIN m \cup {f.name}
      /\ AllBut(f.name, part, m)
      /\ f.name \in DOMAIN part =>
            /\ part[f.name] = w /\ IsValue(f.type, part[f.name])
            /\ f.implicit => part[f.name] # Default(f.type)
  <2>1. CASE part = u
    BY <1>1, <1>2, <2>1 DEF AllBut
  <2>2. CASE IsValue(f.type, w) /\ part = Set(u, f, w)
    <3>1. /\ part = [name \in DOMAIN part |-> part[name]]
          /\ DOMAIN part \subseteq DOMAIN u \cup {f.name}
          /\ f.name \in DOMAIN part =>
                part[f.name] = w /\ (f.implicit => w # Default(f.type))
          /\ \A x \in DOMAIN part \ {f.name} : x \in DOMAIN u /\ part[x] = u[x]
      BY <2>2, SetFacts
    <3> QED BY <1>1, <2>2, <3>1 DEF AllBut
  <2> QED BY <2>1, <2>2 DEF IsReadWith
<1> QED BY <1>3, PartIsMessage

\* Index is a number.
LEMMA IndexIsNumber ==
    ASSUME NEW type \in Flat, NEW i, NEW f, IsFieldAt(type, i, f), f.name = "Index"
    PROVE  f.type = "uint32"
<1>1. i \in 1 .. Len(Fields[type]) /\ f = Fields[type][i]
  BY DEF IsFieldAt
<1>2. type \in {"PVector", "PRotator", "PClientId"}
  BY DEF Flat
<1>3. Fields["PVector"] = PVector /\ Fields["PRotator"] = PRotator /\ Fields["PClientId"] = PClientId
  BY DEF Fields
<1>4. CASE type = "PVector"
  BY <1>1, <1>3, <1>4 DEF PVector, Implicit
<1>5. CASE type = "PRotator"
  BY <1>1, <1>3, <1>5 DEF PRotator, Implicit
<1>6. CASE type = "PClientId"
  BY <1>1, <1>3, <1>6 DEF PClientId, Implicit
<1> QED BY <1>2, <1>4, <1>5, <1>6

\* The same of a message of numbers.
LEMMA FlatReadSoFar ==
    ASSUME NEW type \in Flat, NEW m, IsFlatMessage(type, m),
           NEW i, NEW f, IsFieldAt(type, i, f), f.name \in DOMAIN m, NEW k, k = i - 1,
           NEW w, NEW part,
           \/ part = Upto(type, m, k)
           \/ IsCutValue(f.type, w, m[f.name]) /\ part = Set(Upto(type, m, k), f, w)
    PROVE  IsCutFlat(type, part, m)
<1>0. type \in DOMAIN Fields
  BY MessageTypes DEF IsMessage
<1>1. f.type \in Numbers /\ ~IsMessage(f.type)
  BY <1>0, FieldsFacts, MessageTypes DEF IsFieldAt
<1>2. IsShooterMessage(type, m)
  BY FlatIsMessage
<1>3. IsReadWith(type, m, k, f, w, part)
  BY DEF IsCutValue, IsReadWith
<1>4. /\ IsShooterMessage(type, part) /\ AllBut(f.name, part, m)
      /\ f.name \in DOMAIN part => part[f.name] = w
  BY <1>0, <1>2, <1>3, ReadSoFar
<1>5. ASSUME Get(m, "Index", "uint32") < 128
      PROVE  Get(part, "Index", "uint32") \in {0, Get(m, "Index", "uint32")}
  <2>0. Default("uint32") = 0
    BY MessageTypes, Zenon DEF Default, Numbers
  <2>1. CASE "Index" \notin DOMAIN part
    BY <2>0, <2>1 DEF Get
  <2>2. CASE "Index" \in DOMAIN part /\ f.name # "Index"
    BY <1>4, <2>2 DEF Get, AllBut
  <2>3. CASE "Index" \in DOMAIN part /\ f.name = "Index"
    <3>1. f.type = "uint32"
      BY <2>3, IndexIsNumber
    <3>2. part = Upto(type, m, k) => FALSE
      BY <1>0, <2>3, NotYet
    <3>3. m[f.name] < 128
      BY <1>5, <2>3 DEF Get
    <3>4. w = 0 /\ part["Index"] = 0
      BY <1>4, <2>3, <3>1, <3>2, <3>3 DEF IsCutValue
    <3> QED BY <2>3, <3>4 DEF Get
  <2> QED BY <2>1, <2>2, <2>3
<1>6. IsFlatMessage(type, part)
  BY <1>4, FlatIsMessage
<1> QED BY <1>4, <1>5, <1>6 DEF IsCutFlat

-----------------------------------------------------------------------------
(* The loop comes to the cut.                                               *)

\* Only zeros are left, which the loop does not read.
Over(part, s) == s.msg = part /\ (~s.ok \/ IsZeros(s.rest))

\* A zero is the tag of no field.
LEMMA ZeroTag ==
    ASSUME NEW type \in DOMAIN Fields
    PROVE  ~Knows(type, 0)
<1>1. Len(Fields[type]) \in Nat
  BY FieldsFacts
<1> QED BY <1>1 DEF Knows

\* Then nothing is read any more.
LEMMA OverStays ==
    ASSUME NEW type \in DOMAIN Fields, NEW part, NEW s, Over(part, s)
    PROVE  Over(part, Turn(type, s)) /\ Over(part, FlatTurn(type, s))
<1>1. CASE Done(s)
  BY <1>1, Idle, Zenon
<1>2. CASE ~Done(s)
  <2>1. s.rest # <<>> /\ IsZeros(s.rest) /\ s.msg = part
    BY <1>2 DEF Done, Over
  <2>2. Head(s.rest) = 0
    <3> PICK z : z = s.rest
      OBVIOUS
    <3>1. z \in Seq(Byte) /\ z # <<>> /\ \A i \in 1 .. Len(z) : z[i] = 0
      BY <2>1 DEF IsZeros
    <3>2. Head(z) = z[1] /\ 1 \in 1 .. Len(z)
      BY <3>1
    <3> QED BY <3>1, <3>2
  <2>3. ~Knows(type, Head(s.rest))
    BY <2>2, ZeroTag
  <2>4. Turn(type, s) = Failed(s.msg)
    BY <1>2, <2>3, TurnCases, Zenon
  <2>5. FlatTurn(type, s) = Failed(s.msg)
    BY <1>2, <2>3, Zenon DEF FlatTurn
  <2>6. Over(part, Failed(s.msg))
    BY <2>1 DEF Over, Failed
  <2> QED BY <2>4, <2>5, <2>6, Zenon
<1> QED BY <1>1, <1>2

\* A turn has come to the cut in the bytes of a field.
EndsIn(m, f, v, s) ==
    Over(m, s) \/ \E w : IsCutValue(f.type, w, v) /\ Over(Set(m, f, w), s)

\* A number is cut.
LEMMA ReadNumberCut ==
    ASSUME NEW m, NEW all, NEW f, f.type \in Numbers, NEW v \in Number(f.type),
           NEW bytes, IsCut(bytes, NumberBytes(f.type, v))
    PROVE  EndsIn(m, f, v, ReadNumber(Reading(m, all), f, bytes))
<1>1. PICK end \in Nat, w \in Number(f.type) :
        /\ end = NumberLength(f.type, bytes) /\ w = NumberValue(f.type, bytes)
        /\ end <= Len(bytes) /\ IsZeros(Drop(bytes, end))
        /\ f.type = "uint32" /\ v < 128 => w = 0
  BY NumberCut
<1>2. ~(end > Len(bytes))
  <2>1. Len(bytes) \in Nat
    BY DEF IsCut, IsCutAt
  <2> QED BY <1>1, <2>1
<1>3. ReadNumber(Reading(m, all), f, bytes)
        = Reading(Set(m, f, NumberValue(f.type, bytes)), Drop(bytes, end))
  BY <1>1, <1>2, ReadNumberIs
<1>4. ReadNumber(Reading(m, all), f, bytes) = Reading(Set(m, f, w), Drop(bytes, end))
  BY <1>1, <1>3, Zenon
<1>5. Over(Set(m, f, w), Reading(Set(m, f, w), Drop(bytes, end)))
  BY <1>1 DEF Over, Reading
<1>6. IsCutValue(f.type, w, v)
  BY <1>1, MessageTypes DEF IsCutValue, IsValue
<1> QED BY <1>4, <1>5, <1>6, Zenon DEF EndsIn

\* Of a field the tag is cut off, or its value is cut.
LEMMA FieldCut ==
    ASSUME NEW type \in DOMAIN Fields, NEW i, NEW f, IsFieldAt(type, i, f),
           NEW b \in Seq(Byte), NEW whole, IsSplit(whole, <<Tag(f)>>, b),
           NEW bytes, IsCut(bytes, whole)
    PROVE  /\ bytes # <<>>
           /\ \/ ~Knows(type, Head(bytes))
              \/ /\ Knows(type, Head(bytes)) /\ Fields[type][Head(bytes) \div 8] = f
                 /\ IsCut(Tail(bytes), b)
<1>1. Tag(f) \in Byte /\ Tag(f) \div 8 = i /\ Knows(type, Tag(f)) /\ f = Fields[type][i]
  BY KnowsFacts DEF IsFieldAt
<1>2. PICK t : t = Tag(f)
  OBVIOUS
<1>3. /\ bytes # <<>>
      /\ Head(bytes) = 0 \/ (Head(bytes) = t /\ IsCut(Tail(bytes), b))
  BY <1>1, <1>2, HeadCut
<1>4. CASE Head(bytes) = 0
  BY <1>3, <1>4, ZeroTag
<1>5. CASE Head(bytes) = t /\ IsCut(Tail(bytes), b)
  BY <1>1, <1>2, <1>3, <1>5, Zenon
<1> QED BY <1>3, <1>4, <1>5

\* So a turn of the loop of a message of numbers.
LEMMA FlatTurnCut ==
    ASSUME NEW type \in Flat, NEW i, NEW f, IsFieldAt(type, i, f),
           NEW v \in Number(f.type), NEW whole, IsSplit(whole, <<Tag(f)>>, NumberBytes(f.type, v)),
           NEW m, NEW bytes, IsCut(bytes, whole)
    PROVE  EndsIn(m, f, v, FlatTurn(type, Reading(m, bytes)))
<1>0. type \in DOMAIN Fields /\ f.type \in Numbers
  <2>1. type \in DOMAIN Fields
    BY MessageTypes DEF IsMessage
  <2> QED BY <2>1, FieldsFacts DEF IsFieldAt
<1>1. PICK b : b = NumberBytes(f.type, v)
  OBVIOUS
<1>2. b \in Seq(Byte)
  BY <1>0, <1>1, NumberFacts
<1>3. /\ bytes # <<>>
      /\ \/ ~Knows(type, Head(bytes))
         \/ /\ Knows(type, Head(bytes)) /\ Fields[type][Head(bytes) \div 8] = f
            /\ IsCut(Tail(bytes), b)
  BY <1>0, <1>1, <1>2, FieldCut
<1>4. CASE ~Knows(type, Head(bytes))
  <2>1. FlatTurn(type, Reading(m, bytes)) = Failed(m)
    BY <1>3, <1>4, FlatTurnIs, Zenon
  <2>2. Over(m, Failed(m))
    BY DEF Over, Failed
  <2> QED BY <2>1, <2>2, Zenon DEF EndsIn
<1>5. CASE /\ Knows(type, Head(bytes)) /\ Fields[type][Head(bytes) \div 8] = f
           /\ IsCut(Tail(bytes), b)
  <2>1. FlatTurn(type, Reading(m, bytes)) = ReadNumber(Reading(m, bytes), f, Tail(bytes))
    BY <1>3, <1>5, FlatTurnIs, Zenon
  <2>2. EndsIn(m, f, v, ReadNumber(Reading(m, bytes), f, Tail(bytes)))
    BY <1>0, <1>1, <1>5, ReadNumberCut
  <2> QED BY <2>1, <2>2, Zenon
<1> QED BY <1>3, <1>4, <1>5

\* The loop has read the first i fields and what is left is cut, or it has come
\* to the cut.
IsBefore(type, m, i, left, s) == \E x : s = Reading(Upto(type, m, i), x) /\ IsCut(x, left)
FlatEnds(type, m, s)          == \E part : Over(part, s) /\ IsCutFlat(type, part, m)

\* From one field to the next there is a turn or nothing.
LEMMA FlatCutStep ==
    ASSUME NEW type \in Flat, NEW m, IsFlatMessage(type, m), NEW i \in 1 .. 3, NEW k, k = i - 1,
           NEW tail, NEW whole, IsSplit(whole, FlatFieldBytes(type, i, m), tail),
           NEW s, IsBefore(type, m, k, whole, s)
    PROVE  \/ IsBefore(type, m, i, tail, s)
           \/ IsBefore(type, m, i, tail, FlatTurn(type, s))
           \/ FlatEnds(type, m, FlatTurn(type, s))
<1>0. type \in DOMAIN Fields
  BY MessageTypes DEF IsMessage
<1>1. PICK x : s = Reading(Upto(type, m, k), x) /\ IsCut(x, whole)
  BY DEF IsBefore
<1>2. PICK b : b = FlatFieldBytes(type, i, m)
  OBVIOUS
<1>3. IsCut(x, b) \/ \E y : IsSplit(x, b, y) /\ IsCut(y, tail)
  BY <1>1, <1>2, CutSplit
<1>4. CASE \E y : IsSplit(x, b, y) /\ IsCut(y, tail)
  <2>1. PICK y : IsSplit(x, b, y) /\ IsCut(y, tail)
    BY <1>4
  <2>2. IsSplit(x, FlatFieldBytes(type, i, m), y)
    BY <1>2, <2>1
  <2>3. s = Reading(Upto(type, m, i), y) \/ FlatTurn(type, s) = Reading(Upto(type, m, i), y)
    <3>1. \/ Reading(Upto(type, m, k), x) = Reading(Upto(type, m, i), y)
          \/ FlatTurn(type, Reading(Upto(type, m, k), x)) = Reading(Upto(type, m, i), y)
      BY <2>2, FlatStep
    <3> QED BY <1>1, <3>1, Zenon
  <2> QED BY <2>1, <2>3 DEF IsBefore
<1>5. CASE IsCut(x, b)
  <2>1. HasField(type, i, m)
    <3>1. b # <<>>
      BY <1>5 DEF IsCut, IsCutAt
    <3> QED BY <1>2, <3>1 DEF FlatFieldBytes
  <2> PICK f : f = Fields[type][i]
    OBVIOUS
  <2>2. i \in 1 .. Len(Fields[type]) /\ f.name \in DOMAIN m
    BY <1>0, <2>1, FieldsFacts DEF HasField, IsWritten
  <2>3. m[f.name] \in Number(f.type) /\ f.type \in Numbers /\ IsFieldAt(type, i, f)
    BY <1>0, <2>2, FieldsFacts DEF IsFlatMessage, IsFieldAt
  <2> PICK v, n, tag : v = m[f.name] /\ n = NumberBytes(f.type, v) /\ tag = <<Tag(f)>>
    OBVIOUS
  <2>4. IsSplit(b, tag, n)
    <3>1. b = tag \o n
      BY <1>2, <2>1, Zenon DEF FlatFieldBytes
    <3>2. n \in Seq(Byte) /\ tag \in Seq(Byte)
      BY <1>0, <2>3, NumberFacts, KnowsFacts DEF IsFieldAt
    <3> QED BY <3>1, <3>2 DEF IsSplit
  <2>5. EndsIn(Upto(type, m, k), f, v, FlatTurn(type, s))
    <3> PICK u : u = Upto(type, m, k)
      OBVIOUS
    <3>1. EndsIn(u, f, v, FlatTurn(type, Reading(u, x)))
      BY <1>5, <2>3, <2>4, FlatTurnCut
    <3> QED BY <1>1, <3>1, Zenon
  <2>6. PICK w, part : /\ Over(part, FlatTurn(type, s))
                       /\ \/ part = Upto(type, m, k)
                          \/ IsCutValue(f.type, w, v) /\ part = Set(Upto(type, m, k), f, w)
    BY <2>5, Zenon DEF EndsIn
  <2>7. IsCutFlat(type, part, m)
    BY <2>2, <2>3, <2>6, FlatReadSoFar
  <2> QED BY <2>6, <2>7 DEF FlatEnds
<1> QED BY <1>3, <1>4, <1>5

\* Where the loop has come to the cut it stays.
LEMMA FlatEndsStays ==
    ASSUME NEW type \in Flat, NEW m, NEW s, FlatEnds(type, m, s)
    PROVE  FlatEnds(type, m, FlatTurn(type, s))
<1>1. type \in DOMAIN Fields
  BY MessageTypes DEF IsMessage
<1> QED BY <1>1, OverStays DEF FlatEnds

\* Nothing is left where nothing has been written.
LEMMA NoneBefore ==
    ASSUME NEW type, NEW m, NEW i, NEW s
    PROVE  ~IsBefore(type, m, i, <<>>, s)
<1> SUFFICES ASSUME IsBefore(type, m, i, <<>>, s) PROVE FALSE
  OBVIOUS
<1>1. PICK x, d : IsCutAt(x, <<>>, d)
  BY DEF IsBefore, IsCut
<1>2. d \in 0 .. -1
  BY <1>1 DEF IsCutAt
<1> QED BY <1>2

\* A message of numbers that is cut is read up to the cut.
LEMMA FlatCut ==
    ASSUME NEW type \in Flat, NEW m, IsFlatMessage(type, m),
           NEW bytes, IsCut(bytes, FlatBytes(type, m))
    PROVE  FlatEnds(type, m, FlatParse(type, Reading(Empty, bytes)))
<1> DEFINE b1 == FlatFieldBytes(type, 1, m)
           b2 == FlatFieldBytes(type, 2, m)
           b3 == FlatFieldBytes(type, 3, m)
<1>1. b1 \in Seq(Byte) /\ b2 \in Seq(Byte) /\ b3 \in Seq(Byte) /\ <<>> \in Seq(Byte)
  BY FlatFieldFacts
<1>2. FlatBytes(type, m) = b1 \o (b2 \o b3) /\ b3 \o <<>> = b3 /\ b2 \o b3 \in Seq(Byte)
  BY <1>1, Assoc DEF FlatBytes
<1>3. Upto(type, m, 0) = Empty
  <2>1. type \in DOMAIN Fields /\ Len(Fields[type]) \in 0 .. 3
    BY MessageTypes, FieldsFacts DEF IsMessage
  <2> QED BY <2>1, UptoEnds DEF IsFlatMessage
<1>4. PICK c1, c2 : c1 = b1 \o (b2 \o b3) /\ c2 = b2 \o b3
  OBVIOUS
<1>5. IsSplit(c1, b1, c2) /\ IsSplit(c2, b2, b3) /\ IsSplit(b3, b3, <<>>)
  BY <1>1, <1>2, <1>4 DEF IsSplit
<1> PICK s0, s1, s2, s3, s4 :
      /\ s0 = Reading(Empty, bytes)
      /\ s1 = FlatTurn(type, s0) /\ s2 = FlatTurn(type, s1)
      /\ s3 = FlatTurn(type, s2) /\ s4 = FlatTurn(type, s3)
  OBVIOUS
<1>6. FlatParse(type, s0) = s4
  BY FlatTurns, Zenon
<1>7. IsBefore(type, m, 0, c1, s0)
  BY <1>2, <1>3, <1>4, Zenon DEF IsBefore
<1>8. /\ 1 \in 1 .. 3 /\ 2 \in 1 .. 3 /\ 3 \in 1 .. 3
      /\ 0 = 1 - 1 /\ 1 = 2 - 1 /\ 2 = 3 - 1
  OBVIOUS
<1> HIDE DEF b1, b2, b3
<1>9. IsBefore(type, m, 1, c2, s0) \/ IsBefore(type, m, 1, c2, s1) \/ FlatEnds(type, m, s1)
  BY <1>5, <1>7, <1>8, FlatCutStep DEF b1
<1>10. \A s : IsBefore(type, m, 1, c2, s) =>
            \/ IsBefore(type, m, 2, b3, s) \/ IsBefore(type, m, 2, b3, FlatTurn(type, s))
            \/ FlatEnds(type, m, FlatTurn(type, s))
  BY <1>5, <1>8, FlatCutStep DEF b2
<1>11. \A s : IsBefore(type, m, 2, b3, s) => FlatEnds(type, m, FlatTurn(type, s))
  BY <1>5, <1>8, FlatCutStep, NoneBefore DEF b3
<1>12. \A s : FlatEnds(type, m, s) => FlatEnds(type, m, FlatTurn(type, s))
  BY FlatEndsStays
<1>13. FlatEnds(type, m, s1) \/ FlatEnds(type, m, s2) \/ FlatEnds(type, m, s3)
  BY <1>9, <1>10, <1>11
<1>14. FlatEnds(type, m, s4)
  BY <1>12, <1>13
<1> QED BY <1>6, <1>14, Zenon

\* Where there is nothing a message without fields is read.
LEMMA FlatNothing ==
    ASSUME NEW type \in Flat, NEW m
    PROVE  FlatEnds(type, m, FlatParse(type, Reading(Empty, <<>>)))
<1> PICK s : s = Reading(Empty, <<>>)
  OBVIOUS
<1>1. FlatTurn(type, s) = s
  BY Idle DEF Done, Reading
<1>2. FlatParse(type, s) = s
  BY <1>1, FlatTurns, Zenon
<1>3. Over(Empty, s)
  BY DEF Over, Reading, IsZeros
<1>4. IsCutFlat(type, Empty, m)
  <2>1. DOMAIN Empty = {} /\ Empty = [name \in DOMAIN Empty |-> Empty[name]]
    BY DEF Empty
  <2>2. IsFlatMessage(type, Empty)
    BY <2>1 DEF IsFlatMessage, IsRecordOf
  <2>3. AllBut("", Empty, m)
    BY <2>1 DEF AllBut
  <2>4. Get(Empty, "Index", "uint32") = 0
    BY <2>1, MessageTypes, Zenon DEF Get, Default, Numbers
  <2> QED BY <2>2, <2>3, <2>4 DEF IsCutFlat
<1> QED BY <1>2, <1>3, <1>4, Zenon DEF FlatEnds

\* A message with its size in front is cut before its first byte or behind it.
LEMMA ParseMessageCut ==
    ASSUME NEW m, NEW all, NEW f, f.type \in Flat, f.name \notin DOMAIN m,
           NEW v, IsFlatMessage(f.type, v), NEW bytes, IsCut(bytes, ValueBytes(f.type, v))
    PROVE  EndsIn(m, f, v, ParseMessage(Reading(m, all), f, bytes))
<1>1. PICK type, n, w, b : /\ type = f.type /\ n = FlatSize(type, v)
                           /\ w = Varint(n) /\ b = FlatBytes(type, v)
  OBVIOUS
<1>2. b \in Seq(Byte) /\ Len(b) = n /\ n \in 0 .. 18
  BY <1>1, FlatFacts
<1>3. n \in UInt32 /\ n < 128 /\ n \in Nat
  <2>1. n \in 0 .. 127
    BY <1>2
  <2> QED BY <2>1, SmallVarint
<1>4. w \in Seq(Byte) /\ Len(w) \in Nat
  BY <1>1, <1>3, VarintBytes
<1>5. PICK whole : whole = ValueBytes(f.type, v)
  OBVIOUS
<1>6. IsSplit(whole, w, b)
  <2>1. IsMessage(f.type)
    BY MessageTypes
  <2>2. whole = w \o b
    BY <1>1, <1>5, <2>1, Zenon DEF ValueBytes
  <2> QED BY <1>2, <1>4, <2>2 DEF IsSplit
<1>7. bytes \in Seq(Byte) /\ Len(bytes) \in Nat
  BY DEF IsCut, IsCutAt
<1>8. \E length, value, end \in Nat : \E part :
        /\ VarintParse(bytes) = [length |-> length, value |-> value]
        /\ end = length + value /\ end <= Len(bytes)
        /\ IsZeros(Drop(bytes, end))
        /\ part = SubSeq(bytes, length + 1, end) /\ (part = <<>> \/ IsCut(part, b))
  <2>1. CASE IsCut(bytes, w)
    <3>1. PICK length \in Nat, value \in UInt32 :
            /\ VarintParse(bytes) = [length |-> length, value |-> value]
            /\ length <= Len(bytes) /\ IsZeros(Drop(bytes, length))
            /\ n < 128 => value = 0
      BY <1>1, <1>3, <2>1, VarintCut
    <3>2. value = 0 /\ value \in Nat /\ length = length + value
      BY <1>3, <3>1
    <3>3. SubSeq(bytes, length + 1, length) = <<>>
      BY <1>7, <3>1
    <3> QED BY <3>1, <3>2, <3>3
  <2>2. CASE \E x : IsSplit(bytes, w, x) /\ IsCut(x, b)
    <3>1. PICK x : IsSplit(bytes, w, x) /\ IsCut(x, b)
      BY <2>2
    <3>2. x \in Seq(Byte) /\ bytes = w \o x
      BY <3>1 DEF IsSplit
    <3>3. PICK a \in Nat : a = Len(w)
      BY <1>4
    <3>4. VarintParse(bytes) = [length |-> a, value |-> n]
      <4>1. VarintParse(Varint(n) \o x) = [length |-> Len(Varint(n)), value |-> n]
        BY <1>3, <3>2, ReadsWhatWasWritten
      <4> QED BY <1>1, <3>2, <3>3, <4>1, Zenon
    <3>5. PICK d : IsCutAt(x, b, d)
      BY <3>1 DEF IsCut
    <3>6. PICK l \in Nat : l = Len(x) /\ n <= l /\ Len(bytes) = a + l
      <4>1. Len(bytes) = Len(w) + Len(x) /\ Len(x) \in Nat
        BY <1>4, <3>2, Join
      <4>2. Len(b) <= Len(x)
        BY <3>5 DEF IsCutAt
      <4> QED BY <1>2, <3>3, <4>1, <4>2
    <3>7. \A i \in 1 .. l : bytes[a + i] = x[i]
      <4>1. \A i \in 1 .. Len(x) : (w \o x)[Len(w) + i] = x[i]
        BY <1>4, <3>2, ConcatFacts
      <4> QED BY <3>2, <3>3, <3>6, <4>1, Zenon
    <3>8. PICK part : part = SubSeq(bytes, a + 1, a + n)
      OBVIOUS
    <3>9. part \in Seq(Byte) /\ Len(part) = n /\ \A i \in 1 .. n : part[i] = x[i]
      <4>1. /\ part \in Seq(Byte) /\ Len(part) = (a + n) - a
            /\ \A i \in 1 .. (a + n) - a : part[i] = bytes[a + i]
        <5>1. a <= a + n /\ a + n <= Len(bytes) /\ a + n \in Nat
          BY <1>3, <3>6
        <5> QED BY <1>7, <3>8, <5>1, BehindFacts
      <4>2. (a + n) - a = n /\ \A i \in 1 .. n : i \in 1 .. l
        BY <1>3, <3>6
      <4> QED BY <3>7, <4>1, <4>2
    <3>10. IsCutAt(part, b, d)
      <4>1. /\ d \in 0 .. n - 1 /\ \A i \in 1 .. d : x[i] = b[i]
            /\ \A i \in d + 1 .. l : x[i] = 0
        BY <1>2, <3>5, <3>6 DEF IsCutAt
      <4>2. /\ \A i \in 1 .. d : i \in 1 .. n
            /\ \A i \in d + 1 .. n : i \in 1 .. n /\ i \in d + 1 .. l
        BY <1>3, <3>6, <4>1
      <4>3. \A i \in 1 .. d : part[i] = b[i]
        BY <3>9, <4>1, <4>2
      <4>4. \A i \in d + 1 .. n : part[i] = 0
        BY <3>9, <4>1, <4>2
      <4> QED BY <1>2, <1>3, <3>9, <4>1, <4>3, <4>4 DEF IsCutAt
    <3>11. IsZeros(Drop(bytes, a + n))
      <4>1. PICK z : z = SubSeq(bytes, a + n + 1, a + l)
        OBVIOUS
      <4>2. z \in Seq(Byte) /\ Len(z) = l - n /\ \A i \in 1 .. l - n : z[i] = bytes[a + (n + i)]
        <5>1. /\ z \in Seq(Byte) /\ Len(z) = (a + l) - (a + n)
              /\ \A i \in 1 .. (a + l) - (a + n) : z[i] = bytes[(a + n) + i]
          BY <1>3, <1>7, <3>6, <4>1, BehindFacts
        <5>2. (a + l) - (a + n) = l - n /\ \A i \in 1 .. l - n : (a + n) + i = a + (n + i)
          BY <1>3, <3>6
        <5> QED BY <5>1, <5>2
      <4>3. \A i \in 1 .. l - n : n + i \in 1 .. l /\ n + i \in d + 1 .. l
        BY <1>2, <1>3, <3>5, <3>6 DEF IsCutAt
      <4>4. \A i \in d + 1 .. l : x[i] = 0
        BY <3>5, <3>6 DEF IsCutAt
      <4>5. \A i \in 1 .. l - n : z[i] = 0
        BY <3>7, <4>2, <4>3, <4>4
      <4> QED BY <3>6, <4>1, <4>2, <4>5 DEF IsZeros, Drop
    <3>12. a + n \in Nat /\ a + n <= Len(bytes)
      BY <1>3, <3>6
    <3>13. IsCut(part, b)
      BY <3>10 DEF IsCut
    <3> QED BY <1>3, <3>4, <3>8, <3>11, <3>12, <3>13
  <2> QED BY <1>5, <1>6, <2>1, <2>2, CutSplit
<1>9. PICK length, value, end, part :
        /\ length \in Nat /\ value \in Nat /\ end \in Nat
        /\ VarintParse(bytes) = [length |-> length, value |-> value]
        /\ end = length + value /\ end <= Len(bytes)
        /\ IsZeros(Drop(bytes, end))
        /\ part = SubSeq(bytes, length + 1, end) /\ (part = <<>> \/ IsCut(part, b))
  BY <1>8
<1>10. Get(m, f.name, f.type) = Empty
  <2>1. f.type # "float" /\ f.type \notin {"uint32", "bool"} /\ IsMessage(f.type)
    BY MessageTypes DEF Flat
  <2> QED BY <2>1 DEF Get, Default
<1>11. PICK size, inner :
        /\ size = VarintParse(bytes)
        /\ inner = FlatParse(f.type, Reading(Get(m, f.name, f.type),
                                            SubSeq(bytes, size.length + 1, end)))
  OBVIOUS
<1>12. size.length = length /\ size.value = value
  BY <1>9, <1>11
<1>13. FlatEnds(type, v, inner)
  <2>1. inner = FlatParse(type, Reading(Empty, part))
    BY <1>1, <1>9, <1>10, <1>11, <1>12, Zenon
  <2>2. CASE part = <<>>
    BY <1>1, <2>1, <2>2, FlatNothing
  <2>3. CASE IsCut(part, b)
    BY <1>1, <2>1, <2>3, FlatCut
  <2> QED BY <1>9, <2>2, <2>3
<1>14. PICK u : Over(u, inner) /\ IsCutFlat(type, u, v)
  BY <1>13 DEF FlatEnds
<1>15. inner.msg = u
  BY <1>14 DEF Over
<1>16. Over(Set(m, f, u), ParseMessage(Reading(m, all), f, bytes))
  <2>1. ~(end > Len(bytes)) /\ end = size.length + size.value
    BY <1>7, <1>9, <1>12
  <2>2. CASE inner.ok
    <3>1. ParseMessage(Reading(m, all), f, bytes) = Reading(Set(m, f, inner.msg), Drop(bytes, end))
      BY <1>11, <2>1, <2>2, ParseMessageIs
    <3>2. Over(Set(m, f, u), Reading(Set(m, f, u), Drop(bytes, end)))
      BY <1>9 DEF Over, Reading
    <3> QED BY <1>15, <3>1, <3>2, Zenon
  <2>3. CASE ~inner.ok
    <3>1. ParseMessage(Reading(m, all), f, bytes) = Failed(Set(m, f, inner.msg))
      BY <1>11, <2>1, <2>3, ParseMessageIs
    <3>2. Over(Set(m, f, u), Failed(Set(m, f, u)))
      BY DEF Over, Failed
    <3> QED BY <1>15, <3>1, <3>2, Zenon
  <2> QED BY <2>2, <2>3
<1>17. IsCutValue(f.type, u, v)
  <2>1. IsMessage(f.type) /\ f.type # "uint32"
    BY MessageTypes DEF Flat
  <2> QED BY <1>1, <1>14, <2>1 DEF IsCutValue, IsValue, IsCutFlat
<1> QED BY <1>16, <1>17 DEF EndsIn

\* A turn of the loop comes to the cut in the bytes of the field that it reads.
LEMMA TurnCut ==
    ASSUME NEW type \in DOMAIN Fields, NEW i, NEW f, IsFieldAt(type, i, f),
           NEW m, f.name \notin DOMAIN m, NEW v, IsValue(f.type, v),
           NEW bytes, IsCut(bytes, Written(f, v))
    PROVE  EndsIn(m, f, v, Turn(type, Reading(m, bytes)))
<1>0. f.type \in Numbers \cup Flat /\ (IsMessage(f.type) <=> f.type \in Flat)
  <2>1. f.type \in Numbers \cup Flat
    BY FieldsFacts DEF IsField, IsFieldAt
  <2> QED BY <2>1, MessageTypes
<1>1. PICK b, tag : b = ValueBytes(f.type, v) /\ tag = <<Tag(f)>>
  OBVIOUS
<1>2. b \in Seq(Byte) /\ tag \in Seq(Byte)
  BY <1>0, <1>1, ValueFacts, KnowsFacts DEF IsFieldAt
<1>3. IsSplit(Written(f, v), tag, b)
  BY <1>1, <1>2, Zenon DEF IsSplit, Written
<1>4. /\ bytes # <<>>
      /\ \/ ~Knows(type, Head(bytes))
         \/ /\ Knows(type, Head(bytes)) /\ Fields[type][Head(bytes) \div 8] = f
            /\ IsCut(Tail(bytes), b)
  BY <1>1, <1>2, <1>3, FieldCut
<1>5. CASE ~Knows(type, Head(bytes))
  <2>1. Turn(type, Reading(m, bytes)) = Failed(m)
    BY <1>4, <1>5, TurnIs, Zenon
  <2>2. Over(m, Failed(m))
    BY DEF Over, Failed
  <2> QED BY <2>1, <2>2, Zenon DEF EndsIn
<1>6. CASE /\ Knows(type, Head(bytes)) /\ Fields[type][Head(bytes) \div 8] = f
           /\ IsCut(Tail(bytes), b)
  <2>1. Turn(type, Reading(m, bytes))
          = IF IsMessage(f.type) THEN ParseMessage(Reading(m, bytes), f, Tail(bytes))
            ELSE ReadNumber(Reading(m, bytes), f, Tail(bytes))
    BY <1>4, <1>6, TurnIs, Zenon
  <2>2. CASE f.type \in Flat
    <3>1. IsFlatMessage(f.type, v)
      BY <1>0, <2>2 DEF IsValue
    <3>2. EndsIn(m, f, v, ParseMessage(Reading(m, bytes), f, Tail(bytes)))
      BY <1>1, <1>6, <2>2, <3>1, ParseMessageCut
    <3> QED BY <1>0, <2>1, <2>2, <3>2, Zenon
  <2>3. CASE f.type \in Numbers
    <3>1. ~IsMessage(f.type) /\ v \in Number(f.type) /\ b = NumberBytes(f.type, v)
      BY <1>1, <2>3, MessageTypes DEF IsValue, ValueBytes
    <3>2. EndsIn(m, f, v, ReadNumber(Reading(m, bytes), f, Tail(bytes)))
      BY <1>6, <2>3, <3>1, ReadNumberCut
    <3> QED BY <2>1, <3>1, <3>2, Zenon
  <2> QED BY <1>0, <2>2, <2>3
<1> QED BY <1>4, <1>5, <1>6

Ends(type, m, s) == \E part : Over(part, s) /\ IsCutMessage(type, part, m)

\* From one field to the next there is a turn or nothing, until the cut.
LEMMA CutStep ==
    ASSUME NEW type \in DOMAIN Fields, NEW m, IsShooterMessage(type, m),
           NEW i \in 1 .. 8, NEW k, k = i - 1,
           NEW tail, NEW whole, IsSplit(whole, FieldBytes(type, i, m), tail),
           NEW s, IsBefore(type, m, k, whole, s)
    PROVE  \/ IsBefore(type, m, i, tail, s)
           \/ IsBefore(type, m, i, tail, Turn(type, s))
           \/ Ends(type, m, Turn(type, s))
<1>1. PICK x : s = Reading(Upto(type, m, k), x) /\ IsCut(x, whole)
  BY DEF IsBefore
<1>2. PICK b : b = FieldBytes(type, i, m)
  OBVIOUS
<1>3. IsCut(x, b) \/ \E y : IsSplit(x, b, y) /\ IsCut(y, tail)
  BY <1>1, <1>2, CutSplit
<1>4. CASE \E y : IsSplit(x, b, y) /\ IsCut(y, tail)
  <2>1. PICK y : IsSplit(x, b, y) /\ IsCut(y, tail)
    BY <1>4
  <2>2. IsSplit(x, FieldBytes(type, i, m), y)
    BY <1>2, <2>1
  <2>3. Reaches(type, s, Reading(Upto(type, m, i), y))
    BY <1>1, <2>2, Step
  <2> QED BY <2>1, <2>3 DEF IsBefore, Reaches
<1>5. CASE IsCut(x, b)
  <2>1. HasField(type, i, m)
    <3>1. b # <<>>
      BY <1>5 DEF IsCut, IsCutAt
    <3> QED BY <1>2, <3>1 DEF FieldBytes
  <2> PICK f : f = Fields[type][i]
    OBVIOUS
  <2>2. i \in 1 .. Len(Fields[type]) /\ f.name \in DOMAIN m
    BY <2>1, FieldsFacts DEF HasField, IsWritten
  <2>3. IsFieldAt(type, i, f) /\ IsValue(f.type, m[f.name])
    BY <2>2 DEF IsShooterMessage, IsFieldAt
  <2>4. b = Written(f, m[f.name])
    BY <1>2, <2>1 DEF FieldBytes, Written
  <2> PICK v, u : v = m[f.name] /\ u = Upto(type, m, k)
    OBVIOUS
  <2>5. f.name \notin DOMAIN u
    BY <2>3, NotYet
  <2>6. EndsIn(u, f, v, Turn(type, s))
    <3>1. EndsIn(u, f, v, Turn(type, Reading(u, x)))
      BY <1>5, <2>3, <2>4, <2>5, TurnCut
    <3> QED BY <1>1, <3>1, Zenon
  <2>7. PICK w, part : /\ Over(part, Turn(type, s))
                       /\ \/ part = Upto(type, m, k)
                          \/ IsCutValue(f.type, w, v) /\ part = Set(Upto(type, m, k), f, w)
    BY <2>6, Zenon DEF EndsIn
  <2>8. IsReadWith(type, m, k, f, w, part)
    BY <2>7 DEF IsCutValue, IsReadWith
  <2>9. /\ IsShooterMessage(type, part) /\ AllBut(f.name, part, m)
        /\ f.name \in DOMAIN part => part[f.name] = w
    BY <2>3, <2>8, ReadSoFar
  <2>10. f.name \in DOMAIN part => IsCutValue(f.type, part[f.name], m[f.name])
    <3>1. part = Upto(type, m, k) => f.name \notin DOMAIN part
      BY <2>5
    <3> QED BY <2>7, <2>9, <3>1, Zenon
  <2>11. IsCutMessage(type, part, m)
    BY <2>2, <2>3, <2>9, <2>10, Zenon DEF IsCutMessage
  <2> QED BY <2>7, <2>11 DEF Ends
<1> QED BY <1>3, <1>4, <1>5

\* Of a message that has been cut, wherever that is, with zeros behind the cut,
\* ParseFromArray reads values that were sent, but for one, and that one is part of
\* what was sent in its place: a message of which all values but one are there or
\* left out, or, where a number took one byte, zero.
THEOREM ReadsUpToTheCut ==
    \A type \in DOMAIN Fields : \A m, bytes :
        IsShooterMessage(type, m) /\ IsCut(bytes, Serialize(type, m)) =>
            IsCutMessage(type, ParseFromArray(type, bytes), m)
<1> SUFFICES ASSUME NEW type \in DOMAIN Fields, NEW m, NEW bytes,
                    IsShooterMessage(type, m), IsCut(bytes, Serialize(type, m))
             PROVE  IsCutMessage(type, ParseFromArray(type, bytes), m)
  OBVIOUS
<1>1. PICK r : IsChain(type, m, r)
  BY FromTheFront
<1> DEFINE B(i, s) == IsBefore(type, m, i, r[i], s)
           E(s)    == Ends(type, m, s)
           T(s)    == Turn(type, s)
<1>2. \A i \in 1 .. 8 : \A s : B(i - 1, s) => B(i, s) \/ B(i, T(s)) \/ E(T(s))
  <2>1. SUFFICES ASSUME NEW i \in 1 .. 8, NEW s, B(i - 1, s)
                 PROVE  B(i, s) \/ B(i, T(s)) \/ E(T(s))
    OBVIOUS
  <2> PICK k, x, y : k = i - 1 /\ x = r[k] /\ y = r[i]
    OBVIOUS
  <2>2. IsSplit(x, FieldBytes(type, i, m), y) /\ IsBefore(type, m, k, x, s)
    BY <1>1, <2>1 DEF IsChain
  <2>3. \/ IsBefore(type, m, i, y, s) \/ IsBefore(type, m, i, y, Turn(type, s))
        \/ Ends(type, m, Turn(type, s))
    BY <2>2, CutStep
  <2> QED BY <2>3, Zenon
<1>3. \A s : ~B(8, s)
  BY <1>1, NoneBefore DEF IsChain
<1>4. \A s : E(s) => E(T(s))
  BY OverStays DEF Ends
<1>5. PICK s0 : s0 = Reading(Empty, bytes)
  OBVIOUS
<1>6. B(0, s0)
  <2>1. Upto(type, m, 0) = Empty
    <3>1. IsRecordOf(type, m) /\ Len(Fields[type]) \in 0 .. 8
      BY FieldsFacts DEF IsShooterMessage
    <3> QED BY <3>1, UptoEnds
  <2> QED BY <1>1, <1>5, <2>1 DEF IsBefore, IsChain
<1> HIDE DEF B, E, T
<1>7. E(T(T(T(T(T(T(T(T(s0)))))))))
  <2>0. /\ 1 - 1 = 0 /\ 2 - 1 = 1 /\ 3 - 1 = 2 /\ 4 - 1 = 3
        /\ 5 - 1 = 4 /\ 6 - 1 = 5 /\ 7 - 1 = 6 /\ 8 - 1 = 7
        /\ \A i \in {1, 2, 3, 4, 5, 6, 7, 8} : i \in 1 .. 8
    OBVIOUS
  <2>1. \A s : B(7, s) => E(T(s))
    BY <1>2, <1>3, <2>0
  <2>2. \A s : B(6, s) => E(T(T(s)))
    BY <1>2, <1>4, <2>0, <2>1
  <2>3. \A s : B(5, s) => E(T(T(T(s))))
    BY <1>2, <1>4, <2>0, <2>2
  <2>4. \A s : B(4, s) => E(T(T(T(T(s)))))
    BY <1>2, <1>4, <2>0, <2>3
  <2>5. \A s : B(3, s) => E(T(T(T(T(T(s))))))
    BY <1>2, <1>4, <2>0, <2>4
  <2>6. \A s : B(2, s) => E(T(T(T(T(T(T(s)))))))
    BY <1>2, <1>4, <2>0, <2>5
  <2>7. \A s : B(1, s) => E(T(T(T(T(T(T(T(s))))))))
    BY <1>2, <1>4, <2>0, <2>6
  <2>8. \A s : B(0, s) => E(T(T(T(T(T(T(T(T(s)))))))))
    BY <1>2, <1>4, <2>0, <2>7
  <2> QED BY <1>6, <2>8
<1>8. E(Parse(type, s0))
  BY <1>7, Turns, Zenon DEF T
<1>9. PICK part : Over(part, Parse(type, s0)) /\ IsCutMessage(type, part, m)
  BY <1>8 DEF E, Ends
<1> QED BY <1>5, <1>9 DEF Over, ParseFromArray
=============================================================================
