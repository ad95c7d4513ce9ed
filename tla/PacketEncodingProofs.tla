------------------------ MODULE PacketEncodingProofs ------------------------
(***************************************************************************)
(* The sizes and the bytes of Varints agree for every uint32, and reading  *)
(* gives back what was written, whatever follows it.  So a packet is as    *)
(* long as its header says, whatever message is in it: SerializePacket     *)
(* makes the header and the buffer from ByteSizeLong before                *)
(* SerializeToArray writes.                                                *)
(***************************************************************************)
EXTENDS PacketEncoding, SequenceFacts

\* What the provers count in.
LEMMA UInt32Facts ==
    ASSUME NEW n
    PROVE  n \in UInt32 <=> n \in Nat /\ n < 2^32
<1>1. ASSUME n \in Nat
      PROVE  n \div 2^16 < 2^16 <=> n < 2^32
  BY <1>1, SMT
<1> QED BY <1>1 DEF UInt32

-----------------------------------------------------------------------------
(* Sizes.                                                                   *)

\* One turn of the loop, as an equation on its two variables.
LEMMA HalveFacts ==
    ASSUME NEW value \in Nat, NEW log \in Nat, NEW shift \in {1, 2, 4, 8, 16},
           value \div 2^shift \in Nat
    PROVE  \E v, l \in Nat :
              /\ Halve(shift, [value |-> value, log |-> log]) = [value |-> v, log |-> l]
              /\ IF value \div 2^shift = 0 THEN v = value /\ l = log
                 ELSE v = value \div 2^shift /\ l = log + shift
<1>1. CASE value \div 2^shift = 0
  BY <1>1, SMT DEF Halve
<1>2. CASE value \div 2^shift # 0
  BY <1>2, SMT DEF Halve
<1> QED BY <1>1, <1>2

\* The five turns find the highest bit that is set: here it is enough to know in
\* which group of seven it lies.
LEMMA FiveTurns ==
    ASSUME NEW n \in Nat, 0 < n, n < 2^32,
           NEW v16 \in Nat, NEW l16 \in Nat, NEW v8 \in Nat, NEW l8 \in Nat,
           NEW v4 \in Nat, NEW l4 \in Nat, NEW v2 \in Nat, NEW l2 \in Nat,
           NEW v1 \in Nat, NEW l1 \in Nat,
           IF n \div 2^16 = 0 THEN v16 = n /\ l16 = 0 ELSE v16 = n \div 2^16 /\ l16 = 0 + 16,
           IF v16 \div 2^8 = 0 THEN v8 = v16 /\ l8 = l16 ELSE v8 = v16 \div 2^8 /\ l8 = l16 + 8,
           IF v8 \div 2^4 = 0 THEN v4 = v8 /\ l4 = l8 ELSE v4 = v8 \div 2^4 /\ l4 = l8 + 4,
           IF v4 \div 2^2 = 0 THEN v2 = v4 /\ l2 = l4 ELSE v2 = v4 \div 2^2 /\ l2 = l4 + 2,
           IF v2 \div 2^1 = 0 THEN v1 = v2 /\ l1 = l2 ELSE v1 = v2 \div 2^1 /\ l1 = l2 + 1
    PROVE  /\ l1 \in 0 .. 31
           /\ n < 2^7 <=> l1 < 7
           /\ n < 2^14 <=> l1 < 14
           /\ n < 2^21 <=> l1 < 21
           /\ n < 2^28 <=> l1 < 28
  BY SMT

\* A shift leaves a natural number.
LEMMA ShiftType ==
    ASSUME NEW n \in Nat
    PROVE  /\ n \div 2^16 \in Nat /\ n \div 2^8 \in Nat /\ n \div 2^4 \in Nat
           /\ n \div 2^2 \in Nat /\ n \div 2^1 \in Nat
  BY SMT

\* The logarithm of a number says how many groups of seven bits it has.
LEMMA Log2Facts ==
    ASSUME NEW n \in UInt32, n > 0
    PROVE  /\ Log2Floor(n) \in 0 .. 31
           /\ n < 2^7 <=> Log2Floor(n) < 7
           /\ n < 2^14 <=> Log2Floor(n) < 14
           /\ n < 2^21 <=> Log2Floor(n) < 21
           /\ n < 2^28 <=> Log2Floor(n) < 28
<1>0. n \in Nat /\ 0 < n /\ n < 2^32
  BY UInt32Facts
<1>1. PICK v16, l16 \in Nat :
        /\ Halve(16, [value |-> n, log |-> 0]) = [value |-> v16, log |-> l16]
        /\ IF n \div 2^16 = 0 THEN v16 = n /\ l16 = 0 ELSE v16 = n \div 2^16 /\ l16 = 0 + 16
  BY <1>0, ShiftType, HalveFacts
<1>2. PICK v8, l8 \in Nat :
        /\ Halve(8, [value |-> v16, log |-> l16]) = [value |-> v8, log |-> l8]
        /\ IF v16 \div 2^8 = 0 THEN v8 = v16 /\ l8 = l16 ELSE v8 = v16 \div 2^8 /\ l8 = l16 + 8
  BY ShiftType, HalveFacts
<1>3. PICK v4, l4 \in Nat :
        /\ Halve(4, [value |-> v8, log |-> l8]) = [value |-> v4, log |-> l4]
        /\ IF v8 \div 2^4 = 0 THEN v4 = v8 /\ l4 = l8 ELSE v4 = v8 \div 2^4 /\ l4 = l8 + 4
  BY ShiftType, HalveFacts
<1>4. PICK v2, l2 \in Nat :
        /\ Halve(2, [value |-> v4, log |-> l4]) = [value |-> v2, log |-> l2]
        /\ IF v4 \div 2^2 = 0 THEN v2 = v4 /\ l2 = l4 ELSE v2 = v4 \div 2^2 /\ l2 = l4 + 2
  BY ShiftType, HalveFacts
<1>5. PICK v1, l1 \in Nat :
        /\ Halve(1, [value |-> v2, log |-> l2]) = [value |-> v1, log |-> l1]
        /\ IF v2 \div 2^1 = 0 THEN v1 = v2 /\ l1 = l2 ELSE v1 = v2 \div 2^1 /\ l1 = l2 + 1
  BY ShiftType, HalveFacts
<1>6. Log2Floor(n) = l1
  BY <1>1, <1>2, <1>3, <1>4, <1>5 DEF Log2Floor
<1>7. /\ l1 \in 0 .. 31
      /\ n < 2^7 <=> l1 < 7
      /\ n < 2^14 <=> l1 < 14
      /\ n < 2^21 <=> l1 < 21
      /\ n < 2^28 <=> l1 < 28
  BY <1>0, <1>1, <1>2, <1>3, <1>4, <1>5, FiveTurns
<1> QED BY <1>6, <1>7

\* The bit that is set for the sake of 0 moves no number into another group.
LEMMA OrOneFacts ==
    ASSUME NEW n \in UInt32
    PROVE  /\ OrOne(n) \in UInt32 /\ OrOne(n) > 0
           /\ OrOne(n) < 2^7 <=> n < 2^7
           /\ OrOne(n) < 2^14 <=> n < 2^14
           /\ OrOne(n) < 2^21 <=> n < 2^21
           /\ OrOne(n) < 2^28 <=> n < 2^28
<1>1. n \in Nat /\ n < 2^32 /\ OrOne(n) = n + 1 - (n % 2)
  BY UInt32Facts DEF OrOne
<1>2. OrOne(n) \in Nat /\ OrOne(n) < 2^32 /\ OrOne(n) > 0
  BY <1>1, SMT
<1>3. /\ OrOne(n) < 2^7 <=> n < 2^7
      /\ OrOne(n) < 2^14 <=> n < 2^14
      /\ OrOne(n) < 2^21 <=> n < 2^21
      /\ OrOne(n) < 2^28 <=> n < 2^28
  BY <1>1, SMT
<1> QED BY <1>2, <1>3, UInt32Facts

\* The size is the number of groups: 9/64 stands in for 1/7 up to 31.
LEMMA SizeFacts ==
    ASSUME NEW n \in UInt32
    PROVE  VarintSize32(n) = IF n < 2^7 THEN 1 ELSE IF n < 2^14 THEN 2
                             ELSE IF n < 2^21 THEN 3 ELSE IF n < 2^28 THEN 4 ELSE 5
<1> DEFINE log == Log2Floor(OrOne(n))
<1>1. VarintSize32(n) = (log * 9 + 73) \div 64
  BY DEF VarintSize32
<1>2. /\ log \in 0 .. 31
      /\ n < 2^7 <=> log < 7
      /\ n < 2^14 <=> log < 14
      /\ n < 2^21 <=> log < 21
      /\ n < 2^28 <=> log < 28
  BY OrOneFacts, Log2Facts
<1>3. n \in Nat
  BY UInt32Facts
<1> HIDE DEF log
<1> QED BY <1>1, <1>2, <1>3, SMT

\* The size that a length or a packet header is made from is the number of bytes
\* that are written, for every uint32.
THEOREM SizeIsLength == \A n \in UInt32 : VarintSize32(n) = Len(Varint(n))
<1> SUFFICES ASSUME NEW n \in UInt32 PROVE VarintSize32(n) = Len(Varint(n))
  OBVIOUS
<1>1. Len(Varint(n)) = IF n < 2^7 THEN 1 ELSE IF n < 2^14 THEN 2
                       ELSE IF n < 2^21 THEN 3 ELSE IF n < 2^28 THEN 4 ELSE 5
  BY SMT DEF Varint
<1> QED BY <1>1, SizeFacts

-----------------------------------------------------------------------------
(* Bytes.                                                                   *)

\* A group of seven bits and the continuation bit are a byte.
LEMMA MoreFacts ==
    ASSUME NEW n \in Nat
    PROVE  More(n) \in 128 .. 255 /\ More(n) = 128 + (n % 128)
  BY SMT DEF More

\* All bytes but the last have the continuation bit, the last has not, and each
\* is the group its place says.
LEMMA VarintFacts ==
    ASSUME NEW n \in UInt32, NEW k \in 1 .. 5, k = Len(Varint(n))
    PROVE  /\ Varint(n) \in Seq(Byte)
           /\ \A i \in 1 .. k - 1 : Varint(n)[i] >= 128
           /\ Varint(n)[k] < 128
<1>1. n \in Nat /\ n < 2^32
  BY UInt32Facts
<1>2. /\ n \div 2^7 \in Nat /\ n \div 2^14 \in Nat /\ n \div 2^21 \in Nat /\ n \div 2^28 \in Nat
      /\ n < 2^14 => n \div 2^7 < 128
      /\ n < 2^21 => n \div 2^14 < 128
      /\ n < 2^28 => n \div 2^21 < 128
      /\ n \div 2^28 < 128
      /\ n < 2^7 => n < 128
  BY <1>1, SMT
<1>3. /\ More(n) \in 128 .. 255 /\ More(n \div 2^7) \in 128 .. 255
      /\ More(n \div 2^14) \in 128 .. 255 /\ More(n \div 2^21) \in 128 .. 255
  BY <1>1, <1>2, MoreFacts
<1>4. CASE n < 2^7
  BY <1>1, <1>2, <1>4, SMT DEF Varint, Byte
<1>5. CASE n >= 2^7 /\ n < 2^14
  <2>1. Varint(n) = <<More(n), n \div 2^7>>
    BY <1>1, <1>5, SMT DEF Varint
  <2> QED BY <1>2, <1>3, <1>5, <2>1 DEF Byte
<1>6. CASE n >= 2^14 /\ n < 2^21
  <2>1. Varint(n) = <<More(n), More(n \div 2^7), n \div 2^14>>
    BY <1>1, <1>6, SMT DEF Varint
  <2> QED BY <1>2, <1>3, <1>6, <2>1 DEF Byte
<1>7. CASE n >= 2^21 /\ n < 2^28
  <2>1. Varint(n) = <<More(n), More(n \div 2^7), More(n \div 2^14), n \div 2^21>>
    BY <1>1, <1>7, SMT DEF Varint
  <2> QED BY <1>2, <1>3, <1>7, <2>1 DEF Byte
<1>8. CASE n >= 2^28
  <2>1. Varint(n) = <<More(n), More(n \div 2^7), More(n \div 2^14), More(n \div 2^21), n \div 2^28>>
    BY <1>1, <1>8, SMT DEF Varint
  <2> QED BY <1>2, <1>3, <2>1 DEF Byte
<1> QED BY <1>1, <1>4, <1>5, <1>6, <1>7, <1>8, SMT

\* A number is put together again from its bytes, less the continuation bits.
LEMMA Digits ==
    ASSUME NEW n \in UInt32
    PROVE  LET b == Varint(n)
               k == Len(b)
               Added(i, place) == IF i <= k THEN (b[i] - 1) * place ELSE 0
           IN  /\ k \in 1 .. 5
               /\ n = b[1] + Added(2, 2^7) + Added(3, 2^14) + Added(4, 2^21) + Added(5, 2^28)
<1>1. n \in Nat /\ n < 2^32
  BY UInt32Facts
<1> DEFINE n1 == n \div 2^7
           n2 == n \div 2^14
           n3 == n \div 2^21
           n4 == n \div 2^28
<1>2. /\ n1 \in Nat /\ n2 \in Nat /\ n3 \in Nat /\ n4 \in Nat
      /\ n = 128 * n1 + (n % 128) /\ n1 = 128 * n2 + (n1 % 128)
      /\ n2 = 128 * n3 + (n2 % 128) /\ n3 = 128 * n4 + (n3 % 128)
      /\ n % 128 \in Nat /\ n1 % 128 \in Nat /\ n2 % 128 \in Nat /\ n3 % 128 \in Nat
  BY <1>1, SMT
<1>3. Varint(n) = IF n < 2^7 THEN <<n>>
                  ELSE IF n < 2^14 THEN <<128 + (n % 128), n1>>
                  ELSE IF n < 2^21 THEN <<128 + (n % 128), 128 + (n1 % 128), n2>>
                  ELSE IF n < 2^28 THEN <<128 + (n % 128), 128 + (n1 % 128), 128 + (n2 % 128), n3>>
                  ELSE <<128 + (n % 128), 128 + (n1 % 128), 128 + (n2 % 128), 128 + (n3 % 128), n4>>
  BY DEF Varint, More
<1> HIDE DEF n1, n2, n3, n4
<1> QED BY <1>1, <1>2, <1>3, SMT

\* The first byte without the continuation bit ends the varint.
LEMMA LengthIs ==
    ASSUME NEW bytes \in Seq(Byte), NEW k \in 1 .. Len(bytes), bytes[k] < 128,
           \A i \in 1 .. k - 1 : bytes[i] >= 128
    PROVE  VarintLength(bytes) = k
<1> DEFINE P(i) == /\ i <= Len(bytes) => bytes[i] < 128
                   /\ \A j \in 1 .. i - 1 : bytes[j] >= 128
<1>1. Len(bytes) \in Nat /\ \A i \in 1 .. Len(bytes) : bytes[i] \in Byte
  BY ElementsOf
<1>2. k \in 1 .. Len(bytes) + 1 /\ P(k)
  BY <1>1
<1>3. \A x \in 0 .. 255 : ~(x >= 128 /\ x < 128)
  OBVIOUS
<1>4. ASSUME NEW i \in 1 .. Len(bytes) + 1, P(i) PROVE i = k
  <2>1. CASE i < k
    <3>1. bytes[i] >= 128 /\ bytes[i] < 128 /\ bytes[i] \in 0 .. 255
      BY <1>1, <1>4, <2>1 DEF Byte
    <3> QED BY <3>1, <1>3
  <2>2. CASE i > k
    <3>1. bytes[k] >= 128 /\ bytes[k] < 128 /\ bytes[k] \in 0 .. 255
      BY <1>1, <1>4, <2>2 DEF Byte
    <3> QED BY <3>1, <1>3
  <2> QED BY <1>1, <2>1, <2>2
<1> HIDE DEF P
<1>5. (CHOOSE i \in 1 .. Len(bytes) + 1 : P(i)) = k
  BY <1>2, <1>4
<1> QED BY <1>5 DEF VarintLength, P

\* Reading gives back what was written, its value and its length, whatever comes
\* after it: a number is never read into the field that follows.
THEOREM ReadsWhatWasWritten ==
    \A n \in UInt32 : \A rest \in Seq(Byte) :
        VarintParse(Varint(n) \o rest) = [length |-> Len(Varint(n)), value |-> n]
<1> SUFFICES ASSUME NEW n \in UInt32, NEW rest \in Seq(Byte)
             PROVE  VarintParse(Varint(n) \o rest) = [length |-> Len(Varint(n)), value |-> n]
  OBVIOUS
<1> DEFINE b     == Varint(n)
           k     == Len(b)
           bytes == b \o rest
<1>1. k \in 1 .. 5
  BY Digits
<1>2. b \in Seq(Byte) /\ (\A i \in 1 .. k - 1 : b[i] >= 128) /\ b[k] < 128
  BY <1>1, VarintFacts
<1>3. /\ bytes \in Seq(Byte) /\ Len(bytes) = k + Len(rest) /\ Len(rest) \in Nat
      /\ \A i \in 1 .. k : bytes[i] = b[i]
  BY <1>2, ConcatFacts
<1>4. VarintLength(bytes) = k
  <2>1. k \in 1 .. Len(bytes) /\ bytes[k] < 128 /\ \A i \in 1 .. k - 1 : bytes[i] >= 128
    BY <1>1, <1>2, <1>3
  <2> QED BY <1>3, <2>1, LengthIs
<1> DEFINE Given(i, place) == IF i <= k THEN (b[i] - 1) * place ELSE 0
           Added(i, place) == IF i <= k /\ i <= Len(bytes) THEN (bytes[i] - 1) * place ELSE 0
<1>5. /\ bytes # <<>> /\ bytes[1] = b[1]
      /\ Added(2, 2^7) = Given(2, 2^7) /\ Added(3, 2^14) = Given(3, 2^14)
      /\ Added(4, 2^21) = Given(4, 2^21) /\ Added(5, 2^28) = Given(5, 2^28)
  BY <1>1, <1>3
<1>6. n = b[1] + Given(2, 2^7) + Given(3, 2^14) + Given(4, 2^21) + Given(5, 2^28)
  BY Digits
<1>7. VarintParse(bytes) =
        [length |-> k,
         value  |-> IF bytes = <<>> THEN 0
                    ELSE bytes[1] + Added(2, 2^7) + Added(3, 2^14)
                                  + Added(4, 2^21) + Added(5, 2^28)]
  BY <1>4 DEF VarintParse
<1>8. VarintParse(bytes) = [length |-> k, value |-> n]
  <2> HIDE DEF bytes, b, k, Added, Given
  <2> QED BY <1>5, <1>6, <1>7
<1> QED BY <1>8

-----------------------------------------------------------------------------
(* The messages.                                                            *)

Numbers == {"float", "uint32", "bool"}
Flat    == {"PVector", "PRotator", "PClientId"}

IsField(f) == f.no \in 1 .. 8 /\ f.type \in Numbers \cup Flat

-----------------------------------------------------------------------------
(* The fields of the seven messages.                                        *)

\* The messages of numbers are lists of at most three numbers.
LEMMA FlatMessages ==
    /\ Len(PVector) = 3 /\ Len(PRotator) = 3 /\ Len(PClientId) = 1
    /\ \A i \in 1 .. 3 : IsField(PVector[i]) /\ PVector[i].type \in Numbers
    /\ \A i \in 1 .. 3 : IsField(PRotator[i]) /\ PRotator[i].type \in Numbers
    /\ IsField(PClientId[1]) /\ PClientId[1].type \in Numbers
  BY DEF PVector, PRotator, PClientId, Implicit, IsField, Numbers

\* The other messages are lists of at most eight fields.
LEMMA OtherMessages ==
    /\ Len(PWeapon) = 8 /\ Len(PFireEvent) = 4 /\ Len(PMovement) = 4 /\ Len(PAnimState) = 3
    /\ \A i \in 1 .. 8 : IsField(PWeapon[i])
    /\ \A i \in 1 .. 4 : IsField(PFireEvent[i])
    /\ \A i \in 1 .. 4 : IsField(PMovement[i])
    /\ \A i \in 1 .. 3 : IsField(PAnimState[i])
<1> USE DEF IsField, Numbers, Flat, Implicit, Explicit
<1>1. Len(PWeapon) = 8 /\ \A i \in 1 .. 8 : IsField(PWeapon[i])
  BY DEF PWeapon
<1>2. Len(PFireEvent) = 4 /\ \A i \in 1 .. 4 : IsField(PFireEvent[i])
  BY DEF PFireEvent
<1>3. Len(PMovement) = 4 /\ \A i \in 1 .. 4 : IsField(PMovement[i])
  BY DEF PMovement
<1>4. Len(PAnimState) = 3 /\ \A i \in 1 .. 3 : IsField(PAnimState[i])
  BY DEF PAnimState
<1> QED BY <1>1, <1>2, <1>3, <1>4

\* So the functions that go over three and eight fields leave none out.
LEMMA FieldsFacts ==
    ASSUME NEW type \in DOMAIN Fields
    PROVE  /\ Len(Fields[type]) \in 0 .. 8
           /\ \A i \in 1 .. Len(Fields[type]) : IsField(Fields[type][i])
           /\ type \in Flat =>
                 /\ Len(Fields[type]) \in 0 .. 3
                 /\ \A i \in 1 .. Len(Fields[type]) : Fields[type][i].type \in Numbers
<1>1. Fields["PVector"] = PVector /\ Fields["PRotator"] = PRotator /\ Fields["PClientId"] = PClientId
  BY DEF Fields
<1>2. /\ Fields["PWeapon"] = PWeapon /\ Fields["PFireEvent"] = PFireEvent
      /\ Fields["PMovement"] = PMovement /\ Fields["PAnimState"] = PAnimState
  BY DEF Fields
<1>3. type \in {"PVector", "PRotator", "PClientId", "PWeapon", "PFireEvent", "PMovement", "PAnimState"}
  BY DEF Fields
<1>4. CASE type \in {"PVector", "PRotator", "PClientId"}
  <2>1. CASE type = "PVector"
    BY <1>1, <2>1, FlatMessages
  <2>2. CASE type = "PRotator"
    BY <1>1, <2>2, FlatMessages
  <2>3. CASE type = "PClientId"
    BY <1>1, <2>3, FlatMessages
  <2> QED BY <1>4, <2>1, <2>2, <2>3
<1>5. CASE type \in {"PWeapon", "PFireEvent", "PMovement", "PAnimState"}
  <2>1. type \notin Flat
    BY <1>5 DEF Flat
  <2>2. CASE type = "PWeapon"
    BY <1>2, <2>1, <2>2, OtherMessages
  <2>3. CASE type = "PFireEvent"
    BY <1>2, <2>1, <2>3, OtherMessages
  <2>4. CASE type = "PMovement"
    BY <1>2, <2>1, <2>4, OtherMessages
  <2>5. CASE type = "PAnimState"
    BY <1>2, <2>1, <2>5, OtherMessages
  <2> QED BY <1>5, <2>2, <2>3, <2>4, <2>5
<1> QED BY <1>3, <1>4, <1>5

\* The three flat messages are messages, numbers are not.
LEMMA MessageTypes ==
    /\ \A type \in Flat : IsMessage(type)
    /\ \A type \in Numbers : ~IsMessage(type)
  BY DEF IsMessage, Flat, Numbers, Fields

\* A tag is one byte.
LEMMA TagFacts ==
    ASSUME NEW f, IsField(f)
    PROVE  <<Tag(f)>> \in Seq(Byte) /\ Len(<<Tag(f)>>) = 1
<1>1. f.no \in 1 .. 8 /\ f.type \in Numbers \cup Flat
  BY DEF IsField
<1>2. Tag(f) \in {8 * f.no + 5, 8 * f.no + 0, 8 * f.no + 2}
  BY <1>1, MessageTypes DEF Tag, Numbers
<1>3. Tag(f) \in Byte
  BY <1>1, <1>2 DEF Byte
<1> QED BY <1>3

-----------------------------------------------------------------------------
(* Sizes and bytes of one value, of a message of numbers, of any message.   *)

\* The length of two sequences of bytes, one after the other.
LEMMA Join ==
    ASSUME NEW p \in Seq(Byte), NEW q \in Seq(Byte)
    PROVE  p \o q \in Seq(Byte) /\ Len(p \o q) = Len(p) + Len(q) /\ Len(p \o q) \in Nat
<1>1. Len(p) \in Nat /\ Len(q) \in Nat
  BY ConcatFacts
<1> QED BY <1>1, ConcatFacts

\* Of three, the values of the fields of a message of numbers, each with its tag.
LEMMA JoinThree ==
    ASSUME NEW b \in [1 .. 3 -> Seq(Byte)], \A i \in 1 .. 3 : Len(b[i]) \in 0 .. 6
    PROVE  /\ b[1] \o b[2] \o b[3] \in Seq(Byte)
           /\ Len(b[1] \o b[2] \o b[3]) = Len(b[1]) + Len(b[2]) + Len(b[3])
           /\ Len(b[1]) + Len(b[2]) + Len(b[3]) \in 0 .. 18
<1>1. b[1] \in Seq(Byte) /\ b[2] \in Seq(Byte) /\ b[3] \in Seq(Byte)
  OBVIOUS
<1>2. b[1] \o b[2] \in Seq(Byte) /\ Len(b[1] \o b[2]) = Len(b[1]) + Len(b[2])
  BY <1>1, Join
<1>3. /\ b[1] \o b[2] \o b[3] \in Seq(Byte)
      /\ Len(b[1] \o b[2] \o b[3]) = Len(b[1] \o b[2]) + Len(b[3])
  BY <1>1, <1>2, Join
<1>4. PICK n1, n2, n3 \in 0 .. 6 : n1 = Len(b[1]) /\ n2 = Len(b[2]) /\ n3 = Len(b[3])
  OBVIOUS
<1>5. n1 + n2 + n3 \in 0 .. 18
  OBVIOUS
<1> QED BY <1>2, <1>3, <1>4, <1>5

\* Of eight, those of the fields of any message.
LEMMA JoinEight ==
    ASSUME NEW b \in [1 .. 8 -> Seq(Byte)], \A i \in 1 .. 8 : Len(b[i]) \in 0 .. 24
    PROVE  /\ b[1] \o b[2] \o b[3] \o b[4] \o b[5] \o b[6] \o b[7] \o b[8] \in Seq(Byte)
           /\ Len(b[1] \o b[2] \o b[3] \o b[4] \o b[5] \o b[6] \o b[7] \o b[8])
                = Len(b[1]) + Len(b[2]) + Len(b[3]) + Len(b[4])
                  + Len(b[5]) + Len(b[6]) + Len(b[7]) + Len(b[8])
           /\ Len(b[1]) + Len(b[2]) + Len(b[3]) + Len(b[4])
                  + Len(b[5]) + Len(b[6]) + Len(b[7]) + Len(b[8]) \in 0 .. 192
<1>1. /\ b[1] \in Seq(Byte) /\ b[2] \in Seq(Byte) /\ b[3] \in Seq(Byte) /\ b[4] \in Seq(Byte)
      /\ b[5] \in Seq(Byte) /\ b[6] \in Seq(Byte) /\ b[7] \in Seq(Byte) /\ b[8] \in Seq(Byte)
  OBVIOUS
<1> DEFINE b2 == b[1] \o b[2]
           b3 == b2 \o b[3]
           b4 == b3 \o b[4]
           b5 == b4 \o b[5]
           b6 == b5 \o b[6]
           b7 == b6 \o b[7]
           b8 == b7 \o b[8]
<1>2. b2 \in Seq(Byte) /\ Len(b2) = Len(b[1]) + Len(b[2])
  BY <1>1, Join
<1> HIDE DEF b2
<1>3. b3 \in Seq(Byte) /\ Len(b3) = Len(b2) + Len(b[3])
  BY <1>1, <1>2, Join
<1> HIDE DEF b3
<1>4. b4 \in Seq(Byte) /\ Len(b4) = Len(b3) + Len(b[4])
  BY <1>1, <1>3, Join
<1> HIDE DEF b4
<1>5. b5 \in Seq(Byte) /\ Len(b5) = Len(b4) + Len(b[5])
  BY <1>1, <1>4, Join
<1> HIDE DEF b5
<1>6. b6 \in Seq(Byte) /\ Len(b6) = Len(b5) + Len(b[6])
  BY <1>1, <1>5, Join
<1> HIDE DEF b6
<1>7. b7 \in Seq(Byte) /\ Len(b7) = Len(b6) + Len(b[7])
  BY <1>1, <1>6, Join
<1> HIDE DEF b7
<1>8. b8 \in Seq(Byte) /\ Len(b8) = Len(b7) + Len(b[8])
  BY <1>1, <1>7, Join
<1> HIDE DEF b8
<1>9. /\ Len(b[1]) \in 0 .. 24 /\ Len(b[2]) \in 0 .. 24 /\ Len(b[3]) \in 0 .. 24
      /\ Len(b[4]) \in 0 .. 24 /\ Len(b[5]) \in 0 .. 24 /\ Len(b[6]) \in 0 .. 24
      /\ Len(b[7]) \in 0 .. 24 /\ Len(b[8]) \in 0 .. 24
  OBVIOUS
<1>10. PICK n1, n2, n3 \in 0 .. 24 : n1 = Len(b[1]) /\ n2 = Len(b[2]) /\ n3 = Len(b[3])
  BY <1>9
<1>11. PICK n4, n5, n6 \in 0 .. 24 : n4 = Len(b[4]) /\ n5 = Len(b[5]) /\ n6 = Len(b[6])
  BY <1>9
<1>12. PICK n7, n8 \in 0 .. 24 : n7 = Len(b[7]) /\ n8 = Len(b[8])
  BY <1>9
<1>13. Len(b8) = n1 + n2 + n3 + n4 + n5 + n6 + n7 + n8
  BY <1>2, <1>3, <1>4, <1>5, <1>6, <1>7, <1>8, <1>10, <1>11, <1>12
<1>14. n1 + n2 + n3 + n4 + n5 + n6 + n7 + n8 \in 0 .. 192
  OBVIOUS
<1> QED BY <1>8, <1>10, <1>11, <1>12, <1>13, <1>14 DEF b2, b3, b4, b5, b6, b7, b8

\* A varint has between one and five bytes, as many as VarintSize32 says.
LEMMA VarintBytes ==
    ASSUME NEW n \in UInt32
    PROVE  /\ Varint(n) \in Seq(Byte) /\ Len(Varint(n)) = VarintSize32(n)
           /\ VarintSize32(n) \in 1 .. 5
<1>1. Len(Varint(n)) \in 1 .. 5
  BY Digits
<1> QED BY <1>1, VarintFacts, SizeIsLength

\* A bool has one byte.
LEMMA SmallVarint ==
    ASSUME NEW n \in 0 .. 127
    PROVE  n \in UInt32 /\ VarintSize32(n) = 1
<1>1. n \in UInt32 /\ n < 2^7
  BY UInt32Facts, SMT
<1> QED BY <1>1, SizeFacts

\* A number takes as many bytes as its size says.
LEMMA NumberFacts ==
    ASSUME NEW type \in Numbers, NEW v \in Number(type)
    PROVE  /\ NumberBytes(type, v) \in Seq(Byte)
           /\ Len(NumberBytes(type, v)) = NumberSize(type, v)
           /\ NumberSize(type, v) \in 1 .. 5
<1>1. CASE type = "float"
  <2>1. v \in Seq(Byte) /\ Len(v) = 4 /\ NumberBytes(type, v) = v /\ NumberSize(type, v) = 4
    BY <1>1 DEF Number, NumberBytes, NumberSize
  <2> QED BY <2>1
<1>2. CASE type = "uint32"
  <2>1. v \in UInt32 /\ NumberBytes(type, v) = Varint(v) /\ NumberSize(type, v) = VarintSize32(v)
    BY <1>2 DEF Number, NumberBytes, NumberSize
  <2> QED BY <2>1, VarintBytes
<1>3. CASE type = "bool"
  <2>1. v \in 0 .. 127 /\ NumberBytes(type, v) = Varint(v) /\ NumberSize(type, v) = 1
    BY <1>3 DEF Number, NumberBytes, NumberSize
  <2>2. v \in UInt32 /\ VarintSize32(v) = 1
    BY <2>1, SmallVarint
  <2> QED BY <2>1, <2>2, VarintBytes
<1> QED BY <1>1, <1>2, <1>3 DEF Numbers

\* A field of a message of numbers takes as many bytes as its size says.
LEMMA FlatFieldFacts ==
    ASSUME NEW type \in Flat, NEW m, IsFlatMessage(type, m), NEW i \in 1 .. 3
    PROVE  /\ FlatFieldBytes(type, i, m) \in Seq(Byte)
           /\ Len(FlatFieldBytes(type, i, m)) = FlatFieldSize(type, i, m)
           /\ FlatFieldSize(type, i, m) \in 0 .. 6
<1>1. type \in DOMAIN Fields
  BY MessageTypes DEF IsMessage
<1>2. CASE HasField(type, i, m)
  <2>1. PICK f : f = Fields[type][i]
    OBVIOUS
  <2>2. i \in 1 .. Len(Fields[type]) /\ f.name \in DOMAIN m
    BY <1>1, <1>2, <2>1, FieldsFacts DEF HasField, IsWritten
  <2>3. IsField(f) /\ f.type \in Numbers
    BY <1>1, <2>1, <2>2, FieldsFacts
  <2>4. m[f.name] \in Number(f.type)
    BY <2>1, <2>2 DEF IsFlatMessage
  <2>5. /\ FlatFieldBytes(type, i, m) = <<Tag(f)>> \o NumberBytes(f.type, m[f.name])
        /\ FlatFieldSize(type, i, m) = 1 + NumberSize(f.type, m[f.name])
    BY <1>2, <2>1 DEF FlatFieldBytes, FlatFieldSize
  <2>6. <<Tag(f)>> \in Seq(Byte) /\ Len(<<Tag(f)>>) = 1
    BY <2>3, TagFacts
  <2>7. /\ NumberBytes(f.type, m[f.name]) \in Seq(Byte)
        /\ Len(NumberBytes(f.type, m[f.name])) = NumberSize(f.type, m[f.name])
        /\ NumberSize(f.type, m[f.name]) \in 1 .. 5
    BY <2>3, <2>4, NumberFacts
  <2> QED BY <2>5, <2>6, <2>7, Join
<1>3. CASE ~HasField(type, i, m)
  BY <1>3 DEF FlatFieldBytes, FlatFieldSize
<1> QED BY <1>2, <1>3

\* A message of numbers takes as many bytes as its size says.
LEMMA FlatFacts ==
    ASSUME NEW type \in Flat, NEW m, IsFlatMessage(type, m)
    PROVE  /\ FlatBytes(type, m) \in Seq(Byte)
           /\ Len(FlatBytes(type, m)) = FlatSize(type, m)
           /\ FlatSize(type, m) \in 0 .. 18
<1>1. PICK b : b = [i \in 1 .. 3 |-> FlatFieldBytes(type, i, m)]
  OBVIOUS
<1>2. \A i \in 1 .. 3 : /\ b[i] = FlatFieldBytes(type, i, m) /\ b[i] \in Seq(Byte)
                        /\ Len(b[i]) = FlatFieldSize(type, i, m) /\ Len(b[i]) \in 0 .. 6
  BY <1>1, FlatFieldFacts
<1>3. b \in [1 .. 3 -> Seq(Byte)]
  BY <1>1, <1>2
<1>4. FlatBytes(type, m) = b[1] \o b[2] \o b[3]
  <2>1. /\ b[1] = FlatFieldBytes(type, 1, m) /\ b[2] = FlatFieldBytes(type, 2, m)
        /\ b[3] = FlatFieldBytes(type, 3, m)
    BY <1>2
  <2> QED BY <2>1 DEF FlatBytes
<1>5. FlatSize(type, m) = Len(b[1]) + Len(b[2]) + Len(b[3])
  <2>1. /\ Len(b[1]) = FlatFieldSize(type, 1, m) /\ Len(b[2]) = FlatFieldSize(type, 2, m)
        /\ Len(b[3]) = FlatFieldSize(type, 3, m)
    BY <1>2
  <2> QED BY <2>1 DEF FlatSize
<1> QED BY <1>2, <1>3, <1>4, <1>5, JoinThree

\* So does a value, a message with its size in front of it included.
LEMMA ValueFacts ==
    ASSUME NEW type \in Numbers \cup Flat, NEW v, IsValue(type, v)
    PROVE  /\ ValueBytes(type, v) \in Seq(Byte)
           /\ Len(ValueBytes(type, v)) = ValueSize(type, v)
           /\ ValueSize(type, v) \in 0 .. 23
<1>1. CASE type \in Flat
  <2>1. /\ ValueBytes(type, v) = Varint(FlatSize(type, v)) \o FlatBytes(type, v)
        /\ ValueSize(type, v) = VarintSize32(FlatSize(type, v)) + FlatSize(type, v)
    BY <1>1, MessageTypes DEF ValueBytes, ValueSize
  <2>2. /\ FlatBytes(type, v) \in Seq(Byte) /\ Len(FlatBytes(type, v)) = FlatSize(type, v)
        /\ FlatSize(type, v) \in 0 .. 18
    BY <1>1, MessageTypes, FlatFacts DEF IsValue
  <2>3. FlatSize(type, v) \in UInt32
    <3>1. FlatSize(type, v) \in 0 .. 127
      BY <2>2
    <3> QED BY <3>1, SmallVarint
  <2>4. /\ Varint(FlatSize(type, v)) \in Seq(Byte)
        /\ Len(Varint(FlatSize(type, v))) = VarintSize32(FlatSize(type, v))
        /\ VarintSize32(FlatSize(type, v)) \in 1 .. 5
    BY <2>3, VarintBytes
  <2>5. \A n \in 0 .. 18 : \A k \in 1 .. 5 : k + n \in 0 .. 23
    OBVIOUS
  <2>6. ValueSize(type, v) \in 0 .. 23
    BY <2>1, <2>2, <2>4, <2>5
  <2> QED BY <2>1, <2>2, <2>4, <2>6, Join
<1>2. CASE type \in Numbers
  <2>1. ValueBytes(type, v) = NumberBytes(type, v) /\ ValueSize(type, v) = NumberSize(type, v)
    BY <1>2, MessageTypes DEF ValueBytes, ValueSize
  <2>2. v \in Number(type)
    BY <1>2, MessageTypes DEF IsValue
  <2> QED BY <1>2, <2>1, <2>2, NumberFacts
<1> QED BY <1>1, <1>2

\* So does a field of any message.
LEMMA FieldFacts ==
    ASSUME NEW type \in DOMAIN Fields, NEW m, IsShooterMessage(type, m), NEW i \in 1 .. 8
    PROVE  /\ FieldBytes(type, i, m) \in Seq(Byte)
           /\ Len(FieldBytes(type, i, m)) = FieldSize(type, i, m)
           /\ FieldSize(type, i, m) \in 0 .. 24
<1>1. CASE HasField(type, i, m)
  <2>1. PICK f : f = Fields[type][i]
    OBVIOUS
  <2>2. i \in 1 .. Len(Fields[type]) /\ f.name \in DOMAIN m
    BY <1>1, <2>1, FieldsFacts DEF HasField, IsWritten
  <2>3. IsField(f)
    BY <2>1, <2>2, FieldsFacts
  <2>4. f.type \in Numbers \cup Flat
    BY <2>3 DEF IsField
  <2>5. IsValue(f.type, m[f.name])
    BY <2>1, <2>2 DEF IsShooterMessage
  <2>6. /\ FieldBytes(type, i, m) = <<Tag(f)>> \o ValueBytes(f.type, m[f.name])
        /\ FieldSize(type, i, m) = 1 + ValueSize(f.type, m[f.name])
    BY <1>1, <2>1 DEF FieldBytes, FieldSize
  <2>7. <<Tag(f)>> \in Seq(Byte) /\ Len(<<Tag(f)>>) = 1
    BY <2>3, TagFacts
  <2>8. /\ ValueBytes(f.type, m[f.name]) \in Seq(Byte)
        /\ Len(ValueBytes(f.type, m[f.name])) = ValueSize(f.type, m[f.name])
        /\ ValueSize(f.type, m[f.name]) \in 0 .. 23
    BY <2>4, <2>5, ValueFacts
  <2>9. \A n \in 0 .. 23 : 1 + n \in 0 .. 24
    OBVIOUS
  <2>10. FieldSize(type, i, m) \in 0 .. 24
    BY <2>6, <2>8, <2>9
  <2> QED BY <2>6, <2>7, <2>8, <2>10, Join
<1>2. CASE ~HasField(type, i, m)
  BY <1>2 DEF FieldBytes, FieldSize
<1> QED BY <1>1, <1>2

\* And so does every message, which is never near 2^16 bytes long.
LEMMA MessageFacts ==
    ASSUME NEW type \in DOMAIN Fields, NEW m, IsShooterMessage(type, m)
    PROVE  /\ Serialize(type, m) \in Seq(Byte)
           /\ Len(Serialize(type, m)) = ByteSizeLong(type, m)
           /\ ByteSizeLong(type, m) \in 0 .. 192
<1>1. PICK b : b = [i \in 1 .. 8 |-> FieldBytes(type, i, m)]
  OBVIOUS
<1>2. \A i \in 1 .. 8 : /\ b[i] = FieldBytes(type, i, m) /\ b[i] \in Seq(Byte)
                        /\ Len(b[i]) = FieldSize(type, i, m) /\ Len(b[i]) \in 0 .. 24
  BY <1>1, FieldFacts
<1>3. b \in [1 .. 8 -> Seq(Byte)]
  BY <1>1, <1>2
<1>4. Serialize(type, m) = b[1] \o b[2] \o b[3] \o b[4] \o b[5] \o b[6] \o b[7] \o b[8]
  <2>1. /\ b[1] = FieldBytes(type, 1, m) /\ b[2] = FieldBytes(type, 2, m)
        /\ b[3] = FieldBytes(type, 3, m) /\ b[4] = FieldBytes(type, 4, m)
        /\ b[5] = FieldBytes(type, 5, m) /\ b[6] = FieldBytes(type, 6, m)
        /\ b[7] = FieldBytes(type, 7, m) /\ b[8] = FieldBytes(type, 8, m)
    BY <1>2
  <2> QED BY <2>1 DEF Serialize
<1>5. ByteSizeLong(type, m) = Len(b[1]) + Len(b[2]) + Len(b[3]) + Len(b[4])
                               + Len(b[5]) + Len(b[6]) + Len(b[7]) + Len(b[8])
  <2>1. /\ Len(b[1]) = FieldSize(type, 1, m) /\ Len(b[2]) = FieldSize(type, 2, m)
        /\ Len(b[3]) = FieldSize(type, 3, m) /\ Len(b[4]) = FieldSize(type, 4, m)
        /\ Len(b[5]) = FieldSize(type, 5, m) /\ Len(b[6]) = FieldSize(type, 6, m)
        /\ Len(b[7]) = FieldSize(type, 7, m) /\ Len(b[8]) = FieldSize(type, 8, m)
    BY <1>2
  <2> QED BY <2>1 DEF ByteSizeLong
<1>6. \A i \in 1 .. 8 : Len(b[i]) \in 0 .. 24
  BY <1>2
<1>7. /\ b[1] \o b[2] \o b[3] \o b[4] \o b[5] \o b[6] \o b[7] \o b[8] \in Seq(Byte)
      /\ Len(b[1] \o b[2] \o b[3] \o b[4] \o b[5] \o b[6] \o b[7] \o b[8])
           = Len(b[1]) + Len(b[2]) + Len(b[3]) + Len(b[4])
             + Len(b[5]) + Len(b[6]) + Len(b[7]) + Len(b[8])
      /\ Len(b[1]) + Len(b[2]) + Len(b[3]) + Len(b[4])
             + Len(b[5]) + Len(b[6]) + Len(b[7]) + Len(b[8]) \in 0 .. 192
  BY <1>3, <1>6, JoinEight, Zenon
<1> QED BY <1>4, <1>5, <1>7, Zenon

\* ByteSizeLong foretells the number of bytes Serialize writes, for every message.
THEOREM SizeIsWritten ==
    \A type \in DOMAIN Fields : \A m :
        IsShooterMessage(type, m) => ByteSizeLong(type, m) = Len(Serialize(type, m))
  BY MessageFacts

-----------------------------------------------------------------------------
(* Packets.                                                                 *)


\* The number a header word holds.
WordValue(w) == w[1] + 256 * w[2]

\* A 16-bit number survives in two bytes.
LEMMA WordFacts ==
    ASSUME NEW n \in UInt16
    PROVE  Word(n) \in Seq(Byte) /\ Len(Word(n)) = 2 /\ WordValue(Word(n)) = n
<1>1. n \in Nat /\ n < 2^16
  BY DEF UInt16
<1>2. /\ n % 256 \in 0 .. 255 /\ (n \div 256) % 256 \in 0 .. 255
      /\ (n % 256) + 256 * ((n \div 256) % 256) = n
  BY <1>1, SMT
<1> DEFINE low  == n % 256
           high == (n \div 256) % 256
<1>3. low \in Byte /\ high \in Byte /\ low + 256 * high = n /\ Word(n) = <<low, high>>
  BY <1>2, SMT DEF Word, Byte
<1> HIDE DEF low, high
<1> QED BY <1>3, SMT DEF WordValue

\* The places of two words in a sequence that is one after the other.
LEMMA TwoWords ==
    ASSUME NEW p, NEW q, NEW r \in Seq(Byte), Len(p) = 2, Len(q) = 2,
           DOMAIN r = 1 .. Len(p) + Len(q),
           \A i \in 1 .. Len(p) : r[i] = p[i],
           \A i \in 1 .. Len(q) : r[Len(p) + i] = q[i]
    PROVE  r[1] = p[1] /\ r[2] = p[2] /\ r[3] = q[1] /\ r[4] = q[2] /\ Len(r) = 4
<1>1. /\ 1 \in 1 .. Len(p) /\ 2 \in 1 .. Len(p) /\ 1 \in 1 .. Len(q) /\ 2 \in 1 .. Len(q)
      /\ 2 + 1 = 3 /\ 2 + 2 = 4
  OBVIOUS
<1>2. r[1] = p[1] /\ r[2] = p[2]
  BY <1>1
<1>3. r[2 + 1] = q[1] /\ r[2 + 2] = q[2]
  BY <1>1
<1> QED BY <1>1, <1>2, <1>3

\* So the words of a header can be read out of the bytes of the packet.
LEMMA HeaderFacts ==
    ASSUME NEW first \in Seq(Byte), NEW second \in Seq(Byte), NEW body \in Seq(Byte)
    PROVE  LET bytes == (first \o second) \o body
           IN  Len(first) = 2 /\ Len(second) = 2 =>
                 /\ bytes \in Seq(Byte) /\ Len(bytes) = 4 + Len(body)
                 /\ bytes[1] = first[1] /\ bytes[2] = first[2]
                 /\ bytes[3] = second[1] /\ bytes[4] = second[2]
<1> DEFINE header == first \o second
           bytes  == header \o body
<1>1. /\ header \in Seq(Byte) /\ DOMAIN header = 1 .. Len(first) + Len(second)
      /\ \A i \in 1 .. Len(first) : header[i] = first[i]
      /\ \A i \in 1 .. Len(second) : header[Len(first) + i] = second[i]
  BY ConcatFacts
<1> HIDE DEF header
<1>2. /\ bytes \in Seq(Byte) /\ Len(bytes) = Len(header) + Len(body)
      /\ \A i \in 1 .. Len(header) : bytes[i] = header[i]
  BY <1>1, ConcatFacts, Join
<1> HIDE DEF bytes
<1>3. ASSUME Len(first) = 2, Len(second) = 2
      PROVE  /\ bytes \in Seq(Byte) /\ Len(bytes) = 4 + Len(body)
             /\ bytes[1] = first[1] /\ bytes[2] = first[2]
             /\ bytes[3] = second[1] /\ bytes[4] = second[2]
  <2>1. /\ header[1] = first[1] /\ header[2] = first[2]
        /\ header[3] = second[1] /\ header[4] = second[2] /\ Len(header) = 4
    BY <1>1, <1>3, TwoWords
  <2>2. \A i \in 1 .. 4 : bytes[i] = header[i]
    BY <1>2, <2>1
  <2> QED BY <1>2, <2>1, <2>2
<1> QED BY <1>3, Zenon DEF bytes, header

\* Small numbers are 16-bit numbers and stay what they are when cut to 16 bits.
LEMMA SmallWord ==
    ASSUME NEW n \in 0 .. 255
    PROVE  n \in UInt16 /\ n % 2^16 = n
  BY SMT DEF UInt16

\* A packet is its header and its message.
LEMMA FrameBytes ==
    ASSUME NEW id \in UInt16, NEW type \in DOMAIN Fields, NEW m, IsShooterMessage(type, m),
           NEW index
    PROVE  SerializePacket(type, id, m, index).bytes
             = (Word(HEADER + Len(Serialize(type, m))) \o Word(id)) \o Serialize(type, m)
<1>1. PICK size : size = ByteSizeLong(type, m)
  OBVIOUS
<1>2. Len(Serialize(type, m)) = size /\ size \in 0 .. 192
  BY <1>1, MessageFacts
<1>3. size % 2^16 = size
  <2>1. size \in 0 .. 255
    BY <1>2
  <2> QED BY <2>1, SmallWord
<1>4. (size % 2^16) + HEADER = HEADER + Len(Serialize(type, m))
  BY <1>2, <1>3 DEF HEADER
<1> QED BY <1>1, <1>4, Zenon DEF SerializePacket

\* The header says how long the packet is and what it is.
LEMMA FrameFacts ==
    ASSUME NEW id \in UInt16, NEW type \in DOMAIN Fields, NEW m, IsShooterMessage(type, m),
           NEW index, NEW bytes, bytes = SerializePacket(type, id, m, index).bytes
    PROVE  /\ bytes \in Seq(Byte)
           /\ Len(bytes) = HEADER + Len(Serialize(type, m)) /\ Len(bytes) \in 4 .. 196
           /\ bytes[1] + 256 * bytes[2] = Len(bytes)
           /\ bytes[3] + 256 * bytes[4] = id
<1> PICK body : body = Serialize(type, m)
  OBVIOUS
<1>1. body \in Seq(Byte) /\ Len(body) \in 0 .. 192
  BY MessageFacts
<1>2. 4 + Len(body) \in UInt16 /\ 4 + Len(body) \in 4 .. 196
  <2>1. 4 + Len(body) \in 0 .. 255 /\ 4 + Len(body) \in 4 .. 196
    <3>1. PICK n \in 0 .. 192 : n = Len(body)
      BY <1>1
    <3>2. 4 + n \in 0 .. 255 /\ 4 + n \in 4 .. 196
      OBVIOUS
    <3> QED BY <3>1, <3>2
  <2> QED BY <2>1, SmallWord
<1>3. PICK first, second :
        /\ first = Word(4 + Len(body)) /\ first \in Seq(Byte) /\ Len(first) = 2
        /\ second = Word(id) /\ second \in Seq(Byte) /\ Len(second) = 2
        /\ WordValue(first) = 4 + Len(body) /\ WordValue(second) = id
  BY <1>2, WordFacts
<1>4. bytes = (first \o second) \o body
  BY <1>3, FrameBytes, Zenon DEF HEADER
<1>5. /\ bytes \in Seq(Byte) /\ Len(bytes) = 4 + Len(body)
      /\ bytes[1] = first[1] /\ bytes[2] = first[2]
      /\ bytes[3] = second[1] /\ bytes[4] = second[2]
  <2>1. first \in Seq(Byte) /\ second \in Seq(Byte)
    BY <1>3
  <2> QED BY <1>1, <1>3, <1>4, <2>1, HeaderFacts, SMTT(30)
<1>6. bytes[1] + 256 * bytes[2] = Len(bytes) /\ bytes[3] + 256 * bytes[4] = id
  BY <1>3, <1>5 DEF WordValue
<1>7. Len(bytes) = HEADER + Len(Serialize(type, m)) /\ Len(bytes) \in 4 .. 196
  BY <1>2, <1>5 DEF HEADER
<1> QED BY <1>5, <1>6, <1>7, Zenon

\* SerializePacket fills the buffer it has reserved to its last byte and not beyond:
\* the packet is as long as its header says, and the header says so in 16 bits for
\* every message.
THEOREM PacketIsFull ==
    \A type \in DOMAIN Fields : \A id \in UInt16 : \A m, index :
        IsShooterMessage(type, m) =>
            LET bytes == SerializePacket(type, id, m, index).bytes
            IN  /\ bytes \in Seq(Byte)
                /\ Len(bytes) = WordValue(<<bytes[1], bytes[2]>>)
                /\ id = WordValue(<<bytes[3], bytes[4]>>)
<1> SUFFICES ASSUME NEW type \in DOMAIN Fields, NEW id \in UInt16, NEW m, NEW index,
                    IsShooterMessage(type, m)
             PROVE  LET bytes == SerializePacket(type, id, m, index).bytes
                    IN  /\ bytes \in Seq(Byte)
                        /\ Len(bytes) = WordValue(<<bytes[1], bytes[2]>>)
                        /\ id = WordValue(<<bytes[3], bytes[4]>>)
  OBVIOUS
<1>1. PICK bytes : bytes = SerializePacket(type, id, m, index).bytes
  OBVIOUS
<1>2. /\ bytes \in Seq(Byte)
      /\ bytes[1] + 256 * bytes[2] = Len(bytes) /\ bytes[3] + 256 * bytes[4] = id
  BY <1>1, FrameFacts
<1>3. /\ WordValue(<<bytes[1], bytes[2]>>) = Len(bytes)
      /\ WordValue(<<bytes[3], bytes[4]>>) = id
  BY <1>2 DEF WordValue
<1> QED BY <1>1, <1>2, <1>3, Zenon
=============================================================================
