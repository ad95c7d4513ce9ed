------------------------------ MODULE Varints ------------------------------
(***************************************************************************)
(* Numbers as protobuf writes them: a uint32 in groups of seven bits, the  *)
(* lowest first, each in a byte whose top bit says that another follows.   *)
(* The size is not counted while writing but computed beforehand, from the *)
(* logarithm.  PacketEncodingProofs shows that the two agree for every     *)
(* uint32.                                                                 *)
(*                                                                         *)
(* n >> k is n \div 2^k.  The loops are written out: 32 bits are five      *)
(* groups.                                                                 *)
(***************************************************************************)
EXTENDS Integers, Sequences

Byte == 0 .. 255

\* n < 2^32, in numbers that TLC has.
UInt32 == {n \in Nat : n \div 2^16 < 2^16}

\* The low seven bits, with the continuation bit.
More(n) == 128 + (n % 128)

\* Faulty variant: the number is written as it is.
Varint_OneByte(n) == <<n>>

\* UnsafeVarint, which WriteVarint32ToArray and UnsafeWriteSize call.
Varint(n) ==
    IF n < 2^7 THEN <<n>>
    ELSE IF n < 2^14 THEN <<More(n), n \div 2^7>>
    ELSE IF n < 2^21 THEN <<More(n), More(n \div 2^7), n \div 2^14>>
    ELSE IF n < 2^28 THEN <<More(n), More(n \div 2^7), More(n \div 2^14), n \div 2^21>>
    ELSE <<More(n), More(n \div 2^7), More(n \div 2^14), More(n \div 2^21), n \div 2^28>>

\* One turn of the loop of Log2FloorNonZero_Portable.
Halve(shift, v) ==
    LET x == v.value \div 2^shift
    IN  IF x = 0 THEN v ELSE [value |-> x, log |-> v.log + shift]

\* Log2FloorNonZero: the highest bit of n that is set.  (Most compilers have an
\* instruction that does the same.)
Log2Floor(n) ==
    Halve(1, Halve(2, Halve(4, Halve(8, Halve(16, [value |-> n, log |-> 0]))))).log

\* value | 0x1
OrOne(n) == n + 1 - (n % 2)

\* Faulty variant: eight bits to the byte.
VarintSize32_Octets(n) == Log2Floor(OrOne(n)) \div 8 + 1

\* A division by 7 by way of 9/64.
VarintSize32(n) == (Log2Floor(OrOne(n)) * 9 + 73) \div 64

\* The bytes up to the first without a continuation bit, or one more than there
\* are when all have one.
VarintLength(bytes) ==
    CHOOSE i \in 1 .. Len(bytes) + 1 :
        /\ i <= Len(bytes) => bytes[i] < 128
        /\ \A j \in 1 .. i - 1 : bytes[j] >= 128

\* VarintParse: the value of the varint that bytes start with, and its length.
\* The 1 that is taken from each byte is the continuation bit of the one before.
VarintParse(bytes) ==
    LET length == VarintLength(bytes)
        Added(i, place) ==
            IF i <= length /\ i <= Len(bytes) THEN (bytes[i] - 1) * place ELSE 0
    IN  [length |-> length,
         value  |-> IF bytes = <<>> THEN 0
                    ELSE bytes[1] + Added(2, 2^7) + Added(3, 2^14)
                                  + Added(4, 2^21) + Added(5, 2^28)]
=============================================================================
