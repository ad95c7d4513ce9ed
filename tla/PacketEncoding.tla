--------------------------- MODULE PacketEncoding ---------------------------
(***************************************************************************)
(* The packets of the server: a header of two 16-bit words, the size of    *)
(* the packet and its type, and a message behind it.                       *)
(***************************************************************************)
EXTENDS ShooterProtocol

HEADER == 4  \* sizeof(PacketHeader)

UInt16 == {n \in Nat : n < 2^16}

Word(n) == <<n % 256, (n \div 256) % 256>>

\* PacketSize is made from ByteSizeLong, the buffer has PacketSize bytes, and
\* SerializeToArray fills what is left of it behind the header.
SerializePacket(type, id, m, index) ==
    [index |-> index % 2^16,
     bytes |-> Word((ByteSizeLong(type, m) % 2^16) + HEADER) \o Word(id) \o Serialize(type, m)]
=============================================================================
