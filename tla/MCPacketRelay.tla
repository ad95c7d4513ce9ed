--------------------------- MODULE MCPacketRelay ---------------------------
EXTENDS PacketRelayProofs, TLC

Symmetry == Permutations(Conn)

Gone == {c \in Conn : peer[c] \notin {"absent", "open"}}

\* Bound of the run over three slots, in which one client at most goes, and its slot
\* may be taken over: one broadcast; a second one while nobody has gone; or logins
\* only, up to three of them, in the first two slots.
Bound ==
    /\ Cardinality(Gone) <= 1
    /\ \/ count <= 1
       \/ count <= 2 /\ Gone = {}
       \/ /\ count = Cardinality(logged) /\ Gone \subseteq logged
          /\ seat[2] = NoConn /\ players[2] = NoConn
=============================================================================
