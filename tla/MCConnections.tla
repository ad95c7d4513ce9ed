--------------------------- MODULE MCConnections ---------------------------
EXTENDS ConnectionsProofs, TLC

Symmetry == Permutations(Conn) \cup Permutations(Worker)
=============================================================================
