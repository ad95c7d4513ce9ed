---------------------------- MODULE MCRecvBuffer ----------------------------
EXTENDS RecvBufferProofs, TLC

Symmetry == Permutations(Conn) \cup Permutations(Sender)
=============================================================================
