-------------------------- MODULE RecvBufferProofs --------------------------
(***************************************************************************)
(* Safety of RecvBuffer for every number of clients, send threads,         *)
(* receives and outgoing packets.                                          *)
(***************************************************************************)
EXTENDS RecvBuffer, TLAPS

Received(p) == buf[p].src = "in"

\* The slot is taken as long as its connection has a receive, or had its last.
SeatInv ==
    /\ chain = "none" <=> Occupant = NoConn
    /\ Occupant # NoConn => Occupant \in used

\* What has been received is in the buffer only from the kernel's write until
\* ReceivePacket has cleared it; all of it is from the last receive.
BufInv ==
    \A p \in Part : Received(p) =>
        /\ chain \in {"arrive", "ready", "body"} \/ (chain = "zero" /\ p \in left)
        /\ buf[p] = In(Occupant, inNo)

\* A handler has read something only while it runs, and until WSARecv is called.
ParsedInv ==
    \A p \in Part : parsed[p].src = "in" =>
        /\ chain \in {"body", "zero"}
        /\ parsed[p] = In(Occupant, inNo)

\* A send thread in WSASend was given the socket of a connection that had the
\* slot then, and if it has it still, all that was received is its own.
WireInv ==
    \A t \in Sender :
        /\ sndPc[t] # "send" => wire[t] = Untouched
        /\ sndPc[t] = "send" =>
              /\ sndTo[t] \in used /\ sndTo[t] # NoConn
              /\ \A p \in Part : wire[t][p].src = "in" /\ sndTo[t] = Occupant =>
                                    wire[t][p].conn = Occupant

\* The inductive invariant of RecvBuffer.
IInv == TypeOK /\ SeatInv /\ BufInv /\ ParsedInv /\ WireInv

USE ConstantsAssumption
USE DEF Occupant, Part, Seats!Slot, Zero, In, Out, Untouched, recvVars, sndVars

-----------------------------------------------------------------------------
\* The slot is slot 0, and a connection in it was never in it before.
LEMMA SeatFacts ==
    ASSUME TypeOK
    PROVE  /\ Occupant \in Conn \cup {NoConn}
           /\ \A c \in Conn : Seats!Take(0, c) =>
                 Occupant = NoConn /\ c \notin used /\ Occupant' = c /\ used' = used \cup {c}
                 /\ seat' \in [0 .. 0 -> Conn \cup {NoConn}]
           /\ Seats!Leave(0) =>
                 Occupant # NoConn /\ Occupant' = NoConn /\ used' = used
                 /\ seat' \in [0 .. 0 -> Conn \cup {NoConn}]
  BY DEF TypeOK, Seats!Take, Seats!Leave

\* What any write puts into the buffer is a cell.
LEMMA Cells ==
    /\ Zero \in Cell
    /\ \A c \in Conn, n \in Nat : In(c, n) \in Cell
    /\ \A n \in Nat : Out(n) \in Cell
  BY DEF Cell

\* The three kinds of cells are told apart by their source.
LEMMA CellSources ==
    /\ Zero.src # "in"
    /\ \A n \in Nat : Out(n).src # "in"
    /\ \A c \in Conn, n \in Nat : In(c, n).src = "in" /\ In(c, n).conn = c
  OBVIOUS

\* An empty slot with a cleared buffer satisfies it.
LEMMA InitIInv == Init => IInv
<1> SUFFICES ASSUME Init PROVE IInv
  OBVIOUS
<1>1. TypeOK
  BY Cells DEF Init, TypeOK, Seats!Init, Chain
<1>2. SeatInv /\ BufInv /\ ParsedInv /\ WireInv
  BY DEF Init, Seats!Init, SeatInv, BufInv, Received, ParsedInv, WireInv
<1> QED BY <1>1, <1>2 DEF IInv

-----------------------------------------------------------------------------
\* Each step keeps TypeOK; that a receive is somebody's comes from SeatInv.
LEMMA TypeStep == TypeOK /\ SeatInv /\ [Next]_vars => TypeOK'
<1> SUFFICES ASSUME TypeOK, SeatInv, [Next]_vars PROVE TypeOK'
  OBVIOUS
<1> USE DEF TypeOK
<1>1. CASE UNCHANGED vars
  BY <1>1 DEF vars
<1>2. ASSUME NEW c \in Conn, ConnectClient(c) PROVE TypeOK'
  BY <1>2, SeatFacts DEF ConnectClient, Chain
<1>3. CASE FirstReceive
  BY <1>3 DEF FirstReceive, Chain
<1>4. CASE PostReceive
  <2>1. Untouched \in [Part -> Cell]
    BY Cells
  <2>2. chain' \in Chain
    BY <1>4 DEF PostReceive, Chain
  <2> QED BY <1>4, <2>1, <2>2 DEF PostReceive
<1>5. ASSUME NEW p \in Part, ZeroMemory(p) PROVE TypeOK'
  BY <1>5, Cells DEF ZeroMemory
<1>6. ASSUME NEW p \in Part, WriteReceived(p) PROVE TypeOK'
  <2>1. In(Occupant, inNo) \in Cell
    BY <1>6, SeatFacts, Cells DEF WriteReceived, SeatInv
  <2>2. /\ left' = left \ {p} /\ chain' = IF left' = {} THEN "ready" ELSE "arrive"
        /\ buf' = [buf EXCEPT ![p] = In(Occupant, inNo)]
        /\ UNCHANGED <<seat, used, parsed, inNo, sndVars>>
    BY <1>6 DEF WriteReceived
  <2>3. buf' \in [Part -> Cell]
    BY <2>1, <2>2
  <2>4. chain' \in Chain /\ left' \in SUBSET Part /\ (left' # {} => chain' \in {"zero", "arrive"})
    BY <2>2 DEF Chain
  <2> QED BY <2>2, <2>3, <2>4
<1>7. CASE Arrive
  BY <1>7 DEF Arrive, Chain
<1>8. CASE ReceiveEnds
  BY <1>8 DEF ReceiveEnds, Chain
<1>9. CASE ReadHeader
  BY <1>9 DEF ReadHeader, Chain
<1>10. CASE ReadBody
  BY <1>10 DEF ReadBody, Chain
<1>11. CASE CloseSocket
  BY <1>11, SeatFacts DEF CloseSocket, Chain
<1>12. ASSUME NEW t \in Sender, CheckConnected(t) PROVE TypeOK'
  BY <1>12 DEF CheckConnected, Goto
<1>13. ASSUME NEW t \in Sender, NEW p \in Part, CopyMemory(t, p) PROVE TypeOK'
  BY <1>13, Cells DEF CopyMemory, Goto
<1>14. ASSUME NEW t \in Sender, CallSend(t) PROVE TypeOK'
  <2>1. UNCHANGED <<outNo, sndNo, wire, buf, recvVars>>
    BY <1>14 DEF CallSend
  <2>2. CASE Goto(t, "send", Part) /\ sndTo' = [sndTo EXCEPT ![t] = Occupant]
    BY <2>1, <2>2, SeatFacts DEF Goto
  <2>3. CASE Goto(t, "idle", {}) /\ UNCHANGED sndTo
    BY <2>1, <2>3 DEF Goto
  <2> QED BY <1>14, <2>2, <2>3 DEF CallSend
<1>15. ASSUME NEW t \in Sender, NEW p \in Part, TakeForWire(t, p) PROVE TypeOK'
  BY <1>15 DEF TakeForWire, Goto
<1>16. ASSUME NEW t \in Sender, SendReturns(t) PROVE TypeOK'
  BY <1>16, Cells DEF SendReturns, Goto
<1> QED
  BY <1>1, <1>2, <1>3, <1>4, <1>5, <1>6, <1>7, <1>8, <1>9, <1>10, <1>11, <1>12, <1>13, <1>14,
     <1>15, <1>16 DEF Next, Receiving, Sending
-----------------------------------------------------------------------------
(* One lemma per action: what it does to the rest of IInv.                  *)

\* A connection that is new in the slot is no one any thread sends to.
LEMMA ConnectClientStep ==
    ASSUME IInv, NEW c \in Conn, ConnectClient(c)
    PROVE  (SeatInv /\ BufInv /\ ParsedInv /\ WireInv)'
<1>1. /\ chain = "none" /\ chain' = "new" /\ c \notin used
      /\ Occupant' = c /\ c # NoConn /\ used' = used \cup {c}
      /\ UNCHANGED <<left, parsed, buf, sndVars>>
  BY SeatFacts DEF IInv, ConnectClient
<1>2. SeatInv'
  BY <1>1 DEF SeatInv
<1>3. BufInv' /\ ParsedInv'
  BY <1>1 DEF IInv, BufInv, ParsedInv, Received
<1>4. WireInv'
  BY <1>1 DEF IInv, WireInv
<1> QED BY <1>2, <1>3, <1>4

\* When the slot is emptied nothing received is left in it.
LEMMA CloseSocketStep ==
    ASSUME IInv, CloseSocket
    PROVE  (SeatInv /\ BufInv /\ ParsedInv /\ WireInv)'
<1>1. /\ chain = "closing" /\ chain' = "none"
      /\ Occupant' = NoConn /\ used' = used
      /\ UNCHANGED <<left, parsed, inNo, buf, sndVars>>
  BY SeatFacts DEF IInv, CloseSocket
<1>2. SeatInv'
  BY <1>1 DEF SeatInv
<1>3. BufInv' /\ ParsedInv'
  BY <1>1 DEF IInv, BufInv, ParsedInv, Received
<1>4. WireInv'
  BY <1>1 DEF IInv, WireInv
<1> QED BY <1>2, <1>3, <1>4

\* Steps that move the receive on, and leave the slot and the send threads alone.
LEMMA ReceiveFrame ==
    ASSUME IInv, UNCHANGED <<seat, used, sndVars>>, chain # "none", chain' # "none"
    PROVE  SeatInv' /\ WireInv'
  BY DEF IInv, SeatInv, WireInv

\* Clearing the buffer, and posting the receive, bring nothing into it.
LEMMA BufferClearedStep ==
    ASSUME IInv,
           \/ FirstReceive
           \/ PostReceive
           \/ \E p \in Part : ZeroMemory(p)
    PROVE  (SeatInv /\ BufInv /\ ParsedInv /\ WireInv)'
<1>1. CASE FirstReceive
  <2>1. SeatInv' /\ WireInv'
    BY <1>1, ReceiveFrame DEF FirstReceive
  <2>2. BufInv' /\ ParsedInv'
    BY <1>1 DEF IInv, FirstReceive, BufInv, ParsedInv, Received
  <2> QED BY <2>1, <2>2
<1>2. CASE PostReceive
  <2>1. SeatInv' /\ WireInv'
    BY <1>2, ReceiveFrame DEF PostReceive
  <2>2. BufInv' /\ ParsedInv'
    BY <1>2 DEF IInv, PostReceive, BufInv, ParsedInv, Received
  <2> QED BY <2>1, <2>2
<1>3. ASSUME NEW p \in Part, ZeroMemory(p)
      PROVE  (SeatInv /\ BufInv /\ ParsedInv /\ WireInv)'
  <2>1. SeatInv' /\ WireInv'
    BY <1>3, ReceiveFrame DEF ZeroMemory
  <2>2. BufInv' /\ ParsedInv'
    BY <1>3 DEF IInv, TypeOK, ZeroMemory, BufInv, ParsedInv, Received
  <2> QED BY <2>1, <2>2
<1> QED BY <1>1, <1>2, <1>3

\* What arrives is of the last receive of the client in the slot.
LEMMA ArrivalStep ==
    ASSUME IInv,
           \/ Arrive
           \/ ReceiveEnds
           \/ \E p \in Part : WriteReceived(p)
    PROVE  (SeatInv /\ BufInv /\ ParsedInv /\ WireInv)'
<1>1. CASE Arrive
  <2>1. SeatInv' /\ WireInv'
    BY <1>1, ReceiveFrame DEF Arrive
  <2>2. BufInv' /\ ParsedInv'
    BY <1>1 DEF IInv, Arrive, BufInv, ParsedInv, Received
  <2> QED BY <2>1, <2>2
<1>2. CASE ReceiveEnds
  <2>1. SeatInv' /\ WireInv'
    BY <1>2, ReceiveFrame DEF ReceiveEnds
  <2>2. BufInv' /\ ParsedInv'
    BY <1>2 DEF IInv, ReceiveEnds, BufInv, ParsedInv, Received
  <2> QED BY <2>1, <2>2
<1>3. ASSUME NEW p \in Part, WriteReceived(p)
      PROVE  (SeatInv /\ BufInv /\ ParsedInv /\ WireInv)'
  <2>1. SeatInv' /\ WireInv'
    BY <1>3, ReceiveFrame DEF WriteReceived
  <2>2. BufInv' /\ ParsedInv'
    <3>1. /\ chain = "arrive" /\ left' = left \ {p}
          /\ chain' \in {"arrive", "ready"}
          /\ buf' = [buf EXCEPT ![p] = In(Occupant, inNo)]
          /\ UNCHANGED <<seat, parsed, inNo>>
      BY <1>3 DEF WriteReceived
    <3>2. ParsedInv'
      BY <3>1 DEF IInv, ParsedInv
    <3>3. \A q \in Part : Received(q)' => buf'[q] = In(Occupant, inNo)
      BY <3>1 DEF IInv, TypeOK, BufInv, Received
    <3>4. BufInv'
      BY <3>1, <3>3 DEF BufInv, Received
    <3> QED BY <3>2, <3>4
  <2> QED BY <2>1, <2>2
<1> QED BY <1>1, <1>2, <1>3

\* What a handler reads is what BufInv says of the buffer.
LEMMA HandlerStep ==
    ASSUME IInv, ReadHeader \/ ReadBody
    PROVE  (SeatInv /\ BufInv /\ ParsedInv /\ WireInv)'
<1>1. CASE ReadHeader
  <2>1. SeatInv' /\ WireInv'
    BY <1>1, ReceiveFrame DEF ReadHeader
  <2>2. BufInv' /\ ParsedInv'
    BY <1>1 DEF IInv, TypeOK, ReadHeader, BufInv, ParsedInv, Received
  <2> QED BY <2>1, <2>2
<1>2. CASE ReadBody
  <2>1. SeatInv' /\ WireInv'
    BY <1>2, ReceiveFrame DEF ReadBody
  <2>2. BufInv' /\ ParsedInv'
    BY <1>2 DEF IInv, TypeOK, ReadBody, BufInv, ParsedInv, Received
  <2> QED BY <2>1, <2>2
<1> QED BY <1>1, <1>2

\* A send thread puts nothing into the buffer that counts as received, and what
\* WSASend takes of it was received from the occupant of the moment.
LEMMA SendStep ==
    ASSUME IInv, NEW t \in Sender, Sending(t)
    PROVE  (SeatInv /\ BufInv /\ ParsedInv /\ WireInv)'
<1>1. UNCHANGED recvVars
  BY DEF Sending, CheckConnected, CopyMemory, CallSend, TakeForWire, SendReturns
<1>2. SeatInv' /\ ParsedInv'
  BY <1>1 DEF IInv, SeatInv, ParsedInv
<1>3. BufInv'
  <2>1. CASE UNCHANGED buf
    BY <1>1, <2>1 DEF IInv, BufInv, Received
  <2>2. ASSUME NEW p \in Part, CopyMemory(t, p) PROVE BufInv'
    BY <1>1, <2>2 DEF IInv, TypeOK, BufInv, Received, CopyMemory
  <2> QED BY <2>1, <2>2 DEF Sending, CheckConnected, CallSend, TakeForWire, SendReturns
<1>4. WireInv'
  <2>1. CASE CheckConnected(t)
    BY <1>1, <2>1 DEF IInv, TypeOK, WireInv, CheckConnected, Goto
  <2>2. ASSUME NEW p \in Part, CopyMemory(t, p) PROVE WireInv'
    BY <1>1, <2>2 DEF IInv, TypeOK, WireInv, CopyMemory, Goto
  <2>3. CASE CallSend(t)
    BY <1>1, <2>3 DEF IInv, TypeOK, SeatInv, WireInv, CallSend, Goto
  <2>4. ASSUME NEW p \in Part, TakeForWire(t, p) PROVE WireInv'
    BY <1>1, <2>4 DEF IInv, TypeOK, BufInv, Received, WireInv, TakeForWire, Goto
  <2>5. CASE SendReturns(t)
    BY <1>1, <2>5 DEF IInv, TypeOK, WireInv, SendReturns, Goto
  <2> QED BY <2>1, <2>2, <2>3, <2>4, <2>5 DEF Sending
<1> QED BY <1>2, <1>3, <1>4

\* Every step of RecvBuffer keeps the invariant.
LEMMA NextStep == IInv /\ [Next]_vars => IInv'
<1> SUFFICES ASSUME IInv, [Next]_vars PROVE IInv'
  OBVIOUS
<1>1. TypeOK'
  BY TypeStep DEF IInv
<1>2. (SeatInv /\ BufInv /\ ParsedInv /\ WireInv)'
  <2>1. CASE UNCHANGED vars
    BY <2>1 DEF vars, IInv, SeatInv, BufInv, Received, ParsedInv, WireInv
  <2>2. CASE Receiving
    BY <2>2, ConnectClientStep, BufferClearedStep, ArrivalStep, HandlerStep, CloseSocketStep
       DEF Receiving
  <2>3. CASE \E t \in Sender : Sending(t)
    BY <2>3, SendStep
  <2> QED BY <2>1, <2>2, <2>3 DEF Next
<1> QED BY <1>1, <1>2 DEF IInv

-----------------------------------------------------------------------------
\* The invariant holds in every state the slot and its users can reach.
THEOREM Inductive == Spec => []IInv
BY InitIInv, NextStep, PTL DEF Spec

\* Type correctness, for every number of clients, threads and packets.
THEOREM TypeCorrect == Spec => []TypeOK
<1>1. IInv => TypeOK
  BY DEF IInv
<1> QED BY <1>1, Inductive, PTL

\* What a client has sent is never sent, through RecvBuf, to another client of
\* its slot.
THEOREM EchoStays == Spec => []EchoStaysWithSender
<1>1. IInv => EchoStaysWithSender
  BY DEF IInv, WireInv, EchoStaysWithSender
<1> QED BY <1>1, Inductive, PTL

\* A handler never reads parts of two receives, however the send threads and
\* ReceivePacket write to the buffer meanwhile.
THEOREM OneReceiveHandled == Spec => []HandlesOneReceive
<1>1. IInv => HandlesOneReceive
  BY DEF IInv, ParsedInv, HandlesOneReceive
<1> QED BY <1>1, Inductive, PTL

=============================================================================
