----------------------------- MODULE RecvBuffer -----------------------------
(***************************************************************************)
(* RecvContext.RecvBuf of one slot, piece by piece.  ReceivePacket zeroes  *)
(* it, the kernel writes what it receives into it, a handler reads it, and *)
(* SendPendingPacket, on two threads, uses it for what it sends.  There is *)
(* no lock: RecvLock is never taken.                                       *)
(*                                                                         *)
(* The buffer has two pieces, the header and the body of a packet at its   *)
(* start.  ZeroMemory, CopyMemory, the kernel and WSASend touch them one   *)
(* at a time in any order; other threads come in between.                  *)
(*                                                                         *)
(* Of receives, "chain" says where the one receive of the connection is:   *)
(* that there is only one, and that the slot is not given away under it,   *)
(* is shown in Connections (OneReceiveChain, ChainOwnsSlot).  Packets cut  *)
(* in two by TCP are in StreamFraming.                                     *)
(***************************************************************************)
EXTENDS Integers

CONSTANTS
    Conn,    \* the clients that have the slot one after the other
    NoConn,  \* INVALID_SOCKET
    Sender,  \* IOSendThread and IOSendBroadCastThread
    MaxIn,   \* bound: receives on one connection
    MaxOut   \* bound: packets sent to the slot in all

ASSUME ConstantsAssumption ==
    /\ NoConn \notin Conn
    /\ MaxIn \in Nat
    /\ MaxOut \in Nat

Part == {"header", "body"}

VARIABLES
    seat, used,   \* the slot: see Seats
    chain,        \* the receive: see Chain
    left,         \* parts that the receiving side has still to touch
    buf,          \* RecvBuf
    parsed,       \* what the handler has read of it
    inNo,         \* number of the connection's last receive
    outNo,        \* number of packets sent to the slot so far
    sndPc,        \* of a send thread
    sndNo,        \* the packet it sends
    sndLeft,      \* parts it has still to copy, or WSASend still to take
    sndTo,        \* the connection it called WSASend for
    wire          \* what that WSASend has taken

recvVars == <<seat, used, chain, left, parsed, inNo>>
sndVars  == <<outNo, sndPc, sndNo, sndLeft, sndTo, wire>>
vars     == <<recvVars, buf, sndVars>>

Seats == INSTANCE Seats WITH CLIENT_MAX <- 1

Occupant == seat[0]

\* "new": before the first ReceivePacket.  "dead": WSARecv failed, or the client
\* closed in order; nothing is posted and nobody closes the slot.
Chain == {"none", "new", "zero", "armed", "arrive", "ready", "body", "closing", "dead"}

Zero     == [src |-> "zero"]
In(c, n) == [src |-> "in", conn |-> c, no |-> n]
Out(n)   == [src |-> "out", no |-> n]
Cell     == {Zero} \cup [src : {"in"}, conn : Conn, no : Nat] \cup [src : {"out"}, no : Nat]
Untouched == [p \in Part |-> Zero]

TypeOK ==
    /\ seat \in [0 .. 0 -> Conn \cup {NoConn}] /\ used \in SUBSET Conn
    /\ chain \in Chain /\ left \in SUBSET Part
    /\ left # {} => chain \in {"zero", "arrive"}
    /\ buf \in [Part -> Cell] /\ parsed \in [Part -> Cell]
    /\ inNo \in Nat /\ outNo \in Nat
    /\ sndPc \in [Sender -> {"idle", "copy", "call", "send"}]
    /\ sndNo \in [Sender -> Nat]
    /\ sndLeft \in [Sender -> SUBSET Part]
    /\ \A t \in Sender : sndLeft[t] # {} => sndPc[t] \in {"copy", "send"}
    /\ sndTo \in [Sender -> Conn \cup {NoConn}]
    /\ wire \in [Sender -> [Part -> Cell]]

Init ==
    /\ Seats!Init
    /\ chain = "none" /\ left = {}
    /\ buf = Untouched /\ parsed = Untouched
    /\ inNo = 0 /\ outNo = 0
    /\ sndPc = [t \in Sender |-> "idle"]
    /\ sndNo = [t \in Sender |-> 0]
    /\ sndLeft = [t \in Sender |-> {}]
    /\ sndTo = [t \in Sender |-> NoConn]
    /\ wire = [t \in Sender |-> Untouched]

-----------------------------------------------------------------------------
(* The receiving side: AcceptThread, the kernel, a worker.                 *)

ConnectClient(c) ==
    /\ chain = "none"
    /\ Seats!Take(0, c)
    /\ chain' = "new" /\ inNo' = 0
    /\ UNCHANGED <<left, parsed, buf, sndVars>>

\* ReceivePacket is called: by AcceptThread after OnConnected.
FirstReceive ==
    /\ chain = "new"
    /\ chain' = "zero" /\ left' = Part
    /\ UNCHANGED <<seat, used, parsed, inNo, buf, sndVars>>

\* Faulty variant: the buffer is not cleared.
ZeroMemory_Nothing(p) ==
    /\ chain = "zero" /\ p \in left
    /\ left' = left \ {p}
    /\ UNCHANGED <<seat, used, chain, parsed, inNo, buf, sndVars>>

ZeroMemory(p) ==
    /\ chain = "zero" /\ p \in left
    /\ buf' = [buf EXCEPT ![p] = Zero]
    /\ left' = left \ {p}
    /\ UNCHANGED <<seat, used, chain, parsed, inNo, sndVars>>

\* Faulty variant: WSARecv is called before the buffer is cleared.
PostReceive_Early ==
    /\ chain = "zero"
    /\ chain' \in {"armed", "dead"}
    /\ parsed' = Untouched
    /\ UNCHANGED <<seat, used, left, inNo, buf, sndVars>>

\* WSARecv; when it fails nobody looks.
PostReceive ==
    /\ chain = "zero" /\ left = {}
    /\ chain' \in {"armed", "dead"}
    /\ parsed' = Untouched
    /\ UNCHANGED <<seat, used, left, inNo, buf, sndVars>>

\* The receive finishes: with a packet, a header without a body, no data, or
\* an error.
Arrive ==
    /\ chain = "armed" /\ inNo < MaxIn
    /\ chain' = "arrive" /\ inNo' = inNo + 1
    /\ left' \in {Part, {"header"}}
    /\ UNCHANGED <<seat, used, parsed, buf, sndVars>>

WriteReceived(p) ==
    /\ chain = "arrive" /\ p \in left
    /\ buf' = [buf EXCEPT ![p] = In(Occupant, inNo)]
    /\ left' = left \ {p}
    /\ chain' = IF left' = {} THEN "ready" ELSE "arrive"
    /\ UNCHANGED <<seat, used, parsed, inNo, sndVars>>

ReceiveEnds ==
    /\ chain = "armed"
    /\ chain' \in {"dead", "closing"}
    /\ UNCHANGED <<seat, used, left, parsed, inNo, buf, sndVars>>

\* WorkThread looks the packet type up in PacketFuncMap: types of outgoing
\* packets and 0 are not there.
ReadHeader ==
    /\ chain = "ready"
    /\ parsed' = [parsed EXCEPT !["header"] = buf["header"]]
    /\ IF buf["header"].src = "in"
       THEN chain' = "body" /\ UNCHANGED left
       ELSE chain' = "zero" /\ left' = Part
    /\ UNCHANGED <<seat, used, inNo, buf, sndVars>>

\* The handler parses the body; then WorkThread calls ReceivePacket.
ReadBody ==
    /\ chain = "body"
    /\ parsed' = [parsed EXCEPT !["body"] = buf["body"]]
    /\ chain' = "zero" /\ left' = Part
    /\ UNCHANGED <<seat, used, inNo, buf, sndVars>>

CloseSocket ==
    /\ chain = "closing"
    /\ Seats!Leave(0)
    /\ chain' = "none"
    /\ UNCHANGED <<left, parsed, inNo, buf, sndVars>>

-----------------------------------------------------------------------------
(* SendPacket and SendPacketBroadCast, on thread t.                        *)

Goto(t, pc, parts) ==
    /\ sndPc' = [sndPc EXCEPT ![t] = pc]
    /\ sndLeft' = [sndLeft EXCEPT ![t] = parts]

CheckConnected(t) ==
    /\ sndPc[t] = "idle" /\ outNo < MaxOut
    /\ Occupant # NoConn
    /\ outNo' = outNo + 1
    /\ sndNo' = [sndNo EXCEPT ![t] = outNo + 1]
    /\ Goto(t, "copy", Part)
    /\ UNCHANGED <<sndTo, wire, buf, recvVars>>

CopyMemory(t, p) ==
    /\ sndPc[t] = "copy" /\ p \in sndLeft[t]
    /\ buf' = [buf EXCEPT ![p] = Out(sndNo[t])]
    /\ Goto(t, IF sndLeft[t] = {p} THEN "call" ELSE "copy", sndLeft[t] \ {p})
    /\ UNCHANGED <<outNo, sndNo, sndTo, wire, recvVars>>

\* WSASend reads Socket.  It fails on an empty slot, and may fail on any other.
CallSend(t) ==
    /\ sndPc[t] = "call"
    /\ \/ /\ Occupant # NoConn
          /\ Goto(t, "send", Part)
          /\ sndTo' = [sndTo EXCEPT ![t] = Occupant]
       \/ Goto(t, "idle", {}) /\ UNCHANGED sndTo
    /\ UNCHANGED <<outNo, sndNo, wire, buf, recvVars>>

TakeForWire(t, p) ==
    /\ sndPc[t] = "send" /\ p \in sndLeft[t]
    /\ wire' = [wire EXCEPT ![t][p] = buf[p]]
    /\ Goto(t, "send", sndLeft[t] \ {p})
    /\ UNCHANGED <<outNo, sndNo, sndTo, buf, recvVars>>

SendReturns(t) ==
    /\ sndPc[t] = "send" /\ sndLeft[t] = {}
    /\ Goto(t, "idle", {})
    /\ sndTo' = [sndTo EXCEPT ![t] = NoConn]
    /\ wire' = [wire EXCEPT ![t] = Untouched]
    /\ UNCHANGED <<outNo, sndNo, buf, recvVars>>

-----------------------------------------------------------------------------
Receiving ==
    \/ \E c \in Conn : ConnectClient(c)
    \/ FirstReceive \/ PostReceive
    \/ \E p \in Part : ZeroMemory(p) \/ WriteReceived(p)
    \/ Arrive \/ ReceiveEnds
    \/ ReadHeader \/ ReadBody
    \/ CloseSocket

Sending(t) ==
    \/ CheckConnected(t) \/ CallSend(t) \/ SendReturns(t)
    \/ \E p \in Part : CopyMemory(t, p) \/ TakeForWire(t, p)

Next == Receiving \/ \E t \in Sender : Sending(t)

Spec == Init /\ [][Next]_vars

-----------------------------------------------------------------------------
\* What a client has sent may come back to it, when a receive finishes between
\* the copy and WSASend, but is never sent to another client of the slot, however
\* long a send thread has been on its way: a receive that was handled is zeroed
\* before the slot can be emptied.  (A client whose socket is closed meanwhile has
\* lost its connection; nothing reaches it.)
EchoStaysWithSender ==
    \A t \in Sender : \A p \in Part :
        sndPc[t] = "send" /\ sndTo[t] = Occupant /\ wire[t][p].src = "in" =>
            wire[t][p].conn = Occupant

\* A handler never puts together the header of one received packet and the body
\* of another, nor reads what an earlier client of the slot sent: a body is of the
\* same receive, missing, or what a send thread put over it.
HandlesOneReceive ==
    \A p \in Part : parsed[p].src = "in" => parsed[p] = In(Occupant, inNo)

-----------------------------------------------------------------------------
(* What the repository says of the program and the program does not do.     *)

\* README.md:19, "all sends go out one after the other through the queues": what
\* a client is sent is a packet as it was queued, not part of one and part of
\* another, nor what ReceivePacket or a receive has made of it meanwhile.
SendsWhatWasQueued ==
    \A t \in Sender :
        sndPc[t] = "send" /\ sndLeft[t] = {} => \E n \in 1 .. outNo : wire[t] = [p \in Part |-> Out(n)]
=============================================================================
