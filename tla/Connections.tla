---------------------------- MODULE Connections ----------------------------
(***************************************************************************)
(* The life of a client slot: AcceptThread fills slots of ClientContexts,  *)
(* the completion port hands finished receives to the WorkThreads, and the *)
(* two send threads borrow the receive buffer of the slot they send to.    *)
(*                                                                         *)
(* A connection is a member of Conn: one TCP connection, from the client's *)
(* connect() on.  Its identity is never reused, whatever Windows does with *)
(* handle values, so that the properties can tell the successive clients   *)
(* of a slot apart.  The packets of a connection are 1, 2, 3, ... in the   *)
(* order its client sends them.  A receive takes one or more whole packets *)
(* (packets cut in two by TCP are out of this module).                     *)
(*                                                                         *)
(* What a packet handler does to the queues and to ConnectedPlayers is in  *)
(* PacketRelay; here a handled packet only advances "handled".            *)
(***************************************************************************)
EXTENDS Integers, Sequences, FiniteSets

CONSTANTS
    Conn,          \* connections the clients may open
    NoConn,        \* INVALID_SOCKET
    CLIENT_MAX,    \* length of ClientContexts
    SOCK_MAXCONN,  \* listen backlog
    Worker,        \* IOWorkerThreads
    Sender,        \* IOSendThread and IOSendBroadCastThread
    MaxPackets     \* bound: packets a client sends on one connection

ASSUME ConstantsAssumption ==
    /\ NoConn \notin Conn
    /\ CLIENT_MAX \in Nat \ {0}
    /\ SOCK_MAXCONN \in Nat \ {0}
    /\ MaxPackets \in Nat

Slot   == 0 .. CLIENT_MAX - 1
NoSlot == -1

VARIABLES
    \* clients, network and kernel
    peer,      \* what the client of a connection has done: see PeerState
    sent,      \* number of packets the client has sent
    taken,     \* number of those that receives have taken out of the socket
    backlog,   \* connections waiting in the listen queue
    key,       \* completion key the connection's socket is registered with
    posted,    \* overlapped WSARecv calls outstanding on a connection
    port,      \* completions queued at IOHandle
    closed,    \* connections the server has passed to closesocket()
    \* CClientContext
    socket,    \* Socket
    buf,       \* RecvContext.RecvBuf: the first packet in it
    \* threads
    accPc, accSlot, accConn,
    wkPc, wkSlot, wkConn,
    sendPc, sendSlot,
    clientCount,   \* ClientCount
    handled        \* history: last packet of a connection given to its handler

netVars    == <<peer, sent, taken, backlog>>
kernelVars == <<key, posted, port, closed>>
slotVars   == <<socket, buf>>
accVars    == <<accPc, accSlot, accConn, clientCount>>
wkVars     == <<wkPc, wkSlot, wkConn, handled>>
sendVars   == <<sendPc, sendSlot>>
vars       == <<netVars, kernelVars, slotVars, accVars, wkVars, sendVars>>

PeerState == {"absent", "open", "fin", "rst"}

\* Contents of a receive buffer: zeroes, the packets of a receive, or the
\* bytes SendPendingPacket copied over them.
Zeroed       == [tag |-> "zeroed"]
Outgoing     == [tag |-> "outgoing"]
Inbound(c,n) == [tag |-> "inbound", conn |-> c, first |-> n]
Contents     == {Zeroed, Outgoing} \cup [tag : {"inbound"}, conn : Conn, first : Nat]

\* A completion: the key it is delivered under, bSuccess and RecvBytes as one
\* kind, and (history) the connection it belongs to.
Kinds      == {"data", "eof", "error"}
Completion == [key : Slot \cup {NoSlot}, kind : Kinds, conn : Conn]

TypeOK ==
    /\ peer \in [Conn -> PeerState]
    /\ sent \in [Conn -> Nat]
    /\ taken \in [Conn -> Nat]
    /\ backlog \in Seq(Conn)
    /\ key \in [Conn -> Slot \cup {NoSlot}]
    /\ posted \in [Conn -> Nat]
    /\ port \in Seq(Completion)
    /\ closed \in SUBSET Conn
    /\ socket \in [Slot -> Conn \cup {NoConn}]
    /\ buf \in [Slot -> Contents]
    /\ accPc \in {"scan", "accept", "connect", "register", "arm", "done"}
    /\ accSlot \in 0 .. CLIENT_MAX
    /\ accConn \in Conn \cup {NoConn}
    /\ wkPc \in [Worker -> {"wait", "dispatch", "rearm", "close", "clear"}]
    /\ wkSlot \in [Worker -> Slot \cup {NoSlot}]
    /\ wkConn \in [Worker -> Conn \cup {NoConn}]
    /\ sendPc \in [Sender -> {"idle", "copy", "send"}]
    /\ sendSlot \in [Sender -> Slot \cup {NoSlot}]
    /\ clientCount \in Nat
    /\ handled \in [Conn -> Nat]

Init ==
    /\ peer = [c \in Conn |-> "absent"]
    /\ sent = [c \in Conn |-> 0]
    /\ taken = [c \in Conn |-> 0]
    /\ backlog = <<>>
    /\ key = [c \in Conn |-> NoSlot]
    /\ posted = [c \in Conn |-> 0]
    /\ port = <<>>
    /\ closed = {}
    /\ socket = [s \in Slot |-> NoConn]
    /\ buf = [s \in Slot |-> Zeroed]
    /\ accPc = "scan" /\ accSlot = 0 /\ accConn = NoConn
    /\ wkPc = [w \in Worker |-> "wait"]
    /\ wkSlot = [w \in Worker |-> NoSlot]
    /\ wkConn = [w \in Worker |-> NoConn]
    /\ sendPc = [t \in Sender |-> "idle"]
    /\ sendSlot = [t \in Sender |-> NoSlot]
    /\ clientCount = 0
    /\ handled = [c \in Conn |-> 0]

IsConnected(s) == socket[s] # NoConn

-----------------------------------------------------------------------------
(* Clients and the network. *)

PeerConnect(c) ==
    /\ peer[c] = "absent"
    /\ Len(backlog) < SOCK_MAXCONN
    /\ peer' = [peer EXCEPT ![c] = "open"]
    /\ backlog' = Append(backlog, c)
    /\ UNCHANGED <<sent, taken, kernelVars, slotVars, accVars, wkVars, sendVars>>

PeerSend(c) ==
    /\ peer[c] = "open"
    /\ sent[c] < MaxPackets
    /\ sent' = [sent EXCEPT ![c] = @ + 1]
    /\ UNCHANGED <<peer, taken, backlog, kernelVars, slotVars, accVars, wkVars, sendVars>>

\* The client closes the connection in order.
PeerClose(c) ==
    /\ peer[c] = "open"
    /\ peer' = [peer EXCEPT ![c] = "fin"]
    /\ UNCHANGED <<sent, taken, backlog, kernelVars, slotVars, accVars, wkVars, sendVars>>

\* The connection breaks: the client resets it, or vanishes.
PeerReset(c) ==
    /\ peer[c] \in {"open", "fin"}
    /\ peer' = [peer EXCEPT ![c] = "rst"]
    /\ UNCHANGED <<sent, taken, backlog, kernelVars, slotVars, accVars, wkVars, sendVars>>

-----------------------------------------------------------------------------
(* The kernel finishes an outstanding receive of c and queues a completion *)
(* under the key of c's socket.                                            *)

Queue(c, kind) ==
    /\ posted[c] > 0
    /\ posted' = [posted EXCEPT ![c] = @ - 1]
    /\ port' = Append(port, [key |-> key[c], kind |-> kind, conn |-> c])

CompleteData(c) ==
    /\ peer[c] \in {"open", "fin"} /\ c \notin closed
    /\ Queue(c, "data")
    /\ \E k \in 1 .. sent[c] - taken[c] :
          taken' = [taken EXCEPT ![c] = @ + k]
    /\ buf' = [buf EXCEPT ![key[c]] = Inbound(c, taken[c] + 1)]
    /\ UNCHANGED <<peer, sent, backlog, key, closed, socket, accVars, wkVars, sendVars>>

CompleteEof(c) ==
    /\ peer[c] = "fin" /\ c \notin closed
    /\ taken[c] = sent[c]
    /\ Queue(c, "eof")
    /\ UNCHANGED <<netVars, key, closed, slotVars, accVars, wkVars, sendVars>>

CompleteError(c) ==
    /\ peer[c] = "rst" \/ c \in closed
    /\ Queue(c, "error")
    /\ UNCHANGED <<netVars, key, closed, slotVars, accVars, wkVars, sendVars>>

-----------------------------------------------------------------------------
(* CClientContext::ReceivePacket.  The buffer is cleared first.  WSARecv on *)
(* a broken or invalid socket fails at once: no completion will follow, and *)
(* neither caller looks at the result.                                      *)

ReceivePacket(s) ==
    /\ buf' = [buf EXCEPT ![s] = Zeroed]
    /\ \/ /\ IsConnected(s) /\ socket[s] \notin closed
          /\ posted' = [posted EXCEPT ![socket[s]] = @ + 1]
       \/ /\ IsConnected(s) => peer[socket[s]] = "rst" \/ socket[s] \in closed
          /\ UNCHANGED posted

-----------------------------------------------------------------------------
(* AcceptThread.  GetEmptyClientIndex reads one slot after the other; when  *)
(* it finds none the thread returns for good.                               *)

\* Faulty variant: the index is advanced twice per round.
AcceptSkip_ByTwo ==
    /\ accPc = "scan" /\ accSlot \in Slot
    /\ IsConnected(accSlot)
    /\ accSlot' = accSlot + 2
    /\ UNCHANGED <<accPc, accConn, clientCount, netVars, kernelVars, slotVars, wkVars, sendVars>>

\* Faulty variant: the index is not advanced.
AcceptSkip_Stuck ==
    /\ accPc = "scan" /\ accSlot \in Slot
    /\ IsConnected(accSlot)
    /\ UNCHANGED vars

AcceptSkip ==
    /\ accPc = "scan" /\ accSlot \in Slot
    /\ IsConnected(accSlot)
    /\ accSlot' = accSlot + 1
    /\ UNCHANGED <<accPc, accConn, clientCount, netVars, kernelVars, slotVars, wkVars, sendVars>>

\* Faulty variant: the slot is taken without looking at its socket.
AcceptPick_Unchecked ==
    /\ accPc = "scan" /\ accSlot \in Slot
    /\ accPc' = "accept"
    /\ UNCHANGED <<accSlot, accConn, clientCount, netVars, kernelVars, slotVars, wkVars, sendVars>>

AcceptPick ==
    /\ accPc = "scan" /\ accSlot \in Slot
    /\ ~IsConnected(accSlot)
    /\ accPc' = "accept"
    /\ UNCHANGED <<accSlot, accConn, clientCount, netVars, kernelVars, slotVars, wkVars, sendVars>>

AcceptFull ==
    /\ accPc = "scan" /\ accSlot = CLIENT_MAX
    /\ accPc' = "done"
    /\ UNCHANGED <<accSlot, accConn, clientCount, netVars, kernelVars, slotVars, wkVars, sendVars>>

\* WSAAccept fails: nobody waits (WSAEWOULDBLOCK), or the connection at the
\* head of the listen queue is already broken.
AcceptFails ==
    /\ accPc = "accept"
    /\ \/ backlog = <<>> /\ UNCHANGED backlog
       \/ /\ backlog # <<>> /\ peer[Head(backlog)] = "rst"
          /\ backlog' = Tail(backlog)
    /\ accPc' = "scan" /\ accSlot' = 0
    /\ UNCHANGED <<accConn, clientCount, peer, sent, taken, kernelVars, slotVars, wkVars, sendVars>>

AcceptSocket ==
    /\ accPc = "accept" /\ backlog # <<>>
    /\ accConn' = Head(backlog)
    /\ backlog' = Tail(backlog)
    /\ accPc' = "connect"
    /\ UNCHANGED <<accSlot, clientCount, peer, sent, taken, kernelVars, slotVars, wkVars, sendVars>>

AcceptConnect ==
    /\ accPc = "connect"
    /\ socket' = [socket EXCEPT ![accSlot] = accConn]
    /\ accPc' = "register"
    /\ UNCHANGED <<accSlot, accConn, clientCount, netVars, kernelVars, buf, wkVars, sendVars>>

\* CreateIoCompletionPort, the check on IsConnected, ++ClientCount, OnConnected.
AcceptRegister ==
    /\ accPc = "register"
    /\ key' = [key EXCEPT ![accConn] = accSlot]
    /\ IF IsConnected(accSlot)
       THEN /\ clientCount' = clientCount + 1
            /\ accPc' = "arm"
            /\ UNCHANGED <<accSlot, closed>>
       ELSE /\ closed' = closed \cup {accConn}
            /\ accPc' = "scan" /\ accSlot' = 0
            /\ UNCHANGED clientCount
    /\ UNCHANGED <<accConn, netVars, posted, port, slotVars, wkVars, sendVars>>

AcceptArm ==
    /\ accPc = "arm"
    /\ ReceivePacket(accSlot)
    /\ accPc' = "scan" /\ accSlot' = 0 /\ accConn' = NoConn
    /\ UNCHANGED <<clientCount, netVars, key, port, closed, socket, wkVars, sendVars>>

-----------------------------------------------------------------------------
(* WorkThread. *)

Goto(w, pc) == wkPc' = [wkPc EXCEPT ![w] = pc]

Finish(w) ==
    /\ Goto(w, "wait")
    /\ wkSlot' = [wkSlot EXCEPT ![w] = NoSlot]
    /\ wkConn' = [wkConn EXCEPT ![w] = NoConn]

\* Faulty variant: the next receive is posted as soon as one has finished, and
\* once more after the packet is handled.
Dequeue_PostsEarly(w) ==
    /\ wkPc[w] = "wait" /\ port # <<>>
    /\ port' = Tail(port)
    /\ LET done == Head(port) IN
       IF done.kind = "eof"
       THEN UNCHANGED <<wkPc, wkSlot, wkConn, posted, buf>>
       ELSE /\ Goto(w, IF done.kind = "data" THEN "dispatch" ELSE "close")
            /\ wkSlot' = [wkSlot EXCEPT ![w] = done.key]
            /\ wkConn' = [wkConn EXCEPT ![w] = done.conn]
            /\ IF done.kind = "data"
               THEN posted' = [posted EXCEPT ![done.conn] = @ + 1]
               ELSE UNCHANGED posted
            /\ UNCHANGED buf
    /\ UNCHANGED <<handled, netVars, key, closed, socket, accVars, sendVars>>

\* GetQueuedCompletionStatus and the tests on bSuccess and RecvBytes.  After a
\* receive of 0 bytes the thread only reports it and waits for the next one.
Dequeue(w) ==
    /\ wkPc[w] = "wait" /\ port # <<>>
    /\ port' = Tail(port)
    /\ LET done == Head(port) IN
       IF done.kind = "eof"
       THEN UNCHANGED <<wkPc, wkSlot, wkConn>>
       ELSE /\ Goto(w, IF done.kind = "data" THEN "dispatch" ELSE "close")
            /\ wkSlot' = [wkSlot EXCEPT ![w] = done.key]
            /\ wkConn' = [wkConn EXCEPT ![w] = done.conn]
    /\ UNCHANGED <<handled, netVars, key, posted, closed, slotVars, accVars, sendVars>>

\* DeSerializePacket on the first packet in the buffer, whatever RecvBytes says.
\* Zeroes and outgoing packets have types PacketFuncMap does not know.
Dispatch(w) ==
    /\ wkPc[w] = "dispatch"
    /\ LET in == buf[wkSlot[w]] IN
       handled' = IF in.tag = "inbound"
                  THEN [handled EXCEPT ![in.conn] = in.first]
                  ELSE handled
    /\ Goto(w, "rearm")
    /\ UNCHANGED <<wkSlot, wkConn, netVars, kernelVars, slotVars, accVars, sendVars>>

\* Faulty variant: the next receive is forgotten.
Rearm_Forgotten(w) ==
    /\ wkPc[w] = "rearm"
    /\ Finish(w)
    /\ UNCHANGED <<handled, netVars, kernelVars, slotVars, accVars, sendVars>>

Rearm(w) ==
    /\ wkPc[w] = "rearm"
    /\ ReceivePacket(wkSlot[w])
    /\ Finish(w)
    /\ UNCHANGED <<handled, netVars, key, port, closed, socket, accVars, sendVars>>

\* Faulty variant: the slot is marked empty before the handle is closed.
CloseHandle_ClearsFirst(w) ==
    /\ wkPc[w] = "close"
    /\ closed' = closed \cup ({socket[wkSlot[w]]} \ {NoConn})
    /\ socket' = [socket EXCEPT ![wkSlot[w]] = NoConn]
    /\ Goto(w, "clear")
    /\ UNCHANGED <<wkSlot, wkConn, handled, netVars, key, posted, port, buf, accVars, sendVars>>

\* OnClosed, then CloseSocket up to closesocket() ...
CloseHandle(w) ==
    /\ wkPc[w] = "close"
    /\ closed' = closed \cup ({socket[wkSlot[w]]} \ {NoConn})
    /\ Goto(w, "clear")
    /\ UNCHANGED <<wkSlot, wkConn, handled, netVars, key, posted, port, slotVars, accVars, sendVars>>

\* Faulty variant: Socket keeps the closed handle.
ClearSocket_KeepsHandle(w) ==
    /\ wkPc[w] = "clear"
    /\ Finish(w)
    /\ UNCHANGED <<handled, netVars, kernelVars, slotVars, accVars, sendVars>>

\* ... and its last statement.
ClearSocket(w) ==
    /\ wkPc[w] = "clear"
    /\ socket' = [socket EXCEPT ![wkSlot[w]] = NoConn]
    /\ Finish(w)
    /\ UNCHANGED <<handled, netVars, kernelVars, buf, accVars, sendVars>>

-----------------------------------------------------------------------------
(* SendThread and SendBroadCastThread with a packet for slot s: the check   *)
(* on IsConnected, the copy into RecvBuf, WSASend.                          *)

SendCheck(t, s) ==
    /\ sendPc[t] = "idle"
    /\ IsConnected(s)
    /\ sendPc' = [sendPc EXCEPT ![t] = "copy"]
    /\ sendSlot' = [sendSlot EXCEPT ![t] = s]
    /\ UNCHANGED <<netVars, kernelVars, slotVars, accVars, wkVars>>

SendCopy(t) ==
    /\ sendPc[t] = "copy"
    /\ buf' = [buf EXCEPT ![sendSlot[t]] = Outgoing]
    /\ sendPc' = [sendPc EXCEPT ![t] = "send"]
    /\ UNCHANGED <<sendSlot, netVars, kernelVars, socket, accVars, wkVars>>

SendCall(t) ==
    /\ sendPc[t] = "send"
    /\ sendPc' = [sendPc EXCEPT ![t] = "idle"]
    /\ sendSlot' = [sendSlot EXCEPT ![t] = NoSlot]
    /\ UNCHANGED <<netVars, kernelVars, slotVars, accVars, wkVars>>

-----------------------------------------------------------------------------
Peers == \E c \in Conn : PeerConnect(c) \/ PeerSend(c) \/ PeerClose(c) \/ PeerReset(c)

Kernel(c) == CompleteData(c) \/ CompleteEof(c) \/ CompleteError(c)

AcceptThread ==
    \/ AcceptSkip \/ AcceptPick \/ AcceptFull \/ AcceptFails
    \/ AcceptSocket \/ AcceptConnect \/ AcceptRegister \/ AcceptArm

Process(w)    == Dispatch(w) \/ Rearm(w) \/ CloseHandle(w) \/ ClearSocket(w)
WorkThread(w) == Dequeue(w) \/ Process(w)

SendPacket(t) == (\E s \in Slot : SendCheck(t, s)) \/ SendCopy(t) \/ SendCall(t)

Next ==
    \/ Peers
    \/ \E c \in Conn : Kernel(c)
    \/ AcceptThread
    \/ \E w \in Worker : WorkThread(w)
    \/ \E t \in Sender : SendPacket(t)

Spec == Init /\ [][Next]_vars

-----------------------------------------------------------------------------
InPort(c)   == {i \in DOMAIN port : port[i].conn = c}
AtWorker(c) == {w \in Worker : wkPc[w] # "wait" /\ wkConn[w] = c}

\* Each connection has at most one receive in flight: outstanding in the
\* kernel, queued at the port, or in the hands of one worker.  The code has no
\* lock around RecvContext (RecvLock is never taken); this is what stands in
\* for it between the WorkThreads.
OneReceiveChain ==
    \A c \in Conn :
        /\ posted[c] \in {0, 1}
        /\ \A i, j \in InPort(c) : i = j
        /\ \A v, w \in AtWorker(c) : v = w
        /\ posted[c] = 1 => InPort(c) = {} /\ AtWorker(c) = {}
        /\ InPort(c) # {} => AtWorker(c) = {}

\* A slot is not given to a new client while a receive of the old one is in
\* flight: the worker that gets a completion finds, behind the ClientContext
\* pointer of its key, the connection the completion came from.
ChainOwnsSlot ==
    \A c \in Conn :
        posted[c] > 0 \/ InPort(c) # {} \/ AtWorker(c) # {} =>
            key[c] \in Slot /\ socket[key[c]] = c

\* A worker about to call DeSerializePacket finds in RecvBuf a packet of its
\* own completion that no handler has seen, or what a send thread put over it;
\* never zeroes, an older packet or one of another connection.
DispatchReadsOwn ==
    \A w \in Worker : wkPc[w] = "dispatch" =>
        LET in == buf[wkSlot[w]] IN
        \/ in = Outgoing
        \/ /\ in.tag = "inbound" /\ in.conn = wkConn[w]
           /\ handled[wkConn[w]] < in.first /\ in.first <= taken[wkConn[w]]

\* The slot GetEmptyClientIndex chose is still empty when ConnectClient writes
\* to it, and is the accepted client's until the thread goes on: between the
\* check and the use several workers may close sockets.
AcceptSlotIsFree ==
    /\ accPc \in {"accept", "connect"} => accSlot \in Slot /\ ~IsConnected(accSlot)
    /\ accPc \in {"register", "arm"} => accSlot \in Slot /\ socket[accSlot] = accConn

\* A worker closes the connection its completion reported broken, which is
\* still open, and empties the slot of that connection only: no handle is
\* closed twice, none is closed on behalf of another client.
ClosesOwnOnce ==
    \A w \in Worker :
        /\ wkPc[w] = "close" => socket[wkSlot[w]] = wkConn[w] /\ wkConn[w] \notin closed
        /\ wkPc[w] = "clear" => socket[wkSlot[w]] = wkConn[w] /\ wkConn[w] \in closed

\* The packets of one client reach their handlers in the order it sent them,
\* each at most once, however many WorkThreads there are.
HandledInOrder ==
    [][\A w \in Worker :
          LET in == buf[wkSlot[w]] IN
          wkPc[w] = "dispatch" /\ wkPc'[w] # "dispatch" /\ in.tag = "inbound" =>
              handled'[in.conn] > handled[in.conn]]_vars

-----------------------------------------------------------------------------
\* Connections that are or were in a slot: an accepted socket is stored in its
\* slot first and registered under it next.
EverSeated == {c \in Conn : key[c] # NoSlot \/ \E s \in Slot : socket[s] = c}

Seats == INSTANCE Seats WITH seat <- socket, used <- EverSeated

\* The threads together, with no lock on ClientContexts, give out and take back
\* slots one connection at a time: the server implements Seats.
ImplementsSeats == Seats!Spec

-----------------------------------------------------------------------------
(* Fairness: the threads run, a worker is woken when the port is not empty  *)
(* (the port is first in, first out), and the kernel finishes a receive     *)
(* that can be finished.  Clients owe nothing, and the send threads only    *)
(* borrow buffers here.                                                     *)
FairSpec ==
    /\ Spec
    /\ WF_vars(AcceptThread)
    /\ \A c \in Conn : WF_vars(Kernel(c))
    /\ WF_vars(\E w \in Worker : Dequeue(w))
    /\ \A w \in Worker : WF_vars(Process(w))

Waiting(c)  == \E i \in DOMAIN backlog : backlog[i] = c
Seated(c)   == \E s \in Slot : socket[s] = c
Released(c) == c \in closed /\ ~Seated(c)

\* A connection that breaks while a receive is outstanding gives its slot back.
ResetReleasesSlot ==
    \A c \in Conn : posted[c] > 0 /\ peer[c] = "rst" ~> Released(c)

\* Once a receive is outstanding, every packet the client sends is taken out of
\* the socket unless the connection breaks: handling a packet posts the next
\* receive.
ArmedKeepsReading ==
    \A c \in Conn : \A n \in 1 .. MaxPackets :
        posted[c] > 0 /\ sent[c] >= n ~> taken[c] >= n \/ peer[c] = "rst"

\* While AcceptThread runs it serves the listen queue.
ListenQueueServed ==
    \A c \in Conn : Waiting(c) ~> ~Waiting(c) \/ accPc = "done"

-----------------------------------------------------------------------------
(* What the repository says of the program and the program does not do.     *)

\* README.md:10, "the server waits until a client connects": no client waits for
\* ever while a slot stays empty.
AcceptsWhileRoom ==
    \A c \in Conn : ~<>[](Waiting(c) /\ \E s \in Slot : ~IsConnected(s))

\* IOCPServer.h:29, OnClosed is "called when the connection of server and client
\* has ended": because the client closed it, or because it broke.
OnClosedWhenEnded ==
    \A c \in Conn : Seated(c) /\ peer[c] \in {"fin", "rst"} ~> c \in closed
=============================================================================
