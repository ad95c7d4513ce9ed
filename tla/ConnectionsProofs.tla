-------------------------- MODULE ConnectionsProofs --------------------------
(***************************************************************************)
(* Safety of Connections for every number of slots, connections, workers,  *)
(* send threads and packets.  The invariants of Connections are not        *)
(* inductive one by one; IInv is their inductive strengthening.            *)
(***************************************************************************)
EXTENDS Connections, SequenceFacts

Busy(w)      == wkPc[w] # "wait"
Registering  == accPc \in {"connect", "register", "arm"}

\* What RecvBuf must hold while a data completion of c is on its way to a handler.
FreshData(s, c) ==
    \/ buf[s] = Outgoing
    \/ /\ buf[s].tag = "inbound" /\ buf[s].conn = c
       /\ handled[c] < buf[s].first /\ buf[s].first <= taken[c]

\* c sits, open, in the slot it is registered under, and the accept thread is
\* done with it.
Settled(c) ==
    /\ key[c] \in Slot /\ socket[key[c]] = c
    /\ c \notin closed
    /\ Registering => accConn # c

\* c has not reached the accept thread's slot yet.
Unseen(c) == key[c] = NoSlot /\ \A s \in Slot : socket[s] # c

PostedInv ==
    \A c \in Conn : /\ posted[c] \in {0, 1}
                    /\ posted[c] = 1 => Settled(c)
                    /\ handled[c] <= taken[c]
                    /\ c \in closed => key[c] \in Slot

PortInv ==
    /\ \A i \in DOMAIN port :
          /\ posted[port[i].conn] = 0
          /\ Settled(port[i].conn)
          /\ port[i].key = key[port[i].conn]
          /\ port[i].kind = "data" => FreshData(port[i].key, port[i].conn)
    /\ \A i, j \in DOMAIN port : port[i].conn = port[j].conn => i = j

WorkerInv ==
    /\ \A w \in Worker : Busy(w) =>
          /\ wkConn[w] \in Conn
          /\ posted[wkConn[w]] = 0
          /\ \A i \in DOMAIN port : port[i].conn # wkConn[w]
          /\ wkSlot[w] \in Slot /\ wkSlot[w] = key[wkConn[w]]
          /\ socket[wkSlot[w]] = wkConn[w]
          /\ Registering => accConn # wkConn[w]
          /\ wkConn[w] \in closed <=> wkPc[w] = "clear"
          /\ wkPc[w] = "dispatch" => FreshData(wkSlot[w], wkConn[w])
    /\ \A v, w \in Worker : Busy(v) /\ Busy(w) /\ wkConn[v] = wkConn[w] => v = w

SeatInv ==
    \A s \in Slot : socket[s] # NoConn =>
        \/ key[socket[s]] = s
        \/ accPc = "register" /\ accSlot = s

AcceptInv ==
    /\ accPc \in {"accept", "connect"} => accSlot \in Slot /\ socket[accSlot] = NoConn
    /\ accPc \in {"register", "arm"} => accSlot \in Slot /\ socket[accSlot] = accConn
    /\ accPc = "connect" => Unseen(accConn)
    /\ accPc = "register" => key[accConn] = NoSlot
                             /\ \A s \in Slot : socket[s] = accConn => s = accSlot
    /\ accPc = "arm" => key[accConn] = accSlot
    /\ Registering => /\ accConn \in Conn
                      /\ accConn \notin closed
                      /\ posted[accConn] = 0
                      /\ peer[accConn] # "absent"

BacklogInv ==
    /\ \A i \in DOMAIN backlog : /\ Unseen(backlog[i])
                                 /\ peer[backlog[i]] # "absent"
                                 /\ Registering => accConn # backlog[i]
    /\ \A i, j \in DOMAIN backlog : backlog[i] = backlog[j] => i = j
    /\ \A c \in Conn : peer[c] = "absent" => Unseen(c)

SendInv == \A t \in Sender : sendPc[t] # "idle" => sendSlot[t] \in Slot

\* The inductive invariant of Connections: what AcceptThread, the kernel, the
\* port and the workers each hold of a connection, and that no two hold it.
IInv ==
    /\ TypeOK
    /\ PostedInv /\ PortInv /\ WorkerInv
    /\ SeatInv /\ AcceptInv /\ BacklogInv /\ SendInv

USE ConstantsAssumption
USE DEF Slot, NoSlot, netVars, kernelVars, slotVars, accVars, wkVars, sendVars

-----------------------------------------------------------------------------
\* The completions at the port are of connections.
LEMMA PortConns ==
    ASSUME TypeOK
    PROVE  \A i \in DOMAIN port : port[i].conn \in Conn /\ port[i].key \in Slot \cup {NoSlot}
<1>1. port \in Seq(Completion)
  BY DEF TypeOK
<1>2. \A i \in DOMAIN port : port[i] \in Completion
  BY <1>1, ElementsOf
<1> QED BY <1>2 DEF Completion

\* The three invariants about receives in flight do not look at the clients'
\* side, at the accept thread's index or at the send threads.
LEMMA ChainFrame ==
    ASSUME PostedInv /\ PortInv /\ WorkerInv,
           UNCHANGED <<taken, kernelVars, slotVars, accConn, wkVars>>,
           Registering' <=> Registering
    PROVE  (PostedInv /\ PortInv /\ WorkerInv)'
<1>1. PostedInv'
  BY DEF PostedInv, Settled
<1>2. PortInv'
  BY DEF PortInv, Settled, FreshData
<1>3. WorkerInv'
  BY DEF WorkerInv, Busy, FreshData
<1> QED BY <1>1, <1>2, <1>3

\* The new connection is last in the listen queue and nobody else has seen it.
LEMMA PeerConnectStep == ASSUME NEW c \in Conn, IInv, PeerConnect(c) PROVE IInv'
<1> USE DEF IInv
<1>1. TypeOK'
  <2>1. backlog' \in Seq(Conn)
    BY AppendFacts DEF PeerConnect, TypeOK
  <2>2. peer' \in [Conn -> PeerState]
    BY DEF PeerConnect, TypeOK, PeerState
  <2> QED BY <2>1, <2>2 DEF PeerConnect, TypeOK
<1>2. (PostedInv /\ PortInv /\ WorkerInv)'
  BY ChainFrame DEF PeerConnect, Registering
<1>3. SeatInv'
  BY DEF PeerConnect, SeatInv
<1>4. AcceptInv'
  BY DEF PeerConnect, AcceptInv, Registering, Unseen
<1>5. BacklogInv'
  <2>1. /\ backlog' = Append(backlog, c)
        /\ DOMAIN backlog = 1 .. Len(backlog) /\ Len(backlog) \in Nat
        /\ DOMAIN backlog' = 1 .. Len(backlog) + 1
        /\ \A i \in 1 .. Len(backlog) : backlog'[i] = backlog[i] /\ backlog[i] \in Conn
        /\ backlog'[Len(backlog) + 1] = c
    BY AppendFacts DEF PeerConnect, TypeOK
  <2>2. /\ Unseen(c) /\ (Registering => accConn # c)
        /\ \A i \in DOMAIN backlog : backlog[i] # c
    BY DEF PeerConnect, BacklogInv, AcceptInv
  <2>3. \A d \in Conn : Unseen(d) => Unseen(d)'
    BY DEF PeerConnect, Unseen
  <2>4. peer' = [peer EXCEPT ![c] = "open"] /\ peer \in [Conn -> PeerState]
    BY DEF PeerConnect, TypeOK
  <2>5. (Registering <=> Registering') /\ accConn' = accConn
    BY DEF PeerConnect, Registering
  <2> QED BY <2>1, <2>2, <2>3, <2>4, <2>5 DEF BacklogInv
<1>6. SendInv'
  BY DEF PeerConnect, SendInv
<1> QED BY <1>1, <1>2, <1>3, <1>4, <1>5, <1>6

\* Only the number of packets sent changes.
LEMMA PeerSendStep == ASSUME NEW c \in Conn, IInv, PeerSend(c) PROVE IInv'
<1> USE DEF IInv
<1>1. TypeOK'
  <2>1. sent' \in [Conn -> Nat]
    BY DEF PeerSend, TypeOK
  <2> QED BY <2>1 DEF PeerSend, TypeOK
<1>2. (PostedInv /\ PortInv /\ WorkerInv)'
  BY ChainFrame DEF PeerSend, Registering
<1>3. SeatInv'
  BY DEF PeerSend, SeatInv
<1>4. AcceptInv'
  BY DEF PeerSend, AcceptInv, Registering, Unseen
<1>5. BacklogInv'
  BY DEF PeerSend, BacklogInv, Registering, Unseen
<1>6. SendInv'
  BY DEF PeerSend, SendInv
<1> QED BY <1>1, <1>2, <1>3, <1>4, <1>5, <1>6

\* Only the peer changes.
LEMMA PeerCloseStep == ASSUME NEW c \in Conn, IInv, PeerClose(c) PROVE IInv'
<1> USE DEF IInv
<1>1. TypeOK'
  BY DEF PeerClose, TypeOK, PeerState
<1>2. (PostedInv /\ PortInv /\ WorkerInv)'
  BY ChainFrame DEF PeerClose, Registering
<1>3. SeatInv'
  BY DEF PeerClose, SeatInv
<1>4. AcceptInv'
  BY DEF PeerClose, AcceptInv, Registering, Unseen
<1>5. BacklogInv'
  BY DEF PeerClose, BacklogInv, Registering, Unseen
<1>6. SendInv'
  BY DEF PeerClose, SendInv
<1> QED BY <1>1, <1>2, <1>3, <1>4, <1>5, <1>6

\* Only the peer changes.
LEMMA PeerResetStep == ASSUME NEW c \in Conn, IInv, PeerReset(c) PROVE IInv'
<1> USE DEF IInv
<1>1. TypeOK'
  BY DEF PeerReset, TypeOK, PeerState
<1>2. (PostedInv /\ PortInv /\ WorkerInv)'
  BY ChainFrame DEF PeerReset, Registering
<1>3. SeatInv'
  BY DEF PeerReset, SeatInv
<1>4. AcceptInv'
  BY DEF PeerReset, AcceptInv, Registering, Unseen
<1>5. BacklogInv'
  BY DEF PeerReset, BacklogInv, Registering, Unseen
<1>6. SendInv'
  BY DEF PeerReset, SendInv
<1> QED BY <1>1, <1>2, <1>3, <1>4, <1>5, <1>6

\* The completion of c replaces its outstanding receive, and the buffer of
\* its slot gets packets no handler has seen.
LEMMA CompleteDataStep == ASSUME NEW c \in Conn, IInv, CompleteData(c) PROVE IInv'
<1> USE DEF IInv
<1> DEFINE s == key[c]
<1>a. /\ posted[c] = 1 /\ s \in Slot /\ socket[s] = c /\ c \notin closed
      /\ Registering => accConn # c
      /\ handled[c] <= taken[c]
  BY DEF CompleteData, Queue, PostedInv, Settled
<1>b. /\ posted' = [posted EXCEPT ![c] = @ - 1]
      /\ port' = Append(port, [key |-> s, kind |-> "data", conn |-> c])
      /\ buf' = [buf EXCEPT ![s] = Inbound(c, taken[c] + 1)]
      /\ UNCHANGED <<peer, sent, backlog, key, closed, socket, accVars, wkVars, sendVars>>
  BY DEF CompleteData, Queue
<1>c. PICK k \in 1 .. sent[c] - taken[c] : taken' = [taken EXCEPT ![c] = @ + k]
  BY DEF CompleteData
<1>d. /\ taken \in [Conn -> Nat] /\ sent \in [Conn -> Nat] /\ posted \in [Conn -> Nat]
      /\ buf \in [Slot -> Contents] /\ port \in Seq(Completion) /\ handled \in [Conn -> Nat]
  BY DEF TypeOK
<1>e. /\ k \in Nat /\ k >= 1 /\ taken'[c] = taken[c] + k
      /\ \A x \in Conn : x # c => taken'[x] = taken[x] /\ posted'[x] = posted[x]
      /\ posted'[c] = 0
  BY <1>a, <1>b, <1>c, <1>d
<1>f. /\ port' \in Seq(Completion)
      /\ DOMAIN port = 1 .. Len(port) /\ Len(port) \in Nat
      /\ DOMAIN port' = 1 .. Len(port) + 1
      /\ \A i \in 1 .. Len(port) : port'[i] = port[i]
      /\ port'[Len(port) + 1] = [key |-> s, kind |-> "data", conn |-> c]
  <2>1. [key |-> s, kind |-> "data", conn |-> c] \in Completion
    BY <1>a DEF Completion, Kinds
  <2> HIDE DEF s
  <2> QED BY <1>b, <1>d, <2>1, AppendFacts
<1>g. \A i \in DOMAIN port : /\ port[i].conn \in Conn /\ port[i].conn # c
                             /\ port[i].key \in Slot /\ port[i].key # s
  BY <1>a, PortConns DEF PortInv, Settled
<1> HIDE DEF s
<1>1. TypeOK'
  <2>1. buf' \in [Slot -> Contents]
    <3>1. Inbound(c, taken[c] + 1) \in Contents
      BY <1>d DEF Contents, Inbound
    <3> QED BY <1>a, <1>b, <1>d, <3>1
  <2>2. taken' \in [Conn -> Nat] /\ posted' \in [Conn -> Nat]
    BY <1>a, <1>b, <1>c, <1>d, <1>e
  <2> QED BY <1>b, <1>f, <2>1, <2>2 DEF TypeOK
<1>2. PostedInv'
  <2>1. handled' = handled /\ closed' = closed /\ key' = key
    BY <1>b
  <2>2. \A x \in Conn : Settled(x) => Settled(x)'
    BY <1>b DEF Settled, Registering
  <2>3. handled[c] <= taken'[c]
    BY <1>a, <1>d, <1>e
  <2> QED BY <1>e, <2>1, <2>2, <2>3 DEF PostedInv
<1>3. PortInv'
  <2>1. \A x \in Conn : Settled(x) => Settled(x)'
    BY <1>b DEF Settled, Registering
  <2>2. Settled(c)'
    BY <1>a, <2>1, <1>b DEF Settled, Registering, s
  <2>3. \A i \in DOMAIN port : FreshData(port[i].key, port[i].conn) =>
                                FreshData(port[i].key, port[i].conn)'
    <3>1. \A i \in DOMAIN port : /\ port'[i] = port[i]
                                 /\ buf'[port[i].key] = buf[port[i].key]
                                 /\ taken'[port[i].conn] = taken[port[i].conn]
      BY <1>b, <1>d, <1>e, <1>f, <1>g
    <3> QED BY <3>1, <1>b DEF FreshData
  <2>4. FreshData(s, c)'
    BY <1>a, <1>b, <1>d, <1>e DEF FreshData, Inbound, s
  <2>5. key' = key /\ s = key[c] /\ s' = s
    BY <1>b DEF s
  <2>6. ASSUME NEW i \in DOMAIN port'
        PROVE  (/\ posted[port[i].conn] = 0
                /\ Settled(port[i].conn)
                /\ port[i].key = key[port[i].conn]
                /\ port[i].kind = "data" => FreshData(port[i].key, port[i].conn))'
    <3>1. CASE i = Len(port) + 1
      BY <3>1, <1>e, <1>f, <2>2, <2>4, <2>5
    <3>2. CASE i \in DOMAIN port
      <4>1. port'[i] = port[i] /\ port[i].conn \in Conn /\ port[i].conn # c
        BY <3>2, <1>f, <1>g
      <4> QED BY <3>2, <4>1, <1>e, <2>1, <2>3, <2>5 DEF PortInv
    <3> QED BY <3>1, <3>2, <1>f
  <2>7. \A i, j \in DOMAIN port' : port'[i].conn = port'[j].conn => i = j
    BY <1>f, <1>g DEF PortInv
  <2> QED BY <2>6, <2>7 DEF PortInv
<1>4. WorkerInv'
  <2>1. \A w \in Worker : Busy(w) => /\ wkConn[w] \in Conn /\ wkConn[w] # c
                                     /\ wkSlot[w] \in Slot /\ wkSlot[w] # s
    BY <1>a DEF WorkerInv, Busy
  <2>2. \A w \in Worker : Busy(w) => buf'[wkSlot[w]] = buf[wkSlot[w]]
    BY <2>1, <1>b, <1>d
  <2>2a. \A w \in Worker : Busy(w) => taken'[wkConn[w]] = taken[wkConn[w]]
    BY <2>1, <1>e
  <2>3. \A w \in Worker : Busy(w) => \A i \in DOMAIN port' : port'[i].conn # wkConn[w]
    BY <2>1, <1>f DEF WorkerInv
  <2> QED BY <1>b, <1>e, <2>1, <2>2, <2>2a, <2>3 DEF WorkerInv, Busy, Registering, FreshData
<1>5. SeatInv'
  BY DEF CompleteData, Queue, SeatInv
<1>6. AcceptInv'
  BY DEF CompleteData, Queue, AcceptInv, Registering, Unseen
<1>7. BacklogInv'
  BY DEF CompleteData, Queue, BacklogInv, Registering, Unseen
<1>8. SendInv'
  BY DEF CompleteData, Queue, SendInv
<1> QED BY <1>1, <1>2, <1>3, <1>4, <1>5, <1>6, <1>7, <1>8

\* The completion of c replaces its outstanding receive.
LEMMA CompleteEofStep == ASSUME NEW c \in Conn, IInv, CompleteEof(c) PROVE IInv'
<1> USE DEF IInv
<1> DEFINE e == [key |-> key[c], kind |-> "eof", conn |-> c]
<1>a. posted[c] = 1 /\ Settled(c)
  BY DEF CompleteEof, Queue, PostedInv, TypeOK
<1>b. /\ posted' = [posted EXCEPT ![c] = @ - 1] /\ port' = Append(port, e)
      /\ UNCHANGED <<netVars, key, closed, slotVars, accVars, wkVars, sendVars>>
  BY DEF CompleteEof, Queue
<1>c. posted \in [Conn -> Nat] /\ port \in Seq(Completion) /\ e \in Completion
  BY <1>a DEF TypeOK, Completion, Kinds, Settled
<1>d. /\ e.conn = c /\ e.key = key[c] /\ e.kind # "data"
  OBVIOUS
<1> HIDE DEF e
<1>e. posted' \in [Conn -> Nat] /\ posted'[c] = 0 /\ \A x \in Conn : x # c => posted'[x] = posted[x]
  BY <1>a, <1>b, <1>c
<1>f. /\ port' \in Seq(Completion)
      /\ DOMAIN port = 1 .. Len(port) /\ Len(port) \in Nat
      /\ DOMAIN port' = 1 .. Len(port) + 1
      /\ \A i \in 1 .. Len(port) : port'[i] = port[i]
      /\ port'[Len(port) + 1] = e
  BY <1>b, <1>c, AppendFacts
<1>g. \A i \in DOMAIN port : port[i].conn \in Conn /\ port[i].conn # c
  BY <1>a, PortConns DEF PortInv
<1>1. TypeOK'
  BY <1>b, <1>e, <1>f DEF TypeOK
<1>2. PostedInv'
  BY DEF CompleteEof, Queue, PostedInv, Settled, Registering
<1>3. PortInv'
  <2>1. \A x : Settled(x) => Settled(x)'
    BY <1>b DEF Settled, Registering
  <2>2. \A i \in DOMAIN port : FreshData(port[i].key, port[i].conn) =>
                                FreshData(port[i].key, port[i].conn)'
    BY <1>b, <1>f DEF FreshData
  <2> QED BY <1>a, <1>b, <1>d, <1>e, <1>f, <1>g, <2>1, <2>2 DEF PortInv
<1>4. WorkerInv'
  <2>1. \A w \in Worker : Busy(w) => wkConn[w] \in Conn /\ wkConn[w] # c
    BY <1>a DEF WorkerInv
  <2>2. \A w \in Worker : Busy(w) => \A i \in DOMAIN port' : port'[i].conn # wkConn[w]
    BY <2>1, <1>d, <1>f DEF WorkerInv
  <2> QED BY <1>b, <1>e, <2>1, <2>2 DEF WorkerInv, Busy, Registering, FreshData
<1>5. SeatInv'
  BY DEF CompleteEof, Queue, SeatInv
<1>6. AcceptInv'
  BY DEF CompleteEof, Queue, AcceptInv, Registering, Unseen
<1>7. BacklogInv'
  BY DEF CompleteEof, Queue, BacklogInv, Registering, Unseen
<1>8. SendInv'
  BY DEF CompleteEof, Queue, SendInv
<1> QED BY <1>1, <1>2, <1>3, <1>4, <1>5, <1>6, <1>7, <1>8

\* The completion of c replaces its outstanding receive.
LEMMA CompleteErrorStep == ASSUME NEW c \in Conn, IInv, CompleteError(c) PROVE IInv'
<1> USE DEF IInv
<1> DEFINE e == [key |-> key[c], kind |-> "error", conn |-> c]
<1>a. posted[c] = 1 /\ Settled(c)
  BY DEF CompleteError, Queue, PostedInv, TypeOK
<1>b. /\ posted' = [posted EXCEPT ![c] = @ - 1] /\ port' = Append(port, e)
      /\ UNCHANGED <<netVars, key, closed, slotVars, accVars, wkVars, sendVars>>
  BY DEF CompleteError, Queue
<1>c. posted \in [Conn -> Nat] /\ port \in Seq(Completion) /\ e \in Completion
  BY <1>a DEF TypeOK, Completion, Kinds, Settled
<1>d. /\ e.conn = c /\ e.key = key[c] /\ e.kind # "data"
  OBVIOUS
<1> HIDE DEF e
<1>e. posted' \in [Conn -> Nat] /\ posted'[c] = 0 /\ \A x \in Conn : x # c => posted'[x] = posted[x]
  BY <1>a, <1>b, <1>c
<1>f. /\ port' \in Seq(Completion)
      /\ DOMAIN port = 1 .. Len(port) /\ Len(port) \in Nat
      /\ DOMAIN port' = 1 .. Len(port) + 1
      /\ \A i \in 1 .. Len(port) : port'[i] = port[i]
      /\ port'[Len(port) + 1] = e
  BY <1>b, <1>c, AppendFacts
<1>g. \A i \in DOMAIN port : port[i].conn \in Conn /\ port[i].conn # c
  BY <1>a, PortConns DEF PortInv
<1>1. TypeOK'
  BY <1>b, <1>e, <1>f DEF TypeOK
<1>2. PostedInv'
  BY DEF CompleteError, Queue, PostedInv, Settled, Registering
<1>3. PortInv'
  <2>1. \A x : Settled(x) => Settled(x)'
    BY <1>b DEF Settled, Registering
  <2>2. \A i \in DOMAIN port : FreshData(port[i].key, port[i].conn) =>
                                FreshData(port[i].key, port[i].conn)'
    BY <1>b, <1>f DEF FreshData
  <2> QED BY <1>a, <1>b, <1>d, <1>e, <1>f, <1>g, <2>1, <2>2 DEF PortInv
<1>4. WorkerInv'
  <2>1. \A w \in Worker : Busy(w) => wkConn[w] \in Conn /\ wkConn[w] # c
    BY <1>a DEF WorkerInv
  <2>2. \A w \in Worker : Busy(w) => \A i \in DOMAIN port' : port'[i].conn # wkConn[w]
    BY <2>1, <1>d, <1>f DEF WorkerInv
  <2> QED BY <1>b, <1>e, <2>1, <2>2 DEF WorkerInv, Busy, Registering, FreshData
<1>5. SeatInv'
  BY DEF CompleteError, Queue, SeatInv
<1>6. AcceptInv'
  BY DEF CompleteError, Queue, AcceptInv, Registering, Unseen
<1>7. BacklogInv'
  BY DEF CompleteError, Queue, BacklogInv, Registering, Unseen
<1>8. SendInv'
  BY DEF CompleteError, Queue, SendInv
<1> QED BY <1>1, <1>2, <1>3, <1>4, <1>5, <1>6, <1>7, <1>8

\* The index stays within 0 .. CLIENT_MAX.
LEMMA AcceptSkipStep == ASSUME IInv, AcceptSkip PROVE IInv'
<1> USE DEF IInv
<1>1. TypeOK'
  <2>1. accSlot' \in 0 .. CLIENT_MAX
    BY DEF AcceptSkip
  <2> QED BY <2>1 DEF AcceptSkip, TypeOK
<1>2. (PostedInv /\ PortInv /\ WorkerInv)'
  BY ChainFrame DEF AcceptSkip, Registering
<1>3. SeatInv'
  BY DEF AcceptSkip, SeatInv
<1>4. AcceptInv'
  BY DEF AcceptSkip, AcceptInv, Registering, Unseen
<1>5. BacklogInv'
  BY DEF AcceptSkip, BacklogInv, Registering, Unseen
<1>6. SendInv'
  BY DEF AcceptSkip, SendInv
<1> QED BY <1>1, <1>2, <1>3, <1>4, <1>5, <1>6

\* The index stops at an empty slot.
LEMMA AcceptPickStep == ASSUME IInv, AcceptPick PROVE IInv'
<1> USE DEF IInv
<1>1. TypeOK'
  BY DEF AcceptPick, IsConnected, TypeOK
<1>2. (PostedInv /\ PortInv /\ WorkerInv)'
  BY ChainFrame DEF AcceptPick, Registering
<1>3. SeatInv'
  BY DEF AcceptPick, IsConnected, SeatInv
<1>4. AcceptInv'
  BY DEF AcceptPick, IsConnected, AcceptInv, Registering, Unseen
<1>5. BacklogInv'
  BY DEF AcceptPick, IsConnected, BacklogInv, Registering, Unseen
<1>6. SendInv'
  BY DEF AcceptPick, IsConnected, SendInv
<1> QED BY <1>1, <1>2, <1>3, <1>4, <1>5, <1>6

\* The thread is done.
LEMMA AcceptFullStep == ASSUME IInv, AcceptFull PROVE IInv'
<1> USE DEF IInv
<1>1. TypeOK'
  BY DEF AcceptFull, TypeOK
<1>2. (PostedInv /\ PortInv /\ WorkerInv)'
  BY ChainFrame DEF AcceptFull, Registering
<1>3. SeatInv'
  BY DEF AcceptFull, SeatInv
<1>4. AcceptInv'
  BY DEF AcceptFull, AcceptInv, Registering, Unseen
<1>5. BacklogInv'
  BY DEF AcceptFull, BacklogInv, Registering, Unseen
<1>6. SendInv'
  BY DEF AcceptFull, SendInv
<1> QED BY <1>1, <1>2, <1>3, <1>4, <1>5, <1>6

\* At most the head of the listen queue is lost.
LEMMA AcceptFailsStep == ASSUME IInv, AcceptFails PROVE IInv'
<1> USE DEF IInv
<1>1. TypeOK'
  <2>1. backlog \in Seq(Conn)
    BY DEF TypeOK
  <2>2. backlog' = backlog \/ (backlog # <<>> /\ backlog' = Tail(backlog))
    BY DEF AcceptFails
  <2>3. backlog' \in Seq(Conn)
    BY <2>1, <2>2, TailFacts
  <2>4. accPc' = "scan" /\ accSlot' \in 0 .. CLIENT_MAX
    BY DEF AcceptFails
  <2> QED BY <2>3, <2>4 DEF AcceptFails, TypeOK
<1>2. (PostedInv /\ PortInv /\ WorkerInv)'
  BY ChainFrame DEF AcceptFails, Registering
<1>3. SeatInv'
  BY DEF AcceptFails, SeatInv
<1>4. AcceptInv'
  BY DEF AcceptFails, AcceptInv, Registering, Unseen
<1>5. BacklogInv'
  <2>1. /\ backlog' = backlog \/ (backlog # <<>> /\ backlog' = Tail(backlog))
        /\ ~Registering' /\ UNCHANGED <<peer, key, socket>>
    BY DEF AcceptFails, Registering
  <2>2. \A d : Unseen(d) => Unseen(d)'
    BY <2>1 DEF Unseen
  <2>3. \A d \in Conn : peer'[d] = "absent" => Unseen(d)'
    BY <2>1, <2>2 DEF BacklogInv
  <2>4. CASE backlog' = backlog
    BY <2>1, <2>2, <2>3, <2>4 DEF BacklogInv
  <2>5. CASE backlog # <<>> /\ backlog' = Tail(backlog)
    <3>1. /\ DOMAIN backlog = 1 .. Len(backlog) /\ Len(backlog) \in Nat \ {0}
          /\ DOMAIN backlog' = 1 .. Len(backlog) - 1
          /\ \A i \in 1 .. Len(backlog) - 1 : backlog'[i] = backlog[i + 1]
      BY <2>5, TailFacts DEF TypeOK
    <3>2. \A i \in DOMAIN backlog' : i + 1 \in DOMAIN backlog /\ backlog'[i] = backlog[i + 1]
      BY <3>1
    <3>3. \A i \in DOMAIN backlog' : Unseen(backlog[i])' /\ peer'[backlog'[i]] # "absent"
      BY <3>2, <2>1, <2>2 DEF BacklogInv
    <3>4. \A i, j \in DOMAIN backlog' : backlog'[i] = backlog'[j] => i = j
      <4> SUFFICES ASSUME NEW i \in DOMAIN backlog', NEW j \in DOMAIN backlog',
                          backlog'[i] = backlog'[j]
                   PROVE  i = j
        OBVIOUS
      <4>1. i + 1 = j + 1
        BY <3>2 DEF BacklogInv
      <4> QED BY <4>1, <3>1
    <3> QED BY <2>1, <2>3, <3>3, <3>4 DEF BacklogInv
  <2> QED BY <2>1, <2>4, <2>5
<1>6. SendInv'
  BY DEF AcceptFails, SendInv
<1> QED BY <1>1, <1>2, <1>3, <1>4, <1>5, <1>6

\* The accepted connection is at no other place of the listen queue, and
\* neither in a slot nor in flight.
LEMMA AcceptSocketStep == ASSUME IInv, AcceptSocket PROVE IInv'
<1> USE DEF IInv
<1> DEFINE d == Head(backlog)
<1>a. /\ d \in Conn /\ d = backlog[1]
      /\ DOMAIN backlog = 1 .. Len(backlog) /\ Len(backlog) \in Nat \ {0}
      /\ backlog' \in Seq(Conn)
      /\ DOMAIN backlog' = 1 .. Len(backlog) - 1
      /\ \A i \in 1 .. Len(backlog) - 1 : backlog'[i] = backlog[i + 1] /\ backlog[i + 1] \in Conn
  BY TailFacts DEF AcceptSocket, TypeOK
<1>b. /\ key[d] = NoSlot /\ \A s \in Slot : socket[s] # d
      /\ peer[d] # "absent"
      /\ \A i \in DOMAIN backlog' : backlog'[i] # d
  BY <1>a DEF BacklogInv, Unseen
<1>c. d \notin closed /\ posted[d] = 0
  <2>1. d \notin closed
    BY <1>a, <1>b DEF PostedInv
  <2>2. posted[d] \in {0, 1} /\ posted[d] # 1
    BY <1>a, <1>b DEF PostedInv, Settled
  <2> QED BY <2>1, <2>2
<1> HIDE DEF d
<1>d. /\ accConn' = d /\ accPc = "accept" /\ accPc' = "connect" /\ Registering' /\ ~Registering
      /\ UNCHANGED <<accSlot, clientCount, peer, sent, taken, kernelVars, slotVars, wkVars, sendVars>>
  BY DEF AcceptSocket, Registering, d
<1>1. TypeOK'
  BY <1>a, <1>d DEF TypeOK
<1>2. PostedInv'
  BY <1>a, <1>b, <1>d DEF PostedInv, Settled
<1>3. PortInv'
  BY <1>a, <1>b, <1>d DEF PortInv, Settled, FreshData
<1>4. WorkerInv'
  BY <1>a, <1>b, <1>d DEF WorkerInv, Busy, FreshData
<1>5. SeatInv'
  BY DEF AcceptSocket, SeatInv
<1>6. AcceptInv'
  BY <1>a, <1>b, <1>c, <1>d DEF AcceptInv, Unseen
<1>7. BacklogInv'
  <2>1. \A i \in DOMAIN backlog' : i + 1 \in DOMAIN backlog /\ backlog'[i] = backlog[i + 1]
    BY <1>a
  <2>2. \A x : Unseen(x) => Unseen(x)'
    BY <1>d DEF Unseen
  <2>3. \A i \in DOMAIN backlog' :
           Unseen(backlog[i])' /\ peer'[backlog'[i]] # "absent" /\ accConn' # backlog'[i]
    BY <2>1, <2>2, <1>b, <1>d DEF BacklogInv
  <2>4. \A i, j \in DOMAIN backlog' : backlog'[i] = backlog'[j] => i = j
    <3> SUFFICES ASSUME NEW i \in DOMAIN backlog', NEW j \in DOMAIN backlog',
                        backlog'[i] = backlog'[j]
                 PROVE  i = j
      OBVIOUS
    <3>1. i + 1 = j + 1
      BY <2>1 DEF BacklogInv
    <3> QED BY <3>1, <1>a
  <2>5. \A x \in Conn : peer'[x] = "absent" => Unseen(x)'
    BY <2>2, <1>d DEF BacklogInv
  <2> QED BY <2>3, <2>4, <2>5 DEF BacklogInv
<1>8. SendInv'
  BY DEF AcceptSocket, SendInv
<1> QED BY <1>1, <1>2, <1>3, <1>4, <1>5, <1>6, <1>7, <1>8

\* The slot was empty, so no connection in flight loses it.
LEMMA AcceptConnectStep == ASSUME IInv, AcceptConnect PROVE IInv'
<1> USE DEF IInv
<1>1. TypeOK'
  <2>1. accConn \in Conn /\ accSlot \in Slot
    BY DEF AcceptConnect, AcceptInv, Registering
  <2>2. socket' \in [Slot -> Conn \cup {NoConn}]
    BY <2>1 DEF AcceptConnect, TypeOK
  <2> QED BY <2>2 DEF AcceptConnect, TypeOK
<1>2. PostedInv'
  BY DEF AcceptConnect, TypeOK, PostedInv, Settled, Registering, AcceptInv, Unseen
<1>3. PortInv'
  <2>1. /\ Registering /\ Registering' /\ accConn \in Conn
        /\ accSlot \in Slot /\ socket[accSlot] = NoConn
        /\ socket' = [socket EXCEPT ![accSlot] = accConn] /\ socket \in [Slot -> Conn \cup {NoConn}]
        /\ UNCHANGED <<accConn, key, closed, posted, port, buf, handled, taken>>
    BY DEF AcceptConnect, AcceptInv, Registering, TypeOK
  <2>2. \A d \in Conn : Settled(d) => Settled(d)'
    BY <2>1 DEF Settled
  <2>3. \A i \in DOMAIN port : port[i].conn \in Conn
    BY PortConns
  <2> QED BY <2>1, <2>2, <2>3 DEF PortInv, FreshData
<1>4. WorkerInv'
  BY DEF AcceptConnect, TypeOK, WorkerInv, Busy, Registering, FreshData, AcceptInv,
          Unseen
<1>5. SeatInv'
  BY DEF AcceptConnect, SeatInv
<1>6. AcceptInv'
  BY DEF AcceptConnect, TypeOK, AcceptInv, Registering, Unseen
<1>7. BacklogInv'
  BY DEF AcceptConnect, TypeOK, BacklogInv, Registering, Unseen, AcceptInv
<1>8. SendInv'
  BY DEF AcceptConnect, SendInv
<1> QED BY <1>1, <1>2, <1>3, <1>4, <1>5, <1>6, <1>7, <1>8

\* The connection is in the slot it is registered under; the check cannot fail.
LEMMA AcceptRegisterStep == ASSUME IInv, AcceptRegister PROVE IInv'
<1> USE DEF IInv
<1>1. TypeOK'
  <2>1. accConn \in Conn /\ accSlot \in Slot
    BY DEF AcceptRegister, AcceptInv, Registering
  <2>2. key' \in [Conn -> Slot \cup {NoSlot}] /\ closed' \in SUBSET Conn
    BY <2>1 DEF AcceptRegister, TypeOK
  <2>3. accPc' \in {"arm", "scan"} /\ accSlot' \in 0 .. CLIENT_MAX /\ clientCount' \in Nat
    BY <2>1 DEF AcceptRegister, TypeOK
  <2> QED BY <2>2, <2>3 DEF AcceptRegister, TypeOK
<1>2. PostedInv'
  <2>1. /\ Registering /\ accConn \in Conn /\ accSlot \in Slot /\ socket[accSlot] = accConn
        /\ posted[accConn] = 0 /\ accConn \notin closed
    BY DEF AcceptRegister, AcceptInv, Registering
  <2>2. /\ closed' = closed /\ key' = [key EXCEPT ![accConn] = accSlot]
        /\ UNCHANGED <<accConn, posted, socket, handled, taken>>
    BY <2>1 DEF AcceptRegister, IsConnected
  <2>3. \A c \in Conn : c # accConn => key'[c] = key[c]
    BY <2>2 DEF TypeOK
  <2>4. \A c \in Conn : c # accConn /\ Settled(c) => Settled(c)'
    BY <2>2, <2>3 DEF Settled
  <2> QED BY <2>1, <2>2, <2>3, <2>4 DEF PostedInv
<1>3. PortInv'
  BY DEF AcceptRegister, IsConnected, PortInv, Settled, Registering, FreshData
<1>4. WorkerInv'
  BY DEF AcceptRegister, IsConnected, WorkerInv, Busy, Registering, FreshData
<1>5. SeatInv'
  BY DEF AcceptRegister, IsConnected, TypeOK, SeatInv, AcceptInv, Registering, Unseen
<1>6. AcceptInv'
  BY DEF AcceptRegister, IsConnected, TypeOK, AcceptInv, Registering, Unseen
<1>7. BacklogInv'
  BY DEF AcceptRegister, IsConnected, TypeOK, BacklogInv, Registering, Unseen, AcceptInv
<1>8. SendInv'
  BY DEF AcceptRegister, IsConnected, SendInv
<1> QED BY <1>1, <1>2, <1>3, <1>4, <1>5, <1>6, <1>7, <1>8

\* The first receive: nothing of this connection is in flight yet.
LEMMA AcceptArmStep == ASSUME IInv, AcceptArm PROVE IInv'
<1> USE DEF IInv
<1>1. TypeOK'
  <2>1. accConn \in Conn /\ accSlot \in Slot /\ socket[accSlot] = accConn
    BY DEF AcceptArm, AcceptInv, Registering
  <2>2. buf' = [buf EXCEPT ![accSlot] = Zeroed] /\ buf \in [Slot -> Contents]
    BY DEF AcceptArm, ReceivePacket, TypeOK
  <2>3. buf' \in [Slot -> Contents]
    BY <2>1, <2>2 DEF Contents
  <2>4. posted' = posted \/ posted' = [posted EXCEPT ![accConn] = @ + 1]
    BY <2>1 DEF AcceptArm, ReceivePacket
  <2>5. posted' \in [Conn -> Nat]
    <3>1. posted \in [Conn -> Nat] /\ posted[accConn] + 1 \in Nat
      BY <2>1 DEF TypeOK
    <3> QED BY <2>4, <3>1
  <2>6. /\ accPc' = "scan" /\ accSlot' \in 0 .. CLIENT_MAX /\ accConn' = NoConn
        /\ UNCHANGED <<clientCount, netVars, key, port, closed, socket, wkVars, sendVars>>
    BY DEF AcceptArm
  <2> QED BY <2>3, <2>5, <2>6 DEF TypeOK
<1>2. PostedInv'
  BY DEF AcceptArm, ReceivePacket, IsConnected, TypeOK, PostedInv, Settled,
          Registering, AcceptInv, Unseen
<1>3. PortInv'
  <2>1. /\ accConn \in Conn /\ accSlot \in Slot /\ socket[accSlot] = accConn
        /\ Registering /\ ~Registering'
    BY DEF AcceptArm, AcceptInv, Registering
  <2>2. posted' = posted \/ posted' = [posted EXCEPT ![accConn] = @ + 1]
    BY <2>1 DEF AcceptArm, ReceivePacket
  <2>3. \A d \in Conn : d # accConn => posted'[d] = posted[d]
    BY <2>1, <2>2 DEF TypeOK
  <2>4. /\ buf' = [buf EXCEPT ![accSlot] = Zeroed] /\ buf \in [Slot -> Contents]
        /\ UNCHANGED <<key, closed, port, socket, handled, taken>>
    BY DEF AcceptArm, ReceivePacket, TypeOK
  <2>5. \A i \in DOMAIN port : port[i].conn \in Conn
    BY PortConns
  <2>6. \A i \in DOMAIN port : /\ port[i].conn # accConn
                               /\ port[i].key \in Slot /\ port[i].key # accSlot
    BY <2>1, <2>5 DEF PortInv, Settled
  <2>7. \A d \in Conn : Settled(d) => Settled(d)'
    BY <2>1, <2>4 DEF Settled
  <2>8. \A i \in DOMAIN port : buf'[port[i].key] = buf[port[i].key]
    BY <2>4, <2>6
  <2> QED BY <2>3, <2>4, <2>5, <2>6, <2>7, <2>8 DEF PortInv, FreshData
<1>4. WorkerInv'
  BY DEF AcceptArm, ReceivePacket, IsConnected, TypeOK, WorkerInv, Busy, Registering,
          FreshData, AcceptInv, Unseen
<1>5. SeatInv'
  BY DEF AcceptArm, ReceivePacket, IsConnected, SeatInv
<1>6. AcceptInv'
  BY DEF AcceptArm, ReceivePacket, IsConnected, AcceptInv, Registering, Unseen
<1>7. BacklogInv'
  BY DEF AcceptArm, ReceivePacket, IsConnected, BacklogInv, Registering, Unseen
<1>8. SendInv'
  BY DEF AcceptArm, ReceivePacket, IsConnected, SendInv
<1> QED BY <1>1, <1>2, <1>3, <1>4, <1>5, <1>6, <1>7, <1>8

\* The completion leaves the port for the hands of one worker.
LEMMA DequeueStep == ASSUME NEW w \in Worker, IInv, Dequeue(w) PROVE IInv'
<1> USE DEF IInv
<1> DEFINE d == Head(port)
<1>a. port \in Seq(Completion) /\ port # <<>>
  BY DEF Dequeue, TypeOK
<1>b. /\ port' \in Seq(Completion)
      /\ d = port[1] /\ d \in Completion /\ 1 \in DOMAIN port
      /\ DOMAIN port = 1 .. Len(port) /\ Len(port) \in Nat \ {0}
      /\ DOMAIN port' = 1 .. Len(port) - 1
      /\ \A i \in 1 .. Len(port) - 1 : port'[i] = port[i + 1]
  BY <1>a, TailFacts DEF Dequeue
<1>c. \A i \in DOMAIN port' : /\ i + 1 \in DOMAIN port /\ port'[i] = port[i + 1]
                              /\ port'[i].conn \in Conn /\ port'[i].conn # d.conn
  <2> TAKE i \in DOMAIN port'
  <2>1. i + 1 \in DOMAIN port /\ i + 1 # 1 /\ port'[i] = port[i + 1]
    BY <1>b
  <2>2. port'[i].conn # d.conn
    BY <2>1, <1>b DEF PortInv
  <2>3. port'[i].conn \in Conn
    BY <2>1, PortConns
  <2> QED BY <2>1, <2>2, <2>3
<1>d. /\ d.conn \in Conn /\ d.key \in Slot /\ d.key = key[d.conn]
      /\ posted[d.conn] = 0 /\ Settled(d.conn)
      /\ d.kind = "data" => FreshData(d.key, d.conn)
  BY <1>b DEF PortInv, Settled, Completion
<1>e. \A v \in Worker : Busy(v) => wkConn[v] # d.conn
  BY <1>b DEF WorkerInv
<1>f. /\ wkPc[w] = "wait"
      /\ UNCHANGED <<handled, netVars, key, posted, closed, slotVars, accVars, sendVars>>
  BY DEF Dequeue
<1>g. \/ UNCHANGED <<wkPc, wkSlot, wkConn>>
      \/ /\ wkPc' = [wkPc EXCEPT ![w] = IF d.kind = "data" THEN "dispatch" ELSE "close"]
         /\ wkSlot' = [wkSlot EXCEPT ![w] = d.key]
         /\ wkConn' = [wkConn EXCEPT ![w] = d.conn]
  BY DEF Dequeue, Goto
<1> HIDE DEF d
<1>1. TypeOK'
  <2>1. /\ wkPc' \in [Worker -> {"wait", "dispatch", "rearm", "close", "clear"}]
        /\ wkSlot' \in [Worker -> Slot \cup {NoSlot}]
        /\ wkConn' \in [Worker -> Conn \cup {NoConn}]
    BY <1>d, <1>g DEF TypeOK
  <2> QED BY <1>b, <1>f, <2>1 DEF TypeOK
<1>2. PostedInv'
  BY DEF Dequeue, Goto, PostedInv, Settled, Registering
<1>3. PortInv'
  <2>1. \A x : Settled(x) => Settled(x)'
    BY <1>f DEF Settled, Registering
  <2>2. ASSUME NEW i \in DOMAIN port'
        PROVE  (/\ posted[port[i].conn] = 0
                /\ Settled(port[i].conn)
                /\ port[i].key = key[port[i].conn]
                /\ port[i].kind = "data" => FreshData(port[i].key, port[i].conn))'
    BY <1>c, <1>f, <2>1 DEF PortInv, FreshData
  <2>3. ASSUME NEW i \in DOMAIN port', NEW j \in DOMAIN port', port'[i].conn = port'[j].conn
        PROVE  i = j
    <3>1. i + 1 = j + 1
      BY <1>c, <2>3 DEF PortInv
    <3> QED BY <3>1, <1>b
  <2> QED BY <2>2, <2>3 DEF PortInv
<1>4. WorkerInv'
  <2>1. CASE UNCHANGED <<wkPc, wkSlot, wkConn>>
    <3>1. \A v \in Worker : Busy(v) => \A i \in DOMAIN port' : port'[i].conn # wkConn[v]
      BY <1>c DEF WorkerInv
    <3> QED BY <2>1, <3>1, <1>f DEF WorkerInv, Busy, Registering, FreshData
  <2>2. CASE /\ wkPc' = [wkPc EXCEPT ![w] = IF d.kind = "data" THEN "dispatch" ELSE "close"]
             /\ wkSlot' = [wkSlot EXCEPT ![w] = d.key]
             /\ wkConn' = [wkConn EXCEPT ![w] = d.conn]
    <3>1. /\ wkPc'[w] = (IF d.kind = "data" THEN "dispatch" ELSE "close")
          /\ wkSlot'[w] = d.key /\ wkConn'[w] = d.conn
          /\ \A v \in Worker : v # w => /\ wkPc'[v] = wkPc[v] /\ wkSlot'[v] = wkSlot[v]
                                        /\ wkConn'[v] = wkConn[v]
      BY <2>2 DEF TypeOK
    <3>2. ASSUME NEW v \in Worker, Busy(v)'
          PROVE  (/\ wkConn[v] \in Conn
                  /\ posted[wkConn[v]] = 0
                  /\ \A i \in DOMAIN port : port[i].conn # wkConn[v]
                  /\ wkSlot[v] \in Slot /\ wkSlot[v] = key[wkConn[v]]
                  /\ socket[wkSlot[v]] = wkConn[v]
                  /\ Registering => accConn # wkConn[v]
                  /\ wkConn[v] \in closed <=> wkPc[v] = "clear"
                  /\ wkPc[v] = "dispatch" => FreshData(wkSlot[v], wkConn[v]))'
      <4>1. CASE v = w
        BY <4>1, <3>1, <1>c, <1>d, <1>f DEF Settled, Registering, FreshData
      <4>2. CASE v # w
        <5>1. Busy(v) /\ \A i \in DOMAIN port' : port'[i].conn # wkConn[v]
          BY <4>2, <3>1, <3>2, <1>c DEF WorkerInv, Busy
        <5> QED BY <4>2, <5>1, <3>1, <1>f DEF WorkerInv, Registering, FreshData
      <4> QED BY <4>1, <4>2
    <3>3. \A u, v \in Worker : Busy(u)' /\ Busy(v)' /\ wkConn'[u] = wkConn'[v] => u = v
      BY <3>1, <1>e, <1>f DEF WorkerInv, Busy
    <3> QED BY <3>2, <3>3 DEF WorkerInv
  <2> QED BY <1>g, <2>1, <2>2
<1>5. SeatInv'
  BY DEF Dequeue, Goto, SeatInv
<1>6. AcceptInv'
  BY DEF Dequeue, Goto, AcceptInv, Registering, Unseen
<1>7. BacklogInv'
  BY DEF Dequeue, Goto, BacklogInv, Registering, Unseen
<1>8. SendInv'
  BY DEF Dequeue, Goto, SendInv
<1> QED BY <1>1, <1>2, <1>3, <1>4, <1>5, <1>6, <1>7, <1>8

\* The handled packet is newer than the last one of its connection.
LEMMA DispatchStep == ASSUME NEW w \in Worker, IInv, Dispatch(w) PROVE IInv'
<1> USE DEF IInv
<1> DEFINE s == wkSlot[w]  c == wkConn[w]
<1>a. /\ wkPc[w] = "dispatch" /\ c \in Conn /\ s \in Slot /\ s = key[c] /\ socket[s] = c
      /\ FreshData(s, c)
      /\ \A i \in DOMAIN port : port[i].conn # c
  BY DEF Dispatch, WorkerInv, Busy
<1>b. /\ handled' = handled \/ handled' = [handled EXCEPT ![c] = buf[s].first]
      /\ buf[s].tag # "inbound" => handled' = handled
      /\ buf[s].tag = "inbound" => handled'[c] \in Nat /\ handled'[c] <= taken[c]
      /\ handled' \in [Conn -> Nat]
  <2>1. handled \in [Conn -> Nat] /\ buf[s] \in Contents /\ taken[c] \in Nat
    BY <1>a DEF TypeOK
  <2>2. CASE buf[s].tag = "inbound"
    <3>1. buf[s].conn = c /\ buf[s].first \in Nat /\ buf[s].first <= taken[c]
      BY <2>1, <2>2, <1>a DEF FreshData, Contents, Zeroed, Outgoing
    <3>2. handled' = [handled EXCEPT ![c] = buf[s].first]
      BY <2>2, <3>1 DEF Dispatch
    <3> QED BY <2>1, <2>2, <3>1, <3>2, <1>a
  <2>3. CASE buf[s].tag # "inbound"
    BY <2>1, <2>3 DEF Dispatch
  <2> QED BY <2>2, <2>3
<1>c. /\ wkPc' = [wkPc EXCEPT ![w] = "rearm"]
      /\ UNCHANGED <<wkSlot, wkConn, netVars, kernelVars, slotVars, accVars, sendVars>>
  BY DEF Dispatch, Goto
<1>d. \A x \in Conn : x # c => handled'[x] = handled[x]
  BY <1>b DEF TypeOK
<1> HIDE DEF s, c
<1>1. TypeOK'
  <2>1. wkPc' \in [Worker -> {"wait", "dispatch", "rearm", "close", "clear"}]
    BY <1>c DEF TypeOK
  <2> QED BY <1>b, <1>c, <2>1 DEF TypeOK
<1>2. PostedInv'
  <2>1. \A x : Settled(x) => Settled(x)'
    BY <1>c DEF Settled, Registering
  <2>2. \A x \in Conn : handled'[x] <= taken[x]
    <3> SUFFICES ASSUME NEW x \in Conn PROVE handled'[x] <= taken[x]
      OBVIOUS
    <3>1. CASE x = c
      BY <3>1, <1>a, <1>b DEF PostedInv
    <3>2. CASE x # c
      BY <3>2, <1>d DEF PostedInv
    <3> QED BY <3>1, <3>2
  <2> QED BY <1>c, <2>1, <2>2 DEF PostedInv
<1>3. PortInv'
  <2>1. \A x : Settled(x) => Settled(x)'
    BY <1>c DEF Settled, Registering
  <2>2. \A i \in DOMAIN port : handled'[port[i].conn] = handled[port[i].conn]
    BY <1>a, <1>d, PortConns
  <2> QED BY <1>c, <2>1, <2>2 DEF PortInv, FreshData
<1>4. WorkerInv'
  <2>1. \A v \in Worker : v # w /\ Busy(v) => wkConn[v] # c
    BY <1>a DEF WorkerInv, Busy, c
  <2>2. /\ wkPc'[w] = "rearm" /\ \A v \in Worker : v # w => wkPc'[v] = wkPc[v]
        /\ \A v \in Worker : Busy(v)' <=> Busy(v)
    BY <1>a, <1>c DEF TypeOK, Busy
  <2>3. \A v \in Worker : v # w /\ Busy(v) => handled'[wkConn[v]] = handled[wkConn[v]]
    BY <2>1, <1>d DEF WorkerInv
  <2>4. w \in Worker /\ Busy(w) /\ wkPc[w] = "dispatch"
    BY <1>a DEF Busy
  <2> QED BY <1>c, <2>2, <2>3, <2>4 DEF WorkerInv, Registering, FreshData
<1>5. SeatInv'
  BY DEF Dispatch, Goto, SeatInv
<1>6. AcceptInv'
  BY DEF Dispatch, Goto, AcceptInv, Registering, Unseen
<1>7. BacklogInv'
  BY DEF Dispatch, Goto, BacklogInv, Registering, Unseen
<1>8. SendInv'
  BY DEF Dispatch, Goto, SendInv
<1> QED BY <1>1, <1>2, <1>3, <1>4, <1>5, <1>6, <1>7, <1>8

\* The connection goes from the hands of the worker back to the kernel.
LEMMA RearmStep == ASSUME NEW w \in Worker, IInv, Rearm(w) PROVE IInv'
<1> USE DEF IInv
<1> DEFINE s == wkSlot[w]  c == wkConn[w]
<1>a. /\ wkPc[w] = "rearm" /\ Busy(w) /\ c \in Conn /\ s \in Slot /\ s = key[c] /\ socket[s] = c
      /\ c \notin closed /\ (Registering => accConn # c) /\ posted[c] = 0
      /\ \A i \in DOMAIN port : port[i].conn # c
  BY DEF Rearm, WorkerInv, Busy
<1>b. /\ buf' = [buf EXCEPT ![s] = Zeroed]
      /\ posted' = posted \/ posted' = [posted EXCEPT ![c] = @ + 1]
      /\ wkPc' = [wkPc EXCEPT ![w] = "wait"]
      /\ wkSlot' = [wkSlot EXCEPT ![w] = NoSlot]
      /\ wkConn' = [wkConn EXCEPT ![w] = NoConn]
      /\ UNCHANGED <<handled, netVars, key, port, closed, socket, accVars, sendVars>>
  BY <1>a DEF Rearm, ReceivePacket, Finish, Goto
<1>c. /\ posted' \in [Conn -> Nat] /\ posted'[c] \in {0, 1}
      /\ \A x \in Conn : x # c => posted'[x] = posted[x]
  <2>1. posted \in [Conn -> Nat] /\ posted[c] + 1 \in Nat
    BY <1>a DEF TypeOK
  <2> QED BY <1>a, <1>b, <2>1
<1>d. \A i \in DOMAIN port : port[i].conn \in Conn /\ port[i].conn # c
                             /\ port[i].key \in Slot /\ port[i].key # s
  BY <1>a, PortConns DEF PortInv, Settled
<1>e. buf \in [Slot -> Contents]
  BY DEF TypeOK
<1> HIDE DEF s, c
<1>1. TypeOK'
  <2>1. buf' \in [Slot -> Contents]
    BY <1>a, <1>b, <1>e DEF Contents
  <2>2. /\ wkPc' \in [Worker -> {"wait", "dispatch", "rearm", "close", "clear"}]
        /\ wkSlot' \in [Worker -> Slot \cup {NoSlot}]
        /\ wkConn' \in [Worker -> Conn \cup {NoConn}]
    BY <1>b DEF TypeOK
  <2> QED BY <1>b, <1>c, <2>1, <2>2 DEF TypeOK
<1>2. PostedInv'
  <2>1. Settled(c)
    BY <1>a DEF Settled
  <2>2. \A x : Settled(x) => Settled(x)'
    BY <1>b DEF Settled, Registering
  <2> QED BY <1>a, <1>b, <1>c, <2>1, <2>2 DEF PostedInv, Settled, Registering
<1>3. PortInv'
  <2>1. \A x : Settled(x) => Settled(x)'
    BY <1>b DEF Settled, Registering
  <2>2. \A i \in DOMAIN port : /\ buf'[port[i].key] = buf[port[i].key]
                               /\ posted'[port[i].conn] = posted[port[i].conn]
    BY <1>b, <1>c, <1>d, <1>e
  <2> QED BY <1>b, <2>1, <2>2 DEF PortInv, FreshData
<1>4. WorkerInv'
  <2>1. \A v \in Worker : Busy(v)' => v # w /\ Busy(v)
    BY <1>b DEF Busy, TypeOK
  <2>2. \A v \in Worker : v # w => /\ wkPc'[v] = wkPc[v] /\ wkSlot'[v] = wkSlot[v]
                                   /\ wkConn'[v] = wkConn[v]
    BY <1>b DEF TypeOK
  <2>3. \A v \in Worker : v # w /\ Busy(v) => /\ wkConn[v] \in Conn /\ wkConn[v] # c
                                             /\ wkSlot[v] \in Slot /\ wkSlot[v] # s
    BY <1>a DEF WorkerInv, c
  <2>4. \A v \in Worker : v # w /\ Busy(v) => /\ buf'[wkSlot[v]] = buf[wkSlot[v]]
                                             /\ posted'[wkConn[v]] = posted[wkConn[v]]
    BY <1>b, <1>c, <1>e, <2>3
  <2> QED BY <1>b, <2>1, <2>2, <2>3, <2>4 DEF WorkerInv, Registering, FreshData
<1>5. SeatInv'
  BY DEF Rearm, ReceivePacket, IsConnected, Finish, Goto, SeatInv
<1>6. AcceptInv'
  <2>1. Registering => posted'[accConn] = posted[accConn]
    BY <1>a, <1>c DEF AcceptInv
  <2> QED BY <1>b, <2>1 DEF AcceptInv, Registering, Unseen
<1>7. BacklogInv'
  BY DEF Rearm, ReceivePacket, IsConnected, Finish, Goto, BacklogInv, Registering,
          Unseen
<1>8. SendInv'
  BY DEF Rearm, ReceivePacket, IsConnected, Finish, Goto, SendInv
<1> QED BY <1>1, <1>2, <1>3, <1>4, <1>5, <1>6, <1>7, <1>8

\* The connection of the worker is open; no other thread holds it.
LEMMA CloseHandleStep == ASSUME NEW w \in Worker, IInv, CloseHandle(w) PROVE IInv'
<1> USE DEF IInv
<1> DEFINE s == wkSlot[w]  c == wkConn[w]
<1>a. /\ wkPc[w] = "close" /\ Busy(w) /\ c \in Conn /\ s \in Slot /\ s = key[c] /\ socket[s] = c
      /\ c \notin closed /\ (Registering => accConn # c) /\ posted[c] = 0
      /\ \A i \in DOMAIN port : port[i].conn # c
  BY DEF CloseHandle, WorkerInv, Busy
<1>b. /\ closed' = closed \cup {c}
      /\ wkPc' = [wkPc EXCEPT ![w] = "clear"]
      /\ UNCHANGED <<wkSlot, wkConn, handled, netVars, key, posted, port, slotVars, accVars, sendVars>>
  BY <1>a DEF CloseHandle, Goto
<1> HIDE DEF s, c
<1>1. TypeOK'
  <2>1. /\ closed' \in SUBSET Conn
        /\ wkPc' \in [Worker -> {"wait", "dispatch", "rearm", "close", "clear"}]
    BY <1>a, <1>b DEF TypeOK
  <2> QED BY <1>b, <2>1 DEF TypeOK
<1>2. PostedInv'
  <2>1. \A x : x # c /\ Settled(x) => Settled(x)'
    BY <1>b DEF Settled, Registering
  <2> QED BY <1>a, <1>b, <2>1 DEF PostedInv
<1>3. PortInv'
  <2>1. \A x : x # c /\ Settled(x) => Settled(x)'
    BY <1>b DEF Settled, Registering
  <2> QED BY <1>a, <1>b, <2>1 DEF PortInv, FreshData
<1>4. WorkerInv'
  <2>1. \A v \in Worker : v # w /\ Busy(v) => wkConn[v] # c
    BY <1>a DEF WorkerInv, c
  <2>2. /\ wkPc'[w] = "clear" /\ \A v \in Worker : v # w => wkPc'[v] = wkPc[v]
        /\ \A v \in Worker : Busy(v)' <=> Busy(v)
    BY <1>a, <1>b DEF TypeOK, Busy
  <2>3. wkConn[w] = c /\ c \in closed'
    BY <1>b DEF c
  <2> QED BY <1>a, <1>b, <2>1, <2>2, <2>3 DEF WorkerInv, Registering, FreshData
<1>5. SeatInv'
  BY DEF CloseHandle, Goto, SeatInv
<1>6. AcceptInv'
  BY <1>a, <1>b DEF AcceptInv, Registering, Unseen
<1>7. BacklogInv'
  BY DEF CloseHandle, Goto, BacklogInv, Registering, Unseen
<1>8. SendInv'
  BY DEF CloseHandle, Goto, SendInv
<1> QED BY <1>1, <1>2, <1>3, <1>4, <1>5, <1>6, <1>7, <1>8

\* No receive of the connection that leaves the slot is in flight.
LEMMA ClearSocketStep == ASSUME NEW w \in Worker, IInv, ClearSocket(w) PROVE IInv'
<1> USE DEF IInv
<1> DEFINE s == wkSlot[w]  c == wkConn[w]
<1>a. /\ wkPc[w] = "clear" /\ Busy(w) /\ c \in Conn /\ s \in Slot /\ s = key[c] /\ socket[s] = c
      /\ c \in closed /\ (Registering => accConn # c) /\ posted[c] = 0
      /\ \A i \in DOMAIN port : port[i].conn # c
  BY DEF ClearSocket, WorkerInv, Busy
<1>b. /\ socket' = [socket EXCEPT ![s] = NoConn]
      /\ wkPc' = [wkPc EXCEPT ![w] = "wait"]
      /\ wkSlot' = [wkSlot EXCEPT ![w] = NoSlot]
      /\ wkConn' = [wkConn EXCEPT ![w] = NoConn]
      /\ UNCHANGED <<handled, netVars, kernelVars, buf, accVars, sendVars>>
  BY DEF ClearSocket, Finish, Goto
<1>c. socket \in [Slot -> Conn \cup {NoConn}]
  BY DEF TypeOK
<1>d. \A x \in Conn : x # c /\ Settled(x) => Settled(x)'
  BY <1>a, <1>b, <1>c DEF Settled, Registering
<1>e. \A x \in Conn : Unseen(x) => Unseen(x)'
  BY <1>a, <1>b, <1>c DEF Unseen
<1> HIDE DEF s, c
<1>1. TypeOK'
  <2>1. socket' \in [Slot -> Conn \cup {NoConn}]
    BY <1>a, <1>b, <1>c
  <2>2. /\ wkPc' \in [Worker -> {"wait", "dispatch", "rearm", "close", "clear"}]
        /\ wkSlot' \in [Worker -> Slot \cup {NoSlot}]
        /\ wkConn' \in [Worker -> Conn \cup {NoConn}]
    BY <1>b DEF TypeOK
  <2> QED BY <1>b, <2>1, <2>2 DEF TypeOK
<1>2. PostedInv'
  BY <1>a, <1>b, <1>d DEF PostedInv
<1>3. PortInv'
  BY <1>a, <1>b, <1>d, PortConns DEF PortInv, FreshData
<1>4. WorkerInv'
  <2>1. \A v \in Worker : Busy(v)' => v # w /\ Busy(v)
    BY <1>b DEF Busy, TypeOK
  <2>2. \A v \in Worker : v # w => /\ wkPc'[v] = wkPc[v] /\ wkSlot'[v] = wkSlot[v]
                                   /\ wkConn'[v] = wkConn[v]
    BY <1>b DEF TypeOK
  <2>3. \A v \in Worker : v # w /\ Busy(v) => wkConn[v] # c /\ wkSlot[v] # s
    BY <1>a DEF WorkerInv, c
  <2>4. \A x \in Slot : x # s => socket'[x] = socket[x]
    BY <1>b, <1>c
  <2> QED BY <1>b, <2>1, <2>2, <2>3, <2>4 DEF WorkerInv, Registering, FreshData
<1>5. SeatInv'
  <2>1. \A x \in Slot : socket'[x] = socket[x] \/ socket'[x] = NoConn
    BY <1>b, <1>c
  <2> QED BY <1>b, <2>1 DEF SeatInv
<1>6. AcceptInv'
  BY <1>a, <1>b, <1>c, <1>e DEF AcceptInv, Registering
<1>7. BacklogInv'
  <2>1. \A i \in DOMAIN backlog : backlog[i] \in Conn
    <3>1. backlog \in Seq(Conn)
      BY DEF TypeOK
    <3> QED BY <3>1, ElementsOf
  <2>2. UNCHANGED <<backlog, peer, accConn, accPc>>
    BY <1>b
  <2> QED BY <1>e, <2>1, <2>2 DEF BacklogInv, Registering
<1>8. SendInv'
  BY DEF ClearSocket, Finish, Goto, SendInv
<1> QED BY <1>1, <1>2, <1>3, <1>4, <1>5, <1>6, <1>7, <1>8

\* The send thread remembers a slot.
LEMMA SendCheckStep == ASSUME NEW t \in Sender, NEW s \in Slot, IInv, SendCheck(t, s) PROVE IInv'
<1> USE DEF IInv
<1>1. TypeOK'
  BY DEF SendCheck, TypeOK
<1>2. (PostedInv /\ PortInv /\ WorkerInv)'
  BY ChainFrame DEF SendCheck, Registering
<1>3. SeatInv'
  BY DEF SendCheck, SeatInv
<1>4. AcceptInv'
  BY DEF SendCheck, AcceptInv, Registering, Unseen
<1>5. BacklogInv'
  BY DEF SendCheck, BacklogInv, Registering, Unseen
<1>6. SendInv'
  BY DEF SendCheck, TypeOK, SendInv
<1> QED BY <1>1, <1>2, <1>3, <1>4, <1>5, <1>6

\* The bytes of a send are allowed wherever a received packet is.
LEMMA SendCopyStep == ASSUME NEW t \in Sender, IInv, SendCopy(t) PROVE IInv'
<1> USE DEF IInv
<1>1. TypeOK'
  <2>1. sendSlot[t] \in Slot
    BY DEF SendCopy, SendInv
  <2>2. buf' \in [Slot -> Contents]
    BY <2>1 DEF SendCopy, TypeOK, Contents
  <2>3. sendPc' \in [Sender -> {"idle", "copy", "send"}]
    BY DEF SendCopy, TypeOK
  <2> QED BY <2>2, <2>3 DEF SendCopy, TypeOK
<1>2. PostedInv'
  BY DEF SendCopy, PostedInv, Settled, Registering
<1>3. PortInv'
  BY DEF SendCopy, PortInv, Settled, Registering, FreshData
<1>4. WorkerInv'
  BY DEF SendCopy, WorkerInv, Busy, Registering, FreshData
<1>5. SeatInv'
  BY DEF SendCopy, SeatInv
<1>6. AcceptInv'
  BY DEF SendCopy, AcceptInv, Registering, Unseen
<1>7. BacklogInv'
  BY DEF SendCopy, BacklogInv, Registering, Unseen
<1>8. SendInv'
  BY DEF SendCopy, SendInv
<1> QED BY <1>1, <1>2, <1>3, <1>4, <1>5, <1>6, <1>7, <1>8

\* The send thread is idle again.
LEMMA SendCallStep == ASSUME NEW t \in Sender, IInv, SendCall(t) PROVE IInv'
<1> USE DEF IInv
<1>1. TypeOK'
  BY DEF SendCall, TypeOK
<1>2. (PostedInv /\ PortInv /\ WorkerInv)'
  BY ChainFrame DEF SendCall, Registering
<1>3. SeatInv'
  BY DEF SendCall, SeatInv
<1>4. AcceptInv'
  BY DEF SendCall, AcceptInv, Registering, Unseen
<1>5. BacklogInv'
  BY DEF SendCall, BacklogInv, Registering, Unseen
<1>6. SendInv'
  BY DEF SendCall, TypeOK, SendInv
<1> QED BY <1>1, <1>2, <1>3, <1>4, <1>5, <1>6

-----------------------------------------------------------------------------
\* Nobody holds anything initially.
LEMMA InitIInv == ASSUME Init PROVE IInv
<1>1. TypeOK
  <2>1. /\ <<>> \in Seq(Conn) /\ <<>> \in Seq(Completion)
    OBVIOUS
  <2>2. buf \in [Slot -> Contents]
    BY DEF Init, Contents
  <2>3. /\ peer \in [Conn -> PeerState] /\ sent \in [Conn -> Nat] /\ taken \in [Conn -> Nat]
        /\ key \in [Conn -> Slot \cup {NoSlot}] /\ posted \in [Conn -> Nat]
        /\ closed \in SUBSET Conn /\ socket \in [Slot -> Conn \cup {NoConn}]
        /\ handled \in [Conn -> Nat]
    BY DEF Init, PeerState
  <2>4. /\ accPc = "scan" /\ accSlot \in 0 .. CLIENT_MAX /\ accConn = NoConn
        /\ clientCount = 0
    BY DEF Init
  <2>5. /\ wkPc \in [Worker -> {"wait", "dispatch", "rearm", "close", "clear"}]
        /\ wkSlot \in [Worker -> Slot \cup {NoSlot}]
        /\ wkConn \in [Worker -> Conn \cup {NoConn}]
    BY DEF Init
  <2>6. /\ sendPc \in [Sender -> {"idle", "copy", "send"}]
        /\ sendSlot \in [Sender -> Slot \cup {NoSlot}]
    BY DEF Init
  <2>7. backlog = <<>> /\ port = <<>>
    BY DEF Init
  <2> QED BY <2>1, <2>2, <2>3, <2>4, <2>5, <2>6, <2>7 DEF TypeOK
<1>2. PostedInv
  BY DEF Init, PostedInv
<1>3. PortInv
  BY DEF Init, PortInv
<1>4. WorkerInv
  BY DEF Init, WorkerInv, Busy
<1>5. SeatInv
  BY DEF Init, SeatInv
<1>6. AcceptInv
  BY DEF Init, AcceptInv, Registering
<1>7. BacklogInv
  BY DEF Init, BacklogInv, Registering, Unseen
<1>8. SendInv
  BY DEF Init, SendInv
<1> QED BY <1>1, <1>2, <1>3, <1>4, <1>5, <1>6, <1>7, <1>8 DEF IInv

\* A stuttering step keeps the invariant.
LEMMA StutterStep == ASSUME IInv, UNCHANGED vars PROVE IInv'
<1> USE DEF IInv, vars
<1>1. TypeOK'
  BY DEF TypeOK
<1>2. PostedInv'
  BY DEF PostedInv, Settled, Registering
<1>3. PortInv'
  BY DEF PortInv, Settled, Registering, FreshData
<1>4. WorkerInv'
  BY DEF WorkerInv, Busy, Registering, FreshData
<1>5. SeatInv'
  BY DEF SeatInv
<1>6. AcceptInv'
  BY DEF AcceptInv, Registering, Unseen
<1>7. BacklogInv'
  BY DEF BacklogInv, Registering, Unseen
<1>8. SendInv'
  BY DEF SendInv
<1> QED BY <1>1, <1>2, <1>3, <1>4, <1>5, <1>6, <1>7, <1>8

\* Every step of Next keeps the inductive invariant, by the lemma of its action.
LEMMA NextStep == ASSUME IInv, Next PROVE IInv'
<1>1. CASE Peers
  BY <1>1, PeerConnectStep, PeerSendStep, PeerCloseStep, PeerResetStep DEF Peers
<1>2. CASE \E c \in Conn : Kernel(c)
  BY <1>2, CompleteDataStep, CompleteEofStep, CompleteErrorStep DEF Kernel
<1>3. CASE AcceptThread
  BY <1>3, AcceptSkipStep, AcceptPickStep, AcceptFullStep, AcceptFailsStep, AcceptSocketStep,
     AcceptConnectStep, AcceptRegisterStep, AcceptArmStep DEF AcceptThread
<1>4. CASE \E w \in Worker : WorkThread(w)
  BY <1>4, DequeueStep, DispatchStep, RearmStep, CloseHandleStep, ClearSocketStep
     DEF WorkThread, Process
<1>5. CASE \E t \in Sender : SendPacket(t)
  BY <1>5, SendCheckStep, SendCopyStep, SendCallStep DEF SendPacket
<1> QED BY <1>1, <1>2, <1>3, <1>4, <1>5 DEF Next

(***************************************************************************)
(* The inductive invariant holds in every state: the accept thread, the    *)
(* kernel, the port and the workers never hold the same connection twice,  *)
(* and a connection any of them holds sits in the slot of its key.         *)
(***************************************************************************)
THEOREM Inductive == Spec => []IInv
<1>1. Init => IInv
  BY InitIInv
<1>2. IInv /\ [Next]_vars => IInv'
  BY NextStep, StutterStep
<1> QED BY <1>1, <1>2, PTL DEF Spec

\* Every variable of the accept thread, the workers, the send threads and the
\* kernel keeps its type: no index leaves ClientContexts.
THEOREM TypeCorrect == Spec => []TypeOK
<1>1. IInv => TypeOK
  BY DEF IInv
<1> QED BY <1>1, Inductive, PTL

\* A slot is never given away while a receive of its connection is in flight
\* (WorkThread trusts the ClientContext pointer of the completion key).
THEOREM SlotKept == Spec => []ChainOwnsSlot
<1>1. IInv => ChainOwnsSlot
  <2> SUFFICES ASSUME IInv, NEW c \in Conn,
                      posted[c] > 0 \/ InPort(c) # {} \/ AtWorker(c) # {}
               PROVE  key[c] \in Slot /\ socket[key[c]] = c
    BY DEF ChainOwnsSlot
  <2>1. CASE posted[c] > 0
    BY <2>1 DEF IInv, PostedInv, Settled
  <2>2. CASE InPort(c) # {}
    BY <2>2 DEF IInv, PortInv, Settled, InPort
  <2>3. CASE AtWorker(c) # {}
    BY <2>3 DEF IInv, WorkerInv, Busy, AtWorker
  <2> QED BY <2>1, <2>2, <2>3
<1> QED BY <1>1, Inductive, PTL

\* Each connection has at most one receive in flight, for any number of
\* workers: what stands in for RecvLock, which no thread takes.
THEOREM SingleReceive == Spec => []OneReceiveChain
<1>1. IInv => OneReceiveChain
  <2> SUFFICES ASSUME IInv, NEW c \in Conn
               PROVE  /\ posted[c] \in {0, 1}
                      /\ \A i, j \in InPort(c) : i = j
                      /\ \A v, w \in AtWorker(c) : v = w
                      /\ posted[c] = 1 => InPort(c) = {} /\ AtWorker(c) = {}
                      /\ InPort(c) # {} => AtWorker(c) = {}
    BY DEF OneReceiveChain
  <2>1. posted[c] \in {0, 1}
    BY DEF IInv, PostedInv
  <2>2. \A i, j \in InPort(c) : i = j
    BY DEF IInv, PortInv, InPort
  <2>3. \A v, w \in AtWorker(c) : v = w
    BY DEF IInv, WorkerInv, Busy, AtWorker
  <2>4. posted[c] = 1 => InPort(c) = {} /\ AtWorker(c) = {}
    BY DEF IInv, PortInv, InPort, WorkerInv, Busy, AtWorker
  <2>5. InPort(c) # {} => AtWorker(c) = {}
    BY DEF IInv, InPort, WorkerInv, Busy, AtWorker
  <2> QED BY <2>1, <2>2, <2>3, <2>4, <2>5
<1> QED BY <1>1, Inductive, PTL

\* DeSerializePacket never reads zeroes, an old packet or another client's
\* packet out of RecvBuf: only a new packet of its own connection, or what a
\* send thread wrote over it.
THEOREM ReadsOwn == Spec => []DispatchReadsOwn
<1>1. IInv => DispatchReadsOwn
  BY DEF IInv, WorkerInv, Busy, FreshData, DispatchReadsOwn
<1> QED BY <1>1, Inductive, PTL

\* The slot GetEmptyClientIndex picked stays empty until ConnectClient fills it
\* and is the accepted client's until its first receive is posted.
THEOREM PickedSlotIsFree == Spec => []AcceptSlotIsFree
<1>1. IInv => AcceptSlotIsFree
  BY DEF IInv, AcceptInv, AcceptSlotIsFree, IsConnected
<1> QED BY <1>1, Inductive, PTL

\* CloseSocket closes the handle of the broken connection, once, and never a
\* handle of the slot's next client.
THEOREM ClosesOnce == Spec => []ClosesOwnOnce
<1>1. IInv => ClosesOwnOnce
  BY DEF IInv, WorkerInv, Busy, ClosesOwnOnce
<1> QED BY <1>1, Inductive, PTL

\* Only Dispatch takes a worker out of its dispatch state.
LEMMA DispatchOnly ==
    ASSUME TypeOK, [Next]_vars, NEW w \in Worker, wkPc[w] = "dispatch", wkPc'[w] # "dispatch"
    PROVE  Dispatch(w)
<1>1. wkPc' # wkPc
  OBVIOUS
<1>2. CASE UNCHANGED vars
  BY <1>1, <1>2 DEF vars
<1>3. CASE Peers
  BY <1>1, <1>3 DEF Peers, PeerConnect, PeerSend, PeerClose, PeerReset
<1>4. CASE \E c \in Conn : Kernel(c)
  BY <1>1, <1>4 DEF Kernel, CompleteData, CompleteEof, CompleteError
<1>5. CASE AcceptThread
  BY <1>1, <1>5 DEF AcceptThread, AcceptSkip, AcceptPick, AcceptFull, AcceptFails, AcceptSocket,
     AcceptConnect, AcceptRegister, AcceptArm
<1>6. CASE \E t \in Sender : SendPacket(t)
  BY <1>1, <1>6 DEF SendPacket, SendCheck, SendCopy, SendCall
<1>7. CASE \E v \in Worker : WorkThread(v)
  <2> PICK v \in Worker : WorkThread(v)
    BY <1>7
  <2>1. v = w
    BY DEF TypeOK, WorkThread, Process, Dequeue, Dispatch, Rearm, CloseHandle, ClearSocket, Goto, Finish
  <2> QED BY <2>1 DEF WorkThread, Process, Dequeue, Rearm, CloseHandle, ClearSocket
<1> QED BY <1>2, <1>3, <1>4, <1>5, <1>6, <1>7 DEF Next

\* The packets of a client reach their handlers in the order it sent them and
\* at most once, for any number of workers and packets.
THEOREM InOrder == Spec => HandledInOrder
<1>1. ASSUME IInv, [Next]_vars
      PROVE  [\A w \in Worker :
                LET in == buf[wkSlot[w]] IN
                wkPc[w] = "dispatch" /\ wkPc'[w] # "dispatch" /\ in.tag = "inbound" =>
                    handled'[in.conn] > handled[in.conn]]_vars
  <2> SUFFICES ASSUME NEW w \in Worker, wkPc[w] = "dispatch", wkPc'[w] # "dispatch",
                      buf[wkSlot[w]].tag = "inbound"
               PROVE  handled'[buf[wkSlot[w]].conn] > handled[buf[wkSlot[w]].conn]
    OBVIOUS
  <2> DEFINE in == buf[wkSlot[w]]
  <2>1. Dispatch(w)
    BY <1>1, DispatchOnly DEF IInv
  <2>2. wkConn[w] \in Conn /\ in.conn = wkConn[w] /\ handled[in.conn] < in.first
    BY <1>1 DEF IInv, WorkerInv, Busy, FreshData, Outgoing
  <2>3. handled' = [handled EXCEPT ![in.conn] = in.first]
    BY <2>1 DEF Dispatch
  <2>4. handled'[in.conn] = in.first /\ in.first \in Nat /\ handled[in.conn] \in Nat
    <3>1. handled \in [Conn -> Nat] /\ in \in Contents
      BY <1>1, <2>2 DEF IInv, TypeOK, WorkerInv, Busy
    <3> QED BY <2>2, <2>3, <3>1 DEF Contents, Zeroed, Outgoing
  <2> QED BY <2>2, <2>4
<1> QED BY <1>1, Inductive, PTL DEF Spec, HandledInOrder

-----------------------------------------------------------------------------
(* Connections implements Seats. *)

\* Giving a slot to the accepted connection is a Take.
LEMMA ConnectTakes == ASSUME IInv, AcceptConnect PROVE Seats!Take(accSlot, accConn)
<1>1. /\ accSlot \in Slot /\ socket[accSlot] = NoConn /\ accConn \in Conn
      /\ key[accConn] = NoSlot /\ \A s \in Slot : socket[s] # accConn
  BY DEF AcceptConnect, IInv, AcceptInv, Registering, Unseen
<1>2. socket' = [socket EXCEPT ![accSlot] = accConn] /\ key' = key
  BY DEF AcceptConnect
<1>3. socket \in [Slot -> Conn \cup {NoConn}]
  BY DEF IInv, TypeOK
<1>4. accConn \notin EverSeated
  BY <1>1 DEF EverSeated
<1>5. EverSeated' = EverSeated \cup {accConn}
  BY <1>1, <1>2, <1>3 DEF EverSeated
<1> QED BY <1>1, <1>2, <1>4, <1>5 DEF Seats!Take

\* Emptying the slot of a worker's connection is a Leave: the connection keeps
\* its key, so it is not forgotten.
LEMMA ClearLeaves == ASSUME IInv, NEW w \in Worker, ClearSocket(w) PROVE Seats!Leave(wkSlot[w])
<1>1. /\ wkConn[w] \in Conn /\ wkSlot[w] \in Slot /\ socket[wkSlot[w]] = wkConn[w]
      /\ key[wkConn[w]] = wkSlot[w]
  BY DEF ClearSocket, IInv, WorkerInv, Busy
<1>2. socket' = [socket EXCEPT ![wkSlot[w]] = NoConn] /\ key' = key
  BY DEF ClearSocket
<1>3. socket \in [Slot -> Conn \cup {NoConn}]
  BY DEF IInv, TypeOK
<1>4. EverSeated' = EverSeated
  BY <1>1, <1>2, <1>3 DEF EverSeated
<1> QED BY <1>1, <1>2, <1>4 DEF Seats!Leave

\* No other step of Connections changes a slot, nor the set of connections that
\* ever had one: AcceptRegister gives a key to a connection already in its slot.
LEMMA OtherStutters ==
    ASSUME IInv, [Next]_vars, ~AcceptConnect, \A w \in Worker : ~ClearSocket(w)
    PROVE  UNCHANGED <<socket, EverSeated>>
<1>1. CASE UNCHANGED <<socket, key>>
  BY <1>1 DEF EverSeated
<1>2. CASE UNCHANGED vars
  BY <1>1, <1>2 DEF vars
<1>3. CASE Peers
  BY <1>1, <1>3 DEF Peers, PeerConnect, PeerSend, PeerClose, PeerReset
<1>4. CASE \E c \in Conn : Kernel(c)
  BY <1>1, <1>4 DEF Kernel, CompleteData, CompleteEof, CompleteError, Queue
<1>5. CASE AcceptRegister
  <2>1. accConn \in Conn /\ accSlot \in Slot /\ socket[accSlot] = accConn
    BY <1>5 DEF AcceptRegister, IInv, AcceptInv, Registering
  <2>2. socket' = socket /\ key' = [key EXCEPT ![accConn] = accSlot] /\ key \in [Conn -> Slot \cup {NoSlot}]
    BY <1>5 DEF AcceptRegister, IInv, TypeOK
  <2> QED BY <2>1, <2>2 DEF EverSeated
<1>6. CASE AcceptThread /\ ~AcceptRegister
  BY <1>1, <1>6 DEF AcceptThread, AcceptSkip, AcceptPick, AcceptFull, AcceptFails, AcceptSocket,
     AcceptArm
<1>7. CASE \E w \in Worker : WorkThread(w)
  BY <1>1, <1>7 DEF WorkThread, Process, Dequeue, Dispatch, Rearm, CloseHandle
<1>8. CASE \E t \in Sender : SendPacket(t)
  BY <1>1, <1>8 DEF SendPacket, SendCheck, SendCopy, SendCall
<1> QED BY <1>2, <1>3, <1>4, <1>5, <1>6, <1>7, <1>8 DEF Next

\* The accept thread and the workers implement Seats, for every number of
\* slots, connections and workers, although no lock guards ClientContexts.
THEOREM Refinement == Spec => ImplementsSeats
<1>1. Init => Seats!Init
  BY DEF Init, Seats!Init, Seats!Slot, EverSeated
<1>2. IInv /\ [Next]_vars => [Seats!Next]_<<socket, EverSeated>>
  <2> SUFFICES ASSUME IInv, [Next]_vars PROVE [Seats!Next]_<<socket, EverSeated>>
    OBVIOUS
  <2>1. CASE AcceptConnect
    <3>1. accSlot \in Slot /\ accConn \in Conn
      BY <2>1 DEF AcceptConnect, IInv, AcceptInv, Registering
    <3> QED BY <2>1, <3>1, ConnectTakes DEF Seats!Next, Seats!Slot
  <2>2. CASE \E w \in Worker : ClearSocket(w)
    <3>1. PICK w \in Worker : ClearSocket(w)
      BY <2>2
    <3>2. wkSlot[w] \in Slot
      BY <3>1 DEF ClearSocket, IInv, WorkerInv, Busy
    <3> QED BY <3>1, <3>2, ClearLeaves DEF Seats!Next, Seats!Slot
  <2> QED BY <2>1, <2>2, OtherStutters
<1> QED BY <1>1, <1>2, Inductive, PTL DEF Spec, ImplementsSeats, Seats!Spec

=============================================================================
