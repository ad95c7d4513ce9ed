---------------------------- MODULE PacketRelay ----------------------------
(***************************************************************************)
(* The way of a packet through the server: the handlers of the WorkThreads *)
(* and OnConnected put packets into two queues, SendThread takes them out  *)
(* for one client, SendBroadCastThread for every client but one.           *)
(*                                                                         *)
(* The slots are those of Seats, which Connections implements.  A handler  *)
(* runs under SendQueLock from its first statement to its last, and so do  *)
(* GetPendingPacket, GetPendingBCPacket and OnConnected: each is one step. *)
(* The look at IsConnected and the call of WSASend are two.                *)
(*                                                                         *)
(* A packet keeps its kind, the client id in its body and, for a Login,    *)
(* whose location it carries (a connection stands for its first location). *)
(* FireEvent, Movement and AnimState packets differ in nothing else.  That *)
(* the bytes pass through RecvBuf on their way is left out here.           *)
(***************************************************************************)
EXTENDS Integers, Sequences, FiniteSets

CONSTANTS
    Conn,          \* connections the clients may open
    NoConn,        \* INVALID_SOCKET
    CLIENT_MAX,    \* length of ClientContexts
    OutCap,        \* packets the send buffer of a connection holds
    MaxBroadcasts  \* bound: packets the clients send in all

ASSUME ConstantsAssumption ==
    /\ NoConn \notin Conn
    /\ CLIENT_MAX \in Nat \ {0}
    /\ OutCap \in Nat \ {0}
    /\ MaxBroadcasts \in Nat

Slot   == 0 .. CLIENT_MAX - 1
NoSlot == -1

VARIABLES
    seat, used,   \* the slots: see Seats
    peer,         \* of a connection: see PeerState
    unread,       \* packets in its send buffer
    logged,       \* connections whose Login has been handled
    greet,        \* slot AcceptThread has filled and not greeted yet
    players,      \* ConnectedPlayers: whose location is stored for a client id
    sendQue,      \* IOSendPacketQue
    bcQue,        \* IOSendBCPacketQue
    sndPc, sndPkt,        \* SendThread
    bcPc, bcPkt, bcAt,    \* SendBroadCastThread, bcAt is i of SendPacketBroadCast
    \* history
    count,        \* number of packets broadcast so far
    given,        \* packets WSASend has accepted for a connection, in order
    missed,       \* connections a packet of SendThread was lost for
    present,      \* connections in a slot since the running broadcast began
    earlier       \* of a connection: those that had logged in when it did

seatVars  == <<seat, used, peer, logged, greet, earlier>>
queueVars == <<players, sendQue, bcQue, count>>
netVars   == <<unread, given>>
sndVars   == <<sndPc, sndPkt, missed>>
bcVars    == <<bcPc, bcPkt, bcAt>>
vars      == <<seatVars, queueVars, netVars, sndVars, bcVars, present>>

Seats == INSTANCE Seats

\* "broken": ended, and a worker will empty the slot.  "lost": ended, and no
\* worker will: the client closed in order, or no receive was outstanding.
PeerState == {"absent", "open", "broken", "lost"}

\* index is PacketIndex: the addressee of a packet in sendQue, the sender of one
\* in bcQue; about is the client id in the body.  History: no numbers the
\* broadcasts, to is the connection a packet in sendQue was meant for.
Packet == [kind : {"Conn", "Login", "State"}, index : Slot, about : Slot,
           info : Conn \cup {NoConn}, reliable : BOOLEAN, no : Nat, to : Conn \cup {NoConn}]
NoPacket == [kind |-> "none"]

TypeOK ==
    /\ seat \in [Slot -> Conn \cup {NoConn}]
    /\ used \in SUBSET Conn
    /\ peer \in [Conn -> PeerState]
    /\ unread \in [Conn -> 0 .. OutCap]
    /\ logged \in SUBSET Conn
    /\ greet \in Slot \cup {NoSlot}
    /\ players \in [Slot -> Conn \cup {NoConn}]
    /\ sendQue \in Seq(Packet)
    /\ bcQue \in Seq(Packet)
    /\ sndPc \in {"idle", "call"}
    /\ sndPkt \in Packet \cup {NoPacket}
    /\ bcPc \in {"idle", "check", "call"}
    /\ bcPkt \in Packet \cup {NoPacket}
    /\ bcAt \in 0 .. CLIENT_MAX
    /\ count \in Nat
    /\ given \in [Conn -> Seq(Packet)]
    /\ missed \in SUBSET Conn
    /\ present \in SUBSET Conn
    /\ earlier \in [Conn -> SUBSET Conn]

Init ==
    /\ Seats!Init
    /\ peer = [c \in Conn |-> "absent"]
    /\ unread = [c \in Conn |-> 0]
    /\ logged = {}
    /\ greet = NoSlot
    /\ players = [s \in Slot |-> NoConn]
    /\ sendQue = <<>> /\ bcQue = <<>>
    /\ sndPc = "idle" /\ sndPkt = NoPacket
    /\ bcPc = "idle" /\ bcPkt = NoPacket /\ bcAt = 0
    /\ count = 0
    /\ given = [c \in Conn |-> <<>>]
    /\ missed = {} /\ present = {}
    /\ earlier = [c \in Conn |-> {}]

IsConnected(s) == seat[s] # NoConn

-----------------------------------------------------------------------------
(* Clients come and go.                                                    *)

\* AcceptThread up to ConnectClient.
TakeSeat(s, c) ==
    /\ greet = NoSlot
    /\ Seats!Take(s, c)
    /\ peer' = [peer EXCEPT ![c] = "open"]
    /\ greet' = s
    /\ UNCHANGED <<logged, earlier, queueVars, netVars, sndVars, bcVars, present>>

\* A worker runs CloseSocket; it cannot before the first receive is posted,
\* which comes after OnConnected.
LeaveSeat(s) ==
    /\ s # greet
    /\ IsConnected(s) /\ peer[seat[s]] = "broken"
    /\ Seats!Leave(s)
    /\ present' = present \ {seat[s]}
    /\ UNCHANGED <<peer, logged, earlier, greet, queueVars, netVars, sndVars, bcVars>>

PeerEnds(c) ==
    /\ peer[c] = "open"
    /\ \E how \in {"broken", "lost"} : peer' = [peer EXCEPT ![c] = how]
    /\ UNCHANGED <<seat, used, logged, earlier, greet, queueVars, netVars, sndVars, bcVars, present>>

PeerReads(c) ==
    /\ peer[c] = "open" /\ unread[c] > 0
    /\ unread' = [unread EXCEPT ![c] = @ - 1]
    /\ UNCHANGED <<given, seatVars, queueVars, sndVars, bcVars, present>>

-----------------------------------------------------------------------------
(* The producers.                                                          *)

OnConnected ==
    /\ greet # NoSlot
    /\ sendQue' = Append(sendQue, [kind |-> "Conn", index |-> greet, about |-> greet,
                                   info |-> NoConn, reliable |-> FALSE, no |-> 0,
                                   to |-> seat[greet]])
    /\ greet' = NoSlot
    /\ UNCHANGED <<seat, used, peer, logged, earlier, players, bcQue, count, netVars, sndVars,
                   bcVars, present>>

\* A client knows its id, and sends packets with it, once it has read a Conn
\* packet; it logs in before it sends anything else.
KnowsId(c) == \E i \in DOMAIN given[c] : given[c][i].kind = "Conn"

\* IOSendBCPacketQue.push_back, in the order the handlers get SendQueLock.
PushBroadcast(kind, s, who, isReliable) ==
    /\ count < MaxBroadcasts
    /\ count' = count + 1
    /\ bcQue' = Append(bcQue, [kind |-> kind, index |-> s, about |-> s, info |-> who,
                               reliable |-> isReliable, no |-> count + 1, to |-> NoConn])

\* The orders an unordered_map may be walked in.
Orders(S) == {q \in [1 .. Cardinality(S) -> S] : \A i, j \in DOMAIN q : q[i] = q[j] => i = j}

\* Faulty variant: the walk ends where it meets the target itself.
SendLoginedPlayerPackets_Break(target, stored) ==
    \E q \in Orders({s \in Slot : stored[s] # NoConn}), n \in 0 .. CLIENT_MAX :
        /\ n < Len(q) /\ q[n + 1] = target
        /\ sendQue' = sendQue \o
            [i \in 1 .. n |-> [kind |-> "Login", index |-> target, about |-> q[i],
                               info |-> stored[q[i]], reliable |-> FALSE, no |-> 0,
                               to |-> seat[target]]]

\* SendLoginedPlayerPackets: every stored player but the target itself.
SendLoginedPlayerPackets(target, stored) ==
    \E q \in Orders({s \in Slot : stored[s] # NoConn} \ {target}) :
        sendQue' = sendQue \o
            [i \in DOMAIN q |-> [kind |-> "Login", index |-> target, about |-> q[i],
                                 info |-> stored[q[i]], reliable |-> FALSE, no |-> 0,
                                 to |-> seat[target]]]

\* Faulty variant: only a client id that is not stored yet is announced.
RecvLoginPacket_OnceOnly(s) ==
    /\ s # greet /\ IsConnected(s)
    /\ KnowsId(seat[s]) /\ seat[s] \notin logged
    /\ logged' = logged \cup {seat[s]}
    /\ earlier' = [earlier EXCEPT ![seat[s]] = logged]
    /\ players' = [players EXCEPT ![s] = IF @ = NoConn THEN seat[s] ELSE @]
    /\ IF players[s] = NoConn
       THEN PushBroadcast("Login", s, seat[s], TRUE)
       ELSE UNCHANGED <<bcQue, count>>
    /\ SendLoginedPlayerPackets(s, players')
    /\ UNCHANGED <<seat, used, peer, greet, netVars, sndVars, bcVars, present>>

RecvLoginPacket(s) ==
    /\ s # greet /\ IsConnected(s)
    /\ KnowsId(seat[s]) /\ seat[s] \notin logged
    /\ logged' = logged \cup {seat[s]}
    /\ earlier' = [earlier EXCEPT ![seat[s]] = logged]
    /\ players' = [players EXCEPT ![s] = IF @ = NoConn THEN seat[s] ELSE @]
    /\ PushBroadcast("Login", s, seat[s], TRUE)
    /\ SendLoginedPlayerPackets(s, players')
    /\ UNCHANGED <<seat, used, peer, greet, netVars, sndVars, bcVars, present>>

Relay(s, isReliable) ==
    /\ s # greet /\ IsConnected(s)
    /\ seat[s] \in logged
    /\ PushBroadcast("State", s, NoConn, isReliable)
    /\ UNCHANGED <<players, sendQue, seatVars, netVars, sndVars, bcVars, present>>

RecvFireEventPacket(s) == Relay(s, FALSE)
RecvMovementPacket(s)  == Relay(s, FALSE)
RecvAnimPacket(s)      == Relay(s, FALSE)
RecvWeaponPacket(s)    == Relay(s, TRUE)

-----------------------------------------------------------------------------
(* SendPendingPacket: WSASend fails on INVALID_SOCKET and on a connection   *)
(* that has ended, and with WSAEWOULDBLOCK when the send buffer is full.    *)

Accepts(s) == IsConnected(s) /\ peer[seat[s]] = "open" /\ unread[seat[s]] < OutCap

Give(s, packet) ==
    /\ given'  = [given EXCEPT ![seat[s]] = Append(@, packet)]
    /\ unread' = [unread EXCEPT ![seat[s]] = @ + 1]

\* GetPendingPacket and SendPacket up to the look at IsConnected: a packet for
\* an empty slot is dropped.  (Only this thread takes from the queue, so that
\* nothing can tell the two apart.)
SendTake ==
    /\ sndPc = "idle" /\ sendQue # <<>>
    /\ sendQue' = Tail(sendQue)
    /\ IF IsConnected(Head(sendQue).index)
       THEN sndPc' = "call" /\ sndPkt' = Head(sendQue)
       ELSE UNCHANGED <<sndPc, sndPkt>>
    /\ UNCHANGED <<missed, players, bcQue, count, seatVars, netVars, bcVars, present>>

\* Faulty variant: a packet is tried again until it is accepted.
SendCall_Retries ==
    /\ sndPc = "call"
    /\ IF Accepts(sndPkt.index)
       THEN /\ Give(sndPkt.index, sndPkt)
            /\ sndPc' = "idle" /\ sndPkt' = NoPacket
       ELSE UNCHANGED <<sndPc, sndPkt, netVars>>
    /\ UNCHANGED <<missed, seatVars, queueVars, bcVars, present>>

\* The rest of SendPacket: nobody looks at its result.
SendCall ==
    /\ sndPc = "call"
    /\ IF Accepts(sndPkt.index)
       THEN Give(sndPkt.index, sndPkt) /\ UNCHANGED missed
       ELSE missed' = missed \cup ({seat[sndPkt.index]} \ {NoConn}) /\ UNCHANGED netVars
    /\ sndPc' = "idle" /\ sndPkt' = NoPacket
    /\ UNCHANGED <<seatVars, queueVars, bcVars, present>>

\* GetPendingBCPacket and the start of the loop of SendPacketBroadCast.
BroadcastTake ==
    /\ bcPc = "idle" /\ bcQue # <<>>
    /\ bcPkt' = Head(bcQue)
    /\ bcQue' = Tail(bcQue)
    /\ bcAt' = 0 /\ bcPc' = "check"
    /\ present' = {seat[s] : s \in Slot} \ {NoConn}
    /\ UNCHANGED <<players, sendQue, count, seatVars, netVars, sndVars>>

\* Faulty variant: the index is advanced twice.
BroadcastSkip_ByTwo ==
    /\ bcPc = "check" /\ bcAt \in Slot
    /\ ~IsConnected(bcAt) \/ bcPkt.index = bcAt
    /\ bcAt' = bcAt + 2
    /\ UNCHANGED <<bcPc, bcPkt, seatVars, queueVars, netVars, sndVars, present>>

BroadcastSkip ==
    /\ bcPc = "check" /\ bcAt \in Slot
    /\ ~IsConnected(bcAt) \/ bcPkt.index = bcAt
    /\ bcAt' = bcAt + 1
    /\ UNCHANGED <<bcPc, bcPkt, seatVars, queueVars, netVars, sndVars, present>>

BroadcastPick ==
    /\ bcPc = "check" /\ bcAt \in Slot
    /\ IsConnected(bcAt) /\ bcPkt.index # bcAt
    /\ bcPc' = "call"
    /\ UNCHANGED <<bcPkt, bcAt, seatVars, queueVars, netVars, sndVars, present>>

\* Faulty variant: a failed send is never tried again.
BroadcastCall_NoRetry ==
    /\ bcPc = "call"
    /\ IF Accepts(bcAt) THEN Give(bcAt, bcPkt) ELSE UNCHANGED netVars
    /\ bcAt' = bcAt + 1
    /\ bcPc' = "check"
    /\ UNCHANGED <<bcPkt, seatVars, queueVars, sndVars, present>>

\* Faulty variant: a failed reliable send starts the loop over.
BroadcastCall_FromStart ==
    /\ bcPc = "call"
    /\ IF Accepts(bcAt)
       THEN Give(bcAt, bcPkt) /\ bcAt' = bcAt + 1
       ELSE /\ bcAt' = IF bcPkt.reliable THEN 0 ELSE bcAt + 1
            /\ UNCHANGED netVars
    /\ bcPc' = "check"
    /\ UNCHANGED <<bcPkt, seatVars, queueVars, sndVars, present>>

\* A failed reliable send leaves i as it is, and the loop comes back to the slot.
BroadcastCall ==
    /\ bcPc = "call"
    /\ IF Accepts(bcAt)
       THEN Give(bcAt, bcPkt) /\ bcAt' = bcAt + 1
       ELSE /\ bcAt' = IF bcPkt.reliable THEN bcAt ELSE bcAt + 1
            /\ UNCHANGED netVars
    /\ bcPc' = "check"
    /\ UNCHANGED <<bcPkt, seatVars, queueVars, sndVars, present>>

BroadcastDone ==
    /\ bcPc = "check" /\ bcAt = CLIENT_MAX
    /\ bcPc' = "idle" /\ bcPkt' = NoPacket /\ bcAt' = 0
    /\ present' = {}
    /\ UNCHANGED <<seatVars, queueVars, netVars, sndVars>>

-----------------------------------------------------------------------------
Handler(s) ==
    \/ RecvLoginPacket(s) \/ RecvFireEventPacket(s) \/ RecvMovementPacket(s)
    \/ RecvAnimPacket(s) \/ RecvWeaponPacket(s)

SendThread == SendTake \/ SendCall

SendBroadCastThread ==
    BroadcastTake \/ BroadcastSkip \/ BroadcastPick \/ BroadcastCall \/ BroadcastDone

Next ==
    \/ \E s \in Slot : LeaveSeat(s) \/ Handler(s) \/ \E c \in Conn : TakeSeat(s, c)
    \/ \E c \in Conn : PeerEnds(c) \/ PeerReads(c)
    \/ OnConnected
    \/ SendThread
    \/ SendBroadCastThread

Spec == Init /\ [][Next]_vars

-----------------------------------------------------------------------------
Got(c, n) == \E i \in DOMAIN given[c] : given[c][i].no = n

\* While a reliable packet is broadcast, every client that was in a slot when
\* the loop began and still is has been given it as soon as the loop is past its
\* slot, whatever failed, ended or came in between.
ReliableHandedOver ==
    bcPc # "idle" /\ bcPkt.reliable =>
        \A s \in 0 .. bcAt - 1 :
            seat[s] \in present /\ s # bcPkt.index => Got(seat[s], bcPkt.no)

\* A client is given the broadcasts in the order the handlers queued them, none
\* of them twice, retries included; so it sees the packets of each other client
\* in that client's order.
BroadcastInOrder ==
    \A c \in Conn : \A i, j \in DOMAIN given[c] :
        i < j /\ given[c][i].no > 0 /\ given[c][j].no > 0 => given[c][i].no < given[c][j].no

\* packet is the broadcast of the login of the client that is now in slot t.
Announces(packet, t) ==
    packet.kind = "Login" /\ packet.no > 0 /\ packet.about = t /\ packet.info = seat[t]

\* packet was made for the client now in slot s, at its own login, about slot t.
Tells(packet, s, t) ==
    packet.kind = "Login" /\ packet.to = seat[s] /\ packet.about = t /\ packet.info = players[t]

\* Every client that had logged in before another one did has been given the
\* broadcast of the other's login, or it is on its way, while both stay: a Login of an
\* earlier client of the other's slot does not count.
EarlierAreTold ==
    \A s, t \in Slot :
        s # t /\ {seat[s], seat[t]} \subseteq logged /\ seat[t] \notin earlier[seat[s]] =>
            \/ \E i \in DOMAIN given[seat[s]] : Announces(given[seat[s]][i], t)
            \/ \E i \in DOMAIN bcQue : Announces(bcQue[i], t)
            \/ bcPc # "idle" /\ Announces(bcPkt, t) /\ bcAt <= s

\* A client that logs in has been given what is stored for the slot of every client
\* that had logged in before, or it is on its way, while both stay, unless SendThread
\* lost a packet for it: what was made for an earlier client of its own slot, or was
\* broadcast while it had not logged in, does not count.
NewcomerIsTold ==
    \A s, t \in Slot :
        s # t /\ {seat[s], seat[t]} \subseteq logged /\ seat[t] \in earlier[seat[s]] =>
            \/ seat[s] \in missed
            \/ \E i \in DOMAIN given[seat[s]] : Tells(given[seat[s]][i], s, t)
            \/ \E i \in DOMAIN sendQue : sendQue[i].index = s /\ Tells(sendQue[i], s, t)
            \/ sndPc # "idle" /\ sndPkt.index = s /\ Tells(sndPkt, s, t)

-----------------------------------------------------------------------------
\* What matters of a packet to Broadcasts.
Numbered(p) == [no |-> p.no, index |-> p.index, reliable |-> p.reliable]

Broadcasting == bcPc # "idle"

\* The variables of Broadcasts: the packets that wait, the one that is broadcast,
\* the clients the loop has still to come to, the numbers a client has been given.
Pending == [i \in DOMAIN bcQue |-> Numbered(bcQue[i])]
Current == IF Broadcasting THEN Numbered(bcPkt) ELSE [no |-> 0]
Todo    == IF Broadcasting
           THEN {seat[s] : s \in {t \in Slot : t >= bcAt /\ t # bcPkt.index}} \ {NoConn}
           ELSE {}
GotNos  == [c \in Conn |-> {given[c][i].no : i \in DOMAIN given[c]} \ {0}]

Broadcasts == INSTANCE Broadcasts WITH
    queued <- count, pending <- Pending, current <- Current, todo <- Todo, got <- GotNos

\* The loop over the slots, with clients coming and going under it, slots that
\* change hands and sends tried again in place, does what Broadcasts says: each
\* packet once at most to each client, never to its sender's slot, and a reliable
\* one to all who stay before the next one begins.
ImplementsBroadcasts == Broadcasts!Spec

-----------------------------------------------------------------------------
(* Fairness: the two send threads run, a worker empties the slot of a       *)
(* broken connection, AcceptThread greets whom it has accepted, and a       *)
(* client that is there reads.                                              *)
FairSpec ==
    /\ Spec
    /\ WF_vars(SendThread)
    /\ WF_vars(SendBroadCastThread)
    /\ WF_vars(OnConnected)
    /\ \A s \in Slot : WF_vars(LeaveSeat(s))
    /\ \A c \in Conn : WF_vars(PeerReads(c))

\* Broadcast n waits, or is on its way and has not reached c's slot.
IsDue(n, c) ==
    \E s \in Slot :
        /\ seat[s] = c
        /\ \/ \E i \in DOMAIN bcQue : bcQue[i].no = n /\ bcQue[i].reliable /\ bcQue[i].index # s
           \/ bcPc # "idle" /\ bcPkt.no = n /\ bcPkt.reliable /\ bcPkt.index # s /\ bcAt <= s

SomeoneLost == \E s \in Slot : seat[s] # NoConn /\ peer[seat[s]] = "lost"

\* Every reliable broadcast due to a client reaches it, through full send
\* buffers and ended connections, unless the client's own connection ends or
\* some slot is held by a client that has gone unnoticed.
ReliableReachesAll ==
    \A c \in Conn : \A n \in 1 .. MaxBroadcasts :
        IsDue(n, c) ~> Got(c, n) \/ peer[c] # "open" \/ SomeoneLost

\* A client learns its id: its Conn packet goes its own way, and neither a
\* broadcast that is stuck nor a client that is gone keeps it from it.
ClientLearnsId ==
    \A c \in Conn :
        (\E s \in Slot : seat[s] = c) ~> KnowsId(c) \/ peer[c] # "open" \/ c \in missed

-----------------------------------------------------------------------------
(* What the repository says of the program and the program does not do.     *)

\* README.md:18, "SendBroadCastThread sends to all clients": a client that stays
\* and reads is given every reliable packet, whatever other clients do.
BroadcastReachesAll ==
    \A c \in Conn : \A n \in 1 .. MaxBroadcasts :
        IsDue(n, c) ~> Got(c, n) \/ peer[c] # "open"

\* IOCPServer.cpp:527, "store the initial location of the player": for a client
\* that has logged in, ConnectedPlayers holds its own.
StoresOwnLocation == \A s \in Slot : seat[s] \in logged => players[s] = seat[s]
=============================================================================
