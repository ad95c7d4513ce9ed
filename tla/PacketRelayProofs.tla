-------------------------- MODULE PacketRelayProofs --------------------------
(***************************************************************************)
(* Safety of PacketRelay for every number of slots, clients and packets    *)
(* and for send buffers of every length.  IInv is the inductive            *)
(* strengthening of the invariants of PacketRelay; BroadcastsRefinement    *)
(* rests on it too.                                                        *)
(***************************************************************************)
EXTENDS PacketRelay, FiniteSetTheorems, SequenceFacts

\* The send threads have a packet exactly while they send it, and the one that
\* broadcasts is at a slot other than the sender's when it calls WSASend.
ThreadInv ==
    /\ bcPc = "idle" => bcPkt = NoPacket /\ bcAt = 0 /\ present = {}
    /\ bcPc # "idle" => bcPkt \in Packet
    /\ bcPc = "call" => bcAt \in Slot /\ bcPkt.index # bcAt
    /\ sndPc = "call" => sndPkt \in Packet

\* A connection is in one slot at most, and whoever was ever sent anything, has
\* logged in or is counted in a broadcast is no newcomer to the slots.
SeatInv ==
    /\ \A s \in Slot : IsConnected(s) => seat[s] \in used
    /\ \A s, t \in Slot : IsConnected(s) /\ seat[s] = seat[t] => s = t
    /\ logged \subseteq used /\ present \subseteq used
    /\ \A c \in Conn : given[c] # <<>> => c \in used

\* Broadcasts are numbered in the order of the queue; other packets have no number.
QueueInv ==
    /\ \A i \in DOMAIN bcQue : bcQue[i].no \in 1 .. count
    /\ \A i, j \in DOMAIN bcQue : i < j => bcQue[i].no < bcQue[j].no
    /\ bcPc # "idle" => /\ bcPkt.no \in 1 .. count
                        /\ \A i \in DOMAIN bcQue : bcPkt.no < bcQue[i].no
    /\ \A i \in DOMAIN sendQue : sendQue[i].no = 0
    /\ sndPc = "call" => sndPkt.no = 0

\* What clients have been given comes before what waits, and before what is being
\* broadcast but for those clients whose slot the loop has passed.
GivenInv ==
    \A c \in Conn : \A i \in DOMAIN given[c] :
        /\ given[c][i].no <= count
        /\ \A k \in DOMAIN bcQue : given[c][i].no < bcQue[k].no
        /\ bcPc # "idle" =>
              /\ given[c][i].no <= bcPkt.no
              /\ given[c][i].no = bcPkt.no => \A s \in Slot : seat[s] = c => s < bcAt

\* A Login is broadcast reliably and about its sender, whose location is stored; who
\* had logged in before someone has logged in.
LoginInv ==
    /\ \A i \in DOMAIN bcQue :
          bcQue[i].kind = "Login" => bcQue[i].reliable /\ bcQue[i].index = bcQue[i].about
    /\ bcPc # "idle" /\ bcPkt.kind = "Login" => bcPkt.reliable /\ bcPkt.index = bcPkt.about
    /\ \A s \in Slot : seat[s] \in logged => players[s] # NoConn
    /\ \A c \in Conn : earlier[c] \subseteq logged

\* Where the broadcast may be that announces the client in slot t to the one in slot s.
HasHeard(s, t) == \E i \in DOMAIN given[seat[s]] : Announces(given[seat[s]][i], t)
InBcQue(t)     == \E i \in DOMAIN bcQue : Announces(bcQue[i], t)
InBroadcast(s, t) == bcPc # "idle" /\ Announces(bcPkt, t) /\ bcAt <= s

Announced(s, t) == HasHeard(s, t) \/ InBcQue(t) \/ InBroadcast(s, t)

\* Where the packet may be that tells the client in slot s about slot t.
HasRead(s, t)   == \E i \in DOMAIN given[seat[s]] : Tells(given[seat[s]][i], s, t)
InSendQue(s, t) == \E i \in DOMAIN sendQue : sendQue[i].index = s /\ Tells(sendQue[i], s, t)
InSend(s, t)    == sndPc # "idle" /\ sndPkt.index = s /\ Tells(sndPkt, s, t)

Told(s, t) == seat[s] \in missed \/ HasRead(s, t) \/ InSendQue(s, t) \/ InSend(s, t)

\* The inductive invariant of PacketRelay.
IInv ==
    /\ TypeOK /\ ThreadInv /\ SeatInv /\ QueueInv /\ GivenInv /\ LoginInv
    /\ ReliableHandedOver /\ BroadcastInOrder /\ EarlierAreTold /\ NewcomerIsTold

\* IInv but for the types.
Rest ==
    /\ ThreadInv /\ SeatInv /\ QueueInv /\ GivenInv /\ LoginInv
    /\ ReliableHandedOver /\ BroadcastInOrder /\ EarlierAreTold /\ NewcomerIsTold

USE ConstantsAssumption
USE DEF Slot, NoSlot, IsConnected, seatVars, queueVars, netVars, sndVars, bcVars

-----------------------------------------------------------------------------
(* Lemmas about the operators of PacketRelay.                               *)

\* NoPacket is not taken for a packet.
LEMMA NoPacketFacts == NoPacket \notin Packet
  BY DEF NoPacket, Packet

\* A broadcast fails only on a slot that does not accept it, and what accepts it
\* is a connection with room.
LEMMA AcceptsFacts ==
    ASSUME TypeOK, NEW s \in Slot, Accepts(s)
    PROVE  seat[s] \in Conn /\ unread[seat[s]] \in 0 .. OutCap - 1
  BY DEF TypeOK, Accepts

\* Give adds the packet to what the client in the slot has been given.
LEMMA GiveFacts ==
    ASSUME TypeOK, NEW s \in Slot, Accepts(s), NEW p \in Packet, Give(s, p)
    PROVE  /\ given' \in [Conn -> Seq(Packet)] /\ unread' \in [Conn -> 0 .. OutCap]
           /\ given'[seat[s]] = Append(given[seat[s]], p)
           /\ \A c \in Conn : c # seat[s] => given'[c] = given[c]
<1>1. seat[s] \in Conn /\ unread[seat[s]] \in 0 .. OutCap - 1
  BY AcceptsFacts
<1>2. Append(given[seat[s]], p) \in Seq(Packet)
  BY <1>1 DEF TypeOK
<1>3. unread[seat[s]] + 1 \in 0 .. OutCap
  BY <1>1
<1> QED BY <1>1, <1>2, <1>3 DEF TypeOK, Give

\* A set of slots is finite.
LEMMA SlotSets ==
    ASSUME NEW S \in SUBSET Slot
    PROVE  IsFiniteSet(S) /\ Cardinality(S) \in Nat
<1>1. IsFiniteSet(Slot)
  BY FS_Interval
<1>2. IsFiniteSet(S)
  BY <1>1, FS_Subset
<1> QED BY <1>2, FS_CardinalityType

\* An order of a set of slots is a sequence of them in which none is left out.
LEMMA OrdersFacts ==
    ASSUME NEW S \in SUBSET Slot, NEW q \in Orders(S)
    PROVE  /\ q \in Seq(S) /\ DOMAIN q = 1 .. Len(q) /\ Len(q) \in Nat
           /\ \A s \in S : \E i \in DOMAIN q : q[i] = s
<1> DEFINE n == Cardinality(S)
<1>1. IsFiniteSet(S) /\ n \in Nat
  BY SlotSets
<1>2. q \in [1 .. n -> S] /\ \A i, j \in 1 .. n : q[i] = q[j] => i = j
  BY DEF Orders
<1>3. q \in Seq(S) /\ DOMAIN q = 1 .. Len(q) /\ Len(q) \in Nat /\ DOMAIN q = 1 .. n
  BY <1>1, <1>2
<1>4. q \in Injection(1 .. n, S)
  BY <1>2 DEF Injection, IsInjective
<1>5. Cardinality(1 .. n) = n
  BY <1>1, FS_Interval
<1>6. q \in Surjection(1 .. n, S)
  BY <1>1, <1>4, <1>5, FS_Injection
<1>7. \A s \in S : \E i \in 1 .. n : q[i] = s
  BY <1>6 DEF Surjection
<1> QED BY <1>3, <1>7

\* A broadcast is put at the end of its queue and counted.
LEMMA PushFacts ==
    ASSUME TypeOK, NEW kind \in {"Login", "State"}, NEW s \in Slot,
           NEW who \in Conn \cup {NoConn}, NEW rel \in BOOLEAN, PushBroadcast(kind, s, who, rel)
    PROVE  \E p \in Packet :
               /\ p.kind = kind /\ p.index = s /\ p.about = s /\ p.info = who
               /\ p.reliable = rel /\ p.no = count + 1
               /\ count' = count + 1 /\ count' \in Nat
               /\ bcQue' = Append(bcQue, p) /\ bcQue' \in Seq(Packet)
<1> DEFINE p == [kind |-> kind, index |-> s, about |-> s, info |-> who,
                 reliable |-> rel, no |-> count + 1, to |-> NoConn]
<1>1. p \in Packet
  BY DEF Packet, TypeOK
<1>2. bcQue' = Append(bcQue, p) /\ count' = count + 1 /\ count' \in Nat
  BY DEF PushBroadcast, TypeOK
<1>3. bcQue' \in Seq(Packet)
  BY <1>1, <1>2 DEF TypeOK
<1> QED BY <1>1, <1>2, <1>3

\* Packets for target about every stored player but target itself, and no others.
AboutAllOthers(add, target, stored) ==
    /\ \A i \in DOMAIN add : /\ add[i].kind = "Login" /\ add[i].index = target
                             /\ add[i].no = 0 /\ add[i].to = seat[target]
    /\ \A s \in Slot \ {target} : stored[s] # NoConn =>
          \E i \in DOMAIN add : add[i].about = s /\ add[i].info = stored[s]

\* SendLoginedPlayerPackets adds such packets to the queue.
LEMMA LoginedFacts ==
    ASSUME TypeOK, NEW target \in Slot, NEW stored \in [Slot -> Conn \cup {NoConn}],
           SendLoginedPlayerPackets(target, stored)
    PROVE  \E add \in Seq(Packet) :
               /\ sendQue' = sendQue \o add /\ sendQue' \in Seq(Packet)
               /\ AboutAllOthers(add, target, stored)
<1> DEFINE S == {s \in Slot : stored[s] # NoConn} \ {target}
           packet(s) == [kind |-> "Login", index |-> target, about |-> s,
                         info |-> stored[s], reliable |-> FALSE, no |-> 0,
                         to |-> seat[target]]
<1>1. S \in SUBSET Slot
  OBVIOUS
<1>2. PICK q \in Orders(S) : sendQue' = sendQue \o [i \in DOMAIN q |-> packet(q[i])]
  BY DEF SendLoginedPlayerPackets
<1>3. /\ q \in Seq(S) /\ DOMAIN q = 1 .. Len(q) /\ Len(q) \in Nat
      /\ \A s \in S : \E i \in DOMAIN q : q[i] = s
  BY <1>1, OrdersFacts
<1> DEFINE add == [i \in DOMAIN q |-> packet(q[i])]
<1>4. \A s \in S : packet(s) \in Packet
  BY DEF Packet, TypeOK
<1>5. \A i \in DOMAIN q : q[i] \in S
  BY <1>3
<1>6. add \in Seq(Packet)
  BY <1>3, <1>4, <1>5
<1>7. sendQue' \in Seq(Packet)
  BY <1>2, <1>6, ConcatFacts DEF TypeOK
<1>8. \A i \in DOMAIN add : /\ add[i].kind = "Login" /\ add[i].index = target
                             /\ add[i].no = 0 /\ add[i].to = seat[target]
  OBVIOUS
<1>9. \A s \in Slot \ {target} : stored[s] # NoConn =>
          \E i \in DOMAIN add : add[i].about = s /\ add[i].info = stored[s]
  BY <1>3
<1>10. AboutAllOthers(add, target, stored)
  BY <1>8, <1>9 DEF AboutAllOthers
<1> HIDE DEF add
<1> QED BY <1>2, <1>6, <1>7, <1>10 DEF add
-----------------------------------------------------------------------------
(* The invariant holds initially, and each step keeps TypeOK.               *)

\* An empty server satisfies it.
LEMMA InitIInv == Init => IInv
<1> SUFFICES ASSUME Init PROVE IInv
  OBVIOUS
<1>1. TypeOK
  BY DEF Init, TypeOK, Seats!Init, Seats!Slot, PeerState
<1>2. ThreadInv /\ QueueInv /\ GivenInv
  BY DEF Init, ThreadInv, QueueInv, GivenInv
<1>3. SeatInv /\ LoginInv
  BY DEF Init, Seats!Init, Seats!Slot, SeatInv, LoginInv
<1>4. ReliableHandedOver /\ BroadcastInOrder /\ EarlierAreTold /\ NewcomerIsTold
  BY DEF Init, ReliableHandedOver, BroadcastInOrder, EarlierAreTold, NewcomerIsTold
<1> QED BY <1>1, <1>2, <1>3, <1>4 DEF IInv

\* Every type conjunct is about one variable: it is enough to look at those that change.
LEMMA TypeStep == TypeOK /\ ThreadInv /\ [Next]_vars => TypeOK'
<1> SUFFICES ASSUME TypeOK, ThreadInv, [Next]_vars PROVE TypeOK'
  OBVIOUS
<1>1. CASE UNCHANGED vars
  BY <1>1 DEF vars, TypeOK
<1>2. ASSUME NEW s \in Slot, NEW c \in Conn, TakeSeat(s, c) PROVE TypeOK'
  BY <1>2 DEF TypeOK, TakeSeat, Seats!Take, PeerState
<1>3. ASSUME NEW s \in Slot, LeaveSeat(s) PROVE TypeOK'
  BY <1>3 DEF TypeOK, LeaveSeat, Seats!Leave
<1>4. ASSUME NEW c \in Conn, PeerEnds(c) PROVE TypeOK'
  BY <1>4 DEF TypeOK, PeerEnds, PeerState
<1>5. ASSUME NEW c \in Conn, PeerReads(c) PROVE TypeOK'
  BY <1>5 DEF TypeOK, PeerReads
<1>6. CASE OnConnected
  <2> DEFINE p == [kind |-> "Conn", index |-> greet, about |-> greet,
                   info |-> NoConn, reliable |-> FALSE, no |-> 0, to |-> seat[greet]]
  <2>1. p \in Packet
    BY <1>6 DEF OnConnected, TypeOK, Packet
  <2>2. sendQue' \in Seq(Packet)
    BY <1>6, <2>1, AppendFacts DEF OnConnected, TypeOK
  <2> QED BY <1>6, <2>2 DEF OnConnected, TypeOK
<1>7. ASSUME NEW s \in Slot, RecvLoginPacket(s) PROVE TypeOK'
  <2>1. /\ seat[s] \in Conn /\ PushBroadcast("Login", s, seat[s], TRUE)
        /\ players' = [players EXCEPT ![s] = IF @ = NoConn THEN seat[s] ELSE @]
        /\ logged' = logged \cup {seat[s]} /\ earlier' = [earlier EXCEPT ![seat[s]] = logged]
        /\ SendLoginedPlayerPackets(s, players')
        /\ UNCHANGED <<seat, used, peer, greet, netVars, sndVars, bcVars, present>>
    BY <1>7 DEF RecvLoginPacket, TypeOK
  <2>2. players' \in [Slot -> Conn \cup {NoConn}]
    BY <2>1 DEF TypeOK
  <2>3. bcQue' \in Seq(Packet) /\ count' \in Nat
    BY <2>1, PushFacts
  <2>4. sendQue' \in Seq(Packet)
    BY <2>1, <2>2, LoginedFacts
  <2> QED BY <2>1, <2>2, <2>3, <2>4 DEF TypeOK
<1>8. ASSUME NEW s \in Slot, NEW rel \in BOOLEAN, Relay(s, rel) PROVE TypeOK'
  <2>1. bcQue' \in Seq(Packet) /\ count' \in Nat
    BY <1>8, PushFacts DEF Relay
  <2> QED BY <1>8, <2>1 DEF Relay, TypeOK
<1>9. CASE SendTake
  <2>1. Tail(sendQue) \in Seq(Packet) /\ Head(sendQue) \in Packet
    BY <1>9, TailFacts DEF SendTake, TypeOK
  <2> QED BY <1>9, <2>1 DEF SendTake, TypeOK
<1>10. CASE SendCall
  <2>1. sndPkt \in Packet /\ sndPkt.index \in Slot
    BY <1>10 DEF SendCall, ThreadInv, Packet
  <2>2. given' \in [Conn -> Seq(Packet)] /\ unread' \in [Conn -> 0 .. OutCap]
    BY <1>10, <2>1, GiveFacts DEF SendCall, TypeOK
  <2>3. missed' \in SUBSET Conn
    BY <1>10, <2>1 DEF SendCall, TypeOK
  <2> QED BY <1>10, <2>2, <2>3 DEF SendCall, TypeOK
<1>11. CASE BroadcastTake
  <2>1. Tail(bcQue) \in Seq(Packet) /\ Head(bcQue) \in Packet
    BY <1>11, TailFacts DEF BroadcastTake, TypeOK
  <2> QED BY <1>11, <2>1 DEF BroadcastTake, TypeOK
<1>12. CASE BroadcastSkip
  BY <1>12 DEF BroadcastSkip, TypeOK
<1>13. CASE BroadcastPick
  BY <1>13 DEF BroadcastPick, TypeOK
<1>14. CASE BroadcastCall
  <2>1. bcPkt \in Packet /\ bcAt \in Slot
    BY <1>14 DEF BroadcastCall, ThreadInv
  <2>2. given' \in [Conn -> Seq(Packet)] /\ unread' \in [Conn -> 0 .. OutCap]
    BY <1>14, <2>1, GiveFacts DEF BroadcastCall, TypeOK
  <2>3. bcAt' \in 0 .. CLIENT_MAX
    BY <1>14, <2>1 DEF BroadcastCall
  <2> QED BY <1>14, <2>2, <2>3 DEF BroadcastCall, TypeOK
<1>15. CASE BroadcastDone
  BY <1>15 DEF BroadcastDone, TypeOK
<1> QED
  BY <1>1, <1>2, <1>3, <1>4, <1>5, <1>6, <1>7, <1>8, <1>9, <1>10, <1>11, <1>12, <1>13, <1>14, <1>15
     DEF Next, Handler, SendThread, SendBroadCastThread, RecvFireEventPacket, RecvMovementPacket,
         RecvAnimPacket, RecvWeaponPacket

-----------------------------------------------------------------------------
(* EarlierAreTold and NewcomerIsTold, by the places a packet may be in.     *)

\* Both, by these places.
LEMMA TellingDef ==
    /\ EarlierAreTold <=>
          \A s, t \in Slot :
              s # t /\ {seat[s], seat[t]} \subseteq logged /\ seat[t] \notin earlier[seat[s]]
                  => Announced(s, t)
    /\ NewcomerIsTold <=>
          \A s, t \in Slot :
              s # t /\ {seat[s], seat[t]} \subseteq logged /\ seat[t] \in earlier[seat[s]]
                  => Told(s, t)
  BY DEF EarlierAreTold, Announced, HasHeard, InBcQue, InBroadcast,
         NewcomerIsTold, Told, HasRead, InSendQue, InSend

\* A step that changes neither slots nor logins has to show for each pair of clients
\* that the broadcast is still somewhere.
LEMMA EarlierStep ==
    ASSUME EarlierAreTold, UNCHANGED <<seat, logged, earlier>>,
           \A s, t \in Slot :
               s # t /\ seat[s] \in logged /\ Announced(s, t) => Announced(s, t)'
    PROVE  EarlierAreTold'
<1>1. \A s, t \in Slot :
          s # t /\ {seat[s], seat[t]} \subseteq logged /\ seat[t] \notin earlier[seat[s]]
              => Announced(s, t)'
  BY TellingDef
<1>2. EarlierAreTold' <=>
        (\A s, t \in Slot :
            s # t /\ {seat[s], seat[t]} \subseteq logged /\ seat[t] \notin earlier[seat[s]]
                => Announced(s, t))'
  BY TellingDef, PTL
<1> QED BY <1>1, <1>2

\* And the same for the packets that SendThread sends.
LEMMA NewcomerStep ==
    ASSUME NewcomerIsTold, UNCHANGED <<seat, logged, earlier>>,
           \A s, t \in Slot :
               s # t /\ seat[s] \in logged /\ Told(s, t) => Told(s, t)'
    PROVE  NewcomerIsTold'
<1>1. \A s, t \in Slot :
          s # t /\ {seat[s], seat[t]} \subseteq logged /\ seat[t] \in earlier[seat[s]]
              => Told(s, t)'
  BY TellingDef
<1>2. NewcomerIsTold' <=>
        (\A s, t \in Slot :
            s # t /\ {seat[s], seat[t]} \subseteq logged /\ seat[t] \in earlier[seat[s]]
                => Told(s, t))'
  BY TellingDef, PTL
<1> QED BY <1>1, <1>2

\* EarlierAreTold is about what clients have been given and about broadcasts only.
LEMMA EarlierFrame ==
    ASSUME EarlierAreTold, UNCHANGED <<seat, logged, earlier, given, bcQue, bcVars>>
    PROVE  EarlierAreTold'
  BY DEF EarlierAreTold, Announces

\* NewcomerIsTold is about what clients have been given and about SendThread only.
LEMMA NewcomerFrame ==
    ASSUME NewcomerIsTold,
           UNCHANGED <<seat, logged, earlier, players, given, sendQue, sndVars>>
    PROVE  NewcomerIsTold'
  BY DEF NewcomerIsTold, Tells

-----------------------------------------------------------------------------
(* Steps that concern no invariant but the types.                           *)

\* The clients' own steps, and the greeting.
LEMMA PeerStep ==
    ASSUME IInv,
           UNCHANGED <<seat, used, logged, earlier, queueVars, given, sndVars, bcVars, present>>
    PROVE  Rest'
<1>1. ThreadInv' /\ SeatInv' /\ QueueInv' /\ GivenInv' /\ LoginInv'
  BY DEF IInv, ThreadInv, SeatInv, QueueInv, GivenInv, LoginInv
<1>2. ReliableHandedOver' /\ BroadcastInOrder'
  BY DEF IInv, ReliableHandedOver, BroadcastInOrder, Got
<1>3. EarlierAreTold' /\ NewcomerIsTold'
  BY EarlierFrame, NewcomerFrame DEF IInv
<1> QED BY <1>1, <1>2, <1>3 DEF Rest

\* BroadcastPick only moves bcPc on, to a slot it has looked at.
LEMMA PickStep ==
    ASSUME IInv, BroadcastPick
    PROVE  Rest'
<1>1. /\ bcPc = "check" /\ bcPc' = "call" /\ bcAt \in Slot /\ bcPkt.index # bcAt
      /\ UNCHANGED <<bcPkt, bcAt, seatVars, queueVars, netVars, sndVars, present>>
  BY DEF BroadcastPick
<1>2. ThreadInv' /\ SeatInv' /\ QueueInv' /\ GivenInv' /\ LoginInv'
  BY <1>1 DEF IInv, ThreadInv, SeatInv, QueueInv, GivenInv, LoginInv
<1>3. ReliableHandedOver' /\ BroadcastInOrder'
  BY <1>1 DEF IInv, ReliableHandedOver, BroadcastInOrder, Got
<1>4. EarlierAreTold' /\ NewcomerIsTold'
  <2>1. EarlierAreTold'
    BY <1>1 DEF IInv, EarlierAreTold, Announces
  <2>2. NewcomerIsTold'
    BY <1>1, NewcomerFrame DEF IInv
  <2> QED BY <2>1, <2>2
<1> QED BY <1>2, <1>3, <1>4 DEF Rest

-----------------------------------------------------------------------------
(* Clients come and go.                                                     *)

\* A client that comes was never seen before: nothing is said of it.
LEMMA TakeSeatStep ==
    ASSUME IInv, NEW s \in Slot, NEW c \in Conn, TakeSeat(s, c)
    PROVE  Rest'
<1>1. /\ c \notin used /\ seat[s] = NoConn /\ c # NoConn /\ used' = used \cup {c}
      /\ seat'[s] = c /\ \A t \in Slot \ {s} : seat'[t] = seat[t]
      /\ UNCHANGED <<logged, earlier, queueVars, netVars, sndVars, bcVars, present>>
  BY DEF IInv, TypeOK, TakeSeat, Seats!Take
<1>2. /\ c \notin logged /\ c \notin present /\ given[c] = <<>>
      /\ \A t \in Slot : seat[t] # c
  BY <1>1 DEF IInv, SeatInv
<1>3. ThreadInv' /\ QueueInv'
  BY <1>1 DEF IInv, ThreadInv, QueueInv
<1>4. SeatInv'
  BY <1>1, <1>2 DEF IInv, SeatInv
<1>5. GivenInv'
  BY <1>1, <1>2 DEF IInv, GivenInv
<1>6. LoginInv'
  BY <1>1, <1>2 DEF IInv, LoginInv
<1>7. ReliableHandedOver' /\ BroadcastInOrder'
  <2>1. BroadcastInOrder'
    BY <1>1 DEF IInv, BroadcastInOrder
  <2>2. \A t \in Slot : seat'[t] \in present' => seat'[t] = seat[t] /\ seat[t] \in present
    BY <1>1, <1>2
  <2>3. 0 .. bcAt - 1 \subseteq Slot
    BY DEF IInv, TypeOK
  <2>4. ReliableHandedOver'
    BY <1>1, <2>2, <2>3 DEF IInv, ReliableHandedOver, Got
  <2> QED BY <2>1, <2>4
<1>8. EarlierAreTold' /\ NewcomerIsTold'
  <2>1. EarlierAreTold'
    BY <1>1, <1>2 DEF IInv, EarlierAreTold, Announces
  <2>2. NewcomerIsTold'
    BY <1>1, <1>2 DEF IInv, NewcomerIsTold, Tells
  <2> QED BY <2>1, <2>2
<1> QED BY <1>3, <1>4, <1>5, <1>6, <1>7, <1>8 DEF Rest

\* Of a client that leaves nothing is said any more.
LEMMA LeaveSeatStep ==
    ASSUME IInv, NEW s \in Slot, LeaveSeat(s)
    PROVE  Rest'
<1>1. /\ seat'[s] = NoConn /\ \A t \in Slot \ {s} : seat'[t] = seat[t]
      /\ used' = used /\ present' \subseteq present
      /\ present' = present \ {seat[s]}
      /\ UNCHANGED <<logged, earlier, queueVars, netVars, sndVars, bcVars>>
  BY DEF IInv, TypeOK, LeaveSeat, Seats!Leave
<1>2. NoConn \notin logged /\ NoConn \notin present
  BY DEF IInv, TypeOK
<1>3. ThreadInv' /\ QueueInv'
  BY <1>1 DEF IInv, ThreadInv, QueueInv
<1>4. SeatInv'
  BY <1>1, <1>2 DEF IInv, SeatInv
<1>5. GivenInv'
  BY <1>1, <1>2 DEF IInv, GivenInv
<1>6. LoginInv'
  BY <1>1, <1>2 DEF IInv, LoginInv
<1>7. ReliableHandedOver' /\ BroadcastInOrder'
  <2>1. BroadcastInOrder'
    BY <1>1 DEF IInv, BroadcastInOrder
  <2>2. \A t \in Slot : seat'[t] \in present' => seat'[t] = seat[t] /\ seat[t] \in present
    BY <1>1, <1>2
  <2>3. 0 .. bcAt - 1 \subseteq Slot
    BY DEF IInv, TypeOK
  <2>4. ReliableHandedOver'
    BY <1>1, <2>2, <2>3 DEF IInv, ReliableHandedOver, Got
  <2> QED BY <2>1, <2>4
<1>8. EarlierAreTold' /\ NewcomerIsTold'
  <2>1. EarlierAreTold'
    BY <1>1, <1>2 DEF IInv, EarlierAreTold, Announces
  <2>2. NewcomerIsTold'
    BY <1>1, <1>2 DEF IInv, NewcomerIsTold, Tells
  <2> QED BY <2>1, <2>2
<1> QED BY <1>3, <1>4, <1>5, <1>6, <1>7, <1>8 DEF Rest
-----------------------------------------------------------------------------
(* SendThread and the packets for one client.                               *)

\* The Conn packet has no number and tells nobody of another client.
LEMMA OnConnectedStep ==
    ASSUME IInv, OnConnected
    PROVE  Rest'
<1> DEFINE p == [kind |-> "Conn", index |-> greet, about |-> greet,
                 info |-> NoConn, reliable |-> FALSE, no |-> 0, to |-> seat[greet]]
<1>1. /\ sendQue' = Append(sendQue, p) /\ p.no = 0
      /\ UNCHANGED <<seat, used, peer, logged, earlier, players, bcQue, count, netVars, sndVars,
                     bcVars, present>>
  BY DEF OnConnected
<1>2. p \in Packet /\ sendQue \in Seq(Packet)
  BY DEF OnConnected, IInv, TypeOK, Packet
<1> HIDE DEF p
<1>3. /\ DOMAIN sendQue = 1 .. Len(sendQue) /\ Len(sendQue) \in Nat
      /\ DOMAIN sendQue' = 1 .. Len(sendQue) + 1
      /\ \A i \in DOMAIN sendQue : sendQue'[i] = sendQue[i]
      /\ sendQue'[Len(sendQue) + 1] = p
  BY <1>1, <1>2, AppendFacts
<1>4. \A i \in DOMAIN sendQue' : sendQue'[i].no = 0
  BY <1>1, <1>3 DEF IInv, QueueInv
<1>5. ThreadInv' /\ SeatInv' /\ QueueInv' /\ GivenInv' /\ LoginInv'
  BY <1>1, <1>4 DEF IInv, ThreadInv, SeatInv, QueueInv, GivenInv, LoginInv
<1>6. ReliableHandedOver' /\ BroadcastInOrder'
  BY <1>1 DEF IInv, ReliableHandedOver, BroadcastInOrder, Got
<1>7. ASSUME NEW s \in Slot, NEW t \in Slot, Told(s, t) PROVE Told(s, t)'
  BY <1>1, <1>3, <1>7 DEF Told, HasRead, InSendQue, InSend, Tells
<1>8. EarlierAreTold' /\ NewcomerIsTold'
  BY <1>1, <1>7, EarlierFrame, NewcomerStep DEF IInv
<1> QED BY <1>5, <1>6, <1>8 DEF Rest

\* The packet taken from the queue is dropped only for an empty slot, in which there
\* is nobody to be told anything.
LEMMA SendTakeStep ==
    ASSUME IInv, SendTake
    PROVE  Rest'
<1>1. /\ sndPc = "idle" /\ sendQue # <<>> /\ sendQue' = Tail(sendQue)
      /\ IsConnected(Head(sendQue).index) => sndPc' = "call" /\ sndPkt' = Head(sendQue)
      /\ ~IsConnected(Head(sendQue).index) => sndPc' = sndPc /\ sndPkt' = sndPkt
      /\ UNCHANGED <<missed, players, bcQue, count, seatVars, netVars, bcVars, present>>
  BY DEF SendTake
<1>2. /\ Head(sendQue) = sendQue[1] /\ sendQue[1] \in Packet /\ 1 \in DOMAIN sendQue
      /\ DOMAIN sendQue = 1 .. Len(sendQue) /\ Len(sendQue) \in Nat \ {0}
      /\ DOMAIN sendQue' = 1 .. Len(sendQue) - 1
      /\ \A i \in 1 .. Len(sendQue) - 1 : sendQue'[i] = sendQue[i + 1]
  BY <1>1, TailFacts DEF IInv, TypeOK
<1>3. /\ \A i \in DOMAIN sendQue' : sendQue'[i].no = 0
      /\ sndPc' = "call" => sndPkt' \in Packet /\ sndPkt'.no = 0
  BY <1>1, <1>2 DEF IInv, QueueInv
<1>4. ThreadInv' /\ SeatInv' /\ QueueInv' /\ GivenInv' /\ LoginInv'
  BY <1>1, <1>3 DEF IInv, ThreadInv, SeatInv, QueueInv, GivenInv, LoginInv
<1>5. ReliableHandedOver' /\ BroadcastInOrder'
  BY <1>1 DEF IInv, ReliableHandedOver, BroadcastInOrder, Got
<1>6. ASSUME NEW s \in Slot, NEW t \in Slot, seat[s] \in logged, Told(s, t)
      PROVE  Told(s, t)'
  <2>1. IsConnected(s)
    BY <1>6 DEF IInv, TypeOK
  <2>2. ASSUME NEW packet PROVE Tells(packet, s, t)' <=> Tells(packet, s, t)
    BY <1>1 DEF Tells
  <2>3. CASE InSendQue(s, t)
    <3>1. PICK i \in DOMAIN sendQue : sendQue[i].index = s /\ Tells(sendQue[i], s, t)
      BY <2>3 DEF InSendQue
    <3>2. CASE i = 1
      <4>1. sndPc' = "call" /\ sndPkt' = sendQue[1]
        BY <1>1, <1>2, <2>1, <3>1, <3>2
      <4>2. Tells(sndPkt, s, t)'
        BY <1>1, <3>1, <3>2, <4>1 DEF Tells
      <4> QED BY <3>1, <3>2, <4>1, <4>2 DEF Told, InSend
    <3>3. CASE i # 1
      <4>1. i - 1 \in DOMAIN sendQue' /\ sendQue'[i - 1] = sendQue[i]
        BY <1>2, <3>3
      <4> QED BY <2>2, <3>1, <4>1 DEF Told, InSendQue
    <3> QED BY <3>2, <3>3
  <2>4. CASE seat[s] \in missed \/ HasRead(s, t)
    BY <1>1, <2>2, <2>4 DEF Told, HasRead
  <2>5. ~InSend(s, t)
    BY <1>1 DEF InSend
  <2> QED BY <1>6, <2>3, <2>4, <2>5 DEF Told
<1>7. EarlierAreTold' /\ NewcomerIsTold'
  BY <1>1, <1>6, EarlierFrame, NewcomerStep DEF IInv
<1> QED BY <1>4, <1>5, <1>7 DEF Rest
\* What Give does to the sequences of packets clients have been given: all keep
\* what they had, and the client in the slot has one more, after the others.
LEMMA GivenGrows ==
    ASSUME TypeOK, NEW s \in Slot, Accepts(s), NEW p \in Packet, Give(s, p)
    PROVE  /\ seat[s] \in Conn
           /\ \A c \in Conn : DOMAIN given[c] \subseteq Nat /\ DOMAIN given'[c] \subseteq Nat
           /\ \A c \in Conn : \A i \in DOMAIN given[c] :
                 i \in DOMAIN given'[c] /\ given'[c][i] = given[c][i]
           /\ \A c \in Conn : \A i \in DOMAIN given'[c] :
                 i \notin DOMAIN given[c] =>
                     /\ c = seat[s] /\ given'[c][i] = p
                     /\ \A j \in DOMAIN given'[c] : j <= i /\ (j # i => j \in DOMAIN given[c])
           /\ \E i \in DOMAIN given'[seat[s]] : given'[seat[s]][i] = p
<1> DEFINE c0 == seat[s]
<1>1. c0 \in Conn
  BY AcceptsFacts
<1>2. given'[c0] = Append(given[c0], p) /\ \A c \in Conn : c # c0 => given'[c] = given[c]
  BY GiveFacts
<1>3. given[c0] \in Seq(Packet)
  BY <1>1 DEF TypeOK
<1> HIDE DEF c0
<1>4. /\ DOMAIN given[c0] = 1 .. Len(given[c0]) /\ Len(given[c0]) \in Nat
      /\ DOMAIN given'[c0] = 1 .. Len(given[c0]) + 1
      /\ \A i \in 1 .. Len(given[c0]) : given'[c0][i] = given[c0][i]
      /\ given'[c0][Len(given[c0]) + 1] = p
  BY <1>2, <1>3, AppendFacts
<1>5. \A c \in Conn : DOMAIN given[c] \subseteq Nat
  <2> SUFFICES ASSUME NEW c \in Conn PROVE DOMAIN given[c] \subseteq Nat
    OBVIOUS
  <2>1. given[c] \in Seq(Packet)
    BY DEF TypeOK
  <2> QED BY <2>1, ElementsOf
<1>6. \A c \in Conn : DOMAIN given'[c] \subseteq Nat
  BY <1>2, <1>4, <1>5
<1>7. \A c \in Conn : \A i \in DOMAIN given[c] :
          i \in DOMAIN given'[c] /\ given'[c][i] = given[c][i]
  BY <1>2, <1>4
<1>8. \A c \in Conn : \A i \in DOMAIN given'[c] :
          i \notin DOMAIN given[c] =>
              /\ c = c0 /\ given'[c][i] = p
              /\ \A j \in DOMAIN given'[c] : j <= i /\ (j # i => j \in DOMAIN given[c])
  <2> SUFFICES ASSUME NEW c \in Conn, NEW i \in DOMAIN given'[c], i \notin DOMAIN given[c]
               PROVE  /\ c = c0 /\ given'[c][i] = p
                      /\ \A j \in DOMAIN given'[c] : j <= i /\ (j # i => j \in DOMAIN given[c])
    OBVIOUS
  <2>1. c = c0
    BY <1>2
  <2>2. i = Len(given[c0]) + 1
    BY <1>4, <2>1
  <2> QED BY <1>4, <2>1, <2>2
<1>9. \E i \in DOMAIN given'[c0] : given'[c0][i] = p
  BY <1>4
<1> QED BY <1>1, <1>5, <1>6, <1>7, <1>8, <1>9 DEF c0

\* The packet for one client is given to it, or the client counts among those
\* that have missed one.
LEMMA SendCallStep ==
    ASSUME IInv, SendCall
    PROVE  Rest'
<1> DEFINE x == sndPkt.index
<1>1. /\ sndPc = "call" /\ sndPc' = "idle" /\ sndPkt' = NoPacket
      /\ sndPkt \in Packet /\ x \in Slot /\ sndPkt.no = 0
      /\ UNCHANGED <<seat, used, peer, logged, earlier, greet, queueVars, bcVars, present>>
  BY DEF SendCall, IInv, ThreadInv, QueueInv, Packet
<1>2. TypeOK
  BY DEF IInv
<1>3. \/ Accepts(x) /\ Give(x, sndPkt) /\ missed' = missed
      \/ missed' = missed \cup ({seat[x]} \ {NoConn}) /\ given' = given
  BY DEF SendCall
<1> HIDE DEF x
<1>4. CASE Accepts(x) /\ Give(x, sndPkt) /\ missed' = missed
  <2>1. /\ seat[x] \in Conn
        /\ \A c \in Conn : \A i \in DOMAIN given[c] :
              i \in DOMAIN given'[c] /\ given'[c][i] = given[c][i]
        /\ \A c \in Conn : \A i \in DOMAIN given'[c] :
              i \notin DOMAIN given[c] => c = seat[x] /\ given'[c][i] = sndPkt
        /\ \E i \in DOMAIN given'[seat[x]] : given'[seat[x]][i] = sndPkt
    BY <1>1, <1>2, <1>4, GivenGrows
  <2>2. ThreadInv' /\ QueueInv' /\ LoginInv'
    BY <1>1 DEF IInv, ThreadInv, QueueInv, LoginInv
  <2>3. seat[x] \in used /\ \A c \in Conn : given[c] # <<>> => c \in used
    BY <1>1, <1>4 DEF IInv, SeatInv, Accepts
  <2>4. \A c \in Conn : given'[c] # <<>> => c \in used
    <3> SUFFICES ASSUME NEW c \in Conn, c # seat[x] PROVE given'[c] = given[c]
      BY <2>3
    <3> QED BY <1>1, <1>2, <1>4, GiveFacts
  <2>5. SeatInv'
    BY <1>1, <2>4 DEF IInv, SeatInv
  <2>6. /\ count \in Nat /\ \A k \in DOMAIN bcQue : bcQue[k].no \in Nat /\ 0 < bcQue[k].no
        /\ bcPc # "idle" => bcPkt.no \in Nat /\ 0 < bcPkt.no
    BY DEF IInv, TypeOK, QueueInv
  <2>7. GivenInv'
    <3> SUFFICES ASSUME NEW c \in Conn, NEW i \in DOMAIN given'[c]
                 PROVE  /\ given'[c][i].no <= count
                        /\ \A k \in DOMAIN bcQue : given'[c][i].no < bcQue[k].no
                        /\ bcPc # "idle" =>
                              /\ given'[c][i].no <= bcPkt.no
                              /\ given'[c][i].no = bcPkt.no =>
                                    \A s \in Slot : seat[s] = c => s < bcAt
      BY <1>1 DEF GivenInv
    <3>1. CASE i \in DOMAIN given[c]
      BY <2>1, <3>1 DEF IInv, GivenInv
    <3>2. CASE i \notin DOMAIN given[c]
      <4>1. given'[c][i].no = 0
        BY <1>1, <2>1, <3>2
      <4> QED BY <2>6, <4>1
    <3> QED BY <3>1, <3>2
  <2>8. BroadcastInOrder'
    <3> SUFFICES ASSUME NEW c \in Conn, NEW i \in DOMAIN given'[c], NEW j \in DOMAIN given'[c],
                        i < j, given'[c][i].no > 0, given'[c][j].no > 0
                 PROVE  given'[c][i].no < given'[c][j].no
      BY DEF BroadcastInOrder
    <3>1. i \in DOMAIN given[c] /\ j \in DOMAIN given[c]
      BY <1>1, <2>1
    <3> QED BY <2>1, <3>1 DEF IInv, BroadcastInOrder
  <2>9. ReliableHandedOver'
    <3> SUFFICES ASSUME bcPc # "idle", bcPkt.reliable, NEW s \in 0 .. bcAt - 1,
                        seat[s] \in present, s # bcPkt.index
                 PROVE  Got(seat[s], bcPkt.no)'
      BY <1>1 DEF ReliableHandedOver, Got
    <3>1. Got(seat[s], bcPkt.no)
      BY DEF IInv, ReliableHandedOver
    <3>2. seat[s] \in Conn /\ bcPkt.no \in Nat
      BY <1>2 DEF IInv, TypeOK, QueueInv
    <3>3. Got(seat[s], bcPkt.no) => (\E i \in DOMAIN given'[seat[s]] : given'[seat[s]][i].no = bcPkt.no)
      BY <2>1, <3>2 DEF Got
    <3> QED BY <1>1, <3>1, <3>3 DEF Got
  <2>10. ASSUME NEW s \in Slot, NEW t \in Slot, seat[s] \in logged
         PROVE  (Announced(s, t) => Announced(s, t)') /\ (Told(s, t) => Told(s, t)')
    <3>1. /\ \A packet : Announces(packet, t)' <=> Announces(packet, t)
          /\ \A packet : Tells(packet, s, t)' <=> Tells(packet, s, t)
      BY <1>1 DEF Announces, Tells
    <3>2. seat[s] \in Conn
      BY <1>2, <2>10 DEF TypeOK
    <3>3. /\ HasHeard(s, t) => HasHeard(s, t)'
          /\ HasRead(s, t) => HasRead(s, t)'
      BY <1>1, <2>1, <3>1, <3>2 DEF HasHeard, HasRead
    <3>4. InSend(s, t) => HasRead(s, t)'
      BY <1>1, <2>1, <3>1 DEF HasRead, InSend, x
    <3>5. /\ InSendQue(s, t) => InSendQue(s, t)'
          /\ InBcQue(t) => InBcQue(t)'
          /\ InBroadcast(s, t) => InBroadcast(s, t)'
      BY <1>1, <3>1 DEF InSendQue, InBcQue, InBroadcast
    <3> QED BY <1>1, <1>4, <3>3, <3>4, <3>5 DEF Announced, Told
  <2>11. EarlierAreTold' /\ NewcomerIsTold'
    BY <1>1, <2>10, EarlierStep, NewcomerStep DEF IInv
  <2> QED BY <2>2, <2>5, <2>7, <2>8, <2>9, <2>11 DEF Rest
<1>5. CASE missed' = missed \cup ({seat[x]} \ {NoConn}) /\ given' = given
  <2>1. ThreadInv' /\ SeatInv' /\ QueueInv' /\ GivenInv' /\ LoginInv'
    BY <1>1, <1>5 DEF IInv, ThreadInv, SeatInv, QueueInv, GivenInv, LoginInv
  <2>2. ReliableHandedOver' /\ BroadcastInOrder'
    BY <1>1, <1>5 DEF IInv, ReliableHandedOver, BroadcastInOrder, Got
  <2>3. ASSUME NEW s \in Slot, NEW t \in Slot, seat[s] \in logged, Told(s, t)
        PROVE  Told(s, t)'
    <3>1. CASE s = x
      <4>1. seat[s] # NoConn
        BY <1>2, <2>3 DEF TypeOK
      <4>2. seat'[s] \in missed'
        BY <1>1, <1>5, <3>1, <4>1
      <4> QED BY <4>2 DEF Told
    <3>2. CASE s # x
      <4>1. ~InSend(s, t)
        BY <3>2 DEF InSend, x
      <4> QED BY <1>1, <1>5, <2>3, <4>1 DEF Told, HasRead, InSendQue, Tells
    <3> QED BY <3>1, <3>2
  <2>4. EarlierAreTold' /\ NewcomerIsTold'
    BY <1>1, <1>5, <2>3, EarlierFrame, NewcomerStep DEF IInv
  <2> QED BY <2>1, <2>2, <2>4 DEF Rest
<1> QED BY <1>3, <1>4, <1>5
-----------------------------------------------------------------------------
(* The handlers, which put packets at the end of the queue of broadcasts.   *)

\* A packet that is queued has a higher number than all before it, the loop over
\* the slots and what clients have been given are as they were.
LEMMA PushKeeps ==
    ASSUME IInv, NEW p \in Packet, p.no = count + 1, count' = count + 1,
           p.kind = "Login" => p.reliable /\ p.index = p.about,
           bcQue' = Append(bcQue, p),
           UNCHANGED <<seat, used, given, sndVars, bcVars, present>>
    PROVE  /\ \A i \in DOMAIN bcQue : i \in DOMAIN bcQue' /\ bcQue'[i] = bcQue[i]
           /\ \E i \in DOMAIN bcQue' : bcQue'[i] = p
           /\ \A i \in DOMAIN bcQue' : bcQue'[i].no \in 1 .. count'
           /\ \A i, j \in DOMAIN bcQue' : i < j => bcQue'[i].no < bcQue'[j].no
           /\ bcPc # "idle" => /\ bcPkt.no \in 1 .. count'
                               /\ \A i \in DOMAIN bcQue' : bcPkt.no < bcQue'[i].no
           /\ \A i \in DOMAIN bcQue' :
                 bcQue'[i].kind = "Login" => bcQue'[i].reliable /\ bcQue'[i].index = bcQue'[i].about
           /\ GivenInv' /\ ReliableHandedOver' /\ BroadcastInOrder'
<1>1. count \in Nat /\ bcQue \in Seq(Packet)
  BY DEF IInv, TypeOK
<1>2. /\ DOMAIN bcQue = 1 .. Len(bcQue) /\ Len(bcQue) \in Nat
      /\ DOMAIN bcQue' = 1 .. Len(bcQue) + 1
      /\ \A i \in 1 .. Len(bcQue) : bcQue'[i] = bcQue[i]
      /\ bcQue'[Len(bcQue) + 1] = p
  BY <1>1, AppendFacts
<1>3. \A i \in DOMAIN bcQue : bcQue[i].no \in 1 .. count
  BY DEF IInv, QueueInv
<1>4. \A i \in DOMAIN bcQue' : bcQue'[i].no \in 1 .. count'
  BY <1>1, <1>2, <1>3
<1>5. \A i, j \in DOMAIN bcQue' : i < j => bcQue'[i].no < bcQue'[j].no
  <2> SUFFICES ASSUME NEW i \in DOMAIN bcQue', NEW j \in DOMAIN bcQue', i < j
               PROVE  bcQue'[i].no < bcQue'[j].no
    OBVIOUS
  <2>1. i \in DOMAIN bcQue
    BY <1>2
  <2>2. CASE j \in DOMAIN bcQue
    BY <1>2, <2>1, <2>2 DEF IInv, QueueInv
  <2>3. CASE j = Len(bcQue) + 1
    BY <1>1, <1>2, <1>3, <2>1, <2>3
  <2> QED BY <1>2, <2>2, <2>3
<1>6. ASSUME bcPc # "idle"
      PROVE  bcPkt.no \in 1 .. count' /\ \A i \in DOMAIN bcQue' : bcPkt.no < bcQue'[i].no
  <2>1. bcPkt.no \in 1 .. count /\ \A i \in DOMAIN bcQue : bcPkt.no < bcQue[i].no
    BY <1>6 DEF IInv, QueueInv
  <2> QED BY <1>1, <1>2, <2>1
<1>7. \A i \in DOMAIN bcQue' :
          bcQue'[i].kind = "Login" => bcQue'[i].reliable /\ bcQue'[i].index = bcQue'[i].about
  BY <1>2 DEF IInv, LoginInv
<1>8. ASSUME NEW c \in Conn, NEW i \in DOMAIN given[c]
      PROVE  given[c][i].no <= count' /\ \A k \in DOMAIN bcQue' : given[c][i].no < bcQue'[k].no
  <2>1. given[c][i].no \in Nat
    <3>1. given[c] \in Seq(Packet)
      BY DEF IInv, TypeOK
    <3>2. given[c][i] \in Packet
      BY <3>1, ElementsOf
    <3> QED BY <3>2 DEF Packet
  <2>2. given[c][i].no <= count /\ \A k \in DOMAIN bcQue : given[c][i].no < bcQue[k].no
    BY DEF IInv, GivenInv
  <2> QED BY <1>1, <1>2, <2>1, <2>2
<1>9. GivenInv'
  BY <1>8 DEF IInv, GivenInv
<1>10. ReliableHandedOver' /\ BroadcastInOrder'
  BY DEF IInv, ReliableHandedOver, BroadcastInOrder, Got
<1> QED BY <1>2, <1>4, <1>5, <1>6, <1>7, <1>9, <1>10

\* A packet that is relayed announces nobody and moves nothing else.
LEMMA RelayStep ==
    ASSUME IInv, NEW r \in Slot, NEW rel \in BOOLEAN, Relay(r, rel)
    PROVE  Rest'
<1>1. /\ PushBroadcast("State", r, NoConn, rel)
      /\ UNCHANGED <<players, sendQue, seatVars, netVars, sndVars, bcVars, present>>
  BY DEF Relay
<1>2. PICK p \in Packet :
          /\ p.kind = "State" /\ p.no = count + 1 /\ count' = count + 1
          /\ bcQue' = Append(bcQue, p)
  BY <1>1, PushFacts DEF IInv
<1>3. /\ \A i \in DOMAIN bcQue : i \in DOMAIN bcQue' /\ bcQue'[i] = bcQue[i]
      /\ \A i \in DOMAIN bcQue' : bcQue'[i].no \in 1 .. count'
      /\ \A i, j \in DOMAIN bcQue' : i < j => bcQue'[i].no < bcQue'[j].no
      /\ bcPc # "idle" => /\ bcPkt.no \in 1 .. count'
                          /\ \A i \in DOMAIN bcQue' : bcPkt.no < bcQue'[i].no
      /\ \A i \in DOMAIN bcQue' :
            bcQue'[i].kind = "Login" => bcQue'[i].reliable /\ bcQue'[i].index = bcQue'[i].about
      /\ GivenInv' /\ ReliableHandedOver' /\ BroadcastInOrder'
  BY <1>1, <1>2, PushKeeps
<1>4. ThreadInv' /\ SeatInv'
  BY <1>1 DEF IInv, ThreadInv, SeatInv
<1>5. QueueInv' /\ LoginInv'
  BY <1>1, <1>3 DEF IInv, QueueInv, LoginInv
<1>6. ASSUME NEW s \in Slot, NEW t \in Slot, Announced(s, t) PROVE Announced(s, t)'
  BY <1>1, <1>3, <1>6 DEF Announced, HasHeard, InBcQue, InBroadcast, Announces
<1>7. EarlierAreTold' /\ NewcomerIsTold'
  BY <1>1, <1>6, EarlierStep, NewcomerFrame DEF IInv
<1> QED BY <1>3, <1>4, <1>5, <1>7 DEF Rest

\* Who logs in is the newcomer to all who have: they are announced its login, it is
\* told about each of them; for all others the packets stay where they are.
LEMMA LoginStep ==
    ASSUME IInv, NEW r \in Slot, RecvLoginPacket(r)
    PROVE  Rest'
<1>1. /\ seat[r] # NoConn /\ seat[r] \notin logged
      /\ logged' = logged \cup {seat[r]} /\ earlier' = [earlier EXCEPT ![seat[r]] = logged]
      /\ players' = [players EXCEPT ![r] = IF @ = NoConn THEN seat[r] ELSE @]
      /\ PushBroadcast("Login", r, seat[r], TRUE)
      /\ SendLoginedPlayerPackets(r, players')
      /\ UNCHANGED <<seat, used, peer, greet, netVars, sndVars, bcVars, present>>
  BY DEF RecvLoginPacket
<1>2. TypeOK /\ seat[r] \in Conn
  BY <1>1 DEF IInv, TypeOK
<1>3. /\ players' \in [Slot -> Conn \cup {NoConn}] /\ players'[r] # NoConn
      /\ \A t \in Slot \ {r} : players'[t] = players[t]
  BY <1>1, <1>2 DEF TypeOK
<1>4. PICK p \in Packet :
          /\ p.kind = "Login" /\ p.index = r /\ p.about = r /\ p.info = seat[r]
          /\ p.reliable = TRUE /\ p.no = count + 1
          /\ count' = count + 1 /\ bcQue' = Append(bcQue, p)
  <2>1. PICK rel \in BOOLEAN : rel = TRUE
    OBVIOUS
  <2>2. PushBroadcast("Login", r, seat[r], rel)
    BY <1>1, <2>1
  <2>3. PICK p \in Packet :
            /\ p.kind = "Login" /\ p.index = r /\ p.about = r /\ p.info = seat[r]
            /\ p.reliable = rel /\ p.no = count + 1
            /\ count' = count + 1 /\ bcQue' = Append(bcQue, p)
    BY <1>2, <2>2, PushFacts
  <2> QED BY <2>1, <2>3
<1>5. /\ \A i \in DOMAIN bcQue : i \in DOMAIN bcQue' /\ bcQue'[i] = bcQue[i]
      /\ \E i \in DOMAIN bcQue' : bcQue'[i] = p
      /\ \A i \in DOMAIN bcQue' : bcQue'[i].no \in 1 .. count'
      /\ \A i, j \in DOMAIN bcQue' : i < j => bcQue'[i].no < bcQue'[j].no
      /\ bcPc # "idle" => /\ bcPkt.no \in 1 .. count'
                          /\ \A i \in DOMAIN bcQue' : bcPkt.no < bcQue'[i].no
      /\ \A i \in DOMAIN bcQue' :
            bcQue'[i].kind = "Login" => bcQue'[i].reliable /\ bcQue'[i].index = bcQue'[i].about
      /\ GivenInv' /\ ReliableHandedOver' /\ BroadcastInOrder'
  BY <1>1, <1>4, PushKeeps
<1>6. PICK add \in Seq(Packet) : sendQue' = sendQue \o add /\ AboutAllOthers(add, r, players')
  BY <1>1, <1>2, <1>3, LoginedFacts
<1>7. /\ DOMAIN sendQue = 1 .. Len(sendQue) /\ Len(sendQue) \in Nat
      /\ DOMAIN add = 1 .. Len(add) /\ Len(add) \in Nat
      /\ DOMAIN sendQue' = 1 .. Len(sendQue) + Len(add)
      /\ \A i \in 1 .. Len(sendQue) : sendQue'[i] = sendQue[i]
      /\ \A i \in 1 .. Len(add) : sendQue'[Len(sendQue) + i] = add[i]
  BY <1>2, <1>6, ConcatFacts DEF TypeOK
<1>8. /\ \A i \in DOMAIN sendQue : i \in DOMAIN sendQue' /\ sendQue'[i] = sendQue[i]
      /\ \A i \in DOMAIN add : Len(sendQue) + i \in DOMAIN sendQue'
      /\ \A i \in DOMAIN sendQue' :
            i \in DOMAIN sendQue \/ (i - Len(sendQue) \in DOMAIN add /\ sendQue'[i] = add[i - Len(sendQue)])
  <2>1. \A i \in DOMAIN sendQue : i \in DOMAIN sendQue' /\ sendQue'[i] = sendQue[i]
    BY <1>7
  <2>2. \A i \in DOMAIN add : Len(sendQue) + i \in DOMAIN sendQue'
    BY <1>7
  <2>3. ASSUME NEW i \in DOMAIN sendQue', i \notin DOMAIN sendQue
        PROVE  i - Len(sendQue) \in DOMAIN add /\ sendQue'[i] = add[i - Len(sendQue)]
    <3>1. i - Len(sendQue) \in 1 .. Len(add) /\ Len(sendQue) + (i - Len(sendQue)) = i
      BY <1>7, <2>3
    <3> QED BY <1>7, <3>1
  <2> QED BY <2>1, <2>2, <2>3
<1>9. \A i \in DOMAIN sendQue' : sendQue'[i].no = 0
  BY <1>6, <1>8 DEF IInv, QueueInv, AboutAllOthers
<1>10. ThreadInv' /\ SeatInv'
  <2>1. seat[r] \in used
    BY <1>1 DEF IInv, SeatInv
  <2>2. SeatInv'
    BY <1>1, <2>1 DEF IInv, SeatInv
  <2>3. ThreadInv'
    BY <1>1 DEF IInv, ThreadInv
  <2> QED BY <2>2, <2>3
<1>11. QueueInv'
  BY <1>1, <1>5, <1>9 DEF IInv, QueueInv
<1>12. \A s \in Slot \ {r} : seat[s] \in logged' => seat[s] \in logged
  BY <1>1 DEF IInv, SeatInv
<1>13. LoginInv' /\ earlier'[seat[r]] = logged
       /\ \A s \in Slot \ {r} : seat[s] \in logged' => earlier'[seat[s]] = earlier[seat[s]]
  <2>1. earlier \in [Conn -> SUBSET Conn] /\ \A c \in Conn : earlier[c] \subseteq logged
    BY DEF IInv, TypeOK, LoginInv
  <2>2. earlier'[seat[r]] = logged /\ \A c \in Conn \ {seat[r]} : earlier'[c] = earlier[c]
    BY <1>1, <1>2, <2>1
  <2>3. \A c \in Conn : earlier'[c] \subseteq logged'
    BY <1>1, <2>1, <2>2
  <2>4. LoginInv'
    BY <1>1, <1>3, <1>5, <1>12, <2>3 DEF IInv, LoginInv
  <2>5. ASSUME NEW s \in Slot \ {r}, seat[s] \in logged'
        PROVE  earlier'[seat[s]] = earlier[seat[s]]
    <3>1. seat[s] \in logged
      BY <1>12, <2>5
    <3> QED BY <1>1, <1>2, <2>2, <3>1 DEF TypeOK
  <2> QED BY <2>2, <2>4, <2>5
<1>14. ASSUME NEW s \in Slot, NEW t \in Slot, s # t, {seat[s], seat[t]} \subseteq logged'
       PROVE  /\ seat[t] \notin earlier'[seat[s]] => Announced(s, t)'
              /\ seat[t] \in earlier'[seat[s]] => Told(s, t)'
  <2>1. CASE t = r
    <3>1. seat[t] \notin earlier'[seat[s]]
      <4>1. seat[s] \in Conn /\ earlier'[seat[s]] = earlier[seat[s]]
        BY <1>2, <1>12, <1>13, <1>14, <2>1 DEF TypeOK
      <4>2. earlier[seat[s]] \subseteq logged
        BY <4>1 DEF IInv, LoginInv
      <4> QED BY <1>1, <2>1, <4>1, <4>2
    <3>2. Announces(p, t)'
      <4>1. p.no > 0
        BY <1>2, <1>4 DEF TypeOK
      <4> QED BY <1>1, <1>4, <2>1, <4>1 DEF Announces
    <3>3. InBcQue(t)'
      BY <1>5, <3>2 DEF InBcQue
    <3> QED BY <3>1, <3>3 DEF Announced
  <2>2. CASE s = r
    <3>1. seat[t] \in earlier'[seat[s]]
      BY <1>12, <1>13, <1>14, <2>2
    <3>2. players'[t] # NoConn
      BY <1>3, <1>12, <1>14, <2>2 DEF IInv, LoginInv
    <3>3. PICK i \in DOMAIN add : add[i].about = t /\ add[i].info = players'[t]
      BY <1>6, <1>14, <2>2, <3>2 DEF AboutAllOthers
    <3>4. add[i].index = s /\ Tells(add[i], s, t)'
      BY <1>1, <1>6, <2>2, <3>3 DEF Tells, AboutAllOthers
    <3>5. Len(sendQue) + i \in DOMAIN sendQue' /\ sendQue'[Len(sendQue) + i] = add[i]
      BY <1>7, <1>8
    <3> QED BY <3>1, <3>4, <3>5 DEF Told, InSendQue
  <2>3. CASE s # r /\ t # r
    <3>1. /\ seat[t] \notin earlier'[seat[s]] => Announced(s, t)
          /\ seat[t] \in earlier'[seat[s]] => Told(s, t)
      BY <1>12, <1>13, <1>14, <2>3, TellingDef DEF IInv
    <3>2. /\ \A packet : Announces(packet, t) => Announces(packet, t)'
          /\ \A packet : Tells(packet, s, t) => Tells(packet, s, t)'
      BY <1>1, <1>3, <2>3 DEF Announces, Tells
    <3>3. Announced(s, t) => Announced(s, t)'
      BY <1>1, <1>5, <3>2 DEF Announced, HasHeard, InBcQue, InBroadcast
    <3>4. Told(s, t) => Told(s, t)'
      BY <1>1, <1>8, <3>2 DEF Told, HasRead, InSendQue, InSend
    <3> QED BY <3>1, <3>3, <3>4
  <2> QED BY <2>1, <2>2, <2>3
<1>15. EarlierAreTold' /\ NewcomerIsTold'
  <2>1. /\ EarlierAreTold' <=>
              (\A s, t \in Slot :
                  s # t /\ {seat[s], seat[t]} \subseteq logged /\ seat[t] \notin earlier[seat[s]]
                      => Announced(s, t))'
        /\ NewcomerIsTold' <=>
              (\A s, t \in Slot :
                  s # t /\ {seat[s], seat[t]} \subseteq logged /\ seat[t] \in earlier[seat[s]]
                      => Told(s, t))'
    BY TellingDef, PTL
  <2> QED BY <1>1, <1>14, <2>1
<1> QED BY <1>5, <1>10, <1>11, <1>13, <1>15 DEF Rest
-----------------------------------------------------------------------------
(* SendBroadCastThread.                                                     *)

\* The first packet of the queue has the lowest number of those that wait, and no
\* client has been given one as high.
LEMMA BroadcastTakeStep ==
    ASSUME IInv, BroadcastTake
    PROVE  Rest'
<1>1. /\ bcPc = "idle" /\ bcQue # <<>> /\ bcPkt' = Head(bcQue) /\ bcQue' = Tail(bcQue)
      /\ bcAt' = 0 /\ bcPc' = "check" /\ present' = {seat[s] : s \in Slot} \ {NoConn}
      /\ UNCHANGED <<players, sendQue, count, seatVars, netVars, sndVars>>
  BY DEF BroadcastTake
<1>2. /\ bcPkt' = bcQue[1] /\ bcQue[1] \in Packet /\ 1 \in DOMAIN bcQue
      /\ DOMAIN bcQue = 1 .. Len(bcQue) /\ Len(bcQue) \in Nat \ {0}
      /\ DOMAIN bcQue' = 1 .. Len(bcQue) - 1
      /\ \A i \in 1 .. Len(bcQue) - 1 : bcQue'[i] = bcQue[i + 1]
  BY <1>1, TailFacts DEF IInv, TypeOK
<1>3. \A i \in DOMAIN bcQue' : i + 1 \in DOMAIN bcQue /\ bcQue'[i] = bcQue[i + 1]
  BY <1>2
<1>4. /\ \A i \in DOMAIN bcQue' : bcQue'[i].no \in 1 .. count
      /\ \A i, j \in DOMAIN bcQue' : i < j => bcQue'[i].no < bcQue'[j].no
      /\ bcPkt'.no \in 1 .. count
      /\ \A i \in DOMAIN bcQue' : bcPkt'.no < bcQue'[i].no
  <2>1. \A i, j \in DOMAIN bcQue : i < j => bcQue[i].no < bcQue[j].no
    BY DEF IInv, QueueInv
  <2>2. \A i \in DOMAIN bcQue : bcQue[i].no \in 1 .. count
    BY DEF IInv, QueueInv
  <2>3. ASSUME NEW i \in DOMAIN bcQue', NEW j \in DOMAIN bcQue', i < j
        PROVE  bcQue'[i].no < bcQue'[j].no
    <3>1. i + 1 < j + 1
      BY <1>2, <2>3
    <3> QED BY <1>3, <2>1, <3>1
  <2>4. ASSUME NEW i \in DOMAIN bcQue' PROVE bcPkt'.no < bcQue'[i].no
    <3>1. 1 < i + 1
      BY <1>2
    <3> QED BY <1>2, <1>3, <2>1, <3>1
  <2> QED BY <1>2, <1>3, <2>2, <2>3, <2>4
<1>5. QueueInv'
  BY <1>1, <1>4 DEF IInv, QueueInv
<1>6. ThreadInv'
  BY <1>1, <1>2 DEF IInv, ThreadInv
<1>7. SeatInv'
  BY <1>1 DEF IInv, SeatInv
<1>8. ASSUME NEW c \in Conn, NEW i \in DOMAIN given[c]
      PROVE  /\ given[c][i].no <= count
             /\ \A k \in DOMAIN bcQue' : given[c][i].no < bcQue'[k].no
             /\ given[c][i].no < bcPkt'.no /\ given[c][i].no \in Nat
  <2>1. given[c] \in Seq(Packet)
    BY DEF IInv, TypeOK
  <2>2. given[c][i] \in Packet
    BY <2>1, ElementsOf
  <2>3. given[c][i].no \in Nat
    BY <2>2 DEF Packet
  <2>4. given[c][i].no <= count /\ \A k \in DOMAIN bcQue : given[c][i].no < bcQue[k].no
    BY DEF IInv, GivenInv
  <2> QED BY <1>2, <1>3, <2>3, <2>4
<1>9. GivenInv'
  <2> SUFFICES ASSUME NEW c \in Conn, NEW i \in DOMAIN given[c]
               PROVE  /\ given[c][i].no <= count
                      /\ \A k \in DOMAIN bcQue' : given[c][i].no < bcQue'[k].no
                      /\ given[c][i].no <= bcPkt'.no /\ given[c][i].no # bcPkt'.no
    BY <1>1 DEF GivenInv
  <2>1. bcPkt'.no \in Nat
    BY <1>4 DEF IInv, TypeOK
  <2> QED BY <1>8, <2>1
<1>10. LoginInv'
  BY <1>1, <1>2, <1>3 DEF IInv, LoginInv
<1>11. ReliableHandedOver' /\ BroadcastInOrder'
  BY <1>1 DEF IInv, ReliableHandedOver, BroadcastInOrder
<1>12. ASSUME NEW s \in Slot, NEW t \in Slot, Announced(s, t) PROVE Announced(s, t)'
  <2>1. \A packet : Announces(packet, t)' <=> Announces(packet, t)
    BY <1>1 DEF Announces
  <2>2. CASE InBcQue(t)
    <3>1. PICK i \in DOMAIN bcQue : Announces(bcQue[i], t)
      BY <2>2 DEF InBcQue
    <3>2. CASE i = 1
      <4>1. Announces(bcPkt, t)'
        BY <1>1, <1>2, <3>1, <3>2 DEF Announces
      <4>2. InBroadcast(s, t)'
        BY <1>1, <4>1 DEF InBroadcast
      <4> QED BY <4>2 DEF Announced
    <3>3. CASE i # 1
      <4>1. i - 1 \in DOMAIN bcQue' /\ bcQue'[i - 1] = bcQue[i]
        BY <1>2, <3>3
      <4> QED BY <2>1, <3>1, <4>1 DEF Announced, InBcQue
    <3> QED BY <3>2, <3>3
  <2>3. CASE HasHeard(s, t)
    BY <1>1, <2>1, <2>3 DEF Announced, HasHeard
  <2>4. ~InBroadcast(s, t)
    BY <1>1 DEF InBroadcast
  <2> QED BY <1>12, <2>2, <2>3, <2>4 DEF Announced
<1>13. EarlierAreTold' /\ NewcomerIsTold'
  BY <1>1, <1>12, EarlierStep, NewcomerFrame DEF IInv
<1> QED BY <1>5, <1>6, <1>7, <1>9, <1>10, <1>11, <1>13 DEF Rest

\* A slot is passed over only if nobody has it or the sender does; a Login is
\* about its sender, who need not be told of itself.
LEMMA BroadcastSkipStep ==
    ASSUME IInv, BroadcastSkip
    PROVE  Rest'
<1>1. /\ bcPc = "check" /\ bcAt \in Slot /\ bcAt' = bcAt + 1
      /\ seat[bcAt] = NoConn \/ bcPkt.index = bcAt
      /\ UNCHANGED <<bcPc, bcPkt, seatVars, queueVars, netVars, sndVars, present>>
  BY DEF BroadcastSkip
<1>2. NoConn \notin logged /\ NoConn \notin present
  BY DEF IInv, TypeOK
<1>3. ThreadInv' /\ SeatInv' /\ QueueInv' /\ LoginInv' /\ BroadcastInOrder'
  BY <1>1 DEF IInv, ThreadInv, SeatInv, QueueInv, LoginInv, BroadcastInOrder
<1>4. GivenInv'
  <2>1. \A s \in Slot : s < bcAt => s < bcAt + 1
    BY <1>1
  <2> QED BY <1>1, <2>1 DEF IInv, GivenInv
<1>5. ReliableHandedOver'
  <2>1. \A s \in 0 .. bcAt' - 1 : s \in 0 .. bcAt - 1 \/ s = bcAt
    BY <1>1
  <2> QED BY <1>1, <1>2, <2>1 DEF IInv, ReliableHandedOver, Got
<1>6. ASSUME NEW s \in Slot, NEW t \in Slot, s # t, seat[s] \in logged, Announced(s, t)
      PROVE  Announced(s, t)'
  <2>1. \A packet : Announces(packet, t)' <=> Announces(packet, t)
    BY <1>1 DEF Announces
  <2>2. CASE InBroadcast(s, t)
    <3>1. Announces(bcPkt, t) /\ bcAt <= s
      BY <2>2 DEF InBroadcast
    <3>2. bcPkt.index = t
      BY <1>1, <3>1 DEF IInv, LoginInv, Announces
    <3>3. bcAt # s
      BY <1>1, <1>2, <1>6, <3>2
    <3>4. bcAt + 1 <= s
      BY <1>1, <3>1, <3>3
    <3> QED BY <1>1, <2>1, <3>1, <3>4 DEF Announced, InBroadcast
  <2>3. CASE HasHeard(s, t) \/ InBcQue(t)
    BY <1>1, <2>1, <2>3 DEF Announced, HasHeard, InBcQue
  <2> QED BY <1>6, <2>2, <2>3 DEF Announced
<1>7. EarlierAreTold' /\ NewcomerIsTold'
  BY <1>1, <1>6, EarlierStep, NewcomerFrame DEF IInv
<1> QED BY <1>3, <1>4, <1>5, <1>7 DEF Rest

\* The loop ends behind the last slot, with nobody left to be given the packet.
LEMMA BroadcastDoneStep ==
    ASSUME IInv, BroadcastDone
    PROVE  Rest'
<1>1. /\ bcPc = "check" /\ bcAt = CLIENT_MAX
      /\ bcPc' = "idle" /\ bcPkt' = NoPacket /\ bcAt' = 0 /\ present' = {}
      /\ UNCHANGED <<seatVars, queueVars, netVars, sndVars>>
  BY DEF BroadcastDone
<1>2. ThreadInv' /\ SeatInv' /\ QueueInv' /\ GivenInv' /\ LoginInv'
  BY <1>1 DEF IInv, ThreadInv, SeatInv, QueueInv, GivenInv, LoginInv
<1>3. ReliableHandedOver' /\ BroadcastInOrder'
  BY <1>1 DEF IInv, ReliableHandedOver, BroadcastInOrder
<1>4. ASSUME NEW s \in Slot, NEW t \in Slot, Announced(s, t) PROVE Announced(s, t)'
  <2>1. ~InBroadcast(s, t)
    BY <1>1 DEF InBroadcast
  <2> QED BY <1>1, <1>4, <2>1 DEF Announced, HasHeard, InBcQue, Announces
<1>5. EarlierAreTold' /\ NewcomerIsTold'
  BY <1>1, <1>4, EarlierStep, NewcomerFrame DEF IInv
<1> QED BY <1>2, <1>3, <1>5 DEF Rest
\* A packet that is accepted is the last its client was given, and the first with
\* its number; one that is not accepted is tried again if it is reliable, so that
\* the loop passes nobody who stays.
LEMMA BroadcastCallStep ==
    ASSUME IInv, BroadcastCall
    PROVE  Rest'
<1>1. /\ bcPc = "call" /\ bcPc' = "check" /\ bcPkt \in Packet
      /\ bcAt \in Slot /\ bcPkt.index # bcAt
      /\ UNCHANGED <<bcPkt, seatVars, queueVars, sndVars, present>>
  BY DEF BroadcastCall, IInv, ThreadInv
<1>2. TypeOK
  BY DEF IInv
<1>3. \/ Accepts(bcAt) /\ Give(bcAt, bcPkt) /\ bcAt' = bcAt + 1
      \/ bcPkt.reliable /\ bcAt' = bcAt /\ given' = given
      \/ ~bcPkt.reliable /\ bcAt' = bcAt + 1 /\ given' = given
  BY DEF BroadcastCall
<1>4. ThreadInv' /\ QueueInv' /\ LoginInv'
  BY <1>1 DEF IInv, ThreadInv, QueueInv, LoginInv
<1>5. /\ \A t \in Slot : \A packet : Announces(packet, t)' <=> Announces(packet, t)
      /\ \A s, t \in Slot : \A packet : Tells(packet, s, t)' <=> Tells(packet, s, t)
  BY <1>1 DEF Announces, Tells
<1>6. bcPkt.no \in 1 .. count /\ count \in Nat
  BY <1>1 DEF IInv, TypeOK, QueueInv
<1>7. CASE Accepts(bcAt) /\ Give(bcAt, bcPkt) /\ bcAt' = bcAt + 1
  <2> DEFINE c0 == seat[bcAt]
  <2>1. /\ c0 \in Conn
        /\ \A c \in Conn : DOMAIN given[c] \subseteq Nat /\ DOMAIN given'[c] \subseteq Nat
        /\ \A c \in Conn : \A i \in DOMAIN given[c] :
              i \in DOMAIN given'[c] /\ given'[c][i] = given[c][i]
        /\ \A c \in Conn : \A i \in DOMAIN given'[c] :
              i \notin DOMAIN given[c] =>
                  /\ c = c0 /\ given'[c][i] = bcPkt
                  /\ \A j \in DOMAIN given'[c] : j <= i /\ (j # i => j \in DOMAIN given[c])
        /\ \E i \in DOMAIN given'[c0] : given'[c0][i] = bcPkt
    BY <1>1, <1>2, <1>7, GivenGrows
  <2>2. c0 \in used /\ \A s \in Slot : seat[s] = c0 => s = bcAt
    BY <1>1, <1>7 DEF IInv, SeatInv, Accepts
  <2>3. \A c \in Conn : c # c0 => given'[c] = given[c]
    BY <1>1, <1>2, <1>7, GiveFacts
  <2>4. SeatInv'
    BY <1>1, <2>2, <2>3 DEF IInv, SeatInv
  <2>5. GivenInv'
    <3> SUFFICES ASSUME NEW c \in Conn, NEW i \in DOMAIN given'[c]
                 PROVE  /\ given'[c][i].no <= count
                        /\ \A k \in DOMAIN bcQue : given'[c][i].no < bcQue[k].no
                        /\ given'[c][i].no <= bcPkt.no
                        /\ given'[c][i].no = bcPkt.no =>
                              \A s \in Slot : seat[s] = c => s < bcAt + 1
      BY <1>1, <1>7 DEF GivenInv
    <3>1. CASE i \in DOMAIN given[c]
      <4>1. \A s \in Slot : s < bcAt => s < bcAt + 1
        BY <1>1
      <4> QED BY <1>1, <2>1, <3>1, <4>1 DEF IInv, GivenInv
    <3>2. CASE i \notin DOMAIN given[c]
      <4>1. c = c0 /\ given'[c][i] = bcPkt
        BY <2>1, <3>2
      <4>2. \A k \in DOMAIN bcQue : bcPkt.no < bcQue[k].no
        BY <1>1 DEF IInv, QueueInv
      <4>3. \A s \in Slot : seat[s] = c => s < bcAt + 1
        BY <1>1, <2>2, <4>1
      <4>4. bcPkt.no <= count /\ bcPkt.no <= bcPkt.no
        BY <1>6
      <4> QED BY <4>1, <4>2, <4>3, <4>4
    <3> QED BY <3>1, <3>2
  <2>6. BroadcastInOrder'
    <3> SUFFICES ASSUME NEW c \in Conn, NEW i \in DOMAIN given'[c], NEW j \in DOMAIN given'[c],
                        i < j, given'[c][i].no > 0, given'[c][j].no > 0
                 PROVE  given'[c][i].no < given'[c][j].no
      BY DEF BroadcastInOrder
    <3>1. i \in Nat /\ j \in Nat
      BY <2>1
    <3>2. i \in DOMAIN given[c]
      BY <2>1, <3>1
    <3>3. CASE j \in DOMAIN given[c]
      BY <2>1, <3>2, <3>3 DEF IInv, BroadcastInOrder
    <3>4. CASE j \notin DOMAIN given[c]
      <4>1. c = c0 /\ given'[c][j] = bcPkt
        BY <2>1, <3>4
      <4>2. /\ given[c][i].no <= bcPkt.no
            /\ given[c][i].no = bcPkt.no => \A s \in Slot : seat[s] = c => s < bcAt
        BY <1>1, <3>2 DEF IInv, GivenInv
      <4>3. given[c][i].no # bcPkt.no
        BY <1>1, <4>1, <4>2
      <4>4. given[c][i].no \in Nat
        <5>1. given[c] \in Seq(Packet)
          BY <1>2 DEF TypeOK
        <5>2. given[c][i] \in Packet
          BY <3>2, <5>1, ElementsOf
        <5> QED BY <5>2 DEF Packet
      <4> QED BY <1>6, <2>1, <3>2, <4>1, <4>2, <4>3, <4>4
    <3> QED BY <3>3, <3>4
  <2>7. ReliableHandedOver'
    <3> SUFFICES ASSUME bcPkt.reliable, NEW s \in 0 .. bcAt,
                        seat[s] \in present, s # bcPkt.index
                 PROVE  \E i \in DOMAIN given'[seat[s]] : given'[seat[s]][i].no = bcPkt.no
      <4>1. bcAt' - 1 = bcAt
        BY <1>1, <1>7
      <4> QED BY <1>1, <4>1 DEF ReliableHandedOver, Got
    <3>1. CASE s = bcAt
      BY <2>1, <3>1
    <3>2. CASE s # bcAt
      <4>1. s \in 0 .. bcAt - 1
        BY <1>1, <3>2
      <4>2. Got(seat[s], bcPkt.no)
        BY <1>1, <4>1 DEF IInv, ReliableHandedOver
      <4>3. seat[s] \in Conn
        BY <1>2 DEF TypeOK
      <4> QED BY <2>1, <4>2, <4>3 DEF Got
    <3> QED BY <3>1, <3>2
  <2>8. ASSUME NEW s \in Slot, NEW t \in Slot, seat[s] \in logged
        PROVE  (Announced(s, t) => Announced(s, t)') /\ (Told(s, t) => Told(s, t)')
    <3>1. seat[s] \in Conn
      BY <1>2, <2>8 DEF TypeOK
    <3>2. /\ HasHeard(s, t) => HasHeard(s, t)'
          /\ HasRead(s, t) => HasRead(s, t)'
      BY <1>1, <1>5, <2>1, <3>1 DEF HasHeard, HasRead
    <3>3. ASSUME InBroadcast(s, t) PROVE Announced(s, t)'
      <4>1. Announces(bcPkt, t) /\ bcAt <= s
        BY <3>3 DEF InBroadcast
      <4>2. CASE bcAt = s
        <5>1. PICK i \in DOMAIN given'[c0] : given'[c0][i] = bcPkt
          BY <2>1
        <5>2. HasHeard(s, t)'
          BY <1>1, <1>5, <4>1, <4>2, <5>1 DEF HasHeard
        <5> QED BY <5>2 DEF Announced
      <4>3. CASE bcAt # s
        <5>1. bcAt' <= s
          BY <1>1, <1>7, <4>1, <4>3
        <5> QED BY <1>1, <1>5, <4>1, <5>1 DEF Announced, InBroadcast
      <4> QED BY <4>2, <4>3
    <3>4. InBcQue(t) => InBcQue(t)'
      BY <1>1, <1>5 DEF InBcQue
    <3>5. /\ seat[s] \in missed => seat'[s] \in missed'
          /\ InSendQue(s, t) => InSendQue(s, t)'
          /\ InSend(s, t) => InSend(s, t)'
      BY <1>1, <1>5 DEF InSendQue, InSend
    <3> QED BY <3>2, <3>3, <3>4, <3>5 DEF Announced, Told
  <2>9. EarlierAreTold' /\ NewcomerIsTold'
    BY <1>1, <2>8, EarlierStep, NewcomerStep DEF IInv
  <2> QED BY <1>4, <2>4, <2>5, <2>6, <2>7, <2>9 DEF Rest
<1>8. CASE bcPkt.reliable /\ bcAt' = bcAt /\ given' = given
  <2>1. SeatInv' /\ GivenInv'
    BY <1>1, <1>8 DEF IInv, SeatInv, GivenInv
  <2>2. ReliableHandedOver' /\ BroadcastInOrder'
    BY <1>1, <1>8 DEF IInv, ReliableHandedOver, BroadcastInOrder, Got
  <2>3. EarlierAreTold' /\ NewcomerIsTold'
    <3>1. EarlierAreTold'
      BY <1>1, <1>8 DEF IInv, EarlierAreTold, Announces
    <3>2. NewcomerIsTold'
      BY <1>1, <1>8, NewcomerFrame DEF IInv
    <3> QED BY <3>1, <3>2
  <2> QED BY <1>4, <2>1, <2>2, <2>3 DEF Rest
<1>9. CASE ~bcPkt.reliable /\ bcAt' = bcAt + 1 /\ given' = given
  <2>1. SeatInv' /\ BroadcastInOrder' /\ ReliableHandedOver'
    BY <1>1, <1>9 DEF IInv, SeatInv, BroadcastInOrder, ReliableHandedOver
  <2>2. GivenInv'
    <3>1. \A s \in Slot : s < bcAt => s < bcAt + 1
      BY <1>1
    <3> QED BY <1>1, <1>9, <3>1 DEF IInv, GivenInv
  <2>3. ASSUME NEW s \in Slot, NEW t \in Slot, Announced(s, t)
        PROVE  Announced(s, t)'
    <3>1. ~InBroadcast(s, t)
      BY <1>1, <1>9 DEF IInv, LoginInv, InBroadcast, Announces
    <3> QED BY <1>1, <1>5, <1>9, <2>3, <3>1 DEF Announced, HasHeard, InBcQue
  <2>4. EarlierAreTold' /\ NewcomerIsTold'
    BY <1>1, <1>9, <2>3, EarlierStep, NewcomerFrame DEF IInv
  <2> QED BY <1>4, <2>1, <2>2, <2>4 DEF Rest
<1> QED BY <1>3, <1>7, <1>8, <1>9

-----------------------------------------------------------------------------
(* The invariant, and what it says of PacketRelay.                          *)

\* Every step of PacketRelay keeps the invariant.
LEMMA NextIInv == IInv /\ [Next]_vars => IInv'
<1> SUFFICES ASSUME IInv, [Next]_vars PROVE IInv'
  OBVIOUS
<1>1. TypeOK'
  BY TypeStep DEF IInv
<1>2. Rest'
  <2>1. CASE UNCHANGED vars
    BY <2>1, PeerStep DEF vars
  <2>2. ASSUME NEW s \in Slot, NEW c \in Conn, TakeSeat(s, c) PROVE Rest'
    BY <2>2, TakeSeatStep
  <2>3. ASSUME NEW s \in Slot, LeaveSeat(s) PROVE Rest'
    BY <2>3, LeaveSeatStep
  <2>4. ASSUME NEW c \in Conn, PeerEnds(c) \/ PeerReads(c) PROVE Rest'
    BY <2>4, PeerStep DEF PeerEnds, PeerReads
  <2>5. CASE OnConnected
    BY <2>5, OnConnectedStep
  <2>6. ASSUME NEW s \in Slot, Handler(s) PROVE Rest'
    BY <2>6, LoginStep, RelayStep
       DEF Handler, RecvFireEventPacket, RecvMovementPacket, RecvAnimPacket, RecvWeaponPacket
  <2>7. CASE SendThread
    BY <2>7, SendTakeStep, SendCallStep DEF SendThread
  <2>8. CASE SendBroadCastThread
    BY <2>8, BroadcastTakeStep, BroadcastSkipStep, PickStep, BroadcastCallStep, BroadcastDoneStep
       DEF SendBroadCastThread
  <2> QED BY <2>1, <2>2, <2>3, <2>4, <2>5, <2>6, <2>7, <2>8 DEF Next
<1> QED BY <1>1, <1>2 DEF IInv, Rest

\* The inductive invariant holds in every reachable state.
THEOREM Inductive == Spec => []IInv
  BY InitIInv, NextIInv, PTL DEF Spec

\* Every variable keeps its type.
THEOREM TypeCorrect == Spec => []TypeOK
<1>1. IInv => TypeOK
  BY DEF IInv
<1> QED BY <1>1, Inductive, PTL

\* A reliable packet has been given to every client that was there when its
\* broadcast began, still is and whose slot the loop has passed, whatever sends
\* failed and whoever came and went in the meantime.
THEOREM HandedOver == Spec => []ReliableHandedOver
<1>1. IInv => ReliableHandedOver
  BY DEF IInv
<1> QED BY <1>1, Inductive, PTL

\* No client is given a broadcast twice or after a later one.
THEOREM InOrder == Spec => []BroadcastInOrder
<1>1. IInv => BroadcastInOrder
  BY DEF IInv
<1> QED BY <1>1, Inductive, PTL

\* Every client that had logged in before another one did has been given the broadcast
\* of that client's own login, or it is on its way to it, whatever was broadcast about
\* earlier clients of the slot.
THEOREM EarliersAreTold == Spec => []EarlierAreTold
<1>1. IInv => EarlierAreTold
  BY DEF IInv
<1> QED BY <1>1, Inductive, PTL

\* A client that has logged in has been given a packet, made for it, with what is stored
\* for the slot of each client that had logged in before, or it is on its way to it, or
\* SendThread lost a packet for it.
THEOREM NewcomersAreTold == Spec => []NewcomerIsTold
<1>1. IInv => NewcomerIsTold
  BY DEF IInv
<1> QED BY <1>1, Inductive, PTL
=============================================================================
