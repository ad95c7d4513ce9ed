------------------------ MODULE BroadcastsRefinement ------------------------
(***************************************************************************)
(* PacketRelay implements Broadcasts, for every number of slots, clients   *)
(* and packets: the refinement mapping is the INSTANCE in PacketRelay, and *)
(* each step of PacketRelay is shown to be one of Broadcasts or to leave   *)
(* its variables alone.                                                    *)
(***************************************************************************)
EXTENDS PacketRelayProofs

USE ConstantsAssumption
USE DEF Slot, IsConnected, seatVars, queueVars, netVars, sndVars, bcVars

-----------------------------------------------------------------------------
(* The actions of Broadcasts in terms of the mapped variables.              *)

\* One more packet waits.
LEMMA QueueMaps ==
    ASSUME NEW s \in Slot, NEW rel \in BOOLEAN, count' = count + 1,
           Pending' = Append(Pending, [no |-> count + 1, index |-> s, reliable |-> rel]),
           UNCHANGED <<seat, used, Current, Todo, GotNos>>
    PROVE  Broadcasts!Next
  BY DEF Broadcasts!Next, Broadcasts!Queue, Broadcasts!Slot

\* The first that waits is broadcast to all but the client in its sender's slot.
LEMMA BeginMaps ==
    ASSUME Current = [no |-> 0], Pending # <<>>,
           Current' = Head(Pending), Pending' = Tail(Pending),
           Todo' = {seat[s] : s \in Slot \ {Head(Pending).index}} \ {NoConn},
           UNCHANGED <<seat, used, count, GotNos>>
    PROVE  Broadcasts!Next
  BY DEF Broadcasts!Next, Broadcasts!Begin, Broadcasts!Nothing, Broadcasts!Slot

\* A client that was to be given the packet has been given it.
LEMMA DeliverMaps ==
    ASSUME NEW c \in Conn, c \in Todo, Current.no \notin GotNos[c],
           GotNos' = [GotNos EXCEPT ![c] = @ \cup {Current.no}], Todo' = Todo \ {c},
           UNCHANGED <<seat, used, count, Pending, Current>>
    PROVE  Broadcasts!Next
  BY DEF Broadcasts!Next, Broadcasts!Deliver

\* A client is not given an unreliable packet.
LEMMA GiveUpMaps ==
    ASSUME NEW c \in Conn, c \in Todo, ~Current.reliable, Todo' = Todo \ {c},
           UNCHANGED <<seat, used, count, Pending, Current, GotNos>>
    PROVE  Broadcasts!Next
  BY DEF Broadcasts!Next, Broadcasts!GiveUp

\* With nobody left to be given the packet the broadcast ends.
LEMMA EndMaps ==
    ASSUME Current # [no |-> 0], Todo = {}, Current' = [no |-> 0],
           UNCHANGED <<seat, used, count, Pending, Todo, GotNos>>
    PROVE  Broadcasts!Next
  BY DEF Broadcasts!Next, Broadcasts!End, Broadcasts!Nothing

\* A client that comes may be given the packet that is broadcast or not.
LEMMA EnterMaps ==
    ASSUME NEW s \in Slot, NEW c \in Conn, Seats!Take(s, c),
           Todo' = Todo \/ (Current # [no |-> 0] /\ Todo' = Todo \cup {c}),
           UNCHANGED <<count, Pending, Current, GotNos>>
    PROVE  Broadcasts!Next
  BY DEF Broadcasts!Next, Broadcasts!Enter, Broadcasts!Nothing, Broadcasts!Slot,
         Seats!Take, Broadcasts!Seats!Take

\* A client that goes is not given it any more.
LEMMA LeaveMaps ==
    ASSUME NEW s \in Slot, Seats!Leave(s), Todo' = Todo \ {seat[s]},
           UNCHANGED <<count, Pending, Current, GotNos>>
    PROVE  Broadcasts!Next
  BY DEF Broadcasts!Next, Broadcasts!Leave, Broadcasts!Slot, Seats!Leave, Broadcasts!Seats!Leave

-----------------------------------------------------------------------------
(* The mapped variables under the steps of PacketRelay.                     *)

\* What Broadcasts knows of the packets of a sequence.
Notes(q) == [i \in DOMAIN q |-> Numbered(q[i])]
Note     == [no : Nat, index : Slot, reliable : BOOLEAN]

\* The notes of a queue are as many, in the order of their packets.
LEMMA NotesFacts ==
    ASSUME NEW q \in Seq(Packet)
    PROVE  /\ Notes(q) \in Seq(Note) /\ Len(Notes(q)) = Len(q) /\ Len(q) \in Nat
           /\ \A i \in 1 .. Len(q) : Notes(q)[i] = Numbered(q[i])
<1>1. DOMAIN q = 1 .. Len(q) /\ Len(q) \in Nat /\ \A i \in DOMAIN q : q[i] \in Packet
  BY ElementsOf
<1>2. \A p \in Packet : Numbered(p) \in Note
  BY DEF Numbered, Note, Packet
<1>3. \A i \in 1 .. Len(q) : Numbered(q[i]) \in Note
  BY <1>1, <1>2
<1> HIDE DEF Note
<1> QED BY <1>1, <1>3 DEF Notes

\* A packet at the end of the queue is one at the end of its notes.
LEMMA NotesAppend ==
    ASSUME NEW q \in Seq(Packet), NEW p \in Packet
    PROVE  Notes(Append(q, p)) = Append(Notes(q), Numbered(p))
<1>1. Append(q, p) \in Seq(Packet) /\ Len(Append(q, p)) = Len(q) + 1 /\ Len(q) \in Nat
  OBVIOUS
<1>2. Numbered(p) \in Note
  BY DEF Numbered, Note, Packet
<1>3. /\ Notes(q) \in Seq(Note) /\ Len(Notes(q)) = Len(q)
      /\ \A i \in 1 .. Len(q) : Notes(q)[i] = Numbered(q[i])
  BY NotesFacts
<1>4. /\ Notes(Append(q, p)) \in Seq(Note) /\ Len(Notes(Append(q, p))) = Len(q) + 1
      /\ \A i \in 1 .. Len(q) + 1 : Notes(Append(q, p))[i] = Numbered(Append(q, p)[i])
  BY <1>1, NotesFacts
<1> HIDE DEF Note
<1>5. /\ Append(Notes(q), Numbered(p)) \in Seq(Note)
      /\ Len(Append(Notes(q), Numbered(p))) = Len(q) + 1
  BY <1>2, <1>3
<1>6. ASSUME NEW i \in 1 .. Len(q) + 1
      PROVE  Notes(Append(q, p))[i] = Append(Notes(q), Numbered(p))[i]
  <2>1. Notes(Append(q, p))[i] = Numbered(Append(q, p)[i])
    BY <1>4
  <2>2. CASE i \in 1 .. Len(q)
    <3>1. Append(q, p)[i] = q[i] /\ Append(Notes(q), Numbered(p))[i] = Notes(q)[i]
      BY <1>2, <1>3, <2>2
    <3> QED BY <1>3, <2>1, <2>2, <3>1
  <2>3. CASE i = Len(q) + 1
    <3>1. Append(q, p)[i] = p
      BY <2>3
    <3>2. Append(Notes(q), Numbered(p))[i] = Numbered(p)
      BY <1>2, <1>3, <2>3
    <3> QED BY <2>1, <3>1, <3>2
  <2>4. i \in 1 .. Len(q) \/ i = Len(q) + 1
    BY <1>1
  <2> QED BY <2>2, <2>3, <2>4
<1> QED BY <1>4, <1>5, <1>6, SameElements

\* The first of the queue is the first of its notes.
LEMMA NotesTail ==
    ASSUME NEW q \in Seq(Packet), q # <<>>
    PROVE  /\ Notes(q) # <<>> /\ Head(Notes(q)) = Numbered(Head(q))
           /\ Notes(Tail(q)) = Tail(Notes(q))
<1>1. /\ Tail(q) \in Seq(Packet) /\ Len(Tail(q)) = Len(q) - 1 /\ Len(q) \in Nat \ {0}
      /\ Head(q) = q[1] /\ \A i \in 1 .. Len(q) - 1 : Tail(q)[i] = q[i + 1]
  OBVIOUS
<1>2. /\ Notes(q) \in Seq(Note) /\ Len(Notes(q)) = Len(q)
      /\ \A i \in 1 .. Len(q) : Notes(q)[i] = Numbered(q[i])
  BY NotesFacts
<1>3. /\ Notes(Tail(q)) \in Seq(Note) /\ Len(Notes(Tail(q))) = Len(q) - 1
      /\ \A i \in 1 .. Len(q) - 1 : Notes(Tail(q))[i] = Numbered(Tail(q)[i])
  BY <1>1, NotesFacts
<1> HIDE DEF Note
<1>4. /\ Notes(q) # <<>> /\ Head(Notes(q)) = Notes(q)[1]
      /\ Tail(Notes(q)) \in Seq(Note) /\ Len(Tail(Notes(q))) = Len(q) - 1
      /\ \A i \in 1 .. Len(q) - 1 : Tail(Notes(q))[i] = Notes(q)[i + 1]
  BY <1>1, <1>2
<1>5. \A i \in 1 .. Len(q) - 1 : i + 1 \in 1 .. Len(q)
  BY <1>1
<1>6. \A i \in 1 .. Len(q) - 1 : Notes(Tail(q))[i] = Tail(Notes(q))[i]
  BY <1>1, <1>2, <1>3, <1>4, <1>5
<1>7. Notes(Tail(q)) = Tail(Notes(q))
  BY <1>3, <1>4, <1>6, SameElements
<1> QED BY <1>1, <1>2, <1>4, <1>7

\* A packet that is broadcast is not taken for none.
LEMMA CurrentFacts ==
    ASSUME IInv
    PROVE  /\ bcPc # "idle" <=> Current # [no |-> 0]
           /\ bcPc # "idle" => Current.no = bcPkt.no /\ Current.reliable = bcPkt.reliable
<1>1. bcPc # "idle" => bcPkt.no # 0
  BY DEF IInv, TypeOK, QueueInv
<1>2. Numbered(bcPkt).no = bcPkt.no /\ Numbered(bcPkt).reliable = bcPkt.reliable
  BY DEF Numbered
<1>3. [no |-> 0].no = 0
  OBVIOUS
<1> HIDE DEF Numbered
<1> QED BY <1>1, <1>2, <1>3 DEF Current, Broadcasting

\* Who the loop has still to come to, and what has been given, depend on no others
\* of the variables of PacketRelay.
LEMMA TodoFrame ==
    ASSUME UNCHANGED <<seat, bcVars>>
    PROVE  UNCHANGED <<Todo, Current>>
  BY DEF Todo, Current, Broadcasting

\* The numbers a client has been given depend on the packets it has been given.
LEMMA GotFrame == given' = given => GotNos' = GotNos
  BY DEF GotNos

\* Numbers that clients have been given after one more packet: the packets of
\* SendThread have none.
LEMMA GotGrows ==
    ASSUME IInv, NEW s \in Slot, Accepts(s), NEW p \in Packet, Give(s, p)
    PROVE  GotNos' = [GotNos EXCEPT ![seat[s]] = @ \cup ({p.no} \ {0})]
<1>1. TypeOK
  BY DEF IInv
<1>2. /\ seat[s] \in Conn
      /\ \A c \in Conn : \A i \in DOMAIN given[c] :
            i \in DOMAIN given'[c] /\ given'[c][i] = given[c][i]
      /\ \A c \in Conn : \A i \in DOMAIN given'[c] :
            i \notin DOMAIN given[c] => c = seat[s] /\ given'[c][i] = p
      /\ \E i \in DOMAIN given'[seat[s]] : given'[seat[s]][i] = p
  BY <1>1, GivenGrows
<1>3. ASSUME NEW c \in Conn
      PROVE  GotNos'[c] = IF c = seat[s] THEN GotNos[c] \cup ({p.no} \ {0}) ELSE GotNos[c]
  <2>1. /\ GotNos[c] = {given[c][i].no : i \in DOMAIN given[c]} \ {0}
        /\ GotNos'[c] = {given'[c][i].no : i \in DOMAIN given'[c]} \ {0}
    BY DEF GotNos
  <2>2. CASE c = seat[s]
    <3>1. {given'[c][i].no : i \in DOMAIN given'[c]}
            = {given[c][i].no : i \in DOMAIN given[c]} \cup {p.no}
      BY <1>2, <2>2
    <3> QED BY <2>1, <2>2, <3>1
  <2>3. CASE c # seat[s]
    <3>1. {given'[c][i].no : i \in DOMAIN given'[c]} = {given[c][i].no : i \in DOMAIN given[c]}
      BY <1>2, <2>3
    <3> QED BY <2>1, <2>3, <3>1
  <2> QED BY <2>2, <2>3
<1>4. GotNos = [c \in Conn |-> GotNos[c]] /\ GotNos' = [c \in Conn |-> GotNos'[c]]
  BY DEF GotNos
<1> QED BY <1>2, <1>3, <1>4

\* Who is still to be given the packet, as a condition on a connection.
IsTodo(x) ==
    /\ bcPc # "idle" /\ x # NoConn
    /\ \E t \in Slot : t >= bcAt /\ t # bcPkt.index /\ seat[t] = x

\* todo of Broadcasts is the set of these.
LEMMA TodoMembers ==
    /\ \A x : x \in Todo <=> IsTodo(x)
    /\ \A x : x \in Todo' <=> IsTodo(x)'
  BY DEF Todo, IsTodo, Broadcasting

-----------------------------------------------------------------------------
(* The steps of PacketRelay are steps of Broadcasts.                        *)

\* A client that takes a slot the loop has not passed will be given the packet.
LEMMA TakeSeatEnters ==
    ASSUME IInv, NEW s \in Slot, NEW c \in Conn, TakeSeat(s, c)
    PROVE  Broadcasts!Next
<1>1. /\ Seats!Take(s, c) /\ seat[s] = NoConn /\ c # NoConn
      /\ seat'[s] = c /\ \A t \in Slot \ {s} : seat'[t] = seat[t]
      /\ UNCHANGED <<queueVars, netVars, bcVars>>
  BY DEF IInv, TypeOK, TakeSeat, Seats!Take
<1>2. UNCHANGED <<count, Pending, GotNos, Current>>
  BY <1>1, GotFrame DEF Pending, Current, Broadcasting
<1>3. CASE bcPc # "idle" /\ s >= bcAt /\ s # bcPkt.index
  <2>1. \A x : IsTodo(x)' <=> IsTodo(x) \/ x = c
    BY <1>1, <1>3 DEF IsTodo
  <2>2. Todo' = Todo \cup {c}
    BY <2>1, TodoMembers
  <2>3. Current # [no |-> 0]
    BY <1>3, CurrentFacts
  <2> QED BY <1>1, <1>2, <2>2, <2>3, EnterMaps
<1>4. CASE ~(bcPc # "idle" /\ s >= bcAt /\ s # bcPkt.index)
  <2>1. \A x : IsTodo(x)' <=> IsTodo(x)
    BY <1>1, <1>4 DEF IsTodo
  <2>2. Todo' = Todo
    BY <2>1, TodoMembers
  <2> QED BY <1>1, <1>2, <2>2, EnterMaps
<1> QED BY <1>3, <1>4

\* A client that leaves is no longer to be given anything.
LEMMA LeaveSeatLeaves ==
    ASSUME IInv, NEW s \in Slot, LeaveSeat(s)
    PROVE  Broadcasts!Next
<1>1. /\ Seats!Leave(s) /\ seat'[s] = NoConn /\ \A t \in Slot \ {s} : seat'[t] = seat[t]
      /\ UNCHANGED <<queueVars, netVars, bcVars>>
  BY DEF IInv, TypeOK, LeaveSeat, Seats!Leave
<1>2. UNCHANGED <<count, Pending, GotNos, Current>>
  BY <1>1, GotFrame DEF Pending, Current, Broadcasting
<1>3. \A t \in Slot : seat[t] = seat[s] /\ seat[s] # NoConn => t = s
  BY DEF IInv, SeatInv
<1>4. \A x : IsTodo(x)' <=> IsTodo(x) /\ x # seat[s]
  BY <1>1, <1>3 DEF IsTodo
<1>5. Todo' = Todo \ {seat[s]}
  BY <1>4, TodoMembers
<1> QED BY <1>1, <1>2, <1>5, LeaveMaps

\* Every handler queues one packet for all.
LEMMA PushQueues ==
    ASSUME IInv, NEW kind \in {"Login", "State"}, NEW s \in Slot,
           NEW who \in Conn \cup {NoConn}, NEW rel \in BOOLEAN,
           PushBroadcast(kind, s, who, rel), UNCHANGED <<seat, used, given, bcVars>>
    PROVE  Broadcasts!Next
<1>1. PICK p \in Packet :
          /\ p.index = s /\ p.reliable = rel /\ p.no = count + 1
          /\ count' = count + 1 /\ bcQue' = Append(bcQue, p)
  BY PushFacts DEF IInv
<1>2. bcQue \in Seq(Packet)
  BY DEF IInv, TypeOK
<1>3. Numbered(p) = [no |-> count + 1, index |-> s, reliable |-> rel]
  BY <1>1 DEF Numbered
<1>4. Pending = Notes(bcQue) /\ Pending' = Notes(bcQue')
  BY DEF Pending, Notes
<1>5. Pending' = Append(Pending, [no |-> count + 1, index |-> s, reliable |-> rel])
  BY <1>1, <1>2, <1>3, <1>4, NotesAppend
<1>6. UNCHANGED <<Todo, Current, GotNos>>
  BY TodoFrame, GotFrame
<1> QED BY <1>1, <1>5, <1>6, QueueMaps

\* Login, FireEvent, Movement, AnimState and Weapon packets alike.
LEMMA HandlerQueues ==
    ASSUME IInv, NEW s \in Slot, Handler(s)
    PROVE  Broadcasts!Next
<1>1. CASE RecvLoginPacket(s)
  <2>1. PICK rel \in BOOLEAN : rel = TRUE
    OBVIOUS
  <2>2. /\ PushBroadcast("Login", s, seat[s], rel) /\ seat[s] \in Conn
        /\ UNCHANGED <<seat, used, given, bcVars>>
    BY <1>1, <2>1 DEF RecvLoginPacket, IInv, TypeOK
  <2> QED BY <2>2, PushQueues
<1>2. ASSUME NEW rel \in BOOLEAN, Relay(s, rel) PROVE Broadcasts!Next
  <2>1. /\ PushBroadcast("State", s, NoConn, rel)
        /\ UNCHANGED <<seat, used, given, bcVars>>
    BY <1>2 DEF Relay
  <2> QED BY <2>1, PushQueues
<1> QED BY <1>1, <1>2
        DEF Handler, RecvFireEventPacket, RecvMovementPacket, RecvAnimPacket, RecvWeaponPacket

\* SendThread's packets are none of the broadcasts.
LEMMA SendCallStutters ==
    ASSUME IInv, SendCall
    PROVE  UNCHANGED Broadcasts!vars
<1>1. /\ sndPkt \in Packet /\ sndPkt.index \in Slot /\ sndPkt.no = 0
      /\ UNCHANGED <<seat, used, bcQue, count, bcVars>>
  BY DEF SendCall, IInv, ThreadInv, QueueInv, Packet
<1>2. UNCHANGED <<Pending, Todo, Current>>
  BY <1>1, TodoFrame DEF Pending
<1>3. GotNos' = GotNos
  <2>1. CASE Accepts(sndPkt.index) /\ Give(sndPkt.index, sndPkt)
    <3>1. GotNos' = [GotNos EXCEPT ![seat[sndPkt.index]] = @ \cup ({sndPkt.no} \ {0})]
      BY <1>1, <2>1, GotGrows
    <3>2. seat[sndPkt.index] \in Conn
      BY <1>1, <2>1, AcceptsFacts DEF IInv
    <3> QED BY <1>1, <3>1, <3>2 DEF GotNos
  <2>2. CASE given' = given
    BY <2>2, GotFrame
  <2> QED BY <2>1, <2>2 DEF SendCall
<1> QED BY <1>1, <1>2, <1>3 DEF Broadcasts!vars

\* The broadcast of a packet begins with all clients but the sender's to be given it.
LEMMA TakeBegins ==
    ASSUME IInv, BroadcastTake
    PROVE  Broadcasts!Next
<1>1. /\ bcPc = "idle" /\ bcQue # <<>> /\ bcPkt' = Head(bcQue) /\ bcQue' = Tail(bcQue)
      /\ bcAt' = 0 /\ bcPc' = "check"
      /\ UNCHANGED <<seat, used, count, given>>
  BY DEF BroadcastTake
<1>2. bcQue \in Seq(Packet)
  BY DEF IInv, TypeOK
<1>3. /\ Pending # <<>> /\ Head(Pending) = Numbered(Head(bcQue))
      /\ Pending' = Tail(Pending)
  <2>1. Pending = Notes(bcQue) /\ Pending' = Notes(bcQue')
    BY DEF Pending, Notes
  <2> QED BY <1>1, <1>2, <2>1, NotesTail
<1>4. Current = [no |-> 0] /\ Current' = Head(Pending)
  BY <1>1, <1>3 DEF Current, Broadcasting, Numbered
<1>5. Head(Pending).index = Head(bcQue).index
  BY <1>3 DEF Numbered
<1>6. \A t \in Slot : t >= 0
  OBVIOUS
<1>7. \A x : IsTodo(x)' <=> x # NoConn /\ \E t \in Slot : t # Head(Pending).index /\ seat[t] = x
  BY <1>1, <1>5, <1>6 DEF IsTodo
<1>8. Todo' = {seat[s] : s \in Slot \ {Head(Pending).index}} \ {NoConn}
  BY <1>7, TodoMembers
<1>9. GotNos' = GotNos
  BY <1>1, GotFrame
<1> QED BY <1>1, <1>3, <1>4, <1>8, <1>9, BeginMaps

\* The loop passes an empty slot and the sender's.
LEMMA SkipStutters ==
    ASSUME IInv, BroadcastSkip
    PROVE  UNCHANGED Broadcasts!vars
<1>1. /\ bcPc = "check" /\ bcAt \in Slot /\ bcAt' = bcAt + 1
      /\ seat[bcAt] = NoConn \/ bcPkt.index = bcAt
      /\ UNCHANGED <<bcPc, bcPkt, seat, used, bcQue, count, given>>
  BY DEF BroadcastSkip
<1>2. \A t \in Slot : t >= bcAt <=> t >= bcAt + 1 \/ t = bcAt
  BY <1>1
<1>3. \A x : IsTodo(x)' <=> IsTodo(x)
  BY <1>1, <1>2 DEF IsTodo
<1>4. Todo' = Todo
  BY <1>3, TodoMembers
<1>5. UNCHANGED <<Pending, Current, GotNos>>
  BY <1>1, GotFrame DEF Pending, Current, Broadcasting
<1> QED BY <1>1, <1>4, <1>5 DEF Broadcasts!vars

\* A send that is accepted delivers the packet, to a client that has not got it;
\* one that is not is given up, tried again, or of no consequence because the
\* client has left its slot.
LEMMA CallDelivers ==
    ASSUME IInv, BroadcastCall
    PROVE  Broadcasts!Next \/ UNCHANGED Broadcasts!vars
<1> DEFINE c0 == seat[bcAt]
<1>1. /\ bcPc = "call" /\ bcPc' = "check" /\ bcPkt \in Packet
      /\ bcAt \in Slot /\ bcPkt.index # bcAt
      /\ UNCHANGED <<bcPkt, seat, used, bcQue, count>>
  BY DEF BroadcastCall, IInv, ThreadInv
<1>2. \/ Accepts(bcAt) /\ Give(bcAt, bcPkt) /\ bcAt' = bcAt + 1
      \/ bcPkt.reliable /\ bcAt' = bcAt /\ given' = given
      \/ ~bcPkt.reliable /\ bcAt' = bcAt + 1 /\ given' = given
  BY DEF BroadcastCall
<1>3. UNCHANGED <<Pending, Current>>
  BY <1>1 DEF Pending, Current, Broadcasting
<1>4. Current.no = bcPkt.no /\ Current.reliable = bcPkt.reliable
  BY <1>1, CurrentFacts
<1>5. c0 # NoConn => c0 \in Todo
  <2>1. bcAt >= bcAt
    BY <1>1
  <2> QED BY <1>1, <2>1, TodoMembers DEF IsTodo
<1>6. ASSUME bcAt' = bcAt + 1 PROVE Todo' = Todo \ {c0}
  <2>1. \A t \in Slot : t >= bcAt <=> t >= bcAt + 1 \/ t = bcAt
    BY <1>1
  <2>2. bcAt + 1 > bcAt /\ ~(bcAt >= bcAt + 1)
    BY <1>1
  <2>3. \A t \in Slot : seat[t] = c0 /\ c0 # NoConn => t = bcAt
    BY <1>1 DEF IInv, SeatInv
  <2>4. \A x : IsTodo(x)' <=> IsTodo(x) /\ x # c0
    BY <1>1, <1>6, <2>1, <2>2, <2>3 DEF IsTodo
  <2> QED BY <2>4, TodoMembers
<1>7. CASE Accepts(bcAt) /\ Give(bcAt, bcPkt) /\ bcAt' = bcAt + 1
  <2>1. c0 \in Conn
    BY <1>1, <1>7, AcceptsFacts DEF IInv
  <2>2. GotNos' = [GotNos EXCEPT ![c0] = @ \cup ({bcPkt.no} \ {0})]
    BY <1>1, <1>7, GotGrows
  <2>3. bcPkt.no # 0
    BY <1>1 DEF IInv, TypeOK, QueueInv
  <2>4. GotNos' = [GotNos EXCEPT ![c0] = @ \cup {Current.no}]
    BY <1>4, <2>2, <2>3
  <2>5. Current.no \notin GotNos[c0]
    <3>1. \A i \in DOMAIN given[c0] : given[c0][i].no # bcPkt.no
      <4>1. ~(bcAt < bcAt)
        BY <1>1
      <4> QED BY <1>1, <2>1, <4>1 DEF IInv, GivenInv
    <3> QED BY <1>4, <2>1, <3>1 DEF GotNos
  <2>6. c0 \in Todo /\ Todo' = Todo \ {c0}
    BY <1>5, <1>6, <1>7, <2>1
  <2> HIDE DEF c0
  <2> QED BY <1>1, <1>3, <2>1, <2>4, <2>5, <2>6, DeliverMaps
<1>8. CASE bcPkt.reliable /\ bcAt' = bcAt /\ given' = given
  <2>1. \A x : IsTodo(x)' <=> IsTodo(x)
    BY <1>1, <1>8 DEF IsTodo
  <2>2. Todo' = Todo
    BY <2>1, TodoMembers
  <2> QED BY <1>1, <1>3, <1>8, <2>2, GotFrame DEF Broadcasts!vars
<1>9. CASE ~bcPkt.reliable /\ bcAt' = bcAt + 1 /\ given' = given
  <2>1. GotNos' = GotNos
    BY <1>9, GotFrame
  <2>2. CASE c0 = NoConn
    <3>1. Todo' = Todo
      BY <1>6, <1>9, <2>2, TodoMembers DEF IsTodo
    <3> QED BY <1>1, <1>3, <2>1, <3>1 DEF Broadcasts!vars
  <2>3. CASE c0 # NoConn
    <3>1. c0 \in Conn
      BY <1>1, <2>3 DEF IInv, TypeOK
    <3>2. c0 \in Todo /\ Todo' = Todo \ {c0} /\ ~Current.reliable
      BY <1>4, <1>5, <1>6, <1>9, <2>3
    <3> HIDE DEF c0
    <3> QED BY <1>1, <1>3, <2>1, <3>1, <3>2, GiveUpMaps
  <2> QED BY <2>2, <2>3
<1> QED BY <1>2, <1>7, <1>8, <1>9

\* The loop ends with nobody left to be given the packet.
LEMMA DoneEnds ==
    ASSUME IInv, BroadcastDone
    PROVE  Broadcasts!Next
<1>1. /\ bcPc = "check" /\ bcAt = CLIENT_MAX /\ bcPc' = "idle"
      /\ UNCHANGED <<seat, used, bcQue, count, given>>
  BY DEF BroadcastDone
<1>2. Current # [no |-> 0] /\ Current' = [no |-> 0]
  BY <1>1, CurrentFacts DEF Current, Broadcasting
<1>3. \A x : ~IsTodo(x) /\ ~IsTodo(x)'
  BY <1>1 DEF IsTodo
<1>4. Todo = {} /\ Todo' = {}
  BY <1>3, TodoMembers
<1>5. UNCHANGED <<Pending, GotNos>>
  BY <1>1, GotFrame DEF Pending
<1> QED BY <1>1, <1>2, <1>4, <1>5, EndMaps

-----------------------------------------------------------------------------
(* The refinement.                                                          *)

\* An empty server maps to one on which nothing was broadcast.
LEMMA InitMaps == Init => Broadcasts!Init
  BY DEF Init, Broadcasts!Init, Seats!Init, Broadcasts!Seats!Init, Seats!Slot,
         Broadcasts!Seats!Slot, Broadcasts!Nothing,
         Pending, Current, Todo, GotNos, Broadcasting

\* Every step of PacketRelay is one of Broadcasts, or none of its variables change.
LEMMA NextMaps == IInv /\ [Next]_vars => [Broadcasts!Next]_Broadcasts!vars
<1> SUFFICES ASSUME IInv, [Next]_vars PROVE Broadcasts!Next \/ UNCHANGED Broadcasts!vars
  OBVIOUS
<1>1. ASSUME UNCHANGED <<seat, used, bcQue, count, given, bcPkt, bcAt>>, bcPc' = bcPc
      PROVE  UNCHANGED Broadcasts!vars
  BY <1>1, TodoFrame, GotFrame DEF Broadcasts!vars, Pending
<1>2. CASE UNCHANGED vars
  BY <1>1, <1>2 DEF vars
<1>3. ASSUME NEW s \in Slot, NEW c \in Conn, TakeSeat(s, c) PROVE Broadcasts!Next
  BY <1>3, TakeSeatEnters
<1>4. ASSUME NEW s \in Slot, LeaveSeat(s) PROVE Broadcasts!Next
  BY <1>4, LeaveSeatLeaves
<1>5. ASSUME NEW s \in Slot, Handler(s) PROVE Broadcasts!Next
  BY <1>5, HandlerQueues
<1>6. ASSUME NEW c \in Conn, PeerEnds(c) \/ PeerReads(c) PROVE UNCHANGED Broadcasts!vars
  BY <1>1, <1>6 DEF PeerEnds, PeerReads
<1>7. CASE OnConnected
  BY <1>1, <1>7 DEF OnConnected
<1>8. CASE SendThread
  BY <1>1, <1>8, SendCallStutters DEF SendThread, SendTake
<1>9. CASE SendBroadCastThread
  <2>1. CASE BroadcastPick
    <3>1. UNCHANGED <<seat, used, bcQue, count, given>> /\ \A x : IsTodo(x)' <=> IsTodo(x)
      BY <2>1 DEF BroadcastPick, IsTodo
    <3>2. Todo' = Todo
      BY <3>1, TodoMembers
    <3>3. UNCHANGED <<Pending, Current, GotNos>>
      BY <2>1, GotFrame DEF BroadcastPick, Pending, Current, Broadcasting
    <3> QED BY <3>1, <3>2, <3>3 DEF Broadcasts!vars
  <2> QED BY <1>9, <2>1, TakeBegins, SkipStutters, CallDelivers, DoneEnds DEF SendBroadCastThread
<1> QED BY <1>2, <1>3, <1>4, <1>5, <1>6, <1>7, <1>8, <1>9 DEF Next

\* The queue and the loop over the slots, with clients coming and going under it
\* and sends tried again in place, do what Broadcasts says.
THEOREM Refinement == Spec => ImplementsBroadcasts
  BY InitMaps, NextMaps, Inductive, PTL DEF Spec, ImplementsBroadcasts, Broadcasts!Spec
=============================================================================
