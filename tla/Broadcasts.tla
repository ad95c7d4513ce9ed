----------------------------- MODULE Broadcasts -----------------------------
(***************************************************************************)
(* What the broadcast queue and its thread promise, without the loop over  *)
(* the slots: packets are broadcast one after the other in the order they  *)
(* were queued; each is given, at most once, to the clients that have a    *)
(* slot other than the sender's; only an unreliable one may be given up    *)
(* for a client that stays.  PacketRelay implements this.                  *)
(***************************************************************************)
EXTENDS Integers, Sequences

CONSTANTS
    Conn,        \* connections the clients may open
    NoConn,      \* INVALID_SOCKET
    CLIENT_MAX   \* length of ClientContexts

Slot == 0 .. CLIENT_MAX - 1

VARIABLES
    seat, used,  \* the slots: see Seats
    queued,      \* number of packets queued so far
    pending,     \* packets that wait
    current,     \* the packet that is broadcast
    todo,        \* clients that are still to be given it
    got          \* numbers of the packets a client has been given

vars == <<seat, used, queued, pending, current, todo, got>>

Seats == INSTANCE Seats

\* Packets are numbered from 1.
Nothing == [no |-> 0]

Init ==
    /\ Seats!Init
    /\ queued = 0 /\ pending = <<>>
    /\ current = Nothing /\ todo = {}
    /\ got = [c \in Conn |-> {}]

Queue(index, reliable) ==
    /\ queued' = queued + 1
    /\ pending' = Append(pending, [no |-> queued + 1, index |-> index, reliable |-> reliable])
    /\ UNCHANGED <<seat, used, current, todo, got>>

Begin ==
    /\ current = Nothing /\ pending # <<>>
    /\ current' = Head(pending) /\ pending' = Tail(pending)
    /\ todo' = {seat[s] : s \in Slot \ {Head(pending).index}} \ {NoConn}
    /\ UNCHANGED <<seat, used, queued, got>>

Deliver(c) ==
    /\ c \in todo /\ current.no \notin got[c]
    /\ got' = [got EXCEPT ![c] = @ \cup {current.no}]
    /\ todo' = todo \ {c}
    /\ UNCHANGED <<seat, used, queued, pending, current>>

GiveUp(c) ==
    /\ c \in todo /\ ~current.reliable
    /\ todo' = todo \ {c}
    /\ UNCHANGED <<seat, used, queued, pending, current, got>>

End ==
    /\ current # Nothing /\ todo = {}
    /\ current' = Nothing
    /\ UNCHANGED <<seat, used, queued, pending, todo, got>>

\* A client that comes in the middle may be given the packet or not.
Enter(s, c) ==
    /\ Seats!Take(s, c)
    /\ todo' \in {todo} \cup {todo \cup {c} : p \in {current} \ {Nothing}}
    /\ UNCHANGED <<queued, pending, current, got>>

Leave(s) ==
    /\ Seats!Leave(s)
    /\ todo' = todo \ {seat[s]}
    /\ UNCHANGED <<queued, pending, current, got>>

Next ==
    \/ \E s \in Slot, reliable \in BOOLEAN : Queue(s, reliable)
    \/ Begin \/ End
    \/ \E c \in Conn : Deliver(c) \/ GiveUp(c)
    \/ \E s \in Slot : Leave(s) \/ \E c \in Conn : Enter(s, c)

Spec == Init /\ [][Next]_vars
=============================================================================
