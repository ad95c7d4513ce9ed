------------------------------- MODULE Seats -------------------------------
(***************************************************************************)
(* What the rest of the server may rely on about ClientContexts: a slot is *)
(* given to one connection at a time, a connection gets a slot once, and   *)
(* it keeps that slot until it is removed.  Connections implements this;   *)
(* PacketRelay and RecvBuffer are built on it.                             *)
(***************************************************************************)
EXTENDS Integers

CONSTANTS Conn, NoConn, CLIENT_MAX

Slot == 0 .. CLIENT_MAX - 1

VARIABLES
    seat,   \* the connection in a slot, or NoConn
    used    \* the connections that are or were in a slot

Init ==
    /\ seat = [s \in Slot |-> NoConn]
    /\ used = {}

Take(s, c) ==
    /\ seat[s] = NoConn
    /\ c \notin used
    /\ seat' = [seat EXCEPT ![s] = c]
    /\ used' = used \cup {c}

Leave(s) ==
    /\ seat[s] # NoConn
    /\ seat' = [seat EXCEPT ![s] = NoConn]
    /\ UNCHANGED used

Next == \E s \in Slot : Leave(s) \/ \E c \in Conn : Take(s, c)

Spec == Init /\ [][Next]_<<seat, used>>
=============================================================================
