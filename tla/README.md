# IOCP_Demo in TLA+

A model of the game server in this repository: a Windows I/O completion port
server that accepts up to `CLIENT_MAX` TCP clients, hands each a client id (the
index of its slot), parses the packets they send and relays them to the other
clients. The modules are written from the code (`IOCPServer.cpp`,
`ClientContext.cpp`, `Packet.cpp`, their headers and the generated
`ShooterProtocol.pb.cc`, all under `src/`), with Winsock and the clients modelled by
what the code can observe of them.

Contents: [components](#1-the-system), [modules](#2-the-modules),
[runs](#3-what-the-runs-check), [fairness](#4-fairness),
[proofs](#5-what-is-proved), [disagreements](#6-where-code-and-documentation-disagree),
[not modelled](#7-what-is-not-modelled), [plan](#8-plan).

## 1. The system

One process, `2 * cores + 4` threads of its own: one AcceptThread, `2 * cores + 1`
WorkThreads, one SendThread, one SendBroadCastThread. They share the vector
`ClientContexts` (fixed after startup, but its elements change), the completion
port `IOHandle`, the two packet queues and `ConnectedPlayers`.

| Component | Code | State | Operations |
|---|---|---|---|
| Client slots | `ClientContext.*`, `IOCPServer.cpp:197-265` | `Socket`, `RecvContext.RecvBuf` of each slot | `ConnectClient`, `ReceivePacket`, `SendPendingPacket`, `CloseSocket`, `IsConnected`, `GetEmptyClientIndex` |
| AcceptThread | `IOCPServer.cpp:355-413` | the slot it picked, the socket it accepted, `ClientCount` | look for an empty slot, `WSAAccept`, fill the slot, register it with the port, `OnConnected`, first `ReceivePacket` |
| WorkThread | `IOCPServer.cpp:415-455` | the completion it is handling | wait at the port; close the slot, report an empty receive, or handle the packet and post the next receive |
| Packet handlers | `IOCPServer.cpp:500-616` | `ConnectedPlayers`, the queues | `RecvLoginPacket`, `RecvFireEventPacket`, `RecvMovementPacket`, `RecvAnimPacket`, `RecvWeaponPacket`, `SendLoginedPlayerPackets` |
| Send queues and threads | `IOCPServer.cpp:208-245, 280-312, 457-498` | `IOSendPacketQue`, `IOSendBCPacketQue` | `GetPendingPacket`, `SendPacket`; `GetPendingBCPacket`, `SendPacketBroadCast` |
| Receive buffer | `ClientContext.cpp:16-64` | the bytes of `RecvBuf`, one buffer per slot | cleared and filled by a receive, read by a handler, overwritten and sent from by the two send threads |
| Packet framing | `IOCPServer.cpp:446-453, 500-507` | none: a receive is taken for a packet | `PacketHeader`, `DeSerializePacket`, `PacketFuncMap` |
| Packet encoding | `Packet.*`, `IOCPServer.h:66-91` | `PacketBuffer` (UINT16 size and position) | `SerializePacket`, `ReservePacket`, `CopyPacket` |
| Protocol messages | `ShooterProtocol.*`, generated by protoc | seven message types | parse, serialize, `ByteSizeLong` |
| Startup, shutdown | `main.cpp`, `IOCPServer.cpp:5-195` | thread handles, the `Is...Run` flags | `InitServer`, `ExecuteMainThread`, `CloseThread` |
| UEServer | `UEServer.*` | none | none (empty) |

How they interact. AcceptThread and the workers share the slots without a lock:
AcceptThread only fills slots that look empty, workers only empty slots whose
receive has failed. A worker learns of a slot through the completion port, whose
key is the address of the slot. Handlers and `OnConnected` are the producers of
the two queues, under the mutex `SendQueLock`; the send threads are their only
consumers and hold the mutex only to take a packet. `SendPendingPacket` copies
the outgoing packet into `RecvBuf`, the buffer receives of the same slot use.
`RecvLock` and `SendLock` exist and are never taken.

What is hard here, and what would make each component correct:

- **Slots.** Check and use are far apart (`GetEmptyClientIndex` ... `ConnectClient`),
  the completion key is a pointer to a slot that may be reused, and there is no
  lock. Right means: one connection in a slot at a time, a slot is reused only
  after nothing of its old connection is in flight, and a socket is closed once,
  by the worker its own completion came to.
- **Receiving.** Any of the workers may get the next packet of a client. Right
  means: one receive in flight per connection, packets handled in order and at
  most once, by the handler of the connection they came from; a connection that
  ends gives its slot back; one that does not goes on being read.
- **Relaying.** Clients come, go and take over slots while a packet walks over the
  slots; sends fail because a buffer is full or a client has gone. Right means: a
  reliable packet reaches everyone who stays, retries do not repeat or reorder
  anything, and any two clients that logged in are told of each other,
  also where one has taken over a slot.
- **Progress.** AcceptThread may stop for good, a retry loop has no exit, a failed
  receive has no successor. Right means: the listen queue is served, the slot of an
  ended connection is emptied, one dead client does not stop the others.
- **The buffer.** Up to four threads and the kernel use one `RecvBuf`, without a lock,
  to receive and to send. Right means: nobody is sent what another client has sent
  to the server through the buffer, and a handler does not mix two receives.
- **Bytes.** TCP cuts the stream where it likes, sizes are UINT16 and are computed
  before the bytes are written, results of parsing are ignored. Right means: a
  packet that arrives whole leaves byte for byte as it came, and one that does not
  brings nothing along that its client did not send.

PROJECT.json lists these hazards line by line with the properties that cover them.

## 2. The modules

```
Seats             what a slot promises: abstract
 ^  ^  ^  ^
 |  |  |  +-- Connections    accept, receive, close; implements Seats
 |  |  |           <- ConnectionsProofs <- MCConnections
 |  |  +----- PacketRelay    handlers, queues, send threads; implements Broadcasts
 |  |              <- PacketRelayProofs <- BroadcastsRefinement, MCPacketRelay
 |  +-------- Broadcasts     what the broadcast queue promises: abstract
 +----------- RecvBuffer     one RecvBuf and everyone who uses it
                   <- RecvBufferProofs <- MCRecvBuffer

Varints           numbers of up to 32 bits as bytes
 ^
ShooterProtocol   the messages and how they are written, byte by byte
 ^            ^
 |            +-- PacketEncoding   header and message   <- PacketEncodingProofs
 |                     ^
ShooterParsing         |           how messages are read <- ShooterParsingProofs
 ^                     |
 +---- StreamFraming --+     a TCP stream, the packets taken from it and sent on
                   <- StreamFramingProofs, MCStreamFraming
```

`SequenceFacts` has the lemmas on sequences that the modules of proofs share.

**Seats** is the contract between the two halves: a slot is given to one
connection at a time, each connection gets a slot once and keeps it until it is
removed. `Connections` is shown to implement it (by TLC and by proof), and
`PacketRelay` and `RecvBuffer` are built on its `Take` and `Leave`, so that what is
shown of them rests on slots behaving as the threads really make them behave.

**Connections** models AcceptThread, WorkThread, the kernel side of the
completion port and the clients, with one action for each place where another
thread may come in between:

| In the code | In the model |
|---|---|
| loop of `GetEmptyClientIndex` | `AcceptSkip`, `AcceptPick`, `AcceptFull`: one slot per step |
| `WSAAccept` | `AcceptSocket`, `AcceptFails` |
| `ConnectClient` | `AcceptConnect` |
| `CreateIoCompletionPort` ... `OnConnected` | `AcceptRegister` |
| `ReceivePacket` | `ReceivePacket`, in `AcceptArm` and `Rearm` |
| an overlapped receive finishing | `CompleteData`, `CompleteEof`, `CompleteError` |
| `GetQueuedCompletionStatus` and the tests after it | `Dequeue` |
| `DeSerializePacket` | `Dispatch` (what the handlers do is in PacketRelay) |
| `OnClosed`, `CloseSocket` | `CloseHandle` up to `closesocket`, then `ClearSocket` |
| `SendPendingPacket` | `SendCheck`, `SendCopy`, `SendCall`: only its use of `RecvBuf` |

A connection is a model value, never used twice even where Windows would reuse a
handle value, so that the successive clients of a slot can be told apart. The
packets of a connection are 1, 2, 3, ...; the buffer of a slot holds zeroes, what
a receive put there (whose, and from which packet on), or an outgoing packet.
A receive takes any number of whole packets, and only the first is handled, as
in the code.

**PacketRelay** models everything from a handler to `WSASend`. A handler holds
`SendQueLock` from its first statement to its last and is one step; so are
`OnConnected` and the two `GetPending...` functions. The send threads are split
between `IsConnected` and `WSASend` and between any two slots. `WSASend` succeeds
on a live connection with room in its send buffer and fails on an empty slot, on
an ended connection and on a full buffer (the sockets are non-blocking: they
inherit it from the listen socket). A packet keeps its kind, its `PacketIndex`,
the client id in its body and, for a login, whose location it carries.
A connection that has ended is `broken` when a worker will notice and `lost`
when none will; which of the two happens when is what `Connections` is about.

**Broadcasts** is what `IOSendBCPacketQue` and its thread promise, without the loop:
packets one after the other in the order they were queued, each at most once to
each client that has a slot other than the sender's, and a reliable one to all of
them that stay before the next begins. A client that arrives meanwhile may be given
the packet or not. `PacketRelay` implements it under a refinement mapping: the
clients "to do" are those in the slots from `i` on, the packets "got" the numbers
in the history variable `given`.

**RecvBuffer** is the buffer of one slot in two pieces, the header and the body of
a packet at its start. `ZeroMemory`, the kernel's write, the two `CopyMemory` and
`WSASend` touch the pieces one at a time, in any order, with every other thread in
between; the handler reads the header first and the body later. A piece remembers
where it comes from: cleared, receive `n` of connection `c`, or outgoing packet `n`.
That there is only one receive per connection is taken from `Connections`, where it
is proved (`OneReceiveChain`, `ChainOwnsSlot`).

**Varints** is how protobuf writes a `uint32`, how it foretells the size (`VarintSize32`
divides the logarithm by 7 by way of 9/64) and how it reads one. Loops over the five
groups of seven bits are written out.

**ShooterProtocol** is the writing of the seven messages, with the sizes as the code
computes them. protoc writes one function per message and purpose; here a message is
its list of fields, and `ByteSizeLong` and `Serialize` go over its fields, of which there
are at most eight. The messages in messages (`PVector`, `PRotator`, `PClientId`) have at
most three and hold numbers only (`FlatSize`, `FlatBytes`), so that no recursion is
needed. A float is its four bytes.

**ShooterParsing** is the reading, of bytes that may be anything: what `_InternalParse`
does in one turn of its loop (`Turn`, and `FlatTurn` for the messages of numbers in the
others), as often as it may be needed. A client sends each field at most once, so eight
turns read a message and four a message of numbers; the turn that is left over there
finds the zeros behind a cut.

**PacketEncoding** is `SerializePacket`: a header made from `ByteSizeLong`, the message
behind it.

**StreamFraming** gives the server one client's packets as bytes, in receives of any
length, and follows each receive through `WorkThread`, `DeSerializePacket`, the
parse and `SerializePacket` to the packet that goes into `IOSendBCPacketQue`. Header
and size fields are two bytes each and sizes are cut to 16 bits. The handlers give
`SerializePacket` a copy of the message and `mutable_id()->index()` as arguments of
one call: the compiler chooses which comes first, and with a message without an id
the choice shows, so both are modelled. What is relayed of a receive that begins in
the middle of a packet is left open (`Unknown`): `PacketSize` may then be any
16-bit number, and the parse is given memory behind `RecvBuf`.

## 3. What the runs check

Passing runs:

| Run | Instance | Shows |
|---|---|---|
| `slots` | 3 connections, 2 slots, 2 workers, 1 packet each | `OneReceiveChain`, `ChainOwnsSlot`, `AcceptSlotIsFree`, `ClosesOwnOnce`, `ImplementsSeats`, and `IInv`, the inductive invariant of the proofs |
| `live` | 2 connections in turn in 1 slot, 2 packets each, 2 workers, 1 send thread | `TypeOK`, `DispatchReadsOwn`, `HandledInOrder`; with fairness `ResetReleasesSlot`, `ArmedKeepsReading`, `ListenQueueServed` |
| `relay` | 3 connections, 3 slots, send buffers of 1 packet, up to 3 broadcasts as `Bound` says | `TypeOK`, `EarlierAreTold`, `NewcomerIsTold`, `ReliableHandedOver`, `BroadcastInOrder` |
| `relay_live` | 2 connections, 2 slots, 2 broadcasts | `ImplementsBroadcasts`; with fairness `ReliableReachesAll`, `ClientLearnsId`; and `IInv`, the inductive invariant of the proofs |
| `recv_buffer` | 2 connections in turn in 1 slot, 2 receives each, 2 packets sent by 2 threads | `TypeOK`, `EchoStaysWithSender`, `HandlesOneReceive`, and `IInv`, the inductive invariant of the proofs |
| `framing` | every kind of packet, with some hundred contents, followed by a second one, cut anywhere | `TypeOK`, `WholePacketsAreExact`, `CutPacketsAddNothing` |

The remaining six runs, in which TLC finds a property violated, are in
[section 6](#6-where-code-and-documentation-disagree).

What the properties say, in words:

- `OneReceiveChain`: of each connection one receive is in flight, at the kernel, at
  the port or with one worker. It is what replaces the lock that is never taken.
- `ChainOwnsSlot`: while it is, the connection is in the slot its key names, so
  the worker never acts on a successor.
- `AcceptSlotIsFree`: what AcceptThread saw empty is empty when it writes to it.
- `ClosesOwnOnce`: a worker closes its own connection, still open, and clears its slot.
- `DispatchReadsOwn`: a handler finds in `RecvBuf` a new packet of its own
  connection, or an outgoing packet a send thread put over it, nothing else. (The
  second case is real: that packet of the client is lost. Its type is one
  `PacketFuncMap` does not know, so nothing is done with it.)
- `HandledInOrder`: packets of a client are handled in order, none twice.
- `ReliableHandedOver`: once the broadcast loop is past a slot, the client that was
  there since the loop began has been given the reliable packet.
- `BroadcastInOrder`: the broadcasts a client is given are in the order they were
  queued, without repetition, retries included.
- `EarlierAreTold`: when a client logs in, every client that had logged in before and
  stays is given the broadcast of this login. What was broadcast about an earlier client
  of the slot does not count, so that a client that takes over a slot must be announced
  although `ConnectedPlayers` has an entry for its id. Nothing is excepted: the broadcast
  of a login is reliable, and it is either given, or queued, or still to reach the slot.
- `NewcomerIsTold`: and the client that logs in is sent what is stored for the slot of
  each of those, in packets made for it: what SendThread gives it of the packets for an
  earlier client of its slot, or a login broadcast before its own, does not count. What is
  stored may be the location of an earlier client (`StoresOwnLocation` in section 6), and
  SendThread may lose a packet for want of buffer space, in which case nothing is claimed.
- `ImplementsBroadcasts`: the loop, with slots that change hands under it and sends
  tried again in place, does what `Broadcasts` says and nothing else. Unlike `ReliableHandedOver`
  and `BroadcastInOrder` it also says that the sender's slot is left out, that a
  packet is not begun before the last is done, and that what is lost is unreliable.
- `EchoStaysWithSender`: what a client has sent may be sent back to it, when a receive
  finishes between a send thread's copy and `WSASend`; it is never sent to another
  client. The reason is an order of calls in `WorkThread`: a packet that was handled is
  cleared by `ReceivePacket` before the slot can be emptied, so that no successor
  can find it there. The mutant that drops the clearing breaks it.
- `HandlesOneReceive`: a handler never reads the header of one received packet and the
  body of another, nor what an earlier client of the slot has sent.
- `WholePacketsAreExact`: a packet at the start of a receive goes to the other clients
  byte for byte, but for its type, under its client's id, whatever came before and
  whatever follows: the sizes `ByteSizeLong` predicts are those of the bytes written.
- `CutPacketsAddNothing`: a packet cut in two is relayed as if it were whole, but what
  others read is its client's own, save for the one value the cut went through.
- `ResetReleasesSlot`, `ArmedKeepsReading`, `ListenQueueServed`,
  `ReliableReachesAll`, `ClientLearnsId`: see the next section.

Why these bounds are enough to be interesting. Two slots and three connections
let a slot be emptied and reused while the other is busy and while AcceptThread
holds a slot it picked. Two workers can be in the hands of one connection, which
is what `OneReceiveChain` excludes; more workers are interchangeable. Two packets
are the fewest that can be handled out of order. Three slots are the fewest in
which a broadcast has two receivers, so that a retry for one comes after a
success for the other; buffers of one packet make every second send fail. Three
logins are what it takes for a client to log in over a stored location while another
is there, and for that login to be left out. Two receives of each of two clients are the fewest with which a buffer can
hold an older receive of the same client and a receive of an earlier one; two
outgoing packets the fewest that can be mixed. Two packets on a stream are the fewest
with which a receive can begin inside one, hold two, or leave the rest of the first
where the second comes to lie; the messages of `MCSends` set every field, leave every
optional one out, nest empty messages, and take numbers on both sides of every
length a varint can have.

The named bounds are `MaxPackets` (Connections: packets of each client),
`MaxBroadcasts` (PacketRelay: packets the clients send in all), `MaxIn` and `MaxOut`
(RecvBuffer: receives on a connection, packets sent to the slot), `Sends` (StreamFraming:
the packets the client may send first and second; its value is `MCSends`), and the
state constraint `Bound` (MCPacketRelay): clients come, one of them may go and have its
slot taken over; there is one broadcast, or two while all stay, or up to three logins
in two of the slots, of which one may be taken over. Numbers in messages end at 2^31 - 1, the largest TLC has; that
sizes and bytes agree up to 2^32 - 1 is proved (section 5). `slots`, `relay` and
`recv_buffer` use symmetry in the connections (and workers and send threads); runs
with a liveness property do not.

All runs set `CHECK_DEADLOCK FALSE`: the model may stop. AcceptThread ends when
every slot is taken, workers sleep on an empty port, and the clients send a
bounded number of packets.

Each property of a passing run has a mutant in PROJECT.json: a change of the model
that corresponds to a plausible mistake in the code (a receive posted before the
packet is handled, the slot cleared before the handle is closed, a slot taken
unseen, a retry that starts over, ...) under which TLC finds the property
violated. The operators are marked "Faulty variant" in the modules and used
nowhere else.

## 4. Fairness

`Connections!FairSpec`: AcceptThread, and each worker that has taken a completion,
keep running (nothing in them blocks; the scheduler of the system is fair); some
worker is woken while the port is not empty (the port is first in, first out, and
all workers wait with `INFINITE`); the kernel finishes a receive that can be
finished (data, a close or a reset has arrived, or the socket has been closed).
Clients owe nothing: they may fall silent at any point.

- `ResetReleasesSlot`: a connection that breaks while a receive is outstanding is
  closed and its slot emptied.
- `ArmedKeepsReading`: once a receive is outstanding, everything the client sends
  is taken out of the socket unless the connection breaks.
- `ListenQueueServed`: no client waits for ever while AcceptThread runs.

`PacketRelay!FairSpec`: the two send threads run (they poll with a sleep),
AcceptThread goes on to `OnConnected`, a worker empties the slot of a broken
connection (that is `ResetReleasesSlot`), and a client that is there reads what
it is sent. The last is an assumption about clients; without it one that stops
reading has the effect of the finding on `BroadcastReachesAll`.

- `ReliableReachesAll`: a reliable broadcast due to a client reaches it, unless its
  connection ends or some slot is held by a client that left unnoticed.
- `ClientLearnsId`: a client is sent its Conn packet, unless its connection ends or
  SendThread lost a packet for want of room in its send buffer. It holds although
  broadcasts may fill that buffer first, and even while a broadcast is stuck: the
  two queues have threads of their own.

`RecvBuffer` and `StreamFraming` state safety only and have no fairness.

## 5. What is proved

`ConnectionsProofs` proves, for any number of slots, connections, workers, send
threads and packets:

| Theorem | Statement |
|---|---|
| `Inductive` | `Spec => []IInv` |
| `TypeCorrect` | `Spec => []TypeOK` |
| `SingleReceive` | `Spec => []OneReceiveChain` |
| `SlotKept` | `Spec => []ChainOwnsSlot` |
| `PickedSlotIsFree` | `Spec => []AcceptSlotIsFree` |
| `ClosesOnce` | `Spec => []ClosesOwnOnce` |
| `ReadsOwn` | `Spec => []DispatchReadsOwn` |
| `InOrder` | `Spec => HandledInOrder` |
| `Refinement` | `Spec => ImplementsSeats` |

These rest on `ConstantsAssumption` alone: `INVALID_SOCKET` is no connection, and
there is at least one slot and one place in the listen queue.

The argument. None of the invariants is inductive alone: that a worker owns the
slot of its completion depends on the completion having been queued under the
right key, that on the receive having been posted on a connection in its slot,
and that on AcceptThread having filled a slot that was really empty. `IInv`
follows a connection through everyone who may hold it:

- `BacklogInv`: in the listen queue it is in no slot, and is there once;
- `AcceptInv`: AcceptThread has picked an empty slot, then holds an unseen connection,
  then has put it there and registered it, with no receive posted yet;
- `PostedInv`: a connection with an outstanding receive is `Settled`: open, in the
  slot of its key, and no longer in AcceptThread's hands;
- `PortInv`: so is one with a completion at the port, which is the only one, and if
  there is data the buffer is `FreshData`;
- `WorkerInv`: so is one a worker has, which is the only worker, until that worker
  has closed it;
- `SeatInv`: whoever is in a slot is registered under it, or about to be;
- `SendInv`: a send thread in the middle of a send has a slot.

There is one lemma per action (`PeerConnectStep` ... `SendCallStep`), which are put
together in `NextStep`. `Refinement` adds that `AcceptConnect` is a `Take`,
`ClearSocket` a `Leave`, and that no other step changes a slot or the set of
connections that had one.

`RecvBufferProofs` proves, for any number of clients, send threads, receives and
outgoing packets:

| Theorem | Statement |
|---|---|
| `Inductive` | `Spec => []IInv` |
| `TypeCorrect` | `Spec => []TypeOK` |
| `EchoStays` | `Spec => []EchoStaysWithSender` |
| `OneReceiveHandled` | `Spec => []HandlesOneReceive` |

It rests on its `ConstantsAssumption`: `INVALID_SOCKET` is no connection and the bounds
are natural numbers. Its `IInv` says when received data can be in the buffer: from the
kernel's write until `ReceivePacket` has cleared the piece it is in, and then it is of
the last receive of the slot's occupant (`BufInv`). So an empty slot has none
(`SeatInv`), and whatever `WSASend` takes was the occupant's when it was taken; the
client the call is for was in the slot then or never comes back to it (`WireInv`).
`ParsedInv` follows what a handler has read until the next receive.

`PacketRelayProofs` and `BroadcastsRefinement` prove, for any number of clients, slots and
packets and send buffers of any length:

| Theorem | Statement |
|---|---|
| `Inductive` | `Spec => []IInv` |
| `TypeCorrect` | `Spec => []TypeOK` |
| `HandedOver` | `Spec => []ReliableHandedOver` |
| `InOrder` | `Spec => []BroadcastInOrder` |
| `EarliersAreTold` | `Spec => []EarlierAreTold` |
| `NewcomersAreTold` | `Spec => []NewcomerIsTold` |
| `Refinement` | `Spec => ImplementsBroadcasts` |

They rest on PacketRelay's `ConstantsAssumption`: `NoConn` is no connection, and
`CLIENT_MAX`, the length of a send buffer and the bound on broadcasts are numbers the
program can have. `IInv` of PacketRelay is the four invariants and

- `ThreadInv`: a send thread has a packet exactly while it sends one, and calls
  `WSASend` only on slots other than the sender's;
- `SeatInv`: a client is in one slot, and one that has been sent anything, logged in, or
  is counted in a broadcast is no newcomer: no slot is ever filled with it again;
- `QueueInv`: broadcasts are numbered in the order of the queue, after the one that is
  being sent; direct packets have no number;
- `GivenInv`: what a client has been given comes before everything in the queue, and
  before the packet that is being broadcast unless the loop is past its slot. This is
  what a retry needs: the slot where a send failed is not past;
- `LoginInv`: a `Login` in the broadcast queue is reliable and about its sender, and
  whoever has logged in has a stored location under its slot; and whoever had logged in
  before a client did (`earlier`) has logged in.

Which of two clients logged in first is kept in a history variable, `earlier`; so is, in
the packet, the client that a packet of `SendThread` was made for (`to`). `EarlierAreTold`
names three places where the broadcast of a login may be: given already, in the queue, or in
the hands of `SendBroadCastThread` before the slot. `NewcomerIsTold` names three for the
direct packet: given, in the queue of `SendThread`, or in its hands. The proof follows a
packet from one place to the next: `BroadcastTake` and `SendTake` move it from a queue into
a thread's hands, `BroadcastCall` hands it over or stays where it is since logins are
reliable (`LoginInv`), `SendCall` hands it over or counts the client among the `missed`. A
login creates the packets in both directions. The client that logs in is in nobody's
`earlier`, since it had not logged in, and its broadcast is for all others; all who have
logged in are in its own `earlier`, and `SendLoginedPlayerPackets` is about the players that
are stored, which `LoginInv` says are at least those.

`Refinement` maps `TakeSeat` to `Enter`, `LeaveSeat` to `Leave`, the handlers to `Queue`,
`BroadcastTake` to `Begin`, `BroadcastCall` to `Deliver`, `GiveUp` or (a failed
reliable send) a stutter, and `BroadcastDone` to `End`; all other steps stutter. It needs
`GivenInv` to know that a client whose turn comes has not got the packet yet, `SeatInv` to
know that it is done with once the loop is past its slot, and `QueueInv` to tell the
broadcasts in `given` from direct packets.

`PacketEncodingProofs` and `ShooterParsingProofs` are about bytes, with no state and no
assumption:

| Theorem | Statement |
|---|---|
| `SizeIsLength` | `VarintSize32(n) = Len(Varint(n))` for every `uint32` |
| `ReadsWhatWasWritten` | `VarintParse` of a varint and any bytes after it gives its length and its value, for every `uint32` |
| `SizeIsWritten` | `ByteSizeLong(type, m) = Len(Serialize(type, m))` for each of the seven messages and all values of its fields |
| `PacketIsFull` | the first word of a packet is its length, the second its type, for all messages |
| `ReadsBack` | `ParseFromArray(type, Serialize(type, m)) = m` for each of the seven messages and all values of its fields |
| `ReadsUpToTheCut` | `ParseFromArray` of a serialized message cut at any byte, with zeros behind the cut, is a message with the values of the first, save in one field, of which a part may be there (`IsCutMessage`); for all messages |

`SizeIsLength` is the division by 9/64: the loop of `Log2FloorNonZero_Portable` is followed
turn by turn (`FiveTurns`) to find in which group of seven bits the highest bit lies
(`Log2Facts`), `| 0x1` moves no number to another group (`OrOneFacts`), and up to a
logarithm of 31 the quotient is right (`SizeFacts`). `SizeIsWritten` goes from numbers
(`NumberFacts`) to messages of numbers (`FlatFacts`), to fields that hold either
(`FieldFacts`), to messages (`MessageFacts`); it also bounds a message by 192 bytes, which
is why the cuts to `UINT16` in `SerializePacket` lose nothing. What a message may hold is
`IsShooterMessage`: a float four bytes, a `uint32` a number below 2^32, a bool 0 or 1, and
an implicit field that is zero is one that is not set.

`ReadsBack` compares the parse with `Upto(type, m, i)`, the part of the message that its
first `i` fields are. A field that is set is read by one turn, whatever follows it
(`FlatTurnReads`, `TurnReads`, which rest on `ReadsWhatWasWritten`), and one that is not
has no bytes, so from `Upto` of `i - 1` and the bytes from field `i` on to `Upto` of `i` and
the bytes behind it is one turn or none (`FlatStep`, `Step`); another turn at the end
changes nothing.

`ReadsUpToTheCut` starts the same way. The fields in front of the cut are read by the turns
that `Step` counts. For the one that the cut goes through there are these cases: its tag is
cut off, and a zero in the place of a tag ends the loop (`ZeroTag`); the tag is there, and
the value is what is left of it and zeros (`VarintCut`, `NumberCut`); or the value is itself
a message, cut in its size, which makes it empty, or behind that, which makes it a message
of numbers cut in turn (`ParseMessageCut`, from `FlatCut`). After that only zeros are left,
so that the next turn is the last (`TurnCut`, `CutStep`).

`StreamFramingProofs` proves, for every list of packets the client may send, every
length of `RecvBuf` and every way the stream is cut:

| Theorem | Statement |
|---|---|
| `TypeCorrect` | `Spec => []TypeOK` |
| `WholePacketsRelayedExactly` | `Spec => []WholePacketsAreExact` |
| `CutPacketsAreOwn` | `Spec => []CutPacketsAddNothing` |

They rest on `ConstantsAssumption`: `RecvBuf` has room for something, and the client sends
messages of types the server has handlers for, with the index the server gave it, which
is below 128 since `CLIENT_MAX` is 100 (`Define.h:28`): such an index is written in one byte,
so that a cut leaves it whole or makes it 0. With 200 slots it could make one client's index
another's. `IInv`
says besides that the packets are in the stream where they were put (`StreamInv`), and that
`RecvBuf` has what a receive has brought while it is handled, and zeros behind that
(`BufferInv`): what is cut is followed by zeros because `ReceivePacket` clears the buffer.
From this `HandlesWhole` follows: `PacketSize` and `PacketID` are those of the packet, and
what is parsed is the client's message (`ReadsBack`); and `Relays`: written again it has the
size it had, so that only the type differs.

When the receive brings only a part of the packet, nothing is done unless three bytes are
there (the type is 0 otherwise); from then on the high bytes of both words, which are zero,
do not matter, and the handler is given a body of the full size, its end cut off
(`HandlesPart`; a message of a client has at least its id, so there is an end). With
`ReadsUpToTheCut` it parses a message that `OneValue` and `IndexOfPart` say enough about, and
`mutable_id()` adds no value to it (`MutableId`); what the other clients parse is that
message again, by `ReadsBack` (`RelaysPart`).

Only model-checked: liveness, since fairness and ENABLED are beyond the prover. Every
invariant and every action property of the passing runs is a theorem.

## 6. Where code and documentation disagree

Each of these has a run in which TLC finds the statement violated.

| Run | Statement | What the code does |
|---|---|---|
| `accepts_while_room` | README.md:10: the server waits until a client connects | AcceptThread returns for good when it once finds every slot taken (`IOCPServer.cpp:366-370`) |
| `closed_when_ended` | IOCPServer.h:29: OnClosed is called when a connection has ended | after an orderly close (0 bytes) nothing is closed and the slot stays taken (`:440-444`); neither when the connection breaks before `ReceivePacket` is called, because `WSARecv` fails and its result is ignored (`:403`, `:452`) |
| `broadcast_reaches_all` | README.md:18: SendBroadCastThread sends to all clients | a reliable send to a client that left unnoticed is repeated for ever, and nobody gets another broadcast (`:232-238`) |
| `own_location` | IOCPServer.cpp:527: store the initial location of the player | the second client of a slot keeps the location of the first (`:522`) |
| `sends_what_was_queued` | README.md:19: all sends go out one after the other through the queues | `SendPendingPacket` sends out of `RecvBuf`, which a receive, `ReceivePacket` and the other send thread write to meanwhile (`ClientContext.cpp:24`) |
| `every_packet_relayed` | README.md:17: WorkThread resends the data received from a client | of several packets in a receive only the first is handled, the rest is cleared away (`:449`) |

The first two violate liveness under `Connections!FairSpec`, the third under
`PacketRelay!FairSpec`; the fair runs of section 3 say what does hold. The last two
are violated by sequences of steps alone: in the first, AcceptThread clears the buffer
for the first receive of a client while the Conn packet for it is being sent from there.

## 7. What is not modelled

- `Dependencies/`, the vendored protobuf: 67,000 of the repository's 73,500 lines. It
  is third-party code, and most of it (descriptors, reflection, text format, the
  compiler plugin) is never run by the server; the few functions the messages rest on
  are in `Varints`, `ShooterProtocol` and `ShooterParsing`. Of the generated `ShooterProtocol.pb.*` the accessors, merging,
  swapping, arenas and reflection are left out, as are fields a message does not have.
- What is relayed of a receive that begins in the middle of a packet: it depends on
  memory behind `RecvBuf`. Of such a receive only its length and the clearing are
  modelled.
- Reuse of handle values: Windows may give a new connection the value of a socket that
  has been closed, even between `closesocket` and `Socket = INVALID_SOCKET`
  (`ClientContext.cpp:106-108`). Connections are told apart in the models whatever their
  handle, so a call on a closed handle fails there, and never meets another connection.
- A packet that SendThread loses because the send buffer is full (`ClientContext.cpp:44`):
  the loss is modelled (`missed`), but nothing says what should follow from it, and
  `NewcomerIsTold` and `ClientLearnsId` make an exception of it.
- A `WSASend` that takes part of a packet: `BytesSend` is not looked at, and what
  becomes of the packet is up to the client, whose code is not here.
- All buffers at once: `RecvBuffer` has the pieces of one slot's buffer, `Connections`
  has all slots but changes a buffer as a whole, `StreamFraming` has the bytes of one
  client to whom nothing is sent. What a handler makes of a received header and the body
  of an outgoing packet is therefore not followed further.
- Startup: everything before the threads exist runs once, in order, and its result is
  the `Init` of the modules and `PacketFuncMap` of StreamFraming.
- Shutdown: `main` returns on "quit" and the process ends with its threads running;
  `CloseThread` is reached only from the destructor of an object nothing deletes.
- `DisconnectSocket`, `GetEmptyClientContext`: nothing calls them. `UEServer` is empty.
- `ClientCount` is kept in `Connections` but nothing is claimed of it: it is never
  decremented, and nothing reads it.
- Memory: `PacketBuffer::Destroy` is never called, so each packet's bytes leak.
- Logging. `OnClosed` only logs, and is part of `CloseHandle`.
- Clients that do not follow the protocol: a client uses the id it was given, and
  logs in before it sends anything else.

## 8. Plan

1. `Seats`, `Connections`, `ConnectionsProofs`: done.
2. `PacketRelay`, `Broadcasts`, `PacketRelayProofs`, `BroadcastsRefinement`: done.
3. `RecvBuffer`, `RecvBufferProofs`: done.
4. `Varints`, `ShooterProtocol`, `PacketEncoding` and their proofs: done.
5. `ShooterParsing`, `StreamFraming` and their proofs: done.
