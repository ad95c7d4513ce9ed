SPECIFICATION Spec
CONSTANTS
    Conn = {c1, c2, c3}
    NoConn = NoConn
    CLIENT_MAX = 2
    SOCK_MAXCONN = 1
    Worker = {w1, w2}
    Sender = {}
    MaxPackets = 1
SYMMETRY Symmetry
INVARIANTS IInv OneReceiveChain ChainOwnsSlot AcceptSlotIsFree ClosesOwnOnce
PROPERTIES ImplementsSeats
CHECK_DEADLOCK FALSE
