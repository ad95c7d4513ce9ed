SPECIFICATION FairSpec
CONSTANTS
    Conn = {c1, c2}
    NoConn = NoConn
    CLIENT_MAX = 1
    SOCK_MAXCONN = 1
    Worker = {w1, w2}
    Sender = {bcast}
    MaxPackets = 2
INVARIANTS TypeOK DispatchReadsOwn
PROPERTIES HandledInOrder ResetReleasesSlot ArmedKeepsReading ListenQueueServed
CHECK_DEADLOCK FALSE
