SPECIFICATION Spec
CONSTANTS
    Conn = {c1, c2, c3}
    NoConn = NoConn
    CLIENT_MAX = 3
    OutCap = 1
    MaxBroadcasts = 3
SYMMETRY Symmetry
INVARIANTS TypeOK EarlierAreTold NewcomerIsTold ReliableHandedOver BroadcastInOrder
CONSTRAINT Bound
CHECK_DEADLOCK FALSE
