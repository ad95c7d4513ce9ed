SPECIFICATION FairSpec
CONSTANTS
    Conn = {c1, c2}
    NoConn = NoConn
    CLIENT_MAX = 2
    OutCap = 1
    MaxBroadcasts = 2
PROPERTIES BroadcastReachesAll
CHECK_DEADLOCK FALSE
