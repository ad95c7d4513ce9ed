SPECIFICATION Spec
CONSTANTS
    Conn = {c1, c2}
    NoConn = NoConn
    CLIENT_MAX = 1
    OutCap = 1
    MaxBroadcasts = 2
INVARIANTS StoresOwnLocation
CHECK_DEADLOCK FALSE
