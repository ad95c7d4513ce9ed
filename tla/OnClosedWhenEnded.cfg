SPECIFICATION FairSpec
CONSTANTS
    Conn = {c1, c2}
    NoConn = NoConn
    CLIENT_MAX = 1
    SOCK_MAXCONN = 1
    Worker = {w1}
    Sender = {}
    MaxPackets = 1
PROPERTIES OnClosedWhenEnded
CHECK_DEADLOCK FALSE
