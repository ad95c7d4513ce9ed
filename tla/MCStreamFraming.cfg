SPECIFICATION Spec
CONSTANTS
    MAX_PACKETBUF = 1024
    CLIENT_MAX = 100
    Sends <- MCSends
INVARIANTS TypeOK WholePacketsAreExact CutPacketsAddNothing
CHECK_DEADLOCK FALSE
