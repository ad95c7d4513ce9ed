SPECIFICATION Spec
CONSTANTS
    MAX_PACKETBUF = 1024
    CLIENT_MAX = 100
    Sends <- MCSends
INVARIANTS EveryPacketRelayed
CHECK_DEADLOCK FALSE
