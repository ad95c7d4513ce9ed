SPECIFICATION Spec
CONSTANTS
    Conn = {c1}
    NoConn = NoConn
    Sender = {send, bcast}
    MaxIn = 1
    MaxOut = 2
INVARIANTS SendsWhatWasQueued
CHECK_DEADLOCK FALSE
