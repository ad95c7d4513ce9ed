SPECIFICATION Spec
CONSTANTS
    Conn = {c1, c2}
    NoConn = NoConn
    Sender = {send, bcast}
    MaxIn = 2
    MaxOut = 2
SYMMETRY Symmetry
INVARIANTS IInv TypeOK EchoStaysWithSender HandlesOneReceive
CHECK_DEADLOCK FALSE
