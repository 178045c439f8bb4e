SPECIFICATION Spec
CONSTANTS
    Clients = {c1, c2}
    Requests <- MCRequests
    Segments = 2
    BufSize = 2
    SocketRoom = 2
INVARIANT TriedAgainLater
CHECK_DEADLOCK FALSE
