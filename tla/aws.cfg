SPECIFICATION FairSpec
CONSTANTS
    Clients = {c1, c2}
    Requests <- MCRequests
    Segments = 2
    BufSize = 2
    SocketRoom = 2
INVARIANTS ServerInv TransferInv
PROPERTIES HttpSpec TransfersGoOn
CHECK_DEADLOCK FALSE
