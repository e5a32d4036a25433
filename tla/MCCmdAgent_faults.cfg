SPECIFICATION Spec
CONSTANTS
    Macs <- Macs1
    Fds <- Fds4
    NoRow = NoRow
    Wild = Wild
    NULL = NULL
    QueryFaults = {"fail", "lost", "applied"}
    MAXFDS = 3
    Cells <- CoreCells
    Files = {"conf", "big"}
    ClobberFiles = {"big"}
    PeerFaults = {"reset", "abort", "accept"}
    MaxConns = 2
    MaxCells = 3
    MaxRuns = 2
INVARIANTS BatchLive WatchedForReading RowsLive Delivery
PROPERTIES RowsLeaveWithPeer
CHECK_DEADLOCK FALSE
