SPECIFICATION Spec
CONSTANTS
    Macs <- Macs1
    Fds <- Fds6
    NoRow = NoRow
    Wild = Wild
    NULL = NULL
    QueryFaults = {"fail", "lost"}
    MAXFDS = 6
    Cells <- CoreCells
    Files = {"conf", "big"}
    ClobberFiles = {"big"}
    PeerFaults = {"abort"}
    MaxConns = 3
    MaxCells = 3
    MaxRuns = 1
INVARIANTS TypeOK RowsLive Delivery Survives
PROPERTIES ImplementsRouting
CHECK_DEADLOCK FALSE
