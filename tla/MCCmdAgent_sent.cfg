SPECIFICATION Spec
CONSTANTS
    Macs <- Macs1
    Fds <- Fds4
    NoRow = NoRow
    Wild = Wild
    NULL = NULL
    QueryFaults = {}
    MAXFDS = 4
    Cells <- CoreCells
    Files = {"conf", "big"}
    ClobberFiles = {"big"}
    PeerFaults = {}
    MaxConns = 2
    MaxCells = 2
    MaxRuns = 1
INVARIANTS SentMeansTraffic
CHECK_DEADLOCK FALSE
