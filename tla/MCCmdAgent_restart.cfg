SPECIFICATION Spec
CONSTANTS
    Macs <- Macs1
    Fds <- Fds4
    NoRow = NoRow
    Wild = Wild
    NULL = NULL
    QueryFaults = {}
    MAXFDS = 4
    Cells <- CoreCells
    Files = {"conf", "big"}
    ClobberFiles = {"big"}
    PeerFaults = {"reset"}
    MaxConns = 3
    MaxCells = 2
    MaxRuns = 2
INVARIANTS LookupFindsClient
CHECK_DEADLOCK FALSE
