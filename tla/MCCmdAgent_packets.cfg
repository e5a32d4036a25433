SPECIFICATION Spec
CONSTANTS
    Macs <- Macs1
    Fds <- Fds4
    NoRow = NoRow
    Wild = Wild
    NULL = NULL
    QueryFaults = {"lost"}
    MAXFDS = 4
    Cells <- OddCells
    Files = {"conf", "big"}
    ClobberFiles = {"big"}
    PeerFaults = {}
    MaxConns = 2
    MaxCells = 3
    MaxRuns = 1
INVARIANTS OwnFields
CHECK_DEADLOCK FALSE
