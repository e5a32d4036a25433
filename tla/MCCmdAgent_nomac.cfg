SPECIFICATION Spec
CONSTANTS
    Macs <- Macs1
    Fds <- Fds3
    NoRow = NoRow
    Wild = Wild
    NULL = NULL
    QueryFaults = {}
    MAXFDS = 3
    Cells <- NoMacCells
    Files = {"conf", "big"}
    ClobberFiles = {"big"}
    PeerFaults = {}
    MaxConns = 1
    MaxCells = 1
    MaxRuns = 1
INVARIANTS LookupByRequestMac
CHECK_DEADLOCK FALSE
