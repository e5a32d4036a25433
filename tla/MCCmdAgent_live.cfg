SPECIFICATION FairSpec
CONSTANTS
    Macs <- Macs2
    Fds <- Fds2
    NoRow = NoRow
    Wild = Wild
    NULL = NULL
    QueryFaults = {"lost"}
    MAXFDS = 2
    Cells <- SplitCells
    Files = {"conf", "big"}
    ClobberFiles = {"big"}
    PeerFaults = {}
    MaxConns = 3
    MaxCells = 2
    MaxRuns = 1
PROPERTIES ClosedPeersReaped ConnectionsAccepted DataRead
CHECK_DEADLOCK FALSE
