SPECIFICATION StoreSpec
CONSTANTS
    Macs <- MCMacs
    Fds <- MCFds
    NoRow = NoRow
    NoFd = NoFd
    QueryFaults = {"fail", "lost", "applied"}
INVARIANTS StoreTypeOK NeverWrongFd
PROPERTIES FailureChangesNothing
