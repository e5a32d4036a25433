SPECIFICATION StoreSpec
CONSTANTS
    Macs <- MCMacs
    Fds <- MCFds
    NoRow = NoRow
    NoFd = NoFd
    QueryFaults = {"fail"}
INVARIANTS ReturnMeansStored
