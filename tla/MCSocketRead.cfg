SPECIFICATION FairSpec
CONSTANTS
    MAX_RECV_BUFF_SIZE = 3
    MaxBytes = 7
INVARIANTS ReadTypeOK Aligned
PROPERTIES ImplementsReading CallReturns
CHECK_DEADLOCK FALSE
