\* tests/simple_test.sh, with sockets that may overflow.
SPECIFICATION FairSpec
CONSTANTS
    Seqnums = 8
    WindowSize = 4
    Chunks = 6
    Minute = 2
    NULL = NULL
    IoFaults = FALSE
    InputIsPipe = FALSE
    InputIsStdin = TRUE
    SocketCapacity = 2
INVARIANTS
    PrefixDelivery
PROPERTIES
    TransferEnds
    ImplementsStream
CHECK_DEADLOCK FALSE
