\* tests/simple_test.sh on a file of more chunks than there are sequence numbers.
SPECIFICATION FairSpec
CONSTANTS
    Seqnums = 16
    WindowSize = 4
    Chunks = 26
    Minute = 1
    NULL = NULL
    IoFaults = FALSE
    InputIsPipe = FALSE
    InputIsStdin = TRUE
    SocketCapacity = 16
INVARIANT
    PrefixDelivery
CHECK_DEADLOCK FALSE
