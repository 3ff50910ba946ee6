\* A regular file through a network that reorders, duplicates, loses and garbles.
SPECIFICATION Spec
CONSTANTS
    Seqnums = 8
    WindowSize = 7
    Chunks = 6
    Minute = 1
    NULL = NULL
    IoFaults = FALSE
    InputIsPipe = FALSE
    InputIsStdin = TRUE
    Duplicates = TRUE
    Losses = FALSE
    Corruption = TRUE
    EarlyTimeout = TRUE
INVARIANTS
    PrefixDelivery
    NoPrematureRelease
    FinishedMeansDelivered
    AcksAreCumulative
    CountersMatchSlots
    AtMostHalfOutstanding
    ScanReachesBack
PROPERTIES
    ImplementsStream
CHECK_DEADLOCK FALSE
