\* sender -f on a FIFO whose writer may be slow, with calls that may fail.
SPECIFICATION Spec
CONSTANTS
    Seqnums = 7
    WindowSize = 5
    Chunks = 5
    Minute = 1
    NULL = NULL
    IoFaults = TRUE
    InputIsPipe = TRUE
    InputIsStdin = FALSE
    Duplicates = TRUE
    Losses = FALSE
    Corruption = FALSE
    EarlyTimeout = TRUE
INVARIANTS
    TypeOK
    WrittenInOrder
    CountersMatchSlots
    NothingWrittenAfterEof
    DeliveryInv
PROPERTIES
    EofNeverReleased
CHECK_DEADLOCK FALSE
