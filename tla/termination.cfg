\* A file through a lossy network: both programs end.
SPECIFICATION FairSpec
CONSTANTS
    Seqnums = 4
    WindowSize = 3
    Chunks = 3
    Minute = 2
    NULL = NULL
    IoFaults = FALSE
    InputIsPipe = FALSE
    InputIsStdin = TRUE
    Duplicates = FALSE
    Losses = TRUE
    Corruption = FALSE
    EarlyTimeout = FALSE
INVARIANTS
    IdleSenderReads
PROPERTIES
    TransferEnds
CHECK_DEADLOCK FALSE
