\* A packet lost that was stamped in the last second of a minute.
SPECIFICATION FairSpec
CONSTANTS
    Seqnums = 4
    WindowSize = 3
    Chunks = 2
    Minute = 2
    NULL = NULL
    IoFaults = FALSE
    InputIsPipe = FALSE
    InputIsStdin = TRUE
    Duplicates = FALSE
    Losses = TRUE
    Corruption = FALSE
    EarlyTimeout = FALSE
PROPERTY
    BothEnd
CHECK_DEADLOCK FALSE
