\* A pipe on stdin, and an ACK overtaken by later ones: nothing is lost.
SPECIFICATION Spec
CONSTANTS
    Seqnums = 6
    WindowSize = 3
    Chunks = 4
    Minute = 1
    NULL = NULL
    IoFaults = FALSE
    InputIsPipe = TRUE
    InputIsStdin = TRUE
    Duplicates = FALSE
    Losses = FALSE
    Corruption = FALSE
    EarlyTimeout = FALSE
INVARIANT
    IdleSenderReads
CHECK_DEADLOCK FALSE
