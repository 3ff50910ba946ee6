\* The command lines, with all failing calls.
SPECIFICATION Spec
CONSTANTS
    Strings <- MCStrings
    Lines <- MCLines
    MaxFd = 6
    NULL = NULL
INVARIANTS
    TypeOK
    UsageUnderstood
    SenderStaysInArgv
    SocketsClosed
CHECK_DEADLOCK FALSE
