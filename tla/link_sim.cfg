\* The link simulator, with all its failing calls.
SPECIFICATION FairSpec
CONSTANTS
    Hosts = {dest, host, other}
    Dest = dest
    Nobody = nobody
    Lengths <- MCLengths
    Arguments <- MCArguments
    Second = 3
    DelayCap = 6
    UIntRange = 23
    NULL = NULL
    MaxDatagrams = 3
    InboxCapacity = 1
    Horizon = 4
INVARIANTS
    TypeOK
PROPERTIES
    IsLossyChannel
    EarlyByLessThanASecond
    SelectWakesInTime
    FixedDelayKeepsOrder
    EveryDatagramHandled
CHECK_DEADLOCK FALSE
