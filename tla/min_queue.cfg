SPECIFICATION FairSpec
CONSTANTS
    Items <- MCItems
    Greater <- MCGreater
    SlotsPerMalloc = 3
    NULL = NULL
INVARIANTS
    TypeOK
    HeapOrder
    RootIsMinimal
PROPERTIES
    IsPriorityQueue
    CallsReturn
