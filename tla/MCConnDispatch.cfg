SPECIFICATION FairSpec
CONSTANTS
    thread_num_ = 2
    Fds <- MCFds
    MaxId = 0
    ITEMS_PER_ALLOC = 2
    InitFreeTotal = 1
    PipeCap = 1
    MaxItems = 6
    MaxConns = 5
    MaxNotifyFails = 1
INVARIANTS
    TypeOK
    ItemOwnedOnce
    ConnOwnedOnce
    SfdOwnedOnce
    MapNamesOwner
    BytesMatchItems
    FreelistInBounds
PROPERTIES
    EventuallyServed
