SPECIFICATION HttpFairSpec
CONSTANTS
    Notices = {n1, n2}
    MaxNotices = 4
CHECK_DEADLOCK FALSE
INVARIANTS
    NoticesOnceInOrder
PROPERTIES
    EventuallyRequested
