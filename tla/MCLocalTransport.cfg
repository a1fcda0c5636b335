SPECIFICATION LTFairSpec
CONSTANTS
    MaxPush = 2
    MaxReplies = 2
    MayStop = TRUE
    MaxConns = 2
    MaxMessages = 2
INVARIANTS
    MisuseNeedsSecondReply
PROPERTIES
    ImplementsPushService
    EventuallyTakenUp
CHECK_DEADLOCK FALSE
