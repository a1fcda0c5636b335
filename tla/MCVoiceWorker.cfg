SPECIFICATION FairSpec
CONSTANTS
    Masters = {"tlv_master"}
    CONN_BUFFER_LEN = 6
    Lens = {4, 5}
    MaxConns = 2
    MaxMessages = 3
    DebugLog = TRUE
INVARIANTS
    NothingSkipped
    HangsOnlyOnTorn
PROPERTIES
    EventuallyServed
CHECK_DEADLOCK FALSE
