SPECIFICATION FairSpec
CONSTANTS
    thread_num_ = 6
PROPERTIES
    InitThreadReturns
CHECK_DEADLOCK FALSE
