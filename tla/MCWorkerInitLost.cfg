SPECIFICATION FairSpec
CONSTANTS
    thread_num_ = 3
PROPERTIES
    ReturnsInTheEnd
CHECK_DEADLOCK FALSE
