SPECIFICATION VcSpec
SYMMETRY Symmetry
CONSTANTS
    MaxPush = 1
    MaxTime = 0
    Timeouts = {0}
    MayStart = TRUE
    Fds = {f1, f2}
    Bevs = {b1, b2}
    ClientIds = {"a"}
    DevIds = {"", "d"}
    MaxConns = 3
    MaxBuilds = 3
INVARIANTS
    ChannelsNameTheirConns
CHECK_DEADLOCK FALSE
