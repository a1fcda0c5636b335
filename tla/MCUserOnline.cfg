SPECIFICATION UserSpec
CONSTANTS
    Guids = {g1, g2}
    Fds = {f1, f2, f3}
    NoFd = NoFd
    NoGuid = NoGuid
    MaxFails = 2
SYMMETRY Symmetry
CHECK_DEADLOCK FALSE
INVARIANTS
    EntryNamesItsUser
    OnlineUserIsFound
    LoggedOutIsGone
