SPECIFICATION Spec
CONSTANTS
    Fds = {f1, f2}
    Devices = {d1, d2}
    NoFd = NoFd
    NoDev = NoDev
    MaxFails = 2
    MaxRestarts = 1
SYMMETRY Symmetry
CHECK_DEADLOCK FALSE
INVARIANTS
    CacheExact
    NoticeExact
    AddrAllOrNothing
PROPERTIES
    OnlineNoticeMeansRegistered
