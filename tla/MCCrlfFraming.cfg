SPECIFICATION FramingSpec
CONSTANTS
    Bodies <- MCBodies
    MaxBodies = 4
    MaxRead = 6
    DATA_BUFFER_SIZE = 11
INVARIANTS
    DeliveredExactly
    NothingLeftBehind
CHECK_DEADLOCK FALSE
