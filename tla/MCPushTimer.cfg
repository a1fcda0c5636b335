SPECIFICATION TimerSpec
CONSTANTS
    MaxPush = 3
    MaxTime = 3
    Timeouts = {1, 2}
    MayStart = TRUE
INVARIANTS
    AnsweredOnce
    NeverOversleeps
CHECK_DEADLOCK FALSE
