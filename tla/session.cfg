SPECIFICATION Spec
CONSTANTS
    Days = 2
    Starts = {0, 14}
    DayLength = 18
    OpenTime = 1
    CloseTime = 17
    RiskInterval = 2
    SignalInterval = 16
    SyncInterval = 4
    OpenBuffer = 2
    CloseBuffer = 2
    MaxErrors = 2
    Durations = {0, 1}
    MaxFaults = 1
    Wanted = {1000, 1007, 1030}
    MaxMoves = 1
INVARIANTS
    OnePassADay
    ProtectionKeepsUp
CHECK_DEADLOCK FALSE
