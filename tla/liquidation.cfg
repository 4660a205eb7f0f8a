SPECIFICATION FairSpec
CONSTANTS
    a = a
    b = b
    Symbols <- OneSymbol
    Days <- TwoDays
    MaxDailyOrders = 1
    MaxQuantity = 3
    Opening <- Flat
    Commands = {"risk", "signal"}
    Faults = {}
INVARIANTS
    ExitChain
    RetryAfterDeadAttempt
    ChainWithinFirstAttempt
PROPERTIES
    HaltLiquidates
CHECK_DEADLOCK FALSE
