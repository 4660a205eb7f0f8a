SPECIFICATION Spec
CONSTANTS
    a = a
    b = b
    Symbols <- OneSymbol
    Days <- OneDay
    MaxDailyOrders = 1
    MaxQuantity = 2
    Opening <- HoldingA
    Commands = {"risk", "protect", "signal", "reset"}
    Faults = {"crash", "lost_request", "lost_response", "list_lag", "busy_reset"}
INVARIANTS
    TypeOK
    ExitsWithinHoldings
    JournalTrailsBroker
PROPERTIES
    SharesInCustody
CONSTRAINT ResetsApartFromStops
CHECK_DEADLOCK FALSE
