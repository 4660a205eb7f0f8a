SPECIFICATION Spec
CONSTANTS
    a = a
    b = b
    Symbols <- TwoSymbols
    Days <- OneDay
    MaxDailyOrders = 1
    MaxQuantity = 1
    Opening <- HoldingA
    Commands = {"signal", "risk", "pause", "reset"}
    Faults = {"crash", "lost_request", "lost_response", "late_request"}
INVARIANTS
    DailyBuyCap
    EntryCapAtBroker
    LiveOrdersHaveIntents
    PauseBoundsBuys
PROPERTIES
    DurableUntilArchived
    JournalDiscipline
    HaltedSubmissions
CHECK_DEADLOCK FALSE
