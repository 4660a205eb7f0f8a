SPECIFICATION FairSpec
CONSTANTS
    s = s
    old = old
    oldStop = oldStop
    entry = entry
    exit = exit
    stop = stop
    moved = moved
    worker = worker
    desktop = desktop
    Orders = {entry, exit}
    Protective = {}
    LegacyOrders = {}
    Successors = {}
    StopShares = 2
    MaxShares = 2
    Prices = {1}
    Readers = {worker, desktop}
    Faults = {"crash", "list_lag"}
    OrderSize <- MCOrderSize
    KeyOf <- MCKeyOf
INVARIANTS
    TypeOK
    BookedAsReported
    TerminalIsBooked
PROPERTIES
    BooksOnce
    CatchesUp
CHECK_DEADLOCK FALSE
