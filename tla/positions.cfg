SPECIFICATION Spec
CONSTANTS
    s = s
    old = old
    oldStop = oldStop
    entry = entry
    exit = exit
    stop = stop
    moved = moved
    worker = worker
    desktop = desktop
    Orders = {old, oldStop, stop, moved}
    Protective = {oldStop, stop, moved}
    LegacyOrders = {old, oldStop}
    Successors = {moved}
    StopShares = 2
    MaxShares = 1
    Prices = {1, 2}
    Readers = {worker}
    Faults = {"crash", "correction"}
    OrderSize <- MCOrderSize
    KeyOf <- MCKeyOf
INVARIANTS
    SyncedPositions
    CorrectionsNoticed
CHECK_DEADLOCK FALSE
