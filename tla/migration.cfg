SPECIFICATION Spec
CONSTANTS
    var1 = var1
    var2 = var2
    home = home
    home1 = home1
    swap = swap
    back = back
    None = None
    Directories = {var1, var2, home}
    Apps = {home1, swap, back}
    Source <- MCSource
    Target <- MCTarget
    Commands = {"w"}
    Reports = {"r"}
    Ledgers = {"bot_state.json"}
    MaxRecords = 2
INVARIANTS
    NoRecordLost
    Resolvable
    ResumesUnchanged
CHECK_DEADLOCK FALSE
