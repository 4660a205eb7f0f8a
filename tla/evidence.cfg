SPECIFICATION Spec
CONSTANTS
    None = None
    Torn = Torn
    Days = 2
    Cohorts = {1, 2}
    MaxClosed = 1
    Archives = {1}
    Specs = {"frozen"}
    MaxRevisions = 3
    MaxFaults = 1
INVARIANTS
    HistoryRetrievable
PROPERTIES
    SettledPast
CHECK_DEADLOCK FALSE
