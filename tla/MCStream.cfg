SPECIFICATION Spec
CONSTANTS
    e1 = e1
    s1 = s1
    Entries = {e1}
    Stops = {s1}
    Qty = 1
    RestFails = TRUE
    MaxAttempts = 1
    MaxFaults = 1
    MaxWire = 4
INVARIANTS
    TypeOK
    SettledStoreIsTrue
    FinishedOrdersHaveEnded
    FillObservedOnce
PROPERTY EveryOutageIsResolved
CHECK_DEADLOCK FALSE
