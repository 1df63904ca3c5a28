\* One task, a BufWriter that fills, process crashes.
CONSTANTS
    Trades <- ThreeTrades
    Tasks = {k1}
    BatchSize = 3
    BufRecords = 1
    Torn = Torn
    Faults = {"crash"}
    Direct = FALSE
    Replays = {TRUE}
    MaxCrashes = 2
SPECIFICATION Spec
INVARIANTS NoLoggedTradeLost
CHECK_DEADLOCK FALSE
