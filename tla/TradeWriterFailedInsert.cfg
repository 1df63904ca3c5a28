\* One task, a refused INSERT, no crash.
CONSTANTS
    Trades <- TwoTrades
    Tasks = {k1}
    BatchSize = 2
    BufRecords = 3
    Torn = Torn
    Faults = {"db_error"}
    Direct = FALSE
    Replays = {TRUE}
    MaxCrashes = 0
SPECIFICATION Spec
INVARIANTS NoLoggedTradeLost
CHECK_DEADLOCK FALSE
