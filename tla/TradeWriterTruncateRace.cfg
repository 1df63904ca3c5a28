\* Two tasks and a process crash: a truncate against a stage.
CONSTANTS
    Trades <- TwoTrades
    Tasks = {k1, k2}
    BatchSize = 2
    BufRecords = 3
    Torn = Torn
    Faults = {"crash"}
    Direct = FALSE
    Replays = {TRUE}
    MaxCrashes = 1
SPECIFICATION Spec
INVARIANTS NoLoggedTradeLost
CHECK_DEADLOCK FALSE
