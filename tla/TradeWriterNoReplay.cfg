\* One task, a process crash, the boot sequence of the daemon.
CONSTANTS
    Trades <- TwoTrades
    Tasks = {k1}
    BatchSize = 2
    BufRecords = 3
    Torn = Torn
    Faults = {"crash"}
    Direct = FALSE
    Replays = {FALSE}
    MaxCrashes = 1
SPECIFICATION Spec
INVARIANTS NoLoggedTradeLost
CHECK_DEADLOCK FALSE
