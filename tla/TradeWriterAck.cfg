\* One task, no fault: what an acknowledged stage guarantees.
CONSTANTS
    Trades <- TwoTrades
    Tasks = {k1}
    BatchSize = 2
    BufRecords = 3
    Torn = Torn
    Faults = {}
    Direct = FALSE
    Replays = {TRUE}
    MaxCrashes = 0
SPECIFICATION Spec
INVARIANTS AckedIsDurable
CHECK_DEADLOCK FALSE
