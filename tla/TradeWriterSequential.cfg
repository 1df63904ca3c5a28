\* One task at a time, crashes, power losses and lost answers to the INSERT, a BufWriter that
\* never fills, placeholders in the log; a boot that calls recover_from_wal, as the daemon's
\* does not (TradeWriterNoReplay.cfg).
CONSTANTS
    Trades <- ThreeTrades
    Tasks = {k1}
    BatchSize = 2
    BufRecords = 5
    Torn = Torn
    Faults = {"crash", "power", "reply_lost"}
    Direct = TRUE
    Replays = {TRUE}
    MaxCrashes = 2
SPECIFICATION FairSpec
INVARIANTS NoLoggedTradeLost
PROPERTY StagedEventuallyStored
CHECK_DEADLOCK FALSE
