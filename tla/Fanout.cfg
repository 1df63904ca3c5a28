\* A coalesced and an immediate key, both callers of flush_once, a sink that may refuse writes.
CONSTANTS
    Tickers = {t1}
    Kinds = {"quote", "trade"}
    ZeroWindow = {"trade"}
    Flushers = {"flush_task", "flush_all"}
    SinkFails = TRUE
    Expires = TRUE
    MaxUpdates = 2
SPECIFICATION FairSpec
INVARIANTS TypeOK NewestKept
PROPERTIES StreamIsLatestFeed SnapshotIsLatestFeed CatchesUp
CHECK_DEADLOCK FALSE
