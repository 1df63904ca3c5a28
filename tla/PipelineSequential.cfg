\* One worker, all messages for the engines: quotes, books and trades follow the feed.
CONSTANTS
    Tickers = {t1}
    Fields = {f1, f2}
    TradeIds = {i1, i2, i3}
    Brokers = {b1}
    Msgs <- EngineFeed
    Workers = {w1}
    ChannelCap = 1
    ArchiveCap = 1
    Assets = {t1}
    PerTickerCapacity = 2
    MaxFrames = 4
SPECIFICATION Spec
SYMMETRY DataSymmetry
INVARIANTS BookOpsInOrder MostRecentWins WindowFollowsFeed
CHECK_DEADLOCK FALSE
