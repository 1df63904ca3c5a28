\* The asset cache as the daemon builds it: empty.
CONSTANTS
    Tickers = {t1}
    Fields = {f1}
    TradeIds = {i1}
    Brokers = {b1}
    Msgs <- TradeFeed
    Workers = {w1}
    ChannelCap = 2
    ArchiveCap = 1
    Assets = {}
    PerTickerCapacity = 1
    MaxFrames = 1
SPECIFICATION Spec
INVARIANTS TradesPersisted
CHECK_DEADLOCK FALSE
