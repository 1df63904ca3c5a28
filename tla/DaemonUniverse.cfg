\* No signal: what the bootstrap subscribes to.
CONSTANTS
    Tickers = {t1}
    Fields = {f1}
    TradeIds = {i1}
    Brokers = {b1}
    Msgs <- DaemonFeed
    Workers = {w1}
    ChannelCap = 1
    ArchiveCap = 1
    Assets = {}
    PerTickerCapacity = 1
    MaxFrames = 1
    PanicLevel = 2
    Signals = {}
SPECIFICATION DaemonFairSpec
INVARIANTS UniverseSubscribed
CHECK_DEADLOCK FALSE
