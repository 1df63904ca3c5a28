\* SIGINT against the flush timer.
CONSTANTS
    Tickers = {t1}
    Fields = {f1}
    TradeIds = {i1}
    Brokers = {b1}
    Msgs <- DaemonFeed
    Workers = {w1}
    ChannelCap = 1
    ArchiveCap = 1
    Assets = {}
    PerTickerCapacity = 1
    MaxFrames = 1
    PanicLevel = 2
    Signals = {"SIGINT"}
SPECIFICATION DaemonFairSpec
PROPERTIES FinalFlushReached
CHECK_DEADLOCK FALSE
