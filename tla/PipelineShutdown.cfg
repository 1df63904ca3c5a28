\* A stop request while the server is silent.
CONSTANTS
    Tickers = {t1}
    Fields = {f1}
    TradeIds = {i1}
    Brokers = {b1}
    Msgs <- PlainFeed
    Workers = {w1}
    ChannelCap = 1
    ArchiveCap = 1
    Assets = {}
    PerTickerCapacity = 1
    MaxFrames = 1
SPECIFICATION FairSpec
PROPERTIES ShutdownJoinsReader
CHECK_DEADLOCK FALSE
