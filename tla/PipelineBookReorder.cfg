\* Two workers and the book of one ticker.
CONSTANTS
    Tickers = {t1}
    Fields = {f1}
    TradeIds = {i1}
    Brokers = {b1}
    Msgs <- StateFeed
    Workers = {w1, w2}
    ChannelCap = 2
    ArchiveCap = 1
    Assets = {}
    PerTickerCapacity = 1
    MaxFrames = 2
SPECIFICATION Spec
INVARIANTS BookOpsInOrder
CHECK_DEADLOCK FALSE
