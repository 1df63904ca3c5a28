\* Two workers, a channel of one frame, every signal.
CONSTANTS
    Tickers = {t1}
    Fields = {f1}
    TradeIds = {i1}
    Brokers = {b1}
    Msgs <- DaemonFeed
    Workers = {w1, w2}
    ChannelCap = 1
    ArchiveCap = 1
    Assets = {}
    PerTickerCapacity = 1
    MaxFrames = 3
    PanicLevel = 2
    Signals = {"SIGINT", "SIGTERM"}
SPECIFICATION DaemonFairSpec
INVARIANTS DaemonTypeOK FifoDelivery ExitDrained
PROPERTIES FramesReachEngines PoolWindsDown PanicStopsDaemon
CHECK_DEADLOCK FALSE
