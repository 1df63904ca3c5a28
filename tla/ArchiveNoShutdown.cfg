\* The daemon: main returns without a call of shutdown.
CONSTANTS
    Hours = {h1, h2}
    NoHour = NoHour
    ChannelCap = 2
    FlushEvery = 2
    Faults = {}
    CallsShutdown = FALSE
    MaxFrames = 1
    MaxRuns = 1
SPECIFICATION Spec
SYMMETRY HourSymmetry
INVARIANTS ExitFlushes
CHECK_DEADLOCK FALSE
