\* A disk that may fail, a process that may crash and starts again, rotation.
CONSTANTS
    Hours = {h1, h2}
    NoHour = NoHour
    ChannelCap = 2
    FlushEvery = 2
    Faults = {"io", "crash"}
    CallsShutdown = TRUE
    MaxFrames = 4
    MaxRuns = 2
SPECIFICATION Spec
SYMMETRY HourSymmetry
INVARIANTS TypeOK ArchiveFaithful ShutdownSavesAll
CHECK_DEADLOCK FALSE
