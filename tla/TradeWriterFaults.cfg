\* Two tasks, every fault, and a boot that replays the log or does not.
CONSTANTS
    Trades <- ThreeOneAnonymous
    Tasks = {k1, k2}
    BatchSize = 2
    BufRecords = 1
    Torn = Torn
    Faults = {"wal_io", "db_error", "reply_lost", "crash", "power"}
    Direct = FALSE
    Replays = {TRUE, FALSE}
    MaxCrashes = 2
SPECIFICATION Spec
SYMMETRY TaskSymmetry
INVARIANTS TypeOK OncePerIncarnation
CHECK_DEADLOCK FALSE
