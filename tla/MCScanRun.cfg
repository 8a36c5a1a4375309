CONSTANTS
    w1 = w1
    w2 = w2
    p1 = p1
    NumShas = 2
    MaxRuns = 2
    Workers <- TwoWorkers
    Sweepers <- OneSweeper
    Probers <- OneWorker
    Fanout = 2
    BatchLimit = 1
    MaxBatches = 2
    Drain = TRUE
    Openers = {"rescan", "single", "per_row"}
    Faults = {"worker", "upload", "sweep"}
SPECIFICATION FairSpec
INVARIANTS
    TypeOK
    ClaimedOnce
    StatusExplained
PROPERTIES
    StatusMoves
    EverythingEnds
CHECK_DEADLOCK FALSE
