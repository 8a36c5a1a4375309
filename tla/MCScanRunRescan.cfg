CONSTANTS
    w1 = w1
    w2 = w2
    p1 = p1
    NumShas = 2
    MaxRuns = 2
    Workers <- OneWorker
    Sweepers <- OneSweeper
    Probers <- NoWorker
    Fanout = 1
    BatchLimit = 1
    MaxBatches = 2
    Drain = FALSE
    Openers = {"rescan"}
    Faults = {"worker", "upload", "sweep"}
SPECIFICATION Spec
PROPERTIES
    FailsAbandonedOnly
CHECK_DEADLOCK FALSE
