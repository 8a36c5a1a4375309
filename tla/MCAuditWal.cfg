CONSTANTS
    e1 = e1
    e2 = e2
    Evals <- TwoEvals
    WithFinding <- OneEval
    MaxDay = 2
    SignerModes = {"kms", "noop"}
    Faults = {"write", "fsync", "commit", "machine"}
    MaxCrash = 2
SPECIFICATION FairSpec
INVARIANTS
    TypeOK
    AckedDurable
    CommittedIsLogged
    NoForeignKeyAbort
PROPERTIES
    ImplementsLog
    EventuallyServing
CHECK_DEADLOCK FALSE
