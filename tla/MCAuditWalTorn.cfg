CONSTANTS
    e1 = e1
    e2 = e2
    Evals <- TwoEvals
    WithFinding <- OneEval
    MaxDay = 2
    SignerModes = {"kms", "noop"}
    Faults = {"write", "torn", "long", "fsync", "commit", "machine"}
    MaxCrash = 2
SPECIFICATION Spec
PROPERTIES
    ServesAcked
CHECK_DEADLOCK FALSE
