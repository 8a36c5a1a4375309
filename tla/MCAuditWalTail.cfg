CONSTANTS
    e1 = e1
    e2 = e2
    Evals <- TwoEvals
    WithFinding <- OneEval
    MaxDay = 1
    SignerModes = {"kms"}
    Faults = {"write", "torn"}
    MaxCrash = 1
SPECIFICATION Spec
INVARIANTS
    NoMalformedAbort
CHECK_DEADLOCK FALSE
