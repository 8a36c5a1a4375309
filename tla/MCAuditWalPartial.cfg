CONSTANTS
    e1 = e1
    e2 = e2
    Evals <- TwoEvals
    WithFinding <- OneEval
    MaxDay = 1
    SignerModes = {"kms"}
    Faults = {"write"}
    MaxCrash = 1
SPECIFICATION Spec
INVARIANTS
    EvaluationAtomic
CHECK_DEADLOCK FALSE
