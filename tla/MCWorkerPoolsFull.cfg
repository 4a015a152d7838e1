SPECIFICATION FairSpec
CONSTANTS
    k1 = k1
    k2 = k2
    a = a
    b = b
    c = c
    d = d
    Cases = {k1, k2}
    Steps <- MCSteps
    CaseOf <- MCCaseOf
    Deps <- MCDeps
    MaxConcurrentSteps = 1
    MaxConcurrentEvaluations = 1
CHECK_DEADLOCK FALSE
PROPERTY DispatchedExecutes
