SPECIFICATION Spec
CONSTANTS
    a = a
    b = b
    c = c
    u1 = u1
    u2 = u2
    yes = yes
    no = no
    NoOutcome = NoOutcome
    NoUser = NoUser
    Steps <- MCSteps
    OutcomeNames <- MCOutcomeNames
    Users = {u1, u2}
    Workflows <- MCWorkflows
    RetryLimit = 2
    MaxFaults = 1
INVARIANT ResumesAfterRestart
