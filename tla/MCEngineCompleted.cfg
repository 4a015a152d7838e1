SPECIFICATION FairSpec
CONSTANTS
    a = a
    b = b
    c = c
    u1 = u1
    u2 = u2
    yes = yes
    no = no
    NoOutcome = NoOutcome
    NoUser = NoUser
    Steps <- MCSteps
    OutcomeNames <- MCOutcomeNames
    Users = {u1, u2}
    Workflows <- OnlyApproval
    RetryLimit = 2
    MaxFaults = 0
PROPERTY CompletedIsFinal
