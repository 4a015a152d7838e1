SPECIFICATION Spec
CONSTANTS
    a = a
    b = b
    c = c
    yes = yes
    no = no
    NoOutcome = NoOutcome
    Steps <- MCSteps
    Order <- MCOrder
    OutcomeNames = {yes, no}
INVARIANTS LoopIsClosure OneEvaluationSuffices TransitionsAreExact CyclesRejected
CHECK_DEADLOCK FALSE
