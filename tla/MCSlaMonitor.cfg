SPECIFICATION FairSpec
CONSTANTS
    t1 = t1
    t2 = t2
    u1 = u1
    u2 = u2
    Nobody = Nobody
    Tasks = {t1, t2}
    Deadline <- MCDeadline
    Action <- MCAction
    Users = {u1, u2}
    ToRole = {u1, u2}
    Seniority <- MCSeniority
    Limit = 2
    MaxTime = 2
    MaxFaults = 1
INVARIANT TypeOK
PROPERTIES BreachIsReal EndedKeepsItsUser 
