SPECIFICATION Spec
CONSTANTS
    amount = amount
    outcome = outcome
    note = note
    good = good
    bad = bad
    k1 = k1
    k2 = k2
    Absent = Absent
    Null = Null
    Values = {good, bad}
    Paths <- MCPaths
    KeyOf <- MCKeyOf
    DecisionKey = k2
    Required = {amount}
    Allowed <- MCAllowed
    NotManual = {note}
    Patches <- MCPatches
    Clients = {c1, c2}
    MaxVersion = 3
CONSTRAINT Bounded
INVARIANTS TypeOK VersionIdentifiesData
