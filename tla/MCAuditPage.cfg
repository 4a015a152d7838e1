SPECIFICATION Spec
CONSTANTS
    Cases = {c1}
    Txs = {t1}
    NoTx = NoTx
    Payloads = {p1}
    Registered = {p1}
    Times = {0}
    PerPageMax = 2
    MaxEvents = 3
CONSTRAINT Bounded
INVARIANT WholeTrailVerified
