SPECIFICATION Spec
CONSTANTS
    Cases = {c1, c2}
    Txs = {t1, t2}
    NoTx = NoTx
    Payloads = {p1, p2}
    Registered = {p1}
    Times = {0, 1}
    PerPageMax = 200
    MaxEvents = 2
CONSTRAINT Bounded
INVARIANTS TypeOK ChainIntact AnnouncedOnce PendingIsInserted
PROPERTY TrailIsAppendOnly
